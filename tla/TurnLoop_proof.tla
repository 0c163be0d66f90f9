--------------------------- MODULE TurnLoop_proof ---------------------------
(***************************************************************************)
(* Safety of the Agent Loop's turns, for every set of calls, every batch a *)
(* response may ask for, and any number of failures and restarts: what a   *)
(* call's records say together (CallsOnce), what a panel asks for          *)
(* (DecisionsApply), what a restart shows (PanelSurvives), that a call     *)
(* reported as interrupted stays off (CalledOffSafety), and that the       *)
(* provider sees one result of every call (PairingSafety).                 *)
(*                                                                         *)
(* Order: the inductive invariant; sequences and the two functions that    *)
(* filter calls and repair a log; what each kind of append does to the     *)
(* log; the operators that read it; one lemma per action; the theorems.    *)
(* Then a second invariant, about the order of the messages, in the same   *)
(* order on top of the first one.                                          *)
(***************************************************************************)
EXTENDS TurnLoop, DataLemmas

-----------------------------------------------------------------------------
(* The inductive invariant.                                                  *)

Rec == [kind : {"assistant", "request", "allow", "reject", "started", "tool", "synthetic"},
        calls : Seq(Call)]
PanelRec == [kind : {"none", "permission", "gate", "question"}, calls : Seq(Call),
             deferred : Seq(Call), messages : Seq(Rec)]
TurnRec == [kind : {"none", "prompt", "permission", "gate", "question"}, stage : Stage,
            hosts : Seq(Call), running : Seq(Call), redirects : Seq(Call), ask : Seq(Call),
            deferred : Seq(Call), thrown : BOOLEAN, panel : PanelRec, messages : Seq(Rec),
            answered : BOOLEAN]

Types ==
  /\ log \in Seq(Rec) /\ conversation \in Seq(Rec) /\ panel \in PanelRec /\ turn \in TurnRec
  /\ executed \in [Call -> {0, 1}] /\ calledOff \subseteq Call /\ stale \subseteq Call
  /\ used \in [rounds : 0..MaxRounds, prompts : 0..MaxPrompts, troubles : 0..MaxTroubles,
               crashes : 0..MaxCrashes]

Issues(i, c) == log[i].kind = "assistant" /\ c \in Range(log[i].calls)
Declared(c) == \E i \in DOMAIN log : Issues(i, c)
Requested(c) == Has(log, "request", c)
Permitted(c) == Has(log, "allow", c)
Refused(c) == Has(log, "reject", c)
Started(c) == Has(log, "started", c)
Tool(c) == Has(log, "tool", c)
Once(c) == \A i, j \in Results(c) : i = j

\* Each record is about calls issued before it, and a call is issued once.
LogInOrder ==
  /\ \A i \in DOMAIN log :
       IF log[i].kind = "assistant" THEN IsInjective(log[i].calls)
       ELSE log[i].kind # "synthetic" /\ \E c \in Call : Declared(c) /\ log[i].calls = <<c>>
  /\ \A i, j \in DOMAIN log, c \in Call : Issues(i, c) /\ Issues(j, c) => i = j

\* What the records of one call say together.
CallRecords ==
  /\ \A c \in Call \ Gate : Once(c)
  /\ \A c \in Call : executed[c] = 1 =>
       /\ Declared(c) /\ c \notin Interactive
       /\ c \in Asked => Permitted(c)
       /\ c \in Process => Started(c)
  /\ \A c \in Call :
       /\ Requested(c) \/ Resolved(c) => c \in Asked
       /\ Requested(c) => Declared(c)
       /\ Resolved(c) => Requested(c)
       /\ ~(Permitted(c) /\ Refused(c))
       /\ c \in Asked /\ Tool(c) => Resolved(c)

\* Before a call is put to the user, the interactive calls beside it are redirected.
Beside(c, d) == \E i \in DOMAIN log : Issues(i, c) /\ Issues(i, d)
RedirectsFirst ==
  \A c, d \in Call : Requested(c) /\ Beside(c, d) /\ d \in Interactive => Tool(d)

\* The stages of a call: issued, before the user, decided.
Fresh(c) ==
  /\ Declared(c) /\ ~Requested(c) /\ ~Resolved(c) /\ ~Tool(c) /\ executed[c] = 0
  /\ c \notin calledOff
Waiting(c) == c \in Asked /\ Requested(c) /\ ~Resolved(c) /\ (c \in calledOff => c \in stale)
Decided(c) ==
  /\ c \in Asked /\ Requested(c) /\ Resolved(c) /\ ~Tool(c) /\ executed[c] = 0
  /\ c \in calledOff => c \in stale

Open(messages, c) == Declarations(messages, c) # {} /\ Answers(messages, c) = {}

\* A panel asks what the log leaves open.
PanelAgrees(p) ==
  /\ p.kind = "none" => p = NoPanel
  /\ p.kind = "permission" =>
       /\ p.calls # <<>> /\ Range(p.calls) \subseteq Asked
       /\ IsInjective(p.calls) /\ IsInjective(p.deferred)
       /\ Waiting(p.calls[1]) /\ PendingPermission = {p.calls[1]}
       /\ \A c \in Range(Tail(p.calls)) : Fresh(c)
       /\ \A c \in Range(p.deferred) : c \in Agent /\ Decided(c)
       /\ \A c \in Range(p.calls) \cup Range(p.deferred) : Open(p.messages, c)
       /\ \A c \in Range(p.calls), d \in Interactive : Beside(c, d) => Tool(d)
  /\ p.kind = "gate" =>
       /\ p.deferred = <<>> /\ \E g \in Gate : p.calls = <<g>> /\ Declared(g)
       /\ Tool(p.calls[1]) \/ PendingCall(Gate) = {p.calls[1]}
  /\ p.kind = "question" =>
       /\ p.deferred = <<>> /\ \E q \in Question : p.calls = <<q>> /\ Declared(q) /\ ~Tool(q)
       /\ PendingCall(Gate) = {} /\ PendingCall(Question) = {p.calls[1]}

\* Requests the log leaves open are before the user, stale ones apart.
AtUser(p, c) == p.kind = "permission" /\ p.calls[1] = c
RequestsShown ==
  \A c \in Call : Requested(c) /\ ~Resolved(c) /\ c \notin stale =>
    AtUser(panel, c) \/ (At("resolve") /\ AtUser(turn.panel, c))

\* What a turn has left to do at each stage.
Shape(t) ==
  /\ t.stage \in {"provider", "thrown", "resolve", "record", "redirect", "ask", "entries", "entriesRun"}
       => t.hosts = <<>>
  /\ t.stage \in {"provider", "thrown", "resolve", "redirect", "ask"} => t.running = <<>>
  /\ t.stage \in {"provider", "resolve", "ask", "entries", "entriesRun"} => t.redirects = <<>>
  /\ t.stage \in {"provider", "resolve"} => t.ask = <<>>
  /\ t.stage \in {"host", "hostRuns"} => t.hosts # <<>>
  /\ t.stage \in {"record", "entries", "entriesRun"} => t.running # <<>>
  /\ t.stage = "redirect" => t.redirects # <<>>
  /\ t.stage = "ask" => t.ask # <<>>
  /\ t.deferred # <<>> => t.stage = "ask" /\ Range(t.ask) \subseteq Asked
  /\ t.stage \in {"resolve", "entries"} => t.kind \in {"permission", "gate", "question"}
  /\ t.kind = "none" <=> t.stage = "none"

\* The calls a turn has left to do.
Lists(t) ==
  /\ Range(t.hosts) \cap (Asked \cup Agent \cup Interactive) = {} /\ IsInjective(t.hosts)
  /\ Range(t.running) \cap Interactive = {} /\ IsInjective(t.running)
  /\ Range(t.redirects) \subseteq Interactive /\ IsInjective(t.redirects)
  /\ IsInjective(t.ask) /\ IsInjective(t.deferred)
  /\ Range(t.ask) \subseteq Asked \/ \E c \in Interactive : t.ask = <<c>>
  /\ Range(t.ask) \cap (Range(t.redirects) \cup Range(t.running)) = {}
  /\ Range(t.hosts) \cap Range(t.running) = {}

Work(t) == Range(t.hosts) \cup Range(t.running) \cup Range(t.redirects) \cup Range(t.ask)
             \cup Range(t.deferred)

\* How far they are.
WorkAgrees ==
  /\ \A c \in Work(turn) : Declared(c) /\ ~Tool(c) /\ Open(turn.messages, c)
  /\ \A c \in Range(turn.hosts) : Fresh(c) \/ (At("hostRuns") /\ c = Head(turn.hosts))
  /\ \A c \in Range(turn.running) :
       /\ c \in Asked => Resolved(c)
       /\ At("start") => Fresh(c) /\ c \in Agent
       /\ At("entries") => Decided(c)
  /\ \A c \in Range(turn.redirects) \cup Range(turn.ask) : Fresh(c)
  /\ \A c \in Range(turn.deferred) : c \in Agent /\ Decided(c)
  /\ \A c \in Range(turn.ask), d \in Interactive :
       Beside(c, d) => d = c \/ Tool(d) \/ d \in Range(turn.redirects)

\* An interactive call to be opened belongs to the last response.
Latest(i) == log[i].kind = "assistant" /\ \A j \in DOMAIN log : log[j].kind = "assistant" => j <= i
InLatest(c) == \E i \in DOMAIN log : Latest(i) /\ Issues(i, c)
AsksLatest == \A c \in Range(turn.ask) \cap Interactive : InLatest(c)

\* The panel a turn resolves.
ResolvesPanel ==
  /\ turn.kind \in {"none", "prompt"} => turn.panel = NoPanel
  /\ Continuation =>
       /\ turn.panel.kind = turn.kind
       /\ At("resolve") => PanelAgrees(turn.panel) /\ turn.messages = turn.panel.messages
       /\ ~At("resolve") =>
            IF turn.kind = "permission"
            THEN \E c \in Asked : turn.panel.calls[1] = c /\ Resolved(c)
            ELSE /\ turn.panel.deferred = <<>>
                 /\ \E c \in Interactive : /\ turn.panel.calls = <<c>> /\ Declared(c) /\ Tool(c)
                                           /\ turn.kind = "gate" => c \in Gate

\* What the model is shown was issued, and is in the log unless it is synthetic.
FromLog(messages) ==
  \A i \in DOMAIN messages :
    \/ messages[i].kind = "assistant" /\ messages[i] \in Range(log)
    \/ /\ messages[i].kind \in {"tool", "synthetic"}
       /\ \E c \in Call : messages[i].calls = <<c>> /\ Declared(c)

Conversations ==
  /\ FromLog(conversation) /\ FromLog(panel.messages)
  /\ FromLog(turn.messages) /\ FromLog(turn.panel.messages)
  /\ \A c \in calledOff : Declared(c)

IInv ==
  /\ Types /\ LogInOrder /\ CallRecords /\ RedirectsFirst
  /\ PanelAgrees(panel) /\ RequestsShown
  /\ turn.kind = "none" => turn = NoTurn
  /\ turn.kind # "none" => panel = NoPanel
  /\ Shape(turn) /\ Lists(turn) /\ WorkAgrees /\ AsksLatest /\ ResolvesPanel /\ Conversations

-----------------------------------------------------------------------------
(* Sequences: the repair of a log.                                           *)

\* What becomes of one record.
LEMMA RepairedProperties ==
  ASSUME NEW record \in Rec, NEW preserved
  PROVE  /\ Repaired(record, preserved) \in Seq(Rec)
         /\ \A m : m \in Range(Repaired(record, preserved)) <=>
              \/ m = record /\ record.kind \in {"assistant", "tool"}
              \/ /\ record.kind = "assistant"
                 /\ \E c \in Range(record.calls) :
                      ~Has(log, "tool", c) /\ c \notin preserved /\ m = Record("synthetic", <<c>>)
<1>. DEFINE lost == Only(record.calls, {c \in Call : ~Has(log, "tool", c)} \ preserved)
            tail == [i \in DOMAIN lost |-> Record("synthetic", <<lost[i]>>)]
<1>1. record.calls \in Seq(Call)
  BY DEF Rec
<1>2. /\ lost \in Seq(Call)
      /\ Range(lost) = Range(record.calls) \cap ({c \in Call : ~Has(log, "tool", c)} \ preserved)
  BY <1>1, OnlyProperties
<1>3. \A c \in Range(record.calls) : c \in Call
  BY <1>1 DEF Range
<1>. HIDE DEF lost
<1>4. tail \in Seq(Rec)
  <2>1. \A i \in 1..Len(lost) : lost[i] \in Call /\ <<lost[i]>> \in Seq(Call)
    BY <1>2
  <2>2. \A i \in 1..Len(lost) : Record("synthetic", <<lost[i]>>) \in Rec
    BY <2>1 DEF Record, Rec
  <2>3. DOMAIN lost = 1..Len(lost) /\ Len(lost) \in Nat
    BY <1>2
  <2>4. tail \in [1..Len(lost) -> Rec]
    BY <2>2, <2>3
  <2>. HIDE DEF tail
  <2>5. QED
    BY <2>3, <2>4, SeqDef
<1>5. \A m : m \in Range(tail) <=> \E c \in Range(lost) : m = Record("synthetic", <<c>>)
  BY DEF Range
<1>6. CASE record.kind = "assistant"
  <2>1. Repaired(record, preserved) = <<record>> \o tail
    BY <1>6 DEF Repaired, lost
  <2>2. <<record>> \in Seq(Rec) /\ Range(<<record>>) = {record}
    BY DEF Range
  <2>3. /\ <<record>> \o tail \in Seq(Rec)
        /\ Range(<<record>> \o tail) = {record} \cup Range(tail)
    <3>. HIDE DEF tail
    <3>1. \A s, t \in Seq(Rec) : s \o t \in Seq(Rec) /\ Range(s \o t) = Range(s) \cup Range(t)
      BY ConcatRange
    <3>2. QED
      BY <1>4, <2>2, <3>1
  <2>4. \A c : c \in Range(lost) <=> c \in Range(record.calls) /\ ~Has(log, "tool", c) /\ c \notin preserved
    BY <1>2, <1>3
  <2>5. QED
    <3>. HIDE DEF tail
    <3>1. QED
      BY <1>5, <1>6, <2>1, <2>3, <2>4
<1>7. CASE record.kind = "tool"
  <2>1. Repaired(record, preserved) = <<record>>
    BY <1>7 DEF Repaired
  <2>2. QED
    BY <1>7, <2>1 DEF Range
<1>8. CASE record.kind \notin {"assistant", "tool"}
  <2>1. Repaired(record, preserved) = <<>>
    BY <1>8 DEF Repaired
  <2>2. QED
    BY <1>8, <2>1 DEF Range
<1>9. QED
  BY <1>6, <1>7, <1>8

\* The recursion of Repair, unfolded.
Repairs(repaired, preserved) ==
  /\ repaired[0] = <<>> /\ Repair(preserved) = repaired[Len(log)]
  /\ \A n \in 1..Len(log) : repaired[n] = repaired[n - 1] \o Repaired(log[n], preserved)

\* The recursive function behind a repair, equation by equation.
LEMMA RepairPrefixes ==
  ASSUME log \in Seq(Rec), NEW preserved
  PROVE  \E repaired \in [0..Len(log) -> Seq(Rec)] : Repairs(repaired, preserved)
<1>. DEFINE Step(f, n) == f[n - 1] \o Repaired(log[n], preserved)
            Unfolded(m) == {f \in [0..m -> Seq(Rec)] : f[0] = <<>> /\ \A n \in 1..m : f[n] = Step(f, n)}
            Reached == {m \in Nat : m <= Len(log) => Unfolded(m) # {}}
            repaired == CHOOSE f : f = [n \in 0..Len(log) |-> IF n = 0 THEN <<>> ELSE Step(f, n)]
<1>0. Len(log) \in Nat /\ Len(log) <= Len(log) /\ 0 \in 0..Len(log)
  OBVIOUS
<1>1. 0 \in Reached
  <2>1. [n \in 0..0 |-> <<>>] \in Unfolded(0)
    OBVIOUS
  <2>2. QED
    BY <2>1
<1>2. ASSUME NEW m \in Nat, m \in Reached PROVE m + 1 \in Reached
  <2>. SUFFICES ASSUME m + 1 <= Len(log) PROVE Unfolded(m + 1) # {}
    <3>. HIDE DEF Unfolded
    <3>1. QED
      OBVIOUS
  <2>1. PICK f \in Unfolded(m) : TRUE
    <3>. HIDE DEF Unfolded
    <3>1. m <= Len(log)
      BY <1>0
    <3>2. QED
      BY <1>2, <3>1
  <2>2. m + 1 \in 1..Len(log) /\ log[m + 1] \in Rec /\ f[m] \in Seq(Rec)
    BY <2>1
  <2>. DEFINE g == [n \in 0..(m + 1) |-> IF n <= m THEN f[n] ELSE Step(f, m + 1)]
  <2>3. Step(f, m + 1) \in Seq(Rec)
    <3>1. Repaired(log[m + 1], preserved) \in Seq(Rec) /\ (m + 1) - 1 = m
      BY <2>2, RepairedProperties
    <3>2. QED
      BY <2>2, <3>1
  <2>4. g \in [0..(m + 1) -> Seq(Rec)] /\ g[0] = <<>> /\ \A n \in 1..(m + 1) : g[n] = Step(g, n)
    <3>1. \A n \in 0..m : f[n] \in Seq(Rec) /\ g[n] = f[n]
      BY <2>1
    <3>2. g[m + 1] = Step(f, m + 1) /\ Step(g, m + 1) = Step(f, m + 1)
      <4>1. (m + 1) - 1 = m /\ g[m] = f[m]
        BY <3>1
      <4>2. Step(g, m + 1) = Step(f, m + 1)
        <5>. HIDE DEF g
        <5>1. QED
          BY <4>1
      <4>3. g[m + 1] = Step(f, m + 1)
        <5>. HIDE DEF Step
        <5>1. QED
          OBVIOUS
      <4>4. QED
        BY <4>2, <4>3
    <3>3. ASSUME NEW n \in 1..(m + 1) PROVE g[n] = Step(g, n)
      <4>1. CASE n = m + 1
        BY <3>2, <4>1
      <4>2. CASE n # m + 1
        <5>1. n \in 1..m /\ n \in 0..m /\ n - 1 \in 0..m
          BY <4>2
        <5>2. f[n] = Step(f, n) /\ g[n] = f[n] /\ g[n - 1] = f[n - 1]
          BY <2>1, <3>1, <5>1
        <5>. HIDE DEF g
        <5>3. QED
          BY <5>2
      <4>3. QED
        BY <4>1, <4>2
    <3>4. g \in [0..(m + 1) -> Seq(Rec)]
      <4>. HIDE DEF Step
      <4>1. QED
        BY <2>3, <3>1
    <3>5. g[0] = <<>>
      BY <2>1, <3>1
    <3>6. QED
      BY <3>3, <3>4, <3>5
  <2>5. QED
    BY <2>4
<1>3. \A m \in Nat : m \in Reached
  <2>. HIDE DEF Reached
  <2>1. QED
    BY <1>1, <1>2, EveryNatural
<1>4. \E f \in Unfolded(Len(log)) : TRUE
  <2>1. Unfolded(Len(log)) # {}
    BY <1>0, <1>3
  <2>2. QED
    BY <2>1
<1>5. \E f : f = [n \in 0..Len(log) |-> IF n = 0 THEN <<>> ELSE Step(f, n)]
  <2>1. PICK f \in Unfolded(Len(log)) : TRUE
    BY <1>4
  <2>2. \A n \in 0..Len(log) : f[n] = IF n = 0 THEN <<>> ELSE Step(f, n)
    <3>1. f[0] = <<>> /\ \A n \in 1..Len(log) : f[n] = Step(f, n)
      BY <2>1
    <3>. HIDE DEF Step
    <3>2. QED
      BY <1>0, <3>1
  <2>3. f = [n \in 0..Len(log) |-> f[n]]
    BY <2>1
  <2>4. QED
    BY <2>2, <2>3
<1>6. repaired = [n \in 0..Len(log) |-> IF n = 0 THEN <<>> ELSE Step(repaired, n)]
  BY <1>5
<1>7. Repair(preserved) = repaired[Len(log)]
  BY Zenon DEF Repair
<1>. HIDE DEF repaired
<1>8. /\ repaired[0] = <<>>
      /\ \A n \in 1..Len(log) : repaired[n] = Step(repaired, n)
  <2>. HIDE DEF Step
  <2>1. QED
    BY <1>0, <1>6
<1>9. \A n \in 0..Len(log) : repaired[n] \in Seq(Rec)
  <2>. DEFINE Typed == {n \in Nat : n <= Len(log) => repaired[n] \in Seq(Rec)}
  <2>1. 0 \in Typed
    <3>1. <<>> \in Seq(Rec)
      OBVIOUS
    <3>2. QED
      BY <1>8, <3>1
  <2>2. ASSUME NEW n \in Nat, n \in Typed PROVE n + 1 \in Typed
    <3>. SUFFICES ASSUME n + 1 <= Len(log) PROVE repaired[n + 1] \in Seq(Rec)
      OBVIOUS
    <3>1. n + 1 \in 1..Len(log) /\ log[n + 1] \in Rec /\ repaired[n] \in Seq(Rec) /\ (n + 1) - 1 = n
      BY <2>2
    <3>2. repaired[n + 1] = Step(repaired, n + 1)
      BY <1>8, <3>1
    <3>3. Repaired(log[n + 1], preserved) \in Seq(Rec)
      BY <3>1, RepairedProperties
    <3>4. QED
      BY <3>1, <3>2, <3>3
  <2>3. \A n \in Nat : n \in Typed
    <3>. HIDE DEF Typed
    <3>1. QED
      BY <2>1, <2>2, EveryNatural
  <2>4. QED
    BY <2>3
<1>10. repaired \in [0..Len(log) -> Seq(Rec)]
  BY <1>6, <1>9
<1>11. QED
  BY <1>7, <1>8, <1>10 DEF Repairs

\* A repaired history holds the responses and results of the log, and a
\* synthetic result for every other call that is not preserved.
LEMMA RepairProperties ==
  ASSUME log \in Seq(Rec), NEW preserved
  PROVE  /\ Repair(preserved) \in Seq(Rec)
         /\ \A m : m \in Range(Repair(preserved)) <=>
              \E i \in DOMAIN log :
                \/ m = log[i] /\ log[i].kind \in {"assistant", "tool"}
                \/ /\ log[i].kind = "assistant"
                   /\ \E c \in Range(log[i].calls) :
                        ~Has(log, "tool", c) /\ c \notin preserved /\ m = Record("synthetic", <<c>>)
<1>0. PICK repaired \in [0..Len(log) -> Seq(Rec)] : Repairs(repaired, preserved)
  BY RepairPrefixes
<1>1. /\ repaired[0] = <<>> /\ Repair(preserved) = repaired[Len(log)]
      /\ \A n \in 1..Len(log) : repaired[n] = repaired[n - 1] \o Repaired(log[n], preserved)
  BY <1>0 DEF Repairs
<1>2. Len(log) \in Nat /\ DOMAIN log = 1..Len(log) /\ \A n \in 1..Len(log) : log[n] \in Rec
  OBVIOUS
<1>. DEFINE Good(n) == \A m : m \in Range(repaired[n]) <=>
                         \E i \in 1..n : m \in Range(Repaired(log[i], preserved))
            Right == {n \in Nat : n <= Len(log) => Good(n)}
<1>3. 0 \in Right
  BY <1>1 DEF Range
<1>4. ASSUME NEW n \in Nat, n \in Right PROVE n + 1 \in Right
  <2>. SUFFICES ASSUME n + 1 <= Len(log) PROVE Good(n + 1)
    <3>. HIDE DEF Good
    <3>1. QED
      OBVIOUS
  <2>1. n + 1 \in 1..Len(log) /\ (n + 1) - 1 = n /\ log[n + 1] \in Rec /\ repaired[n] \in Seq(Rec)
        /\ Good(n)
    <3>. HIDE DEF Good
    <3>1. QED
      BY <1>2, <1>4
  <2>2. repaired[n + 1] = repaired[n] \o Repaired(log[n + 1], preserved)
    BY <1>1, <2>1
  <2>3. Range(repaired[n + 1]) = Range(repaired[n]) \cup Range(Repaired(log[n + 1], preserved))
    BY <2>1, <2>2, ConcatRange, RepairedProperties
  <2>4. \A i : i \in 1..(n + 1) <=> i \in 1..n \/ i = n + 1
    OBVIOUS
  <2>5. QED
    BY <2>1, <2>3, <2>4
<1>5. \A n \in Nat : n \in Right
  <2>. HIDE DEF Right
  <2>1. QED
    BY <1>3, <1>4, EveryNatural
<1>6. Good(Len(log))
  <2>. HIDE DEF Good
  <2>1. QED
    BY <1>2, <1>5
<1>7. \A i \in 1..Len(log) : \A m : m \in Range(Repaired(log[i], preserved)) <=>
         \/ m = log[i] /\ log[i].kind \in {"assistant", "tool"}
         \/ /\ log[i].kind = "assistant"
            /\ \E c \in Range(log[i].calls) :
                 ~Has(log, "tool", c) /\ c \notin preserved /\ m = Record("synthetic", <<c>>)
  BY <1>2, RepairedProperties
<1>8. Repair(preserved) \in Seq(Rec)
  BY <1>1, <1>2
<1>9. QED
  BY <1>1, <1>2, <1>6, <1>7, <1>8
-----------------------------------------------------------------------------
(* What an append says: notes about issued calls, or a response.             *)

\* Only notes of one kind about some calls were added.
Noted(kind, calls) ==
  /\ log' \in Seq(Rec) /\ LogInOrder'
  /\ \A c \in Call :
       /\ Declared(c)' <=> Declared(c)
       /\ InLatest(c)' <=> InLatest(c)
       /\ Requested(c)' <=> Requested(c) \/ (kind = "request" /\ c \in calls)
       /\ Permitted(c)' <=> Permitted(c) \/ (kind = "allow" /\ c \in calls)
       /\ Refused(c)' <=> Refused(c) \/ (kind = "reject" /\ c \in calls)
       /\ Started(c)' <=> Started(c) \/ (kind = "started" /\ c \in calls)
       /\ Tool(c)' <=> Tool(c) \/ (kind = "tool" /\ c \in calls)
       /\ Once(c) /\ ~(Tool(c) /\ kind = "tool" /\ c \in calls) => Once(c)'
  /\ \A c, d \in Call : Beside(c, d)' <=> Beside(c, d)
  /\ \A messages : FromLog(messages) => FromLog(messages)'

\* A response that asks for calls not issued before was added.
Responded(calls) ==
  /\ log' \in Seq(Rec) /\ LogInOrder'
  /\ \A c \in Call :
       /\ Declared(c)' <=> Declared(c) \/ c \in calls
       /\ InLatest(c)' <=> c \in calls
       /\ Requested(c)' <=> Requested(c)
       /\ Permitted(c)' <=> Permitted(c)
       /\ Refused(c)' <=> Refused(c)
       /\ Started(c)' <=> Started(c)
       /\ Tool(c)' <=> Tool(c)
       /\ Once(c) => Once(c)'
  /\ \A c, d \in Call : Beside(c, d)' <=> Beside(c, d) \/ (c \in calls /\ d \in calls)
  /\ \A messages : FromLog(messages) => FromLog(messages)'

\* A record about one call is of one kind and about one call.
LEMMA RecordsDiffer ==
  ASSUME NEW k, NEW l, NEW c, NEW d, Record(k, <<c>>) = Record(l, <<d>>)
  PROVE  k = l /\ c = d
<1>1. Record(k, <<c>>).kind = k /\ Record(k, <<c>>).calls = <<c>>
      /\ Record(l, <<d>>).kind = l /\ Record(l, <<d>>).calls = <<d>>
  BY DEF Record
<1>2. k = l /\ <<c>> = <<d>>
  BY <1>1
<1>3. <<c>>[1] = <<d>>[1]
  BY <1>2
<1>4. QED
  BY <1>2, <1>3

\* The records a log is extended with keep what was in front of them.
LEMMA NotesAppended ==
  ASSUME log \in Seq(Rec), LogInOrder,
         NEW kind \in {"request", "allow", "reject", "started", "tool"},
         NEW calls \in Seq(Call), \A c \in Range(calls) : Declared(c),
         Len(calls) <= 1 \/ kind # "tool",
         NEW notes \in Seq(Rec), DOMAIN notes = DOMAIN calls,
         \A i \in DOMAIN calls : notes[i] = Record(kind, <<calls[i]>>),
         log' = log \o notes
  PROVE  Noted(kind, Range(calls))
<1>. DEFINE n == Len(log)
            m == Len(calls)
<1>1. /\ log' \in Seq(Rec) /\ DOMAIN log' = 1..(Len(log) + Len(notes))
      /\ \A i \in 1..Len(log) : log'[i] = log[i]
      /\ \A i \in 1..Len(notes) : log'[Len(log) + i] = notes[i]
  <2>. HIDE DEF n, m
  <2>1. log' \in Seq(Rec) /\ DOMAIN log' = 1..(Len(log) + Len(notes))
    OBVIOUS
  <2>2. \A i \in 1..Len(log) : log'[i] = log[i]
    OBVIOUS
  <2>3. \A i \in 1..Len(notes) : log'[Len(log) + i] = notes[i]
    OBVIOUS
  <2>4. QED
    BY <2>1, <2>2, <2>3
<1>2. /\ n \in Nat /\ m \in Nat /\ DOMAIN log = 1..n /\ DOMAIN calls = 1..m
      /\ log' \in Seq(Rec) /\ DOMAIN log' = 1..(n + m)
      /\ \A i \in 1..n : log'[i] = log[i]
      /\ \A i \in 1..m : log'[n + i] = Record(kind, <<calls[i]>>)
  <2>1. Len(notes) = m /\ m \in Nat /\ DOMAIN calls = 1..m /\ n \in Nat /\ DOMAIN log = 1..n
    OBVIOUS
  <2>. HIDE DEF m
  <2>2. QED
    BY <1>1, <2>1
<1>. HIDE DEF n, m
<1>3. ASSUME NEW i \in DOMAIN log', i \notin DOMAIN log
      PROVE  \E c \in Range(calls) : log'[i] = Record(kind, <<c>>) /\ log'[i].kind = kind /\ log'[i].calls = <<c>>
  <2>1. i - n \in 1..m /\ n + (i - n) = i
    BY <1>2, <1>3
  <2>2. PICK c \in Range(calls) : log'[i] = Record(kind, <<c>>)
    BY <1>2, <2>1 DEF Range
  <2>3. Record(kind, <<c>>).kind = kind /\ Record(kind, <<c>>).calls = <<c>>
    BY DEF Record
  <2>4. QED
    BY <2>2, <2>3
<1>4. ASSUME NEW c \in Range(calls) PROVE \E i \in DOMAIN log' : i \notin DOMAIN log /\ log'[i] = Record(kind, <<c>>)
  <2>1. PICK j \in 1..m : calls[j] = c
    BY <1>2 DEF Range
  <2>2. n + j \in DOMAIN log' /\ n + j \notin DOMAIN log
    BY <1>2
  <2>3. QED
    BY <1>2, <2>1, <2>2
<1>5. \A i \in DOMAIN log : i \in DOMAIN log' /\ log'[i] = log[i]
  BY <1>2
<1>6. \A k, c : Has(log', k, c) <=> Has(log, k, c) \/ (k = kind /\ c \in Range(calls))
  <2>. TAKE k, c
  <2>1. Has(log, k, c) \/ (k = kind /\ c \in Range(calls)) => Has(log', k, c)
    BY <1>4, <1>5 DEF Has
  <2>2. ASSUME NEW i \in DOMAIN log', log'[i] = Record(k, <<c>>), i \notin DOMAIN log
        PROVE  k = kind /\ c \in Range(calls)
    <3>1. PICK d \in Range(calls) : log'[i] = Record(kind, <<d>>)
      BY <1>3, <2>2
    <3>2. k = kind /\ c = d
      BY <2>2, <3>1, RecordsDiffer
    <3>3. QED
      BY <3>1, <3>2
  <2>3. QED
    BY <1>5, <2>1, <2>2 DEF Has
<1>7. \A i \in DOMAIN log' : \A c : Issues(i, c)' <=> i \in DOMAIN log /\ Issues(i, c)
  BY <1>3, <1>5 DEF Issues
<1>8. \A i \in DOMAIN log' : (log'[i].kind = "assistant") <=> i \in DOMAIN log /\ log[i].kind = "assistant"
  BY <1>3, <1>5
<1>9. \A c : Declared(c)' <=> Declared(c)
  BY <1>5, <1>7 DEF Declared
<1>10. \A c, d : Beside(c, d)' <=> Beside(c, d)
  BY <1>5, <1>7 DEF Beside
<1>11. \A i \in DOMAIN log : Latest(i)' <=> Latest(i)
  BY <1>5, <1>8 DEF Latest
<1>12. \A c : InLatest(c)' <=> InLatest(c)
  BY <1>5, <1>7, <1>11 DEF InLatest
<1>13. LogInOrder'
  <2>1. ASSUME NEW i \in DOMAIN log'
        PROVE  IF log'[i].kind = "assistant" THEN IsInjective(log'[i].calls)
               ELSE log'[i].kind # "synthetic" /\ \E c \in Call : Declared(c)' /\ log'[i].calls = <<c>>
    <3>1. CASE i \in DOMAIN log
      BY <1>5, <1>9, <3>1 DEF LogInOrder
    <3>2. CASE i \notin DOMAIN log
      <4>1. PICK c \in Range(calls) : log'[i].kind = kind /\ log'[i].calls = <<c>>
        BY <1>3, <3>2
      <4>2. c \in Call
        BY DEF Range
      <4>3. QED
        BY <1>9, <4>1, <4>2
    <3>3. QED
      BY <3>1, <3>2
  <2>2. ASSUME NEW i \in DOMAIN log', NEW j \in DOMAIN log', NEW c \in Call, Issues(i, c)', Issues(j, c)'
        PROVE  i = j
    BY <1>7, <2>2 DEF LogInOrder
  <2>3. QED
    BY <2>1, <2>2 DEF LogInOrder
<1>14. ASSUME NEW c \in Call, Once(c), ~(Tool(c) /\ kind = "tool" /\ c \in Range(calls)) PROVE Once(c)'
  <2>1. ASSUME NEW i \in Results(c)', NEW j \in Results(c)' PROVE i = j
    <3>1. /\ i \in DOMAIN log' /\ log'[i] = Record("tool", <<c>>)
          /\ j \in DOMAIN log' /\ log'[j] = Record("tool", <<c>>)
      BY <2>1 DEF Results
    <3>2. CASE i \in DOMAIN log /\ j \in DOMAIN log
      BY <1>5, <1>14, <3>1, <3>2 DEF Once, Results
    <3>3. CASE i \notin DOMAIN log /\ j \notin DOMAIN log
      <4>1. kind = "tool"
        <5>1. PICK d \in Range(calls) : log'[i] = Record(kind, <<d>>)
          BY <1>3, <3>1, <3>3
        <5>2. QED
          BY <3>1, <5>1, RecordsDiffer
      <4>2. m <= 1
        BY <4>1 DEF m
      <4>3. QED
        BY <1>2, <3>1, <3>3, <4>2
    <3>4. ASSUME NEW a \in DOMAIN log', NEW b \in DOMAIN log', a \in DOMAIN log, b \notin DOMAIN log,
                 log'[a] = Record("tool", <<c>>), log'[b] = Record("tool", <<c>>)
          PROVE  FALSE
      <4>1. kind = "tool" /\ c \in Range(calls)
        <5>1. PICK d \in Range(calls) : log'[b] = Record(kind, <<d>>)
          BY <1>3, <3>4
        <5>2. kind = "tool" /\ c = d
          BY <3>4, <5>1, RecordsDiffer
        <5>3. QED
          BY <5>1, <5>2
      <4>2. Tool(c)
        BY <1>5, <3>4 DEF Tool, Has
      <4>3. QED
        BY <1>14, <4>1, <4>2
    <3>5. QED
      BY <3>1, <3>2, <3>3, <3>4
  <2>2. QED
    BY <2>1 DEF Once
<1>15. ASSUME NEW messages, FromLog(messages) PROVE FromLog(messages)'
  <2>1. Range(log) \subseteq Range(log')
    BY <1>5 DEF Range
  <2>2. QED
    BY <1>9, <1>15, <2>1 DEF FromLog
<1>16. QED
  <2>1. \A c \in Call :
       /\ Requested(c)' <=> Requested(c) \/ (kind = "request" /\ c \in Range(calls))
       /\ Permitted(c)' <=> Permitted(c) \/ (kind = "allow" /\ c \in Range(calls))
       /\ Refused(c)' <=> Refused(c) \/ (kind = "reject" /\ c \in Range(calls))
       /\ Started(c)' <=> Started(c) \/ (kind = "started" /\ c \in Range(calls))
       /\ Tool(c)' <=> Tool(c) \/ (kind = "tool" /\ c \in Range(calls))
    BY <1>6 DEF Requested, Permitted, Refused, Started, Tool
  <2>2. QED
    BY <1>2, <1>9, <1>10, <1>12, <1>13, <1>14, <1>15, <2>1 DEF Noted

\* One note.
LEMMA NoteAppended ==
  ASSUME log \in Seq(Rec), LogInOrder, NEW kind \in {"request", "allow", "reject", "started", "tool"},
         NEW c \in Call, Declared(c), log' = Append(log, Record(kind, <<c>>))
  PROVE  Noted(kind, {c})
<1>. DEFINE calls == <<c>>
            notes == <<Record(kind, <<c>>)>>
<1>1. calls \in Seq(Call) /\ Range(calls) = {c} /\ Len(calls) = 1 /\ calls[1] = c /\ DOMAIN calls = {1}
  BY DEF Range
<1>2. Record(kind, <<c>>) \in Rec
  BY <1>1 DEF Record, Rec
<1>3. notes \in Seq(Rec) /\ DOMAIN notes = {1} /\ notes[1] = Record(kind, <<c>>) /\ log' = log \o notes
  BY <1>2
<1>4. \A i \in DOMAIN calls : notes[i] = Record(kind, <<calls[i]>>)
  BY <1>1, <1>3
<1>5. \A d \in Range(calls) : Declared(d)
  BY <1>1
<1>. HIDE DEF calls, notes
<1>6. Noted(kind, Range(calls))
  <2>1. kind \in {"request", "allow", "reject", "started", "tool"} /\ Len(calls) <= 1
        /\ DOMAIN notes = DOMAIN calls
    BY <1>1, <1>3
  <2>2. QED
    BY <1>1, <2>1, <1>3, <1>4, <1>5, NotesAppended
<1>7. QED
  BY <1>1, <1>6 DEF Noted

\* The start records of those of some calls that are host processes.
LEMMA StartsNoted ==
  ASSUME log \in Seq(Rec), LogInOrder, NEW calls \in Seq(Call), \A c \in Range(calls) : Declared(c),
         log' = log \o StartRecords(calls)
  PROVE  Noted("started", Range(calls) \cap Process)
<1>. DEFINE processes == Only(calls, Process)
            notes == [i \in DOMAIN processes |-> Record("started", <<processes[i]>>)]
<1>1. processes \in Seq(Call) /\ Range(processes) = Range(calls) \cap Process
  BY OnlyProperties
<1>2. log' = log \o notes
  BY DEF StartRecords
<1>. HIDE DEF processes
<1>3. notes \in Seq(Rec) /\ DOMAIN notes = DOMAIN processes
  <2>1. \A i \in 1..Len(processes) : processes[i] \in Call /\ <<processes[i]>> \in Seq(Call)
    BY <1>1
  <2>2. \A i \in 1..Len(processes) : Record("started", <<processes[i]>>) \in Rec
    BY <2>1 DEF Record, Rec
  <2>3. DOMAIN processes = 1..Len(processes) /\ Len(processes) \in Nat
    BY <1>1
  <2>4. notes \in [1..Len(processes) -> Rec]
    BY <2>2, <2>3
  <2>. HIDE DEF notes
  <2>5. QED
    BY <2>3, <2>4, SeqDef
<1>4. \A i \in DOMAIN processes : notes[i] = Record("started", <<processes[i]>>)
  OBVIOUS
<1>. HIDE DEF notes
<1>5. Noted("started", Range(processes))
  BY <1>1, <1>2, <1>3, <1>4, NotesAppended
<1>6. QED
  BY <1>1, <1>5 DEF Noted

\* No note.
LEMMA LogUnchanged ==
  ASSUME log \in Seq(Rec), LogInOrder, log' = log
  PROVE  Noted("none", {})
<1>1. /\ \A c : Declared(c)' <=> Declared(c)
      /\ \A c : InLatest(c)' <=> InLatest(c)
      /\ \A c, d : Beside(c, d)' <=> Beside(c, d)
      /\ \A c : Once(c)' <=> Once(c)
  BY DEF Declared, InLatest, Latest, Issues, Beside, Once, Results
<1>2. \A c : /\ Requested(c)' <=> Requested(c)
             /\ Permitted(c)' <=> Permitted(c)
             /\ Refused(c)' <=> Refused(c)
             /\ Started(c)' <=> Started(c)
             /\ Tool(c)' <=> Tool(c)
  BY DEF Requested, Permitted, Refused, Started, Tool
<1>3. LogInOrder'
  BY DEF LogInOrder, Declared, Issues
<1>4. \A messages : FromLog(messages) => FromLog(messages)'
  BY <1>1 DEF FromLog
<1>5. QED
  BY <1>1, <1>2, <1>3, <1>4 DEF Noted

\* A response.
LEMMA ResponseAppended ==
  ASSUME log \in Seq(Rec), LogInOrder, NEW calls \in Seq(Call), IsInjective(calls),
         \A c \in Range(calls) : ~Declared(c), log' = Append(log, Record("assistant", calls))
  PROVE  Responded(Range(calls))
<1>0. PICK n \in Nat : n = Len(log)
  OBVIOUS
<1>. DEFINE response == Record("assistant", calls)
<1>1. response \in Rec /\ response.kind = "assistant" /\ response.calls = calls
  BY DEF Record, Rec
<1>2. /\ n \in Nat /\ DOMAIN log = 1..n /\ log' \in Seq(Rec) /\ DOMAIN log' = 1..(n + 1)
      /\ log'[n + 1] = response /\ \A i \in 1..n : log'[i] = log[i]
  <2>. HIDE DEF response
  <2>1. log' = Append(log, response)
    BY DEF response
  <2>2. n \in Nat /\ DOMAIN log = 1..n
    BY <1>0
  <2>3. log' \in Seq(Rec) /\ DOMAIN log' = 1..(n + 1)
    BY <1>0, <1>1, <2>1
  <2>4. log'[n + 1] = response /\ \A i \in 1..n : log'[i] = log[i]
    BY <1>0, <1>1, <2>1, <2>2
  <2>5. QED
    BY <2>2, <2>3, <2>4
<1>. HIDE DEF response
<1>3. \A i \in DOMAIN log : i \in DOMAIN log' /\ log'[i] = log[i] /\ i # n + 1 /\ i <= n + 1
  BY <1>2
<1>4. \A i \in DOMAIN log' : i \in DOMAIN log \/ i = n + 1
  BY <1>2
<1>5. n + 1 \in DOMAIN log' /\ n + 1 \notin DOMAIN log /\ log'[n + 1].kind = "assistant"
      /\ log'[n + 1].calls = calls /\ log'[n + 1] = response
  BY <1>1, <1>2
<1>6. \A k, c : k # "assistant" => (Has(log', k, c) <=> Has(log, k, c))
  <2>. SUFFICES ASSUME NEW k, k # "assistant", NEW c PROVE Has(log', k, c) <=> Has(log, k, c)
    OBVIOUS
  <2>1. response # Record(k, <<c>>)
    BY <1>1 DEF Record
  <2>2. QED
    BY <1>3, <1>4, <1>5, <2>1 DEF Has
<1>7. \A i \in DOMAIN log' : \A c : Issues(i, c)' <=> (i \in DOMAIN log /\ Issues(i, c)) \/ (i = n + 1 /\ c \in Range(calls))
  BY <1>3, <1>4, <1>5 DEF Issues
<1>8. \A c : Declared(c)' <=> Declared(c) \/ c \in Range(calls)
  BY <1>3, <1>5, <1>7 DEF Declared
<1>9. \A c, d : Beside(c, d)' <=> Beside(c, d) \/ (c \in Range(calls) /\ d \in Range(calls))
  <2>. TAKE c, d
  <2>1. Beside(c, d) => Beside(c, d)'
    BY <1>3, <1>7 DEF Beside
  <2>2. c \in Range(calls) /\ d \in Range(calls) => Beside(c, d)'
    BY <1>5, <1>7 DEF Beside
  <2>3. Beside(c, d)' => Beside(c, d) \/ (c \in Range(calls) /\ d \in Range(calls))
    BY <1>5, <1>7 DEF Beside
  <2>4. QED
    BY <2>1, <2>2, <2>3
<1>10. Latest(n + 1)' /\ \A i \in DOMAIN log' : Latest(i)' => i = n + 1
  <2>1. Latest(n + 1)'
    <3>1. \A j \in DOMAIN log' : j <= n + 1
      BY <1>2
    <3>2. QED
      BY <1>5, <3>1 DEF Latest
  <2>2. ASSUME NEW i \in DOMAIN log', Latest(i)' PROVE i = n + 1
    <3>1. n + 1 <= i
      BY <1>5, <2>2 DEF Latest
    <3>2. QED
      BY <1>2, <3>1
  <2>3. QED
    BY <2>1, <2>2
<1>11. \A c : InLatest(c)' <=> c \in Range(calls)
  BY <1>5, <1>7, <1>10 DEF InLatest
<1>12. LogInOrder'
  <2>1. ASSUME NEW i \in DOMAIN log'
        PROVE  IF log'[i].kind = "assistant" THEN IsInjective(log'[i].calls)
               ELSE log'[i].kind # "synthetic" /\ \E c \in Call : Declared(c)' /\ log'[i].calls = <<c>>
    <3>1. CASE i \in DOMAIN log
      BY <1>3, <1>8, <3>1 DEF LogInOrder
    <3>2. CASE i \notin DOMAIN log
      BY <1>4, <1>5, <3>2
    <3>3. QED
      BY <3>1, <3>2
  <2>2. ASSUME NEW i \in DOMAIN log', NEW j \in DOMAIN log', NEW c \in Call, Issues(i, c)', Issues(j, c)'
        PROVE  i = j
    <3>1. CASE c \in Range(calls)
      BY <1>7, <2>2, <3>1 DEF Declared
    <3>2. CASE c \notin Range(calls)
      BY <1>7, <2>2, <3>2 DEF LogInOrder
    <3>3. QED
      BY <3>1, <3>2
  <2>3. QED
    BY <2>1, <2>2 DEF LogInOrder
<1>13. ASSUME NEW c \in Call, Once(c) PROVE Once(c)'
  <2>1. response # Record("tool", <<c>>)
    BY <1>1 DEF Record
  <2>2. \A i \in Results(c)' : i \in Results(c)
    BY <1>3, <1>4, <1>5, <2>1 DEF Results
  <2>3. QED
    BY <1>13, <2>2 DEF Once
<1>14. ASSUME NEW messages, FromLog(messages) PROVE FromLog(messages)'
  <2>1. Range(log) \subseteq Range(log')
    BY <1>3 DEF Range
  <2>2. QED
    BY <1>8, <1>14, <2>1 DEF FromLog
<1>15. QED
  <2>1. \A c \in Call :
       /\ Requested(c)' <=> Requested(c)
       /\ Permitted(c)' <=> Permitted(c)
       /\ Refused(c)' <=> Refused(c)
       /\ Started(c)' <=> Started(c)
       /\ Tool(c)' <=> Tool(c)
    BY <1>6 DEF Requested, Permitted, Refused, Started, Tool
  <2>2. QED
    BY <1>2, <1>8, <1>9, <1>11, <1>12, <1>13, <1>14, <2>1 DEF Responded

-----------------------------------------------------------------------------
(* What a log leaves pending.                                                *)

\* A record is its kind and its calls.
LEMMA RecordForm ==
  ASSUME NEW record \in Rec
  PROVE  record = Record(record.kind, record.calls)
BY DEF Rec, Record

\* The last response of a log is unique.
LEMMA LatestResponse ==
  ASSUME log \in Seq(Rec), NEW at, at = {i \in DOMAIN log : log[i].kind = "assistant"}
  PROVE  /\ at = {} => \A c : ~InLatest(c)
         /\ at # {} => /\ Max(at) \in at
                       /\ \A c : InLatest(c) <=> c \in Range(log[Max(at)].calls)
<1>0. at = {} => \A c : ~InLatest(c)
  BY DEF InLatest, Issues
<1>. SUFFICES ASSUME at # {}
              PROVE  Max(at) \in at /\ \A c : InLatest(c) <=> c \in Range(log[Max(at)].calls)
  BY <1>0
<1>1. Len(log) \in Nat /\ at \subseteq 1..Len(log) /\ at \subseteq DOMAIN log
  OBVIOUS
<1>2. Max(at) \in at /\ \A i \in at : i <= Max(at)
  BY <1>1, LastIndex
<1>3. PICK m \in at : m = Max(at)
  BY <1>2
<1>4. m \in DOMAIN log /\ m \in Nat /\ log[m].kind = "assistant"
      /\ \A i \in DOMAIN log : i \in Nat /\ (log[i].kind = "assistant" => i <= m)
  BY <1>2, <1>3
<1>5. Latest(m) /\ \A i \in DOMAIN log : Latest(i) => i = m
  <2>1. Latest(m)
    BY <1>4 DEF Latest
  <2>2. ASSUME NEW i \in DOMAIN log, Latest(i) PROVE i = m
    <3>1. log[i].kind = "assistant" /\ m <= i
      BY <1>4, <2>2 DEF Latest
    <3>2. QED
      BY <1>4, <3>1
  <2>3. QED
    BY <2>1, <2>2
<1>6. \A c : InLatest(c) <=> c \in Range(log[m].calls)
  BY <1>4, <1>5 DEF InLatest, Issues
<1>7. QED
  BY <1>2, <1>3, <1>6

\* The first call of a kind that the last response asks for and nothing answers.
CallsPend ==
  \A kind \in SUBSET Call :
    \/ PendingCall(kind) = {} /\ \A c \in kind : InLatest(c) => Tool(c)
    \/ \E c \in kind : PendingCall(kind) = {c} /\ InLatest(c) /\ ~Tool(c)

\* recoverPendingToolCalls finds an unanswered call of the last response, if any.
LEMMA PendingCalls == log \in Seq(Rec) => CallsPend
<1>. SUFFICES ASSUME log \in Seq(Rec), NEW kind \in SUBSET Call
              PROVE  \/ PendingCall(kind) = {} /\ \A c \in kind : InLatest(c) => Tool(c)
                     \/ \E c \in kind : PendingCall(kind) = {c} /\ InLatest(c) /\ ~Tool(c)
  BY DEF CallsPend
<1>. DEFINE at == {i \in DOMAIN log : log[i].kind = "assistant"}
            open == {c \in kind : ~Has(log, "tool", c)}
            calls == log[Max(at)].calls
            first == Only(calls, open)
<1>1. CASE at = {}
  <2>1. PendingCall(kind) = {}
    BY <1>1 DEF PendingCall
  <2>2. \A c : ~InLatest(c)
    BY <1>1, LatestResponse
  <2>3. QED
    BY <2>1, <2>2
<1>2. CASE at # {}
  <2>1. Max(at) \in at /\ \A c : InLatest(c) <=> c \in Range(log[Max(at)].calls)
    BY <1>2, LatestResponse
  <2>2. PendingCall(kind) = Firsts(calls, open)
    BY <1>2 DEF PendingCall
  <2>3. calls \in Seq(Call)
    <3>1. Max(at) \in DOMAIN log
      BY <2>1
    <3>. HIDE DEF at
    <3>2. log[Max(at)] \in Rec
      BY <3>1
    <3>3. QED
      BY <3>2 DEF Rec
  <2>4. \A c : InLatest(c) <=> c \in Range(calls)
    BY <2>1
  <2>5. \A c \in kind : c \in open <=> ~Tool(c)
    BY DEF Tool
  <2>6. open \subseteq kind
    OBVIOUS
  <2>. HIDE DEF at, calls, open
  <2>7. first \in Seq(Call) /\ Range(first) = Range(calls) \cap open
    BY <2>3, OnlyProperties
  <2>8. PendingCall(kind) = IF first = <<>> THEN {} ELSE {Head(first)}
    BY <2>2 DEF Firsts
  <2>. HIDE DEF first
  <2>9. CASE first = <<>>
    <3>1. Range(first) = {}
      BY <2>9 DEF Range
    <3>2. QED
      BY <2>4, <2>5, <2>7, <2>8, <2>9, <3>1
  <2>10. CASE first # <<>>
    <3>1. Head(first) \in Range(first)
      BY <2>7, <2>10, TailRange
    <3>2. QED
      BY <2>4, <2>5, <2>6, <2>7, <2>8, <2>10, <3>1
  <2>11. QED
    BY <2>9, <2>10
<1>3. QED
  BY <1>1, <1>2

\* A request that is pending, and none if there is none.
LEMMA PendingIsOpen ==
  log \in Seq(Rec) /\ LogInOrder =>
    \/ PendingPermission = {} /\ \A c \in Call : Requested(c) => Resolved(c)
    \/ \E c \in Call : PendingPermission = {c} /\ Requested(c) /\ ~Resolved(c)
<1>. SUFFICES ASSUME log \in Seq(Rec), LogInOrder
              PROVE  \/ PendingPermission = {} /\ \A c \in Call : Requested(c) => Resolved(c)
                     \/ \E c \in Call : PendingPermission = {c} /\ Requested(c) /\ ~Resolved(c)
  OBVIOUS
<1>. DEFINE open == {i \in DOMAIN log : log[i].kind = "request" /\ ~Resolved(log[i].calls[1])}
<1>1. PendingPermission = IF open = {} THEN {} ELSE {log[Max(open)].calls[1]}
  BY DEF PendingPermission
<1>2. ASSUME NEW c \in Call, Requested(c), ~Resolved(c) PROVE open # {}
  <2>1. PICK i \in DOMAIN log : log[i] = Record("request", <<c>>)
    BY <1>2 DEF Requested, Has
  <2>2. log[i].kind = "request" /\ log[i].calls = <<c>> /\ <<c>>[1] = c
    BY <2>1 DEF Record
  <2>3. i \in open
    BY <1>2, <2>2
  <2>4. QED
    BY <2>3
<1>3. ASSUME NEW i \in open
      PROVE  log[i].calls[1] \in Call /\ Requested(log[i].calls[1]) /\ ~Resolved(log[i].calls[1])
  <2>1. i \in DOMAIN log /\ log[i].kind = "request" /\ ~Resolved(log[i].calls[1]) /\ log[i] \in Rec
    OBVIOUS
  <2>2. PICK c \in Call : log[i].calls = <<c>>
    BY <2>1 DEF LogInOrder
  <2>3. log[i] = Record("request", <<c>>) /\ log[i].calls[1] = c
    <3>1. log[i] = Record(log[i].kind, log[i].calls)
      BY <2>1, RecordForm
    <3>2. QED
      BY <2>1, <2>2, <3>1
  <2>4. Requested(c)
    BY <2>1, <2>3 DEF Requested, Has
  <2>5. QED
    BY <2>1, <2>3, <2>4
<1>4. open # {} => Max(open) \in open
  <2>1. Len(log) \in Nat /\ open \subseteq 1..Len(log)
    OBVIOUS
  <2>2. QED
    BY <2>1, LastIndex
<1>. HIDE DEF open
<1>5. QED
  BY <1>1, <1>2, <1>3, <1>4

\* The last record requests a decision.
LastRequests(c) == ~Resolved(c) /\ log # <<>> /\ log[Len(log)] = Record("request", <<c>>)
LastIsPending == \A c \in Call : LastRequests(c) => PendingPermission = {c}

\* A request at the end of the log is the pending one.
LEMMA LastRequestPending == log \in Seq(Rec) => LastIsPending
<1>. SUFFICES ASSUME log \in Seq(Rec), NEW c \in Call, ~Resolved(c), log # <<>>,
                     log[Len(log)] = Record("request", <<c>>)
              PROVE  PendingPermission = {c}
  BY DEF LastIsPending, LastRequests
<1>. DEFINE open == {i \in DOMAIN log : log[i].kind = "request" /\ ~Resolved(log[i].calls[1])}
            n == Len(log)
<1>1. n \in Nat /\ n \in DOMAIN log /\ open \subseteq 1..n
  OBVIOUS
<1>2. log[n].kind = "request" /\ log[n].calls[1] = c
  BY DEF Record
<1>3. n \in open
  BY <1>1, <1>2
<1>4. PendingPermission = {log[Max(open)].calls[1]}
  BY <1>3 DEF PendingPermission
<1>. HIDE DEF open, n
<1>5. Max(open) \in open /\ \A i \in open : i <= Max(open)
  BY <1>1, <1>3, LastIndex
<1>6. Max(open) = n
  <2>1. PICK m \in open : m = Max(open)
    BY <1>5
  <2>2. m \in Nat /\ m <= n /\ n <= m
    BY <1>1, <1>3, <1>5, <2>1
  <2>3. m = n
    BY <1>1, <2>2
  <2>4. QED
    BY <2>1, <2>3
<1>7. QED
  BY <1>2, <1>4, <1>6

\* A request that was just recorded.
LEMMA RequestPending ==
  ASSUME log \in Seq(Rec), NEW c \in Call, ~Resolved(c), log' = Append(log, Record("request", <<c>>))
  PROVE  PendingPermission' = {c}
<1>1. (log \in Seq(Rec) => LastIsPending)'
  BY LastRequestPending, PTL
<1>2. <<c>> \in Seq(Call) /\ Record("request", <<c>>) \in Rec
  BY DEF Record, Rec
<1>3. log' \in Seq(Rec) /\ log' # <<>> /\ log'[Len(log')] = Record("request", <<c>>)
  BY <1>2
<1>4. ~(Resolved(c)')
  <2>1. \A k \in {"allow", "reject"} : Has(log', k, c) => Has(log, k, c)
    <3>1. \A k \in {"allow", "reject"} : Record("request", <<c>>) # Record(k, <<c>>)
      BY RecordsDiffer
    <3>2. \A i \in DOMAIN log' : (i \in DOMAIN log /\ log'[i] = log[i]) \/ log'[i] = Record("request", <<c>>)
      BY <1>2
    <3>3. QED
      BY <3>1, <3>2 DEF Has
  <2>2. QED
    BY <2>1 DEF Resolved
<1>5. LastRequests(c)'
  BY <1>3, <1>4 DEF LastRequests
<1>6. QED
  BY <1>1, <1>3, <1>5 DEF LastIsPending

-----------------------------------------------------------------------------
(* Conversations: what is open in them.                                      *)

\* A rebuilt conversation tells of issued calls only.
LEMMA RepairFromLog ==
  ASSUME log \in Seq(Rec), LogInOrder, NEW preserved
  PROVE  Repair(preserved) \in Seq(Rec) /\ FromLog(Repair(preserved))
<1>. DEFINE messages == Repair(preserved)
<1>1. messages \in Seq(Rec)
  BY RepairProperties
<1>2. ASSUME NEW m \in Range(messages)
      PROVE  \/ m.kind = "assistant" /\ m \in Range(log)
             \/ m.kind \in {"tool", "synthetic"} /\ \E c \in Call : m.calls = <<c>> /\ Declared(c)
  <2>1. PICK i \in DOMAIN log :
          \/ m = log[i] /\ log[i].kind \in {"assistant", "tool"}
          \/ /\ log[i].kind = "assistant"
             /\ \E c \in Range(log[i].calls) :
                  ~Has(log, "tool", c) /\ c \notin preserved /\ m = Record("synthetic", <<c>>)
    BY RepairProperties
  <2>2. log[i] \in Rec /\ log[i] \in Range(log)
    BY DEF Range
  <2>3. CASE m = log[i] /\ log[i].kind = "assistant"
    BY <2>2, <2>3
  <2>4. CASE m = log[i] /\ log[i].kind = "tool"
    BY <2>4 DEF LogInOrder
  <2>5. CASE log[i].kind = "assistant" /\ \E c \in Range(log[i].calls) : m = Record("synthetic", <<c>>)
    <3>1. PICK c \in Range(log[i].calls) : m = Record("synthetic", <<c>>)
      BY <2>5
    <3>2. c \in Call /\ Declared(c)
      BY <2>2, <2>5 DEF Declared, Issues, Rec, Range
    <3>3. m.kind = "synthetic" /\ m.calls = <<c>>
      BY <3>1 DEF Record
    <3>4. QED
      BY <3>2, <3>3
  <2>6. QED
    BY <2>1, <2>3, <2>4, <2>5
<1>3. \A i \in DOMAIN messages : messages[i] \in Range(messages)
  BY DEF Range
<1>. HIDE DEF messages
<1>4. FromLog(messages)
  BY <1>2, <1>3 DEF FromLog
<1>5. QED
  BY <1>1, <1>4 DEF messages

\* In it the preserved calls are open.
LEMMA RepairLeavesOpen ==
  ASSUME log \in Seq(Rec), NEW preserved, NEW c \in preserved, Declared(c), ~Tool(c)
  PROVE  Open(Repair(preserved), c)
<1>. DEFINE messages == Repair(preserved)
<1>1. /\ messages \in Seq(Rec)
      /\ \A m : m \in Range(messages) <=>
              \E i \in DOMAIN log :
                \/ m = log[i] /\ log[i].kind \in {"assistant", "tool"}
                \/ /\ log[i].kind = "assistant"
                   /\ \E d \in Range(log[i].calls) :
                        ~Has(log, "tool", d) /\ d \notin preserved /\ m = Record("synthetic", <<d>>)
  BY RepairProperties
<1>. HIDE DEF messages
<1>2. Declarations(messages, c) # {}
  <2>1. PICK i \in DOMAIN log : log[i].kind = "assistant" /\ c \in Range(log[i].calls)
    BY DEF Declared, Issues
  <2>2. log[i] \in Range(messages)
    BY <1>1, <2>1
  <2>3. PICK j \in DOMAIN messages : messages[j] = log[i]
    BY <2>2 DEF Range
  <2>4. QED
    BY <2>1, <2>3 DEF Declarations
<1>3. ASSUME NEW j \in Answers(messages, c) PROVE FALSE
  <2>1. j \in DOMAIN messages /\ messages[j] \in {Record("tool", <<c>>), Record("synthetic", <<c>>)}
    BY DEF Answers
  <2>2. messages[j] \in Range(messages)
    BY <2>1 DEF Range
  <2>3. PICK i \in DOMAIN log :
          \/ messages[j] = log[i] /\ log[i].kind \in {"assistant", "tool"}
          \/ /\ log[i].kind = "assistant"
             /\ \E d \in Range(log[i].calls) :
                  ~Has(log, "tool", d) /\ d \notin preserved /\ messages[j] = Record("synthetic", <<d>>)
    BY <1>1, <2>2
  <2>4. CASE messages[j] = log[i] /\ log[i].kind \in {"assistant", "tool"}
    <3>1. log[i] # Record("synthetic", <<c>>)
      BY <2>4 DEF Record
    <3>2. log[i] = Record("tool", <<c>>)
      BY <2>1, <2>4, <3>1
    <3>3. QED
      BY <3>2 DEF Tool, Has
  <2>5. CASE \E d \in Range(log[i].calls) : d \notin preserved /\ messages[j] = Record("synthetic", <<d>>)
    <3>1. PICK d : d \notin preserved /\ messages[j] = Record("synthetic", <<d>>)
      BY <2>5
    <3>2. CASE messages[j] = Record("tool", <<c>>)
      BY <3>1, <3>2, RecordsDiffer
    <3>3. CASE messages[j] = Record("synthetic", <<c>>)
      <4>1. d = c
        BY <3>1, <3>3, RecordsDiffer
      <4>2. QED
        BY <3>1, <4>1
    <3>4. QED
      BY <2>1, <3>2, <3>3
  <2>6. QED
    BY <2>3, <2>4, <2>5
<1>4. QED
  BY <1>2, <1>3 DEF Open, messages

\* Behind a restored request nothing waits that is not answered or preserved.
LEMMA RepairAnswers ==
  ASSUME log \in Seq(Rec), LogInOrder, NEW preserved, NEW c \in Call,
         \A d \in Call : Beside(c, d) /\ d # c => Tool(d) \/ d \notin preserved
  PROVE  Unresolved(Repair(preserved), c) = <<>>
<1>. DEFINE messages == Repair(preserved)
            issuers == Declarations(messages, c)
            unanswered == {d \in Call \ {c} : Answers(messages, d) = {}}
<1>1. /\ messages \in Seq(Rec)
      /\ \A m : m \in Range(messages) <=>
              \E i \in DOMAIN log :
                \/ m = log[i] /\ log[i].kind \in {"assistant", "tool"}
                \/ /\ log[i].kind = "assistant"
                   /\ \E d \in Range(log[i].calls) :
                        ~Has(log, "tool", d) /\ d \notin preserved /\ m = Record("synthetic", <<d>>)
  BY RepairProperties
<1>2. Unresolved(messages, c) = IF issuers = {} THEN <<>> ELSE Only(messages[Max(issuers)].calls, unanswered)
  BY DEF Unresolved
<1>. HIDE DEF messages
<1>. SUFFICES ASSUME issuers # {} PROVE Unresolved(messages, c) = <<>>
  BY <1>2 DEF messages
<1>3. PICK k \in issuers : k = Max(issuers)
  <2>1. Len(messages) \in Nat /\ issuers \subseteq 1..Len(messages)
    BY <1>1 DEF Declarations
  <2>2. Max(issuers) \in issuers
    BY <2>1, LastIndex
  <2>3. QED
    BY <2>2
<1>4. k \in DOMAIN messages /\ messages[k].kind = "assistant" /\ c \in Range(messages[k].calls)
      /\ messages[k] \in Rec /\ messages[k] \in Range(messages)
  <2>1. k \in DOMAIN messages /\ messages[k].kind = "assistant" /\ c \in Range(messages[k].calls)
    BY DEF Declarations
  <2>2. messages \in Seq(Rec)
    BY <1>1
  <2>3. QED
    BY <2>1, <2>2 DEF Range
<1>5. PICK i \in DOMAIN log : messages[k] = log[i]
  <2>1. \A d : messages[k] # Record("synthetic", <<d>>)
    BY <1>4 DEF Record
  <2>2. QED
    BY <1>1, <1>4, <2>1
<1>. DEFINE calls == messages[k].calls
<1>6. calls \in Seq(Call)
  BY <1>4 DEF Rec
<1>7. ASSUME NEW d \in Range(calls) PROVE d \notin unanswered
  <2>1. d \in Call
    BY <1>6 DEF Range
  <2>. SUFFICES ASSUME d # c PROVE Answers(messages, d) # {}
    OBVIOUS
  <2>2. Beside(c, d)
    BY <1>4, <1>5 DEF Beside, Issues
  <2>3. CASE Tool(d)
    <3>1. PICK j \in DOMAIN log : log[j] = Record("tool", <<d>>)
      BY <2>3 DEF Tool, Has
    <3>2. log[j].kind = "tool"
      BY <3>1 DEF Record
    <3>3. Record("tool", <<d>>) \in Range(messages)
      BY <1>1, <3>1, <3>2
    <3>4. QED
      BY <3>3 DEF Answers, Range
  <2>4. CASE ~Tool(d) /\ d \notin preserved
    <3>1. Record("synthetic", <<d>>) \in Range(messages)
      BY <1>1, <1>4, <1>5, <2>4 DEF Tool
    <3>2. QED
      BY <3>1 DEF Answers, Range
  <2>5. QED
    BY <2>1, <2>2, <2>3, <2>4
<1>. HIDE DEF unanswered, calls
<1>8. Only(calls, unanswered) \in Seq(Call) /\ Range(Only(calls, unanswered)) = {}
  BY <1>6, <1>7, OnlyProperties
<1>9. Only(calls, unanswered) = <<>>
  <2>1. \A s \in Seq(Call) : s # <<>> => Head(s) \in Range(s)
    BY TailRange
  <2>2. QED
    BY <1>8, <2>1
<1>10. QED
  BY <1>2, <1>3, <1>9 DEF calls

\* What a further message leaves open.
LEMMA OpenBesideResult ==
  ASSUME NEW messages \in Seq(Rec), NEW c \in Call, NEW d \in Call, c # d, Open(messages, c)
  PROVE  Open(Append(messages, Record("tool", <<d>>)), c)
<1>. DEFINE more == Append(messages, Record("tool", <<d>>))
<1>1. PICK n \in Nat : n = Len(messages)
  OBVIOUS
<1>2. <<d>> \in Seq(Call) /\ Record("tool", <<d>>) \in Rec
  BY DEF Record, Rec
<1>3. /\ DOMAIN messages = 1..n /\ DOMAIN more = 1..(n + 1)
      /\ more[n + 1] = Record("tool", <<d>>) /\ \A i \in 1..n : more[i] = messages[i]
  BY <1>1, <1>2
<1>. HIDE DEF more
<1>4. \A i \in DOMAIN messages : i \in DOMAIN more /\ more[i] = messages[i]
  BY <1>3
<1>5. \A i \in DOMAIN more : i \in DOMAIN messages \/ more[i] = Record("tool", <<d>>)
  BY <1>3
<1>6. Declarations(more, c) # {}
  BY <1>4 DEF Open, Declarations
<1>7. Record("tool", <<d>>) \notin {Record("tool", <<c>>), Record("synthetic", <<c>>)}
  BY RecordsDiffer
<1>8. Answers(more, c) = {}
  BY <1>4, <1>5, <1>7 DEF Open, Answers
<1>9. QED
  BY <1>6, <1>8 DEF Open, more

\* A call that a response issues is open in the conversation it ends.
LEMMA OpenBesideResponse ==
  ASSUME NEW messages \in Seq(Rec), FromLog(messages), NEW calls \in Seq(Call), NEW c \in Range(calls),
         ~Declared(c)
  PROVE  Open(Append(messages, Record("assistant", calls)), c)
<1>. DEFINE more == Append(messages, Record("assistant", calls))
<1>1. PICK n \in Nat : n = Len(messages)
  OBVIOUS
<1>2. Record("assistant", calls) \in Rec
  BY DEF Record, Rec
<1>3. /\ DOMAIN messages = 1..n /\ DOMAIN more = 1..(n + 1)
      /\ more[n + 1] = Record("assistant", calls) /\ \A i \in 1..n : more[i] = messages[i]
  BY <1>1, <1>2
<1>. HIDE DEF more
<1>4. \A i \in DOMAIN more : (i \in DOMAIN messages /\ more[i] = messages[i]) \/ more[i] = Record("assistant", calls)
  BY <1>3
<1>5. n + 1 \in DOMAIN more /\ more[n + 1].kind = "assistant" /\ more[n + 1].calls = calls
  BY <1>3 DEF Record
<1>6. Declarations(more, c) # {}
  BY <1>5 DEF Declarations
<1>7. ASSUME NEW i \in Answers(more, c) PROVE FALSE
  <2>1. i \in DOMAIN more /\ more[i] \in {Record("tool", <<c>>), Record("synthetic", <<c>>)}
    BY DEF Answers
  <2>2. more[i].kind \in {"tool", "synthetic"} /\ more[i].calls = <<c>>
    BY <2>1 DEF Record
  <2>3. i \in DOMAIN messages /\ more[i] = messages[i]
    <3>1. more[i] # Record("assistant", calls)
      BY <2>2 DEF Record
    <3>2. QED
      BY <1>4, <2>1, <3>1
  <2>4. PICK d \in Call : messages[i].calls = <<d>> /\ Declared(d)
    BY <2>2, <2>3 DEF FromLog
  <2>5. <<c>>[1] = <<d>>[1]
    BY <2>2, <2>3, <2>4
  <2>6. QED
    BY <2>4, <2>5
<1>8. QED
  BY <1>6, <1>7 DEF Open, more

\* A conversation goes on with what the log says.
LEMMA FromLogAppend ==
  ASSUME NEW messages \in Seq(Rec), FromLog(messages)', NEW m \in Rec,
         \/ m.kind = "assistant" /\ m \in Range(log')
         \/ m.kind = "tool" /\ \E c \in Call : m.calls = <<c>> /\ Declared(c)'
  PROVE  FromLog(Append(messages, m))'
<1>. DEFINE more == Append(messages, m)
<1>1. \A i \in DOMAIN more : (i \in DOMAIN messages /\ more[i] = messages[i]) \/ more[i] = m
  OBVIOUS
<1>. HIDE DEF more
<1>2. FromLog(more)'
  BY <1>1 DEF FromLog
<1>3. QED
  BY <1>2 DEF more

\* An empty conversation is from any log.
LEMMA NoMessages == FromLog(<<>>) /\ FromLog(<<>>)'
BY DEF FromLog

-----------------------------------------------------------------------------
(* What a turn does next.                                                    *)

\* A turn that goes on has the same work, and its stage is what comes first.
LEMMA GoOnProperties ==
  ASSUME NEW t \in TurnRec
  PROVE  /\ GoOn(t) \in TurnRec
         /\ GoOn(t).kind = t.kind /\ GoOn(t).hosts = t.hosts /\ GoOn(t).running = t.running
         /\ GoOn(t).redirects = t.redirects /\ GoOn(t).ask = t.ask /\ GoOn(t).deferred = t.deferred
         /\ GoOn(t).panel = t.panel /\ GoOn(t).messages = t.messages
         /\ GoOn(t).stage \in {"host", "record", "thrown", "redirect", "ask", "provider"}
         /\ GoOn(t).stage = "host" <=> t.hosts # <<>>
         /\ GoOn(t).stage = "record" <=> t.hosts = <<>> /\ t.running # <<>>
         /\ GoOn(t).stage = "redirect" => t.redirects # <<>>
         /\ GoOn(t).stage = "ask" => t.redirects = <<>> /\ t.ask # <<>>
         /\ GoOn(t).stage = "provider" => t.redirects = <<>> /\ t.ask = <<>>
<1>. DEFINE stage == CASE t.hosts # <<>> -> "host"
       [] t.hosts = <<>> /\ t.running # <<>> -> "record"
       [] t.hosts = <<>> /\ t.running = <<>> /\ t.thrown -> "thrown"
       [] t.hosts = <<>> /\ t.running = <<>> /\ ~t.thrown /\ t.redirects # <<>> -> "redirect"
       [] t.hosts = <<>> /\ t.running = <<>> /\ ~t.thrown /\ t.redirects = <<>> /\ t.ask # <<>> -> "ask"
       [] OTHER -> "provider"
<1>1. GoOn(t) = [t EXCEPT !.stage = stage]
  BY DEF GoOn
<1>2. /\ stage \in {"host", "record", "thrown", "redirect", "ask", "provider"}
      /\ stage = "host" <=> t.hosts # <<>>
      /\ stage = "record" <=> t.hosts = <<>> /\ t.running # <<>>
      /\ stage = "redirect" => t.redirects # <<>>
      /\ stage = "ask" => t.redirects = <<>> /\ t.ask # <<>>
      /\ stage = "provider" => t.redirects = <<>> /\ t.ask = <<>>
  <2>1. t.thrown \in BOOLEAN
    BY DEF TurnRec
  <2>2. QED
    BY <2>1
<1>. HIDE DEF stage
<1>3. stage \in Stage
  BY <1>2 DEF Stage
<1>4. /\ GoOn(t) \in TurnRec /\ GoOn(t).stage = stage
      /\ GoOn(t).kind = t.kind /\ GoOn(t).hosts = t.hosts /\ GoOn(t).running = t.running
      /\ GoOn(t).redirects = t.redirects /\ GoOn(t).ask = t.ask /\ GoOn(t).deferred = t.deferred
      /\ GoOn(t).panel = t.panel /\ GoOn(t).messages = t.messages
  BY <1>1, <1>3 DEF TurnRec
<1>5. QED
  BY <1>2, <1>4

\* A turn that goes on has what its stage works on.
LEMMA GoOnShape ==
  ASSUME NEW t \in TurnRec, t.kind # "none", t.deferred = <<>>
  PROVE  Shape(GoOn(t))
BY GoOnProperties DEF Shape

\* The lists of calls are what matters.
LEMMA SameLists ==
  ASSUME NEW t, NEW u, u.hosts = t.hosts, u.running = t.running, u.redirects = t.redirects,
         u.ask = t.ask, u.deferred = t.deferred
  PROVE  (Lists(t) <=> Lists(u)) /\ Work(t) = Work(u)
BY DEF Lists, Work

\* No panel asks for anything.
LEMMA NoPanelAgrees == NoPanel \in PanelRec /\ PanelAgrees(NoPanel) /\ PanelAgrees(NoPanel)'
BY DEF NoPanel, PanelRec, PanelAgrees

\* The host between two turns.
LEMMA NoTurnIdle ==
  /\ NoTurn \in TurnRec /\ Shape(NoTurn) /\ Lists(NoTurn) /\ Work(NoTurn) = {}
  /\ NoTurn.kind = "none" /\ NoTurn.stage = "none" /\ NoTurn.panel = NoPanel /\ NoTurn.messages = <<>>
  /\ NoTurn.hosts = <<>> /\ NoTurn.running = <<>> /\ NoTurn.redirects = <<>> /\ NoTurn.ask = <<>>
  /\ NoTurn.deferred = <<>> /\ Range(<<>>) = {}
<1>1. Range(<<>>) = {}
  BY DEF Range
<1>2. NoTurn \in TurnRec
  BY NoPanelAgrees DEF NoTurn, TurnRec, Stage
<1>3. Shape(NoTurn)
  BY DEF Shape, NoTurn
<1>4. Lists(NoTurn) /\ Work(NoTurn) = {}
  BY <1>1 DEF Lists, Work, NoTurn, IsInjective
<1>5. QED
  BY <1>1, <1>2, <1>3, <1>4 DEF NoTurn

\* A turn that is busy and resolves nothing: what it leaves alone.
LEMMA TurnGoesOn ==
  ASSUME IInv, turn.kind # "none", ~At("resolve"), turn'.kind = turn.kind,
         turn'.stage \notin {"none", "resolve"}, turn'.panel = turn.panel,
         panel' = panel, conversation' = conversation, stale' = stale, Types', LogInOrder', CallRecords',
         \A c \in Call : /\ Declared(c) => Declared(c)'
                         /\ Requested(c)' <=> Requested(c)
                         /\ Resolved(c) => Resolved(c)'
                         /\ Tool(c) => Tool(c)',
         \A c, d \in Call : Requested(c) /\ Beside(c, d)' => Beside(c, d),
         \A messages : FromLog(messages) => FromLog(messages)',
         FromLog(turn.messages)', \A c \in calledOff' : Declared(c)',
         Shape(turn'), Lists(turn'), WorkAgrees', AsksLatest'
  PROVE  IInv'
<1>1. panel = NoPanel /\ turn \in TurnRec
  BY DEF IInv, Types
<1>2. PanelAgrees(panel)'
  BY <1>1, NoPanelAgrees
<1>3. RedirectsFirst'
  BY DEF IInv, RedirectsFirst, Interactive
<1>4. RequestsShown'
  <2>1. ASSUME NEW c \in Call, Requested(c)', ~(Resolved(c)'), c \notin stale' PROVE FALSE
    <3>1. Requested(c) /\ ~Resolved(c) /\ c \notin stale
      BY <2>1
    <3>2. AtUser(panel, c)
      BY <3>1 DEF IInv, RequestsShown
    <3>3. QED
      BY <1>1, <3>2 DEF AtUser, NoPanel
  <2>2. QED
    BY <2>1 DEF RequestsShown
<1>5. ResolvesPanel'
  <2>1. Asked \subseteq Call /\ Interactive \subseteq Call
    BY CallAssumption
  <2>2. turn.kind \in {"none", "prompt"} => turn.panel = NoPanel
    BY DEF IInv, ResolvesPanel
  <2>3. CASE turn.kind = "permission"
    <3>1. turn.panel.kind = turn.kind /\ \E c \in Asked : turn.panel.calls[1] = c /\ Resolved(c)
      BY <2>3 DEF IInv, ResolvesPanel, Continuation
    <3>2. turn'.panel.kind = turn'.kind /\ \E c \in Asked : turn'.panel.calls[1] = c /\ Resolved(c)'
      BY <2>1, <3>1
    <3>3. QED
      BY <2>3, <3>2 DEF ResolvesPanel, Continuation, At
  <2>4. CASE turn.kind \in {"gate", "question"}
    <3>1. /\ turn.panel.kind = turn.kind /\ turn.panel.deferred = <<>>
          /\ \E c \in Interactive : /\ turn.panel.calls = <<c>> /\ Declared(c) /\ Tool(c)
                                    /\ turn.kind = "gate" => c \in Gate
      BY <2>4 DEF IInv, ResolvesPanel, Continuation
    <3>2. /\ turn'.panel.kind = turn'.kind /\ turn'.panel.deferred = <<>>
          /\ \E c \in Interactive : /\ turn'.panel.calls = <<c>> /\ Declared(c)' /\ Tool(c)'
                                    /\ turn'.kind = "gate" => c \in Gate
      BY <2>1, <3>1
    <3>3. QED
      BY <2>4, <3>2 DEF ResolvesPanel, Continuation, At
  <2>5. CASE turn.kind \in {"none", "prompt"}
    BY <2>2, <2>5 DEF ResolvesPanel, Continuation
  <2>6. turn.kind \in {"none", "prompt", "permission", "gate", "question"}
    BY <1>1 DEF TurnRec
  <2>7. QED
    BY <2>3, <2>4, <2>5, <2>6
<1>6. Conversations'
  BY <1>1 DEF IInv, Conversations
<1>7. QED
  BY <1>1, <1>2, <1>3, <1>4, <1>5, <1>6 DEF IInv

\* A resolution is an "allow" or a "reject".
LEMMA ResolvedSplit ==
  \A c : (Resolved(c) <=> Permitted(c) \/ Refused(c)) /\ (Resolved(c)' <=> Permitted(c)' \/ Refused(c)')
BY DEF Resolved, Permitted, Refused

-----------------------------------------------------------------------------
(* The steps of a turn.  The result of a call.                               *)

\* One result recorded, and its call taken off the list it was on.
LEMMA AnswerKeeps ==
  ASSUME IInv, NEW d \in Call, Declared(d), ~Tool(d), d \in Asked => Resolved(d), Answer(d),
         turn.kind # "none", ~At("resolve"),
         NEW t \in TurnRec, turn' = GoOn(t), t.kind = turn.kind, t.panel = turn.panel, t.deferred = <<>>,
         t.messages = Append(turn.messages, Record("tool", <<d>>)),
         Lists(t), d \notin Work(t), Work(t) \subseteq Work(turn),
         Range(t.running) \subseteq Range(turn.running), Range(t.ask) \subseteq Range(turn.ask),
         Range(t.redirects) \subseteq Range(turn.redirects),
         \A c \in Range(turn.redirects) : c \in Range(t.redirects) \/ c = d,
         \A c \in Range(t.hosts) : Fresh(c)
  PROVE  IInv'
<1>1. /\ log \in Seq(Rec) /\ LogInOrder /\ turn \in TurnRec /\ panel \in PanelRec
      /\ CallRecords /\ WorkAgrees /\ AsksLatest /\ Types
  BY DEF IInv, Types
<1>2. /\ log' = Append(log, Record("tool", <<d>>))
      /\ conversation' = conversation /\ panel' = panel /\ used' = used
      /\ executed' = executed /\ calledOff' = calledOff /\ stale' = stale
  BY DEF Answer, history
<1>3. /\ log' \in Seq(Rec) /\ LogInOrder'
      /\ \A c \in Call :
           /\ Declared(c)' <=> Declared(c)
           /\ InLatest(c)' <=> InLatest(c)
           /\ Requested(c)' <=> Requested(c)
           /\ Permitted(c)' <=> Permitted(c)
           /\ Refused(c)' <=> Refused(c)
           /\ Started(c)' <=> Started(c)
           /\ Tool(c)' <=> Tool(c) \/ c = d
           /\ Once(c) => Once(c)'
      /\ \A c, e \in Call : Beside(c, e)' <=> Beside(c, e)
      /\ \A messages : FromLog(messages) => FromLog(messages)'
  BY <1>1, <1>2, NoteAppended DEF Noted
<1>4. \A c \in Call : Resolved(c)' <=> Resolved(c)
  BY <1>3, ResolvedSplit
<1>5. /\ turn' \in TurnRec
      /\ turn'.kind = t.kind /\ turn'.hosts = t.hosts /\ turn'.running = t.running
      /\ turn'.redirects = t.redirects /\ turn'.ask = t.ask /\ turn'.deferred = t.deferred
      /\ turn'.panel = t.panel /\ turn'.messages = t.messages
      /\ turn'.stage \in {"host", "record", "thrown", "redirect", "ask", "provider"}
  BY GoOnProperties
<1>6. Shape(turn')
  BY GoOnShape
<1>7. Lists(turn') /\ Work(turn') = Work(t)
  BY <1>5, SameLists
<1>8. Types'
  BY <1>1, <1>2, <1>3, <1>5 DEF Types
<1>9. CallRecords'
  <2>1. \A c \in Call \ Gate : Once(c)'
    BY <1>1, <1>3 DEF CallRecords
  <2>2. \A c \in Call : executed'[c] = 1 =>
          /\ Declared(c)' /\ c \notin Interactive
          /\ c \in Asked => Permitted(c)'
          /\ c \in Process => Started(c)'
    BY <1>1, <1>2, <1>3 DEF CallRecords
  <2>3. \A c \in Call :
          /\ Requested(c)' \/ Resolved(c)' => c \in Asked
          /\ Requested(c)' => Declared(c)'
          /\ Resolved(c)' => Requested(c)'
          /\ ~(Permitted(c)' /\ Refused(c)')
          /\ c \in Asked /\ Tool(c)' => Resolved(c)'
    BY <1>1, <1>3, <1>4 DEF CallRecords
  <2>4. QED
    BY <2>1, <2>2, <2>3 DEF CallRecords, Interactive
<1>10. Work(t) \subseteq Call
  BY DEF Work, TurnRec, Range
<1>11. \A c \in Call : c # d /\ Fresh(c) => Fresh(c)'
  BY <1>2, <1>3, <1>4 DEF Fresh
<1>12. WorkAgrees'
  <2>1. \A c \in Work(turn') : Declared(c)' /\ ~(Tool(c)') /\ Open(turn'.messages, c)
    <3>1. \A c \in Work(t) : c \in Call /\ c # d /\ Declared(c) /\ ~Tool(c) /\ Open(turn.messages, c)
      BY <1>1, <1>10 DEF WorkAgrees
    <3>2. turn.messages \in Seq(Rec)
      BY <1>1 DEF TurnRec
    <3>3. \A c \in Work(t) : Open(t.messages, c)
      BY <3>1, <3>2, OpenBesideResult
    <3>4. QED
      BY <1>3, <1>5, <1>7, <3>1, <3>3
  <2>2. \A c \in Range(turn'.hosts) : Fresh(c)'
    BY <1>5, <1>10, <1>11 DEF Work
  <2>3. \A c \in Range(turn'.running) : c \in Asked => Resolved(c)'
    BY <1>1, <1>4, <1>5, <1>10 DEF WorkAgrees, Work
  <2>4. \A c \in Range(turn'.redirects) \cup Range(turn'.ask) : Fresh(c)'
    BY <1>1, <1>5, <1>10, <1>11 DEF WorkAgrees, Work
  <2>5. Range(turn'.deferred) = {}
    BY <1>5, NoTurnIdle
  <2>6. \A c \in Range(turn'.ask), e \in Interactive :
          Beside(c, e)' => e = c \/ Tool(e)' \/ e \in Range(turn'.redirects)
    <3>1. \A c \in Range(t.ask), e \in Interactive :
            c \in Call /\ e \in Call /\ (Beside(c, e) => e = c \/ Tool(e) \/ e \in Range(turn.redirects))
      BY <1>1, <1>10, CallAssumption DEF WorkAgrees, Work
    <3>2. QED
      BY <1>3, <1>5, <3>1
  <2>7. ~At("start")' /\ ~At("entries")'
    BY <1>5 DEF At
  <2>8. QED
    BY <2>1, <2>2, <2>3, <2>4, <2>5, <2>6, <2>7 DEF WorkAgrees
<1>13. AsksLatest'
  BY <1>1, <1>3, <1>5, <1>10 DEF AsksLatest, Work, Interactive
<1>14. FromLog(turn.messages)'
  <2>1. PICK messages : messages = turn.messages
    OBVIOUS
  <2>2. messages \in Seq(Rec) /\ FromLog(messages)
    BY <1>1, <2>1 DEF TurnRec, IInv, Conversations
  <2>3. FromLog(messages)'
    BY <1>3, <2>2
  <2>4. Record("tool", <<d>>) \in Rec /\ Record("tool", <<d>>).kind = "tool"
        /\ Record("tool", <<d>>).calls = <<d>> /\ Declared(d)'
    BY <1>3 DEF Record, Rec
  <2>5. FromLog(Append(messages, Record("tool", <<d>>)))'
    BY <2>2, <2>3, <2>4, FromLogAppend
  <2>6. turn'.messages = Append(messages, Record("tool", <<d>>))
    BY <1>5, <2>1
  <2>7. QED
    BY <2>5, <2>6
<1>15. \A c \in calledOff' : Declared(c)'
  BY <1>1, <1>2, <1>3 DEF IInv, Conversations, Types
<1>16. QED
  <2>1. turn'.kind = turn.kind /\ turn'.stage \notin {"none", "resolve"} /\ turn'.panel = turn.panel
    BY <1>5
  <2>2. \A c, e \in Call : Requested(c) /\ Beside(c, e)' => Beside(c, e)
    BY <1>3
  <2>3. \A c \in Call : /\ Declared(c) => Declared(c)'
                        /\ Requested(c)' <=> Requested(c)
                        /\ Resolved(c) => Resolved(c)'
                        /\ Tool(c) => Tool(c)'
    BY <1>3, <1>4
  <2>4. Shape(turn)' /\ Lists(turn)'
    BY <1>6, <1>7
  <2>5. \A messages : FromLog(messages) => FromLog(messages)'
    BY <1>3
  <2>6. QED
    BY <1>2, <1>3, <1>8, <1>9, <1>12, <1>13, <1>14, <1>15, <2>1, <2>2, <2>3, <2>4, <2>5, TurnGoesOn

\* HostReturns: the first host call is answered.
LEMMA HostReturnsKeeps == ASSUME IInv, HostReturns PROVE IInv'
<1>. DEFINE d == Head(turn.hosts)
            t == [WithAnswer(turn, d) EXCEPT !.hosts = Tail(@)]
<1>1. /\ turn \in TurnRec /\ Shape(turn) /\ Lists(turn) /\ WorkAgrees
      /\ At("hostRuns") /\ Answer(d) /\ turn' = GoOn(t)
  BY DEF IInv, Types, HostReturns
<1>2. turn.stage = "hostRuns" /\ turn.hosts # <<>> /\ turn.hosts \in Seq(Call) /\ turn.deferred = <<>>
      /\ turn.kind # "none"
  BY <1>1 DEF At, Shape, TurnRec
<1>3. /\ d \in Call /\ d \in Range(turn.hosts) /\ Tail(turn.hosts) \in Seq(Call)
      /\ Range(turn.hosts) = Range(Tail(turn.hosts)) \cup {d}
      /\ IsInjective(Tail(turn.hosts)) /\ d \notin Range(Tail(turn.hosts))
  BY <1>1, <1>2, TailRange DEF Lists
<1>4. Declared(d) /\ ~Tool(d) /\ d \notin Asked \cup Agent \cup Interactive
  BY <1>1, <1>3 DEF WorkAgrees, Work, Lists
<1>. HIDE DEF d
<1>5. t \in TurnRec
  <2>1. Append(turn.messages, Record("tool", <<d>>)) \in Seq(Rec)
    <3>1. turn.messages \in Seq(Rec) /\ Record("tool", <<d>>) \in Rec
      BY <1>1, <1>3 DEF TurnRec, Record, Rec
    <3>2. QED
      BY <3>1
  <2>2. QED
    BY <1>1, <1>3, <2>1 DEF TurnRec, WithAnswer
<1>6. /\ t.kind = turn.kind /\ t.stage = turn.stage /\ t.hosts = Tail(turn.hosts)
      /\ t.running = turn.running /\ t.redirects = turn.redirects /\ t.ask = turn.ask
      /\ t.deferred = <<>> /\ t.panel = turn.panel
      /\ t.messages = Append(turn.messages, Record("tool", <<d>>))
  BY <1>1, <1>2 DEF TurnRec, WithAnswer
<1>. HIDE DEF t
<1>7. Range(turn.deferred) = {}
  BY <1>2, NoTurnIdle
<1>8. Lists(t)
  BY <1>1, <1>2, <1>3, <1>6 DEF Lists
<1>9. d \notin Work(t)
  <2>1. d \notin Range(turn.running) /\ d \notin Range(turn.redirects)
    BY <1>1, <1>3, <1>4 DEF Lists
  <2>2. d \notin Range(turn.ask)
    <3>1. CASE Range(turn.ask) \subseteq Asked
      BY <1>4, <3>1
    <3>2. CASE \E c \in Interactive : turn.ask = <<c>>
      BY <1>4, <3>2 DEF Range
    <3>3. QED
      BY <1>1, <3>1, <3>2 DEF Lists
  <2>3. QED
    BY <1>2, <1>3, <1>6, <1>7, <2>1, <2>2 DEF Work
<1>10. Work(t) \subseteq Work(turn)
  BY <1>3, <1>6, <1>7, NoTurnIdle DEF Work
<1>11. \A c \in Range(t.hosts) : Fresh(c)
  BY <1>1, <1>3, <1>6 DEF WorkAgrees, d
<1>12. ~At("resolve")
  BY <1>2 DEF At
<1>13. QED
  BY <1>1, <1>2, <1>3, <1>4, <1>5, <1>6, <1>8, <1>9, <1>10, <1>11, <1>12, AnswerKeeps

\* RecordResult: the first Agent call or decided entry is answered.
LEMMA RecordResultKeeps == ASSUME IInv, RecordResult PROVE IInv'
<1>. DEFINE d == Head(turn.running)
            t == [WithAnswer(turn, d) EXCEPT !.running = Tail(@)]
<1>1. /\ turn \in TurnRec /\ Shape(turn) /\ Lists(turn) /\ WorkAgrees
      /\ At("record") /\ Answer(d) /\ turn' = GoOn(t)
  BY DEF IInv, Types, RecordResult
<1>2. turn.stage = "record" /\ turn.hosts = <<>> /\ turn.running # <<>> /\ turn.running \in Seq(Call)
      /\ turn.deferred = <<>> /\ turn.kind # "none"
  BY <1>1 DEF At, Shape, TurnRec
<1>3. /\ d \in Call /\ d \in Range(turn.running) /\ Tail(turn.running) \in Seq(Call)
      /\ Range(turn.running) = Range(Tail(turn.running)) \cup {d}
      /\ IsInjective(Tail(turn.running)) /\ d \notin Range(Tail(turn.running))
  BY <1>1, <1>2, TailRange DEF Lists
<1>4. Declared(d) /\ ~Tool(d) /\ d \notin Interactive /\ (d \in Asked => Resolved(d))
  BY <1>1, <1>3 DEF WorkAgrees, Work, Lists
<1>. HIDE DEF d
<1>5. t \in TurnRec
  <2>1. Append(turn.messages, Record("tool", <<d>>)) \in Seq(Rec)
    <3>1. turn.messages \in Seq(Rec) /\ Record("tool", <<d>>) \in Rec
      BY <1>1, <1>3 DEF TurnRec, Record, Rec
    <3>2. QED
      BY <3>1
  <2>2. QED
    BY <1>1, <1>3, <2>1 DEF TurnRec, WithAnswer
<1>6. /\ t.kind = turn.kind /\ t.stage = turn.stage /\ t.hosts = <<>>
      /\ t.running = Tail(turn.running) /\ t.redirects = turn.redirects /\ t.ask = turn.ask
      /\ t.deferred = <<>> /\ t.panel = turn.panel
      /\ t.messages = Append(turn.messages, Record("tool", <<d>>))
  BY <1>1, <1>2 DEF TurnRec, WithAnswer
<1>. HIDE DEF t
<1>7. Range(t.hosts) = {} /\ Range(t.deferred) = {}
  BY <1>6, NoTurnIdle
<1>8. Lists(t)
  BY <1>1, <1>2, <1>3, <1>6 DEF Lists
<1>9. d \notin Work(t)
  BY <1>1, <1>3, <1>4, <1>6, <1>7 DEF Work, Lists
<1>10. Work(t) \subseteq Work(turn)
  BY <1>3, <1>6, <1>7 DEF Work
<1>11. ~At("resolve")
  BY <1>2 DEF At
<1>12. QED
  BY <1>1, <1>2, <1>3, <1>4, <1>5, <1>6, <1>7, <1>8, <1>9, <1>10, <1>11, AnswerKeeps

\* Redirect: an extra interactive call is answered.
LEMMA RedirectKeeps == ASSUME IInv, Redirect PROVE IInv'
<1>. DEFINE d == Head(turn.redirects)
            t == [WithAnswer(turn, d) EXCEPT !.redirects = Tail(@)]
<1>1. /\ turn \in TurnRec /\ Shape(turn) /\ Lists(turn) /\ WorkAgrees
      /\ At("redirect") /\ Answer(d) /\ turn' = GoOn(t)
  BY DEF IInv, Types, Redirect
<1>2. turn.stage = "redirect" /\ turn.hosts = <<>> /\ turn.running = <<>> /\ turn.redirects # <<>>
      /\ turn.redirects \in Seq(Call) /\ turn.deferred = <<>> /\ turn.kind # "none"
  BY <1>1 DEF At, Shape, TurnRec
<1>3. /\ d \in Call /\ d \in Range(turn.redirects) /\ Tail(turn.redirects) \in Seq(Call)
      /\ Range(turn.redirects) = Range(Tail(turn.redirects)) \cup {d}
      /\ IsInjective(Tail(turn.redirects)) /\ d \notin Range(Tail(turn.redirects))
  BY <1>1, <1>2, TailRange DEF Lists
<1>4. Declared(d) /\ ~Tool(d) /\ d \in Interactive /\ d \notin Asked
  BY <1>1, <1>3, CallAssumption DEF WorkAgrees, Work, Lists
<1>. HIDE DEF d
<1>5. t \in TurnRec
  <2>1. Append(turn.messages, Record("tool", <<d>>)) \in Seq(Rec)
    <3>1. turn.messages \in Seq(Rec) /\ Record("tool", <<d>>) \in Rec
      BY <1>1, <1>3 DEF TurnRec, Record, Rec
    <3>2. QED
      BY <3>1
  <2>2. QED
    BY <1>1, <1>3, <2>1 DEF TurnRec, WithAnswer
<1>6. /\ t.kind = turn.kind /\ t.stage = turn.stage /\ t.hosts = <<>>
      /\ t.running = <<>> /\ t.redirects = Tail(turn.redirects) /\ t.ask = turn.ask
      /\ t.deferred = <<>> /\ t.panel = turn.panel
      /\ t.messages = Append(turn.messages, Record("tool", <<d>>))
  BY <1>1, <1>2 DEF TurnRec, WithAnswer
<1>. HIDE DEF t
<1>7. Range(t.hosts) = {} /\ Range(t.running) = {} /\ Range(t.deferred) = {}
  BY <1>6, NoTurnIdle
<1>8. Lists(t)
  BY <1>1, <1>2, <1>3, <1>6 DEF Lists
<1>9. d \notin Work(t)
  BY <1>1, <1>3, <1>4, <1>6, <1>7 DEF Work, Lists
<1>10. Work(t) \subseteq Work(turn)
  BY <1>3, <1>6, <1>7 DEF Work
<1>11. ~At("resolve")
  BY <1>2 DEF At
<1>12. \A c \in Range(turn.redirects) : c \in Range(t.redirects) \/ c = d
  BY <1>3, <1>6
<1>13. QED
  BY <1>1, <1>2, <1>3, <1>4, <1>5, <1>6, <1>7, <1>8, <1>9, <1>10, <1>11, <1>12, AnswerKeeps

\* RefuseGate: an undeclared gate is answered instead of opened.
LEMMA RefuseGateKeeps == ASSUME IInv, RefuseGate PROVE IInv'
<1>. DEFINE d == Head(turn.ask)
            t == [WithAnswer(turn, d) EXCEPT !.ask = <<>>]
<1>1. /\ turn \in TurnRec /\ Shape(turn) /\ Lists(turn) /\ WorkAgrees
      /\ At("ask") /\ d \in Gate /\ Answer(d) /\ turn' = GoOn(t)
  BY DEF IInv, Types, RefuseGate
<1>2. turn.stage = "ask" /\ turn.hosts = <<>> /\ turn.running = <<>> /\ turn.redirects = <<>>
      /\ turn.ask # <<>> /\ turn.ask \in Seq(Call) /\ turn.kind # "none"
  BY <1>1 DEF At, Shape, TurnRec
<1>3. d \in Call /\ d \in Range(turn.ask)
  BY <1>1, <1>2, TailRange
<1>4. Declared(d) /\ ~Tool(d) /\ d \in Interactive /\ d \notin Asked
  BY <1>1, <1>3, CallAssumption DEF WorkAgrees, Work, Interactive
<1>5. turn.deferred = <<>>
  BY <1>1, <1>3, <1>4 DEF Shape
<1>. HIDE DEF d
<1>6. t \in TurnRec
  <2>1. Append(turn.messages, Record("tool", <<d>>)) \in Seq(Rec)
    <3>1. turn.messages \in Seq(Rec) /\ Record("tool", <<d>>) \in Rec
      BY <1>1, <1>3 DEF TurnRec, Record, Rec
    <3>2. QED
      BY <3>1
  <2>2. <<>> \in Seq(Call)
    OBVIOUS
  <2>3. QED
    BY <1>1, <1>3, <2>1, <2>2 DEF TurnRec, WithAnswer
<1>7. /\ t.kind = turn.kind /\ t.stage = turn.stage /\ t.hosts = <<>>
      /\ t.running = <<>> /\ t.redirects = <<>> /\ t.ask = <<>>
      /\ t.deferred = <<>> /\ t.panel = turn.panel
      /\ t.messages = Append(turn.messages, Record("tool", <<d>>))
  BY <1>1, <1>2, <1>5 DEF TurnRec, WithAnswer
<1>. HIDE DEF t
<1>8. Work(t) = {} /\ Range(turn.redirects) = {} /\ Range(<<>>) = {}
  BY <1>2, <1>7, NoTurnIdle DEF Work
<1>9. Lists(t)
  BY <1>1, <1>7, <1>8 DEF Lists, IsInjective
<1>10. ~At("resolve")
  BY <1>2 DEF At
<1>11. QED
  BY <1>1, <1>2, <1>3, <1>4, <1>6, <1>7, <1>8, <1>9, <1>10, AnswerKeeps

\* Records that say nothing but that a process has been started.
StartsOnly ==
  /\ log' \in Seq(Rec) /\ LogInOrder'
  /\ \A c \in Call :
       /\ Declared(c)' <=> Declared(c)
       /\ InLatest(c)' <=> InLatest(c)
       /\ Requested(c)' <=> Requested(c)
       /\ Permitted(c)' <=> Permitted(c)
       /\ Refused(c)' <=> Refused(c)
       /\ Tool(c)' <=> Tool(c)
       /\ Started(c) => Started(c)'
       /\ Once(c) => Once(c)'
  /\ \A c, e \in Call : Beside(c, e)' <=> Beside(c, e)
  /\ \A messages : FromLog(messages) => FromLog(messages)'

\* Calls that may be carried out were carried out.
Carried ==
  /\ executed' \in [Call -> {0, 1}]
  /\ \A c \in Call : executed'[c] # executed[c] =>
       /\ Declared(c) /\ c \notin Interactive
       /\ c \in Asked => Permitted(c)
       /\ c \in Process => Started(c)'
  /\ \A c \in Range(turn'.hosts) :
       \/ executed'[c] = executed[c] /\ Fresh(c)
       \/ turn'.stage = "hostRuns" /\ c = Head(turn'.hosts)
  /\ \A c \in Range(turn.redirects) \cup Range(turn.ask) : executed'[c] = executed[c]

\* The turn goes on with the calls it had, or with fewer.
WorkKept ==
  /\ turn' \in TurnRec /\ turn'.kind = turn.kind /\ turn'.panel = turn.panel
  /\ turn'.messages = turn.messages /\ turn'.deferred = <<>>
  /\ Shape(turn)' /\ Lists(turn)' /\ Work(turn') \subseteq Work(turn)
  /\ turn'.stage \notin {"none", "resolve", "start", "entries"}
  /\ Range(turn'.running) \subseteq Range(turn.running)
  /\ turn'.redirects = turn.redirects /\ turn'.ask = turn.ask

\* Calls that are carried out, and the steps around them.
LEMMA RunKeeps ==
  ASSUME IInv, turn.kind # "none", ~At("resolve"), StartsOnly, Carried, WorkKept,
         conversation' = conversation, panel' = panel, used' = used, calledOff' = calledOff,
         stale' = stale
  PROVE  IInv'
<1>. USE DEF StartsOnly, Carried, WorkKept
<1>1. /\ turn \in TurnRec /\ CallRecords /\ WorkAgrees /\ AsksLatest /\ Types
  BY DEF IInv, Types
<1>2. \A c \in Call : Resolved(c)' <=> Resolved(c)
  BY ResolvedSplit
<1>3. Types'
  BY <1>1 DEF Types
<1>4. CallRecords'
  <2>1. \A c \in Call \ Gate : Once(c)'
    BY <1>1 DEF CallRecords
  <2>2. ASSUME NEW c \in Call, executed'[c] = 1
        PROVE  /\ Declared(c)' /\ c \notin Interactive
               /\ c \in Asked => Permitted(c)'
               /\ c \in Process => Started(c)'
    <3>1. CASE executed'[c] # executed[c]
      BY <3>1
    <3>2. CASE executed'[c] = executed[c]
      BY <1>1, <2>2, <3>2 DEF CallRecords
    <3>3. QED
      BY <3>1, <3>2
  <2>3. \A c \in Call :
          /\ Requested(c)' \/ Resolved(c)' => c \in Asked
          /\ Requested(c)' => Declared(c)'
          /\ Resolved(c)' => Requested(c)'
          /\ ~(Permitted(c)' /\ Refused(c)')
          /\ c \in Asked /\ Tool(c)' => Resolved(c)'
    BY <1>1, <1>2 DEF CallRecords
  <2>4. QED
    BY <2>1, <2>2, <2>3 DEF CallRecords, Interactive
<1>5. Work(turn') \subseteq Call
  BY DEF Work, TurnRec, Range
<1>6. \A c \in Call : executed'[c] = executed[c] /\ Fresh(c) => Fresh(c)'
  BY <1>2 DEF Fresh
<1>7. WorkAgrees'
  <2>1. \A c \in Work(turn') : Declared(c)' /\ ~(Tool(c)') /\ Open(turn'.messages, c)
    BY <1>1, <1>5 DEF WorkAgrees
  <2>2. \A c \in Range(turn'.hosts) : Fresh(c)' \/ (At("hostRuns")' /\ c = Head(turn'.hosts))
    BY <1>5, <1>6 DEF Work, At
  <2>3. \A c \in Range(turn'.running) : c \in Asked => Resolved(c)'
    BY <1>1, <1>2, <1>5 DEF WorkAgrees, Work
  <2>4. \A c \in Range(turn'.redirects) \cup Range(turn'.ask) : Fresh(c)'
    BY <1>1, <1>5, <1>6 DEF WorkAgrees, Work
  <2>5. Range(turn'.deferred) = {}
    BY NoTurnIdle
  <2>6. \A c \in Range(turn'.ask), e \in Interactive :
          Beside(c, e)' => e = c \/ Tool(e)' \/ e \in Range(turn'.redirects)
    <3>1. \A c \in Range(turn.ask), e \in Interactive :
            c \in Call /\ e \in Call /\ (Beside(c, e) => e = c \/ Tool(e) \/ e \in Range(turn.redirects))
      BY <1>1, <1>5, CallAssumption DEF WorkAgrees, Work
    <3>2. QED
      BY <3>1
  <2>7. ~At("start")' /\ ~At("entries")'
    BY DEF At
  <2>8. QED
    BY <2>1, <2>2, <2>3, <2>4, <2>5, <2>6, <2>7 DEF WorkAgrees
<1>8. AsksLatest'
  BY <1>1, <1>5 DEF AsksLatest, Work, Interactive
<1>9. FromLog(turn.messages)'
  BY DEF IInv, Conversations
<1>10. \A c \in calledOff' : Declared(c)'
  BY <1>1 DEF IInv, Conversations, Types
<1>11. QED
  BY <1>2, <1>3, <1>4, <1>7, <1>8, <1>9, <1>10, TurnGoesOn

\* A step that leaves the log alone starts nothing in it.
LEMMA SameLog ==
  ASSUME IInv, log' = log
  PROVE  StartsOnly
<1>1. log \in Seq(Rec) /\ LogInOrder
  BY DEF IInv, Types
<1>2. QED
  BY <1>1, LogUnchanged DEF Noted, StartsOnly

\* StartAgents: the fresh Agent calls of a round are carried out.
LEMMA StartAgentsKeeps == ASSUME IInv, StartAgents PROVE IInv'
<1>. DEFINE S == Range(turn.running)
<1>1. /\ turn \in TurnRec /\ Shape(turn) /\ Lists(turn) /\ WorkAgrees /\ Types
      /\ At("start") /\ Execute(S) /\ turn' = GoOn(turn)
      /\ log' = log /\ conversation' = conversation /\ panel' = panel
      /\ calledOff' = calledOff /\ stale' = stale /\ used' = used
  BY DEF IInv, Types, StartAgents, Becomes
<1>2. turn.stage = "start" /\ turn.deferred = <<>> /\ turn.kind # "none"
  BY <1>1 DEF At, Shape
<1>3. /\ turn' \in TurnRec
      /\ turn'.kind = turn.kind /\ turn'.hosts = turn.hosts /\ turn'.running = turn.running
      /\ turn'.redirects = turn.redirects /\ turn'.ask = turn.ask /\ turn'.deferred = turn.deferred
      /\ turn'.panel = turn.panel /\ turn'.messages = turn.messages
      /\ turn'.stage \in {"host", "record", "thrown", "redirect", "ask", "provider"}
  BY <1>1, GoOnProperties
<1>4. Shape(turn)'
  BY <1>1, <1>2, GoOnShape
<1>5. Lists(turn)' /\ Work(turn') = Work(turn)
  BY <1>1, <1>3, SameLists
<1>6. S \subseteq Call
  BY <1>1 DEF TurnRec, Range
<1>7. \A c \in S : /\ Fresh(c) /\ c \in Agent /\ c \notin Interactive /\ c \notin Asked /\ c \notin Process
                   /\ executed[c] = 0 /\ Declared(c)
  BY <1>1, CallAssumption DEF WorkAgrees, Lists, Fresh
<1>8. \A c \in Range(turn.hosts) : c \notin S /\ Fresh(c)
  BY <1>1, <1>2 DEF WorkAgrees, At, Lists
<1>9. \A c \in Range(turn.redirects) \cup Range(turn.ask) : c \notin S
  BY <1>1, <1>7 DEF Lists
<1>. HIDE DEF S
<1>10. executed' \in [Call -> {0, 1}] /\ \A c \in Call \ S : executed'[c] = executed[c]
  <2>1. executed' = [c \in Call |-> executed[c] + IF c \in S THEN 1 ELSE 0]
    BY <1>1 DEF Execute
  <2>2. \A c \in Call : executed[c] \in {0, 1}
    BY <1>1 DEF Types
  <2>3. \A c \in Call : executed[c] + (IF c \in S THEN 1 ELSE 0) \in {0, 1}
    BY <1>7, <2>2
  <2>4. \A c \in Call \ S : executed[c] + (IF c \in S THEN 1 ELSE 0) = executed[c]
    BY <2>2
  <2>5. QED
    BY <2>1, <2>3, <2>4
<1>11. ~At("resolve")
  BY <1>2 DEF At
<1>12. Range(turn.hosts) \subseteq Call /\ Range(turn.redirects) \subseteq Call /\ Range(turn.ask) \subseteq Call
  BY <1>1 DEF TurnRec, Range
<1>13. \A c \in Call : executed'[c] # executed[c] => c \in S
  BY <1>10
<1>14. QED
  <2>1. \A c \in Call : executed'[c] # executed[c] =>
          /\ Declared(c) /\ c \notin Interactive
          /\ c \in Asked => Permitted(c)
          /\ c \in Process => Started(c)'
    BY <1>7, <1>13
  <2>2. \A c \in Range(turn'.hosts) : executed'[c] = executed[c] /\ Fresh(c)
    BY <1>3, <1>8, <1>10, <1>12
  <2>3. \A c \in Range(turn.redirects) \cup Range(turn.ask) : executed'[c] = executed[c]
    BY <1>9, <1>10, <1>12
  <2>4. Carried
    BY <1>10, <2>1, <2>2, <2>3 DEF Carried
  <2>5. WorkKept
    BY <1>2, <1>3, <1>4, <1>5 DEF WorkKept
  <2>6. QED
    BY <1>1, <1>2, <1>11, <2>4, <2>5, SameLog, RunKeeps

\* RunHost: a fresh host call is carried out, a process behind its start record.
LEMMA RunHostKeeps == ASSUME IInv, RunHost PROVE IInv'
<1>. DEFINE h == Head(turn.hosts)
<1>1. /\ turn \in TurnRec /\ Shape(turn) /\ Lists(turn) /\ WorkAgrees /\ Types /\ LogInOrder
      /\ At("host") /\ log' = log \o StartRecords(<<h>>) /\ Execute({h})
      /\ turn' = [turn EXCEPT !.stage = "hostRuns"] /\ conversation' = conversation /\ panel' = panel
      /\ calledOff' = calledOff /\ stale' = stale /\ used' = used
  BY DEF IInv, Types, RunHost, Becomes
<1>2. turn.stage = "host" /\ turn.hosts # <<>> /\ turn.hosts \in Seq(Call) /\ turn.deferred = <<>>
      /\ turn.kind # "none"
  BY <1>1 DEF At, Shape, TurnRec
<1>3. h \in Call /\ h \in Range(turn.hosts)
  BY <1>2, TailRange
<1>4. \A c \in Range(turn.hosts) : Fresh(c)
  BY <1>1, <1>2 DEF WorkAgrees, At
<1>5. Declared(h) /\ executed[h] = 0 /\ h \notin Asked \cup Agent \cup Interactive
  BY <1>1, <1>3, <1>4 DEF Fresh, Lists
<1>6. turn' \in TurnRec
  BY <1>1 DEF TurnRec, Stage
<1>7. /\ turn'.kind = turn.kind /\ turn'.stage = "hostRuns" /\ turn'.hosts = turn.hosts
      /\ turn'.running = turn.running /\ turn'.redirects = turn.redirects /\ turn'.ask = turn.ask
      /\ turn'.deferred = turn.deferred /\ turn'.panel = turn.panel /\ turn'.messages = turn.messages
  BY <1>1 DEF TurnRec
<1>8. Shape(turn)'
  BY <1>1, <1>2, <1>7 DEF Shape
<1>9. Lists(turn)' /\ Work(turn') = Work(turn)
  BY <1>1, <1>7, SameLists
<1>10. <<h>> \in Seq(Call) /\ Range(<<h>>) = {h}
  BY <1>3 DEF Range
<1>11. Noted("started", {h} \cap Process)
  <2>1. \A c \in Range(<<h>>) : Declared(c)
    BY <1>5, <1>10
  <2>2. log \in Seq(Rec)
    BY <1>1 DEF Types
  <2>3. Noted("started", Range(<<h>>) \cap Process)
    BY <1>1, <1>10, <2>1, <2>2, StartsNoted
  <2>4. QED
    BY <1>10, <2>3 DEF Noted
<1>12. executed' \in [Call -> {0, 1}] /\ \A c \in Call \ {h} : executed'[c] = executed[c]
  <2>1. executed' = [c \in Call |-> executed[c] + IF c \in {h} THEN 1 ELSE 0]
    BY <1>1 DEF Execute
  <2>2. \A c \in Call : executed[c] \in {0, 1}
    BY <1>1 DEF Types
  <2>. HIDE DEF h
  <2>3. \A c \in Call : executed[c] + (IF c \in {h} THEN 1 ELSE 0) \in {0, 1}
    BY <1>5, <2>2
  <2>4. \A c \in Call \ {h} : executed[c] + (IF c \in {h} THEN 1 ELSE 0) = executed[c]
    BY <2>2
  <2>5. QED
    BY <2>1, <2>3, <2>4
<1>0. Range(turn.hosts) \subseteq Call /\ Range(turn.redirects) \subseteq Call /\ Range(turn.ask) \subseteq Call
  BY <1>1 DEF TurnRec, Range
<1>13. \A c \in Range(turn'.hosts) : \/ executed'[c] = executed[c] /\ Fresh(c)
                                     \/ turn'.stage = "hostRuns" /\ c = Head(turn'.hosts)
  BY <1>0, <1>4, <1>7, <1>12
<1>14. \A c \in Range(turn.redirects) \cup Range(turn.ask) : executed'[c] = executed[c]
  <2>1. h \notin Range(turn.redirects)
    BY <1>1, <1>5 DEF Lists
  <2>2. h \notin Range(turn.ask)
    <3>1. CASE Range(turn.ask) \subseteq Asked
      BY <1>5, <3>1
    <3>2. CASE \E c \in Interactive : turn.ask = <<c>>
      BY <1>5, <3>2 DEF Range
    <3>3. QED
      BY <1>1, <3>1, <3>2 DEF Lists
  <2>3. QED
    BY <1>0, <1>12, <2>1, <2>2
<1>. HIDE DEF h
<1>15. \A c \in Call : executed'[c] # executed[c] =>
         /\ Declared(c) /\ c \notin Interactive
         /\ c \in Asked => Permitted(c)
         /\ c \in Process => Started(c)'
  <2>1. \A c \in Call : executed'[c] # executed[c] => c = h
    BY <1>12
  <2>2. \A c \in Call : c \in {h} \cap Process => Started(c)'
    BY <1>11 DEF Noted
  <2>3. \A c \in Call : executed'[c] # executed[c] => (c \in Process => Started(c)')
    BY <2>1, <2>2
  <2>4. QED
    BY <1>5, <2>1, <2>3
<1>16. ~At("resolve")
  BY <1>2 DEF At
<1>17. StartsOnly
  BY <1>11 DEF Noted, StartsOnly
<1>18. Carried
  BY <1>12, <1>13, <1>14, <1>15 DEF Carried
<1>19. WorkKept
  BY <1>2, <1>6, <1>7, <1>8, <1>9 DEF WorkKept
<1>20. QED
  BY <1>1, <1>2, <1>16, <1>17, <1>18, <1>19, RunKeeps

\* HostThrows: the remaining host calls are dropped, for good.
LEMMA HostThrowsKeeps == ASSUME IInv, HostThrows PROVE IInv'
<1>. DEFINE t == [turn EXCEPT !.hosts = <<>>, !.thrown = TRUE]
<1>1. /\ turn \in TurnRec /\ Shape(turn) /\ Lists(turn) /\ WorkAgrees /\ Types
      /\ At("hostRuns") /\ turn' = GoOn(t)
      /\ log' = log /\ conversation' = conversation /\ panel' = panel /\ executed' = executed
      /\ calledOff' = calledOff /\ stale' = stale /\ used' = used
  BY DEF IInv, Types, HostThrows, Becomes, history
<1>2. turn.stage = "hostRuns" /\ turn.deferred = <<>> /\ turn.kind # "none"
  BY <1>1 DEF At, Shape
<1>3. t \in TurnRec
  <2>1. <<>> \in Seq(Call)
    OBVIOUS
  <2>2. QED
    BY <1>1, <2>1 DEF TurnRec
<1>4. /\ t.kind = turn.kind /\ t.hosts = <<>>
      /\ t.running = turn.running /\ t.redirects = turn.redirects /\ t.ask = turn.ask
      /\ t.deferred = <<>> /\ t.panel = turn.panel /\ t.messages = turn.messages
  BY <1>1, <1>2 DEF TurnRec
<1>. HIDE DEF t
<1>5. /\ turn' \in TurnRec
      /\ turn'.kind = t.kind /\ turn'.hosts = t.hosts /\ turn'.running = t.running
      /\ turn'.redirects = t.redirects /\ turn'.ask = t.ask /\ turn'.deferred = t.deferred
      /\ turn'.panel = t.panel /\ turn'.messages = t.messages
      /\ turn'.stage \in {"host", "record", "thrown", "redirect", "ask", "provider"}
  BY <1>1, <1>3, GoOnProperties
<1>6. Shape(turn)'
  BY <1>1, <1>2, <1>3, <1>4, GoOnShape
<1>7. Range(t.hosts) = {} /\ IsInjective(t.hosts)
  BY <1>4, NoTurnIdle DEF IsInjective
<1>8. Lists(t)
  BY <1>1, <1>2, <1>4, <1>7 DEF Lists
<1>9. Work(t) \subseteq Work(turn)
  BY <1>2, <1>4, <1>7 DEF Work
<1>10. Lists(turn)' /\ Work(turn') = Work(t)
  BY <1>5, <1>8, SameLists
<1>11. ~At("resolve") /\ executed \in [Call -> {0, 1}]
  BY <1>1, <1>2 DEF At, Types
<1>12. Range(turn'.hosts) = {}
  BY <1>5, <1>7
<1>13. Carried
  BY <1>1, <1>11, <1>12 DEF Carried
<1>14. WorkKept
  BY <1>2, <1>4, <1>5, <1>6, <1>9, <1>10 DEF WorkKept
<1>15. QED
  BY <1>1, <1>2, <1>11, <1>13, <1>14, SameLog, RunKeeps

\* EntriesReturn: the decided entries are ready to be recorded.
LEMMA EntriesReturnKeeps == ASSUME IInv, EntriesReturn PROVE IInv'
<1>1. /\ turn \in TurnRec /\ Shape(turn) /\ Lists(turn) /\ WorkAgrees /\ Types
      /\ At("entriesRun") /\ turn' = GoOn(turn)
      /\ log' = log /\ conversation' = conversation /\ panel' = panel /\ executed' = executed
      /\ calledOff' = calledOff /\ stale' = stale /\ used' = used
  BY DEF IInv, Types, EntriesReturn, Becomes, history
<1>2. turn.stage = "entriesRun" /\ turn.deferred = <<>> /\ turn.hosts = <<>> /\ turn.kind # "none"
  BY <1>1 DEF At, Shape
<1>3. /\ turn' \in TurnRec
      /\ turn'.kind = turn.kind /\ turn'.hosts = turn.hosts /\ turn'.running = turn.running
      /\ turn'.redirects = turn.redirects /\ turn'.ask = turn.ask /\ turn'.deferred = turn.deferred
      /\ turn'.panel = turn.panel /\ turn'.messages = turn.messages
      /\ turn'.stage \in {"host", "record", "thrown", "redirect", "ask", "provider"}
  BY <1>1, GoOnProperties
<1>4. Shape(turn)'
  BY <1>1, <1>2, GoOnShape
<1>5. Lists(turn)' /\ Work(turn') = Work(turn)
  BY <1>1, <1>3, SameLists
<1>6. ~At("resolve") /\ executed \in [Call -> {0, 1}]
  BY <1>1, <1>2 DEF At, Types
<1>7. Range(turn'.hosts) = {}
  BY <1>2, <1>3, NoTurnIdle
<1>8. Carried
  BY <1>1, <1>6, <1>7 DEF Carried
<1>9. WorkKept
  BY <1>2, <1>3, <1>4, <1>5 DEF WorkKept
<1>10. QED
  BY <1>1, <1>2, <1>6, <1>8, <1>9, SameLog, RunKeeps

\* RunEntries: the allowed ones of the decided calls are carried out.
LEMMA RunEntriesKeeps == ASSUME IInv, RunEntries PROVE IInv'
<1>. DEFINE allowed == Allowed(turn.running)
            S == Range(allowed)
<1>1. /\ turn \in TurnRec /\ Shape(turn) /\ Lists(turn) /\ WorkAgrees /\ Types /\ LogInOrder
      /\ At("entries") /\ log' = log \o StartRecords(allowed) /\ Execute(S)
      /\ turn' = [turn EXCEPT !.stage = "entriesRun"] /\ conversation' = conversation /\ panel' = panel
      /\ calledOff' = calledOff /\ stale' = stale /\ used' = used
  BY DEF IInv, Types, RunEntries, Becomes
<1>2. turn.stage = "entries" /\ turn.hosts = <<>> /\ turn.running # <<>> /\ turn.running \in Seq(Call)
      /\ turn.deferred = <<>> /\ turn.redirects = <<>> /\ turn.kind # "none"
  BY <1>1 DEF At, Shape, TurnRec
<1>3. allowed \in Seq(Call) /\ S = Range(turn.running) \cap {c \in Call : Has(log, "allow", c)}
  BY <1>2, OnlyProperties DEF Allowed
<1>4. \A c \in Range(turn.running) : c \in Call /\ Decided(c)
  BY <1>1, <1>2 DEF WorkAgrees, At, Range
<1>5. \A c \in S : /\ c \in Call /\ Permitted(c) /\ executed[c] = 0 /\ c \notin Interactive
                   /\ Declared(c) /\ c \in Range(turn.running)
  <2>1. \A c \in S : c \in Range(turn.running) /\ c \in Call /\ Permitted(c)
    BY <1>3 DEF Permitted
  <2>2. \A c \in Range(turn.running) : executed[c] = 0 /\ c \notin Interactive /\ Declared(c)
    BY <1>1, <1>4 DEF Decided, Lists, WorkAgrees, Work
  <2>3. QED
    BY <2>1, <2>2
<1>6. turn' \in TurnRec
  BY <1>1 DEF TurnRec, Stage
<1>7. /\ turn'.kind = turn.kind /\ turn'.stage = "entriesRun" /\ turn'.hosts = turn.hosts
      /\ turn'.running = turn.running /\ turn'.redirects = turn.redirects /\ turn'.ask = turn.ask
      /\ turn'.deferred = turn.deferred /\ turn'.panel = turn.panel /\ turn'.messages = turn.messages
  BY <1>1 DEF TurnRec
<1>8. Shape(turn)'
  BY <1>1, <1>2, <1>7 DEF Shape
<1>9. Lists(turn)' /\ Work(turn') = Work(turn)
  BY <1>1, <1>7, SameLists
<1>. HIDE DEF allowed
<1>10. Noted("started", S \cap Process)
  <2>1. \A c \in S : Declared(c)
    BY <1>5
  <2>2. log \in Seq(Rec)
    BY <1>1 DEF Types
  <2>3. QED
    BY <1>1, <1>3, <2>1, <2>2, StartsNoted
<1>. HIDE DEF S
<1>11. executed' \in [Call -> {0, 1}] /\ \A c \in Call \ S : executed'[c] = executed[c]
  <2>1. executed' = [c \in Call |-> executed[c] + IF c \in S THEN 1 ELSE 0]
    BY <1>1 DEF Execute
  <2>2. \A c \in Call : executed[c] \in {0, 1}
    BY <1>1 DEF Types
  <2>3. \A c \in Call : executed[c] + (IF c \in S THEN 1 ELSE 0) \in {0, 1}
    BY <1>5, <2>2
  <2>4. \A c \in Call \ S : executed[c] + (IF c \in S THEN 1 ELSE 0) = executed[c]
    BY <2>2
  <2>5. QED
    BY <2>1, <2>3, <2>4
<1>12. Range(turn'.hosts) = {} /\ Range(turn.redirects) = {}
  BY <1>2, <1>7, NoTurnIdle
<1>13. \A c \in Range(turn.redirects) \cup Range(turn.ask) : executed'[c] = executed[c]
  <2>1. Range(turn.ask) \subseteq Call
    BY <1>1 DEF TurnRec, Range
  <2>2. \A c \in Range(turn.redirects) \cup Range(turn.ask) : c \notin S
    BY <1>1, <1>5, <1>12 DEF Lists
  <2>3. QED
    BY <1>11, <1>12, <2>1, <2>2
<1>14. \A c \in Call : executed'[c] # executed[c] =>
         /\ Declared(c) /\ c \notin Interactive
         /\ c \in Asked => Permitted(c)
         /\ c \in Process => Started(c)'
  <2>1. \A c \in Call : executed'[c] # executed[c] => c \in S
    BY <1>11
  <2>2. \A c \in S : c \in Process => Started(c)'
    BY <1>5, <1>10 DEF Noted
  <2>3. QED
    BY <1>5, <2>1, <2>2
<1>15. ~At("resolve")
  BY <1>2 DEF At
<1>16. StartsOnly
  BY <1>10 DEF Noted, StartsOnly
<1>17. \A c \in Range(turn'.hosts) :
         \/ executed'[c] = executed[c] /\ Fresh(c)
         \/ turn'.stage = "hostRuns" /\ c = Head(turn'.hosts)
  BY <1>12
<1>18. Carried
  BY <1>11, <1>13, <1>14, <1>17 DEF Carried
<1>19. WorkKept
  BY <1>2, <1>6, <1>7, <1>8, <1>9 DEF WorkKept
<1>20. QED
  BY <1>1, <1>2, <1>15, <1>16, <1>18, <1>19, RunKeeps

-----------------------------------------------------------------------------
(* The end of a turn, and a response.                                        *)

\* A turn that ends leaves what the panel, the log and the conversations say.
LEMMA TurnEnds ==
  ASSUME IInv, turn' = NoTurn, Types', LogInOrder', CallRecords', RedirectsFirst', PanelAgrees(panel)',
         RequestsShown', FromLog(conversation)', FromLog(panel.messages)', \A c \in calledOff' : Declared(c)'
  PROVE  IInv'
<1>1. Shape(turn)' /\ Lists(turn)'
  BY NoTurnIdle
<1>2. WorkAgrees' /\ AsksLatest'
  BY NoTurnIdle DEF WorkAgrees, AsksLatest
<1>3. ResolvesPanel'
  BY NoTurnIdle DEF ResolvesPanel, Continuation
<1>4. Conversations'
  <2>1. turn'.messages = <<>> /\ turn'.panel = NoPanel /\ NoPanel.messages = <<>>
    BY NoTurnIdle DEF NoPanel
  <2>2. FromLog(turn.messages)' /\ FromLog(turn.panel.messages)'
    BY <2>1 DEF FromLog
  <2>3. QED
    BY <2>2 DEF Conversations
<1>5. turn'.kind = "none" => turn' = NoTurn
  OBVIOUS
<1>6. turn'.kind # "none" => panel' = NoPanel
  BY NoTurnIdle
<1>7. QED
  BY <1>1, <1>2, <1>3, <1>4, <1>5, <1>6 DEF IInv

\* Nothing is recorded of a call that no response has issued.
LEMMA Unissued ==
  ASSUME IInv, NEW c \in Call, ~Declared(c)
  PROVE  ~Requested(c) /\ ~Resolved(c) /\ ~Tool(c) /\ executed[c] = 0 /\ c \notin calledOff
<1>1. ~Tool(c)
  <2>1. \A i \in DOMAIN log : log[i] = Record("tool", <<c>>) => Declared(c)
    <3>. SUFFICES ASSUME NEW i \in DOMAIN log, log[i] = Record("tool", <<c>>) PROVE Declared(c)
      OBVIOUS
    <3>1. log[i].kind = "tool" /\ log[i].calls = <<c>>
      BY DEF Record
    <3>2. PICK d \in Call : Declared(d) /\ log[i].calls = <<d>>
      BY <3>1 DEF IInv, LogInOrder
    <3>3. QED
      BY <3>1, <3>2
  <2>2. QED
    BY <2>1 DEF Tool, Has
<1>2. ~Requested(c) /\ ~Resolved(c)
  BY DEF IInv, CallRecords
<1>3. executed[c] = 0 /\ c \notin calledOff
  BY DEF IInv, Types, CallRecords, Conversations
<1>4. QED
  BY <1>1, <1>2, <1>3

\* What a request reports as interrupted was issued.
LEMMA ReportedIssued ==
  ASSUME FromLog(turn.messages) PROVE ReportedInterrupted \subseteq {c \in Call : Declared(c)}
<1>. SUFFICES ASSUME NEW c \in ReportedInterrupted PROVE c \in Call /\ Declared(c)
  OBVIOUS
<1>1. PICK i \in DOMAIN turn.messages : turn.messages[i] = Record("synthetic", <<c>>)
  BY DEF ReportedInterrupted, Has
<1>2. turn.messages[i].kind = "synthetic" /\ turn.messages[i].calls = <<c>>
  BY <1>1 DEF Record
<1>3. \E d \in Call : turn.messages[i].calls = <<d>> /\ Declared(d)
  BY <1>2 DEF FromLog
<1>4. QED
  BY <1>2, <1>3

\* planToolRound: who is asked, and which interactive calls give way to that.
LEMMA PlanProperties ==
  ASSUME NEW calls \in Seq(Call), IsInjective(calls)
  PROVE  LET plan == PlanPause(calls)
         IN  /\ plan.redirects \in Seq(Call) /\ IsInjective(plan.redirects)
             /\ Range(plan.redirects) \subseteq Range(calls) \cap Interactive
             /\ plan.ask \in Seq(Call) /\ IsInjective(plan.ask)
             /\ Range(plan.ask) \subseteq Range(calls)
             /\ Range(plan.ask) \subseteq Asked \/ \E c \in Interactive : plan.ask = <<c>>
             /\ Range(plan.ask) \cap Range(plan.redirects) = {}
             /\ \A c \in Range(plan.ask), d \in Range(calls) \cap Interactive :
                  d = c \/ d \in Range(plan.redirects)
<1>. DEFINE asked == Only(calls, Asked)
            interactive == Only(calls, Interactive)
            plan == PlanPause(calls)
<1>1. /\ asked \in Seq(Call) /\ IsInjective(asked) /\ Range(asked) = Range(calls) \cap Asked
      /\ interactive \in Seq(Call) /\ IsInjective(interactive)
      /\ Range(interactive) = Range(calls) \cap Interactive
  BY OnlyProperties
<1>2. plan = CASE asked # <<>> -> [redirects |-> interactive, ask |-> asked]
               [] asked = <<>> /\ interactive # <<>> ->
                    [redirects |-> Tail(interactive), ask |-> <<Head(interactive)>>]
               [] OTHER -> [redirects |-> <<>>, ask |-> <<>>]
  BY DEF PlanPause
<1>. HIDE DEF asked, interactive, plan
<1>3. Range(asked) \cap Range(interactive) = {} /\ Range(<<>>) = {} /\ IsInjective(<<>>) /\ <<>> \in Seq(Call)
  BY <1>1, CallAssumption, NoTurnIdle DEF IsInjective
<1>4. CASE asked # <<>>
  <2>1. plan.redirects = interactive /\ plan.ask = asked
    BY <1>2, <1>4
  <2>2. QED
    BY <1>1, <1>3, <2>1 DEF plan
<1>5. CASE asked = <<>> /\ interactive # <<>>
  <2>. DEFINE h == Head(interactive)
  <2>1. plan.redirects = Tail(interactive) /\ plan.ask = <<h>>
    BY <1>2, <1>5
  <2>2. /\ h \in Range(interactive) /\ h \in Call /\ Tail(interactive) \in Seq(Call)
        /\ Range(interactive) = Range(Tail(interactive)) \cup {h}
        /\ IsInjective(Tail(interactive)) /\ h \notin Range(Tail(interactive))
    BY <1>1, <1>5, TailRange
  <2>. HIDE DEF h
  <2>3. <<h>> \in Seq(Call) /\ IsInjective(<<h>>) /\ Range(<<h>>) = {h}
    BY <2>2 DEF IsInjective, Range
  <2>4. h \in Interactive
    BY <1>1, <2>2
  <2>5. QED
    BY <1>1, <2>1, <2>2, <2>3, <2>4 DEF plan
<1>6. CASE asked = <<>> /\ interactive = <<>>
  <2>1. plan.redirects = <<>> /\ plan.ask = <<>>
    BY <1>2, <1>6
  <2>2. QED
    BY <1>1, <1>3, <2>1 DEF plan
<1>7. QED
  BY <1>4, <1>5, <1>6

\* With no turn and no interaction before the user, only stale requests are open.
LEMMA NothingShown ==
  ASSUME IInv, panel = NoPanel, ~At("resolve")
  PROVE  \A c \in Call : Requested(c) /\ ~Resolved(c) => c \in stale
<1>1. \A c : ~AtUser(panel, c)
  BY DEF AtUser, NoPanel
<1>2. QED
  BY <1>1 DEF IInv, RequestsShown

\* GiveUp: the turn ends after a tool round.
LEMMA GiveUpKeeps == ASSUME IInv, GiveUp PROVE IInv'
<1>1. /\ At("provider") /\ conversation' = turn.messages /\ turn' = NoTurn /\ log' = log
      /\ panel' = panel /\ executed' = executed /\ calledOff' = calledOff /\ stale' = stale /\ used' = used
  BY DEF GiveUp, history
<1>2. turn \in TurnRec /\ turn.kind # "none" /\ panel = NoPanel /\ ~At("resolve") /\ Types
  BY <1>1 DEF IInv, Types, Shape, At
<1>3. StartsOnly
  BY <1>1, SameLog
<1>. USE DEF StartsOnly
<1>4. \A c \in Call : Resolved(c)' <=> Resolved(c)
  BY <1>3, ResolvedSplit
<1>5. Types'
  BY <1>1, <1>2, NoTurnIdle DEF Types, TurnRec
<1>6. CallRecords'
  <2>1. \A c \in Call : Started(c)' <=> Started(c)
    BY <1>1 DEF Started
  <2>2. QED
    BY <1>1, <1>3, <1>4, <2>1 DEF IInv, CallRecords
<1>7. RedirectsFirst'
  BY <1>3, CallAssumption DEF IInv, RedirectsFirst
<1>8. RequestsShown'
  <2>1. \A c \in Call : Requested(c) /\ ~Resolved(c) => c \in stale
    BY <1>2, NothingShown
  <2>2. QED
    BY <1>1, <1>3, <1>4, <2>1 DEF RequestsShown
<1>9. FromLog(conversation)' /\ FromLog(panel.messages)'
  <2>1. FromLog(turn.messages) /\ FromLog(panel.messages)
    BY DEF IInv, Conversations
  <2>2. PICK m : m = turn.messages
    OBVIOUS
  <2>3. FromLog(m)'
    BY <1>3, <2>1, <2>2
  <2>4. PICK n : n = panel.messages
    OBVIOUS
  <2>5. FromLog(n)'
    BY <1>3, <2>1, <2>4
  <2>6. conversation' = m /\ panel'.messages = n
    BY <1>1, <2>2, <2>4
  <2>7. QED
    BY <2>3, <2>5, <2>6
<1>10. \A c \in calledOff' : Declared(c)'
  BY <1>1, <1>2, <1>3 DEF IInv, Conversations, Types
<1>11. PanelAgrees(panel)'
  BY <1>1, <1>2, NoPanelAgrees
<1>12. QED
  BY <1>1, <1>3, <1>5, <1>6, <1>7, <1>8, <1>9, <1>10, <1>11, TurnEnds

\* Reply: the turn ends with a response without calls.
LEMMA ReplyKeeps == ASSUME IInv, Reply PROVE IInv'
<1>1. /\ At("provider") /\ turn' = NoTurn /\ panel' = panel
      /\ log' = Append(log, Record("assistant", <<>>))
      /\ conversation' = Append(turn.messages, Record("assistant", <<>>))
      /\ executed' = executed /\ calledOff' = calledOff \cup ReportedInterrupted /\ stale' = stale
      /\ used' = used
  BY DEF Reply
<1>2. /\ turn \in TurnRec /\ turn.kind # "none" /\ panel = NoPanel /\ ~At("resolve") /\ Types /\ LogInOrder
      /\ CallRecords /\ RedirectsFirst /\ FromLog(turn.messages)
  BY <1>1 DEF IInv, Types, Shape, At, Conversations
<1>3. <<>> \in Seq(Call) /\ IsInjective(<<>>) /\ Range(<<>>) = {}
  BY NoTurnIdle DEF IsInjective
<1>4. Responded({})
  BY <1>1, <1>2, <1>3, ResponseAppended DEF Types
<1>5. /\ log' \in Seq(Rec) /\ LogInOrder'
      /\ \A c \in Call :
           /\ Declared(c)' <=> Declared(c)
           /\ Requested(c)' <=> Requested(c)
           /\ Permitted(c)' <=> Permitted(c)
           /\ Refused(c)' <=> Refused(c)
           /\ Started(c)' <=> Started(c)
           /\ Tool(c)' <=> Tool(c)
           /\ Once(c) => Once(c)'
      /\ \A c, d \in Call : Beside(c, d)' <=> Beside(c, d)
      /\ \A messages : FromLog(messages) => FromLog(messages)'
  BY <1>4 DEF Responded
<1>6. \A c \in Call : Resolved(c)' <=> Resolved(c)
  BY <1>5, ResolvedSplit
<1>7. ReportedInterrupted \subseteq {c \in Call : Declared(c)}
  BY <1>2, ReportedIssued
<1>8. Record("assistant", <<>>) \in Rec /\ Record("assistant", <<>>).kind = "assistant"
  BY <1>3 DEF Record, Rec
<1>9. Types'
  <2>1. conversation' \in Seq(Rec)
    <3>1. turn.messages \in Seq(Rec)
      BY <1>2 DEF TurnRec
    <3>2. QED
      BY <1>1, <1>8, <3>1
  <2>2. calledOff' \subseteq Call
    BY <1>1, <1>2, <1>7 DEF Types
  <2>3. QED
    BY <1>1, <1>2, <1>5, <2>1, <2>2, NoTurnIdle DEF Types
<1>10. CallRecords'
  BY <1>1, <1>2, <1>5, <1>6 DEF CallRecords
<1>11. RedirectsFirst'
  BY <1>2, <1>5, CallAssumption DEF RedirectsFirst
<1>12. RequestsShown'
  <2>1. \A c \in Call : Requested(c) /\ ~Resolved(c) => c \in stale
    BY <1>2, NothingShown
  <2>2. QED
    BY <1>1, <1>5, <1>6, <2>1 DEF RequestsShown
<1>13. FromLog(conversation)' /\ FromLog(panel.messages)'
  <2>1. FromLog(panel.messages)
    BY DEF IInv, Conversations
  <2>2. PICK m : m = turn.messages
    OBVIOUS
  <2>3. m \in Seq(Rec) /\ FromLog(m)'
    BY <1>2, <1>5, <2>2 DEF TurnRec
  <2>4. PICK n : n = panel.messages
    OBVIOUS
  <2>5. FromLog(n)'
    BY <1>5, <2>1, <2>4
  <2>6. conversation' = Append(m, Record("assistant", <<>>)) /\ panel'.messages = n
    BY <1>1, <2>2, <2>4
  <2>7. Record("assistant", <<>>) \in Range(log')
    <3>1. Range(Append(log, Record("assistant", <<>>))) = Range(log) \cup {Record("assistant", <<>>)}
      BY <1>2, <1>8, AppendRange DEF Types
    <3>2. QED
      BY <1>1, <3>1
  <2>8. FromLog(Append(m, Record("assistant", <<>>)))'
    BY <1>8, <2>3, <2>7, FromLogAppend
  <2>9. QED
    BY <2>5, <2>6, <2>8
<1>14. \A c \in calledOff' : Declared(c)'
  BY <1>1, <1>2, <1>5, <1>7 DEF IInv, Conversations, Types
<1>15. PanelAgrees(panel)'
  BY <1>1, <1>2, NoPanelAgrees
<1>16. QED
  BY <1>1, <1>5, <1>9, <1>10, <1>11, <1>12, <1>13, <1>14, <1>15, TurnEnds

\* Respond: a response issues new calls, and the plan puts each on one list.
LEMMA RespondKeeps == ASSUME IInv, NEW calls \in Batch, Respond(calls) PROVE IInv'
<1>. DEFINE new == Range(calls)
            plan == PlanPause(calls)
<1>1. /\ At("provider") /\ \A i \in DOMAIN calls : Declarations(log, calls[i]) = {}
      /\ log' = Append(log, Record("assistant", calls))
      /\ turn' = [turn EXCEPT !.stage = "start", !.answered = TRUE,
           !.messages = Append(@, Record("assistant", calls)),
           !.hosts = Only(calls, Call \ (Asked \cup Interactive \cup Agent)),
           !.running = Only(calls, Agent \ Asked),
           !.redirects = plan.redirects, !.ask = plan.ask]
      /\ conversation' = conversation /\ panel' = panel /\ executed' = executed /\ stale' = stale
      /\ calledOff' = calledOff \cup ReportedInterrupted
      /\ used.rounds < MaxRounds /\ used' = [used EXCEPT !.rounds = @ + 1]
  BY DEF Respond, Becomes, Spend
<1>2. /\ turn \in TurnRec /\ turn.kind # "none" /\ ~At("resolve") /\ Types /\ LogInOrder
      /\ CallRecords /\ FromLog(turn.messages) /\ turn.deferred = <<>>
  BY <1>1 DEF IInv, Types, Shape, At, Conversations
<1>3. calls \in Seq(Call) /\ IsInjective(calls) /\ new \subseteq Call
  BY CallAssumption DEF Range
<1>4. \A c \in new : ~Declared(c)
  <2>. SUFFICES ASSUME NEW i \in DOMAIN calls PROVE ~Declared(calls[i])
    BY DEF Range
  <2>1. Declarations(log, calls[i]) = {}
    BY <1>1
  <2>2. QED
    BY <2>1 DEF Declarations, Declared, Issues
<1>5. Responded(new)
  BY <1>1, <1>2, <1>3, <1>4, ResponseAppended DEF Types
<1>6. /\ log' \in Seq(Rec) /\ LogInOrder'
      /\ \A c \in Call :
           /\ Declared(c)' <=> Declared(c) \/ c \in new
           /\ InLatest(c)' <=> c \in new
           /\ Requested(c)' <=> Requested(c)
           /\ Permitted(c)' <=> Permitted(c)
           /\ Refused(c)' <=> Refused(c)
           /\ Started(c)' <=> Started(c)
           /\ Tool(c)' <=> Tool(c)
           /\ Once(c) => Once(c)'
      /\ \A c, d \in Call : Beside(c, d)' <=> Beside(c, d) \/ (c \in new /\ d \in new)
      /\ \A messages : FromLog(messages) => FromLog(messages)'
  BY <1>5 DEF Responded
<1>7. \A c \in Call : Resolved(c)' <=> Resolved(c)
  BY <1>6, ResolvedSplit
<1>8. ReportedInterrupted \subseteq {c \in Call : Declared(c)}
  BY <1>2, ReportedIssued
<1>9. /\ plan.redirects \in Seq(Call) /\ IsInjective(plan.redirects)
      /\ Range(plan.redirects) \subseteq new \cap Interactive
      /\ plan.ask \in Seq(Call) /\ IsInjective(plan.ask)
      /\ Range(plan.ask) \subseteq new
      /\ Range(plan.ask) \subseteq Asked \/ \E c \in Interactive : plan.ask = <<c>>
      /\ Range(plan.ask) \cap Range(plan.redirects) = {}
      /\ \A c \in Range(plan.ask), d \in new \cap Interactive : d = c \/ d \in Range(plan.redirects)
  BY <1>3, PlanProperties
<1>. HIDE DEF plan
<1>10. PICK hosts \in Seq(Call) : /\ hosts = Only(calls, Call \ (Asked \cup Interactive \cup Agent))
                                  /\ Range(hosts) = new \ (Asked \cup Interactive \cup Agent)
                                  /\ IsInjective(hosts)
  BY <1>3, OnlyProperties
<1>11. PICK running \in Seq(Call) : /\ running = Only(calls, Agent \ Asked)
                                    /\ Range(running) = new \cap (Agent \ Asked)
                                    /\ IsInjective(running)
  BY <1>3, OnlyProperties
<1>12. Record("assistant", calls) \in Rec /\ Record("assistant", calls).kind = "assistant"
  BY <1>3 DEF Record, Rec
<1>. HIDE DEF new
<1>13. /\ turn' \in TurnRec /\ turn'.kind = turn.kind /\ turn'.stage = "start"
       /\ turn'.hosts = hosts /\ turn'.running = running /\ turn'.redirects = plan.redirects
       /\ turn'.ask = plan.ask /\ turn'.deferred = <<>> /\ turn'.panel = turn.panel
       /\ turn'.messages = Append(turn.messages, Record("assistant", calls))
  <2>1. turn.messages \in Seq(Rec) /\ Append(turn.messages, Record("assistant", calls)) \in Seq(Rec)
    <3>1. turn.messages \in Seq(Rec)
      BY <1>2 DEF TurnRec
    <3>2. QED
      BY <1>12, <3>1
  <2>2. turn' = [turn EXCEPT !.stage = "start", !.answered = TRUE,
           !.messages = Append(turn.messages, Record("assistant", calls)),
           !.hosts = hosts, !.running = running, !.redirects = plan.redirects, !.ask = plan.ask]
    BY <1>1, <1>10, <1>11
  <2>3. "start" \in Stage
    BY DEF Stage
  <2>4. QED
    BY <1>2, <1>9, <2>1, <2>2, <2>3 DEF TurnRec
<1>14. Shape(turn)'
  BY <1>2, <1>13 DEF Shape
<1>15. Lists(turn)'
  <2>1. Range(plan.ask) \cap Range(running) = {}
    <3>1. CASE Range(plan.ask) \subseteq Asked
      BY <1>11, <3>1
    <3>2. CASE \E c \in Interactive : plan.ask = <<c>>
      <4>1. PICK c \in Interactive : plan.ask = <<c>>
        BY <3>2
      <4>2. Range(<<c>>) = {c}
        BY DEF Range
      <4>3. QED
        BY <1>11, <4>1, <4>2, CallAssumption
    <3>3. QED
      BY <1>9, <3>1, <3>2
  <2>2. Range(running) \cap Interactive = {}
    BY <1>11, CallAssumption
  <2>3. IsInjective(turn'.deferred)
    BY <1>13 DEF IsInjective
  <2>4. QED
    BY <1>9, <1>10, <1>11, <1>13, <2>1, <2>2, <2>3 DEF Lists
<1>16. Work(turn') \subseteq new
  BY <1>9, <1>10, <1>11, <1>13, NoTurnIdle DEF Work
<1>17. Types'
  <2>1. calledOff' \subseteq Call
    BY <1>1, <1>2, <1>8 DEF Types
  <2>2. used' \in [rounds : 0..MaxRounds, prompts : 0..MaxPrompts, troubles : 0..MaxTroubles,
                   crashes : 0..MaxCrashes]
    <3>1. used \in [rounds : 0..MaxRounds, prompts : 0..MaxPrompts, troubles : 0..MaxTroubles,
                    crashes : 0..MaxCrashes]
      BY <1>2 DEF Types
    <3>2. used.rounds + 1 \in 0..MaxRounds /\ used' = [used EXCEPT !.rounds = used.rounds + 1]
      BY <1>1, <3>1, BoundAssumption
    <3>3. QED
      BY <3>1, <3>2
  <2>3. QED
    BY <1>1, <1>2, <1>6, <1>13, <2>1, <2>2 DEF Types
<1>18. CallRecords'
  BY <1>1, <1>2, <1>6, <1>7 DEF CallRecords
<1>19. \A c \in new : Fresh(c)'
  <2>. SUFFICES ASSUME NEW c \in new PROVE Fresh(c)'
    OBVIOUS
  <2>1. c \in Call /\ ~Declared(c)
    BY <1>3, <1>4
  <2>2. ~Requested(c) /\ ~Resolved(c) /\ ~Tool(c) /\ executed[c] = 0 /\ c \notin calledOff
    BY <2>1, Unissued
  <2>3. c \notin calledOff'
    BY <1>1, <1>8, <2>1, <2>2
  <2>4. QED
    BY <1>1, <1>6, <1>7, <2>1, <2>2, <2>3 DEF Fresh
<1>20. WorkAgrees'
  <2>1. \A c \in new : Declared(c)' /\ ~(Tool(c)')
    BY <1>19 DEF Fresh
  <2>2. ASSUME NEW c \in Work(turn') PROVE Open(turn'.messages, c)
    <3>1. turn.messages \in Seq(Rec)
      BY <1>2 DEF TurnRec
    <3>2. c \in Range(calls) /\ ~Declared(c)
      BY <1>4, <1>16, <2>2 DEF new
    <3>3. Open(Append(turn.messages, Record("assistant", calls)), c)
      BY <1>2, <1>3, <3>1, <3>2, OpenBesideResponse
    <3>4. QED
      BY <1>13, <3>3
  <2>3. \A c \in Range(turn'.hosts) : Fresh(c)'
    BY <1>10, <1>13, <1>19
  <2>4. \A c \in Range(turn'.running) : c \notin Asked /\ Fresh(c)' /\ c \in Agent
    BY <1>11, <1>13, <1>19
  <2>5. \A c \in Range(turn'.redirects) \cup Range(turn'.ask) : Fresh(c)'
    BY <1>9, <1>13, <1>19
  <2>6. Range(turn'.deferred) = {}
    BY <1>13, NoTurnIdle
  <2>7. \A c \in Range(turn'.ask), e \in Interactive :
          Beside(c, e)' => e = c \/ Tool(e)' \/ e \in Range(turn'.redirects)
    <3>. SUFFICES ASSUME NEW c \in Range(plan.ask), NEW e \in Interactive, Beside(c, e)'
                  PROVE  e = c \/ e \in Range(plan.redirects)
      BY <1>13
    <3>1. c \in Call /\ e \in Call /\ c \in new /\ ~Declared(c)
      BY <1>3, <1>4, <1>9, CallAssumption
    <3>2. ~Beside(c, e)
      BY <3>1 DEF Beside, Declared
    <3>3. e \in new
      BY <1>6, <3>1, <3>2
    <3>4. QED
      BY <1>9, <3>3
  <2>8. ~At("entries")'
    BY <1>13 DEF At
  <2>9. QED
    BY <1>16, <2>1, <2>2, <2>3, <2>4, <2>5, <2>6, <2>7, <2>8 DEF WorkAgrees
<1>21. AsksLatest'
  BY <1>3, <1>6, <1>9, <1>13 DEF AsksLatest
<1>22. FromLog(turn.messages)'
  <2>1. PICK m : m = turn.messages
    OBVIOUS
  <2>2. m \in Seq(Rec) /\ FromLog(m)'
    BY <1>2, <1>6, <2>1 DEF TurnRec
  <2>3. Record("assistant", calls) \in Range(log')
    <3>1. Range(Append(log, Record("assistant", calls))) = Range(log) \cup {Record("assistant", calls)}
      BY <1>2, <1>12, AppendRange DEF Types
    <3>2. QED
      BY <1>1, <3>1
  <2>4. FromLog(Append(m, Record("assistant", calls)))'
    BY <1>12, <2>2, <2>3, FromLogAppend
  <2>5. turn'.messages = Append(m, Record("assistant", calls))
    BY <1>13, <2>1
  <2>6. QED
    BY <2>4, <2>5
<1>23. \A c \in calledOff' : Declared(c)'
  BY <1>1, <1>2, <1>6, <1>8 DEF IInv, Conversations, Types
<1>24. QED
  <2>1. turn'.stage \notin {"none", "resolve"}
    BY <1>13
  <2>2. \A c, e \in Call : Requested(c) /\ Beside(c, e)' => Beside(c, e)
    <3>1. \A c \in Call : Requested(c) => c \notin new
      BY <1>2, <1>4 DEF CallRecords
    <3>2. QED
      BY <1>6, <3>1
  <2>3. \A c \in Call : /\ Declared(c) => Declared(c)'
                        /\ Requested(c)' <=> Requested(c)
                        /\ Resolved(c) => Resolved(c)'
                        /\ Tool(c) => Tool(c)'
    BY <1>6, <1>7
  <2>4. \A messages : FromLog(messages) => FromLog(messages)'
    BY <1>6
  <2>5. QED
    BY <1>1, <1>2, <1>6, <1>13, <1>14, <1>15, <1>17, <1>18, <1>20, <1>21, <1>22, <1>23,
       <2>1, <2>2, <2>3, <2>4, TurnGoesOn

-----------------------------------------------------------------------------
(* Prompts and panels.                                                       *)

\* A step that records nothing leaves every panel as true as it was.
LEMMA PendingUnchanged ==
  ASSUME log' = log
  PROVE  /\ PendingPermission' = PendingPermission
         /\ PendingCall(Gate)' = PendingCall(Gate) /\ PendingCall(Question)' = PendingCall(Question)
BY DEF PendingPermission, PendingCall, Resolved, Has

\* A step that leaves log and executions alone keeps what the records say.
LEMMA RecordsUnchanged ==
  ASSUME IInv, log' = log, executed' = executed
  PROVE  /\ StartsOnly /\ CallRecords' /\ RedirectsFirst'
         /\ \A c \in Call : Resolved(c)' <=> Resolved(c)
<1>1. StartsOnly
  BY SameLog
<1>2. \A c \in Call : (Started(c)' <=> Started(c)) /\ (Resolved(c)' <=> Resolved(c))
  BY DEF Started, Resolved
<1>3. CallRecords'
  BY <1>1, <1>2 DEF IInv, CallRecords, StartsOnly
<1>4. RedirectsFirst'
  BY <1>1, CallAssumption DEF IInv, RedirectsFirst, StartsOnly
<1>5. QED
  BY <1>1, <1>2, <1>3, <1>4

\* A step that leaves the log alone keeps what a panel asks for.
LEMMA PanelUnchanged ==
  ASSUME IInv, log' = log, executed' = executed, calledOff' = calledOff, stale \subseteq stale'
  PROVE  \A p \in PanelRec : PanelAgrees(p) => PanelAgrees(p)'
<1>1. StartsOnly
  BY SameLog
<1>2. \A c \in Call : Resolved(c)' <=> Resolved(c)
  BY DEF Resolved
<1>5. ASSUME NEW p \in PanelRec, PanelAgrees(p) PROVE PanelAgrees(p)'
  <2>1. \A c \in Call : /\ Declared(c)' <=> Declared(c)
                        /\ Requested(c)' <=> Requested(c)
                        /\ Tool(c)' <=> Tool(c)
    BY <1>1 DEF StartsOnly
  <2>2. \A c \in Call : /\ Fresh(c) => Fresh(c)'
                        /\ Waiting(c) => Waiting(c)'
                        /\ Decided(c) => Decided(c)'
    BY <1>2, <2>1 DEF Fresh, Waiting, Decided
  <2>3. Range(p.calls) \subseteq Call /\ Range(p.deferred) \subseteq Call
    BY DEF PanelRec, Range
  <2>4. CASE p.kind = "permission"
    <3>1. /\ p.calls # <<>> /\ Range(p.calls) \subseteq Asked
          /\ IsInjective(p.calls) /\ IsInjective(p.deferred)
          /\ Waiting(p.calls[1]) /\ PendingPermission = {p.calls[1]}
          /\ \A c \in Range(Tail(p.calls)) : Fresh(c)
          /\ \A c \in Range(p.deferred) : c \in Agent /\ Decided(c)
          /\ \A c \in Range(p.calls) \cup Range(p.deferred) : Open(p.messages, c)
          /\ \A c \in Range(p.calls), d \in Interactive : Beside(c, d) => Tool(d)
      BY <1>5, <2>4 DEF PanelAgrees
    <3>2. p.calls \in Seq(Call)
      BY DEF PanelRec
    <3>3. p.calls[1] \in Call /\ Range(Tail(p.calls)) \subseteq Call
      BY <2>3, <3>1, <3>2, TailRange
    <3>4. /\ Waiting(p.calls[1])' /\ PendingPermission' = {p.calls[1]}
          /\ \A c \in Range(Tail(p.calls)) : Fresh(c)'
          /\ \A c \in Range(p.deferred) : c \in Agent /\ Decided(c)'
      BY <2>2, <2>3, <3>1, <3>3, PendingUnchanged
    <3>5. \A c \in Range(p.calls), d \in Interactive : Beside(c, d)' => Tool(d)'
      <4>1. Interactive \subseteq Call /\ \A c, d \in Call : Beside(c, d)' <=> Beside(c, d)
        BY <1>1, CallAssumption DEF StartsOnly
      <4>2. QED
        BY <2>1, <2>3, <3>1, <4>1
    <3>6. QED
      BY <2>4, <3>1, <3>4, <3>5 DEF PanelAgrees
  <2>5. CASE p.kind = "gate"
    <3>1. /\ p.deferred = <<>> /\ \E g \in Gate : p.calls = <<g>> /\ Declared(g)
          /\ Tool(p.calls[1]) \/ PendingCall(Gate) = {p.calls[1]}
      BY <1>5, <2>5 DEF PanelAgrees
    <3>2. PICK g \in Gate : p.calls = <<g>> /\ Declared(g) /\ g \in Call
      BY <3>1, CallAssumption DEF Interactive
    <3>3. Declared(g)' /\ p.calls[1] = g /\ (Tool(g)' \/ PendingCall(Gate)' = {g})
      BY <2>1, <3>1, <3>2, PendingUnchanged
    <3>4. QED
      BY <2>5, <3>1, <3>2, <3>3 DEF PanelAgrees
  <2>6. CASE p.kind = "question"
    <3>1. /\ p.deferred = <<>> /\ \E q \in Question : p.calls = <<q>> /\ Declared(q) /\ ~Tool(q)
          /\ PendingCall(Gate) = {} /\ PendingCall(Question) = {p.calls[1]}
      BY <1>5, <2>6 DEF PanelAgrees
    <3>2. PICK q \in Question : p.calls = <<q>> /\ Declared(q) /\ ~Tool(q) /\ q \in Call
      BY <3>1, CallAssumption DEF Interactive
    <3>3. Declared(q)' /\ ~(Tool(q)')
      BY <2>1, <3>2
    <3>4. QED
      BY <2>6, <3>1, <3>2, <3>3, PendingUnchanged DEF PanelAgrees
  <2>7. CASE p.kind = "none"
    BY <1>5, <2>7 DEF PanelAgrees
  <2>8. QED
    BY <2>4, <2>5, <2>6, <2>7 DEF PanelRec
<1>6. QED
  BY <1>5

\* SubmitPrompt: a prompt starts a turn that has no work yet.
LEMMA SubmitPromptKeeps == ASSUME IInv, SubmitPrompt PROVE IInv'
<1>1. /\ turn = NoTurn /\ panel = NoPanel /\ used.prompts < MaxPrompts
      /\ used' = [used EXCEPT !.prompts = @ + 1]
      /\ turn' = [NoTurn EXCEPT !.kind = "prompt", !.stage = "provider", !.messages = conversation]
      /\ conversation' = conversation /\ panel' = panel /\ log' = log
      /\ executed' = executed /\ calledOff' = calledOff /\ stale' = stale
  BY DEF SubmitPrompt, Busy, Becomes, Spend, history
<1>2. Types /\ LogInOrder /\ conversation \in Seq(Rec)
  BY DEF IInv, Types
<1>3. /\ turn' \in TurnRec /\ turn'.kind = "prompt" /\ turn'.stage = "provider"
      /\ turn'.hosts = <<>> /\ turn'.running = <<>> /\ turn'.redirects = <<>>
      /\ turn'.ask = <<>> /\ turn'.deferred = <<>> /\ turn'.panel = NoPanel
      /\ turn'.messages = conversation
  <2>1. "provider" \in Stage /\ NoTurn \in TurnRec
    BY NoTurnIdle DEF Stage
  <2>2. QED
    BY <1>1, <1>2, <2>1, NoTurnIdle DEF TurnRec
<1>4. StartsOnly /\ CallRecords' /\ RedirectsFirst' /\ \A c \in Call : Resolved(c)' <=> Resolved(c)
  BY <1>1, RecordsUnchanged
<1>5. Types'
  <2>1. used' \in [rounds : 0..MaxRounds, prompts : 0..MaxPrompts, troubles : 0..MaxTroubles,
                   crashes : 0..MaxCrashes]
    <3>1. used \in [rounds : 0..MaxRounds, prompts : 0..MaxPrompts, troubles : 0..MaxTroubles,
                    crashes : 0..MaxCrashes]
      BY <1>2 DEF Types
    <3>2. used.prompts + 1 \in 0..MaxPrompts /\ used' = [used EXCEPT !.prompts = used.prompts + 1]
      BY <1>1, <3>1, BoundAssumption
    <3>3. QED
      BY <3>1, <3>2
  <2>2. QED
    BY <1>1, <1>2, <1>3, <2>1 DEF Types
<1>6. Shape(turn)'
  BY <1>3 DEF Shape
<1>7. Lists(turn)' /\ Work(turn') = {}
  BY <1>3, NoTurnIdle, SameLists
<1>8. WorkAgrees' /\ AsksLatest'
  BY <1>3, <1>7, NoTurnIdle DEF WorkAgrees, AsksLatest
<1>9. RequestsShown'
  <2>1. ~At("resolve")
    BY <1>1, NoTurnIdle DEF At
  <2>2. \A c \in Call : Requested(c) /\ ~Resolved(c) => c \in stale
    BY <1>1, <2>1, NothingShown
  <2>3. QED
    BY <1>1, <1>4, <2>2 DEF RequestsShown, StartsOnly
<1>10. ResolvesPanel'
  BY <1>3 DEF ResolvesPanel, Continuation
<1>11. Conversations'
  <2>1. PICK m : m = conversation
    OBVIOUS
  <2>2. FromLog(m)'
    BY <1>4, <2>1 DEF IInv, Conversations, StartsOnly
  <2>3. FromLog(NoPanel.messages)'
    BY NoMessages DEF NoPanel
  <2>4. \A c \in calledOff' : Declared(c)'
    BY <1>1, <1>2, <1>4 DEF IInv, Conversations, StartsOnly, Types
  <2>5. conversation' = m /\ turn'.messages = m /\ panel' = NoPanel /\ turn'.panel = NoPanel
    BY <1>1, <1>3, <2>1
  <2>6. QED
    BY <2>2, <2>3, <2>4, <2>5 DEF Conversations
<1>12. PanelAgrees(panel)'
  BY <1>1, NoPanelAgrees
<1>13. QED
  BY <1>1, <1>3, <1>4, <1>5, <1>6, <1>7, <1>8, <1>9, <1>10, <1>11, <1>12 DEF IInv, StartsOnly

\* Decide: the panel moves into the turn that resolves it.
LEMMA DecideKeeps == ASSUME IInv, Decide PROVE IInv'
<1>1. /\ turn = NoTurn /\ panel # NoPanel /\ panel' = NoPanel
      /\ turn' = [NoTurn EXCEPT !.kind = panel.kind, !.stage = "resolve", !.panel = panel,
                                !.messages = panel.messages]
      /\ conversation' = conversation /\ log' = log /\ used' = used
      /\ executed' = executed /\ calledOff' = calledOff /\ stale' = stale
  BY DEF Decide, Busy, history
<1>2. Types /\ panel \in PanelRec /\ PanelAgrees(panel)
  BY DEF IInv, Types
<1>3. panel.kind \in {"permission", "gate", "question"} /\ panel.messages \in Seq(Rec)
  BY <1>1, <1>2 DEF PanelAgrees, PanelRec
<1>4. /\ turn' \in TurnRec /\ turn'.kind = panel.kind /\ turn'.stage = "resolve"
      /\ turn'.hosts = <<>> /\ turn'.running = <<>> /\ turn'.redirects = <<>>
      /\ turn'.ask = <<>> /\ turn'.deferred = <<>> /\ turn'.panel = panel
      /\ turn'.messages = panel.messages
  <2>1. "resolve" \in Stage /\ NoTurn \in TurnRec
    BY NoTurnIdle DEF Stage
  <2>2. QED
    BY <1>1, <1>2, <1>3, <2>1, NoTurnIdle DEF TurnRec
<1>5. /\ StartsOnly /\ CallRecords' /\ RedirectsFirst'
      /\ \A c \in Call : Resolved(c)' <=> Resolved(c)
      /\ \A p \in PanelRec : PanelAgrees(p) => PanelAgrees(p)'
  BY <1>1, RecordsUnchanged, PanelUnchanged
<1>6. Types'
  BY <1>1, <1>2, <1>4, NoPanelAgrees DEF Types
<1>7. Shape(turn)'
  BY <1>3, <1>4 DEF Shape
<1>8. Lists(turn)' /\ Work(turn') = {}
  BY <1>4, NoTurnIdle, SameLists
<1>9. WorkAgrees' /\ AsksLatest'
  BY <1>4, <1>8, NoTurnIdle DEF WorkAgrees, AsksLatest
<1>10. RequestsShown'
  <2>1. ~At("resolve") /\ At("resolve")'
    BY <1>1, <1>4, NoTurnIdle DEF At
  <2>2. \A c \in Call : Requested(c) /\ ~Resolved(c) /\ c \notin stale => AtUser(panel, c)
    BY <2>1 DEF IInv, RequestsShown
  <2>3. \A c : AtUser(panel, c) => AtUser(turn.panel, c)'
    BY <1>4 DEF AtUser
  <2>4. QED
    BY <1>1, <1>5, <2>1, <2>2, <2>3 DEF RequestsShown, StartsOnly
<1>11. ResolvesPanel'
  <2>1. PICK p \in PanelRec : p = panel
    BY <1>2
  <2>2. PanelAgrees(p)' /\ turn'.panel = p /\ turn'.kind = p.kind /\ turn'.messages = p.messages
    BY <1>2, <1>4, <1>5, <2>1
  <2>3. PanelAgrees(turn.panel)'
    BY <2>2
  <2>4. QED
    BY <1>3, <1>4, <2>2, <2>3 DEF ResolvesPanel, At
<1>12. Conversations'
  <2>1. PICK m, n : m = conversation /\ n = panel.messages
    OBVIOUS
  <2>2. FromLog(m)' /\ FromLog(n)'
    BY <1>5, <2>1 DEF IInv, Conversations, StartsOnly
  <2>3. FromLog(NoPanel.messages)'
    BY NoMessages DEF NoPanel
  <2>4. \A c \in calledOff' : Declared(c)'
    BY <1>1, <1>2, <1>5 DEF IInv, Conversations, StartsOnly, Types
  <2>5. conversation' = m /\ turn'.messages = n /\ panel' = NoPanel /\ turn'.panel.messages = n
    BY <1>1, <1>4, <2>1
  <2>6. QED
    BY <2>2, <2>3, <2>4, <2>5 DEF Conversations
<1>13. PanelAgrees(panel)'
  BY <1>1, NoPanelAgrees
<1>14. QED
  <2>1. turn'.kind # "none"
    BY <1>3, <1>4
  <2>2. LogInOrder'
    BY <1>5 DEF StartsOnly
  <2>3. QED
    BY <1>1, <1>5, <1>6, <1>7, <1>8, <1>9, <1>10, <1>11, <1>12, <1>13, <2>1, <2>2 DEF IInv

\* Interactive calls of the last response are beside each other.
LEMMA LatestBeside ==
  ASSUME NEW c, NEW d, InLatest(c), InLatest(d), log \in Seq(Rec)
  PROVE  Beside(c, d)
<1>1. PICK i \in DOMAIN log : Latest(i) /\ Issues(i, c)
  BY DEF InLatest
<1>2. PICK j \in DOMAIN log : Latest(j) /\ Issues(j, d)
  BY DEF InLatest
<1>3. i <= j /\ j <= i /\ i \in Nat /\ j \in Nat
  BY <1>1, <1>2 DEF Latest
<1>4. i = j
  BY <1>3
<1>5. QED
  BY <1>1, <1>2, <1>4 DEF Beside

\* pauseForPermission: the request is the latest one.
LEMMA OpenPermissionKeeps ==
  ASSUME IInv, OpenPanel, Head(turn.ask) \in Asked
  PROVE  IInv'
<1>0. PICK c : c = Head(turn.ask)
  OBVIOUS
<1>1. /\ At("ask") /\ log' = Append(log, Record("request", <<c>>))
      /\ panel' = [kind |-> "permission", calls |-> turn.ask, deferred |-> turn.deferred,
                   messages |-> turn.messages]
      /\ conversation' = turn.messages /\ turn' = NoTurn
      /\ executed' = executed /\ calledOff' = calledOff /\ stale' = stale /\ used' = used
  <2>1. (CASE c \in Asked -> "permission" [] c \in Gate -> "gate" [] OTHER -> "question") = "permission"
    BY <1>0, CallAssumption DEF Interactive
  <2>2. QED
    BY <1>0, <2>1 DEF OpenPanel, history
<1>2. /\ turn \in TurnRec /\ Types /\ LogInOrder /\ CallRecords /\ RedirectsFirst /\ WorkAgrees /\ Lists(turn)
      /\ panel = NoPanel /\ ~At("resolve") /\ turn.ask # <<>> /\ turn.ask \in Seq(Call)
      /\ turn.deferred \in Seq(Call) /\ turn.messages \in Seq(Rec) /\ turn.redirects = <<>>
  BY <1>1 DEF IInv, Types, Shape, At, TurnRec
<1>3. /\ c \in Call /\ c \in Range(turn.ask) /\ c = turn.ask[1]
      /\ Range(turn.ask) = Range(Tail(turn.ask)) \cup {c} /\ c \notin Range(Tail(turn.ask))
  BY <1>0, <1>2, TailRange DEF Lists
<1>4. c \in Asked /\ Fresh(c)
  BY <1>0, <1>2, <1>3 DEF WorkAgrees
<1>5. Range(turn.ask) \subseteq Asked
  <2>1. CASE \E d \in Interactive : turn.ask = <<d>>
    <3>1. PICK d \in Interactive : turn.ask = <<d>>
      BY <2>1
    <3>2. c = d
      BY <1>3, <3>1
    <3>3. QED
      BY <1>4, <3>2, CallAssumption
  <2>2. QED
    BY <1>2, <2>1 DEF Lists
<1>6. Noted("request", {c})
  BY <1>1, <1>2, <1>3, <1>4, NoteAppended DEF Types, Fresh
<1>7. /\ log' \in Seq(Rec) /\ LogInOrder'
      /\ \A d \in Call :
           /\ Declared(d)' <=> Declared(d)
           /\ Requested(d)' <=> Requested(d) \/ d = c
           /\ Permitted(d)' <=> Permitted(d)
           /\ Refused(d)' <=> Refused(d)
           /\ Started(d)' <=> Started(d)
           /\ Tool(d)' <=> Tool(d)
           /\ Once(d) => Once(d)'
      /\ \A d, e \in Call : Beside(d, e)' <=> Beside(d, e)
      /\ \A messages : FromLog(messages) => FromLog(messages)'
  BY <1>6 DEF Noted
<1>8. \A d \in Call : Resolved(d)' <=> Resolved(d)
  BY <1>7, ResolvedSplit
<1>9. PendingPermission' = {c}
  BY <1>1, <1>2, <1>3, <1>4, RequestPending DEF Types, Fresh
<1>10. \A d \in Range(turn.ask), e \in Interactive : Beside(d, e) => Tool(e)
  <2>1. \A d \in Range(turn.ask), e \in Interactive : Beside(d, e) => e = d \/ Tool(e)
    BY <1>2, NoTurnIdle DEF WorkAgrees
  <2>2. QED
    BY <1>5, <2>1, CallAssumption
<1>11. Types'
  <2>1. panel' \in PanelRec
    BY <1>1, <1>2 DEF PanelRec
  <2>2. QED
    BY <1>1, <1>2, <1>7, <2>1, NoTurnIdle DEF Types
<1>12. CallRecords'
  BY <1>1, <1>2, <1>3, <1>4, <1>7, <1>8 DEF CallRecords, Fresh
<1>13. Interactive \subseteq Call
  BY CallAssumption
<1>14. RedirectsFirst'
  BY <1>2, <1>3, <1>7, <1>10, <1>13 DEF RedirectsFirst
<1>15. RequestsShown'
  <2>1. \A d \in Call : Requested(d) /\ ~Resolved(d) => d \in stale
    BY <1>2, NothingShown
  <2>2. AtUser(panel, c)'
    BY <1>1, <1>3 DEF AtUser
  <2>3. QED
    BY <1>1, <1>7, <1>8, <2>1, <2>2 DEF RequestsShown
<1>16. PanelAgrees(panel)'
  <2>1. PICK ask, deferred, m : ask = turn.ask /\ deferred = turn.deferred /\ m = turn.messages
    OBVIOUS
  <2>2. panel'.kind = "permission" /\ panel'.calls = ask /\ panel'.deferred = deferred /\ panel'.messages = m
    BY <1>1, <2>1
  <2>3. \A d \in Call \ {c} : Fresh(d) => Fresh(d)'
    BY <1>1, <1>7, <1>8 DEF Fresh
  <2>4. \A d \in Call : Decided(d) => Decided(d)'
    BY <1>1, <1>7, <1>8 DEF Decided
  <2>5. Waiting(c)'
    BY <1>1, <1>3, <1>4, <1>7, <1>8 DEF Waiting, Fresh
  <2>6. /\ ask # <<>> /\ Range(ask) \subseteq Asked /\ IsInjective(ask) /\ IsInjective(deferred)
        /\ ask[1] = c
    BY <1>2, <1>3, <1>5, <2>1 DEF Lists
  <2>7. \A d \in Range(Tail(ask)) : Fresh(d)'
    <3>1. \A d \in Range(turn.ask) : Fresh(d) /\ d \in Call
      BY <1>2 DEF WorkAgrees, Range
    <3>2. QED
      BY <1>3, <2>1, <2>3, <3>1
  <2>8. \A d \in Range(deferred) : d \in Agent /\ Decided(d)'
    <3>1. \A d \in Range(turn.deferred) : d \in Agent /\ Decided(d) /\ d \in Call
      BY <1>2 DEF WorkAgrees, Range
    <3>2. QED
      BY <2>1, <2>4, <3>1
  <2>9. \A d \in Range(ask) \cup Range(deferred) : Open(m, d)
    BY <1>2, <2>1 DEF WorkAgrees, Work
  <2>10. \A d \in Range(ask), e \in Interactive : Beside(d, e)' => Tool(e)'
    <3>1. Range(ask) \subseteq Call
      BY <1>2, <2>1 DEF Range
    <3>2. QED
      BY <1>7, <1>10, <1>13, <2>1, <3>1
  <2>11. QED
    BY <1>9, <2>2, <2>5, <2>6, <2>7, <2>8, <2>9, <2>10 DEF PanelAgrees
<1>17. FromLog(conversation)' /\ FromLog(panel.messages)'
  <2>1. PICK m : m = turn.messages
    OBVIOUS
  <2>2. FromLog(m)'
    BY <1>7, <2>1 DEF IInv, Conversations
  <2>3. conversation' = m /\ panel'.messages = m
    BY <1>1, <2>1
  <2>4. QED
    BY <2>2, <2>3
<1>18. \A d \in calledOff' : Declared(d)'
  BY <1>1, <1>2, <1>7 DEF IInv, Conversations, Types
<1>19. QED
  BY <1>1, <1>7, <1>11, <1>12, <1>14, <1>15, <1>16, <1>17, <1>18, TurnEnds

\* pauseForGate, pauseForUserQuestion: the last response is the one that asks.
LEMMA OpenInteractionKeeps ==
  ASSUME IInv, OpenPanel, Head(turn.ask) \notin Asked
  PROVE  IInv'
<1>. DEFINE c == Head(turn.ask)
            kind == IF c \in Gate THEN "gate" ELSE "question"
            p == [kind |-> kind, calls |-> turn.ask, deferred |-> turn.deferred,
                  messages |-> turn.messages]
<1>1. /\ At("ask") /\ log' = log /\ panel' = p
      /\ conversation' = turn.messages /\ turn' = NoTurn
      /\ executed' = executed /\ calledOff' = calledOff /\ stale' = stale /\ used' = used
  BY DEF OpenPanel, history
<1>2. /\ turn \in TurnRec /\ Types /\ LogInOrder /\ WorkAgrees /\ AsksLatest /\ Lists(turn) /\ Shape(turn)
      /\ panel = NoPanel /\ ~At("resolve") /\ turn.ask # <<>> /\ turn.ask \in Seq(Call)
      /\ turn.deferred \in Seq(Call) /\ turn.messages \in Seq(Rec) /\ turn.redirects = <<>>
  BY <1>1 DEF IInv, Types, Shape, At, TurnRec
<1>3. c \in Call /\ c \in Range(turn.ask) /\ c = turn.ask[1]
  BY <1>2, TailRange
<1>4. c \in Interactive /\ turn.ask = <<c>>
  <2>1. PICK d \in Interactive : turn.ask = <<d>>
    BY <1>2, <1>3 DEF Lists
  <2>2. QED
    BY <1>3, <2>1
<1>5. turn.deferred = <<>>
  BY <1>2, <1>3 DEF Shape
<1>6. Declared(c) /\ ~Tool(c) /\ InLatest(c)
  BY <1>2, <1>3, <1>4 DEF WorkAgrees, Work, AsksLatest
<1>. HIDE DEF c
<1>7. \A d \in Interactive : InLatest(d) => d = c \/ Tool(d)
  <2>1. \A d \in Interactive : Beside(c, d) => d = c \/ Tool(d)
    BY <1>2, <1>3, NoTurnIdle DEF WorkAgrees
  <2>2. QED
    BY <1>2, <1>6, <2>1, LatestBeside DEF Types
<1>8. CallsPend /\ Gate \subseteq Call /\ Question \subseteq Call /\ Gate \cap Question = {}
  BY <1>2, PendingCalls, CallAssumption DEF Types, Interactive
<1>9. PendingCall(Gate) = IF c \in Gate THEN {c} ELSE {}
  <2>1. \/ PendingCall(Gate) = {} /\ \A d \in Gate : InLatest(d) => Tool(d)
        \/ \E d \in Gate : PendingCall(Gate) = {d} /\ InLatest(d) /\ ~Tool(d)
    BY <1>8 DEF CallsPend
  <2>2. QED
    BY <1>6, <1>7, <2>1 DEF Interactive
<1>10. PendingCall(Question) = IF c \in Question THEN {c} ELSE {}
  <2>1. \/ PendingCall(Question) = {} /\ \A d \in Question : InLatest(d) => Tool(d)
        \/ \E d \in Question : PendingCall(Question) = {d} /\ InLatest(d) /\ ~Tool(d)
    BY <1>8 DEF CallsPend
  <2>2. QED
    BY <1>6, <1>7, <2>1 DEF Interactive
<1>11. p \in PanelRec /\ p.messages = turn.messages
  BY <1>2 DEF PanelRec
<1>12. PanelAgrees(p)
  <2>1. CASE c \in Gate
    <3>1. p.kind = "gate" /\ p.calls = <<c>> /\ p.deferred = <<>>
      BY <1>4, <1>5, <2>1
    <3>. HIDE DEF p
    <3>2. QED
      BY <1>6, <1>9, <2>1, <3>1 DEF PanelAgrees
  <2>2. CASE c \notin Gate
    <3>1. p.kind = "question" /\ p.calls = <<c>> /\ p.deferred = <<>> /\ c \in Question
      BY <1>4, <1>5, <2>2 DEF Interactive
    <3>. HIDE DEF p
    <3>2. QED
      BY <1>6, <1>9, <1>10, <2>2, <3>1 DEF PanelAgrees
  <2>3. QED
    BY <2>1, <2>2
<1>. HIDE DEF p
<1>13. /\ StartsOnly /\ CallRecords' /\ RedirectsFirst'
       /\ \A d \in Call : Resolved(d)' <=> Resolved(d)
       /\ \A q \in PanelRec : PanelAgrees(q) => PanelAgrees(q)'
  BY <1>1, RecordsUnchanged, PanelUnchanged
<1>14. Types'
  BY <1>1, <1>2, <1>11, NoTurnIdle DEF Types
<1>15. RequestsShown'
  <2>1. \A d \in Call : Requested(d) /\ ~Resolved(d) => d \in stale
    BY <1>2, NothingShown
  <2>2. QED
    BY <1>1, <1>13, <2>1 DEF RequestsShown, StartsOnly
<1>16. PanelAgrees(panel)'
  <2>1. PICK q \in PanelRec : q = p
    BY <1>11
  <2>2. PanelAgrees(q)' /\ panel' = q
    BY <1>1, <1>12, <1>13, <2>1
  <2>3. QED
    BY <2>2
<1>17. FromLog(conversation)' /\ FromLog(panel.messages)'
  <2>1. PICK m : m = turn.messages
    OBVIOUS
  <2>2. FromLog(m)'
    BY <1>13, <2>1 DEF IInv, Conversations, StartsOnly
  <2>3. conversation' = m /\ panel'.messages = m
    BY <1>1, <1>11, <2>1
  <2>4. QED
    BY <2>2, <2>3
<1>18. \A d \in calledOff' : Declared(d)'
  BY <1>1, <1>2, <1>13 DEF IInv, Conversations, Types, StartsOnly
<1>19. LogInOrder'
  BY <1>13 DEF StartsOnly
<1>20. QED
  BY <1>1, <1>13, <1>14, <1>15, <1>16, <1>17, <1>18, <1>19, TurnEnds

-----------------------------------------------------------------------------
(* Decisions.                                                                *)

\* A turn that resolves a panel: what the decision leaves alone.
LEMMA TurnResolves ==
  ASSUME IInv, At("resolve"), turn'.kind = turn.kind, turn'.panel = turn.panel, turn'.stage # "none",
         panel' = panel, conversation' = conversation, calledOff' = calledOff,
         Types', LogInOrder', CallRecords',
         \A c \in Call : /\ Declared(c)' <=> Declared(c)
                         /\ Requested(c)' <=> Requested(c)
                         /\ Tool(c) => Tool(c)',
         \A c, d \in Call : Beside(c, d)' <=> Beside(c, d),
         \A messages : FromLog(messages) => FromLog(messages)',
         FromLog(turn.messages)', RequestsShown', ResolvesPanel',
         Shape(turn)', Lists(turn)', WorkAgrees', AsksLatest'
  PROVE  IInv'
<1>1. panel = NoPanel /\ turn \in TurnRec /\ turn.kind # "none"
  BY DEF IInv, Types, Shape, At
<1>2. PanelAgrees(panel)'
  BY <1>1, NoPanelAgrees
<1>3. RedirectsFirst'
  BY CallAssumption DEF IInv, RedirectsFirst
<1>4. Conversations'
  <2>1. PICK m, n, q : m = conversation /\ n = panel.messages /\ q = turn.panel.messages
    OBVIOUS
  <2>2. FromLog(m)' /\ FromLog(n)' /\ FromLog(q)'
    BY <2>1 DEF IInv, Conversations
  <2>3. conversation' = m /\ panel'.messages = n /\ turn'.panel.messages = q
    BY <2>1
  <2>4. \A c \in calledOff' : Declared(c)'
    BY DEF IInv, Conversations, Types
  <2>5. QED
    BY <2>2, <2>3, <2>4 DEF Conversations
<1>5. QED
  BY <1>1, <1>2, <1>3, <1>4 DEF IInv

\* The panel a turn resolves has nothing else to do beside it.
LEMMA ResolvingIdle ==
  ASSUME IInv, At("resolve")
  PROVE  /\ turn \in TurnRec /\ turn.panel \in PanelRec /\ turn.panel.kind = turn.kind
         /\ turn.kind \in {"permission", "gate", "question"} /\ panel = NoPanel
         /\ PanelAgrees(turn.panel) /\ turn.messages = turn.panel.messages
         /\ turn.hosts = <<>> /\ turn.running = <<>> /\ turn.redirects = <<>>
         /\ turn.ask = <<>> /\ turn.deferred = <<>>
         /\ \A c \in Call : Requested(c) /\ ~Resolved(c) /\ c \notin stale => AtUser(turn.panel, c)
<1>1. turn \in TurnRec /\ turn.stage = "resolve" /\ turn.panel \in PanelRec
  BY DEF IInv, Types, At, TurnRec
<1>2. turn.kind \in {"permission", "gate", "question"} /\ turn.deferred = <<>>
      /\ turn.hosts = <<>> /\ turn.running = <<>> /\ turn.redirects = <<>> /\ turn.ask = <<>>
  BY <1>1 DEF IInv, Shape
<1>3. panel = NoPanel
  BY <1>2 DEF IInv
<1>4. turn.panel.kind = turn.kind /\ PanelAgrees(turn.panel) /\ turn.messages = turn.panel.messages
  BY <1>2 DEF IInv, ResolvesPanel, Continuation
<1>5. \A c : ~AtUser(panel, c)
  BY <1>3 DEF AtUser, NoPanel
<1>6. QED
  BY <1>1, <1>2, <1>3, <1>4, <1>5 DEF IInv, RequestsShown

\* resolveGate, resolveUserQuestion
LEMMA AnswerInteractionKeeps == ASSUME IInv, AnswerInteraction PROVE IInv'
<1>. DEFINE t == WithAnswer(turn, turn.panel.calls[1])
<1>1. /\ At("resolve") /\ turn.kind \in {"gate", "question"} /\ Answer(turn.panel.calls[1])
      /\ turn' = GoOn(t)
  BY DEF AnswerInteraction
<1>2. /\ turn \in TurnRec /\ turn.panel \in PanelRec /\ turn.panel.kind = turn.kind /\ panel = NoPanel
      /\ PanelAgrees(turn.panel) /\ turn.messages = turn.panel.messages
      /\ turn.hosts = <<>> /\ turn.running = <<>> /\ turn.redirects = <<>>
      /\ turn.ask = <<>> /\ turn.deferred = <<>>
      /\ \A c \in Call : Requested(c) /\ ~Resolved(c) /\ c \notin stale => AtUser(turn.panel, c)
  BY <1>1, ResolvingIdle
<1>3. turn.panel.deferred = <<>>
  BY <1>1, <1>2 DEF PanelAgrees
<1>4. PICK c \in Interactive : /\ turn.panel.calls = <<c>> /\ Declared(c)
                               /\ (turn.kind = "gate" => c \in Gate)
                               /\ (c \notin Gate => ~Tool(c))
  <2>1. CASE turn.kind = "gate"
    <3>1. PICK c \in Gate : turn.panel.calls = <<c>> /\ Declared(c)
      BY <1>2, <2>1 DEF PanelAgrees
    <3>2. QED
      BY <2>1, <3>1 DEF Interactive
  <2>2. CASE turn.kind = "question"
    <3>1. PICK c \in Question : turn.panel.calls = <<c>> /\ Declared(c) /\ ~Tool(c)
      BY <1>2, <2>2 DEF PanelAgrees
    <3>2. QED
      BY <2>2, <3>1 DEF Interactive
  <2>3. QED
    BY <1>1, <2>1, <2>2
<1>5. c \in Call /\ c \notin Asked /\ turn.panel.calls[1] = c
  BY <1>4, CallAssumption
<1>6. /\ log' = Append(log, Record("tool", <<c>>))
      /\ conversation' = conversation /\ panel' = panel /\ used' = used
      /\ executed' = executed /\ calledOff' = calledOff /\ stale' = stale
  BY <1>1, <1>5 DEF Answer, history
<1>7. Types /\ LogInOrder /\ CallRecords /\ log \in Seq(Rec)
  BY DEF IInv, Types
<1>8. Noted("tool", {c})
  BY <1>4, <1>5, <1>6, <1>7, NoteAppended
<1>9. /\ log' \in Seq(Rec) /\ LogInOrder'
      /\ \A d \in Call :
           /\ Declared(d)' <=> Declared(d)
           /\ Requested(d)' <=> Requested(d)
           /\ Permitted(d)' <=> Permitted(d)
           /\ Refused(d)' <=> Refused(d)
           /\ Started(d)' <=> Started(d)
           /\ Tool(d)' <=> Tool(d) \/ d = c
           /\ Once(d) /\ ~(Tool(d) /\ d = c) => Once(d)'
      /\ \A d, e \in Call : Beside(d, e)' <=> Beside(d, e)
      /\ \A messages : FromLog(messages) => FromLog(messages)'
  BY <1>8 DEF Noted
<1>10. \A d \in Call : Resolved(d)' <=> Resolved(d)
  BY <1>9, ResolvedSplit
<1>11. Record("tool", <<c>>) \in Rec /\ Record("tool", <<c>>).kind = "tool"
       /\ Record("tool", <<c>>).calls = <<c>>
  BY <1>5 DEF Record, Rec
<1>12. /\ t \in TurnRec /\ t.kind = turn.kind /\ t.hosts = <<>> /\ t.running = <<>> /\ t.redirects = <<>>
       /\ t.ask = <<>> /\ t.deferred = <<>> /\ t.panel = turn.panel
       /\ t.messages = Append(turn.messages, Record("tool", <<c>>))
  <2>1. turn.messages \in Seq(Rec)
    BY <1>2 DEF TurnRec
  <2>2. Append(turn.messages, Record("tool", <<c>>)) \in Seq(Rec)
    BY <1>11, <2>1
  <2>3. t = [turn EXCEPT !.messages = Append(turn.messages, Record("tool", <<c>>))]
    BY <1>5 DEF WithAnswer
  <2>4. QED
    BY <1>2, <2>2, <2>3 DEF TurnRec
<1>. HIDE DEF t
<1>13. /\ turn' \in TurnRec
       /\ turn'.kind = t.kind /\ turn'.hosts = t.hosts /\ turn'.running = t.running
       /\ turn'.redirects = t.redirects /\ turn'.ask = t.ask /\ turn'.deferred = t.deferred
       /\ turn'.panel = t.panel /\ turn'.messages = t.messages
       /\ turn'.stage \in {"host", "record", "thrown", "redirect", "ask", "provider"}
  BY <1>1, <1>12, GoOnProperties
<1>14. Shape(turn)'
  BY <1>1, <1>12, GoOnShape
<1>15. Lists(turn)' /\ Work(turn') = {}
  BY <1>12, <1>13, NoTurnIdle, SameLists
<1>16. WorkAgrees' /\ AsksLatest'
  BY <1>12, <1>13, <1>15, NoTurnIdle DEF WorkAgrees, AsksLatest
<1>17. Types'
  BY <1>6, <1>7, <1>9, <1>13 DEF Types
<1>18. CallRecords'
  <2>1. \A d \in Call \ Gate : Once(d)'
    BY <1>4, <1>7, <1>9 DEF CallRecords
  <2>2. \A d \in Call : executed'[d] = 1 =>
          /\ Declared(d)' /\ d \notin Interactive
          /\ d \in Asked => Permitted(d)'
          /\ d \in Process => Started(d)'
    BY <1>6, <1>7, <1>9 DEF CallRecords
  <2>3. \A d \in Call :
          /\ Requested(d)' \/ Resolved(d)' => d \in Asked
          /\ Requested(d)' => Declared(d)'
          /\ Resolved(d)' => Requested(d)'
          /\ ~(Permitted(d)' /\ Refused(d)')
          /\ d \in Asked /\ Tool(d)' => Resolved(d)'
    BY <1>5, <1>7, <1>9, <1>10 DEF CallRecords
  <2>4. QED
    BY <2>1, <2>2, <2>3 DEF CallRecords, Interactive
<1>19. RequestsShown'
  <2>1. \A d \in Call : Requested(d) /\ ~Resolved(d) => d \in stale
    BY <1>1, <1>2 DEF AtUser
  <2>2. QED
    BY <1>6, <1>9, <1>10, <2>1 DEF RequestsShown
<1>20. ResolvesPanel'
  <2>1. /\ turn'.panel.kind = turn'.kind /\ turn'.panel.deferred = <<>>
        /\ turn'.kind \in {"gate", "question"} /\ turn'.stage # "resolve"
    BY <1>1, <1>2, <1>3, <1>12, <1>13
  <2>2. turn'.panel.calls = <<c>> /\ Declared(c)' /\ Tool(c)' /\ (turn'.kind = "gate" => c \in Gate)
    BY <1>4, <1>5, <1>9, <1>12, <1>13
  <2>3. QED
    BY <2>1, <2>2 DEF ResolvesPanel, Continuation, At
<1>21. FromLog(turn.messages)'
  <2>1. PICK m : m = turn.messages
    OBVIOUS
  <2>2. m \in Seq(Rec) /\ FromLog(m)'
    BY <1>2, <1>9, <2>1 DEF TurnRec, IInv, Conversations
  <2>3. Declared(c)'
    BY <1>4, <1>5, <1>9
  <2>4. FromLog(Append(m, Record("tool", <<c>>)))'
    BY <1>5, <1>11, <2>2, <2>3, FromLogAppend
  <2>5. turn'.messages = Append(m, Record("tool", <<c>>))
    BY <1>12, <1>13, <2>1
  <2>6. QED
    BY <2>4, <2>5
<1>22. QED
  <2>1. turn'.kind = turn.kind /\ turn'.panel = turn.panel /\ turn'.stage # "none"
    BY <1>12, <1>13
  <2>2. \A d \in Call : /\ Declared(d)' <=> Declared(d)
                        /\ Requested(d)' <=> Requested(d)
                        /\ Tool(d) => Tool(d)'
    BY <1>9
  <2>3. \A d, e \in Call : Beside(d, e)' <=> Beside(d, e)
    BY <1>9
  <2>4. \A messages : FromLog(messages) => FromLog(messages)'
    BY <1>9
  <2>5. LogInOrder'
    BY <1>9
  <2>6. QED
    BY <1>1, <1>6, <1>14, <1>15, <1>16, <1>17, <1>18, <1>19, <1>20, <1>21, <2>1, <2>2, <2>3, <2>4,
       <2>5, TurnResolves

\* Asking the next Agent call first changes the order only.
LEMMA AgentFirstProperties ==
  ASSUME NEW calls \in Seq(Call), IsInjective(calls)
  PROVE  /\ AgentFirst(calls) \in Seq(Call) /\ IsInjective(AgentFirst(calls))
         /\ Range(AgentFirst(calls)) = Range(calls)
<1>. DEFINE agents == Only(calls, Agent)
            h == Head(agents)
            others == Only(calls, Call \ {h})
<1>1. agents \in Seq(Call) /\ Range(agents) = Range(calls) \cap Agent
      /\ others \in Seq(Call) /\ IsInjective(others) /\ Range(others) = Range(calls) \cap (Call \ {h})
  BY OnlyProperties
<1>2. AgentFirst(calls) = IF agents = <<>> THEN calls ELSE <<h>> \o others
  BY DEF AgentFirst
<1>3. Range(calls) \subseteq Call
  BY DEF Range
<1>. HIDE DEF others, agents
<1>4. CASE agents = <<>>
  BY <1>2, <1>4
<1>5. CASE agents # <<>>
  <2>1. h \in Range(calls) /\ h \in Call
    BY <1>1, <1>5, TailRange
  <2>. HIDE DEF h
  <2>2. <<h>> \in Seq(Call) /\ Range(<<h>>) = {h}
    BY <2>1 DEF Range
  <2>3. <<h>> \o others \in Seq(Call) /\ Range(<<h>> \o others) = {h} \cup Range(others)
    <3>1. PICK one \in Seq(Call) : one = <<h>>
      BY <2>2
    <3>2. one \o others \in Seq(Call) /\ Range(one \o others) = Range(one) \cup Range(others)
      BY <1>1, ConcatRange
    <3>3. QED
      BY <2>2, <3>1, <3>2
  <2>4. IsInjective(<<h>> \o others)
    <3>1. PICK all \in Seq(Call) : all = <<h>> \o others
      BY <2>3
    <3>2. all[1] = h /\ Len(all) = 1 + Len(others)
          /\ \A i \in DOMAIN all : i = 1 \/ (i - 1 \in DOMAIN others /\ all[i] = others[i - 1])
      BY <1>1, <2>1, <3>1
    <3>3. \A i \in DOMAIN others : others[i] # h
      BY <1>1 DEF Range
    <3>4. ASSUME NEW i \in DOMAIN all, NEW j \in DOMAIN all, all[i] = all[j] PROVE i = j
      <4>1. CASE i = 1 \/ j = 1
        BY <3>2, <3>3, <3>4, <4>1
      <4>2. CASE i # 1 /\ j # 1
        <5>1. i - 1 = j - 1
          BY <1>1, <3>2, <3>4, <4>2 DEF IsInjective
        <5>2. i \in Nat /\ j \in Nat
          OBVIOUS
        <5>3. QED
          BY <5>1, <5>2
      <4>3. QED
        BY <4>1, <4>2
    <3>5. IsInjective(all)
      BY <3>4 DEF IsInjective
    <3>6. QED
      BY <3>1, <3>5
  <2>5. QED
    BY <1>1, <1>2, <1>3, <1>5, <2>1, <2>3, <2>4
<1>6. QED
  BY <1>4, <1>5

\* What a permission panel says of its calls, and of those decided so far.
LEMMA ResolvingPermission ==
  ASSUME IInv, At("resolve"), turn.kind = "permission"
  PROVE  LET p == turn.panel
             c == p.calls[1]
             rest == Tail(p.calls)
         IN  /\ p.calls \in Seq(Call) /\ p.deferred \in Seq(Call) /\ rest \in Seq(Call)
             /\ c \in Call /\ c \in Asked /\ Range(p.calls) = Range(rest) \cup {c}
             /\ IsInjective(rest) /\ c \notin Range(rest) /\ IsInjective(p.deferred)
             /\ Range(p.calls) \subseteq Asked /\ Declared(c) /\ Waiting(c)
             /\ \A d \in Range(rest) : d \in Call /\ Fresh(d)
             /\ \A d \in Range(p.deferred) : d \in Call /\ d \in Agent /\ Decided(d) /\ Declared(d)
             /\ \A d \in Range(p.calls) \cup Range(p.deferred) : Open(turn.messages, d)
             /\ \A d \in Range(p.calls), e \in Interactive : Beside(d, e) => Tool(e)
<1>1. /\ turn.panel \in PanelRec /\ turn.panel.kind = "permission" /\ PanelAgrees(turn.panel)
      /\ turn.messages = turn.panel.messages
  BY ResolvingIdle
<1>2. PICK p \in PanelRec : p = turn.panel
  BY <1>1
<1>3. /\ p.calls # <<>> /\ Range(p.calls) \subseteq Asked
      /\ IsInjective(p.calls) /\ IsInjective(p.deferred) /\ Waiting(p.calls[1])
      /\ \A d \in Range(Tail(p.calls)) : Fresh(d)
      /\ \A d \in Range(p.deferred) : d \in Agent /\ Decided(d)
      /\ \A d \in Range(p.calls) \cup Range(p.deferred) : Open(p.messages, d)
      /\ \A d \in Range(p.calls), e \in Interactive : Beside(d, e) => Tool(e)
  BY <1>1, <1>2 DEF PanelAgrees
<1>4. p.calls \in Seq(Call) /\ p.deferred \in Seq(Call)
  BY DEF PanelRec
<1>5. /\ p.calls[1] = Head(p.calls) /\ p.calls[1] \in Range(p.calls) /\ p.calls[1] \in Call
      /\ Tail(p.calls) \in Seq(Call) /\ Range(p.calls) = Range(Tail(p.calls)) \cup {p.calls[1]}
      /\ IsInjective(Tail(p.calls)) /\ p.calls[1] \notin Range(Tail(p.calls))
  BY <1>3, <1>4, TailRange
<1>6. Range(p.deferred) \subseteq Call /\ Range(Tail(p.calls)) \subseteq Call
  BY <1>4, <1>5 DEF Range
<1>7. \A d \in Call : Requested(d) => Declared(d)
  BY DEF IInv, CallRecords
<1>8. /\ Declared(p.calls[1]) /\ p.calls[1] \in Asked
      /\ \A d \in Range(p.deferred) : Declared(d)
  BY <1>3, <1>5, <1>6, <1>7 DEF Waiting, Decided
<1>9. QED
  BY <1>1, <1>2, <1>3, <1>4, <1>5, <1>6, <1>8

\* preparePermissionResolution and collectPermissionBatch
LEMMA ResolvePermissionKeeps ==
  ASSUME IInv, NEW decision \in {"allow", "reject"}, ResolvePermission(decision)
  PROVE  IInv'
<1>1. At("resolve") /\ turn.kind = "permission"
  BY DEF ResolvePermission
<1>2. PICK c, rest, deferred : c = turn.panel.calls[1] /\ rest = Tail(turn.panel.calls)
                               /\ deferred = turn.panel.deferred
  OBVIOUS
<1>3. /\ deferred \in Seq(Call) /\ rest \in Seq(Call)
      /\ c \in Call /\ c \in Asked /\ IsInjective(rest) /\ c \notin Range(rest) /\ IsInjective(deferred)
      /\ Range(rest) \subseteq Asked /\ Declared(c) /\ Waiting(c)
      /\ \A d \in Range(rest) : d \in Call /\ Fresh(d)
      /\ \A d \in Range(deferred) : d \in Call /\ d \in Agent /\ Decided(d) /\ Declared(d)
      /\ Open(turn.messages, c) /\ \A d \in Range(rest) \cup Range(deferred) : Open(turn.messages, d)
      /\ \A d \in Range(rest), e \in Interactive : Beside(d, e) => Tool(e)
  BY <1>1, <1>2, ResolvingPermission
<1>4. /\ turn \in TurnRec /\ turn.panel.kind = turn.kind /\ panel = NoPanel
      /\ turn.hosts = <<>> /\ turn.running = <<>> /\ turn.redirects = <<>>
      /\ turn.ask = <<>> /\ turn.deferred = <<>>
      /\ \A d \in Call : Requested(d) /\ ~Resolved(d) /\ d \notin stale => AtUser(turn.panel, d)
  BY <1>1, ResolvingIdle
<1>5. PICK batch : batch = IF c \in Agent THEN Append(deferred, c) ELSE <<c>>
  OBVIOUS
<1>6. /\ log' = Append(log, Record(decision, <<c>>))
      /\ turn' = IF c \in Agent /\ Range(rest) \cap Agent # {}
                 THEN [turn EXCEPT !.stage = "ask", !.ask = AgentFirst(rest), !.deferred = batch]
                 ELSE [turn EXCEPT !.stage = "entries", !.running = batch, !.ask = rest]
      /\ conversation' = conversation /\ panel' = panel /\ used' = used
      /\ executed' = executed /\ calledOff' = calledOff /\ stale' = stale
  BY <1>2, <1>5 DEF ResolvePermission, Becomes, history
<1>7. Types /\ LogInOrder /\ CallRecords /\ log \in Seq(Rec) /\ turn.messages \in Seq(Rec)
      /\ FromLog(turn.messages)
  BY <1>4 DEF IInv, Types, TurnRec, Conversations
<1>8. Noted(decision, {c})
  BY <1>3, <1>6, <1>7, NoteAppended
<1>9. /\ log' \in Seq(Rec) /\ LogInOrder'
      /\ \A d \in Call :
           /\ Declared(d)' <=> Declared(d)
           /\ Requested(d)' <=> Requested(d)
           /\ Permitted(d)' <=> Permitted(d) \/ (decision = "allow" /\ d = c)
           /\ Refused(d)' <=> Refused(d) \/ (decision = "reject" /\ d = c)
           /\ Started(d)' <=> Started(d)
           /\ Tool(d)' <=> Tool(d)
           /\ Once(d) => Once(d)'
      /\ \A d, e \in Call : Beside(d, e)' <=> Beside(d, e)
      /\ \A messages : FromLog(messages) => FromLog(messages)'
  BY <1>8 DEF Noted
<1>10. \A d \in Call : Resolved(d)' <=> Resolved(d) \/ d = c
  BY <1>9, ResolvedSplit
<1>11. Requested(c) /\ ~Resolved(c) /\ ~Tool(c) /\ executed[c] = 0 /\ ~Permitted(c) /\ ~Refused(c)
       /\ (c \in calledOff => c \in stale)
  <2>1. Requested(c) /\ ~Resolved(c) /\ (c \in calledOff => c \in stale)
    BY <1>3 DEF Waiting
  <2>2. ~Permitted(c) /\ ~Refused(c)
    BY <2>1, ResolvedSplit
  <2>3. ~Tool(c) /\ executed[c] # 1
    BY <1>3, <1>7, <2>1, <2>2 DEF CallRecords
  <2>4. QED
    BY <1>3, <1>7, <2>1, <2>2, <2>3 DEF Types
<1>12. Decided(c)' /\ (\A d \in Range(deferred) : Decided(d)') /\ \A d \in Range(rest) : Fresh(d)'
  <2>1. Decided(c)'
    BY <1>3, <1>6, <1>9, <1>10, <1>11 DEF Decided
  <2>2. \A d \in Call : Decided(d) => Decided(d)'
    BY <1>6, <1>9, <1>10 DEF Decided
  <2>3. \A d \in Call : d # c /\ Fresh(d) => Fresh(d)'
    BY <1>6, <1>9, <1>10 DEF Fresh
  <2>4. QED
    BY <1>3, <2>1, <2>2, <2>3
<1>13. batch \in Seq(Call) /\ IsInjective(batch) /\ batch # <<>>
       /\ Range(batch) \subseteq Range(deferred) \cup {c} /\ (c \in Agent => Range(batch) \subseteq Agent)
  <2>1. CASE c \in Agent
    <3>1. c \notin Range(deferred)
      BY <1>3, <1>11 DEF Decided
    <3>2. Append(deferred, c) \in Seq(Call) /\ Range(Append(deferred, c)) = Range(deferred) \cup {c}
          /\ IsInjective(Append(deferred, c))
      BY <1>3, <3>1, AppendRange
    <3>3. Append(deferred, c) # <<>>
      BY <1>3
    <3>4. QED
      BY <1>3, <1>5, <2>1, <3>2, <3>3
  <2>2. CASE c \notin Agent
    <3>1. <<c>> \in Seq(Call) /\ IsInjective(<<c>>) /\ Range(<<c>>) = {c} /\ <<c>> # <<>>
      BY <1>3 DEF IsInjective, Range
    <3>2. QED
      BY <1>5, <2>2, <3>1
  <2>3. QED
    BY <2>1, <2>2
<1>14. PICK ask, running, waiting, stage :
         /\ turn' = [turn EXCEPT !.stage = stage, !.running = running, !.ask = ask, !.deferred = waiting]
         /\ ask \in Seq(Call) /\ IsInjective(ask) /\ Range(ask) = Range(rest)
         /\ \/ stage = "ask" /\ ask # <<>> /\ running = <<>> /\ waiting = batch /\ c \in Agent
            \/ stage = "entries" /\ running = batch /\ waiting = <<>>
  <2>1. CASE c \in Agent /\ Range(rest) \cap Agent # {}
    <3>1. turn' = [turn EXCEPT !.stage = "ask", !.running = <<>>, !.ask = AgentFirst(rest),
                               !.deferred = batch]
      BY <1>4, <1>6, <2>1 DEF TurnRec
    <3>2. /\ AgentFirst(rest) \in Seq(Call) /\ IsInjective(AgentFirst(rest))
          /\ Range(AgentFirst(rest)) = Range(rest)
      BY <1>3, AgentFirstProperties
    <3>3. AgentFirst(rest) # <<>>
      BY <2>1, <3>2, NoTurnIdle
    <3>4. QED
      BY <2>1, <3>1, <3>2, <3>3
  <2>2. CASE ~(c \in Agent /\ Range(rest) \cap Agent # {})
    <3>1. turn' = [turn EXCEPT !.stage = "entries", !.running = batch, !.ask = rest, !.deferred = <<>>]
      BY <1>4, <1>6, <2>2 DEF TurnRec
    <3>2. QED
      BY <1>3, <3>1
  <2>3. QED
    BY <2>1, <2>2
<1>15. running \in Seq(Call) /\ waiting \in Seq(Call) /\ stage \in {"ask", "entries"}
       /\ IsInjective(running) /\ IsInjective(waiting)
       /\ Range(running) \subseteq Range(batch) /\ Range(waiting) \subseteq Range(batch)
  <2>1. <<>> \in Seq(Call) /\ IsInjective(<<>>) /\ Range(<<>>) = {}
    BY NoTurnIdle DEF IsInjective
  <2>2. QED
    BY <1>13, <1>14, <2>1
<1>16. /\ turn' \in TurnRec /\ turn'.kind = turn.kind /\ turn'.stage = stage /\ turn'.hosts = <<>>
       /\ turn'.running = running /\ turn'.redirects = <<>> /\ turn'.ask = ask
       /\ turn'.deferred = waiting /\ turn'.panel = turn.panel /\ turn'.messages = turn.messages
  <2>1. "ask" \in Stage /\ "entries" \in Stage
    BY DEF Stage
  <2>2. QED
    BY <1>4, <1>14, <1>15, <2>1 DEF TurnRec
<1>17. \A d \in Range(batch) : /\ d \in Call /\ d \in Asked /\ Decided(d)' /\ Declared(d)' /\ ~(Tool(d)')
                               /\ Resolved(d)' /\ d \notin Range(rest) /\ d \notin Interactive
                               /\ Open(turn.messages, d)
  <2>1. \A d \in Range(deferred) : d \notin Range(rest)
    BY <1>3 DEF Decided, Fresh
  <2>2. \A d \in Range(deferred) \cup {c} :
          /\ d \in Call /\ d \in Asked /\ Decided(d)' /\ Declared(d) /\ d \notin Range(rest)
          /\ d \notin Interactive /\ Open(turn.messages, d)
    BY <1>3, <1>12, <2>1, CallAssumption DEF Decided
  <2>3. \A d \in Range(deferred) \cup {c} : Declared(d)' /\ ~(Tool(d)') /\ Resolved(d)'
    BY <1>9, <2>2 DEF Decided
  <2>4. QED
    BY <1>13, <2>2, <2>3
<1>18. Shape(turn)'
  <2>1. running # <<>> \/ stage # "entries"
    BY <1>13, <1>14
  <2>2. waiting # <<>> => stage = "ask"
    BY <1>14
  <2>3. QED
    BY <1>1, <1>3, <1>14, <1>15, <1>16, <2>1, <2>2 DEF Shape
<1>19. Lists(turn)'
  BY <1>3, <1>14, <1>15, <1>16, <1>17, NoTurnIdle DEF Lists, IsInjective
<1>20. WorkAgrees'
  <2>1. Work(turn') \subseteq Range(batch) \cup Range(rest)
    BY <1>14, <1>15, <1>16, NoTurnIdle DEF Work
  <2>2. \A d \in Range(rest) : d \in Call /\ Declared(d)' /\ ~(Tool(d)') /\ Fresh(d)' /\ Open(turn.messages, d)
    BY <1>3, <1>9, <1>12 DEF Fresh
  <2>3. \A d \in Work(turn') : Declared(d)' /\ ~(Tool(d)') /\ Open(turn'.messages, d)
    BY <1>16, <1>17, <2>1, <2>2
  <2>4. Range(turn'.hosts) = {} /\ Range(turn'.redirects) = {}
    BY <1>16, NoTurnIdle
  <2>5. \A d \in Range(turn'.running) : (d \in Asked => Resolved(d)') /\ Decided(d)'
    BY <1>15, <1>16, <1>17
  <2>6. \A d \in Range(turn'.ask) : Fresh(d)'
    BY <1>14, <1>16, <2>2
  <2>7. \A d \in Range(turn'.deferred) : d \in Agent /\ Decided(d)'
    <3>1. CASE stage = "ask"
      BY <1>13, <1>14, <1>16, <1>17, <3>1
    <3>2. CASE stage # "ask"
      BY <1>14, <1>16, <3>2, NoTurnIdle
    <3>3. QED
      BY <3>1, <3>2
  <2>8. \A d \in Range(turn'.ask), e \in Interactive :
          Beside(d, e)' => e = d \/ Tool(e)' \/ e \in Range(turn'.redirects)
    BY <1>3, <1>9, <1>14, <1>16, CallAssumption
  <2>9. ~At("start")'
    BY <1>15, <1>16 DEF At
  <2>10. QED
    BY <2>3, <2>4, <2>5, <2>6, <2>7, <2>8, <2>9 DEF WorkAgrees
<1>21. AsksLatest'
  BY <1>3, <1>14, <1>16, CallAssumption DEF AsksLatest
<1>22. Types'
  BY <1>6, <1>7, <1>9, <1>16 DEF Types
<1>23. CallRecords'
  <2>1. \A d \in Call \ Gate : Once(d)'
    BY <1>7, <1>9 DEF CallRecords
  <2>2. \A d \in Call : executed'[d] = 1 =>
          /\ Declared(d)' /\ d \notin Interactive
          /\ d \in Asked => Permitted(d)'
          /\ d \in Process => Started(d)'
    BY <1>6, <1>7, <1>9 DEF CallRecords
  <2>3. \A d \in Call :
          /\ Requested(d)' \/ Resolved(d)' => d \in Asked
          /\ Requested(d)' => Declared(d)'
          /\ Resolved(d)' => Requested(d)'
          /\ ~(Permitted(d)' /\ Refused(d)')
          /\ d \in Asked /\ Tool(d)' => Resolved(d)'
    BY <1>3, <1>7, <1>9, <1>10, <1>11 DEF CallRecords
  <2>4. QED
    BY <2>1, <2>2, <2>3 DEF CallRecords, Interactive
<1>24. RequestsShown'
  <2>1. \A d \in Call : Requested(d) /\ ~Resolved(d) /\ d # c => d \in stale
    BY <1>2, <1>4 DEF AtUser
  <2>2. QED
    BY <1>6, <1>9, <1>10, <2>1 DEF RequestsShown
<1>25. ResolvesPanel'
  <2>1. turn'.panel.calls[1] = c /\ Resolved(c)' /\ turn'.panel.kind = turn'.kind
        /\ turn'.kind = "permission" /\ turn'.stage # "resolve"
    BY <1>1, <1>2, <1>3, <1>4, <1>10, <1>15, <1>16
  <2>2. QED
    BY <1>3, <2>1 DEF ResolvesPanel, Continuation, At
<1>26. FromLog(turn.messages)'
  <2>1. PICK m : m = turn.messages
    OBVIOUS
  <2>2. FromLog(m)' /\ turn'.messages = m
    BY <1>7, <1>9, <1>16, <2>1
  <2>3. QED
    BY <2>2
<1>27. QED
  <2>1. turn'.kind = turn.kind /\ turn'.panel = turn.panel /\ turn'.stage # "none"
    BY <1>15, <1>16
  <2>2. \A d \in Call : /\ Declared(d)' <=> Declared(d)
                        /\ Requested(d)' <=> Requested(d)
                        /\ Tool(d) => Tool(d)'
    BY <1>9
  <2>3. \A d, e \in Call : Beside(d, e)' <=> Beside(d, e)
    BY <1>9
  <2>4. \A messages : FromLog(messages) => FromLog(messages)'
    BY <1>9
  <2>5. LogInOrder'
    BY <1>9
  <2>6. QED
    BY <1>1, <1>6, <1>18, <1>19, <1>20, <1>21, <1>22, <1>23, <1>24, <1>25, <1>26, <2>1, <2>2, <2>3,
       <2>4, <2>5, TurnResolves

-----------------------------------------------------------------------------
(* Failures, Escape and restarts.                                            *)

\* A turn that stops records nothing; the conversation may be rebuilt.
LEMMA StopKeeps ==
  ASSUME IInv, log' = log, executed' = executed, turn' = NoTurn,
         calledOff' \in {calledOff, calledOff \cup ReportedInterrupted},
         stale' \subseteq Call, panel' \in PanelRec, PanelAgrees(panel)', RequestsShown',
         FromLog(panel.messages)',
         used' \in [rounds : 0..MaxRounds, prompts : 0..MaxPrompts, troubles : 0..MaxTroubles,
                    crashes : 0..MaxCrashes],
         conversation' = conversation \/ \E preserved : conversation' = Repair(preserved)
  PROVE  IInv'
<1>1. Types /\ LogInOrder /\ log \in Seq(Rec) /\ FromLog(turn.messages) /\ FromLog(conversation)
  BY DEF IInv, Types, Conversations
<1>2. StartsOnly /\ CallRecords' /\ RedirectsFirst'
  BY RecordsUnchanged
<1>3. ReportedInterrupted \subseteq {c \in Call : Declared(c)}
  BY <1>1, ReportedIssued
<1>4. conversation' \in Seq(Rec) /\ FromLog(conversation)'
  <2>1. PICK m : m = conversation'
    OBVIOUS
  <2>2. m \in Seq(Rec) /\ FromLog(m)
    <3>1. CASE conversation' = conversation
      BY <1>1, <2>1, <3>1 DEF Types
    <3>2. ASSUME NEW preserved, conversation' = Repair(preserved)
          PROVE  m \in Seq(Rec) /\ FromLog(m)
      BY <1>1, <2>1, <3>2, RepairFromLog
    <3>3. QED
      BY <3>1, <3>2
  <2>3. FromLog(m)'
    BY <1>2, <2>2 DEF StartsOnly
  <2>4. QED
    BY <2>1, <2>2, <2>3
<1>5. calledOff' \subseteq Call /\ \A c \in calledOff' : Declared(c)'
  BY <1>1, <1>2, <1>3 DEF IInv, Conversations, Types, StartsOnly
<1>6. Types' /\ LogInOrder'
  BY <1>1, <1>2, <1>4, <1>5, NoTurnIdle DEF Types, StartsOnly
<1>7. QED
  BY <1>2, <1>4, <1>5, <1>6, TurnEnds

\* What a failure or an interruption does to the counters and the histories.
LEMMA StopsShape ==
  ASSUME IInv, Stops
  PROVE  /\ log' = log /\ executed' = executed /\ turn' = NoTurn
         /\ calledOff' \in {calledOff, calledOff \cup ReportedInterrupted}
         /\ ~At("provider") => calledOff' = calledOff
         /\ used' \in [rounds : 0..MaxRounds, prompts : 0..MaxPrompts, troubles : 0..MaxTroubles,
                       crashes : 0..MaxCrashes]
<1>1. used \in [rounds : 0..MaxRounds, prompts : 0..MaxPrompts, troubles : 0..MaxTroubles,
                crashes : 0..MaxCrashes]
  BY DEF IInv, Types
<1>2. used.troubles + 1 \in 0..MaxTroubles /\ used' = [used EXCEPT !.troubles = used.troubles + 1]
  <2>1. used.troubles < MaxTroubles /\ used' = [used EXCEPT !.troubles = @ + 1]
    BY DEF Stops, Spend
  <2>2. QED
    BY <1>1, <2>1, BoundAssumption
<1>3. used' \in [rounds : 0..MaxRounds, prompts : 0..MaxPrompts, troubles : 0..MaxTroubles,
                 crashes : 0..MaxCrashes]
  BY <1>1, <1>2
<1>4. QED
  BY <1>3 DEF Stops

\* A prompt that fails or is interrupted.
LEMMA StopPromptKeeps ==
  ASSUME IInv, FailPrompt \/ InterruptPrompt PROVE IInv'
<1>1. /\ turn.kind = "prompt" /\ Stops /\ panel' = panel /\ stale' = stale
      /\ conversation' = conversation \/ \E preserved : conversation' = Repair(preserved)
  BY DEF FailPrompt, InterruptPrompt
<1>2. /\ log' = log /\ executed' = executed /\ turn' = NoTurn
      /\ calledOff' \in {calledOff, calledOff \cup ReportedInterrupted}
      /\ used' \in [rounds : 0..MaxRounds, prompts : 0..MaxPrompts, troubles : 0..MaxTroubles,
                    crashes : 0..MaxCrashes]
  BY <1>1, StopsShape
<1>3. panel = NoPanel /\ ~At("resolve") /\ Types
  BY <1>1 DEF IInv, Shape, At
<1>4. panel' \in PanelRec /\ PanelAgrees(panel)' /\ stale' \subseteq Call
  BY <1>1, <1>3, NoPanelAgrees DEF Types
<1>5. RequestsShown'
  <2>1. \A c \in Call : Requested(c) /\ ~Resolved(c) => c \in stale
    BY <1>3, NothingShown
  <2>2. StartsOnly /\ \A c \in Call : Resolved(c)' <=> Resolved(c)
    BY <1>2, RecordsUnchanged
  <2>3. QED
    BY <1>1, <2>1, <2>2 DEF RequestsShown, StartsOnly
<1>6. FromLog(panel.messages)'
  <2>1. panel'.messages = <<>>
    BY <1>1, <1>3 DEF NoPanel
  <2>2. QED
    BY <2>1 DEF FromLog
<1>7. QED
  BY <1>1, <1>2, <1>4, <1>5, <1>6, StopKeeps

\* handleInterruption with a queued message: the open request becomes stale.
LEMMA TakeOverKeeps == ASSUME IInv, TakeOver PROVE IInv'
<1>1. /\ Continuation /\ Stops /\ panel' = panel /\ stale' = stale \cup PendingPermission
      /\ conversation' = conversation \/ \E preserved : conversation' = Repair(preserved)
  BY DEF TakeOver
<1>2. /\ log' = log /\ executed' = executed /\ turn' = NoTurn
      /\ calledOff' \in {calledOff, calledOff \cup ReportedInterrupted}
      /\ used' \in [rounds : 0..MaxRounds, prompts : 0..MaxPrompts, troubles : 0..MaxTroubles,
                    crashes : 0..MaxCrashes]
  BY <1>1, StopsShape
<1>3. panel = NoPanel /\ Types /\ log \in Seq(Rec) /\ LogInOrder
  BY <1>1 DEF IInv, Continuation, Types
<1>4. panel' \in PanelRec /\ PanelAgrees(panel)' /\ stale' \subseteq Call
  <2>1. PendingPermission \subseteq Call
    BY <1>3, PendingIsOpen
  <2>2. QED
    BY <1>1, <1>3, <2>1, NoPanelAgrees DEF Types
<1>5. RequestsShown'
  <2>1. StartsOnly /\ \A c \in Call : Resolved(c)' <=> Resolved(c)
    BY <1>2, RecordsUnchanged
  <2>2. \A c \in Call : Requested(c) /\ ~Resolved(c) => c \in stale'
    <3>1. CASE At("resolve")
      <4>1. /\ PanelAgrees(turn.panel)
            /\ \A c \in Call : Requested(c) /\ ~Resolved(c) /\ c \notin stale => AtUser(turn.panel, c)
        BY <3>1, ResolvingIdle
      <4>2. \A c : AtUser(turn.panel, c) => PendingPermission = {c}
        BY <4>1 DEF AtUser, PanelAgrees
      <4>3. QED
        BY <1>1, <4>1, <4>2
    <3>2. CASE ~At("resolve")
      BY <1>1, <1>3, <3>2, NothingShown
    <3>3. QED
      BY <3>1, <3>2
  <2>3. QED
    BY <2>1, <2>2 DEF RequestsShown, StartsOnly
<1>6. FromLog(panel.messages)'
  <2>1. panel'.messages = <<>>
    BY <1>1, <1>3 DEF NoPanel
  <2>2. QED
    BY <2>1 DEF FromLog
<1>7. QED
  BY <1>1, <1>2, <1>4, <1>5, <1>6, StopKeeps

\* The panel that comes back after a failed resolution asks what the log leaves open.
LEMMA ReopenedAgrees ==
  ASSUME IInv, Continuation, calledOff' = calledOff \/ ~At("resolve"),
         log' = log, executed' = executed, stale' = stale
  PROVE  /\ \E p \in PanelRec : p = Reopened /\ PanelAgrees(p)'
         /\ At("resolve") => \A c : AtUser(turn.panel, c) => Reopened = turn.panel
         /\ Reopened = turn.panel \/ Reopened = NoPanel
<1>1. turn \in TurnRec /\ turn.panel \in PanelRec /\ log \in Seq(Rec) /\ LogInOrder /\ turn.panel.kind = turn.kind
  BY DEF IInv, Types, TurnRec, ResolvesPanel
<1>2. Reopened = turn.panel \/ Reopened = NoPanel
  BY DEF Reopened
<1>3. Reopened \in PanelRec
  BY <1>1, <1>2, NoPanelAgrees
<1>4. CASE At("resolve")
  <2>1. PanelAgrees(turn.panel) /\ calledOff' = calledOff
    BY <1>4, ResolvingIdle
  <2>2. PICK p \in PanelRec : p = Reopened
    BY <1>3
  <2>3. PanelAgrees(p)
    BY <1>2, <2>1, <2>2, NoPanelAgrees
  <2>4. PanelAgrees(p)'
    BY <2>1, <2>3, PanelUnchanged
  <2>6. \A c : AtUser(turn.panel, c) => Reopened = turn.panel
    BY <1>1, <2>1 DEF AtUser, Reopened, PanelAgrees
  <2>7. QED
    BY <1>2, <1>3, <2>2, <2>4, <2>6
<1>5. CASE ~At("resolve")
  <2>1. CASE turn.kind = "permission"
    <3>1. PICK c \in Asked : turn.panel.calls[1] = c /\ Resolved(c)
      BY <1>5, <2>1 DEF IInv, ResolvesPanel, Continuation
    <3>2. c \notin PendingPermission
      BY <1>1, <3>1, PendingIsOpen
    <3>3. Reopened = NoPanel
      BY <2>1, <3>1, <3>2 DEF Reopened
    <3>4. QED
      BY <1>5, <3>3, NoPanelAgrees
  <2>2. CASE turn.kind = "question"
    <3>1. PICK c \in Interactive : turn.panel.calls = <<c>> /\ Tool(c)
      BY <1>5, <2>2 DEF IInv, ResolvesPanel, Continuation
    <3>2. Question \in SUBSET Call
      BY CallAssumption DEF Interactive
    <3>3. c \notin PendingCall(Question)
      BY <1>1, <3>1, <3>2, PendingCalls DEF CallsPend
    <3>4. Reopened = NoPanel
      BY <2>2, <3>1, <3>3 DEF Reopened
    <3>5. QED
      BY <1>5, <3>4, NoPanelAgrees
  <2>3. CASE turn.kind = "gate"
    <3>1. PICK c \in Gate : turn.panel.calls = <<c>> /\ Declared(c) /\ Tool(c) /\ turn.panel.deferred = <<>>
      BY <1>5, <2>3 DEF IInv, ResolvesPanel, Continuation
    <3>2. Reopened = turn.panel
      BY <2>3, <3>1 DEF Reopened
    <3>3. PICK p : p = Reopened
      OBVIOUS
    <3>4. p.kind = "gate" /\ p.calls = <<c>> /\ p.deferred = <<>> /\ p.calls[1] = c
      BY <1>1, <2>3, <3>1, <3>2, <3>3
    <3>5. Declared(c)' /\ Tool(c)'
      <4>1. c \in Call
        BY CallAssumption DEF Interactive
      <4>2. QED
        BY <3>1, <4>1, SameLog DEF StartsOnly
    <3>6. PanelAgrees(p)'
      BY <3>4, <3>5 DEF PanelAgrees
    <3>7. QED
      BY <1>2, <1>3, <1>5, <3>3, <3>6
  <2>4. QED
    BY <2>1, <2>2, <2>3 DEF Continuation
<1>6. QED
  BY <1>4, <1>5

\* StopContinuation: the panel comes back if the log still leaves it open.
LEMMA StopContinuationKeeps == ASSUME IInv, StopContinuation PROVE IInv'
<1>1. /\ Continuation /\ Stops /\ panel' = Reopened /\ stale' = stale
      /\ conversation' = conversation \/ \E preserved : conversation' = Repair(preserved)
  BY DEF StopContinuation
<1>2. /\ log' = log /\ executed' = executed /\ turn' = NoTurn
      /\ calledOff' \in {calledOff, calledOff \cup ReportedInterrupted}
      /\ ~At("provider") => calledOff' = calledOff
      /\ used' \in [rounds : 0..MaxRounds, prompts : 0..MaxPrompts, troubles : 0..MaxTroubles,
                    crashes : 0..MaxCrashes]
  BY <1>1, StopsShape
<1>3. Types /\ panel = NoPanel /\ (At("resolve") => ~At("provider"))
  BY <1>1 DEF IInv, Continuation, At
<1>4. PICK p \in PanelRec : p = Reopened /\ PanelAgrees(p)'
  BY <1>1, <1>2, <1>3, ReopenedAgrees
<1>5. /\ At("resolve") => \A c : AtUser(turn.panel, c) => p = turn.panel
      /\ p = turn.panel \/ p = NoPanel
  BY <1>1, <1>2, <1>3, <1>4, ReopenedAgrees
<1>6. panel' = p
  BY <1>1, <1>4
<1>7. PanelAgrees(panel)'
  BY <1>4, <1>6
<1>8. StartsOnly /\ \A c \in Call : Resolved(c)' <=> Resolved(c)
  BY <1>2, RecordsUnchanged
<1>9. RequestsShown'
  <2>1. \A c \in Call : Requested(c) /\ ~Resolved(c) /\ c \notin stale => AtUser(p, c)
    <3>1. CASE At("resolve")
      BY <1>5, <3>1, ResolvingIdle
    <3>2. CASE ~At("resolve")
      BY <1>3, <3>2, NothingShown
    <3>3. QED
      BY <3>1, <3>2
  <2>2. \A c : AtUser(p, c) => AtUser(panel, c)'
    BY <1>6 DEF AtUser
  <2>3. QED
    BY <1>1, <1>8, <2>1, <2>2 DEF RequestsShown, StartsOnly
<1>10. FromLog(panel.messages)'
  <2>1. PICK m : m = p.messages
    OBVIOUS
  <2>2. FromLog(turn.panel.messages) /\ FromLog(NoPanel.messages)
    BY NoMessages DEF IInv, Conversations, NoPanel
  <2>3. FromLog(m)
    BY <1>5, <2>1, <2>2
  <2>4. FromLog(m)' /\ panel'.messages = m
    BY <1>6, <1>8, <2>1, <2>3 DEF StartsOnly
  <2>5. QED
    BY <2>4
<1>11. stale' \subseteq Call /\ panel' \in PanelRec
  BY <1>1, <1>3, <1>4, <1>6 DEF Types
<1>12. QED
  BY <1>1, <1>2, <1>7, <1>9, <1>10, <1>11, StopKeeps

\* A restored panel is about one pending call, a request before any other.
RestoresOne ==
  \/ RestoredPanel = NoPanel /\ PendingPermission = {}
  \/ \E c \in Call :
       /\ RestoredPanel.calls = <<c>> /\ RestoredPanel.deferred = <<>>
       /\ RestoredPanel.messages = Repair(Preserved) /\ RestoredPanel # NoPanel
       /\ PendingPermission \subseteq {c}
       /\ {c} \in {PendingPermission, PendingCall(Gate), PendingCall(Question)}

\* restorePendingInteraction: the panel the session file asks for.
LEMMA RestoredAgrees ==
  ASSUME IInv
  PROVE  /\ RestoredPanel \in PanelRec /\ PanelAgrees(RestoredPanel) /\ FromLog(RestoredPanel.messages)
         /\ \A c \in Call : PendingPermission = {c} => AtUser(RestoredPanel, c)
         /\ RestoresOne
<1>. DEFINE messages == Repair(Preserved)
<1>1. Types /\ log \in Seq(Rec) /\ LogInOrder /\ CallRecords /\ RedirectsFirst /\ RequestsShown
  BY DEF IInv, Types
<1>2. messages \in Seq(Rec) /\ FromLog(messages)
  BY <1>1, RepairFromLog
<1>3. CallsPend /\ Gate \in SUBSET Call /\ Question \in SUBSET Call
  BY <1>1, PendingCalls, CallAssumption DEF Interactive
<1>4. CASE \E c \in Call : PendingPermission = {c}
  <2>1. PICK c \in Call : PendingPermission = {c}
    BY <1>4
  <2>2. Requested(c) /\ ~Resolved(c)
    BY <1>1, <2>1, PendingIsOpen
  <2>3. c \in Asked /\ Declared(c) /\ ~Tool(c)
    BY <1>1, <2>2 DEF CallRecords
  <2>4. Unresolved(messages, c) = <<>>
    <3>1. ASSUME NEW d \in Call, Beside(c, d), d # c, d \in Preserved PROVE Tool(d)
      <4>1. d \in PendingCall(Gate) \/ d \in PendingCall(Question)
        BY <2>1, <3>1 DEF Preserved
      <4>2. d \in Interactive
        BY <1>3, <4>1 DEF CallsPend, Interactive
      <4>3. QED
        BY <1>1, <2>2, <3>1, <4>2 DEF RedirectsFirst
    <3>2. QED
      BY <1>1, <3>1, RepairAnswers
  <2>5. Open(messages, c)
    BY <1>1, <2>1, <2>3, RepairLeavesOpen DEF Preserved
  <2>6. RestoredPanel = [kind |-> "permission", calls |-> <<c>>, deferred |-> <<>>, messages |-> messages]
    <3>1. RestoredPanel = [NoPanel EXCEPT !.kind = "permission",
                             !.calls = <<CHOOSE d \in PendingPermission : TRUE>>
                                         \o Unresolved(messages, CHOOSE d \in PendingPermission : TRUE),
                             !.messages = messages]
      BY <2>1 DEF RestoredPanel
    <3>2. (CHOOSE d \in PendingPermission : TRUE) = c
      BY <2>1
    <3>3. <<c>> \o <<>> = <<c>>
      OBVIOUS
    <3>. HIDE DEF messages
    <3>4. QED
      BY <2>4, <3>1, <3>2, <3>3 DEF NoPanel
  <2>. HIDE DEF messages
  <2>7. Waiting(c)
    <3>1. CASE c \in stale
      BY <2>2, <2>3, <3>1 DEF Waiting
    <3>2. CASE c \notin stale
      <4>1. AtUser(panel, c) \/ (At("resolve") /\ AtUser(turn.panel, c))
        BY <1>1, <2>2, <3>2 DEF RequestsShown
      <4>2. PanelAgrees(panel) /\ (At("resolve") => PanelAgrees(turn.panel))
        BY ResolvingIdle DEF IInv
      <4>3. QED
        BY <4>1, <4>2 DEF AtUser, PanelAgrees
    <3>3. QED
      BY <3>1, <3>2
  <2>8. /\ <<c>> \in Seq(Call) /\ Range(<<c>>) = {c} /\ IsInjective(<<c>>) /\ Tail(<<c>>) = <<>>
        /\ Range(<<>>) = {} /\ IsInjective(<<>>) /\ <<c>> # <<>> /\ <<>> \in Seq(Call)
    BY NoTurnIdle DEF Range, IsInjective
  <2>9. \A d \in Interactive : Beside(c, d) => Tool(d)
    BY <1>1, <2>2, CallAssumption DEF RedirectsFirst
  <2>shown. PICK p : p = RestoredPanel
    OBVIOUS
  <2>10. /\ p = RestoredPanel /\ p.kind = "permission" /\ p.calls = <<c>> /\ p.deferred = <<>>
        /\ p.messages = messages /\ p.calls[1] = c /\ p \in PanelRec
    BY <1>2, <2>6, <2>8, <2>shown DEF PanelRec
  <2>11. PanelAgrees(p)
    BY <2>1, <2>3, <2>5, <2>7, <2>8, <2>9, <2>10 DEF PanelAgrees
  <2>12. RestoresOne
    <3>1. p # NoPanel
      BY <2>10 DEF NoPanel
    <3>2. QED
      BY <2>1, <2>10, <3>1 DEF RestoresOne, messages
  <2>13. QED
    BY <1>2, <2>1, <2>10, <2>11, <2>12 DEF AtUser
<1>5. CASE PendingPermission = {} /\ PendingCall(Gate) # {}
  <2>1. PICK g \in Gate : PendingCall(Gate) = {g} /\ InLatest(g) /\ ~Tool(g)
    BY <1>3, <1>5 DEF CallsPend
  <2>2. Declared(g) /\ g \in Call
    BY <1>3, <2>1 DEF InLatest, Declared
  <2>3. RestoredPanel = [kind |-> "gate", calls |-> <<g>>, deferred |-> <<>>, messages |-> messages]
    <3>1. RestoredPanel = [NoPanel EXCEPT !.kind = "gate", !.calls = <<CHOOSE d \in PendingCall(Gate) : TRUE>>,
                             !.messages = messages]
      BY <1>5 DEF RestoredPanel
    <3>2. (CHOOSE d \in PendingCall(Gate) : TRUE) = g
      BY <2>1
    <3>. HIDE DEF messages
    <3>3. QED
      BY <3>1, <3>2 DEF NoPanel
  <2>. HIDE DEF messages
  <2>shown. PICK p : p = RestoredPanel
    OBVIOUS
  <2>4. /\ p = RestoredPanel /\ p.kind = "gate" /\ p.calls = <<g>> /\ p.deferred = <<>>
        /\ p.messages = messages /\ p.calls[1] = g /\ p \in PanelRec
    BY <1>2, <2>2, <2>3, <2>shown DEF PanelRec
  <2>5. PanelAgrees(p)
    BY <2>1, <2>2, <2>4 DEF PanelAgrees
  <2>6. RestoresOne
    <3>1. p # NoPanel
      BY <2>4 DEF NoPanel
    <3>2. QED
      BY <1>5, <2>1, <2>2, <2>4, <3>1 DEF RestoresOne, messages
  <2>7. QED
    BY <1>2, <1>5, <2>4, <2>5, <2>6
<1>6. CASE PendingPermission = {} /\ PendingCall(Gate) = {} /\ PendingCall(Question) # {}
  <2>1. PICK q \in Question : PendingCall(Question) = {q} /\ InLatest(q) /\ ~Tool(q)
    BY <1>3, <1>6 DEF CallsPend
  <2>2. Declared(q) /\ q \in Call
    BY <1>3, <2>1 DEF InLatest, Declared
  <2>3. RestoredPanel = [kind |-> "question", calls |-> <<q>>, deferred |-> <<>>, messages |-> messages]
    <3>1. RestoredPanel = [NoPanel EXCEPT !.kind = "question",
                             !.calls = <<CHOOSE d \in PendingCall(Question) : TRUE>>, !.messages = messages]
      BY <1>6 DEF RestoredPanel
    <3>2. (CHOOSE d \in PendingCall(Question) : TRUE) = q
      BY <2>1
    <3>. HIDE DEF messages
    <3>3. QED
      BY <3>1, <3>2 DEF NoPanel
  <2>. HIDE DEF messages
  <2>shown. PICK p : p = RestoredPanel
    OBVIOUS
  <2>4. /\ p = RestoredPanel /\ p.kind = "question" /\ p.calls = <<q>> /\ p.deferred = <<>>
        /\ p.messages = messages /\ p.calls[1] = q /\ p \in PanelRec
    BY <1>2, <2>2, <2>3, <2>shown DEF PanelRec
  <2>5. PanelAgrees(p)
    BY <1>6, <2>1, <2>2, <2>4 DEF PanelAgrees
  <2>6. RestoresOne
    <3>1. p # NoPanel
      BY <2>4 DEF NoPanel
    <3>2. QED
      BY <1>6, <2>1, <2>2, <2>4, <3>1 DEF RestoresOne, messages
  <2>7. QED
    BY <1>2, <1>6, <2>4, <2>5, <2>6
<1>7. CASE PendingPermission = {} /\ PendingCall(Gate) = {} /\ PendingCall(Question) = {}
  <2>1. RestoredPanel = NoPanel
    BY <1>7 DEF RestoredPanel
  <2>2. NoPanel.messages = <<>>
    BY DEF NoPanel
  <2>3. RestoresOne
    BY <1>7, <2>1 DEF RestoresOne
  <2>4. QED
    BY <1>7, <2>1, <2>2, <2>3, NoPanelAgrees, NoMessages
<1>8. PendingPermission = {} \/ \E c \in Call : PendingPermission = {c}
  BY <1>1, PendingIsOpen
<1>9. QED
  BY <1>4, <1>5, <1>6, <1>7, <1>8

\* Restart: the panel is rebuilt from the log.
LEMMA RestartKeeps == ASSUME IInv, Restart PROVE IInv'
<1>1. /\ used.crashes < MaxCrashes /\ used' = [used EXCEPT !.crashes = @ + 1]
      /\ turn' = NoTurn /\ panel' = RestoredPanel /\ conversation' = Repair(Preserved)
      /\ log' = log /\ executed' = executed /\ calledOff' = calledOff /\ stale' = stale
  BY DEF Restart, Spend, history
<1>2. Types
  BY DEF IInv
<1>3. used' \in [rounds : 0..MaxRounds, prompts : 0..MaxPrompts, troubles : 0..MaxTroubles,
                 crashes : 0..MaxCrashes]
  <2>1. used \in [rounds : 0..MaxRounds, prompts : 0..MaxPrompts, troubles : 0..MaxTroubles,
                  crashes : 0..MaxCrashes]
    BY <1>2 DEF Types
  <2>2. used.crashes + 1 \in 0..MaxCrashes /\ used' = [used EXCEPT !.crashes = used.crashes + 1]
    BY <1>1, <2>1, BoundAssumption
  <2>3. QED
    BY <2>1, <2>2
<1>4. PICK p \in PanelRec : /\ p = RestoredPanel /\ PanelAgrees(p) /\ FromLog(p.messages)
                            /\ \A c \in Call : PendingPermission = {c} => AtUser(p, c)
  BY RestoredAgrees
<1>5. PanelAgrees(p)' /\ panel' = p
  BY <1>1, <1>4, PanelUnchanged
<1>6. StartsOnly /\ \A c \in Call : Resolved(c)' <=> Resolved(c)
  BY <1>1, RecordsUnchanged
<1>7. RequestsShown'
  <2>1. ASSUME NEW c \in Call, Requested(c), ~Resolved(c), c \notin stale PROVE AtUser(p, c)
    <3>1. AtUser(panel, c) \/ (At("resolve") /\ AtUser(turn.panel, c))
      BY <2>1 DEF IInv, RequestsShown
    <3>2. PanelAgrees(panel) /\ (At("resolve") => PanelAgrees(turn.panel))
      BY ResolvingIdle DEF IInv
    <3>3. PendingPermission = {c}
      BY <3>1, <3>2 DEF AtUser, PanelAgrees
    <3>4. QED
      BY <1>4, <3>3
  <2>2. \A c : AtUser(p, c) => AtUser(panel, c)'
    BY <1>5 DEF AtUser
  <2>3. QED
    BY <1>1, <1>6, <2>1, <2>2 DEF RequestsShown, StartsOnly
<1>8. FromLog(panel.messages)'
  <2>1. PICK m : m = p.messages
    OBVIOUS
  <2>2. FromLog(m)' /\ panel'.messages = m
    BY <1>4, <1>5, <1>6, <2>1 DEF StartsOnly
  <2>3. QED
    BY <2>2
<1>9. PanelAgrees(panel)' /\ panel' \in PanelRec /\ stale' \subseteq Call
  BY <1>1, <1>2, <1>5 DEF Types
<1>10. QED
  BY <1>1, <1>3, <1>7, <1>8, <1>9, StopKeeps

-----------------------------------------------------------------------------
(* The invariant holds, and what follows from it.                            *)

\* A new session.
LEMMA InitHolds == ASSUME Init PROVE IInv
<1>1. /\ log = <<>> /\ conversation = <<>> /\ panel = NoPanel /\ turn = NoTurn
      /\ executed = [c \in Call |-> 0] /\ calledOff = {} /\ stale = {}
      /\ used = [rounds |-> 0, prompts |-> 0, troubles |-> 0, crashes |-> 0]
  BY DEF Init
<1>2. DOMAIN log = {} /\ DOMAIN conversation = {}
  BY <1>1
<1>3. Types
  <2>1. <<>> \in Seq(Rec) /\ 0 \in 0..MaxRounds /\ 0 \in 0..MaxPrompts /\ 0 \in 0..MaxTroubles
        /\ 0 \in 0..MaxCrashes
    BY BoundAssumption
  <2>2. QED
    BY <1>1, <2>1, NoPanelAgrees, NoTurnIdle DEF Types
<1>4. \A k, c : ~Has(log, k, c)
  BY <1>2 DEF Has
<1>5. \A c : ~Declared(c) /\ ~Requested(c) /\ ~Permitted(c) /\ ~Refused(c) /\ ~Resolved(c) /\ ~Tool(c)
  BY <1>2, <1>4 DEF Declared, Requested, Permitted, Refused, Resolved, Tool
<1>6. LogInOrder
  BY <1>2 DEF LogInOrder
<1>7. CallRecords
  <2>1. \A c : Once(c)
    BY <1>2 DEF Once, Results
  <2>2. \A c \in Call : executed[c] # 1
    BY <1>1
  <2>3. QED
    BY <1>5, <2>1, <2>2 DEF CallRecords
<1>8. RedirectsFirst /\ RequestsShown
  BY <1>5 DEF RedirectsFirst, RequestsShown
<1>9. PanelAgrees(panel)
  BY <1>1, NoPanelAgrees
<1>10. Shape(turn) /\ Lists(turn)
  BY <1>1, NoTurnIdle
<1>11. WorkAgrees /\ AsksLatest
  BY <1>1, NoTurnIdle DEF WorkAgrees, AsksLatest
<1>12. ResolvesPanel
  BY <1>1, NoTurnIdle DEF ResolvesPanel, Continuation
<1>13. Conversations
  <2>1. turn.messages = <<>> /\ turn.panel.messages = <<>> /\ panel.messages = <<>>
    BY <1>1, NoTurnIdle DEF NoPanel
  <2>2. QED
    BY <1>1, <2>1, NoMessages DEF Conversations
<1>14. QED
  BY <1>1, <1>3, <1>6, <1>7, <1>8, <1>9, <1>10, <1>11, <1>12, <1>13, NoTurnIdle DEF IInv

\* A step that changes nothing.
LEMMA StutterKeeps == ASSUME IInv, UNCHANGED vars PROVE IInv'
<1>1. /\ log' = log /\ conversation' = conversation /\ panel' = panel /\ turn' = turn
      /\ executed' = executed /\ calledOff' = calledOff /\ stale' = stale /\ used' = used
  BY DEF vars, history
<1>2. /\ StartsOnly /\ CallRecords' /\ RedirectsFirst' /\ \A c \in Call : Resolved(c)' <=> Resolved(c)
      /\ \A p \in PanelRec : PanelAgrees(p) => PanelAgrees(p)'
  BY <1>1, RecordsUnchanged, PanelUnchanged
<1>3. PICK t, p, q : t = turn /\ p = panel /\ q = turn.panel
  OBVIOUS
<1>4. t \in TurnRec /\ p \in PanelRec /\ q \in PanelRec /\ Types
  BY <1>3 DEF IInv, Types, TurnRec
<1>5. turn' = t /\ panel' = p /\ turn'.panel = q
  BY <1>1, <1>3
<1>6. \A c \in Call : /\ Declared(c)' <=> Declared(c)
                      /\ InLatest(c)' <=> InLatest(c)
                      /\ Requested(c)' <=> Requested(c)
                      /\ Tool(c)' <=> Tool(c)
  BY <1>2 DEF StartsOnly
<1>7. \A c \in Call : (Fresh(c)' <=> Fresh(c)) /\ (Decided(c)' <=> Decided(c))
  BY <1>1, <1>2, <1>6 DEF Fresh, Decided
<1>8. Types' /\ LogInOrder'
  BY <1>1, <1>2, <1>4 DEF Types, StartsOnly
<1>9. PanelAgrees(panel)'
  <2>1. PanelAgrees(p)'
    BY <1>2, <1>3, <1>4 DEF IInv
  <2>2. QED
    BY <1>5, <2>1
<1>10. RequestsShown'
  <2>1. (At("resolve")' <=> At("resolve")) /\ \A c : AtUser(panel, c)' = AtUser(panel, c)
                                            /\ AtUser(turn.panel, c)' = AtUser(turn.panel, c)
    BY <1>1 DEF At, AtUser
  <2>2. QED
    BY <1>1, <1>2, <1>6, <2>1 DEF IInv, RequestsShown
<1>11. Shape(turn)' /\ Lists(turn)' /\ Work(turn') = Work(turn)
  BY <1>1 DEF IInv
<1>12. WorkAgrees' /\ AsksLatest'
  <2>1. Work(t) \subseteq Call /\ Interactive \subseteq Call
    BY <1>4, CallAssumption DEF Work, TurnRec, Range
  <2>2. \A c, d \in Call : Beside(c, d)' <=> Beside(c, d)
    BY <1>2 DEF StartsOnly
  <2>3. (At("hostRuns")' <=> At("hostRuns")) /\ (At("start")' <=> At("start"))
        /\ (At("entries")' <=> At("entries"))
    BY <1>1 DEF At
  <2>4. WorkAgrees /\ AsksLatest
    BY DEF IInv
  <2>5. \A c \in Work(turn') : Declared(c)' /\ ~(Tool(c)') /\ Open(turn'.messages, c)
    BY <1>3, <1>5, <1>6, <2>1, <2>4 DEF WorkAgrees
  <2>6. \A c \in Range(turn'.hosts) : Fresh(c)' \/ (At("hostRuns")' /\ c = Head(turn'.hosts))
    BY <1>3, <1>5, <1>7, <2>1, <2>3, <2>4 DEF WorkAgrees, Work
  <2>7. \A c \in Range(turn'.running) :
          /\ c \in Asked => Resolved(c)'
          /\ At("start")' => Fresh(c)' /\ c \in Agent
          /\ At("entries")' => Decided(c)'
    BY <1>2, <1>3, <1>5, <1>7, <2>1, <2>3, <2>4 DEF WorkAgrees, Work
  <2>8. \A c \in Range(turn'.redirects) \cup Range(turn'.ask) : Fresh(c)'
    BY <1>3, <1>5, <1>7, <2>1, <2>4 DEF WorkAgrees, Work
  <2>9. \A c \in Range(turn'.deferred) : c \in Agent /\ Decided(c)'
    BY <1>3, <1>5, <1>7, <2>1, <2>4 DEF WorkAgrees, Work
  <2>10. \A c \in Range(turn'.ask), d \in Interactive :
           Beside(c, d)' => d = c \/ Tool(d)' \/ d \in Range(turn'.redirects)
    BY <1>3, <1>5, <1>6, <2>1, <2>2, <2>4 DEF WorkAgrees, Work
  <2>11. AsksLatest'
    BY <1>3, <1>5, <1>6, <2>1, <2>4 DEF AsksLatest, Work
  <2>12. QED
    BY <2>5, <2>6, <2>7, <2>8, <2>9, <2>10, <2>11 DEF WorkAgrees
<1>13. ResolvesPanel'
  <2>1. turn'.kind \in {"none", "prompt"} => turn'.panel = NoPanel
    BY <1>1 DEF IInv, ResolvesPanel
  <2>2. ASSUME turn.kind \in {"permission", "gate", "question"}
        PROVE  /\ turn'.panel.kind = turn'.kind
               /\ At("resolve")' => PanelAgrees(turn.panel)' /\ turn'.messages = turn'.panel.messages
               /\ ~(At("resolve")') =>
                    IF turn'.kind = "permission"
                    THEN \E c \in Asked : turn'.panel.calls[1] = c /\ Resolved(c)'
                    ELSE /\ turn'.panel.deferred = <<>>
                         /\ \E c \in Interactive : /\ turn'.panel.calls = <<c>> /\ Declared(c)' /\ Tool(c)'
                                                   /\ turn'.kind = "gate" => c \in Gate
    <3>1. (At("resolve")' <=> At("resolve")) /\ Asked \subseteq Call /\ Interactive \subseteq Call
      BY <1>1, CallAssumption DEF At
    <3>2. turn.panel.kind = turn.kind
      BY <2>2 DEF IInv, ResolvesPanel, Continuation
    <3>3. CASE At("resolve")
      <4>1. PanelAgrees(q) /\ turn.messages = turn.panel.messages
        BY <1>3, <2>2, <3>3 DEF IInv, ResolvesPanel, Continuation
      <4>2. PanelAgrees(q)'
        BY <1>2, <1>4, <4>1
      <4>3. PanelAgrees(turn.panel)'
        BY <1>5, <4>2
      <4>4. QED
        BY <1>1, <3>1, <3>2, <3>3, <4>1, <4>3
    <3>4. CASE ~At("resolve") /\ turn.kind = "permission"
      <4>1. \E c \in Asked : turn.panel.calls[1] = c /\ Resolved(c)
        BY <3>4 DEF IInv, ResolvesPanel, Continuation
      <4>2. QED
        BY <1>1, <1>2, <3>1, <3>2, <3>4, <4>1
    <3>5. CASE ~At("resolve") /\ turn.kind # "permission"
      <4>1. PICK c \in Interactive : /\ turn.panel.calls = <<c>> /\ Declared(c) /\ Tool(c)
                                     /\ (turn.kind = "gate" => c \in Gate) /\ turn.panel.deferred = <<>>
        BY <2>2, <3>5 DEF IInv, ResolvesPanel, Continuation
      <4>2. Declared(c)' /\ Tool(c)'
        BY <1>6, <3>1, <4>1
      <4>3. QED
        BY <1>1, <3>1, <3>2, <3>5, <4>1, <4>2
    <3>6. QED
      BY <3>3, <3>4, <3>5
  <2>3. QED
    BY <1>1, <2>1, <2>2 DEF ResolvesPanel, Continuation
<1>14. Conversations'
  <2>1. PICK m1, m2, m3, m4 : /\ m1 = conversation /\ m2 = panel.messages
                              /\ m3 = turn.messages /\ m4 = turn.panel.messages
    OBVIOUS
  <2>2. FromLog(m1)' /\ FromLog(m2)' /\ FromLog(m3)' /\ FromLog(m4)'
    BY <1>2, <2>1 DEF IInv, Conversations, StartsOnly
  <2>3. conversation' = m1 /\ panel'.messages = m2 /\ turn'.messages = m3 /\ turn'.panel.messages = m4
    BY <1>1, <2>1
  <2>4. \A c \in calledOff' : Declared(c)'
    BY <1>1, <1>4, <1>6 DEF IInv, Conversations, Types
  <2>5. QED
    BY <2>2, <2>3, <2>4 DEF Conversations
<1>15. (turn'.kind = "none" => turn' = NoTurn) /\ (turn'.kind # "none" => panel' = NoPanel)
  BY <1>1 DEF IInv
<1>16. QED
  BY <1>2, <1>8, <1>9, <1>10, <1>11, <1>12, <1>13, <1>14, <1>15 DEF IInv

\* Every step keeps the inductive invariant.
LEMMA StepKeeps == ASSUME IInv, [Next]_vars PROVE IInv'
<1>1. CASE SubmitPrompt
  BY <1>1, SubmitPromptKeeps
<1>2. CASE Decide
  BY <1>2, DecideKeeps
<1>3. CASE TurnStep
  <2>1. CASE Reply
    BY <2>1, ReplyKeeps
  <2>2. CASE GiveUp
    BY <2>2, GiveUpKeeps
  <2>3. CASE \E calls \in Batch : Respond(calls)
    BY <2>3, RespondKeeps
  <2>4. CASE StartAgents
    BY <2>4, StartAgentsKeeps
  <2>5. CASE RunHost
    BY <2>5, RunHostKeeps
  <2>6. CASE HostReturns
    BY <2>6, HostReturnsKeeps
  <2>7. CASE HostThrows
    BY <2>7, HostThrowsKeeps
  <2>8. CASE RecordResult
    BY <2>8, RecordResultKeeps
  <2>9. CASE Redirect
    BY <2>9, RedirectKeeps
  <2>10. CASE RefuseGate
    BY <2>10, RefuseGateKeeps
  <2>11. CASE OpenPanel
    BY <2>11, OpenPermissionKeeps, OpenInteractionKeeps
  <2>12. CASE AnswerInteraction
    BY <2>12, AnswerInteractionKeeps
  <2>13. CASE \E decision \in {"allow", "reject"} : ResolvePermission(decision)
    BY <2>13, ResolvePermissionKeeps
  <2>14. CASE RunEntries
    BY <2>14, RunEntriesKeeps
  <2>15. CASE EntriesReturn
    BY <2>15, EntriesReturnKeeps
  <2>16. CASE StopContinuation
    BY <2>16, StopContinuationKeeps
  <2>17. CASE FailPrompt \/ InterruptPrompt
    BY <2>17, StopPromptKeeps
  <2>18. CASE TakeOver
    BY <2>18, TakeOverKeeps
  <2>19. QED
    BY <1>3, <2>1, <2>2, <2>3, <2>4, <2>5, <2>6, <2>7, <2>8, <2>9, <2>10, <2>11, <2>12, <2>13, <2>14,
       <2>15, <2>16, <2>17, <2>18 DEF TurnStep
<1>4. CASE Restart
  BY <1>4, RestartKeeps
<1>5. CASE UNCHANGED vars
  BY <1>5, StutterKeeps
<1>6. QED
  BY <1>1, <1>2, <1>3, <1>4, <1>5 DEF Next

\* IInv is an invariant of the Agent Loop's turns.
THEOREM TurnInvariant == Spec => []IInv
<1>1. Init => IInv
  BY InitHolds
<1>2. IInv /\ [Next]_vars => IInv'
  BY StepKeeps
<1>3. QED
  BY <1>1, <1>2, PTL DEF Spec

\* Types, and the ties between turn and panel: they exclude each other, each
\* stage has what it works on, a panel has a call before the user.
THEOREM TurnTypes == Spec => []TypeOK
<1>1. IInv => TypeOK
  <2>. SUFFICES ASSUME IInv PROVE TypeOK
    OBVIOUS
  <2>1. Types /\ LogInOrder /\ Shape(turn) /\ Lists(turn) /\ PanelAgrees(panel) /\ panel \in PanelRec
        /\ turn \in TurnRec
    BY DEF IInv, Types
  <2>2. ASSUME NEW i \in DOMAIN log
        PROVE  /\ log[i].kind \in {"assistant", "request", "allow", "reject", "started", "tool"}
               /\ log[i].calls \in Seq(Call) /\ (log[i].kind # "assistant" => Len(log[i].calls) = 1)
    <3>1. log[i] \in Rec
      BY <2>1 DEF Types
    <3>2. CASE log[i].kind = "assistant"
      BY <3>1, <3>2 DEF Rec
    <3>3. CASE log[i].kind # "assistant"
      <4>1. PICK c \in Call : log[i].kind # "synthetic" /\ log[i].calls = <<c>>
        BY <2>1, <3>3 DEF LogInOrder
      <4>2. Len(<<c>>) = 1 /\ log[i].calls \in Seq(Call)
        BY <3>1 DEF Rec
      <4>3. QED
        BY <3>1, <3>3, <4>1, <4>2 DEF Rec
    <3>4. QED
      BY <3>2, <3>3
  <2>3. Range(panel.deferred) \subseteq Agent \cap Asked /\ (panel = NoPanel <=> panel.calls = <<>>)
        /\ (panel.kind = "permission" => Range(panel.calls) \subseteq Asked)
    <3>1. NoPanel.calls = <<>> /\ NoPanel.deferred = <<>> /\ Range(<<>>) = {} /\ NoPanel.kind = "none"
      BY NoTurnIdle DEF NoPanel
    <3>2. CASE panel.kind = "none"
      BY <2>1, <3>1, <3>2 DEF PanelAgrees
    <3>3. CASE panel.kind = "permission"
      BY <2>1, <3>1, <3>3 DEF PanelAgrees, Decided
    <3>4. CASE panel.kind = "gate"
      <4>1. panel.deferred = <<>> /\ \E g \in Gate : panel.calls = <<g>>
        BY <2>1, <3>4 DEF PanelAgrees
      <4>2. QED
        BY <3>1, <3>4, <4>1
    <3>5. CASE panel.kind = "question"
      <4>1. panel.deferred = <<>> /\ \E g \in Question : panel.calls = <<g>>
        BY <2>1, <3>5 DEF PanelAgrees
      <4>2. QED
        BY <3>1, <3>5, <4>1
    <3>6. QED
      BY <2>1, <3>2, <3>3, <3>4, <3>5 DEF PanelRec
  <2>4. turn.hosts \in Seq(Call \ (Asked \cup Agent \cup Interactive))
    <3>1. turn.hosts \in Seq(Call)
      BY <2>1 DEF TurnRec
    <3>2. \A i \in 1..Len(turn.hosts) : turn.hosts[i] \in Call \ (Asked \cup Agent \cup Interactive)
      BY <2>1, <3>1 DEF Lists, Range
    <3>3. QED
      BY <3>1, <3>2
  <2>5. Range(turn.running) \subseteq Call \ Interactive
    BY <2>1 DEF TurnRec, Range, Lists
  <2>6. /\ turn.stage \in {"host", "hostRuns"} => turn.hosts # <<>>
        /\ turn.stage \in {"record", "entries"} => turn.running # <<>>
        /\ turn.stage \in Stage
    BY <2>1 DEF Shape, TurnRec
  <2>7. Busy => panel = NoPanel
    BY DEF IInv, Busy
  <2>8. executed \in [Call -> Nat] /\ calledOff \subseteq Call
    BY <2>1 DEF Types
  <2>9. used \in [rounds : 0..MaxRounds, prompts : 0..MaxPrompts, troubles : 0..MaxTroubles, crashes : 0..MaxCrashes]
    BY <2>1 DEF Types
  <2>10. panel.kind \in {"none", "permission", "gate", "question"} /\ panel.calls \in Seq(Call)
    BY <2>1 DEF PanelRec
  <2>11. QED
    BY <2>2, <2>3, <2>4, <2>5, <2>6, <2>7, <2>8, <2>9, <2>10 DEF TypeOK
<1>2. QED
  BY <1>1, TurnInvariant, PTL

\* A call is carried out at most once, answered at most once, and one the user
\* is asked about only behind a durable "allow".
THEOREM CallsOnce == Spec => []CallsRunOnce
<1>1. IInv => CallsRunOnce
  <2>. SUFFICES ASSUME IInv, NEW c \in Call
                PROVE  /\ executed[c] <= 1
                       /\ c \notin Gate => Cardinality(Results(c)) <= 1
                       /\ executed[c] = 1 /\ c \in Asked => Has(log, "allow", c) /\ ~Has(log, "reject", c)
                       /\ executed[c] = 1 /\ c \in Process => Has(log, "started", c)
    BY DEF CallsRunOnce
  <2>1. executed[c] <= 1
    BY DEF IInv, Types
  <2>2. ASSUME c \notin Gate PROVE Cardinality(Results(c)) <= 1
    <3>1. Once(c)
      BY <2>2 DEF IInv, CallRecords
    <3>2. CASE Results(c) = {}
      BY <3>2, FS_EmptySet
    <3>3. CASE Results(c) # {}
      <4>1. PICK i : i \in Results(c)
        BY <3>3
      <4>2. Results(c) = {i}
        BY <3>1, <4>1 DEF Once
      <4>3. Cardinality({i}) = 1
        BY FS_Singleton
      <4>4. QED
        BY <4>2, <4>3
    <3>4. QED
      BY <3>2, <3>3
  <2>3. executed[c] = 1 => /\ c \in Asked => Permitted(c) /\ ~Refused(c)
                           /\ c \in Process => Started(c)
    BY DEF IInv, CallRecords
  <2>4. QED
    BY <2>1, <2>2, <2>3 DEF Permitted, Refused, Started
<1>2. QED
  BY <1>1, TurnInvariant, PTL

\* Whatever brought the permission panel up, a decision on it is accepted.
THEOREM DecisionsApply == Spec => []DecisionApplies
<1>1. IInv => DecisionApplies
  <2>. SUFFICES ASSUME IInv, panel.kind = "permission" PROVE Valid(panel)
    BY DEF DecisionApplies
  <2>1. panel \in PanelRec /\ PanelAgrees(panel)
    BY DEF IInv, Types
  <2>2. PICK c : c = panel.calls[1]
    OBVIOUS
  <2>3. /\ panel.calls # <<>> /\ Waiting(c)
        /\ \A d \in Range(panel.deferred) : Decided(d)
        /\ \A d \in Range(panel.calls) \cup Range(panel.deferred) : Open(panel.messages, d)
    BY <2>1, <2>2 DEF PanelAgrees
  <2>4. c \in Range(panel.calls)
    BY <2>1, <2>2, <2>3, TailRange DEF PanelRec
  <2>5. Has(log, "request", c) /\ ~Resolved(c) /\ Open(panel.messages, c)
    BY <2>3, <2>4 DEF Waiting, Requested
  <2>6. \A d \in Range(panel.deferred) :
          d # c /\ Has(log, "request", d) /\ Resolved(d) /\ ~Has(log, "tool", d) /\ Open(panel.messages, d)
    BY <2>3, <2>5 DEF Decided, Requested, Tool
  <2>7. QED
    BY <2>2, <2>5, <2>6 DEF Valid, Open
<1>2. QED
  BY <1>1, TurnInvariant, PTL

\* Only the three actions that carry calls out count executions, and none of
\* their calls was reported as interrupted, stale requests apart.
LEMMA RunsAreOpen ==
  ASSUME IInv, [Next]_vars, NEW c \in Call \ stale, executed'[c] > executed[c]
  PROVE  c \notin calledOff
<1>1. Types /\ Shape(turn) /\ WorkAgrees /\ turn \in TurnRec /\ executed[c] \in {0, 1}
  BY DEF IInv, Types
<1>2. executed' # executed
  BY <1>1
<1>3. ASSUME NEW S, Execute(S) PROVE c \in S
  <2>1. c \notin S => executed'[c] = executed[c] + 0
    BY <1>3 DEF Execute
  <2>2. QED
    BY <1>1, <2>1
<1>4. CASE StartAgents
  <2>1. Execute(Range(turn.running)) /\ At("start")
    BY <1>4 DEF StartAgents
  <2>2. QED
    BY <1>1, <1>3, <2>1 DEF WorkAgrees, Fresh
<1>5. CASE RunHost
  <2>1. Execute({Head(turn.hosts)}) /\ At("host")
    BY <1>5 DEF RunHost
  <2>2. turn.hosts # <<>> /\ turn.hosts \in Seq(Call) /\ ~At("hostRuns")
    BY <1>1, <2>1 DEF Shape, At, TurnRec
  <2>3. c \in Range(turn.hosts)
    BY <1>3, <2>1, <2>2, TailRange
  <2>4. QED
    BY <1>1, <2>2, <2>3 DEF WorkAgrees, Fresh
<1>6. CASE RunEntries
  <2>1. Execute(Range(Allowed(turn.running))) /\ At("entries")
    BY <1>6 DEF RunEntries
  <2>2. c \in Range(Allowed(turn.running))
    BY <1>3, <2>1
  <2>3. c \in Range(turn.running)
    BY <1>1, <2>2, OnlyProperties DEF Allowed, TurnRec
  <2>4. QED
    BY <1>1, <2>1, <2>3 DEF WorkAgrees, Decided
<1>7. ASSUME NEW calls, Respond(calls) PROVE FALSE
  BY <1>2, <1>7 DEF Respond
<1>8. ASSUME NEW decision, ResolvePermission(decision) PROVE FALSE
  BY <1>2, <1>8 DEF ResolvePermission, history
<1>9. ~Stops
  BY <1>2 DEF Stops
<1>10. ~(SubmitPrompt \/ Decide \/ Restart \/ UNCHANGED vars)
  BY <1>2 DEF SubmitPrompt, Decide, Restart, history, vars
<1>11. ~(Reply \/ GiveUp \/ HostThrows \/ OpenPanel \/ EntriesReturn)
  BY <1>2 DEF Reply, GiveUp, HostThrows, OpenPanel, EntriesReturn, history
<1>12. ~(HostReturns \/ RecordResult \/ Redirect \/ RefuseGate \/ AnswerInteraction)
  BY <1>2 DEF HostReturns, RecordResult, Redirect, RefuseGate, AnswerInteraction, Answer, history
<1>13. ~(StopContinuation \/ FailPrompt \/ InterruptPrompt \/ TakeOver)
  BY <1>9 DEF StopContinuation, FailPrompt, InterruptPrompt, TakeOver
<1>14. QED
  BY <1>4, <1>5, <1>6, <1>7, <1>8, <1>10, <1>11, <1>12, <1>13 DEF Next, TurnStep

\* What the model was told was interrupted is not carried out afterwards,
\* stale requests apart.
THEOREM CalledOffSafety == Spec => CalledOffStaysOff
<1>1. IInv /\ [Next]_vars => [\A c \in Call \ stale : executed'[c] > executed[c] => c \notin calledOff]_vars
  BY RunsAreOpen
<1>2. QED
  BY <1>1, TurnInvariant, PTL DEF Spec, CalledOffStaysOff

\* Only a restart counts as one.
LEMMA OnlyRestartCrashes ==
  ASSUME IInv, [Next]_vars, used'.crashes > used.crashes
  PROVE  Restart
<1>1. used \in [rounds : 0..MaxRounds, prompts : 0..MaxPrompts, troubles : 0..MaxTroubles, crashes : 0..MaxCrashes]
  BY DEF IInv, Types
<1>2. used.crashes \in Nat /\ used'.crashes # used.crashes
  BY <1>1, BoundAssumption
<1>3. ASSUME NEW bound \in {"rounds", "prompts", "troubles"}, Spend(bound) PROVE FALSE
  BY <1>1, <1>2, <1>3 DEF Spend
<1>4. used' # used
  BY <1>2
<1>5. ASSUME NEW calls, Respond(calls) PROVE FALSE
  BY <1>3, <1>5 DEF Respond
<1>6. ASSUME NEW decision, ResolvePermission(decision) PROVE FALSE
  BY <1>4, <1>6 DEF ResolvePermission
<1>7. ~Stops /\ ~SubmitPrompt
  BY <1>3 DEF Stops, SubmitPrompt
<1>8. ~(Decide \/ UNCHANGED vars \/ Reply \/ GiveUp \/ StartAgents \/ RunHost \/ HostThrows)
  BY <1>4 DEF Decide, vars, Reply, GiveUp, StartAgents, RunHost, HostThrows
<1>9. ~(OpenPanel \/ RunEntries \/ EntriesReturn)
  BY <1>4 DEF OpenPanel, RunEntries, EntriesReturn
<1>10. ~(HostReturns \/ RecordResult \/ Redirect \/ RefuseGate \/ AnswerInteraction)
  BY <1>4 DEF HostReturns, RecordResult, Redirect, RefuseGate, AnswerInteraction, Answer
<1>11. ~(StopContinuation \/ FailPrompt \/ InterruptPrompt \/ TakeOver)
  BY <1>7 DEF StopContinuation, FailPrompt, InterruptPrompt, TakeOver
<1>12. QED
  BY <1>5, <1>6, <1>7, <1>8, <1>9, <1>10, <1>11 DEF Next, TurnStep

\* The interaction on screen is the one the log brings back, unless it was a
\* gate decided before or a stale request takes its place.
LEMMA RestoredIsShown ==
  ASSUME IInv, panel # NoPanel, stale = {}, Results(panel.calls[1]) = {}
  PROVE  RestoredPanel.kind = panel.kind /\ RestoredPanel.calls[1] = panel.calls[1]
<1>1. /\ Types /\ log \in Seq(Rec) /\ LogInOrder /\ PanelAgrees(panel) /\ panel \in PanelRec
      /\ RequestsShown /\ (turn.kind # "none" => panel = NoPanel)
      /\ (turn.kind = "none" => turn = NoTurn)
  BY DEF IInv, Types
<1>2. ~At("resolve")
  BY <1>1, NoTurnIdle DEF At
<1>3. ~Tool(panel.calls[1])
  BY DEF Results, Tool, Has
<1>4. panel.kind \in {"permission", "gate", "question"}
  BY <1>1 DEF PanelRec, PanelAgrees
<1>5. CASE panel.kind = "permission"
  <2>1. PendingPermission = {panel.calls[1]} /\ panel.calls[1] \in Call
    BY <1>1, <1>5, CallAssumption DEF PanelAgrees, Waiting
  <2>2. AtUser(RestoredPanel, panel.calls[1])
    BY <2>1, RestoredAgrees
  <2>3. QED
    BY <1>5, <2>2 DEF AtUser
<1>6. ASSUME panel.kind \in {"gate", "question"} PROVE PendingPermission = {}
  <2>1. \A c \in Call : Requested(c) => Resolved(c)
    BY <1>1, <1>2, <1>6 DEF RequestsShown, AtUser
  <2>2. QED
    BY <1>1, <2>1, PendingIsOpen
<1>7. CASE panel.kind = "gate"
  <2>1. PICK c : c = panel.calls[1]
    OBVIOUS
  <2>2. PendingCall(Gate) = {c}
    BY <1>1, <1>3, <1>7, <2>1 DEF PanelAgrees
  <2>3. RestoredPanel = [NoPanel EXCEPT !.kind = "gate", !.calls = <<CHOOSE d \in PendingCall(Gate) : TRUE>>,
                           !.messages = Repair(Preserved)]
    BY <1>6, <1>7, <2>2 DEF RestoredPanel
  <2>4. (CHOOSE d \in PendingCall(Gate) : TRUE) = c
    BY <2>2
  <2>5. RestoredPanel.kind = "gate" /\ RestoredPanel.calls = <<c>>
    BY <2>3, <2>4 DEF NoPanel
  <2>6. QED
    BY <1>7, <2>1, <2>5
<1>8. CASE panel.kind = "question"
  <2>1. PICK c : c = panel.calls[1]
    OBVIOUS
  <2>2. PendingCall(Gate) = {} /\ PendingCall(Question) = {c}
    BY <1>1, <1>8, <2>1 DEF PanelAgrees
  <2>3. RestoredPanel = [NoPanel EXCEPT !.kind = "question",
                           !.calls = <<CHOOSE d \in PendingCall(Question) : TRUE>>,
                           !.messages = Repair(Preserved)]
    BY <1>6, <1>8, <2>2 DEF RestoredPanel
  <2>4. (CHOOSE d \in PendingCall(Question) : TRUE) = c
    BY <2>2
  <2>5. RestoredPanel.kind = "question" /\ RestoredPanel.calls = <<c>>
    BY <2>3, <2>4 DEF NoPanel
  <2>6. QED
    BY <1>8, <2>1, <2>5
<1>9. QED
  BY <1>4, <1>5, <1>7, <1>8

\* A restart shows the interaction that was on screen, unless it was a gate
\* decided before or a stale request takes its place.
THEOREM PanelSurvives == Spec => PanelSurvivesRestart
<1>1. IInv /\ [Next]_vars =>
        [used'.crashes > used.crashes /\ panel # NoPanel /\ stale = {}
           => \/ panel'.kind = panel.kind /\ panel'.calls[1] = panel.calls[1]
              \/ Results(panel.calls[1]) # {}]_vars
  <2>. SUFFICES ASSUME IInv, [Next]_vars, used'.crashes > used.crashes, panel # NoPanel, stale = {},
                       Results(panel.calls[1]) = {}
                PROVE  panel'.kind = panel.kind /\ panel'.calls[1] = panel.calls[1]
    OBVIOUS
  <2>1. Restart
    BY OnlyRestartCrashes
  <2>2. panel' = RestoredPanel
    BY <2>1 DEF Restart
  <2>3. RestoredPanel.kind = panel.kind /\ RestoredPanel.calls[1] = panel.calls[1]
    BY RestoredIsShown
  <2>4. QED
    BY <2>2, <2>3
<1>2. QED
  BY <1>1, TurnInvariant, PTL DEF Spec, PanelSurvivesRestart


-----------------------------------------------------------------------------
(* Every call has one result: the inductive invariant.                       *)

\* Where a call stands in a list of messages: not in it; asked by the last response
\* and not answered; answered, or not in it.
Unmentioned(messages, c) == Declarations(messages, c) \cup Answers(messages, c) = {}
OpenLast(messages, c) ==
  /\ Answers(messages, c) = {}
  /\ \E i \in Declarations(messages, c) :
       \A k \in DOMAIN messages : messages[k].kind = "assistant" => k <= i
Settled(messages, c) == PairedIn(messages, {c})

\* The calls the property leaves out.
Excepted(c) ==
  /\ used.troubles + used.crashes # 0
  /\ (c \in Gate /\ ~Once(c)) \/ (c \in Interactive /\ ~Tool(c)) \/ c \in stale

\* A list of messages in which only the calls in pending are open, all of them
\* asked by its last response.
Pairs(messages, pending) ==
  /\ \A c \in Call : Excepted(c) \/ Settled(messages, c) \/ c \in pending
  /\ \A c \in pending : c \in stale \/ OpenLast(messages, c)

\* In the log, a result comes before the next response.
LogPairs ==
  \A c \in Call : Tool(c) /\ Once(c) /\ c \notin stale =>
    \E i, j \in DOMAIN log : /\ Issues(i, c) /\ log[j] = Record("tool", <<c>>) /\ i < j
                             /\ \A k \in (i + 1)..j : log[k].kind # "assistant"

\* What may still be answered belongs to the last response.
OfLatest(pending) == \A c \in pending : InLatest(c) \/ c \in stale \/ (c \in Gate /\ Tool(c))

Pending(p) == Range(p.calls) \cup Range(p.deferred)

\* A turn that has thrown goes no further; decided Agent calls wait for another one.
TurnInOrder ==
  /\ turn.thrown => turn.stage \in {"record", "thrown"}
  /\ panel.deferred # <<>> => panel.calls[1] \in Agent
  /\ turn.panel.deferred # <<>> => turn.panel.calls[1] \in Agent
  /\ turn.deferred # <<>> => turn.ask[1] \in Agent

PairInv ==
  /\ LogPairs /\ TurnInOrder
  /\ stale # {} => used.troubles + used.crashes # 0
  /\ panel = NoPanel /\ turn.kind \in {"none", "prompt"} => Pairs(conversation, {})
  /\ panel # NoPanel => Pairs(panel.messages, Pending(panel)) /\ OfLatest(Pending(panel))
  /\ Continuation => Pairs(turn.panel.messages, Pending(turn.panel))
  /\ At("resolve") => OfLatest(Pending(turn.panel))
  /\ turn.kind # "none" /\ ~At("resolve") =>
       /\ OfLatest(Work(turn))
       /\ ~turn.thrown => Pairs(turn.messages, Work(turn))
  /\ \A c \in Work(turn) :
       /\ turn.kind = "prompt" => Unmentioned(conversation, c)
       /\ Continuation => c \in Pending(turn.panel) \/ Unmentioned(turn.panel.messages, c)


-----------------------------------------------------------------------------
(* Lists of messages: where a further message leaves a call.                 *)

Asks(m, c) == m.kind = "assistant" /\ c \in Range(m.calls)
Tells(m, c) == m \in {Record("tool", <<c>>), Record("synthetic", <<c>>)}

\* A list that goes on, from the first new position.
Grows(messages, more) ==
  /\ messages \in Seq(Rec) /\ more \in Seq(Rec) /\ Len(messages) <= Len(more)
  /\ \A i \in 1..Len(messages) : more[i] = messages[i]
Added(messages, more) == (Len(messages) + 1)..Len(more)

\* The positions of a call's messages; its pairing, for one call alone.
LEMMA CallPositions ==
  ASSUME NEW messages \in Seq(Rec), NEW c
  PROVE  /\ DOMAIN messages = 1..Len(messages) /\ Len(messages) \in Nat
         /\ \A i : i \in Declarations(messages, c) <=> i \in 1..Len(messages) /\ Asks(messages[i], c)
         /\ \A i : i \in Answers(messages, c) <=> i \in 1..Len(messages) /\ Tells(messages[i], c)
         /\ Settled(messages, c) <=>
              (~Unmentioned(messages, c) =>
                 \E i \in Declarations(messages, c), j \in Answers(messages, c) :
                   /\ Answers(messages, c) = {j} /\ i < j
                   /\ \A k \in (i + 1)..j : messages[k].kind # "assistant")
<1>1. DOMAIN messages = 1..Len(messages) /\ Len(messages) \in Nat
  OBVIOUS
<1>2. \A i : i \in Declarations(messages, c) <=> i \in 1..Len(messages) /\ Asks(messages[i], c)
  BY <1>1 DEF Declarations, Asks
<1>3. \A i : i \in Answers(messages, c) <=> i \in 1..Len(messages) /\ Tells(messages[i], c)
  BY <1>1 DEF Answers, Tells
<1>4. Settled(messages, c) <=>
        (~Unmentioned(messages, c) =>
           \E i \in Declarations(messages, c), j \in Answers(messages, c) :
             /\ Answers(messages, c) = {j} /\ i < j
             /\ \A k \in (i + 1)..j : messages[k].kind # "assistant")
  BY Zenon DEF Settled, PairedIn, Unmentioned
<1> QED  BY <1>1, <1>2, <1>3, <1>4

\* Messages that do not mention a call leave it where it is.
LEMMA QuietGrowth ==
  ASSUME NEW messages, NEW more, Grows(messages, more), NEW c,
         \A k \in Added(messages, more) : ~Asks(more[k], c) /\ ~Tells(more[k], c)
  PROVE  /\ Declarations(more, c) = Declarations(messages, c) /\ Answers(more, c) = Answers(messages, c)
         /\ Unmentioned(messages, c) => Unmentioned(more, c)
         /\ Settled(messages, c) => Settled(more, c)
         /\ (\A k \in Added(messages, more) : more[k].kind # "assistant") /\ OpenLast(messages, c)
              => OpenLast(more, c)
<1>1. /\ Len(messages) \in Nat /\ Len(more) \in Nat /\ Len(messages) <= Len(more)
      /\ \A i \in 1..Len(messages) : more[i] = messages[i] /\ i \in 1..Len(more)
      /\ \A i \in 1..Len(more) : i \in 1..Len(messages) \/ i \in Added(messages, more)
  BY DEF Grows, Added
<1>2. /\ \A i : i \in Declarations(messages, c) <=> i \in 1..Len(messages) /\ Asks(messages[i], c)
      /\ \A i : i \in Answers(messages, c) <=> i \in 1..Len(messages) /\ Tells(messages[i], c)
      /\ \A i : i \in Declarations(more, c) <=> i \in 1..Len(more) /\ Asks(more[i], c)
      /\ \A i : i \in Answers(more, c) <=> i \in 1..Len(more) /\ Tells(more[i], c)
      /\ DOMAIN messages = 1..Len(messages) /\ DOMAIN more = 1..Len(more)
  BY CallPositions DEF Grows
<1>3. Declarations(more, c) = Declarations(messages, c) /\ Answers(more, c) = Answers(messages, c)
  BY <1>1, <1>2
<1>4. Unmentioned(messages, c) <=> Unmentioned(more, c)
  BY <1>3 DEF Unmentioned
<1>5. ASSUME Settled(messages, c), ~Unmentioned(more, c)
      PROVE  \E i \in Declarations(more, c), j \in Answers(more, c) :
               /\ Answers(more, c) = {j} /\ i < j
               /\ \A k \in (i + 1)..j : more[k].kind # "assistant"
  <2>1. PICK i \in Declarations(messages, c), j \in Answers(messages, c) :
               /\ Answers(messages, c) = {j} /\ i < j
               /\ \A k \in (i + 1)..j : messages[k].kind # "assistant"
    BY <1>4, <1>5, CallPositions DEF Grows
  <2>2. \A k \in (i + 1)..j : k \in 1..Len(messages)
    BY <1>1, <1>2
  <2>3. \A k \in (i + 1)..j : more[k].kind # "assistant"
    BY <1>1, <2>1, <2>2
  <2> QED  BY <1>3, <2>1, <2>3
<1>6. Settled(messages, c) => Settled(more, c)
  BY <1>5, CallPositions DEF Grows
<1>7. (\A k \in Added(messages, more) : more[k].kind # "assistant") /\ OpenLast(messages, c)
        => OpenLast(more, c)
  BY <1>1, <1>2, <1>3 DEF OpenLast
<1> QED  BY <1>3, <1>4, <1>6, <1>7

\* An answer settles the call it is about, if the last response asked it.
LEMMA AnswerGrowth ==
  ASSUME NEW messages, NEW more, Grows(messages, more), NEW c, OpenLast(messages, c),
         Len(more) = Len(messages) + 1, Tells(more[Len(more)], c)
  PROVE  Settled(more, c)
<1>. DEFINE n == Len(more)
<1>1. /\ Len(messages) \in Nat /\ n \in Nat /\ n = Len(messages) + 1 /\ n \in 1..n
      /\ \A i \in 1..Len(messages) : more[i] = messages[i] /\ i \in 1..n
      /\ \A i \in 1..n : i \in 1..Len(messages) \/ i = n
  BY DEF Grows
<1>2. /\ \A i : i \in Declarations(messages, c) <=> i \in 1..Len(messages) /\ Asks(messages[i], c)
      /\ \A i : i \in Answers(messages, c) <=> i \in 1..Len(messages) /\ Tells(messages[i], c)
      /\ \A i : i \in Declarations(more, c) <=> i \in 1..n /\ Asks(more[i], c)
      /\ \A i : i \in Answers(more, c) <=> i \in 1..n /\ Tells(more[i], c)
      /\ DOMAIN messages = 1..Len(messages) /\ DOMAIN more = 1..n
  BY CallPositions DEF Grows
<1>3. PICK i \in Declarations(messages, c) :
        \A k \in DOMAIN messages : messages[k].kind = "assistant" => k <= i
  BY DEF OpenLast
<1>4. more[n].kind # "assistant"
  BY DEF Tells, Record
<1>5. Answers(more, c) = {n}
  BY <1>1, <1>2 DEF OpenLast
<1>6. i \in 1..Len(messages) /\ i \in Declarations(more, c) /\ i < n
  BY <1>1, <1>2, <1>3
<1>7. \A k \in (i + 1)..n : more[k].kind # "assistant"
  <2>1. TAKE k \in (i + 1)..n
  <2>2. CASE k = n
    BY <1>4, <2>2
  <2>3. CASE k # n
    <3>1. k \in 1..Len(messages) /\ ~(k <= i)
      BY <1>1, <1>6, <2>3
    <3> QED  BY <1>1, <1>2, <1>3, <3>1
  <2> QED  BY <2>2, <2>3
<1> QED
  <2>1. n \in Answers(more, c)
    BY <1>5
  <2> QED  BY <1>5, <1>6, <1>7, <2>1, CallPositions DEF Grows

\* A response opens its calls; a call that is answered right behind it is settled.
LEMMA ResponseGrowth ==
  ASSUME NEW messages, NEW more, Grows(messages, more), NEW c, Unmentioned(messages, c),
         NEW first, first = Len(messages) + 1, first \in 1..Len(more), Asks(more[first], c),
         \A k \in (first + 1)..Len(more) : more[k].kind # "assistant",
         \A j, k \in (first + 1)..Len(more) : Tells(more[j], c) /\ Tells(more[k], c) => j = k
  PROVE  /\ (\E k \in (first + 1)..Len(more) : Tells(more[k], c)) => Settled(more, c)
         /\ (\A k \in (first + 1)..Len(more) : ~Tells(more[k], c)) => OpenLast(more, c)
<1>1. /\ Len(messages) \in Nat /\ Len(more) \in Nat /\ first \in Nat
      /\ \A i \in 1..Len(messages) : more[i] = messages[i] /\ i \in 1..Len(more)
      /\ \A i \in 1..Len(more) : i \in 1..Len(messages) \/ i = first \/ i \in (first + 1)..Len(more)
      /\ \A i \in (first + 1)..Len(more) : i \in 1..Len(more) /\ first < i
  BY DEF Grows
<1>2. /\ \A i : i \in Declarations(messages, c) <=> i \in 1..Len(messages) /\ Asks(messages[i], c)
      /\ \A i : i \in Answers(messages, c) <=> i \in 1..Len(messages) /\ Tells(messages[i], c)
      /\ \A i : i \in Declarations(more, c) <=> i \in 1..Len(more) /\ Asks(more[i], c)
      /\ \A i : i \in Answers(more, c) <=> i \in 1..Len(more) /\ Tells(more[i], c)
      /\ DOMAIN messages = 1..Len(messages) /\ DOMAIN more = 1..Len(more)
  BY CallPositions DEF Grows
<1>3. ~Tells(more[first], c)
  BY DEF Tells, Asks, Record
<1>4. \A j : j \in Answers(more, c) <=> j \in (first + 1)..Len(more) /\ Tells(more[j], c)
  BY <1>1, <1>2, <1>3 DEF Unmentioned
<1>5. first \in Declarations(more, c)
  BY <1>2
<1>6. ASSUME NEW j \in (first + 1)..Len(more), Tells(more[j], c) PROVE Settled(more, c)
  <2>1. Answers(more, c) = {j} /\ j \in Answers(more, c) /\ first < j
    BY <1>1, <1>4, <1>6
  <2>2. \A k \in (first + 1)..j : k \in (first + 1)..Len(more)
    BY <1>1
  <2>3. \A k \in (first + 1)..j : more[k].kind # "assistant"
    BY <2>2
  <2> QED  BY <1>5, <2>1, <2>3, CallPositions DEF Grows
<1>7. ASSUME \A k \in (first + 1)..Len(more) : ~Tells(more[k], c) PROVE OpenLast(more, c)
  <2>1. Answers(more, c) = {}
    BY <1>4, <1>7
  <2>2. \A k \in DOMAIN more : more[k].kind = "assistant" => k <= first
    BY <1>1, <1>2
  <2> QED  BY <1>5, <2>1, <2>2 DEF OpenLast
<1> QED  BY <1>6, <1>7

\* One message more.
LEMMA AppendGrows ==
  ASSUME NEW messages \in Seq(Rec), NEW m \in Rec
  PROVE  LET more == Append(messages, m)
         IN  /\ Grows(messages, more) /\ Len(more) = Len(messages) + 1 /\ more[Len(more)] = m
             /\ \A k \in Added(messages, more) : k = Len(more)
BY DEF Grows, Added


\* One list of messages behind another.
LEMMA ConcatGrows ==
  ASSUME NEW s \in Seq(Rec), NEW t \in Seq(Rec)
  PROVE  /\ Grows(s, s \o t) /\ Len(s \o t) = Len(s) + Len(t)
         /\ \A k \in 1..Len(t) : Len(s) + k \in Added(s, s \o t) /\ (s \o t)[Len(s) + k] = t[k]
         /\ \A k \in Added(s, s \o t) : k - Len(s) \in 1..Len(t) /\ (s \o t)[k] = t[k - Len(s)]
<1>1. s \o t \in Seq(Rec) /\ Len(s \o t) = Len(s) + Len(t) /\ Len(s) \in Nat /\ Len(t) \in Nat
  OBVIOUS
<1>2. \A k \in 1..(Len(s) + Len(t)) : (s \o t)[k] = IF k <= Len(s) THEN s[k] ELSE t[k - Len(s)]
  OBVIOUS
<1>3. Grows(s, s \o t)
  BY <1>1, <1>2 DEF Grows
<1>. DEFINE u == s \o t
<1>4. \A k : k \in Added(s, u) <=> k \in (Len(s) + 1)..(Len(s) + Len(t))
  BY <1>1 DEF Added
<1>5. Len(u) = Len(s) + Len(t) /\ \A k \in 1..(Len(s) + Len(t)) : u[k] = IF k <= Len(s) THEN s[k] ELSE t[k - Len(s)]
  BY <1>1, <1>2
<1>. HIDE DEF u
<1>6. \A k \in 1..Len(t) : Len(s) + k \in Added(s, u) /\ u[Len(s) + k] = t[k]
  <2>1. TAKE k \in 1..Len(t)
  <2>2. Len(s) + k \in 1..(Len(s) + Len(t)) /\ ~(Len(s) + k <= Len(s)) /\ (Len(s) + k) - Len(s) = k
        /\ Len(s) + k \in (Len(s) + 1)..(Len(s) + Len(t))
    BY <1>1
  <2> QED  BY <1>4, <1>5, <2>2
<1>7. \A k \in Added(s, u) : k - Len(s) \in 1..Len(t) /\ u[k] = t[k - Len(s)]
  <2>1. TAKE k \in Added(s, u)
  <2>2. k \in (Len(s) + 1)..(Len(s) + Len(t))
    BY <1>4
  <2>3. k \in 1..(Len(s) + Len(t)) /\ ~(k <= Len(s)) /\ k - Len(s) \in 1..Len(t)
    BY <1>1, <2>2
  <2> QED  BY <1>5, <2>3
<1> QED  BY <1>3, <1>5, <1>6, <1>7 DEF u

-----------------------------------------------------------------------------
(* Where the repair of a log leaves a call.                                  *)

\* A response and, behind it, one synthetic result for each of its lost calls.
LEMMA RepairedForm ==
  ASSUME NEW record \in Rec, record.kind = "assistant", IsInjective(record.calls), NEW preserved,
         NEW c \in Call
  PROVE  LET R == Repaired(record, preserved)
         IN  /\ R \in Seq(Rec) /\ 1 \in 1..Len(R) /\ R[1] = record
             /\ \A k \in 2..Len(R) : R[k].kind = "synthetic"
             /\ (\E k \in 2..Len(R) : Tells(R[k], c))
                  <=> c \in Range(record.calls) /\ ~Tool(c) /\ c \notin preserved
             /\ \A j, k \in 2..Len(R) : Tells(R[j], c) /\ Tells(R[k], c) => j = k
<1>. DEFINE lost == Only(record.calls, {d \in Call : ~Has(log, "tool", d)} \ preserved)
            tail == [i \in DOMAIN lost |-> Record("synthetic", <<lost[i]>>)]
            R == Repaired(record, preserved)
<1>1. record.calls \in Seq(Call)
  BY DEF Rec
<1>2. /\ lost \in Seq(Call) /\ IsInjective(lost)
      /\ Range(lost) = Range(record.calls) \cap ({d \in Call : ~Has(log, "tool", d)} \ preserved)
  BY <1>1, OnlyProperties
<1>3. R \in Seq(Rec)
  BY RepairedProperties
<1>4. R = <<record>> \o tail
  BY DEF Repaired
<1>. HIDE DEF lost, R
<1>5. DOMAIN lost = 1..Len(lost) /\ Len(lost) \in Nat
  BY <1>2
<1>6. tail \in Seq(Rec) /\ Len(tail) = Len(lost)
  <2>1. \A i \in 1..Len(lost) : lost[i] \in Call /\ <<lost[i]>> \in Seq(Call)
    BY <1>2
  <2>2. \A i \in 1..Len(lost) : Record("synthetic", <<lost[i]>>) \in Rec
    BY <2>1 DEF Record, Rec
  <2>3. tail \in [1..Len(lost) -> Rec]
    BY <1>5, <2>2
  <2>. HIDE DEF tail
  <2>4. QED
    BY <1>5, <2>3, SeqDef
<1>7. \A k \in 1..Len(lost) : tail[k] = Record("synthetic", <<lost[k]>>)
  BY <1>5
<1>. HIDE DEF tail
<1>8. /\ Len(R) = 1 + Len(lost) /\ R[1] = record
      /\ \A k \in 2..Len(R) : k - 1 \in 1..Len(lost) /\ R[k] = tail[k - 1]
  <2>1. PICK s : s = <<record>>
    OBVIOUS
  <2>2. s \in Seq(Rec) /\ Len(s) = 1 /\ s[1] = record
    BY <2>1
  <2>3. /\ Grows(s, s \o tail) /\ Len(s \o tail) = Len(s) + Len(tail)
        /\ \A k \in 1..Len(tail) : (s \o tail)[Len(s) + k] = tail[k]
    BY <1>6, <2>2, ConcatGrows
  <2>4. R = s \o tail
    BY <1>4, <2>1
  <2>5. Len(R) = 1 + Len(lost) /\ R[1] = record
    <3>1. \A j \in 1..1 : R[j] = s[j]
      BY <2>2, <2>3, <2>4 DEF Grows
    <3> QED  BY <1>6, <2>2, <2>3, <2>4, <3>1
  <2>6. \A k \in 2..Len(R) : k - 1 \in 1..Len(lost) /\ R[k] = tail[k - 1]
    <3>1. TAKE k \in 2..Len(R)
    <3>2. k - 1 \in 1..Len(lost) /\ 1 + (k - 1) = k
      BY <1>5, <2>5
    <3> QED  BY <1>6, <2>2, <2>3, <2>4, <3>2
  <2> QED  BY <2>5, <2>6
<1>9. \A k \in 2..Len(R) : R[k] = Record("synthetic", <<lost[k - 1]>>)
  BY <1>7, <1>8
<1>10. \A k \in 2..Len(R) : R[k].kind = "synthetic"
  <2>1. \A d : Record("synthetic", d).kind = "synthetic"
    BY DEF Record
  <2> QED  BY <1>9, <2>1
<1>11. \A k \in 2..Len(R) : Tells(R[k], c) <=> lost[k - 1] = c
  <2>1. TAKE k \in 2..Len(R)
  <2>2. R[k] = Record("synthetic", <<lost[k - 1]>>)
    BY <1>9
  <2> QED  BY <2>2, RecordsDiffer DEF Tells
<1>12. \A d \in Range(lost) : \E k \in 2..Len(R) : lost[k - 1] = d
  <2>1. TAKE d \in Range(lost)
  <2>2. PICK i \in 1..Len(lost) : lost[i] = d
    BY <1>5 DEF Range
  <2>3. i + 1 \in 2..Len(R) /\ (i + 1) - 1 = i
    BY <1>5, <1>8
  <2> QED  BY <2>2, <2>3
<1>13. \A k \in 2..Len(R) : lost[k - 1] \in Range(lost)
  BY <1>5, <1>8 DEF Range
<1>14. c \in Range(lost) <=> c \in Range(record.calls) /\ ~Tool(c) /\ c \notin preserved
  BY <1>2 DEF Tool
<1>15. \A j, k \in 2..Len(R) : Tells(R[j], c) /\ Tells(R[k], c) => j = k
  <2>1. SUFFICES ASSUME NEW j \in 2..Len(R), NEW k \in 2..Len(R), Tells(R[j], c), Tells(R[k], c)
                 PROVE  j = k
    OBVIOUS
  <2>2. lost[j - 1] = lost[k - 1] /\ j - 1 \in DOMAIN lost /\ k - 1 \in DOMAIN lost
    BY <1>5, <1>8, <1>11, <2>1
  <2>3. j - 1 = k - 1
    BY <1>2, <2>2 DEF IsInjective
  <2> QED  BY <2>3
<1>16. (\E k \in 2..Len(R) : Tells(R[k], c))
         <=> c \in Range(record.calls) /\ ~Tool(c) /\ c \notin preserved
  BY <1>11, <1>12, <1>13, <1>14
<1>17. 1 \in 1..Len(R)
  BY <1>5, <1>8
<1> QED  BY <1>3, <1>8, <1>10, <1>15, <1>16, <1>17 DEF R

\* Where a call is issued and where its repair settles it: behind the issuer at once, at
\* its result, or not at all.
Stands(i, t, c, preserved) ==
  /\ i \in 1..(Len(log) + 1) /\ t \in i..(Len(log) + 1)
  /\ \A k \in DOMAIN log : Issues(k, c) <=> k = i
  /\ \A k \in DOMAIN log : log[k] = Record("tool", <<c>>) <=> k = t /\ i < t
  /\ \A k \in (i + 1)..t : k \in DOMAIN log => log[k].kind # "assistant"
  /\ i \in DOMAIN log => (i = t <=> ~Tool(c) /\ c \notin preserved)

\* Its place in the repair of the first n records.
Placed(messages, n, i, t, c) ==
  /\ n < i => Unmentioned(messages, c)
  /\ i <= n /\ n < t => OpenLast(messages, c)
  /\ t <= n => Settled(messages, c)

LEMMA PlaceKept ==
  ASSUME log \in Seq(Rec), LogInOrder, NEW preserved, NEW c \in Call, NEW i, NEW t,
         Stands(i, t, c, preserved), NEW n \in Nat, n + 1 <= Len(log),
         NEW messages \in Seq(Rec), Placed(messages, n, i, t, c)
  PROVE  Placed(messages \o Repaired(log[n + 1], preserved), n + 1, i, t, c)
<1>. DEFINE k == n + 1
            r == log[k]
            R == Repaired(r, preserved)
            more == messages \o R
<1>1. /\ Len(log) \in Nat /\ DOMAIN log = 1..Len(log) /\ k \in DOMAIN log /\ r \in Rec /\ k \in Nat
      /\ i \in Nat /\ t \in Nat /\ i <= t
  BY DEF Stands
<1>2. /\ Issues(k, c) <=> k = i
      /\ r = Record("tool", <<c>>) <=> k = t /\ i < t
      /\ i < k /\ k <= t => r.kind # "assistant"
      /\ k = i => (i = t <=> ~Tool(c) /\ c \notin preserved)
  <2>1. i < k /\ k <= t => k \in (i + 1)..t
    BY <1>1
  <2> QED  BY <1>1, <2>1 DEF Stands
<1>3. Issues(k, c) <=> Asks(r, c)
  BY DEF Issues, Asks
<1>4. R \in Seq(Rec)
  BY <1>1, RepairedProperties
<1>5. r.kind = "assistant" => IsInjective(r.calls)
  BY <1>1 DEF LogInOrder
<1>6. /\ n < i => Unmentioned(messages, c)
      /\ i <= n /\ n < t => OpenLast(messages, c)
      /\ t <= n => Settled(messages, c)
  BY DEF Placed
<1>7. Len(messages) \in Nat
  OBVIOUS
<1>8. r.kind \notin {"assistant", "tool"} => R = <<>>
  BY DEF Repaired
<1>9. r.kind = "tool" => R = <<r>>
  BY DEF Repaired
<1>10. r.kind = "assistant" =>
         /\ 1 \in 1..Len(R) /\ R[1] = r
         /\ \A j \in 2..Len(R) : R[j].kind = "synthetic"
         /\ (\E j \in 2..Len(R) : Tells(R[j], c))
              <=> c \in Range(r.calls) /\ ~Tool(c) /\ c \notin preserved
         /\ \A j, l \in 2..Len(R) : Tells(R[j], c) /\ Tells(R[l], c) => j = l
  BY <1>1, <1>5, RepairedForm
<1>11. /\ Grows(messages, more) /\ Len(more) = Len(messages) + Len(R)
       /\ \A j \in 1..Len(R) : Len(messages) + j \in Added(messages, more) /\ more[Len(messages) + j] = R[j]
       /\ \A j \in Added(messages, more) : j - Len(messages) \in 1..Len(R) /\ more[j] = R[j - Len(messages)]
  BY <1>4, ConcatGrows
<1>12. k = n + 1 /\ Len(R) \in Nat
  BY <1>4
<1>. HIDE DEF R, more, k
<1>13. CASE r.kind \notin {"assistant", "tool"}
  <2>1. more = messages
    BY <1>8, <1>13 DEF more
  <2>2. k # i /\ k # t
    BY <1>1, <1>2, <1>3, <1>13 DEF Asks, Record
  <2> QED  BY <1>1, <1>6, <1>12, <2>1, <2>2 DEF Placed, more, R, k
<1>14. CASE r.kind = "tool" /\ r = Record("tool", <<c>>)
  <2>1. k = t /\ i <= n /\ n < t
    BY <1>1, <1>2, <1>12, <1>14
  <2>2. R = <<r>> /\ Len(<<r>>) = 1 /\ <<r>>[1] = r /\ 1 \in 1..1
    BY <1>9, <1>14
  <2>3. Len(more) = Len(messages) + 1 /\ more[Len(more)] = r
    BY <1>11, <2>2
  <2>4. Tells(r, c)
    BY <1>14 DEF Tells
  <2>5. Settled(more, c)
    BY <1>6, <1>11, <2>1, <2>3, <2>4, AnswerGrowth
  <2> QED  BY <1>1, <2>1, <2>5 DEF Placed, more, R, k
<1>15. CASE r.kind = "tool" /\ r # Record("tool", <<c>>)
  <2>1. k # i /\ k # t
    BY <1>1, <1>2, <1>3, <1>15 DEF Asks
  <2>2. R = <<r>> /\ Len(<<r>>) = 1 /\ <<r>>[1] = r /\ \A j \in 1..1 : j = 1
    BY <1>9, <1>15
  <2>3. \A j \in Added(messages, more) : more[j] = r
    BY <1>11, <2>2
  <2>4. ~Asks(r, c) /\ ~Tells(r, c)
    BY <1>15 DEF Asks, Tells, Record
  <2>5. /\ Unmentioned(messages, c) => Unmentioned(more, c)
        /\ OpenLast(messages, c) => OpenLast(more, c)
        /\ Settled(messages, c) => Settled(more, c)
    BY <1>11, <1>15, <2>3, <2>4, QuietGrowth
  <2> QED  BY <1>1, <1>6, <1>12, <2>1, <2>5 DEF Placed, more, R, k
<1>16. CASE r.kind = "assistant" /\ c \in Range(r.calls)
  <2>1. k = i /\ n < i
    BY <1>1, <1>2, <1>3, <1>12, <1>16 DEF Asks
  <2>. DEFINE first == Len(messages) + 1
  <2>2. first \in 1..Len(more) /\ more[first] = r /\ Asks(r, c)
    BY <1>7, <1>10, <1>11, <1>12, <1>16 DEF Asks
  <2>3. /\ \A j \in (first + 1)..Len(more) :
             /\ j - Len(messages) \in 2..Len(R) /\ more[j] = R[j - Len(messages)]
             /\ j = Len(messages) + (j - Len(messages))
        /\ \A j \in 2..Len(R) : Len(messages) + j \in (first + 1)..Len(more) /\ more[Len(messages) + j] = R[j]
    <3>1. \A j \in (first + 1)..Len(more) : j \in Added(messages, more) /\ j - Len(messages) >= 2 /\ j \in Int
      BY <1>7, <1>11, <1>12 DEF Added
    <3>2. \A j \in 2..Len(R) : j \in 1..Len(R) /\ Len(messages) + j \in (first + 1)..Len(more)
      BY <1>7, <1>11, <1>12
    <3> QED  BY <1>7, <1>11, <1>12, <3>1, <3>2
  <2>4. \A j \in (first + 1)..Len(more) : more[j].kind # "assistant"
    BY <1>10, <1>16, <2>3
  <2>5. ASSUME NEW j \in (first + 1)..Len(more), NEW l \in (first + 1)..Len(more),
               Tells(more[j], c), Tells(more[l], c)
        PROVE  j = l
    <3>1. j - Len(messages) = l - Len(messages)
      BY <1>10, <1>16, <2>3, <2>5
    <3> QED  BY <1>7, <3>1
  <2>6. Unmentioned(messages, c) /\ first = Len(messages) + 1
    BY <1>6, <2>1
  <2>. HIDE DEF first
  <2>7. /\ (\E j \in (first + 1)..Len(more) : Tells(more[j], c)) => Settled(more, c)
        /\ (\A j \in (first + 1)..Len(more) : ~Tells(more[j], c)) => OpenLast(more, c)
    <3>1. Asks(more[first], c)
      BY <2>2
    <3> QED  BY <1>11, <2>2, <2>4, <2>5, <2>6, <3>1, ResponseGrowth
  <2>8. (\E j \in (first + 1)..Len(more) : Tells(more[j], c)) <=> (\E j \in 2..Len(R) : Tells(R[j], c))
    BY <2>3
  <2>9. i = t => Settled(more, c)
    BY <1>2, <1>10, <1>16, <2>1, <2>7, <2>8
  <2>10. i # t => OpenLast(more, c)
    BY <1>2, <1>10, <1>16, <2>1, <2>7, <2>8
  <2> QED  BY <1>1, <2>1, <2>9, <2>10 DEF Placed, more, R, k
<1>17. CASE r.kind = "assistant" /\ c \notin Range(r.calls)
  <2>1. k # i /\ k # t /\ (n < i \/ t <= n)
    <3>1. k # i
      BY <1>2, <1>3, <1>17 DEF Asks
    <3>2. ~(i < k /\ k <= t)
      BY <1>2, <1>17
    <3> QED  BY <1>1, <1>12, <3>1, <3>2
  <2>2. \A j \in 1..Len(R) : ~Asks(R[j], c) /\ ~Tells(R[j], c)
    <3>1. \A j \in 1..Len(R) : j = 1 \/ j \in 2..Len(R)
      BY <1>12
    <3>2. ~Asks(r, c) /\ ~Tells(r, c)
      BY <1>17 DEF Asks, Tells, Record
    <3>3. \A j \in 2..Len(R) : ~Asks(R[j], c) /\ ~Tells(R[j], c)
      BY <1>10, <1>17 DEF Asks
    <3> QED  BY <1>10, <1>17, <3>1, <3>2, <3>3
  <2>3. \A j \in Added(messages, more) : ~Asks(more[j], c) /\ ~Tells(more[j], c)
    BY <1>11, <2>2
  <2>4. /\ Unmentioned(messages, c) => Unmentioned(more, c)
        /\ Settled(messages, c) => Settled(more, c)
    BY <1>11, <2>3, QuietGrowth
  <2> QED  BY <1>1, <1>6, <1>12, <2>1, <2>4 DEF Placed, more, R, k
<1> QED  BY <1>13, <1>14, <1>15, <1>16, <1>17


\* The place of a call in the repair of the whole log.
LEMMA RepairPlaces ==
  ASSUME log \in Seq(Rec), LogInOrder, NEW preserved, NEW c \in Call, NEW i, NEW t,
         Stands(i, t, c, preserved)
  PROVE  Repair(preserved) \in Seq(Rec) /\ Placed(Repair(preserved), Len(log), i, t, c)
<1>1. PICK repaired \in [0..Len(log) -> Seq(Rec)] : Repairs(repaired, preserved)
  BY RepairPrefixes
<1>2. /\ repaired[0] = <<>> /\ Repair(preserved) = repaired[Len(log)]
      /\ \A n \in 1..Len(log) : repaired[n] = repaired[n - 1] \o Repaired(log[n], preserved)
      /\ Len(log) \in Nat
  BY <1>1 DEF Repairs
<1>. DEFINE Right == {n \in Nat : n <= Len(log) => Placed(repaired[n], n, i, t, c)}
<1>3. 0 \in Right
  <2>1. i \in Nat /\ t \in Nat /\ i > 0 /\ t > 0
    BY <1>2 DEF Stands
  <2>2. Unmentioned(<<>>, c)
    BY DEF Unmentioned, Declarations, Answers
  <2> QED  BY <1>2, <2>1, <2>2 DEF Placed
<1>4. ASSUME NEW n \in Nat, n \in Right PROVE n + 1 \in Right
  <2>. SUFFICES ASSUME n + 1 <= Len(log) PROVE Placed(repaired[n + 1], n + 1, i, t, c)
    OBVIOUS
  <2>1. n + 1 \in 1..Len(log) /\ (n + 1) - 1 = n /\ repaired[n] \in Seq(Rec) /\ n <= Len(log)
    BY <1>2
  <2>2. Placed(repaired[n], n, i, t, c)
    BY <1>4, <2>1
  <2>3. repaired[n + 1] = repaired[n] \o Repaired(log[n + 1], preserved)
    BY <1>2, <2>1
  <2> QED  BY <2>1, <2>2, <2>3, PlaceKept
<1>5. \A n \in Nat : n \in Right
  <2>. HIDE DEF Right
  <2> QED  BY <1>3, <1>4, EveryNatural
<1> QED  BY <1>1, <1>2, <1>5

\* What a repair settles, and what it leaves open.
LEMMA RepairPairs ==
  ASSUME log \in Seq(Rec), LogInOrder, LogPairs, NEW preserved
  PROVE  /\ Repair(preserved) \in Seq(Rec)
         /\ \A c \in Call : ~Tool(c) /\ c \notin preserved => Settled(Repair(preserved), c)
         /\ \A c \in Call : Tool(c) /\ Once(c) /\ c \notin stale => Settled(Repair(preserved), c)
         /\ \A c \in Call : ~Tool(c) /\ c \in preserved /\ InLatest(c) => OpenLast(Repair(preserved), c)
<1>. DEFINE messages == Repair(preserved)
<1>1. messages \in Seq(Rec)
  BY RepairProperties
<1>2. Len(log) \in Nat /\ DOMAIN log = 1..Len(log)
  OBVIOUS
<1>3. \A i, j \in DOMAIN log, c \in Call : Issues(i, c) /\ Issues(j, c) => i = j
  BY DEF LogInOrder
<1>4. \A c \in Call : ~Tool(c) => \A k \in DOMAIN log : log[k] # Record("tool", <<c>>)
  BY DEF Tool, Has
<1>5. \A c : Unmentioned(messages, c) => Settled(messages, c)
  BY Zenon DEF Settled, PairedIn, Unmentioned
<1>6. ASSUME NEW c \in Call, ~Tool(c), c \notin preserved PROVE Settled(messages, c)
  <2>1. CASE Declared(c)
    <3>1. PICK i \in DOMAIN log : Issues(i, c)
      BY <2>1 DEF Declared
    <3>2. Stands(i, i, c, preserved)
      BY <1>2, <1>3, <1>4, <1>6, <3>1 DEF Stands
    <3>3. Placed(messages, Len(log), i, i, c)
      BY <3>2, RepairPlaces
    <3> QED  BY <1>2, <3>3 DEF Placed
  <2>2. CASE ~Declared(c)
    <3>. DEFINE i == Len(log) + 1
    <3>1. Stands(i, i, c, preserved)
      BY <1>2, <1>4, <1>6, <2>2 DEF Stands, Declared
    <3>2. Placed(messages, Len(log), i, i, c)
      BY <3>1, RepairPlaces
    <3> QED  BY <1>2, <1>5, <3>2 DEF Placed
  <2> QED  BY <2>1, <2>2
<1>7. ASSUME NEW c \in Call, Tool(c), Once(c), c \notin stale PROVE Settled(messages, c)
  <2>1. PICK i \in DOMAIN log, j \in DOMAIN log :
               /\ Issues(i, c) /\ log[j] = Record("tool", <<c>>) /\ i < j
               /\ \A k \in (i + 1)..j : log[k].kind # "assistant"
    BY <1>7 DEF LogPairs
  <2>2. \A k \in DOMAIN log : log[k] = Record("tool", <<c>>) <=> k = j
    BY <1>7, <2>1 DEF Once, Results
  <2>3. Stands(i, j, c, preserved)
    BY <1>2, <1>3, <1>7, <2>1, <2>2 DEF Stands
  <2>4. Placed(messages, Len(log), i, j, c)
    BY <2>3, RepairPlaces
  <2> QED  BY <1>2, <2>4 DEF Placed
<1>8. ASSUME NEW c \in Call, ~Tool(c), c \in preserved, InLatest(c) PROVE OpenLast(messages, c)
  <2>1. PICK i \in DOMAIN log : Latest(i) /\ Issues(i, c)
    BY <1>8 DEF InLatest
  <2>. DEFINE t == Len(log) + 1
  <2>2. \A k \in (i + 1)..t : k \in DOMAIN log => log[k].kind # "assistant"
    <3>1. \A k \in (i + 1)..t : ~(k <= i)
      BY <1>2
    <3> QED  BY <2>1, <3>1 DEF Latest
  <2>3. Stands(i, t, c, preserved)
    BY <1>2, <1>3, <1>4, <1>8, <2>1, <2>2 DEF Stands
  <2>4. Placed(messages, Len(log), i, t, c)
    BY <2>3, RepairPlaces
  <2> QED  BY <1>2, <2>4 DEF Placed
<1> QED  BY <1>1, <1>6, <1>7, <1>8

-----------------------------------------------------------------------------
(* What a step leaves of the log's pairs and of the exceptions.              *)

\* The log grows; a result is the only new record, of a call of the last response, of a
\* stale one or of a gate decided before.
LogGrows ==
  /\ Grows(log, log') /\ stale' = stale
  /\ \A k \in Added(log, log'), c \in Call :
       log'[k] = Record("tool", <<c>>) =>
         (k = Len(log') /\ k = Len(log) + 1 /\ InLatest(c)) \/ c \in stale \/ Tool(c)

LEMMA LogPairsKept ==
  ASSUME LogPairs, LogGrows
  PROVE  LogPairs' /\ \A c : Once(c)' => Once(c)
<1>. DEFINE more == log'
<1>0. PICK new : new = log'
  OBVIOUS
<1>1. /\ log \in Seq(Rec) /\ new \in Seq(Rec) /\ Len(log) \in Nat /\ Len(new) \in Nat /\ Len(log) <= Len(new)
      /\ \A i \in 1..Len(log) : new[i] = log[i] /\ i \in 1..Len(new)
      /\ \A i \in 1..Len(new) : i \in 1..Len(log) \/ i \in Added(log, new)
      /\ DOMAIN log = 1..Len(log) /\ DOMAIN new = 1..Len(new) /\ stale' = stale
      /\ \A k \in Added(log, new), c \in Call :
           new[k] = Record("tool", <<c>>) =>
             (k = Len(new) /\ k = Len(log) + 1 /\ InLatest(c)) \/ c \in stale \/ Tool(c)
  BY <1>0 DEF LogGrows, Grows, Added
<1>2. \A c : Once(c)' <=> \A i, j \in DOMAIN new : new[i] = Record("tool", <<c>>) /\ new[j] = Record("tool", <<c>>) => i = j
  BY <1>0 DEF Once, Results
<1>3. \A c : Once(c) <=> \A i, j \in DOMAIN log : log[i] = Record("tool", <<c>>) /\ log[j] = Record("tool", <<c>>) => i = j
  BY DEF Once, Results
<1>4. \A c : Once(c)' => Once(c)
  BY <1>1, <1>2, <1>3
<1>5. \A c : Tool(c)' <=> \E i \in DOMAIN new : new[i] = Record("tool", <<c>>)
  BY <1>0 DEF Tool, Has
<1>6. \A c : Tool(c) <=> \E i \in DOMAIN log : log[i] = Record("tool", <<c>>)
  BY DEF Tool, Has
<1>7. \A i, c : Issues(i, c)' <=> new[i].kind = "assistant" /\ c \in Range(new[i].calls)
  BY <1>0 DEF Issues
<1>8. ASSUME NEW c \in Call, Tool(c)', Once(c)', c \notin stale
      PROVE  \E i, j \in DOMAIN new : /\ new[i].kind = "assistant" /\ c \in Range(new[i].calls)
                                      /\ new[j] = Record("tool", <<c>>) /\ i < j
                                      /\ \A k \in (i + 1)..j : new[k].kind # "assistant"
  <2>1. CASE Tool(c)
    <3>1. PICK i \in DOMAIN log, j \in DOMAIN log :
                 /\ Issues(i, c) /\ log[j] = Record("tool", <<c>>) /\ i < j
                 /\ \A k \in (i + 1)..j : log[k].kind # "assistant"
      BY <1>4, <1>8, <2>1 DEF LogPairs
    <3>2. \A k \in (i + 1)..j : k \in 1..Len(log)
      BY <1>1
    <3>3. \A k \in (i + 1)..j : new[k].kind # "assistant"
      BY <1>1, <3>1, <3>2
    <3>4. i \in DOMAIN new /\ j \in DOMAIN new /\ new[i] = log[i] /\ new[j] = log[j]
      BY <1>1
    <3> QED  BY <3>1, <3>3, <3>4 DEF Issues
  <2>2. CASE ~Tool(c)
    <3>1. PICK j \in DOMAIN new : new[j] = Record("tool", <<c>>)
      BY <1>5, <1>8
    <3>2. j \in Added(log, new)
      BY <1>1, <1>6, <2>2, <3>1
    <3>3. j = Len(new) /\ j = Len(log) + 1 /\ InLatest(c)
      BY <1>1, <1>8, <2>2, <3>1, <3>2
    <3>4. PICK i \in DOMAIN log : Latest(i) /\ Issues(i, c)
      BY <3>3 DEF InLatest
    <3>5. i \in DOMAIN new /\ new[i] = log[i] /\ i < j
      BY <1>1, <3>3
    <3>6. ASSUME NEW k \in (i + 1)..j PROVE new[k].kind # "assistant"
      <4>1. CASE k = j
        BY <3>1, <4>1 DEF Record
      <4>2. CASE k # j
        <5>1. k \in 1..Len(log) /\ ~(k <= i)
          BY <1>1, <3>3, <4>2
        <5> QED  BY <1>1, <3>4, <5>1 DEF Latest
      <4> QED  BY <4>1, <4>2
    <3> QED  BY <3>1, <3>4, <3>5, <3>6 DEF Issues
  <2> QED  BY <2>1, <2>2
<1>9. LogPairs'
  <2>1. \A c \in Call : Tool(c)' /\ Once(c)' /\ c \notin stale' =>
          \E i, j \in DOMAIN log' : /\ Issues(i, c)' /\ log'[j] = Record("tool", <<c>>) /\ i < j
                                    /\ \A k \in (i + 1)..j : log'[k].kind # "assistant"
    BY <1>0, <1>1, <1>7, <1>8
  <2> QED  BY <2>1 DEF LogPairs
<1> QED  BY <1>4, <1>9

\* Troubles stay in the books.
MoreUsed ==
  used.troubles + used.crashes # 0 => used'.troubles + used'.crashes # 0

\* An exception ends with the result of an interactive call.
LEMMA ExceptedKept ==
  ASSUME NEW c, MoreUsed, stale \subseteq stale', Once(c)' => Once(c), Tool(c)' => Tool(c), Excepted(c)
  PROVE  Excepted(c)'
BY DEF Excepted, MoreUsed


\* A call that nothing has issued is not mentioned.
LEMMA NotIssuedNotMentioned ==
  ASSUME NEW messages, FromLog(messages), NEW c, ~Declared(c)
  PROVE  Unmentioned(messages, c)
<1>1. ASSUME NEW i \in Declarations(messages, c) PROVE FALSE
  <2>1. i \in DOMAIN messages /\ messages[i].kind = "assistant" /\ c \in Range(messages[i].calls)
    BY DEF Declarations
  <2>2. messages[i] \in Range(log)
    BY <2>1 DEF FromLog
  <2> QED  BY <2>1, <2>2 DEF Range, Declared, Issues
<1>2. ASSUME NEW i \in Answers(messages, c) PROVE FALSE
  <2>1. i \in DOMAIN messages /\ messages[i].kind # "assistant" /\ messages[i].calls = <<c>>
    BY DEF Answers, Record
  <2>2. PICK d \in Call : messages[i].calls = <<d>> /\ Declared(d)
    BY <2>1 DEF FromLog
  <2>3. <<c>>[1] = c /\ <<d>>[1] = d
    OBVIOUS
  <2> QED  BY <2>1, <2>2, <2>3
<1> QED  BY <1>1, <1>2 DEF Unmentioned

\* What is not mentioned is settled.
LEMMA UnmentionedSettled ==
  ASSUME NEW messages, NEW c, Unmentioned(messages, c)
  PROVE  Settled(messages, c)
BY Zenon DEF Settled, PairedIn, Unmentioned

\* Pairs outlive the exceptions that end, if those calls are settled otherwise.
LEMMA PairsKept ==
  ASSUME NEW messages, NEW pending, Pairs(messages, pending), stale \subseteq stale',
         \A c \in Call : Excepted(c) => Excepted(c)' \/ Settled(messages, c) \/ c \in pending
  PROVE  Pairs(messages, pending)'
BY DEF Pairs

\* A turn goes on: what it does not touch stays paired.
LEMMA TurnKeepsPairs ==
  ASSUME IInv, PairInv, turn.kind # "none", ~At("resolve"),
         turn'.kind = turn.kind, turn'.stage # "resolve", turn'.panel = turn.panel,
         conversation' = conversation, panel' = panel, stale' = stale, MoreUsed,
         LogPairs', TurnInOrder', OfLatest(Work(turn))',
         ~turn'.thrown => Pairs(turn.messages, Work(turn))',
         \A c \in Call : Excepted(c) => Excepted(c)' \/ c \in Work(turn),
         \A c \in Work(turn') : c \in Work(turn) \/ ~Declared(c)
  PROVE  PairInv'
<1>1. panel = NoPanel /\ FromLog(conversation) /\ FromLog(turn.panel.messages)
  BY DEF IInv, Conversations
<1>2. \A c \in Work(turn) :
        /\ turn.kind = "prompt" => Unmentioned(conversation, c)
        /\ Continuation => c \in Pending(turn.panel) \/ Unmentioned(turn.panel.messages, c)
  BY DEF PairInv
<1>3. \A c \in Work(turn') :
        /\ turn.kind = "prompt" => Unmentioned(conversation, c)
        /\ Continuation => c \in Pending(turn.panel) \/ Unmentioned(turn.panel.messages, c)
  BY <1>1, <1>2, NotIssuedNotMentioned
<1>4. PICK m, p : m = conversation /\ p = turn.panel
  OBVIOUS
<1>5. conversation' = m /\ turn'.panel = p
  BY <1>4
<1>6. turn.kind = "prompt" => Pairs(m, {})'
  <2>1. SUFFICES ASSUME turn.kind = "prompt" PROVE Pairs(m, {})'
    OBVIOUS
  <2>2. Pairs(m, {})
    BY <1>1, <1>4, <2>1 DEF PairInv
  <2>3. \A c \in Call : Excepted(c) => Excepted(c)' \/ Settled(m, c) \/ c \in {}
    BY <1>2, <1>4, <2>1, UnmentionedSettled
  <2> QED  BY <2>2, <2>3, PairsKept
<1>7. Continuation => Pairs(p.messages, Pending(p))'
  <2>1. SUFFICES ASSUME Continuation PROVE Pairs(p.messages, Pending(p))'
    OBVIOUS
  <2>2. Pairs(p.messages, Pending(p))
    BY <1>4, <2>1 DEF PairInv
  <2>3. PICK q, w : q = p.messages /\ w = Pending(p)
    OBVIOUS
  <2>4. \A c \in Call : Excepted(c) => Excepted(c)' \/ Settled(q, c) \/ c \in w
    BY <1>2, <1>4, <2>1, <2>3, UnmentionedSettled
  <2>5. Pairs(q, w)'
    BY <2>2, <2>3, <2>4, PairsKept
  <2> QED  BY <2>3, <2>5
<1>8. stale' # {} => used'.troubles + used'.crashes # 0
  BY DEF PairInv, MoreUsed
<1>9. panel' = NoPanel /\ turn'.kind # "none" /\ ~(At("resolve")') /\ (Continuation' <=> Continuation)
  BY <1>1 DEF At, Continuation
<1>10. /\ turn'.kind \in {"none", "prompt"} => Pairs(conversation, {})'
       /\ Continuation' => Pairs(turn.panel.messages, Pending(turn.panel))'
  BY <1>5, <1>6, <1>7, <1>9
<1>11. \A c \in Work(turn') :
         /\ turn'.kind = "prompt" => Unmentioned(conversation', c)
         /\ Continuation' => c \in Pending(turn'.panel) \/ Unmentioned(turn'.panel.messages, c)
  BY <1>3, <1>9
<1> QED  BY <1>8, <1>9, <1>10, <1>11 DEF PairInv


\* What goes on after an exception is only the recording of results.
LEMMA GoOnThrown ==
  ASSUME NEW t \in TurnRec
  PROVE  /\ GoOn(t).thrown = t.thrown
         /\ t.thrown /\ t.hosts = <<>> => GoOn(t).stage \in {"record", "thrown"}
<1>. DEFINE stage == CASE t.hosts # <<>> -> "host"
       [] t.hosts = <<>> /\ t.running # <<>> -> "record"
       [] t.hosts = <<>> /\ t.running = <<>> /\ t.thrown -> "thrown"
       [] t.hosts = <<>> /\ t.running = <<>> /\ ~t.thrown /\ t.redirects # <<>> -> "redirect"
       [] t.hosts = <<>> /\ t.running = <<>> /\ ~t.thrown /\ t.redirects = <<>> /\ t.ask # <<>> -> "ask"
       [] OTHER -> "provider"
<1>1. GoOn(t) = [t EXCEPT !.stage = stage]
  BY DEF GoOn
<1>2. t.thrown /\ t.hosts = <<>> => stage \in {"record", "thrown"}
  <2>1. t.thrown \in BOOLEAN
    BY DEF TurnRec
  <2> QED  BY <2>1
<1>. HIDE DEF stage
<1>3. GoOn(t).stage = stage /\ GoOn(t).thrown = t.thrown
  BY <1>1 DEF TurnRec
<1> QED  BY <1>2, <1>3

\* Records that answer nothing.
LEMMA NothingAnswered ==
  ASSUME log \in Seq(Rec), NEW notes \in Seq(Rec), log' = log \o notes, stale' = stale,
         \A k \in 1..Len(notes) : notes[k].kind # "tool"
  PROVE  LogGrows /\ \A c : Tool(c)' => Tool(c)
<1>0. PICK new : new = log \o notes
  OBVIOUS
<1>1. /\ Grows(log, new) /\ \A k \in Added(log, new) : k - Len(log) \in 1..Len(notes) /\ new[k] = notes[k - Len(log)]
  BY <1>0, ConcatGrows
<1>2. \A k \in Added(log, new) : \A c : new[k] # Record("tool", <<c>>)
  BY <1>1 DEF Record
<1>3. LogGrows
  BY <1>0, <1>1, <1>2 DEF LogGrows
<1>4. \A i \in DOMAIN new : i \in Added(log, new) \/ (i \in DOMAIN log /\ new[i] = log[i])
  BY <1>1 DEF Grows, Added
<1>5. \A c : Tool(c)' <=> \E i \in DOMAIN new : new[i] = Record("tool", <<c>>)
  BY <1>0 DEF Tool, Has
<1>6. \A c : Tool(c)' => Tool(c)
  BY <1>2, <1>4, <1>5 DEF Tool, Has
<1> QED  BY <1>3, <1>6

LEMMA NothingAppended ==
  ASSUME log \in Seq(Rec), log' = log, stale' = stale
  PROVE  LogGrows /\ \A c : Tool(c)' => Tool(c)
<1>1. <<>> \in Seq(Rec) /\ log \o <<>> = log /\ Len(<<>>) = 0
  OBVIOUS
<1>2. PICK notes : notes = <<>>
  OBVIOUS
<1>3. notes \in Seq(Rec) /\ log' = log \o notes /\ \A k \in 1..Len(notes) : notes[k].kind # "tool"
  BY <1>1, <1>2
<1> QED  BY <1>3, NothingAnswered

LEMMA OneAppended ==
  ASSUME log \in Seq(Rec), NEW m \in Rec, log' = Append(log, m), stale' = stale, m.kind # "tool"
  PROVE  LogGrows /\ \A c : Tool(c)' => Tool(c)
<1>1. PICK notes : notes = <<m>>
  OBVIOUS
<1>2. notes \in Seq(Rec) /\ Len(notes) = 1 /\ notes[1] = m /\ log \o notes = Append(log, m)
  BY <1>1
<1>3. \A k \in 1..Len(notes) : notes[k].kind # "tool"
  BY <1>2
<1> QED  BY <1>2, <1>3, NothingAnswered

LEMMA StartsAppended ==
  ASSUME log \in Seq(Rec), NEW calls \in Seq(Call), log' = log \o StartRecords(calls), stale' = stale
  PROVE  LogGrows /\ \A c : Tool(c)' => Tool(c)
<1>. DEFINE processes == Only(calls, Process)
            notes == [i \in DOMAIN processes |-> Record("started", <<processes[i]>>)]
<1>1. StartRecords(calls) = notes
  BY DEF StartRecords
<1>2. processes \in Seq(Call)
  BY OnlyProperties
<1>. HIDE DEF processes
<1>3. DOMAIN processes = 1..Len(processes) /\ Len(processes) \in Nat
  BY <1>2
<1>4. \A i \in 1..Len(processes) : processes[i] \in Call /\ <<processes[i]>> \in Seq(Call)
  BY <1>2
<1>5. \A i \in 1..Len(processes) : Record("started", <<processes[i]>>) \in Rec
  BY <1>4 DEF Record, Rec
<1>6. notes \in [1..Len(processes) -> Rec]
  BY <1>3, <1>5
<1>7. \A k \in 1..Len(processes) : notes[k] = Record("started", <<processes[k]>>)
  BY <1>3
<1>. HIDE DEF notes
<1>8. notes \in Seq(Rec) /\ Len(notes) = Len(processes)
  BY <1>3, <1>6, SeqDef
<1>9. \A k \in 1..Len(notes) : notes[k].kind # "tool"
  <2>1. \A d : Record("started", d).kind = "started"
    BY DEF Record
  <2> QED  BY <1>7, <1>8, <2>1
<1> QED  BY <1>1, <1>8, <1>9, NothingAnswered

\* The exceptions outlive a step that answers nothing.
LEMMA ExceptionsKept ==
  ASSUME PairInv, LogGrows, \A c : Tool(c)' => Tool(c), MoreUsed
  PROVE  LogPairs' /\ \A c : Excepted(c) => Excepted(c)'
<1>1. LogPairs' /\ \A c : Once(c)' => Once(c)
  BY LogPairsKept DEF PairInv
<1>2. stale \subseteq stale'
  BY DEF LogGrows
<1> QED  BY <1>1, <1>2, ExceptedKept

-----------------------------------------------------------------------------
(* Steps that answer nothing.                                                *)

\* A turn that goes on with the same messages.
LEMMA QuietTurnKeepsPairs ==
  ASSUME IInv, PairInv, turn.kind # "none", ~At("resolve"), LogGrows, \A c : Tool(c)' => Tool(c),
         StartsOnly, MoreUsed, conversation' = conversation, panel' = panel,
         turn'.kind = turn.kind, turn'.panel = turn.panel, turn'.messages = turn.messages,
         turn'.deferred = <<>>, turn'.stage # "resolve", Work(turn') \subseteq Work(turn),
         turn'.thrown => turn'.stage \in {"record", "thrown"},
         ~turn'.thrown => ~turn.thrown /\ Work(turn') = Work(turn)
  PROVE  PairInv'
<1>1. LogPairs' /\ \A c : Excepted(c) => Excepted(c)'
  BY ExceptionsKept
<1>2. TurnInOrder'
  BY DEF PairInv, TurnInOrder
<1>3. stale' = stale
  BY DEF LogGrows
<1>4. OfLatest(Work(turn)) /\ (~turn.thrown => Pairs(turn.messages, Work(turn)))
  BY DEF PairInv
<1>5. Work(turn) \subseteq Call
  BY DEF IInv, Types, TurnRec, Work, Range
<1>6. OfLatest(Work(turn))'
  <2>1. \A c \in Work(turn') : InLatest(c)' \/ c \in stale' \/ (c \in Gate /\ Tool(c)')
    BY <1>3, <1>4, <1>5 DEF OfLatest, StartsOnly
  <2> QED  BY <2>1 DEF OfLatest
<1>7. ~turn'.thrown => Pairs(turn.messages, Work(turn))'
  <2>1. SUFFICES ASSUME ~turn'.thrown PROVE Pairs(turn.messages, Work(turn))'
    OBVIOUS
  <2>2. PICK m, w : m = turn.messages /\ w = Work(turn)
    OBVIOUS
  <2>3. turn'.messages = m /\ Work(turn') = w
    BY <2>1, <2>2
  <2>4. Pairs(m, w)'
    BY <1>1, <1>3, <1>4, <2>1, <2>2, PairsKept
  <2> QED  BY <2>3, <2>4
<1> QED  BY <1>1, <1>2, <1>3, <1>6, <1>7, TurnKeepsPairs

\* StartAgents
LEMMA StartAgentsKeepsPairs == ASSUME IInv, PairInv, StartAgents PROVE PairInv'
<1>1. /\ turn \in TurnRec /\ Shape(turn) /\ Types /\ At("start") /\ turn' = GoOn(turn)
      /\ log' = log /\ conversation' = conversation /\ panel' = panel
      /\ stale' = stale /\ used' = used
  BY DEF IInv, Types, StartAgents, Becomes
<1>2. turn.stage = "start" /\ turn.deferred = <<>> /\ turn.kind # "none" /\ ~turn.thrown
  BY <1>1 DEF At, Shape, PairInv, TurnInOrder
<1>3. /\ turn'.kind = turn.kind /\ turn'.panel = turn.panel /\ turn'.messages = turn.messages
      /\ turn'.deferred = <<>> /\ turn'.stage # "resolve" /\ turn'.thrown = turn.thrown
      /\ Work(turn') = Work(turn)
  BY <1>1, <1>2, GoOnProperties, GoOnThrown, SameLists
<1>4. LogGrows /\ (\A c : Tool(c)' => Tool(c)) /\ StartsOnly /\ MoreUsed
  BY <1>1, NothingAppended, SameLog DEF Types, MoreUsed
<1>5. ~At("resolve")
  BY <1>2 DEF At
<1> QED  BY <1>1, <1>2, <1>3, <1>4, <1>5, QuietTurnKeepsPairs

\* RunHost
LEMMA RunHostKeepsPairs == ASSUME IInv, PairInv, RunHost PROVE PairInv'
<1>. DEFINE h == Head(turn.hosts)
<1>1. /\ turn \in TurnRec /\ Shape(turn) /\ Lists(turn) /\ WorkAgrees /\ Types /\ LogInOrder
      /\ At("host") /\ log' = log \o StartRecords(<<h>>)
      /\ turn' = [turn EXCEPT !.stage = "hostRuns"] /\ conversation' = conversation /\ panel' = panel
      /\ stale' = stale /\ used' = used
  BY DEF IInv, Types, RunHost, Becomes
<1>2. turn.stage = "host" /\ turn.hosts # <<>> /\ turn.hosts \in Seq(Call) /\ turn.deferred = <<>>
      /\ turn.kind # "none" /\ ~turn.thrown
  BY <1>1 DEF At, Shape, TurnRec, PairInv, TurnInOrder
<1>3. h \in Call /\ h \in Range(turn.hosts)
  BY <1>2, TailRange
<1>4. Declared(h)
  BY <1>1, <1>3 DEF WorkAgrees, Work
<1>. HIDE DEF h
<1>5. /\ turn'.kind = turn.kind /\ turn'.panel = turn.panel /\ turn'.messages = turn.messages
      /\ turn'.deferred = <<>> /\ turn'.stage # "resolve" /\ turn'.thrown = turn.thrown
      /\ turn'.hosts = turn.hosts /\ turn'.running = turn.running /\ turn'.redirects = turn.redirects
      /\ turn'.ask = turn.ask
  BY <1>1, <1>2 DEF TurnRec
<1>6. Work(turn') = Work(turn)
  BY <1>2, <1>5, SameLists
<1>7. PICK calls : calls = <<h>>
  OBVIOUS
<1>8. calls \in Seq(Call) /\ log' = log \o StartRecords(calls) /\ \A c \in Range(calls) : Declared(c)
  BY <1>1, <1>3, <1>4, <1>7 DEF Range
<1>9. LogGrows /\ (\A c : Tool(c)' => Tool(c)) /\ MoreUsed
  BY <1>1, <1>8, StartsAppended DEF Types, MoreUsed
<1>10. StartsOnly
  <2>1. Noted("started", Range(calls) \cap Process)
    BY <1>1, <1>8, StartsNoted DEF Types
  <2> QED  BY <2>1 DEF Noted, StartsOnly
<1>11. ~At("resolve")
  BY <1>2 DEF At
<1> QED  BY <1>1, <1>2, <1>5, <1>6, <1>9, <1>10, <1>11, QuietTurnKeepsPairs

\* HostThrows: the dropped calls stay open, in a turn that asks no provider any more.
LEMMA HostThrowsKeepsPairs == ASSUME IInv, PairInv, HostThrows PROVE PairInv'
<1>. DEFINE t == [turn EXCEPT !.hosts = <<>>, !.thrown = TRUE]
<1>1. /\ turn \in TurnRec /\ Shape(turn) /\ Types /\ At("hostRuns") /\ turn' = GoOn(t)
      /\ log' = log /\ conversation' = conversation /\ panel' = panel
      /\ stale' = stale /\ used' = used
  BY DEF IInv, Types, HostThrows, Becomes, history
<1>2. turn.stage = "hostRuns" /\ turn.deferred = <<>> /\ turn.kind # "none" /\ ~At("resolve")
  BY <1>1 DEF At, Shape
<1>3. t \in TurnRec
  <2>1. <<>> \in Seq(Call)
    OBVIOUS
  <2> QED  BY <1>1, <2>1 DEF TurnRec
<1>4. /\ t.kind = turn.kind /\ t.hosts = <<>> /\ t.thrown
      /\ t.running = turn.running /\ t.redirects = turn.redirects /\ t.ask = turn.ask
      /\ t.deferred = <<>> /\ t.panel = turn.panel /\ t.messages = turn.messages
  BY <1>1, <1>2 DEF TurnRec
<1>. HIDE DEF t
<1>5. /\ turn'.kind = turn.kind /\ turn'.panel = turn.panel /\ turn'.messages = turn.messages
      /\ turn'.deferred = <<>> /\ turn'.stage # "resolve" /\ turn'.thrown
      /\ turn'.stage \in {"record", "thrown"} /\ Work(turn') = Work(t)
  BY <1>1, <1>3, <1>4, GoOnProperties, GoOnThrown, SameLists
<1>6. Work(t) \subseteq Work(turn)
  BY <1>2, <1>4, NoTurnIdle DEF Work
<1>7. LogGrows /\ (\A c : Tool(c)' => Tool(c)) /\ StartsOnly /\ MoreUsed
  BY <1>1, NothingAppended, SameLog DEF Types, MoreUsed
<1> QED  BY <1>1, <1>2, <1>5, <1>6, <1>7, QuietTurnKeepsPairs

\* EntriesReturn
LEMMA EntriesReturnKeepsPairs == ASSUME IInv, PairInv, EntriesReturn PROVE PairInv'
<1>1. /\ turn \in TurnRec /\ Shape(turn) /\ Types /\ At("entriesRun") /\ turn' = GoOn(turn)
      /\ log' = log /\ conversation' = conversation /\ panel' = panel
      /\ stale' = stale /\ used' = used
  BY DEF IInv, Types, EntriesReturn, Becomes, history
<1>2. turn.stage = "entriesRun" /\ turn.deferred = <<>> /\ turn.kind # "none" /\ ~turn.thrown
  BY <1>1 DEF At, Shape, PairInv, TurnInOrder
<1>3. /\ turn'.kind = turn.kind /\ turn'.panel = turn.panel /\ turn'.messages = turn.messages
      /\ turn'.deferred = <<>> /\ turn'.stage # "resolve" /\ turn'.thrown = turn.thrown
      /\ Work(turn') = Work(turn)
  BY <1>1, <1>2, GoOnProperties, GoOnThrown, SameLists
<1>4. LogGrows /\ (\A c : Tool(c)' => Tool(c)) /\ StartsOnly /\ MoreUsed
  BY <1>1, NothingAppended, SameLog DEF Types, MoreUsed
<1>5. ~At("resolve")
  BY <1>2 DEF At
<1> QED  BY <1>1, <1>2, <1>3, <1>4, <1>5, QuietTurnKeepsPairs

\* RunEntries
LEMMA RunEntriesKeepsPairs == ASSUME IInv, PairInv, RunEntries PROVE PairInv'
<1>. DEFINE allowed == Allowed(turn.running)
<1>1. /\ turn \in TurnRec /\ Shape(turn) /\ WorkAgrees /\ Types /\ LogInOrder
      /\ At("entries") /\ log' = log \o StartRecords(allowed)
      /\ turn' = [turn EXCEPT !.stage = "entriesRun"] /\ conversation' = conversation /\ panel' = panel
      /\ stale' = stale /\ used' = used
  BY DEF IInv, Types, RunEntries, Becomes
<1>2. turn.stage = "entries" /\ turn.running \in Seq(Call) /\ turn.deferred = <<>>
      /\ turn.kind # "none" /\ ~turn.thrown
  BY <1>1 DEF At, Shape, TurnRec, PairInv, TurnInOrder
<1>3. allowed \in Seq(Call) /\ Range(allowed) \subseteq Range(turn.running)
  BY <1>2, OnlyProperties DEF Allowed
<1>4. \A c \in Range(allowed) : Declared(c)
  BY <1>1, <1>3 DEF WorkAgrees, Work
<1>. HIDE DEF allowed
<1>5. /\ turn'.kind = turn.kind /\ turn'.panel = turn.panel /\ turn'.messages = turn.messages
      /\ turn'.deferred = <<>> /\ turn'.stage # "resolve" /\ turn'.thrown = turn.thrown
      /\ turn'.hosts = turn.hosts /\ turn'.running = turn.running /\ turn'.redirects = turn.redirects
      /\ turn'.ask = turn.ask
  BY <1>1, <1>2 DEF TurnRec
<1>6. Work(turn') = Work(turn)
  BY <1>2, <1>5, SameLists
<1>7. LogGrows /\ (\A c : Tool(c)' => Tool(c)) /\ MoreUsed
  BY <1>1, <1>3, StartsAppended DEF Types, MoreUsed
<1>8. StartsOnly
  <2>1. Noted("started", Range(allowed) \cap Process)
    BY <1>1, <1>3, <1>4, StartsNoted DEF Types
  <2> QED  BY <2>1 DEF Noted, StartsOnly
<1>9. ~At("resolve")
  BY <1>2 DEF At
<1> QED  BY <1>1, <1>2, <1>5, <1>6, <1>7, <1>8, <1>9, QuietTurnKeepsPairs


-----------------------------------------------------------------------------
(* Results and responses.                                                    *)

\* One result in the log.
LEMMA AnswerAppended ==
  ASSUME log \in Seq(Rec), LogInOrder, NEW d \in Call, Declared(d), stale' = stale,
         log' = Append(log, Record("tool", <<d>>)), InLatest(d) \/ d \in stale \/ Tool(d)
  PROVE  /\ LogGrows /\ \A c : c # d => (Tool(c)' => Tool(c))
         /\ \A c \in Call : (Tool(c) => Tool(c)') /\ (InLatest(c)' <=> InLatest(c))
<1>1. PICK m, new : m = Record("tool", <<d>>) /\ new = Append(log, m)
  OBVIOUS
<1>2. m \in Rec
  BY <1>1 DEF Record, Rec
<1>3. /\ Grows(log, new) /\ Len(new) = Len(log) + 1 /\ new[Len(new)] = m
      /\ \A k \in Added(log, new) : k = Len(new)
  BY <1>1, <1>2, AppendGrows
<1>4. \A c : m = Record("tool", <<c>>) => c = d
  BY <1>1, RecordsDiffer
<1>5. LogGrows
  BY <1>1, <1>3, <1>4 DEF LogGrows
<1>6. \A i \in DOMAIN new : i = Len(new) \/ (i \in DOMAIN log /\ new[i] = log[i])
  BY <1>3 DEF Grows, Added
<1>7. \A c : Tool(c)' <=> \E i \in DOMAIN new : new[i] = Record("tool", <<c>>)
  BY <1>1 DEF Tool, Has
<1>8. \A c : c # d => (Tool(c)' => Tool(c))
  BY <1>3, <1>4, <1>6, <1>7 DEF Tool, Has
<1>9. Noted("tool", {d})
  BY NoteAppended
<1> QED  BY <1>5, <1>8, <1>9 DEF Noted

\* A result in a list of messages settles its call and leaves the others where they are.
LEMMA PairsAnswered ==
  ASSUME NEW messages \in Seq(Rec), NEW pending, NEW d \in pending, d \in Call,
         Pairs(messages, pending), stale' = stale,
         stale # {} => used.troubles + used.crashes # 0, MoreUsed,
         \A c \in Call : c # d => (Excepted(c) => Excepted(c)')
  PROVE  Pairs(Append(messages, Record("tool", <<d>>)), pending \ {d})'
<1>1. PICK m, more : m = Record("tool", <<d>>) /\ more = Append(messages, m)
  OBVIOUS
<1>2. m \in Rec
  BY <1>1 DEF Record, Rec
<1>3. /\ Grows(messages, more) /\ Len(more) = Len(messages) + 1 /\ more[Len(more)] = m
      /\ \A k \in Added(messages, more) : k = Len(more)
  BY <1>1, <1>2, AppendGrows
<1>4. m.kind # "assistant" /\ Tells(m, d) /\ \A c : c # d => ~Asks(m, c) /\ ~Tells(m, c)
  <2>1. m.kind = "tool"
    BY <1>1 DEF Record
  <2>2. \A c : Tells(m, c) => c = d
    BY <1>1, RecordsDiffer DEF Tells
  <2> QED  BY <1>1, <2>1, <2>2 DEF Tells, Asks
<1>5. ASSUME NEW c, c # d
      PROVE  (Settled(messages, c) => Settled(more, c)) /\ (OpenLast(messages, c) => OpenLast(more, c))
  <2>1. \A k \in Added(messages, more) : ~Asks(more[k], c) /\ ~Tells(more[k], c)
    BY <1>3, <1>4, <1>5
  <2>2. \A k \in Added(messages, more) : more[k].kind # "assistant"
    BY <1>3, <1>4
  <2> QED  BY <1>3, <2>1, <2>2, QuietGrowth
<1>6. OpenLast(messages, d) => Settled(more, d)
  BY <1>3, <1>4, AnswerGrowth
<1>7. d \in stale => Excepted(d)'
  BY DEF Excepted, MoreUsed
<1>8. \A c \in Call : Excepted(c)' \/ Settled(more, c) \/ c \in pending \ {d}
  BY <1>5, <1>6, <1>7 DEF Pairs
<1>9. \A c \in pending \ {d} : c \in stale' \/ OpenLast(more, c)
  BY <1>5 DEF Pairs
<1>10. Pairs(more, pending \ {d})'
  BY <1>8, <1>9 DEF Pairs
<1> QED  BY <1>1, <1>10

\* A turn answers a call it has to do.
LEMMA AnswerKeepsPairs ==
  ASSUME IInv, PairInv, NEW d \in Work(turn), Answer(d), turn.kind # "none", ~At("resolve"),
         NEW t \in TurnRec, turn' = GoOn(t), t.kind = turn.kind, t.panel = turn.panel, t.deferred = <<>>,
         t.messages = Append(turn.messages, Record("tool", <<d>>)),
         t.thrown = turn.thrown, t.thrown => t.hosts = <<>>, Work(t) = Work(turn) \ {d}
  PROVE  PairInv'
<1>1. /\ log' = Append(log, Record("tool", <<d>>)) /\ conversation' = conversation /\ panel' = panel
      /\ used' = used /\ stale' = stale
  BY DEF Answer, history
<1>2. /\ turn'.kind = turn.kind /\ turn'.panel = turn.panel /\ turn'.deferred = <<>>
      /\ turn'.messages = Append(turn.messages, Record("tool", <<d>>))
      /\ turn'.stage # "resolve" /\ turn'.thrown = turn.thrown
      /\ turn'.thrown => turn'.stage \in {"record", "thrown"}
      /\ Work(turn') = Work(t)
  BY GoOnProperties, GoOnThrown, SameLists
<1>3. Work(turn) \subseteq Call /\ log \in Seq(Rec) /\ LogInOrder /\ turn.messages \in Seq(Rec)
  <2>1. turn \in TurnRec /\ log \in Seq(Rec) /\ LogInOrder
    BY DEF IInv, Types
  <2>2. Work(turn) \subseteq Call
    BY <2>1 DEF TurnRec, Work, Range
  <2> QED  BY <2>1, <2>2 DEF TurnRec
<1>4. Declared(d) /\ ~Tool(d)
  BY DEF IInv, WorkAgrees
<1>5. OfLatest(Work(turn)) /\ (~turn.thrown => Pairs(turn.messages, Work(turn)))
      /\ (stale # {} => used.troubles + used.crashes # 0) /\ TurnInOrder
  BY DEF PairInv
<1>6. InLatest(d) \/ d \in stale
  BY <1>4, <1>5 DEF OfLatest
<1>7. /\ LogGrows /\ \A c : c # d => (Tool(c)' => Tool(c))
      /\ \A c \in Call : (Tool(c) => Tool(c)') /\ (InLatest(c)' <=> InLatest(c))
  BY <1>1, <1>3, <1>4, <1>6, AnswerAppended
<1>8. LogPairs' /\ \A c : Once(c)' => Once(c)
  BY <1>7, LogPairsKept DEF PairInv
<1>9. MoreUsed
  BY <1>1 DEF MoreUsed
<1>10. \A c \in Call : c # d => (Excepted(c) => Excepted(c)')
  BY <1>1, <1>7, <1>8, <1>9, ExceptedKept
<1>11. OfLatest(Work(turn))'
  <2>1. \A c \in Work(turn') : InLatest(c)' \/ c \in stale' \/ (c \in Gate /\ Tool(c)')
    BY <1>1, <1>2, <1>3, <1>5, <1>7 DEF OfLatest
  <2> QED  BY <2>1 DEF OfLatest
<1>12. TurnInOrder'
  BY <1>1, <1>2, <1>5 DEF TurnInOrder
<1>13. ~turn'.thrown => Pairs(turn.messages, Work(turn))'
  <2>1. SUFFICES ASSUME ~turn'.thrown PROVE Pairs(turn.messages, Work(turn))'
    OBVIOUS
  <2>2. PICK m, w : m = turn.messages /\ w = Work(turn)
    OBVIOUS
  <2>3. turn'.messages = Append(m, Record("tool", <<d>>)) /\ Work(turn') = w \ {d}
    BY <1>2, <2>2
  <2>4. Pairs(Append(m, Record("tool", <<d>>)), w \ {d})'
    BY <1>1, <1>2, <1>3, <1>5, <1>9, <1>10, <2>1, <2>2, PairsAnswered
  <2> QED  BY <2>3, <2>4
<1>14. \A c \in Call : Excepted(c) => Excepted(c)' \/ c \in Work(turn)
  BY <1>10
<1> QED  BY <1>1, <1>2, <1>8, <1>9, <1>11, <1>12, <1>13, <1>14, TurnKeepsPairs

\* HostReturns
LEMMA HostReturnsKeepsPairs == ASSUME IInv, PairInv, HostReturns PROVE PairInv'
<1>. DEFINE d == Head(turn.hosts)
            t == [WithAnswer(turn, d) EXCEPT !.hosts = Tail(@)]
<1>1. /\ turn \in TurnRec /\ Shape(turn) /\ Lists(turn) /\ TurnInOrder
      /\ At("hostRuns") /\ Answer(d) /\ turn' = GoOn(t)
  BY DEF IInv, Types, HostReturns, PairInv
<1>2. turn.stage = "hostRuns" /\ turn.hosts # <<>> /\ turn.hosts \in Seq(Call) /\ turn.deferred = <<>>
      /\ turn.kind # "none" /\ ~turn.thrown
  BY <1>1 DEF At, Shape, TurnRec, TurnInOrder
<1>3. /\ d \in Call /\ d \in Range(turn.hosts) /\ Tail(turn.hosts) \in Seq(Call)
      /\ Range(turn.hosts) = Range(Tail(turn.hosts)) \cup {d} /\ d \notin Range(Tail(turn.hosts))
  BY <1>1, <1>2, TailRange DEF Lists
<1>4. d \notin Asked \cup Agent \cup Interactive
  BY <1>1, <1>3 DEF Lists
<1>. HIDE DEF d
<1>5. t \in TurnRec
  <2>1. Append(turn.messages, Record("tool", <<d>>)) \in Seq(Rec)
    <3>1. turn.messages \in Seq(Rec) /\ Record("tool", <<d>>) \in Rec
      BY <1>1, <1>3 DEF TurnRec, Record, Rec
    <3> QED  BY <3>1
  <2> QED  BY <1>1, <1>3, <2>1 DEF TurnRec, WithAnswer
<1>6. /\ t.kind = turn.kind /\ t.hosts = Tail(turn.hosts) /\ t.thrown = turn.thrown
      /\ t.running = turn.running /\ t.redirects = turn.redirects /\ t.ask = turn.ask
      /\ t.deferred = <<>> /\ t.panel = turn.panel
      /\ t.messages = Append(turn.messages, Record("tool", <<d>>))
  BY <1>1, <1>2 DEF TurnRec, WithAnswer
<1>. HIDE DEF t
<1>7. d \notin Range(turn.running) \cup Range(turn.redirects) \cup Range(turn.ask)
  <2>1. d \notin Range(turn.running) /\ d \notin Range(turn.redirects)
    BY <1>1, <1>3, <1>4 DEF Lists
  <2>2. d \notin Range(turn.ask)
    <3>1. CASE Range(turn.ask) \subseteq Asked
      BY <1>4, <3>1
    <3>2. CASE \E c \in Interactive : turn.ask = <<c>>
      BY <1>4, <3>2 DEF Range
    <3> QED  BY <1>1, <3>1, <3>2 DEF Lists
  <2> QED  BY <2>1, <2>2
<1>8. Work(t) = Work(turn) \ {d} /\ d \in Work(turn)
  BY <1>2, <1>3, <1>6, <1>7, NoTurnIdle DEF Work
<1>9. ~At("resolve")
  BY <1>2 DEF At
<1> QED  BY <1>1, <1>2, <1>5, <1>6, <1>8, <1>9, AnswerKeepsPairs

\* RecordResult
LEMMA RecordResultKeepsPairs == ASSUME IInv, PairInv, RecordResult PROVE PairInv'
<1>. DEFINE d == Head(turn.running)
            t == [WithAnswer(turn, d) EXCEPT !.running = Tail(@)]
<1>1. /\ turn \in TurnRec /\ Shape(turn) /\ Lists(turn)
      /\ At("record") /\ Answer(d) /\ turn' = GoOn(t)
  BY DEF IInv, Types, RecordResult
<1>2. turn.stage = "record" /\ turn.hosts = <<>> /\ turn.running # <<>> /\ turn.running \in Seq(Call)
      /\ turn.deferred = <<>> /\ turn.kind # "none"
  BY <1>1 DEF At, Shape, TurnRec
<1>3. /\ d \in Call /\ d \in Range(turn.running) /\ Tail(turn.running) \in Seq(Call)
      /\ Range(turn.running) = Range(Tail(turn.running)) \cup {d} /\ d \notin Range(Tail(turn.running))
  BY <1>1, <1>2, TailRange DEF Lists
<1>. HIDE DEF d
<1>5. t \in TurnRec
  <2>1. Append(turn.messages, Record("tool", <<d>>)) \in Seq(Rec)
    <3>1. turn.messages \in Seq(Rec) /\ Record("tool", <<d>>) \in Rec
      BY <1>1, <1>3 DEF TurnRec, Record, Rec
    <3> QED  BY <3>1
  <2> QED  BY <1>1, <1>3, <2>1 DEF TurnRec, WithAnswer
<1>6. /\ t.kind = turn.kind /\ t.hosts = <<>> /\ t.thrown = turn.thrown
      /\ t.running = Tail(turn.running) /\ t.redirects = turn.redirects /\ t.ask = turn.ask
      /\ t.deferred = <<>> /\ t.panel = turn.panel
      /\ t.messages = Append(turn.messages, Record("tool", <<d>>))
  BY <1>1, <1>2 DEF TurnRec, WithAnswer
<1>. HIDE DEF t
<1>7. d \notin Range(turn.redirects) \cup Range(turn.ask)
  BY <1>1, <1>3 DEF Lists
<1>8. Work(t) = Work(turn) \ {d} /\ d \in Work(turn)
  BY <1>2, <1>3, <1>6, <1>7, NoTurnIdle DEF Work
<1>9. ~At("resolve")
  BY <1>2 DEF At
<1> QED  BY <1>1, <1>2, <1>5, <1>6, <1>8, <1>9, AnswerKeepsPairs

\* Redirect
LEMMA RedirectKeepsPairs == ASSUME IInv, PairInv, Redirect PROVE PairInv'
<1>. DEFINE d == Head(turn.redirects)
            t == [WithAnswer(turn, d) EXCEPT !.redirects = Tail(@)]
<1>1. /\ turn \in TurnRec /\ Shape(turn) /\ Lists(turn)
      /\ At("redirect") /\ Answer(d) /\ turn' = GoOn(t)
  BY DEF IInv, Types, Redirect
<1>2. turn.stage = "redirect" /\ turn.hosts = <<>> /\ turn.running = <<>> /\ turn.redirects # <<>>
      /\ turn.redirects \in Seq(Call) /\ turn.deferred = <<>> /\ turn.kind # "none"
  BY <1>1 DEF At, Shape, TurnRec
<1>3. /\ d \in Call /\ d \in Range(turn.redirects) /\ Tail(turn.redirects) \in Seq(Call)
      /\ Range(turn.redirects) = Range(Tail(turn.redirects)) \cup {d} /\ d \notin Range(Tail(turn.redirects))
  BY <1>1, <1>2, TailRange DEF Lists
<1>. HIDE DEF d
<1>5. t \in TurnRec
  <2>1. Append(turn.messages, Record("tool", <<d>>)) \in Seq(Rec)
    <3>1. turn.messages \in Seq(Rec) /\ Record("tool", <<d>>) \in Rec
      BY <1>1, <1>3 DEF TurnRec, Record, Rec
    <3> QED  BY <3>1
  <2> QED  BY <1>1, <1>3, <2>1 DEF TurnRec, WithAnswer
<1>6. /\ t.kind = turn.kind /\ t.hosts = <<>> /\ t.thrown = turn.thrown
      /\ t.running = <<>> /\ t.redirects = Tail(turn.redirects) /\ t.ask = turn.ask
      /\ t.deferred = <<>> /\ t.panel = turn.panel
      /\ t.messages = Append(turn.messages, Record("tool", <<d>>))
  BY <1>1, <1>2 DEF TurnRec, WithAnswer
<1>. HIDE DEF t
<1>7. d \notin Range(turn.ask)
  BY <1>1, <1>3 DEF Lists
<1>8. Work(t) = Work(turn) \ {d} /\ d \in Work(turn)
  BY <1>2, <1>3, <1>6, <1>7, NoTurnIdle DEF Work
<1>9. ~At("resolve")
  BY <1>2 DEF At
<1> QED  BY <1>1, <1>2, <1>5, <1>6, <1>8, <1>9, AnswerKeepsPairs

\* RefuseGate
LEMMA RefuseGateKeepsPairs == ASSUME IInv, PairInv, RefuseGate PROVE PairInv'
<1>. DEFINE d == Head(turn.ask)
            t == [WithAnswer(turn, d) EXCEPT !.ask = <<>>]
<1>1. /\ turn \in TurnRec /\ Shape(turn) /\ Lists(turn)
      /\ At("ask") /\ d \in Gate /\ Answer(d) /\ turn' = GoOn(t)
  BY DEF IInv, Types, RefuseGate
<1>2. turn.stage = "ask" /\ turn.hosts = <<>> /\ turn.running = <<>> /\ turn.redirects = <<>>
      /\ turn.ask # <<>> /\ turn.ask \in Seq(Call) /\ turn.kind # "none"
  BY <1>1 DEF At, Shape, TurnRec
<1>3. d \in Call /\ d \in Range(turn.ask)
  BY <1>1, <1>2, TailRange
<1>4. d \notin Asked
  BY <1>1, CallAssumption DEF Interactive
<1>5. turn.deferred = <<>>
  BY <1>1, <1>3, <1>4 DEF Shape
<1>. HIDE DEF d
<1>6. t \in TurnRec
  <2>1. Append(turn.messages, Record("tool", <<d>>)) \in Seq(Rec)
    <3>1. turn.messages \in Seq(Rec) /\ Record("tool", <<d>>) \in Rec
      BY <1>1, <1>3 DEF TurnRec, Record, Rec
    <3> QED  BY <3>1
  <2>2. <<>> \in Seq(Call)
    OBVIOUS
  <2> QED  BY <1>1, <1>3, <2>1, <2>2 DEF TurnRec, WithAnswer
<1>7. /\ t.kind = turn.kind /\ t.hosts = <<>> /\ t.thrown = turn.thrown
      /\ t.running = <<>> /\ t.redirects = <<>> /\ t.ask = <<>>
      /\ t.deferred = <<>> /\ t.panel = turn.panel
      /\ t.messages = Append(turn.messages, Record("tool", <<d>>))
  BY <1>1, <1>2, <1>5 DEF TurnRec, WithAnswer
<1>. HIDE DEF t
<1>8. Range(turn.ask) = {d}
  <2>1. PICK c \in Interactive : turn.ask = <<c>>
    BY <1>1, <1>3, <1>4 DEF Lists
  <2>2. Range(<<c>>) = {c}
    BY DEF Range
  <2> QED  BY <1>3, <2>1, <2>2
<1>9. Work(t) = Work(turn) \ {d} /\ d \in Work(turn)
  BY <1>2, <1>5, <1>7, <1>8, NoTurnIdle DEF Work
<1>10. ~At("resolve")
  BY <1>2 DEF At
<1> QED  BY <1>1, <1>2, <1>6, <1>7, <1>9, <1>10, AnswerKeepsPairs


\* The plan leaves no call out that is put to the user or to be answered.
LEMMA PlanCovers ==
  ASSUME NEW calls \in Seq(Call)
  PROVE  LET plan == PlanPause(calls)
         IN  Range(calls) \cap (Asked \cup Interactive) \subseteq Range(plan.redirects) \cup Range(plan.ask)
<1>. DEFINE asked == Only(calls, Asked)
            interactive == Only(calls, Interactive)
            plan == PlanPause(calls)
<1>1. /\ asked \in Seq(Call) /\ Range(asked) = Range(calls) \cap Asked
      /\ interactive \in Seq(Call) /\ Range(interactive) = Range(calls) \cap Interactive
  BY OnlyProperties
<1>2. plan = CASE asked # <<>> -> [redirects |-> interactive, ask |-> asked]
               [] asked = <<>> /\ interactive # <<>> ->
                    [redirects |-> Tail(interactive), ask |-> <<Head(interactive)>>]
               [] OTHER -> [redirects |-> <<>>, ask |-> <<>>]
  BY DEF PlanPause
<1>. HIDE DEF asked, interactive, plan
<1>3. Range(<<>>) = {}
  BY NoTurnIdle
<1>4. CASE asked # <<>>
  <2>1. plan.redirects = interactive /\ plan.ask = asked
    BY <1>2, <1>4
  <2> QED  BY <1>1, <2>1 DEF plan
<1>5. CASE asked = <<>> /\ interactive # <<>>
  <2>. DEFINE h == Head(interactive)
  <2>1. plan.redirects = Tail(interactive) /\ plan.ask = <<h>>
    BY <1>2, <1>5
  <2>2. Range(interactive) = Range(Tail(interactive)) \cup {h}
    BY <1>1, <1>5, TailRange
  <2>. HIDE DEF h
  <2>3. Range(<<h>>) = {h}
    BY DEF Range
  <2> QED  BY <1>1, <1>3, <1>5, <2>1, <2>2, <2>3 DEF plan
<1>6. CASE asked = <<>> /\ interactive = <<>>
  BY <1>1, <1>3, <1>6
<1> QED  BY <1>4, <1>5, <1>6

\* A response in the log.
LEMMA ResponseGrowsLog ==
  ASSUME log \in Seq(Rec), NEW calls \in Seq(Call), stale' = stale,
         log' = Append(log, Record("assistant", calls))
  PROVE  LogGrows /\ \A c : Tool(c)' => Tool(c)
<1>1. PICK m : m = Record("assistant", calls)
  OBVIOUS
<1>2. m \in Rec /\ m.kind # "tool"
  BY <1>1 DEF Record, Rec
<1> QED  BY <1>1, <1>2, OneAppended

\* A list of messages that a response follows: its calls are open, the others stay.
LEMMA ResponseInMessages ==
  ASSUME NEW messages \in Seq(Rec), NEW calls \in Seq(Call), NEW c
  PROVE  LET more == Append(messages, Record("assistant", calls))
         IN  /\ c \notin Range(calls) /\ Settled(messages, c) => Settled(more, c)
             /\ c \in Range(calls) /\ Unmentioned(messages, c) => OpenLast(more, c)
<1>1. PICK m, more : m = Record("assistant", calls) /\ more = Append(messages, m)
  OBVIOUS
<1>2. m \in Rec /\ m.kind = "assistant" /\ m.calls = calls
  BY <1>1 DEF Record, Rec
<1>3. /\ Grows(messages, more) /\ Len(more) = Len(messages) + 1 /\ more[Len(more)] = m
      /\ \A k \in Added(messages, more) : k = Len(more)
  BY <1>1, <1>2, AppendGrows
<1>4. ~Tells(m, c) /\ (Asks(m, c) <=> c \in Range(calls))
  BY <1>2 DEF Tells, Asks, Record
<1>5. c \notin Range(calls) /\ Settled(messages, c) => Settled(more, c)
  BY <1>3, <1>4, QuietGrowth
<1>6. ASSUME c \in Range(calls), Unmentioned(messages, c) PROVE OpenLast(more, c)
  <2>1. PICK first : first = Len(messages) + 1
    OBVIOUS
  <2>2. first \in 1..Len(more) /\ first = Len(more) /\ (first + 1)..Len(more) = {}
    BY <1>3, <2>1
  <2>3. Asks(more[first], c)
    BY <1>3, <1>4, <1>6, <2>2
  <2>4. /\ \A k \in (first + 1)..Len(more) : more[k].kind # "assistant"
        /\ \A j, k \in (first + 1)..Len(more) : Tells(more[j], c) /\ Tells(more[k], c) => j = k
        /\ \A k \in (first + 1)..Len(more) : ~Tells(more[k], c)
    BY <2>2
  <2> QED  BY <1>3, <1>6, <2>1, <2>2, <2>3, <2>4, ResponseGrowth
<1> QED  BY <1>1, <1>5, <1>6

\* Respond: the calls of the response are open, and the turn has all of them to do.
LEMMA RespondKeepsPairs == ASSUME IInv, PairInv, NEW calls \in Batch, Respond(calls) PROVE PairInv'
<1>. DEFINE new == Range(calls)
            plan == PlanPause(calls)
<1>1. /\ At("provider") /\ \A i \in DOMAIN calls : Declarations(log, calls[i]) = {}
      /\ log' = Append(log, Record("assistant", calls))
      /\ turn' = [turn EXCEPT !.stage = "start", !.answered = TRUE,
           !.messages = Append(@, Record("assistant", calls)),
           !.hosts = Only(calls, Call \ (Asked \cup Interactive \cup Agent)),
           !.running = Only(calls, Agent \ Asked),
           !.redirects = plan.redirects, !.ask = plan.ask]
      /\ conversation' = conversation /\ panel' = panel /\ stale' = stale
      /\ used' = [used EXCEPT !.rounds = @ + 1]
  BY DEF Respond, Becomes, Spend
<1>2. /\ turn \in TurnRec /\ turn.kind # "none" /\ ~At("resolve") /\ Types /\ LogInOrder
      /\ FromLog(turn.messages) /\ turn.deferred = <<>> /\ turn.hosts = <<>> /\ turn.running = <<>>
      /\ turn.redirects = <<>> /\ turn.ask = <<>> /\ ~turn.thrown
  BY <1>1 DEF IInv, Types, Shape, At, Conversations, PairInv, TurnInOrder
<1>3. calls \in Seq(Call) /\ IsInjective(calls) /\ new \subseteq Call
  BY CallAssumption DEF Range
<1>4. \A c \in new : ~Declared(c)
  <2>. SUFFICES ASSUME NEW i \in DOMAIN calls PROVE ~Declared(calls[i])
    BY DEF Range
  <2>1. Declarations(log, calls[i]) = {}
    BY <1>1
  <2> QED  BY <2>1 DEF Declarations, Declared, Issues
<1>5. Responded(new)
  BY <1>1, <1>2, <1>3, <1>4, ResponseAppended DEF Types
<1>6. /\ Range(plan.redirects) \subseteq new /\ Range(plan.ask) \subseteq new
      /\ new \cap (Asked \cup Interactive) \subseteq Range(plan.redirects) \cup Range(plan.ask)
  BY <1>3, PlanProperties, PlanCovers
<1>7. /\ Range(Only(calls, Call \ (Asked \cup Interactive \cup Agent))) = new \cap (Call \ (Asked \cup Interactive \cup Agent))
      /\ Range(Only(calls, Agent \ Asked)) = new \cap (Agent \ Asked)
  BY <1>3, OnlyProperties
<1>. HIDE DEF plan, new
<1>8. PICK hosts, running : /\ hosts = Only(calls, Call \ (Asked \cup Interactive \cup Agent))
                            /\ running = Only(calls, Agent \ Asked)
  OBVIOUS
<1>9. /\ turn'.kind = turn.kind /\ turn'.stage = "start" /\ turn'.thrown = turn.thrown
      /\ turn'.hosts = hosts /\ turn'.running = running /\ turn'.redirects = plan.redirects
      /\ turn'.ask = plan.ask /\ turn'.deferred = <<>> /\ turn'.panel = turn.panel
      /\ turn'.messages = Append(turn.messages, Record("assistant", calls))
  BY <1>1, <1>2, <1>8 DEF TurnRec
<1>10. Work(turn') = new /\ Work(turn) = {}
  <2>1. Range(<<>>) = {}
    BY NoTurnIdle
  <2>2. Work(turn) = {}
    BY <1>2, <2>1 DEF Work
  <2>3. Work(turn') = Range(hosts) \cup Range(running) \cup Range(plan.redirects) \cup Range(plan.ask)
    BY <1>9, <2>1 DEF Work
  <2>4. \A c \in new : c \in Range(hosts) \/ c \in Range(running) \/ c \in Asked \cup Interactive
    BY <1>3, <1>7, <1>8
  <2>5. Work(turn') \subseteq new
    BY <1>6, <1>7, <1>8, <2>3
  <2>6. new \subseteq Work(turn')
    BY <1>6, <2>3, <2>4
  <2> QED  BY <2>2, <2>5, <2>6
<1>11. LogGrows /\ \A c : Tool(c)' => Tool(c)
  BY <1>1, <1>2, <1>3, ResponseGrowsLog DEF Types
<1>12. MoreUsed
  <2>1. used \in [rounds : 0..MaxRounds, prompts : 0..MaxPrompts, troubles : 0..MaxTroubles, crashes : 0..MaxCrashes]
    BY <1>2 DEF Types
  <2>2. used'.troubles = used.troubles /\ used'.crashes = used.crashes
    BY <1>1, <2>1
  <2> QED  BY <2>2 DEF MoreUsed
<1>13. LogPairs' /\ \A c : Excepted(c) => Excepted(c)'
  BY <1>11, <1>12, ExceptionsKept
<1>14. TurnInOrder'
  <2>1. TurnInOrder
    BY DEF PairInv
  <2> QED  BY <1>1, <1>2, <1>9, <2>1 DEF TurnInOrder
<1>15. OfLatest(Work(turn))'
  <2>1. \A c \in Work(turn') : InLatest(c)'
    BY <1>3, <1>5, <1>10 DEF Responded
  <2> QED  BY <2>1 DEF OfLatest
<1>16. ~turn'.thrown => Pairs(turn.messages, Work(turn))'
  <2>1. PICK m, more : m = turn.messages /\ more = Append(m, Record("assistant", calls))
    OBVIOUS
  <2>2. m \in Seq(Rec) /\ FromLog(m)
    BY <1>2, <2>1 DEF TurnRec
  <2>3. Pairs(m, {})
    BY <1>2, <1>10, <2>1 DEF PairInv
  <2>4. \A c \in new : OpenLast(more, c)
    BY <1>3, <1>4, <2>1, <2>2, ResponseInMessages, NotIssuedNotMentioned DEF new
  <2>5. \A c \in Call \ new : Settled(m, c) => Settled(more, c)
    BY <1>3, <2>1, <2>2, ResponseInMessages DEF new
  <2>6. \A c \in Call : Excepted(c)' \/ Settled(more, c) \/ c \in new
    BY <1>13, <2>3, <2>5 DEF Pairs
  <2>7. Pairs(more, new)'
    BY <2>4, <2>6 DEF Pairs
  <2>8. turn'.messages = more /\ Work(turn') = new
    BY <1>9, <1>10, <2>1
  <2> QED  BY <2>7, <2>8
<1> QED
  <2>1. \A c \in Work(turn') : c \in Work(turn) \/ ~Declared(c)
    BY <1>4, <1>10
  <2>2. turn'.stage # "resolve"
    BY <1>9
  <2>3. \A c \in Call : Excepted(c) => Excepted(c)' \/ c \in Work(turn)
    BY <1>13
  <2> QED  BY <1>1, <1>2, <1>9, <1>12, <1>13, <1>14, <1>15, <1>16, <2>1, <2>2, <2>3, TurnKeepsPairs


-----------------------------------------------------------------------------
(* Prompts, panels and decisions.                                            *)

\* A step that leaves the log alone.
LEMMA QuietStep ==
  ASSUME IInv, PairInv, log' = log, stale' = stale, MoreUsed
  PROVE  /\ LogPairs' /\ \A c : Excepted(c) => Excepted(c)'
         /\ \A messages, pending : Pairs(messages, pending) => Pairs(messages, pending)'
         /\ \A pending : OfLatest(pending) => OfLatest(pending)'
         /\ stale' # {} => used'.troubles + used'.crashes # 0
<1>1. LogGrows /\ \A c : Tool(c)' => Tool(c)
  BY NothingAppended DEF IInv, Types
<1>2. LogPairs' /\ \A c : Excepted(c) => Excepted(c)'
  BY <1>1, ExceptionsKept
<1>3. ASSUME NEW messages, NEW pending, Pairs(messages, pending) PROVE Pairs(messages, pending)'
  <2>1. stale \subseteq stale'
    OBVIOUS
  <2> QED  BY <1>2, <1>3, <2>1, PairsKept
<1>4. ASSUME NEW pending, OfLatest(pending) PROVE OfLatest(pending)'
  <2>1. \A c : (InLatest(c)' <=> InLatest(c)) /\ (Tool(c)' <=> Tool(c))
    BY DEF InLatest, Latest, Issues, Tool, Has
  <2> QED  BY <1>4, <2>1 DEF OfLatest
<1>5. stale' # {} => used'.troubles + used'.crashes # 0
  BY DEF PairInv, MoreUsed
<1> QED  BY <1>2, <1>3, <1>4, <1>5

\* The turn ends, with or without a panel.
LEMMA TurnEndKeepsPairs ==
  ASSUME turn' = NoTurn, LogPairs', stale' # {} => used'.troubles + used'.crashes # 0,
         panel' = NoPanel => Pairs(conversation, {})',
         panel' # NoPanel => Pairs(panel.messages, Pending(panel))' /\ OfLatest(Pending(panel))',
         panel'.deferred # <<>> => panel'.calls[1] \in Agent
  PROVE  PairInv'
<1>1. /\ turn'.kind = "none" /\ turn'.stage = "none" /\ turn'.panel = NoPanel /\ turn'.deferred = <<>>
      /\ Work(turn') = {}
  BY NoTurnIdle
<1>2. turn'.thrown = FALSE /\ NoPanel.deferred = <<>>
  BY DEF NoTurn, NoPanel
<1>3. TurnInOrder'
  BY <1>1, <1>2 DEF TurnInOrder
<1>4. ~Continuation' /\ ~(At("resolve")')
  BY <1>1 DEF Continuation, At
<1> QED  BY <1>1, <1>3, <1>4 DEF PairInv

\* SubmitPrompt
LEMMA SubmitPromptKeepsPairs == ASSUME IInv, PairInv, SubmitPrompt PROVE PairInv'
<1>1. /\ turn = NoTurn /\ panel = NoPanel /\ log' = log /\ stale' = stale
      /\ conversation' = conversation /\ panel' = panel
      /\ turn' = [NoTurn EXCEPT !.kind = "prompt", !.stage = "provider", !.messages = conversation]
      /\ used' = [used EXCEPT !.prompts = @ + 1]
  BY DEF SubmitPrompt, Busy, Becomes, Spend, history
<1>2. /\ turn'.kind = "prompt" /\ turn'.stage = "provider" /\ turn'.messages = conversation
      /\ turn'.panel = NoPanel /\ turn'.deferred = <<>> /\ turn'.thrown = FALSE
      /\ turn'.hosts = <<>> /\ turn'.running = <<>> /\ turn'.redirects = <<>> /\ turn'.ask = <<>>
      /\ NoPanel.deferred = <<>>
  BY <1>1 DEF NoTurn, NoPanel
<1>3. Work(turn') = {}
  BY <1>2, NoTurnIdle DEF Work
<1>4. MoreUsed
  <2>1. used \in [rounds : 0..MaxRounds, prompts : 0..MaxPrompts, troubles : 0..MaxTroubles, crashes : 0..MaxCrashes]
    BY DEF IInv, Types
  <2>2. used'.troubles = used.troubles /\ used'.crashes = used.crashes
    BY <1>1, <2>1
  <2> QED  BY <2>2 DEF MoreUsed
<1>5. PICK m : m = conversation
  OBVIOUS
<1>6. Pairs(m, {})
  BY <1>1, <1>5, NoTurnIdle DEF PairInv
<1>7. Pairs(m, {})' /\ LogPairs' /\ (stale' # {} => used'.troubles + used'.crashes # 0)
  BY <1>1, <1>4, <1>6, QuietStep
<1>8. TurnInOrder'
  BY <1>1, <1>2 DEF TurnInOrder
<1>9. OfLatest(Work(turn))'
  BY <1>3 DEF OfLatest
<1>10. Pairs(conversation, {})' /\ Pairs(turn.messages, Work(turn))'
  BY <1>1, <1>2, <1>3, <1>5, <1>7
<1>11. ~Continuation' /\ ~(At("resolve")') /\ panel' = NoPanel
  BY <1>1, <1>2 DEF Continuation, At
<1> QED  BY <1>3, <1>7, <1>8, <1>9, <1>10, <1>11 DEF PairInv

\* Decide: the panel and what waits behind it move into the turn.
LEMMA DecideKeepsPairs == ASSUME IInv, PairInv, Decide PROVE PairInv'
<1>1. /\ turn = NoTurn /\ panel # NoPanel /\ log' = log /\ stale' = stale /\ used' = used
      /\ conversation' = conversation /\ panel' = NoPanel
      /\ turn' = [NoTurn EXCEPT !.kind = panel.kind, !.stage = "resolve", !.panel = panel,
                                !.messages = panel.messages]
  BY DEF Decide, Busy, history
<1>2. /\ turn'.kind = panel.kind /\ turn'.stage = "resolve" /\ turn'.messages = panel.messages
      /\ turn'.panel = panel /\ turn'.deferred = <<>> /\ turn'.thrown = FALSE
      /\ turn'.hosts = <<>> /\ turn'.running = <<>> /\ turn'.redirects = <<>> /\ turn'.ask = <<>>
      /\ NoPanel.deferred = <<>>
  BY <1>1 DEF NoTurn, NoPanel
<1>3. Work(turn') = {}
  BY <1>2, NoTurnIdle DEF Work
<1>4. MoreUsed
  BY <1>1 DEF MoreUsed
<1>5. panel.kind \in {"permission", "gate", "question"}
  BY <1>1 DEF IInv, Types, PanelRec, PanelAgrees
<1>6. PICK m, w : m = panel.messages /\ w = Pending(panel)
  OBVIOUS
<1>7. Pairs(m, w) /\ OfLatest(w)
  BY <1>1, <1>6 DEF PairInv
<1>8. Pairs(m, w)' /\ OfLatest(w)' /\ LogPairs' /\ (stale' # {} => used'.troubles + used'.crashes # 0)
  BY <1>1, <1>4, <1>7, QuietStep
<1>9. turn'.panel.messages = m /\ Pending(turn'.panel) = w
  BY <1>2, <1>6
<1>10. Pairs(turn.panel.messages, Pending(turn.panel))' /\ OfLatest(Pending(turn.panel))'
  BY <1>8, <1>9
<1>11. TurnInOrder'
  <2>1. TurnInOrder
    BY DEF PairInv
  <2> QED  BY <1>1, <1>2, <2>1 DEF TurnInOrder
<1>12. At("resolve")' /\ turn'.kind \notin {"none", "prompt"}
  BY <1>2, <1>5 DEF At
<1> QED  BY <1>1, <1>3, <1>8, <1>10, <1>11, <1>12 DEF PairInv

\* AnswerInteraction: the one call of a gate or a question.
LEMMA AnswerInteractionKeepsPairs == ASSUME IInv, PairInv, AnswerInteraction PROVE PairInv'
<1>0. PICK c : c = turn.panel.calls[1]
  OBVIOUS
<1>. DEFINE t == WithAnswer(turn, c)
<1>1. /\ At("resolve") /\ turn.kind \in {"gate", "question"} /\ turn' = GoOn(t)
      /\ log' = Append(log, Record("tool", <<c>>)) /\ stale' = stale /\ used' = used
      /\ conversation' = conversation /\ panel' = panel
  BY <1>0 DEF AnswerInteraction, Answer, history
<1>2. /\ turn \in TurnRec /\ panel = NoPanel /\ PanelAgrees(turn.panel) /\ turn.panel.kind = turn.kind
      /\ turn.messages = turn.panel.messages /\ turn.hosts = <<>> /\ turn.running = <<>>
      /\ turn.redirects = <<>> /\ turn.ask = <<>> /\ turn.deferred = <<>>
  BY <1>1, ResolvingIdle
<1>3. /\ turn.panel.deferred = <<>> /\ turn.panel.calls = <<c>> /\ c \in Call /\ Declared(c)
  <2>1. CASE turn.kind = "gate"
    <3>1. turn.panel.deferred = <<>> /\ \E g \in Gate : turn.panel.calls = <<g>> /\ Declared(g)
      BY <1>2, <2>1 DEF PanelAgrees
    <3> QED  BY <1>0, <3>1, CallAssumption DEF Interactive
  <2>2. CASE turn.kind = "question"
    <3>1. turn.panel.deferred = <<>> /\ \E g \in Question : turn.panel.calls = <<g>> /\ Declared(g)
      BY <1>2, <2>2 DEF PanelAgrees
    <3> QED  BY <1>0, <3>1, CallAssumption DEF Interactive
  <2> QED  BY <1>1, <2>1, <2>2
<1>4. Pending(turn.panel) = {c}
  <2>1. Range(<<c>>) = {c}
    BY DEF Range
  <2> QED  BY <1>3, <2>1, NoTurnIdle DEF Pending
<1>5. log \in Seq(Rec) /\ LogInOrder /\ turn.messages \in Seq(Rec)
  BY <1>2 DEF IInv, Types, TurnRec
<1>6. /\ LogPairs /\ TurnInOrder /\ (stale # {} => used.troubles + used.crashes # 0)
      /\ Pairs(turn.messages, {c}) /\ OfLatest({c})
  BY <1>1, <1>2, <1>4 DEF PairInv, Continuation
<1>7. /\ LogGrows /\ \A d : d # c => (Tool(d)' => Tool(d))
  <2>1. InLatest(c) \/ c \in stale \/ Tool(c)
    BY <1>6 DEF OfLatest
  <2> QED  BY <1>1, <1>3, <1>5, <2>1, AnswerAppended
<1>8. LogPairs' /\ \A d : Once(d)' => Once(d)
  BY <1>6, <1>7, LogPairsKept
<1>9. MoreUsed
  BY <1>1 DEF MoreUsed
<1>10. \A d \in Call : d # c => (Excepted(d) => Excepted(d)')
  BY <1>1, <1>7, <1>8, <1>9, ExceptedKept
<1>11. PICK m : m = turn.messages
  OBVIOUS
<1>12. Pairs(Append(m, Record("tool", <<c>>)), {c} \ {c})' /\ Pairs(m, {c})'
  <2>1. Pairs(Append(m, Record("tool", <<c>>)), {c} \ {c})'
    BY <1>1, <1>3, <1>5, <1>6, <1>9, <1>10, <1>11, PairsAnswered
  <2>2. Pairs(m, {c})'
    BY <1>1, <1>6, <1>10, <1>11, PairsKept
  <2> QED  BY <2>1, <2>2
<1>13. t \in TurnRec
  <2>1. Append(turn.messages, Record("tool", <<c>>)) \in Seq(Rec)
    <3>1. Record("tool", <<c>>) \in Rec
      BY <1>3 DEF Record, Rec
    <3> QED  BY <1>5, <3>1
  <2> QED  BY <1>2, <2>1 DEF TurnRec, WithAnswer
<1>14. /\ t.kind = turn.kind /\ t.hosts = <<>> /\ t.thrown = turn.thrown
       /\ t.running = <<>> /\ t.redirects = <<>> /\ t.ask = <<>>
       /\ t.deferred = <<>> /\ t.panel = turn.panel
       /\ t.messages = Append(turn.messages, Record("tool", <<c>>))
  BY <1>2 DEF TurnRec, WithAnswer
<1>. HIDE DEF t
<1>15. /\ turn'.kind = turn.kind /\ turn'.panel = turn.panel /\ turn'.deferred = <<>>
       /\ turn'.messages = Append(m, Record("tool", <<c>>)) /\ turn'.stage # "resolve"
       /\ turn'.thrown = turn.thrown /\ Work(turn') = Work(t)
  BY <1>1, <1>11, <1>13, <1>14, GoOnProperties, GoOnThrown, SameLists
<1>16. Work(turn') = {} /\ ~turn.thrown
  <2>1. Work(t) = {}
    BY <1>14, NoTurnIdle DEF Work
  <2>2. ~turn.thrown
    BY <1>1, <1>6 DEF TurnInOrder, At
  <2> QED  BY <1>15, <2>1, <2>2
<1>17. TurnInOrder'
  BY <1>1, <1>6, <1>15, <1>16 DEF TurnInOrder
<1>18. OfLatest(Work(turn))' /\ Pairs(turn.messages, Work(turn))'
  <2>1. OfLatest(Work(turn))'
    BY <1>16 DEF OfLatest
  <2>2. {c} \ {c} = Work(turn')
    BY <1>16
  <2> QED  BY <1>12, <1>15, <2>1, <2>2
<1>19. Pairs(turn.panel.messages, Pending(turn.panel))'
  <2>1. turn'.panel.messages = m /\ Pending(turn'.panel) = {c}
    BY <1>2, <1>4, <1>11, <1>15
  <2> QED  BY <1>12, <2>1
<1>20. ~(At("resolve")') /\ turn'.kind \notin {"none", "prompt"} /\ panel' = NoPanel
       /\ (stale' # {} => used'.troubles + used'.crashes # 0)
  BY <1>1, <1>2, <1>6, <1>15 DEF At
<1> QED  BY <1>8, <1>16, <1>17, <1>18, <1>19, <1>20 DEF PairInv


\* The call in front of a reordered rest is an Agent call.
LEMMA AgentIsFirst ==
  ASSUME NEW calls \in Seq(Call), Range(calls) \cap Agent # {}
  PROVE  AgentFirst(calls)[1] \in Agent
<1>. DEFINE agents == Only(calls, Agent)
            others == Only(calls, Call \ {Head(agents)})
<1>1. agents \in Seq(Call) /\ Range(agents) = Range(calls) \cap Agent
  BY OnlyProperties
<1>2. others \in Seq(Call)
  BY OnlyProperties
<1>3. AgentFirst(calls) = IF agents = <<>> THEN calls ELSE <<Head(agents)>> \o others
  BY DEF AgentFirst
<1>. HIDE DEF agents, others
<1>4. agents # <<>>
  BY <1>1, NoTurnIdle
<1>5. Head(agents) \in Agent /\ Head(agents) \in Call
  BY <1>1, <1>4, TailRange
<1>6. (<<Head(agents)>> \o others)[1] = Head(agents)
  BY <1>2, <1>5
<1> QED  BY <1>3, <1>4, <1>5, <1>6

\* ResolvePermission: what the panel held is what the turn has to do.
LEMMA ResolvePermissionKeepsPairs ==
  ASSUME IInv, PairInv, NEW decision \in {"allow", "reject"}, ResolvePermission(decision)
  PROVE  PairInv'
<1>. DEFINE c == turn.panel.calls[1]
            rest == Tail(turn.panel.calls)
            batch == IF c \in Agent THEN Append(turn.panel.deferred, c) ELSE <<c>>
            more == c \in Agent /\ Range(rest) \cap Agent # {}
<1>1. /\ At("resolve") /\ turn.kind = "permission" /\ log' = Append(log, Record(decision, <<c>>))
      /\ turn' = IF more THEN [turn EXCEPT !.stage = "ask", !.ask = AgentFirst(rest), !.deferred = batch]
                 ELSE [turn EXCEPT !.stage = "entries", !.running = batch, !.ask = rest]
      /\ conversation' = conversation /\ panel' = panel /\ stale' = stale /\ used' = used
  BY DEF ResolvePermission, Becomes, history
<1>2. /\ turn \in TurnRec /\ panel = NoPanel
      /\ turn.messages = turn.panel.messages /\ turn.hosts = <<>> /\ turn.running = <<>>
      /\ turn.redirects = <<>> /\ turn.ask = <<>> /\ turn.deferred = <<>>
  BY <1>1, ResolvingIdle
<1>3. /\ turn.panel.calls \in Seq(Call) /\ turn.panel.deferred \in Seq(Call) /\ rest \in Seq(Call)
      /\ c \in Call /\ Range(turn.panel.calls) = Range(rest) \cup {c} /\ IsInjective(rest) /\ Declared(c)
  BY <1>1, ResolvingPermission
<1>4. log \in Seq(Rec) /\ LogInOrder
  BY DEF IInv, Types
<1>5. /\ TurnInOrder /\ (stale # {} => used.troubles + used.crashes # 0)
      /\ Pairs(turn.messages, Pending(turn.panel)) /\ OfLatest(Pending(turn.panel))
  BY <1>1, <1>2 DEF PairInv, Continuation
<1>6. Range(batch) = Range(turn.panel.deferred) \cup {c}
  <2>1. CASE c \in Agent
    BY <1>3, <2>1, AppendRange
  <2>2. CASE c \notin Agent
    <3>1. turn.panel.deferred = <<>>
      BY <1>5, <2>2 DEF TurnInOrder
    <3>2. Range(<<c>>) = {c}
      BY DEF Range
    <3> QED  BY <2>2, <3>1, <3>2, NoTurnIdle
  <2> QED  BY <2>1, <2>2
<1>7. Range(AgentFirst(rest)) = Range(rest) /\ (more => AgentFirst(rest)[1] \in Agent)
  BY <1>3, AgentFirstProperties, AgentIsFirst
<1>8. PICK b, r, a : b = batch /\ r = rest /\ a = AgentFirst(rest)
  OBVIOUS
<1>9. Pending(turn.panel) = Range(r) \cup Range(b) /\ Range(a) = Range(r)
  BY <1>3, <1>6, <1>7, <1>8 DEF Pending
<1>10. /\ turn'.kind = turn.kind /\ turn'.panel = turn.panel /\ turn'.thrown = turn.thrown
       /\ turn'.hosts = <<>> /\ turn'.redirects = <<>> /\ turn'.messages = turn.messages
       /\ \/ /\ more /\ turn'.stage = "ask" /\ turn'.running = <<>> /\ turn'.ask = a /\ turn'.deferred = b
          \/ /\ turn'.stage = "entries" /\ turn'.running = b /\ turn'.ask = r /\ turn'.deferred = <<>>
  <2>1. CASE more
    <3>1. turn' = [turn EXCEPT !.stage = "ask", !.ask = a, !.deferred = b]
      BY <1>1, <1>8, <2>1
    <3>. HIDE DEF more
    <3> QED  BY <1>2, <2>1, <3>1 DEF TurnRec
  <2>2. CASE ~more
    <3>1. turn' = [turn EXCEPT !.stage = "entries", !.running = b, !.ask = r]
      BY <1>1, <1>8, <2>2
    <3>. HIDE DEF more
    <3> QED  BY <1>2, <3>1 DEF TurnRec
  <2> QED  BY <2>1, <2>2
<1>11. more => a[1] \in Agent
  BY <1>7, <1>8
<1>12. LogGrows /\ \A d : Tool(d)' => Tool(d)
  <2>1. PICK m : m = Record(decision, <<c>>)
    OBVIOUS
  <2>2. m \in Rec /\ m.kind # "tool"
    BY <1>3, <2>1 DEF Record, Rec
  <2> QED  BY <1>1, <1>4, <2>1, <2>2, OneAppended
<1>13. Noted(decision, {c})
  BY <1>1, <1>3, <1>4, NoteAppended
<1>. HIDE DEF c, rest, batch, more
<1>14. MoreUsed
  BY <1>1 DEF MoreUsed
<1>15. LogPairs' /\ \A d : Excepted(d) => Excepted(d)'
  BY <1>12, <1>14, ExceptionsKept
<1>16. Work(turn') = Pending(turn.panel)
  <2>1. Work(turn') = Range(turn'.running) \cup Range(turn'.ask) \cup Range(turn'.deferred)
    BY <1>10, NoTurnIdle DEF Work
  <2>2. CASE turn'.running = <<>> /\ turn'.ask = a /\ turn'.deferred = b
    BY <1>9, <2>1, <2>2, NoTurnIdle
  <2>3. CASE turn'.running = b /\ turn'.ask = r /\ turn'.deferred = <<>>
    BY <1>9, <2>1, <2>3, NoTurnIdle
  <2> QED  BY <1>10, <2>2, <2>3
<1>17. PICK m, w : m = turn.messages /\ w = Pending(turn.panel)
  OBVIOUS
<1>18. Pairs(m, w)'
  BY <1>1, <1>5, <1>15, <1>17, PairsKept
<1>19. OfLatest(w)'
  <2>1. w \subseteq Call
    BY <1>2, <1>3, <1>17 DEF Pending, Range
  <2>2. \A d \in w : InLatest(d) \/ d \in stale \/ (d \in Gate /\ Tool(d))
    BY <1>5, <1>17 DEF OfLatest
  <2>3. \A d \in w : InLatest(d)' \/ d \in stale' \/ (d \in Gate /\ Tool(d)')
    BY <1>1, <1>13, <2>1, <2>2 DEF Noted
  <2> QED  BY <2>3 DEF OfLatest
<1>20. /\ turn'.messages = m /\ Work(turn') = w /\ turn'.panel.messages = m /\ Pending(turn'.panel) = w
  BY <1>2, <1>10, <1>16, <1>17
<1>21. /\ Pairs(turn.messages, Work(turn))' /\ OfLatest(Work(turn))'
       /\ Pairs(turn.panel.messages, Pending(turn.panel))'
  BY <1>18, <1>19, <1>20
<1>22. TurnInOrder'
  <2>1. ~turn.thrown
    BY <1>1, <1>5 DEF TurnInOrder, At
  <2>2. turn'.deferred # <<>> => turn'.ask[1] \in Agent
    BY <1>10, <1>11
  <2> QED  BY <1>1, <1>5, <1>10, <2>1, <2>2 DEF TurnInOrder
<1>23. ~(At("resolve")') /\ turn'.kind = "permission" /\ panel' = NoPanel
       /\ (stale' # {} => used'.troubles + used'.crashes # 0)
  BY <1>1, <1>2, <1>5, <1>10 DEF At
<1>24. \A d \in Work(turn') : d \in Pending(turn'.panel)
  BY <1>20
<1> QED  BY <1>15, <1>21, <1>22, <1>23, <1>24 DEF PairInv

\* OpenPanel: the panel takes over what the turn has to do.
LEMMA OpenPanelKeepsPairs == ASSUME IInv, PairInv, OpenPanel PROVE PairInv'
<1>0. PICK c : c = Head(turn.ask)
  OBVIOUS
<1>. DEFINE kind == CASE c \in Asked -> "permission" [] c \in Gate -> "gate" [] OTHER -> "question"
<1>1. /\ At("ask") /\ log' = IF c \in Asked THEN Append(log, Record("request", <<c>>)) ELSE log
      /\ panel' = [kind |-> kind, calls |-> turn.ask, deferred |-> turn.deferred,
                   messages |-> turn.messages]
      /\ turn' = NoTurn /\ stale' = stale /\ used' = used
  BY <1>0 DEF OpenPanel, history
<1>2. kind # "none"
  <2>1. CASE c \in Asked
    BY <2>1, CallAssumption DEF Interactive
  <2>2. CASE c \notin Asked
    BY <2>2
  <2> QED  BY <2>1, <2>2
<1>. HIDE DEF kind
<1>3. /\ turn \in TurnRec /\ turn.stage = "ask" /\ turn.kind # "none" /\ ~At("resolve")
      /\ turn.hosts = <<>> /\ turn.running = <<>> /\ turn.redirects = <<>> /\ turn.ask # <<>>
      /\ log \in Seq(Rec) /\ LogInOrder /\ WorkAgrees
  BY <1>1 DEF IInv, Types, Shape, At
<1>4. turn.ask \in Seq(Call) /\ turn.deferred \in Seq(Call) /\ c \in Call /\ c \in Range(turn.ask)
  BY <1>0, <1>3, TailRange DEF TurnRec
<1>5. Declared(c)
  BY <1>3, <1>4 DEF WorkAgrees, Work
<1>6. /\ TurnInOrder /\ ~turn.thrown
      /\ OfLatest(Work(turn)) /\ Pairs(turn.messages, Work(turn))
      /\ (stale # {} => used.troubles + used.crashes # 0)
  BY <1>3 DEF PairInv, TurnInOrder
<1>7. LogGrows /\ (\A d : Tool(d)' => Tool(d)) /\ \A d \in Call : (InLatest(d)' <=> InLatest(d)) /\ (Tool(d) => Tool(d)')
  <2>1. CASE c \in Asked
    <3>1. PICK m : m = Record("request", <<c>>)
      OBVIOUS
    <3>2. m \in Rec /\ m.kind # "tool"
      BY <1>4, <3>1 DEF Record, Rec
    <3>3. log' = Append(log, m)
      BY <1>1, <2>1, <3>1
    <3>4. Noted("request", {c})
      BY <1>3, <1>4, <1>5, <3>1, <3>3, NoteAppended
    <3>5. LogGrows /\ \A d : Tool(d)' => Tool(d)
      BY <1>1, <1>3, <3>2, <3>3, OneAppended
    <3> QED  BY <3>4, <3>5 DEF Noted
  <2>2. CASE c \notin Asked
    <3>1. log' = log
      BY <1>1, <2>2
    <3>2. LogGrows /\ \A d : Tool(d)' => Tool(d)
      BY <1>1, <1>3, <3>1, NothingAppended
    <3> QED  BY <1>3, <3>1, <3>2, LogUnchanged DEF Noted
  <2> QED  BY <2>1, <2>2
<1>8. MoreUsed
  BY <1>1 DEF MoreUsed
<1>9. LogPairs' /\ \A d : Excepted(d) => Excepted(d)'
  BY <1>7, <1>8, ExceptionsKept
<1>10. PICK m, w, ask, deferred : m = turn.messages /\ w = Work(turn) /\ ask = turn.ask /\ deferred = turn.deferred
  OBVIOUS
<1>11. w = Range(ask) \cup Range(deferred)
  BY <1>3, <1>10, NoTurnIdle DEF Work
<1>12. panel'.messages = m /\ panel'.calls = ask /\ panel'.deferred = deferred /\ panel'.kind # "none"
  BY <1>1, <1>2, <1>10
<1>13. Pending(panel') = w
  BY <1>11, <1>12 DEF Pending
<1>14. Pairs(m, w)'
  BY <1>1, <1>6, <1>9, <1>10, PairsKept
<1>15. OfLatest(w)'
  <2>1. w \subseteq Call
    BY <1>4, <1>10, <1>11 DEF Range
  <2>2. \A d \in w : InLatest(d) \/ d \in stale \/ (d \in Gate /\ Tool(d))
    BY <1>6, <1>10 DEF OfLatest
  <2>3. \A d \in w : InLatest(d)' \/ d \in stale' \/ (d \in Gate /\ Tool(d)')
    BY <1>1, <1>7, <2>1, <2>2
  <2> QED  BY <2>3 DEF OfLatest
<1>16. Pairs(panel.messages, Pending(panel))' /\ OfLatest(Pending(panel))'
  BY <1>12, <1>13, <1>14, <1>15
<1>17. panel'.deferred # <<>> => panel'.calls[1] \in Agent
  BY <1>6, <1>10, <1>12 DEF TurnInOrder
<1>18. panel' # NoPanel
  BY <1>12 DEF NoPanel
<1> QED  BY <1>1, <1>6, <1>9, <1>16, <1>17, <1>18, TurnEndKeepsPairs

-----------------------------------------------------------------------------
(* The end of a turn.                                                        *)

\* A turn that asks the provider has nothing left to do.
LEMMA AtProvider ==
  ASSUME IInv, PairInv, At("provider")
  PROVE  /\ turn \in TurnRec /\ panel = NoPanel /\ turn.kind # "none" /\ ~turn.thrown
         /\ Pairs(turn.messages, {}) /\ turn.messages \in Seq(Rec)
<1>1. /\ turn \in TurnRec /\ panel = NoPanel /\ turn.kind # "none" /\ ~turn.thrown /\ ~At("resolve")
      /\ turn.hosts = <<>> /\ turn.running = <<>> /\ turn.redirects = <<>> /\ turn.ask = <<>>
      /\ turn.deferred = <<>>
  BY DEF IInv, Types, Shape, At, PairInv, TurnInOrder
<1>2. Work(turn) = {}
  BY <1>1, NoTurnIdle DEF Work
<1>3. Pairs(turn.messages, {})
  BY <1>1, <1>2 DEF PairInv
<1> QED  BY <1>1, <1>3 DEF TurnRec

\* GiveUp
LEMMA GiveUpKeepsPairs == ASSUME IInv, PairInv, GiveUp PROVE PairInv'
<1>1. /\ At("provider") /\ conversation' = turn.messages /\ turn' = NoTurn
      /\ log' = log /\ panel' = panel /\ stale' = stale /\ used' = used
  BY DEF GiveUp, history
<1>2. PICK m : m = turn.messages
  OBVIOUS
<1>3. panel' = NoPanel /\ Pairs(m, {}) /\ NoPanel.deferred = <<>>
  BY <1>1, <1>2, AtProvider DEF NoPanel
<1>4. MoreUsed
  BY <1>1 DEF MoreUsed
<1>5. Pairs(m, {})' /\ LogPairs' /\ (stale' # {} => used'.troubles + used'.crashes # 0)
  BY <1>1, <1>3, <1>4, QuietStep
<1>6. Pairs(conversation, {})'
  BY <1>1, <1>2, <1>5
<1> QED  BY <1>1, <1>3, <1>5, <1>6, TurnEndKeepsPairs

\* Reply
LEMMA ReplyKeepsPairs == ASSUME IInv, PairInv, Reply PROVE PairInv'
<1>1. /\ At("provider") /\ log' = Append(log, Record("assistant", <<>>))
      /\ conversation' = Append(turn.messages, Record("assistant", <<>>)) /\ turn' = NoTurn
      /\ panel' = panel /\ stale' = stale /\ used' = used
  BY DEF Reply
<1>2. PICK m, more, none : m = turn.messages /\ none = <<>> /\ more = Append(m, Record("assistant", none))
  OBVIOUS
<1>3. panel' = NoPanel /\ Pairs(m, {}) /\ NoPanel.deferred = <<>> /\ m \in Seq(Rec)
  BY <1>1, <1>2, AtProvider DEF NoPanel
<1>4. none \in Seq(Call) /\ Range(none) = {} /\ log \in Seq(Rec)
  BY <1>2, NoTurnIdle DEF IInv, Types
<1>5. MoreUsed
  BY <1>1 DEF MoreUsed
<1>6. LogGrows /\ \A d : Tool(d)' => Tool(d)
  BY <1>1, <1>2, <1>4, ResponseGrowsLog
<1>7. LogPairs' /\ \A d : Excepted(d) => Excepted(d)'
  BY <1>5, <1>6, ExceptionsKept
<1>8. \A d : Settled(m, d) => Settled(more, d)
  BY <1>2, <1>3, <1>4, ResponseInMessages
<1>9. \A d \in Call : Excepted(d)' \/ Settled(more, d)
  BY <1>3, <1>7, <1>8 DEF Pairs
<1>10. Pairs(more, {})'
  BY <1>9 DEF Pairs
<1>11. Pairs(conversation, {})'
  BY <1>1, <1>2, <1>10
<1>12. stale' # {} => used'.troubles + used'.crashes # 0
  BY <1>1 DEF PairInv
<1> QED  BY <1>1, <1>3, <1>7, <1>11, <1>12, TurnEndKeepsPairs


-----------------------------------------------------------------------------
(* Failures, Escape and restarts.                                            *)

\* A repaired log: what it leaves open is pending, or an exception.
LEMMA RepairedPairs ==
  ASSUME IInv, PairInv, log' = log, stale \subseteq stale', used'.troubles + used'.crashes # 0,
         NEW preserved, NEW m, m = Repair(preserved), NEW pending,
         \A c \in Call : ~Tool(c) /\ c \in preserved => c \in Interactive \/ c \in stale' \/ c \in pending,
         \A c \in pending : c \in Call /\ (c \in stale' \/ (~Tool(c) /\ c \in preserved /\ InLatest(c)))
  PROVE  Pairs(m, pending)'
<1>1. log \in Seq(Rec) /\ LogInOrder /\ LogPairs /\ CallRecords
  BY DEF IInv, Types, PairInv
<1>2. \A c : (Tool(c)' <=> Tool(c)) /\ (Once(c)' <=> Once(c))
  BY DEF Tool, Has, Once, Results
<1>3. ASSUME NEW c \in Call PROVE Excepted(c)' \/ Settled(m, c) \/ c \in pending
  <2>1. CASE ~Tool(c)
    <3>1. CASE c \notin preserved
      BY <1>1, <2>1, <3>1, RepairPairs
    <3>2. CASE c \in preserved
      BY <1>2, <2>1, <3>2 DEF Excepted
    <3> QED  BY <3>1, <3>2
  <2>2. CASE Tool(c) /\ Once(c) /\ c \notin stale
    BY <1>1, <2>2, RepairPairs
  <2>3. CASE ~Once(c)
    <3>1. c \in Gate
      BY <1>1, <2>3 DEF CallRecords
    <3> QED  BY <1>2, <2>3, <3>1 DEF Excepted
  <2>4. CASE c \in stale
    BY <2>4 DEF Excepted
  <2> QED  BY <2>1, <2>2, <2>3, <2>4
<1>4. \A c \in pending : c \in stale' \/ OpenLast(m, c)
  BY <1>1, RepairPairs
<1> QED  BY <1>3, <1>4 DEF Pairs

\* What a failure or an interruption leaves of the exceptions.
LEMMA StopsExcept ==
  ASSUME IInv, Stops
  PROVE  log' = log /\ turn' = NoTurn /\ used'.troubles + used'.crashes # 0
<1>1. used \in [rounds : 0..MaxRounds, prompts : 0..MaxPrompts, troubles : 0..MaxTroubles, crashes : 0..MaxCrashes]
  BY DEF IInv, Types
<1>2. used' = [used EXCEPT !.troubles = @ + 1] /\ log' = log /\ turn' = NoTurn
  BY DEF Stops, Spend
<1>3. used'.troubles = used.troubles + 1 /\ used'.crashes = used.crashes
  BY <1>1, <1>2
<1>4. used.troubles \in Nat /\ used.crashes \in Nat
  BY <1>1
<1> QED  BY <1>2, <1>3, <1>4

\* The log's pairs do not depend on more stale requests.
LEMMA LogPairsSame ==
  ASSUME PairInv, log' = log, stale \subseteq stale'
  PROVE  LogPairs'
<1>1. \A c : (Tool(c)' <=> Tool(c)) /\ (Once(c)' <=> Once(c)) /\ \A i : (Issues(i, c)' <=> Issues(i, c))
  BY DEF Tool, Has, Once, Results, Issues
<1> QED  BY <1>1 DEF PairInv, LogPairs

\* Preserved calls: requests without a resolution, and unanswered interactive calls.
LEMMA PreservedCalls ==
  ASSUME IInv
  PROVE  \A c \in Preserved : \/ c \in PendingPermission /\ c \in Call /\ Requested(c) /\ ~Resolved(c)
                              \/ c \in Interactive /\ c \in Call
<1>1. log \in Seq(Rec) /\ LogInOrder
  BY DEF IInv, Types
<1>2. CallsPend /\ Gate \in SUBSET Call /\ Question \in SUBSET Call
  BY <1>1, PendingCalls, CallAssumption DEF Interactive
<1>3. PendingCall(Gate) \subseteq Gate /\ PendingCall(Question) \subseteq Question
  BY <1>2 DEF CallsPend
<1>4. \A c \in PendingPermission : c \in Call /\ Requested(c) /\ ~Resolved(c)
  BY <1>1, PendingIsOpen
<1> QED  BY <1>2, <1>3, <1>4 DEF Preserved, Interactive

\* FailPrompt and TakeOver: every call without a result gets one.
LEMMA RebuiltKeepsPairs ==
  ASSUME IInv, PairInv, Stops, panel' = panel, turn.kind # "none", stale \subseteq stale',
         NEW preserved, conversation' = Repair(preserved),
         \A c \in preserved : c \in stale' \/ c \in Interactive
  PROVE  PairInv'
<1>1. log' = log /\ turn' = NoTurn /\ used'.troubles + used'.crashes # 0
  BY StopsExcept
<1>2. panel' = NoPanel /\ NoPanel.deferred = <<>>
  BY DEF IInv, NoPanel
<1>3. PICK m : m = Repair(preserved)
  OBVIOUS
<1>4. Pairs(m, {})'
  BY <1>1, <1>3, RepairedPairs
<1>5. Pairs(conversation, {})'
  BY <1>3, <1>4
<1>6. LogPairs'
  BY <1>1, LogPairsSame
<1> QED  BY <1>1, <1>2, <1>5, <1>6, TurnEndKeepsPairs

\* FailPrompt
LEMMA FailPromptKeepsPairs == ASSUME IInv, PairInv, FailPrompt PROVE PairInv'
<1>1. Stops /\ panel' = panel /\ turn.kind # "none" /\ stale' = stale /\ conversation' = Repair({})
  BY DEF FailPrompt
<1> QED  BY <1>1, RebuiltKeepsPairs

\* TakeOver
LEMMA TakeOverKeepsPairs == ASSUME IInv, PairInv, TakeOver PROVE PairInv'
<1>1. Stops /\ panel' = panel /\ turn.kind # "none" /\ stale \subseteq stale' /\ conversation' = Repair({})
  BY DEF TakeOver, Continuation
<1> QED  BY <1>1, RebuiltKeepsPairs

\* InterruptPrompt: the conversation from before the turn, or a rebuilt one.
LEMMA InterruptPromptKeepsPairs == ASSUME IInv, PairInv, InterruptPrompt PROVE PairInv'
<1>1. /\ turn.kind = "prompt" /\ Stops /\ panel' = panel /\ stale' = stale
      /\ conversation' = conversation \/ conversation' = Repair(Preserved)
  BY DEF InterruptPrompt
<1>2. log' = log /\ turn' = NoTurn /\ used'.troubles + used'.crashes # 0 /\ MoreUsed
  BY <1>1, StopsExcept DEF MoreUsed
<1>3. panel = NoPanel /\ ~At("resolve") /\ NoPanel.deferred = <<>>
  BY <1>1 DEF IInv, Shape, At, NoPanel
<1>4. CASE conversation' = conversation
  <2>1. PICK m : m = conversation
    OBVIOUS
  <2>2. Pairs(m, {})
    BY <1>1, <1>3, <2>1 DEF PairInv
  <2>3. Pairs(m, {})' /\ LogPairs'
    BY <1>1, <1>2, <2>2, QuietStep
  <2>4. Pairs(conversation, {})'
    BY <1>4, <2>1, <2>3
  <2> QED  BY <1>1, <1>2, <1>3, <2>3, <2>4, TurnEndKeepsPairs
<1>5. CASE conversation' = Repair(Preserved)
  <2>1. \A c \in Call : Requested(c) /\ ~Resolved(c) => c \in stale
    BY <1>3, NothingShown
  <2>2. \A c \in Preserved : c \in stale' \/ c \in Interactive
    BY <1>1, <2>1, PreservedCalls
  <2>3. PICK preserved : preserved = Preserved
    OBVIOUS
  <2> QED  BY <1>1, <1>5, <2>2, <2>3, RebuiltKeepsPairs
<1> QED  BY <1>1, <1>4, <1>5

\* StopContinuation: the panel comes back as it was, or what it asked is settled.
LEMMA StopContinuationKeepsPairs == ASSUME IInv, PairInv, StopContinuation PROVE PairInv'
<1>1. /\ Continuation /\ Stops /\ panel' = Reopened /\ stale' = stale
      /\ Reopened = NoPanel => conversation' = Repair(Preserved)
  BY DEF StopContinuation
<1>2. log' = log /\ turn' = NoTurn /\ used'.troubles + used'.crashes # 0 /\ MoreUsed
  BY <1>1, StopsExcept DEF MoreUsed
<1>3. /\ panel = NoPanel /\ NoPanel.deferred = <<>> /\ turn.kind # "none"
      /\ log \in Seq(Rec) /\ LogInOrder
  BY <1>1 DEF IInv, Types, Continuation, NoPanel
<1>4. /\ At("resolve") => \A c : AtUser(turn.panel, c) => Reopened = turn.panel
      /\ Reopened = turn.panel \/ Reopened = NoPanel
  BY <1>1, <1>2, StopsShape, ReopenedAgrees DEF At
<1>5. CASE Reopened = NoPanel
  <2>1. ASSUME NEW c \in Call, Requested(c), ~Resolved(c) PROVE c \in stale
    <3>1. CASE ~At("resolve")
      BY <1>3, <2>1, <3>1, NothingShown
    <3>2. CASE At("resolve")
      <4>1. c \notin stale => AtUser(turn.panel, c)
        BY <2>1, <3>2, ResolvingIdle
      <4>2. ~AtUser(turn.panel, c)
        <5>1. ASSUME AtUser(turn.panel, c) PROVE FALSE
          <6>1. turn.panel = NoPanel
            BY <1>4, <1>5, <3>2, <5>1
          <6> QED  BY <5>1, <6>1 DEF AtUser, NoPanel
        <5> QED  BY <5>1
      <4> QED  BY <4>1, <4>2
    <3> QED  BY <3>1, <3>2
  <2>2. \A c \in Preserved : c \in stale' \/ c \in Interactive
    BY <1>1, <2>1, PreservedCalls
  <2>3. PICK preserved : preserved = Preserved
    OBVIOUS
  <2>4. panel' = panel /\ conversation' = Repair(preserved)
    BY <1>1, <1>3, <1>5, <2>3
  <2> QED  BY <1>1, <1>3, <2>2, <2>3, <2>4, RebuiltKeepsPairs
<1>6. CASE Reopened = turn.panel /\ Reopened # NoPanel
  <2>1. PICK m, w, p : p = turn.panel /\ m = p.messages /\ w = Pending(p)
    OBVIOUS
  <2>2. panel' = p
    BY <1>1, <1>6, <2>1
  <2>3. Pairs(m, w)
    BY <1>1, <2>1 DEF PairInv
  <2>4. OfLatest(w)
    <3>1. CASE At("resolve")
      BY <2>1, <3>1 DEF PairInv
    <3>2. CASE ~At("resolve") /\ turn.kind = "permission"
      <4>1. PICK c \in Asked : turn.panel.calls[1] = c /\ Resolved(c)
        BY <3>2 DEF IInv, ResolvesPanel, Continuation
      <4>2. c \notin PendingPermission
        BY <1>3, <4>1, PendingIsOpen
      <4>3. Reopened = NoPanel
        BY <3>2, <4>1, <4>2 DEF Reopened
      <4> QED  BY <1>6, <4>3
    <3>3. CASE ~At("resolve") /\ turn.kind = "question"
      <4>1. PICK c \in Interactive : turn.panel.calls = <<c>> /\ Tool(c)
        BY <3>3 DEF IInv, ResolvesPanel, Continuation
      <4>2. c \notin PendingCall(Question)
        <5>1. CallsPend /\ Question \in SUBSET Call
          BY <1>3, PendingCalls, CallAssumption DEF Interactive
        <5> QED  BY <4>1, <5>1 DEF CallsPend
      <4>3. Reopened = NoPanel
        BY <3>3, <4>1, <4>2 DEF Reopened
      <4> QED  BY <1>6, <4>3
    <3>4. CASE ~At("resolve") /\ turn.kind = "gate"
      <4>1. PICK c \in Gate : turn.panel.calls = <<c>> /\ Tool(c) /\ turn.panel.deferred = <<>>
        BY <3>4 DEF IInv, ResolvesPanel, Continuation
      <4>2. Range(<<c>>) = {c}
        BY DEF Range
      <4>3. w = {c}
        BY <2>1, <4>1, <4>2, NoTurnIdle DEF Pending
      <4> QED  BY <4>1, <4>3 DEF OfLatest
    <3> QED  BY <1>1, <3>1, <3>2, <3>3, <3>4 DEF Continuation
  <2>5. Pairs(m, w)' /\ OfLatest(w)' /\ LogPairs'
    BY <1>1, <1>2, <2>3, <2>4, QuietStep
  <2>6. panel'.messages = m /\ Pending(panel') = w
    BY <2>1, <2>2
  <2>7. Pairs(panel.messages, Pending(panel))' /\ OfLatest(Pending(panel))'
    BY <2>5, <2>6
  <2>8. panel'.deferred # <<>> => panel'.calls[1] \in Agent
    BY <2>1, <2>2 DEF PairInv, TurnInOrder
  <2>9. panel' # NoPanel
    BY <1>1, <1>6
  <2> QED  BY <1>2, <2>5, <2>7, <2>8, <2>9, TurnEndKeepsPairs
<1> QED  BY <1>4, <1>5, <1>6

\* Restart: the conversation and the panel are rebuilt from the log.
LEMMA RestartKeepsPairs == ASSUME IInv, PairInv, Restart PROVE PairInv'
<1>1. /\ turn' = NoTurn /\ panel' = RestoredPanel /\ conversation' = Repair(Preserved)
      /\ log' = log /\ stale' = stale /\ used' = [used EXCEPT !.crashes = @ + 1]
  BY DEF Restart, Spend, history
<1>2. used'.troubles + used'.crashes # 0
  <2>1. used \in [rounds : 0..MaxRounds, prompts : 0..MaxPrompts, troubles : 0..MaxTroubles, crashes : 0..MaxCrashes]
    BY DEF IInv, Types
  <2>2. used'.crashes = used.crashes + 1 /\ used'.troubles = used.troubles
    BY <1>1, <2>1
  <2>3. used.troubles \in Nat /\ used.crashes \in Nat
    BY <2>1
  <2> QED  BY <2>2, <2>3
<1>3. /\ log \in Seq(Rec) /\ LogInOrder /\ CallRecords /\ RequestsShown /\ RestoresOne
      /\ NoPanel.deferred = <<>>
  BY RestoredAgrees DEF IInv, Types, NoPanel
<1>4. LogPairs'
  BY <1>1, LogPairsSame
<1>5. PICK m, preserved : preserved = Preserved /\ m = Repair(preserved)
  OBVIOUS
<1>6. CASE RestoredPanel = NoPanel /\ PendingPermission = {}
  <2>1. \A c \in preserved : c \in Interactive
    BY <1>5, <1>6, PreservedCalls
  <2>2. Pairs(m, {})'
    BY <1>1, <1>2, <1>5, <2>1, RepairedPairs
  <2>3. Pairs(conversation, {})' /\ panel' = NoPanel
    BY <1>1, <1>5, <1>6, <2>2
  <2> QED  BY <1>1, <1>2, <1>3, <1>4, <2>3, TurnEndKeepsPairs
<1>7. ASSUME NEW c \in Call, RestoredPanel.calls = <<c>>, RestoredPanel.deferred = <<>>,
             RestoredPanel.messages = Repair(Preserved), RestoredPanel # NoPanel,
             PendingPermission \subseteq {c},
             {c} \in {PendingPermission, PendingCall(Gate), PendingCall(Question)}
      PROVE  PairInv'
  <2>1. /\ panel'.calls = <<c>> /\ panel'.deferred = <<>> /\ panel'.messages = m /\ panel' # NoPanel
    BY <1>1, <1>5, <1>7
  <2>2. Range(<<c>>) = {c}
    BY DEF Range
  <2>3. Pending(panel') = {c}
    BY <2>1, <2>2, NoTurnIdle DEF Pending
  <2>4. c \in preserved
    BY <1>5, <1>7 DEF Preserved
  <2>5. c \in stale \/ (~Tool(c) /\ InLatest(c))
    <3>1. CASE {c} = PendingPermission
      <4>1. Requested(c) /\ ~Resolved(c)
        BY <1>3, <3>1, PendingIsOpen
      <4>2. c \in Asked /\ ~Tool(c) /\ c \notin Gate
        BY <1>3, <4>1, CallAssumption DEF CallRecords, Interactive
      <4>3. ASSUME NEW p \in PanelRec, AtUser(p, c), PanelAgrees(p) PROVE c \in Pending(p)
        <5>1. p.calls # <<>> /\ p.calls \in Seq(Call) /\ p.calls[1] = c
          BY <4>3 DEF AtUser, PanelAgrees, PanelRec
        <5> QED  BY <5>1, TailRange DEF Pending
      <4>4. CASE c \notin stale /\ AtUser(panel, c)
        <5>1. panel # NoPanel /\ panel \in PanelRec /\ PanelAgrees(panel)
          BY <4>4 DEF AtUser, NoPanel, IInv, Types
        <5>2. OfLatest(Pending(panel))
          BY <5>1 DEF PairInv
        <5> QED  BY <4>2, <4>3, <4>4, <5>1, <5>2 DEF OfLatest
      <4>5. CASE c \notin stale /\ At("resolve") /\ AtUser(turn.panel, c)
        <5>1. turn.panel \in PanelRec /\ PanelAgrees(turn.panel)
          BY <4>5, ResolvingIdle
        <5>2. OfLatest(Pending(turn.panel))
          BY <4>5 DEF PairInv
        <5> QED  BY <4>2, <4>3, <4>5, <5>1, <5>2 DEF OfLatest
      <4> QED  BY <1>3, <4>1, <4>4, <4>5 DEF RequestsShown
    <3>2. CASE {c} = PendingCall(Gate) \/ {c} = PendingCall(Question)
      <4>1. CallsPend /\ Gate \in SUBSET Call /\ Question \in SUBSET Call
        BY <1>3, PendingCalls, CallAssumption DEF Interactive
      <4>2. ASSUME NEW kind \in SUBSET Call, {c} = PendingCall(kind) PROVE ~Tool(c) /\ InLatest(c)
        BY <4>1, <4>2 DEF CallsPend
      <4> QED  BY <3>2, <4>1, <4>2
    <3> QED  BY <1>7, <3>1, <3>2
  <2>6. \A d \in preserved : d \in Interactive \/ d \in {c}
    BY <1>5, <1>7, PreservedCalls
  <2>7. Pairs(m, {c})'
    BY <1>1, <1>2, <1>5, <2>4, <2>5, <2>6, RepairedPairs
  <2>8. OfLatest({c})'
    <3>1. InLatest(c)' <=> InLatest(c)
      BY <1>1 DEF InLatest, Latest, Issues
    <3> QED  BY <1>1, <2>5, <3>1 DEF OfLatest
  <2>9. Pairs(panel.messages, Pending(panel))' /\ OfLatest(Pending(panel))'
    BY <2>1, <2>3, <2>7, <2>8
  <2> QED  BY <1>1, <1>2, <1>4, <2>1, <2>9, TurnEndKeepsPairs
<1> QED  BY <1>3, <1>6, <1>7 DEF RestoresOne


-----------------------------------------------------------------------------
(* Every call has one result: the theorem.                                   *)

\* A new session.
LEMMA InitPairs == ASSUME Init PROVE PairInv
<1>1. /\ log = <<>> /\ conversation = <<>> /\ panel = NoPanel /\ turn = NoTurn /\ stale = {}
  BY DEF Init
<1>2. /\ turn.kind = "none" /\ turn.stage = "none" /\ turn.panel = NoPanel /\ turn.deferred = <<>>
      /\ turn.thrown = FALSE /\ panel.deferred = <<>> /\ turn.panel.deferred = <<>> /\ Work(turn) = {}
  <2>1. NoTurn.thrown = FALSE /\ NoPanel.deferred = <<>>
    BY DEF NoTurn, NoPanel
  <2> QED  BY <1>1, <2>1, NoTurnIdle
<1>3. \A c : ~Tool(c)
  BY <1>1 DEF Tool, Has
<1>4. LogPairs
  BY <1>3 DEF LogPairs
<1>5. TurnInOrder
  BY <1>2 DEF TurnInOrder
<1>6. Pairs(conversation, {})
  <2>1. \A c : Unmentioned(conversation, c)
    BY <1>1 DEF Unmentioned, Declarations, Answers
  <2> QED  BY <2>1, UnmentionedSettled DEF Pairs
<1>7. ~Continuation /\ ~At("resolve")
  BY <1>2 DEF Continuation, At
<1> QED  BY <1>1, <1>2, <1>4, <1>5, <1>6, <1>7 DEF PairInv

\* A step that changes nothing.
LEMMA StutterKeepsPairs == ASSUME IInv, PairInv, UNCHANGED vars PROVE PairInv'
<1>1. /\ log' = log /\ conversation' = conversation /\ panel' = panel /\ turn' = turn
      /\ stale' = stale /\ used' = used
  BY DEF vars, history
<1>2. MoreUsed
  BY <1>1 DEF MoreUsed
<1>3. /\ LogPairs' /\ \A messages, pending : Pairs(messages, pending) => Pairs(messages, pending)'
      /\ \A pending : OfLatest(pending) => OfLatest(pending)'
      /\ stale' # {} => used'.troubles + used'.crashes # 0
  BY <1>1, <1>2, QuietStep
<1>4. TurnInOrder'
  BY <1>1 DEF PairInv, TurnInOrder
<1>5. PICK m1, m2, m3, m4, w2, w3, w4 :
        /\ m1 = conversation /\ m2 = panel.messages /\ m3 = turn.panel.messages /\ m4 = turn.messages
        /\ w2 = Pending(panel) /\ w3 = Pending(turn.panel) /\ w4 = Work(turn)
  OBVIOUS
<1>6. /\ conversation' = m1 /\ panel'.messages = m2 /\ turn'.panel.messages = m3 /\ turn'.messages = m4
      /\ Pending(panel') = w2 /\ Pending(turn'.panel) = w3 /\ Work(turn') = w4
  BY <1>1, <1>5
<1>7. (Continuation' <=> Continuation) /\ (At("resolve")' <=> At("resolve"))
  BY <1>1 DEF Continuation, At
<1>8. /\ panel = NoPanel /\ turn.kind \in {"none", "prompt"} => Pairs(m1, {})
      /\ panel # NoPanel => Pairs(m2, w2) /\ OfLatest(w2)
      /\ Continuation => Pairs(m3, w3)
      /\ At("resolve") => OfLatest(w3)
      /\ turn.kind # "none" /\ ~At("resolve") => OfLatest(w4) /\ (~turn.thrown => Pairs(m4, w4))
      /\ \A c \in w4 :
           /\ turn.kind = "prompt" => Unmentioned(m1, c)
           /\ Continuation => c \in w3 \/ Unmentioned(m3, c)
  BY <1>5 DEF PairInv
<1>9. /\ panel' = NoPanel /\ turn'.kind \in {"none", "prompt"} => Pairs(conversation, {})'
      /\ panel' # NoPanel => Pairs(panel.messages, Pending(panel))' /\ OfLatest(Pending(panel))'
      /\ Continuation' => Pairs(turn.panel.messages, Pending(turn.panel))'
      /\ At("resolve")' => OfLatest(Pending(turn.panel))'
      /\ turn'.kind # "none" /\ ~(At("resolve")') =>
           OfLatest(Work(turn))' /\ (~turn'.thrown => Pairs(turn.messages, Work(turn))')
  BY <1>1, <1>3, <1>6, <1>7, <1>8
<1>10. \A c \in Work(turn') :
         /\ turn'.kind = "prompt" => Unmentioned(conversation', c)
         /\ Continuation' => c \in Pending(turn'.panel) \/ Unmentioned(turn'.panel.messages, c)
  BY <1>1, <1>6, <1>7, <1>8
<1> QED  BY <1>3, <1>4, <1>9, <1>10 DEF PairInv

\* Every step keeps the pairs.
LEMMA StepKeepsPairs == ASSUME IInv, PairInv, [Next]_vars PROVE PairInv'
<1>1. CASE SubmitPrompt
  BY <1>1, SubmitPromptKeepsPairs
<1>2. CASE Decide
  BY <1>2, DecideKeepsPairs
<1>3. CASE TurnStep
  <2>1. CASE Reply
    BY <2>1, ReplyKeepsPairs
  <2>2. CASE GiveUp
    BY <2>2, GiveUpKeepsPairs
  <2>3. CASE \E calls \in Batch : Respond(calls)
    BY <2>3, RespondKeepsPairs
  <2>4. CASE StartAgents
    BY <2>4, StartAgentsKeepsPairs
  <2>5. CASE RunHost
    BY <2>5, RunHostKeepsPairs
  <2>6. CASE HostReturns
    BY <2>6, HostReturnsKeepsPairs
  <2>7. CASE HostThrows
    BY <2>7, HostThrowsKeepsPairs
  <2>8. CASE RecordResult
    BY <2>8, RecordResultKeepsPairs
  <2>9. CASE Redirect
    BY <2>9, RedirectKeepsPairs
  <2>10. CASE RefuseGate
    BY <2>10, RefuseGateKeepsPairs
  <2>11. CASE OpenPanel
    BY <2>11, OpenPanelKeepsPairs
  <2>12. CASE AnswerInteraction
    BY <2>12, AnswerInteractionKeepsPairs
  <2>13. CASE \E decision \in {"allow", "reject"} : ResolvePermission(decision)
    BY <2>13, ResolvePermissionKeepsPairs
  <2>14. CASE RunEntries
    BY <2>14, RunEntriesKeepsPairs
  <2>15. CASE EntriesReturn
    BY <2>15, EntriesReturnKeepsPairs
  <2>16. CASE StopContinuation
    BY <2>16, StopContinuationKeepsPairs
  <2>17. CASE FailPrompt
    BY <2>17, FailPromptKeepsPairs
  <2>18. CASE InterruptPrompt
    BY <2>18, InterruptPromptKeepsPairs
  <2>19. CASE TakeOver
    BY <2>19, TakeOverKeepsPairs
  <2> QED  BY <1>3, <2>1, <2>2, <2>3, <2>4, <2>5, <2>6, <2>7, <2>8, <2>9, <2>10, <2>11, <2>12, <2>13,
              <2>14, <2>15, <2>16, <2>17, <2>18, <2>19 DEF TurnStep
<1>4. CASE Restart
  BY <1>4, RestartKeepsPairs
<1>5. CASE UNCHANGED vars
  BY <1>5, StutterKeepsPairs
<1> QED  BY <1>1, <1>2, <1>3, <1>4, <1>5 DEF Next

\* In the log, the conversation, the panels and the turn, the only open calls are
\* those still to be answered and the exceptions.
THEOREM PairInvariant == Spec => []PairInv
<1>1. Init => PairInv
  BY InitPairs
<1>2. IInv /\ PairInv /\ [Next]_vars => PairInv'
  BY StepKeepsPairs
<1> QED  BY <1>1, <1>2, TurnInvariant, PTL DEF Spec

\* Every exception is excused.
LEMMA ExceptedExcused ==
  ASSUME NEW c \in Call, Excepted(c), log \in Seq(Rec)
  PROVE  c \in Excused
<1>1. CASE c \in Gate /\ ~Once(c)
  <2>1. PICK i, j \in Results(c) : i # j
    BY <1>1 DEF Once
  <2>2. IsFiniteSet(Results(c))
    <3>1. Results(c) \subseteq 1..Len(log) /\ Len(log) \in Nat
      BY DEF Results
    <3>2. IsFiniteSet(1..Len(log))
      BY <3>1, FS_Interval
    <3> QED  BY <3>1, <3>2, FS_Subset
  <2>3. Cardinality(Results(c)) > 1
    <3>1. Cardinality(Results(c)) \in Nat
      BY <2>2, FS_CardinalityType
    <3>2. Cardinality(Results(c)) # 0
      BY <2>1, <2>2, FS_EmptySet
    <3>3. Cardinality(Results(c)) # 1
      <4>1. ASSUME Cardinality(Results(c)) = 1 PROVE FALSE
        <5>1. \E x : Results(c) = {x}
          BY <2>2, <4>1, FS_Singleton
        <5> QED  BY <2>1, <5>1
      <4> QED  BY <4>1
    <3> QED  BY <3>1, <3>2, <3>3
  <2>4. c \in Redecided
    BY <1>1, <2>3 DEF Redecided
  <2> QED  BY <2>4 DEF Excepted, Excused
<1>2. CASE c \in Interactive /\ ~Tool(c)
  <2>1. c \in Unshown
    BY <1>2 DEF Unshown, Results, Tool, Has
  <2> QED  BY <2>1 DEF Excepted, Excused
<1>3. CASE c \in stale
  BY <1>3 DEF Excepted, Excused
<1> QED  BY <1>1, <1>2, <1>3 DEF Excepted

\* Whatever fails, is interrupted or restarted between any two appends, the
\* provider gets a history in which every call has its one result, the cases of
\* Excused apart.
THEOREM PairingSafety == Spec => []OtherRequestsPaired
<1>1. ASSUME IInv, PairInv PROVE OtherRequestsPaired
  <2>1. SUFFICES ASSUME At("provider") PROVE PairedIn(turn.messages, Call \ Excused)
    BY DEF OtherRequestsPaired
  <2>2. Pairs(turn.messages, {}) /\ log \in Seq(Rec)
    BY <1>1, <2>1, AtProvider DEF IInv, Types
  <2>3. \A c \in Call \ Excused : Settled(turn.messages, c)
    BY <2>2, ExceptedExcused DEF Pairs
  <2>4. PICK m : m = turn.messages
    OBVIOUS
  <2>5. \A c \in Call \ Excused : PairedIn(m, {c})
    BY <2>3, <2>4 DEF Settled
  <2>6. PairedIn(m, Call \ Excused)
    BY <2>5 DEF PairedIn
  <2> QED  BY <2>4, <2>6
<1> QED  BY <1>1, TurnInvariant, PairInvariant, PTL
=============================================================================
