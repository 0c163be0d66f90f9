----------------------------- MODULE DataLemmas -----------------------------
(***************************************************************************)
(* What the data of the components is like: induction over the naturals,   *)
(* indexes of a sequence, filtered lists, lists in order, the queues of    *)
(* WaitQueue, the branches and the messages of SessionTree.                *)
(***************************************************************************)
EXTENDS WaitQueue, SessionTree, Selection, SequenceTheorems, FiniteSetTheorems, WellFoundedInduction, TLAPS

-----------------------------------------------------------------------------
(* Numbers and indexes.                                                      *)

\* Induction over the naturals, for a set.
LEMMA EveryNatural ==
  ASSUME NEW S, 0 \in S, \A n \in Nat : n \in S => n + 1 \in S
  PROVE  \A n \in Nat : n \in S
<1>. DEFINE Bad == {T \in FiniteSubsetsOf(Nat) : \E n \in Nat : n \notin S /\ T = 1..n}
<1>. SUFFICES ASSUME NEW n \in Nat, n \notin S PROVE FALSE
  OBVIOUS
<1>1. \A m \in Nat : 1..m \in FiniteSubsetsOf(Nat)
  BY FS_Interval DEF FiniteSubsetsOf
<1>2. 1..n \in Bad
  BY <1>1
<1>3. PICK T \in Bad : \A U \in Bad : <<U, T>> \notin StrictSubsetOrdering(Nat)
  BY <1>2, FS_StrictSubsetOrderingWellFounded, WFMin, Bad \subseteq FiniteSubsetsOf(Nat)
<1>4. PICK m \in Nat : m \notin S /\ T = 1..m
  OBVIOUS
<1>5. m # 0 /\ m - 1 \in Nat /\ (m - 1) + 1 = m
  BY <1>4
<1>6. 1..(m - 1) \in Bad
  <2>1. m - 1 \notin S
    BY <1>4, <1>5
  <2>2. QED
    BY <1>1, <1>5, <2>1
<1>7. <<1..(m - 1), T>> \in StrictSubsetOrdering(Nat)
  <2>1. 1..(m - 1) \subseteq T /\ 1..(m - 1) # T
    BY <1>4, <1>5
  <2>2. QED
    BY <1>1, <1>4, <1>5, <2>1 DEF StrictSubsetOrdering, FiniteSubsetsOf
<1>8. QED
  BY <1>3, <1>6, <1>7

\* Max of some indexes of a sequence is one of them, and the greatest.
LEMMA LastIndex ==
  ASSUME NEW n \in Nat, NEW S, S \subseteq 1..n, S # {}
  PROVE  Max(S) \in S /\ \A i \in S : i <= Max(S)
<1>. DEFINE Bounded == {m \in Nat : \A T : T \subseteq 1..m /\ T # {} => \E x \in T : \A y \in T : x >= y}
<1>1. 0 \in Bounded
  OBVIOUS
<1>2. ASSUME NEW m \in Nat, m \in Bounded PROVE m + 1 \in Bounded
  <2>. SUFFICES ASSUME NEW T, T \subseteq 1..(m + 1), T # {}
                PROVE  \E x \in T : \A y \in T : x >= y
    OBVIOUS
  <2>1. CASE m + 1 \in T
    BY <2>1
  <2>2. CASE m + 1 \notin T
    <3>1. T \subseteq 1..m
      BY <2>2
    <3>2. QED
      BY <1>2, <3>1
  <2>3. QED
    BY <2>1, <2>2
<1>3. \A m \in Nat : m \in Bounded
  <2>. HIDE DEF Bounded
  <2>1. QED
    BY <1>1, <1>2, EveryNatural
<1>4. \E x \in S : \A y \in S : x >= y
  BY <1>3
<1>5. QED
  BY <1>4 DEF Max

\* Min of some indexes of a sequence is one of them.
LEMMA FirstIndex ==
  ASSUME NEW n \in Nat, NEW S, S \subseteq 1..n, S # {}
  PROVE  Min(S) \in S
<1>. DEFINE T == {n + 1 - i : i \in S}
<1>1. PICK i \in S : TRUE
  OBVIOUS
<1>2. T \subseteq 1..n /\ n + 1 - i \in T
  BY <1>1
<1>3. Max(T) \in T /\ \A j \in T : j <= Max(T)
  BY <1>2, LastIndex
<1>4. PICK m \in S : Max(T) = n + 1 - m
  BY <1>3
<1>5. \A j \in S : m <= j
  <2>1. ASSUME NEW j \in S PROVE n + 1 - j \in T /\ n + 1 - j <= n + 1 - m
    <3>1. n + 1 - j \in T
      OBVIOUS
    <3>2. QED
      BY <1>3, <1>4, <3>1
  <2>2. QED
    BY <2>1
<1>. HIDE DEF T
<1>6. \E x \in S : \A y \in S : x <= y
  BY <1>5
<1>7. QED
  BY <1>6 DEF Min

\* The elements of an extended sequence.
LEMMA AppendRange ==
  ASSUME NEW T, NEW s \in Seq(T), NEW e \in T
  PROVE  /\ Append(s, e) \in Seq(T) /\ Range(Append(s, e)) = Range(s) \cup {e}
         /\ IsInjective(s) /\ e \notin Range(s) => IsInjective(Append(s, e))
<1>. DEFINE t == Append(s, e)
<1>1. /\ t \in Seq(T) /\ DOMAIN t = 1..(Len(s) + 1) /\ DOMAIN s = 1..Len(s) /\ Len(s) \in Nat
      /\ t[Len(s) + 1] = e /\ \A i \in 1..Len(s) : t[i] = s[i]
  OBVIOUS
<1>. HIDE DEF t
<1>2. Range(t) = Range(s) \cup {e}
  <2>1. \A i \in DOMAIN t : t[i] \in Range(s) \cup {e}
    BY <1>1 DEF Range
  <2>2. \A i \in DOMAIN s : s[i] \in Range(t)
    BY <1>1 DEF Range
  <2>3. e \in Range(t)
    BY <1>1 DEF Range
  <2>4. QED
    BY <2>1, <2>2, <2>3 DEF Range
<1>3. IsInjective(s) /\ e \notin Range(s) => IsInjective(t)
  BY <1>1 DEF Range, IsInjective
<1>4. QED
  BY <1>1, <1>2, <1>3 DEF t

-----------------------------------------------------------------------------
(* Lists and their filters.                                                  *)

\* The recursion of Only, unfolded: what is kept of each prefix.
Filters(kept, calls, wanted) ==
  /\ kept[0] = <<>> /\ Only(calls, wanted) = kept[Len(calls)]
  /\ \A n \in 1..Len(calls) :
       kept[n] = IF calls[n] \in wanted THEN Append(kept[n - 1], calls[n]) ELSE kept[n - 1]

\* The recursive function behind calls.filter() is a filter of every prefix.
LEMMA OnlyPrefixes ==
  ASSUME NEW T, NEW calls \in Seq(T), NEW wanted
  PROVE  \E kept \in [0..Len(calls) -> Seq(T)] : Filters(kept, calls, wanted)
<1>. DEFINE Step(f, n) == IF calls[n] \in wanted THEN Append(f[n - 1], calls[n]) ELSE f[n - 1]
            Unfolded(m) == {f \in [0..m -> Seq(T)] : f[0] = <<>> /\ \A n \in 1..m : f[n] = Step(f, n)}
            Reached == {m \in Nat : m <= Len(calls) => Unfolded(m) # {}}
            kept == CHOOSE f : f = [n \in 0..Len(calls) |-> IF n = 0 THEN <<>> ELSE Step(f, n)]
<1>0. Len(calls) \in Nat /\ Len(calls) <= Len(calls) /\ 0 \in 0..Len(calls)
  OBVIOUS
<1>1. 0 \in Reached
  <2>1. [n \in 0..0 |-> <<>>] \in Unfolded(0)
    OBVIOUS
  <2>2. QED
    BY <2>1
<1>2. ASSUME NEW m \in Nat, m \in Reached PROVE m + 1 \in Reached
  <2>. SUFFICES ASSUME m + 1 <= Len(calls) PROVE Unfolded(m + 1) # {}
    <3>. HIDE DEF Unfolded
    <3>1. QED
      OBVIOUS
  <2>1. PICK f \in Unfolded(m) : TRUE
    BY <1>2
  <2>2. m + 1 \in 1..Len(calls) /\ calls[m + 1] \in T /\ f[m] \in Seq(T)
    BY <2>1
  <2>. DEFINE g == [n \in 0..(m + 1) |-> IF n <= m THEN f[n] ELSE Step(f, m + 1)]
  <2>3. Step(f, m + 1) \in Seq(T)
    <3>1. Append(f[m], calls[m + 1]) \in Seq(T) /\ (m + 1) - 1 = m
      BY <2>2
    <3>2. QED
      BY <2>2, <3>1
  <2>4. g \in [0..(m + 1) -> Seq(T)] /\ g[0] = <<>> /\ \A n \in 1..(m + 1) : g[n] = Step(g, n)
    <3>1. \A n \in 0..m : f[n] \in Seq(T) /\ g[n] = f[n]
      BY <2>1
    <3>2. g[m + 1] = Step(f, m + 1) /\ Step(g, m + 1) = Step(f, m + 1)
      BY <2>2, <3>1
    <3>3. ASSUME NEW n \in 1..(m + 1) PROVE g[n] = Step(g, n)
      <4>1. CASE n = m + 1
        BY <3>2, <4>1
      <4>2. CASE n # m + 1
        <5>1. n \in 1..m /\ n - 1 \in 0..m
          BY <4>2
        <5>2. QED
          BY <2>1, <3>1, <5>1
      <4>3. QED
        BY <4>1, <4>2
    <3>4. QED
      BY SMTT(30), <2>1, <2>3, <3>1, <3>3
  <2>5. QED
    BY <2>4
<1>3. \A m \in Nat : m \in Reached
  <2>. HIDE DEF Reached
  <2>1. QED
    BY <1>1, <1>2, EveryNatural
<1>4. \E f \in Unfolded(Len(calls)) : TRUE
  <2>1. Unfolded(Len(calls)) # {}
    BY <1>0, <1>3
  <2>2. QED
    BY <2>1
<1>5. \E f : f = [n \in 0..Len(calls) |-> IF n = 0 THEN <<>> ELSE Step(f, n)]
  <2>1. PICK f \in Unfolded(Len(calls)) : TRUE
    BY <1>4
  <2>2. \A n \in 0..Len(calls) : f[n] = IF n = 0 THEN <<>> ELSE Step(f, n)
    <3>1. f[0] = <<>> /\ \A n \in 1..Len(calls) : f[n] = Step(f, n)
      BY <2>1
    <3>. HIDE DEF Step
    <3>2. QED
      BY <1>0, <3>1
  <2>3. f = [n \in 0..Len(calls) |-> f[n]]
    BY <2>1
  <2>4. QED
    BY <2>2, <2>3
<1>6. kept = [n \in 0..Len(calls) |-> IF n = 0 THEN <<>> ELSE Step(kept, n)]
  BY <1>5
<1>7. Only(calls, wanted) = kept[Len(calls)]
  BY Zenon DEF Only
<1>. HIDE DEF kept
<1>8. /\ kept[0] = <<>>
      /\ \A n \in 1..Len(calls) : kept[n] = Step(kept, n)
  <2>. HIDE DEF Step
  <2>1. QED
    BY <1>0, <1>6
<1>9. \A n \in 0..Len(calls) : kept[n] \in Seq(T)
  <2>. DEFINE Typed == {n \in Nat : n <= Len(calls) => kept[n] \in Seq(T)}
  <2>1. 0 \in Typed
    <3>1. <<>> \in Seq(T)
      OBVIOUS
    <3>2. QED
      BY <1>8, <3>1
  <2>2. ASSUME NEW n \in Nat, n \in Typed PROVE n + 1 \in Typed
    <3>. SUFFICES ASSUME n + 1 <= Len(calls) PROVE kept[n + 1] \in Seq(T)
      OBVIOUS
    <3>1. n + 1 \in 1..Len(calls) /\ calls[n + 1] \in T /\ kept[n] \in Seq(T) /\ (n + 1) - 1 = n
      BY <2>2
    <3>2. kept[n + 1] = Step(kept, n + 1)
      BY <1>8, <3>1
    <3>3. Append(kept[n], calls[n + 1]) \in Seq(T)
      BY <3>1
    <3>4. QED
      BY <3>1, <3>2, <3>3
  <2>3. \A n \in Nat : n \in Typed
    <3>. HIDE DEF Typed
    <3>1. QED
      BY <2>1, <2>2, EveryNatural
  <2>4. QED
    BY <2>3
<1>10. kept \in [0..Len(calls) -> Seq(T)]
  BY <1>6, <1>9
<1>11. QED
  BY <1>7, <1>8, <1>10 DEF Filters

\* The elements behind the head.
LEMMA TailRange ==
  ASSUME NEW T, NEW s \in Seq(T), s # <<>>
  PROVE  /\ Head(s) = s[1] /\ Head(s) \in Range(s) /\ Head(s) \in T
         /\ Tail(s) \in Seq(T) /\ Range(s) = Range(Tail(s)) \cup {Head(s)}
         /\ IsInjective(s) => IsInjective(Tail(s)) /\ Head(s) \notin Range(Tail(s))
<1>. DEFINE t == Tail(s)
<1>1. /\ t \in Seq(T) /\ DOMAIN t = 1..(Len(s) - 1) /\ DOMAIN s = 1..Len(s) /\ Len(s) \in Nat \ {0}
      /\ Head(s) = s[1] /\ s[1] \in T /\ \A i \in 1..(Len(s) - 1) : t[i] = s[i + 1]
  OBVIOUS
<1>. HIDE DEF t
<1>2. Head(s) \in Range(s)
  BY <1>1 DEF Range
<1>3. \A i \in DOMAIN t : t[i] \in Range(s)
  BY <1>1 DEF Range
<1>4. ASSUME NEW i \in DOMAIN s PROVE s[i] \in Range(t) \cup {Head(s)}
  <2>1. CASE i = 1
    BY <1>1, <2>1
  <2>2. CASE i # 1
    <3>1. i - 1 \in DOMAIN t /\ t[i - 1] = s[i]
      BY <1>1, <2>2
    <3>2. QED
      BY <3>1 DEF Range
  <2>3. QED
    BY <2>1, <2>2
<1>5. Range(s) = Range(t) \cup {Head(s)}
  BY <1>2, <1>3, <1>4 DEF Range
<1>6. ASSUME IsInjective(s) PROVE IsInjective(t) /\ Head(s) \notin Range(t)
  <2>1. IsInjective(t)
    BY <1>1, <1>6 DEF IsInjective
  <2>2. ASSUME NEW i \in DOMAIN t PROVE t[i] # Head(s)
    BY <1>1, <1>6 DEF IsInjective
  <2>3. QED
    BY <2>1, <2>2 DEF Range
<1>7. QED
  BY <1>1, <1>2, <1>5, <1>6 DEF t

\* The elements of two sequences in a row.
LEMMA ConcatRange ==
  ASSUME NEW T, NEW s \in Seq(T), NEW t \in Seq(T)
  PROVE  s \o t \in Seq(T) /\ Range(s \o t) = Range(s) \cup Range(t)
<1>. DEFINE u == s \o t
<1>1. /\ u \in Seq(T) /\ DOMAIN u = 1..(Len(s) + Len(t)) /\ DOMAIN s = 1..Len(s) /\ DOMAIN t = 1..Len(t)
      /\ Len(s) \in Nat /\ Len(t) \in Nat
      /\ \A i \in 1..Len(s) : u[i] = s[i]
      /\ \A j \in 1..Len(t) : u[Len(s) + j] = t[j] /\ Len(s) + j \in DOMAIN u
  OBVIOUS
<1>. HIDE DEF u
<1>2. ASSUME NEW i \in DOMAIN u PROVE u[i] \in Range(s) \cup Range(t)
  <2>1. CASE i <= Len(s)
    BY <1>1, <2>1 DEF Range
  <2>2. CASE i > Len(s)
    <3>1. i - Len(s) \in 1..Len(t) /\ Len(s) + (i - Len(s)) = i
      BY <1>1, <2>2
    <3>2. u[i] = t[i - Len(s)]
      BY <1>1, <3>1
    <3>3. QED
      BY <1>1, <3>1, <3>2 DEF Range
  <2>3. QED
    BY <1>1, <2>1, <2>2
<1>3. \A i \in DOMAIN s : s[i] \in Range(u)
  BY <1>1 DEF Range
<1>4. \A j \in DOMAIN t : t[j] \in Range(u)
  BY <1>1 DEF Range
<1>5. QED
  BY <1>1, <1>2, <1>3, <1>4 DEF Range, u

\* What a filter keeps.
LEMMA OnlyProperties ==
  ASSUME NEW T, NEW calls \in Seq(T), NEW wanted
  PROVE  /\ Only(calls, wanted) \in Seq(T)
         /\ Range(Only(calls, wanted)) = Range(calls) \cap wanted
         /\ IsInjective(calls) => IsInjective(Only(calls, wanted))
<1>0. PICK kept \in [0..Len(calls) -> Seq(T)] : Filters(kept, calls, wanted)
  BY OnlyPrefixes
<1>1. /\ kept[0] = <<>> /\ Only(calls, wanted) = kept[Len(calls)]
      /\ \A n \in 1..Len(calls) :
           kept[n] = IF calls[n] \in wanted THEN Append(kept[n - 1], calls[n]) ELSE kept[n - 1]
  BY <1>0 DEF Filters
<1>2. Len(calls) \in Nat /\ DOMAIN calls = 1..Len(calls) /\ \A n \in 1..Len(calls) : calls[n] \in T
  OBVIOUS
<1>. DEFINE First(n) == {calls[i] : i \in 1..n} \cap wanted
            Good(n) == Range(kept[n]) = First(n) /\ (IsInjective(calls) => IsInjective(kept[n]))
            Right == {n \in Nat : n <= Len(calls) => Good(n)}
<1>3. 0 \in Right
  BY <1>1 DEF Range, IsInjective
<1>4. ASSUME NEW n \in Nat, n \in Right PROVE n + 1 \in Right
  <2>. SUFFICES ASSUME n + 1 <= Len(calls) PROVE Good(n + 1)
    <3>. HIDE DEF Good
    <3>1. QED
      OBVIOUS
  <2>1. /\ n + 1 \in 1..Len(calls) /\ (n + 1) - 1 = n /\ calls[n + 1] \in T /\ kept[n] \in Seq(T)
        /\ Good(n)
    <3>. HIDE DEF Good
    <3>1. QED
      BY <1>2, <1>4
  <2>2. kept[n + 1] = IF calls[n + 1] \in wanted THEN Append(kept[n], calls[n + 1]) ELSE kept[n]
    BY <1>1, <2>1
  <2>3. First(n + 1) = First(n) \cup ({calls[n + 1]} \cap wanted)
    BY <2>1
  <2>4. IsInjective(calls) => calls[n + 1] \notin First(n)
    BY <1>2, <2>1 DEF IsInjective
  <2>5. QED
    <3>. HIDE DEF First
    <3>1. CASE calls[n + 1] \in wanted
      <4>1. /\ Range(Append(kept[n], calls[n + 1])) = Range(kept[n]) \cup {calls[n + 1]}
            /\ IsInjective(kept[n]) /\ calls[n + 1] \notin Range(kept[n])
                 => IsInjective(Append(kept[n], calls[n + 1]))
        BY <2>1, AppendRange
      <4>2. QED
        BY <2>1, <2>2, <2>3, <2>4, <3>1, <4>1
    <3>2. CASE calls[n + 1] \notin wanted
      BY <2>1, <2>2, <2>3, <3>2
    <3>3. QED
      BY <3>1, <3>2
<1>5. \A n \in Nat : n \in Right
  <2>. HIDE DEF Right
  <2>1. QED
    BY <1>3, <1>4, EveryNatural
<1>6. Good(Len(calls))
  <2>. HIDE DEF Good
  <2>1. QED
    BY <1>2, <1>5
<1>7. First(Len(calls)) = Range(calls) \cap wanted
  BY <1>2 DEF Range
<1>8. QED
  BY <1>1, <1>2, <1>6, <1>7

\* Two elements a filter keeps were in that order before.
LEMMA OnlyPairs ==
  ASSUME NEW T, NEW calls \in Seq(T), NEW wanted
  PROVE  \A i, j \in DOMAIN Only(calls, wanted) : i < j =>
           \E k, l \in DOMAIN calls : k < l /\ Only(calls, wanted)[i] = calls[k] /\ Only(calls, wanted)[j] = calls[l]
<1>0. PICK kept \in [0..Len(calls) -> Seq(T)] : Filters(kept, calls, wanted)
  BY OnlyPrefixes
<1>1. /\ kept[0] = <<>> /\ Only(calls, wanted) = kept[Len(calls)]
      /\ \A n \in 1..Len(calls) :
           kept[n] = IF calls[n] \in wanted THEN Append(kept[n - 1], calls[n]) ELSE kept[n - 1]
  BY <1>0 DEF Filters
<1>2. Len(calls) \in Nat /\ DOMAIN calls = 1..Len(calls) /\ \A n \in 1..Len(calls) : calls[n] \in T
  OBVIOUS
<1>. DEFINE Good(n) == /\ \A i \in DOMAIN kept[n] : \E k \in 1..n : kept[n][i] = calls[k]
                       /\ \A i, j \in DOMAIN kept[n] : i < j =>
                            \E k, l \in 1..n : k < l /\ kept[n][i] = calls[k] /\ kept[n][j] = calls[l]
            Right == {n \in Nat : n <= Len(calls) => Good(n)}
<1>3. 0 \in Right
  BY <1>1
<1>4. ASSUME NEW n \in Nat, n \in Right PROVE n + 1 \in Right
  <2>. SUFFICES ASSUME n + 1 <= Len(calls) PROVE Good(n + 1)
    <3>. HIDE DEF Good
    <3>1. QED
      OBVIOUS
  <2>1. /\ n + 1 \in 1..Len(calls) /\ (n + 1) - 1 = n /\ calls[n + 1] \in T /\ kept[n] \in Seq(T)
        /\ Good(n)
    <3>. HIDE DEF Good
    <3>1. QED
      BY <1>2, <1>4
  <2>2. kept[n + 1] = IF calls[n + 1] \in wanted THEN Append(kept[n], calls[n + 1]) ELSE kept[n]
    BY <1>1, <2>1
  <2>3. CASE calls[n + 1] \in wanted
    <3>. DEFINE old == kept[n]
                new == kept[n + 1]
    <3>1. /\ Len(old) \in Nat /\ DOMAIN old = 1..Len(old) /\ DOMAIN new = 1..(Len(old) + 1)
          /\ new[Len(old) + 1] = calls[n + 1] /\ \A i \in 1..Len(old) : new[i] = old[i]
      BY <2>1, <2>2, <2>3
    <3>2. /\ \A i \in DOMAIN old : \E k \in 1..n : old[i] = calls[k]
          /\ \A i, j \in DOMAIN old : i < j => \E k, l \in 1..n : k < l /\ old[i] = calls[k] /\ old[j] = calls[l]
      BY <2>1
    <3>. HIDE DEF old, new
    <3>3. ASSUME NEW i \in DOMAIN new PROVE \E k \in 1..(n + 1) : new[i] = calls[k]
      <4>1. CASE i = Len(old) + 1
        BY <3>1, <4>1, n + 1 \in 1..(n + 1)
      <4>2. CASE i # Len(old) + 1
        <5>1. i \in DOMAIN old /\ new[i] = old[i]
          BY <3>1, <4>2
        <5>2. PICK k \in 1..n : old[i] = calls[k]
          BY <3>2, <5>1
        <5>3. k \in 1..(n + 1)
          OBVIOUS
        <5>4. QED
          BY <5>1, <5>2, <5>3
      <4>3. QED
        BY <4>1, <4>2
    <3>4. ASSUME NEW i \in DOMAIN new, NEW j \in DOMAIN new, i < j
          PROVE  \E k, l \in 1..(n + 1) : k < l /\ new[i] = calls[k] /\ new[j] = calls[l]
      <4>1. CASE j = Len(old) + 1
        <5>1. PICK k \in 1..n : new[i] = calls[k]
          BY <3>1, <3>2, <3>4, <4>1
        <5>2. k < n + 1 /\ new[j] = calls[n + 1] /\ k \in 1..(n + 1) /\ n + 1 \in 1..(n + 1)
          BY <3>1, <4>1
        <5>3. QED
          BY <5>1, <5>2
      <4>2. CASE j # Len(old) + 1
        <5>1. i \in DOMAIN old /\ j \in DOMAIN old /\ new[i] = old[i] /\ new[j] = old[j]
          BY <3>1, <3>4, <4>2
        <5>2. PICK k \in 1..n, l \in 1..n : k < l /\ old[i] = calls[k] /\ old[j] = calls[l]
          BY <3>2, <3>4, <5>1
        <5>3. k \in 1..(n + 1) /\ l \in 1..(n + 1)
          OBVIOUS
        <5>4. QED
          BY <5>1, <5>2, <5>3
      <4>3. QED
        BY <4>1, <4>2
    <3>5. QED
      BY <3>3, <3>4 DEF new
  <2>4. CASE calls[n + 1] \notin wanted
    <3>1. kept[n + 1] = kept[n] /\ \A k \in 1..n : k \in 1..(n + 1)
      BY <2>2, <2>4
    <3>2. QED
      BY <2>1, <3>1
  <2>5. QED
    <3>. HIDE DEF Good
    <3>1. QED
      BY <2>3, <2>4
<1>5. \A n \in Nat : n \in Right
  <2>. HIDE DEF Right
  <2>1. QED
    BY <1>3, <1>4, EveryNatural
<1>6. Good(Len(calls))
  <2>. HIDE DEF Good
  <2>1. QED
    BY <1>2, <1>5
<1>7. \A i, j \in DOMAIN Only(calls, wanted) : i < j =>
        \E k, l \in 1..Len(calls) : k < l /\ Only(calls, wanted)[i] = calls[k] /\ Only(calls, wanted)[j] = calls[l]
  <2>. HIDE DEF Right
  <2>1. QED
    BY <1>1, <1>6
<1>8. QED
  <2>. HIDE DEF Good, Right
  <2>1. QED
    BY <1>2, <1>7

-----------------------------------------------------------------------------
(* Lists of numbers and their orders.                                       *)

\* The numbers of a kind stand in ascending order; all of one set are below all of
\* another; what is not 0 occurs once.
InOrder(s, kind) == \A i, j \in DOMAIN s : i < j /\ s[i] \in kind /\ s[j] \in kind => s[i] < s[j]
Precede(S, T) == \A n \in S, m \in T : n < m
OnceEach(records) == \A i, j \in DOMAIN records : records[i] = records[j] /\ records[i] # 0 => i = j

\* A greater number goes behind.
LEMMA AppendOrder ==
  ASSUME NEW s \in Seq(Nat), NEW n \in Nat, NEW K, InOrder(s, K), n \in K => \A m \in Range(s) \cap K : m < n
  PROVE  InOrder(Append(s, n), K)
<1> DEFINE t == Append(s, n)
<1>1. /\ DOMAIN t = 1..(Len(s) + 1) /\ DOMAIN s = 1..Len(s) /\ Len(s) \in Nat
      /\ t[Len(s) + 1] = n /\ \A i \in 1..Len(s) : t[i] = s[i]
  OBVIOUS
<1> HIDE DEF t
<1>2. ASSUME NEW i \in DOMAIN t, NEW j \in DOMAIN t, i < j, t[i] \in K, t[j] \in K PROVE t[i] < t[j]
  <2>1. i \in DOMAIN s /\ t[i] = s[i] /\ t[i] \in Range(s)
    BY <1>1, <1>2 DEF Range
  <2>2. CASE j \in DOMAIN s
    BY <1>1, <1>2, <2>1, <2>2 DEF InOrder
  <2>3. CASE j \notin DOMAIN s
    BY <1>1, <1>2, <2>1, <2>3
  <2> QED  BY <2>2, <2>3
<1> QED  BY <1>2 DEF InOrder, t

\* The head is the least of its kind.
LEMMA TailOrder ==
  ASSUME NEW s \in Seq(Nat), s # <<>>, NEW K, InOrder(s, K)
  PROVE  /\ InOrder(Tail(s), K)
         /\ Head(s) \in K => \A m \in Range(Tail(s)) \cap K : Head(s) < m
<1> DEFINE t == Tail(s)
<1>1. /\ DOMAIN t = 1..(Len(s) - 1) /\ DOMAIN s = 1..Len(s) /\ Len(s) \in Nat \ {0}
      /\ Head(s) = s[1] /\ \A i \in 1..(Len(s) - 1) : t[i] = s[i + 1]
  OBVIOUS
<1> HIDE DEF t
<1>2. ASSUME NEW i \in DOMAIN t
      PROVE  i + 1 \in DOMAIN s /\ 1 \in DOMAIN s /\ t[i] = s[i + 1]
  BY <1>1
<1>3. \A i, j \in DOMAIN t : i < j /\ t[i] \in K /\ t[j] \in K => t[i] < t[j]
  BY <1>1, <1>2 DEF InOrder
<1>4. \A i \in DOMAIN t : s[1] \in K /\ t[i] \in K => s[1] < t[i]
  BY <1>1, <1>2 DEF InOrder
<1> QED  BY <1>1, <1>3, <1>4 DEF InOrder, Range, t

\* A beginning of a sequence, and what it leaves.
LEMMA PrefixOrder ==
  ASSUME NEW s \in Seq(Nat), NEW n \in 0..Len(s), NEW K, InOrder(s, K)
  PROVE  /\ SubSeq(s, 1, n) \in Seq(Nat) /\ InOrder(SubSeq(s, 1, n), K)
         /\ Range(SubSeq(s, 1, n)) \subseteq Range(s)
         /\ \A m \in Range(SubSeq(s, 1, n)) \cap K, k \in (Range(s) \cap K) \ Range(SubSeq(s, 1, n)) : m < k
<1> DEFINE t == SubSeq(s, 1, n)
<1>1. /\ t \in Seq(Nat) /\ DOMAIN t = 1..n /\ DOMAIN s = 1..Len(s) /\ Len(s) \in Nat
      /\ \A i \in 1..n : t[i] = s[i] /\ i \in DOMAIN s
  OBVIOUS
<1> HIDE DEF t
<1>2. InOrder(t, K)
  BY <1>1 DEF InOrder
<1>3. Range(t) \subseteq Range(s)
  BY <1>1 DEF Range
<1>4. ASSUME NEW m \in Range(t), NEW k \in Range(s), k \notin Range(t), m \in K, k \in K PROVE m < k
  <2>1. PICK i \in 1..n : m = s[i]
    BY <1>1 DEF Range
  <2>2. PICK j \in DOMAIN s : k = s[j]
    BY DEF Range
  <2>3. j \notin 1..n
    BY <1>1, <1>4, <2>2 DEF Range
  <2>4. i < j /\ i \in DOMAIN s
    BY <1>1, <2>2, <2>3
  <2> QED  BY <1>4, <2>1, <2>2, <2>4 DEF InOrder
<1> QED  BY <1>1, <1>2, <1>3, <1>4 DEF t

\* All but the last.
LEMMA FrontOrder ==
  ASSUME NEW s \in Seq(Nat), s # <<>>, NEW K, InOrder(s, K)
  PROVE  /\ SubSeq(s, 1, Len(s) - 1) \in Seq(Nat) /\ InOrder(SubSeq(s, 1, Len(s) - 1), K)
         /\ Range(s) = Range(SubSeq(s, 1, Len(s) - 1)) \cup {s[Len(s)]}
         /\ IsInjective(s) => s[Len(s)] \notin Range(SubSeq(s, 1, Len(s) - 1))
<1> DEFINE t == SubSeq(s, 1, Len(s) - 1)
<1>2. DOMAIN s = 1..Len(s) /\ Len(s) \in Nat \ {0} /\ Head(s) = s[1] /\ \A i \in DOMAIN s : s[i] \in Nat
  OBVIOUS
<1>3. t \in Seq(Nat) /\ Len(t) = Len(s) - 1 /\ DOMAIN t = 1..(Len(s) - 1) /\ \A i \in DOMAIN t : t[i] = s[i]
  BY <1>2
<1> HIDE DEF t
<1>4. \A i \in DOMAIN t : i \in DOMAIN s /\ i # Len(s)
  BY <1>2, <1>3
<1>5. InOrder(t, K)
  BY <1>3, <1>4 DEF InOrder
<1>6. ASSUME NEW i \in DOMAIN s PROVE s[i] \in Range(t) \cup {s[Len(s)]}
  <2>1. CASE i = Len(s)
    BY <2>1
  <2>2. CASE i # Len(s)
    <3>1. i \in DOMAIN t
      BY <1>2, <1>3, <2>2
    <3> QED  BY <1>3, <3>1 DEF Range
  <2> QED  BY <2>1, <2>2
<1>7. Range(t) \subseteq Range(s) /\ s[Len(s)] \in Range(s)
  <2>1. Len(s) \in DOMAIN s
    BY <1>2
  <2> QED  BY <1>3, <1>4, <2>1 DEF Range
<1>8. IsInjective(s) => s[Len(s)] \notin Range(t)
  <2>1. Len(s) \in DOMAIN s
    BY <1>2
  <2> QED  BY <1>3, <1>4, <2>1 DEF IsInjective, Range
<1>9. Range(s) = Range(t) \cup {s[Len(s)]}
  BY <1>6, <1>7 DEF Range
<1> QED  BY <1>3, <1>5, <1>8, <1>9 DEF t

\* A filter keeps the order.
LEMMA OnlyOrder ==
  ASSUME NEW s \in Seq(Nat), NEW K, NEW wanted, InOrder(s, K)
  PROVE  InOrder(Only(s, wanted), K)
<1> DEFINE t == Only(s, wanted)
<1>1. \A i, j \in DOMAIN t : i < j => \E k, l \in DOMAIN s : k < l /\ t[i] = s[k] /\ t[j] = s[l]
  BY OnlyPairs
<1> HIDE DEF t
<1>2. InOrder(t, K)
  BY <1>1 DEF InOrder
<1> QED  BY <1>2 DEF t

\* Two sequences in a row are in order if the first is below the second.
LEMMA ConcatOrder ==
  ASSUME NEW s \in Seq(Nat), NEW t \in Seq(Nat), NEW K, InOrder(s, K), InOrder(t, K),
         Precede(Range(s) \cap K, Range(t) \cap K)
  PROVE  InOrder(s \o t, K)
<1> DEFINE u == s \o t
<1>1. /\ DOMAIN u = 1..(Len(s) + Len(t)) /\ DOMAIN s = 1..Len(s) /\ DOMAIN t = 1..Len(t)
      /\ Len(s) \in Nat /\ Len(t) \in Nat
      /\ \A i \in 1..Len(s) : u[i] = s[i]
      /\ \A j \in 1..Len(t) : u[Len(s) + j] = t[j]
  OBVIOUS
<1> HIDE DEF u
<1>2. ASSUME NEW i \in DOMAIN u, i \notin DOMAIN s
      PROVE  i - Len(s) \in DOMAIN t /\ u[i] = t[i - Len(s)]
  <2>1. i - Len(s) \in 1..Len(t) /\ Len(s) + (i - Len(s)) = i
    BY <1>1, <1>2
  <2> QED  BY <1>1, <2>1
<1>3. ASSUME NEW i \in DOMAIN u, NEW j \in DOMAIN u, i < j, u[i] \in K, u[j] \in K PROVE u[i] < u[j]
  <2>1. CASE j \in DOMAIN s
    <3>1. i \in DOMAIN s
      BY <1>1, <1>3, <2>1
    <3> QED  BY <1>1, <1>3, <2>1, <3>1 DEF InOrder
  <2>2. CASE i \notin DOMAIN s
    <3>1. j \notin DOMAIN s
      BY <1>1, <1>3, <2>2
    <3>2. i - Len(s) < j - Len(s)
      BY <1>1, <1>3
    <3> QED  BY <1>2, <1>3, <2>2, <3>1, <3>2 DEF InOrder
  <2>3. CASE i \in DOMAIN s /\ j \notin DOMAIN s
    <3>1. u[i] \in Range(s) /\ u[j] \in Range(t)
      BY <1>1, <1>2, <2>3 DEF Range
    <3> QED  BY <1>3, <3>1 DEF Precede
  <2> QED  BY <2>1, <2>2, <2>3
<1> QED  BY <1>3 DEF InOrder, u

\* An order is one of the elements that occur.
LEMMA OrderWithin ==
  ASSUME NEW s, NEW K, NEW L, InOrder(s, K), Range(s) \cap L \subseteq K
  PROVE  InOrder(s, L)
BY DEF InOrder, Range

\* Ordered by two kinds, every element occurs once.
LEMMA OrderInjective ==
  ASSUME NEW s \in Seq(Nat), NEW K, NEW L, InOrder(s, K), InOrder(s, L), Range(s) \subseteq K \cup L, K \cap L = {}
  PROVE  IsInjective(s)
<1>1. DOMAIN s = 1..Len(s) /\ Len(s) \in Nat /\ \A i \in DOMAIN s : s[i] \in Nat /\ s[i] \in K \cup L
  BY DEF Range
<1>2. \A i, j \in DOMAIN s : i < j => s[i] # s[j]
  BY <1>1 DEF InOrder
<1> QED  BY <1>1, <1>2 DEF IsInjective

\* Two sequences without a repetition and without a common element.
LEMMA ConcatInjective ==
  ASSUME NEW s \in Seq(Nat), NEW t \in Seq(Nat), IsInjective(s), IsInjective(t), Range(s) \cap Range(t) = {}
  PROVE  IsInjective(s \o t)
<1> DEFINE u == s \o t
<1>1. /\ DOMAIN u = 1..(Len(s) + Len(t)) /\ DOMAIN s = 1..Len(s) /\ DOMAIN t = 1..Len(t)
      /\ Len(s) \in Nat /\ Len(t) \in Nat
      /\ \A i \in 1..Len(s) : u[i] = s[i]
      /\ \A j \in 1..Len(t) : u[Len(s) + j] = t[j]
  OBVIOUS
<1> HIDE DEF u
<1>2. ASSUME NEW i \in DOMAIN u, i \notin DOMAIN s
      PROVE  i - Len(s) \in DOMAIN t /\ u[i] = t[i - Len(s)]
  <2>1. i - Len(s) \in 1..Len(t) /\ Len(s) + (i - Len(s)) = i
    BY <1>1, <1>2
  <2> QED  BY <1>1, <2>1
<1>3. ASSUME NEW i \in DOMAIN u, NEW j \in DOMAIN u, u[i] = u[j] PROVE i = j
  <2>1. CASE i \in DOMAIN s /\ j \in DOMAIN s
    BY <1>1, <1>3, <2>1 DEF IsInjective
  <2>2. CASE i \notin DOMAIN s /\ j \notin DOMAIN s
    <3>1. i - Len(s) = j - Len(s)
      BY <1>2, <1>3, <2>2 DEF IsInjective
    <3> QED  BY <1>1, <3>1
  <2>3. CASE i \in DOMAIN s /\ j \notin DOMAIN s
    BY <1>1, <1>2, <1>3, <2>3 DEF Range
  <2>4. CASE i \notin DOMAIN s /\ j \in DOMAIN s
    BY <1>1, <1>2, <1>3, <2>4 DEF Range
  <2> QED  BY <2>1, <2>2, <2>3, <2>4
<1> QED  BY <1>3 DEF IsInjective, u

\* The records of one kind, without the answers between them, are there once.
LEMMA OnlyOnce ==
  ASSUME NEW s \in Seq(Nat), OnceEach(s), NEW wanted, 0 \notin wanted
  PROVE  IsInjective(Only(s, wanted))
<1> DEFINE t == Only(s, wanted)
<1>1. \A i, j \in DOMAIN t : i < j => \E k, l \in DOMAIN s : k < l /\ t[i] = s[k] /\ t[j] = s[l]
  BY OnlyPairs
<1>2. t \in Seq(Nat) /\ Range(t) = Range(s) \cap wanted
  BY OnlyProperties
<1> HIDE DEF t
<1>3. DOMAIN t = 1..Len(t) /\ Len(t) \in Nat /\ DOMAIN s \subseteq Nat
  BY <1>2
<1>4. ASSUME NEW i \in DOMAIN t, NEW j \in DOMAIN t, i < j PROVE t[i] # t[j]
  <2>1. PICK k \in DOMAIN s, l \in DOMAIN s : k < l /\ t[i] = s[k] /\ t[j] = s[l]
    BY <1>1, <1>4
  <2>2. s[k] # 0
    BY <1>2, <2>1 DEF Range
  <2>3. k # l
    BY <1>3, <2>1
  <2> QED  BY <2>1, <2>2, <2>3 DEF OnceEach
<1>5. IsInjective(t)
  BY <1>3, <1>4 DEF IsInjective
<1> QED  BY <1>5 DEF t

\* One element left.
LEMMA OneLeft ==
  ASSUME NEW s \in Seq(Nat), s # <<>>
  PROVE  Len(s) = 1 <=> Tail(s) = <<>>
<1>1. Len(s) \in Nat \ {0} /\ Tail(s) \in Seq(Nat) /\ Len(Tail(s)) = Len(s) - 1
  OBVIOUS
<1>2. Tail(s) = <<>> <=> Len(Tail(s)) = 0
  BY <1>1, EmptySeq
<1> QED  BY <1>1, <1>2

-----------------------------------------------------------------------------
(* Queues.                                                                   *)

\* shift() takes out exactly the head.
LEMMA TailQueue ==
  ASSUME NEW S, NEW queue \in Seq(S), queue # <<>>, Distinct(queue)
  PROVE  /\ Head(queue) \in S
         /\ Occurs(Head(queue), queue)
         /\ Tail(queue) \in Seq(S)
         /\ Distinct(Tail(queue))
         /\ \A x : Occurs(x, Tail(queue)) <=> Occurs(x, queue) /\ x # Head(queue)
<1>1. Len(queue) \in Nat /\ Len(queue) >= 1 /\ Head(queue) = queue[1]
  OBVIOUS
<1>2. /\ Tail(queue) \in Seq(S)
      /\ Len(Tail(queue)) = Len(queue) - 1
      /\ \A i \in 1..(Len(queue) - 1) : Tail(queue)[i] = queue[i + 1]
  BY <1>1
<1>3. Distinct(Tail(queue))
  BY <1>1, <1>2 DEF Distinct
<1>4. ASSUME NEW x PROVE Occurs(x, Tail(queue)) <=> Occurs(x, queue) /\ x # Head(queue)
  <2>1. ASSUME Occurs(x, Tail(queue)) PROVE Occurs(x, queue) /\ x # Head(queue)
    <3>1. PICK i \in 1..(Len(queue) - 1) : queue[i + 1] = x
      BY <1>2, <2>1 DEF Occurs
    <3>2. i + 1 \in 1..Len(queue) /\ 1 \in 1..Len(queue) /\ i + 1 # 1
      BY <1>1
    <3>3. QED
      BY <1>1, <3>1, <3>2 DEF Occurs, Distinct
  <2>2. ASSUME Occurs(x, queue), x # Head(queue) PROVE Occurs(x, Tail(queue))
    <3>1. PICK i \in 1..Len(queue) : queue[i] = x
      BY <2>2 DEF Occurs
    <3>2. i - 1 \in 1..(Len(queue) - 1) /\ Tail(queue)[i - 1] = queue[i]
      BY <1>1, <1>2, <2>2, <3>1
    <3>3. QED
      BY <1>2, <3>1, <3>2 DEF Occurs
  <2>3. QED
    BY <2>1, <2>2
<1>5. Occurs(Head(queue), queue)
  BY <1>1 DEF Occurs
<1>6. QED
  BY <1>1, <1>2, <1>3, <1>4, <1>5

\* push() adds exactly the new waiter.
LEMMA AppendQueue ==
  ASSUME NEW S, NEW queue \in Seq(S), NEW r \in S, Distinct(queue), ~Occurs(r, queue)
  PROVE  /\ Append(queue, r) \in Seq(S)
         /\ Append(queue, r) # <<>>
         /\ Distinct(Append(queue, r))
         /\ \A x : Occurs(x, Append(queue, r)) <=> Occurs(x, queue) \/ x = r
<1>1. /\ Len(queue) \in Nat
      /\ Append(queue, r) \in Seq(S)
      /\ Len(Append(queue, r)) = Len(queue) + 1
      /\ \A i \in 1..Len(queue) : Append(queue, r)[i] = queue[i]
      /\ Append(queue, r)[Len(queue) + 1] = r
  OBVIOUS
<1>2. Append(queue, r) # <<>>
  BY <1>1
<1>3. Distinct(Append(queue, r))
  BY <1>1 DEF Distinct, Occurs
<1>4. ASSUME NEW x PROVE Occurs(x, Append(queue, r)) <=> Occurs(x, queue) \/ x = r
  BY <1>1 DEF Occurs
<1>5. QED
  BY <1>1, <1>2, <1>3, <1>4

\* splice(indexOf(r), 1) takes out exactly r.
LEMMA SpliceQueue ==
  ASSUME NEW S, NEW queue \in Seq(S), NEW r, Distinct(queue), Occurs(r, queue)
  PROVE  /\ Without(queue, r) \in Seq(S)
         /\ Distinct(Without(queue, r))
         /\ \A x : Occurs(x, Without(queue, r)) <=> Occurs(x, queue) /\ x # r
<1>. DEFINE at == CHOOSE i \in 1..Len(queue) : queue[i] = r
            w == Without(queue, r)
<1>1. at \in 1..Len(queue) /\ queue[at] = r
  BY DEF Occurs
<1>2. Len(queue) \in Nat /\ Len(queue) >= 1
  BY <1>1
<1>3. w = [i \in 1..(Len(queue) - 1) |-> IF i < at THEN queue[i] ELSE queue[i + 1]]
  BY DEF Without
<1>. HIDE DEF w, at
<1>4. /\ w \in Seq(S)
      /\ Len(w) = Len(queue) - 1
      /\ \A i \in 1..(Len(queue) - 1) : w[i] = IF i < at THEN queue[i] ELSE queue[i + 1]
  <2>1. \A i \in 1..(Len(queue) - 1) : (IF i < at THEN queue[i] ELSE queue[i + 1]) \in S
    BY <1>1, <1>2
  <2>2. w \in [1..(Len(queue) - 1) -> S] /\ Len(queue) - 1 \in Nat
    BY <1>2, <1>3, <2>1
  <2>3. QED
    BY <1>3, <2>2
<1>5. Distinct(w)
  <2>. SUFFICES ASSUME NEW i \in 1..Len(w), NEW j \in 1..Len(w), w[i] = w[j] PROVE i = j
    BY DEF Distinct
  <2>. DEFINE shift(n) == IF n < at THEN n ELSE n + 1
  <2>1. /\ shift(i) \in 1..Len(queue) /\ shift(j) \in 1..Len(queue)
        /\ w[i] = queue[shift(i)] /\ w[j] = queue[shift(j)]
    BY <1>1, <1>2, <1>4
  <2>2. shift(i) = shift(j)
    BY <2>1 DEF Distinct
  <2>3. QED
    BY <1>1, <1>2, <1>4, <2>2
<1>6. ASSUME NEW x PROVE Occurs(x, w) <=> Occurs(x, queue) /\ x # r
  <2>1. ASSUME Occurs(x, w) PROVE Occurs(x, queue) /\ x # r
    <3>1. PICK i \in 1..(Len(queue) - 1) : w[i] = x
      BY <1>4, <2>1 DEF Occurs
    <3>. DEFINE n == IF i < at THEN i ELSE i + 1
    <3>2. n \in 1..Len(queue) /\ queue[n] = x /\ n # at
      BY <1>1, <1>2, <1>4, <3>1
    <3>3. QED
      BY <1>1, <3>2 DEF Occurs, Distinct
  <2>2. ASSUME Occurs(x, queue), x # r PROVE Occurs(x, w)
    <3>1. PICK n \in 1..Len(queue) : queue[n] = x
      BY <2>2 DEF Occurs
    <3>. DEFINE i == IF n < at THEN n ELSE n - 1
    <3>2. n # at
      BY <1>1, <2>2, <3>1
    <3>3. i \in 1..(Len(queue) - 1) /\ w[i] = x
      BY <1>1, <1>2, <1>4, <3>1, <3>2
    <3>4. QED
      BY <1>4, <3>3 DEF Occurs
  <2>3. QED
    BY <2>1, <2>2
<1>7. QED
  BY <1>4, <1>5, <1>6 DEF w

\* A queue is empty exactly when nobody is in it.
LEMMA EmptyQueue ==
  ASSUME NEW S, NEW queue \in Seq(S)
  PROVE  queue = <<>> <=> \A x : ~Occurs(x, queue)
<1>1. Len(queue) \in Nat
  OBVIOUS
<1>2. ASSUME queue # <<>> PROVE Occurs(Head(queue), queue)
  BY <1>1, <1>2 DEF Occurs
<1>3. ASSUME queue = <<>>, NEW x PROVE ~Occurs(x, queue)
  BY <1>3 DEF Occurs
<1>4. QED
  BY <1>2, <1>3

\* Taking the head out is what shift() does.
LEMMA SpliceHead ==
  ASSUME NEW S, NEW queue \in Seq(S), queue # <<>>, Distinct(queue)
  PROVE  Without(queue, Head(queue)) = Tail(queue)
<1>1. Len(queue) \in Nat /\ Len(queue) >= 1 /\ Head(queue) = queue[1]
  OBVIOUS
<1>2. (CHOOSE i \in 1..Len(queue) : queue[i] = queue[1]) = 1
  BY <1>1 DEF Distinct
<1>3. Without(queue, queue[1]) = [i \in 1..(Len(queue) - 1) |-> IF i < 1 THEN queue[i] ELSE queue[i + 1]]
  BY <1>2 DEF Without
<1>4. /\ Tail(queue) \in Seq(S) /\ Len(Tail(queue)) = Len(queue) - 1
      /\ \A i \in 1..(Len(queue) - 1) : Tail(queue)[i] = queue[i + 1]
  BY <1>1
<1>5. /\ Without(queue, queue[1]) \in Seq(S)
      /\ Len(Without(queue, queue[1])) = Len(queue) - 1
  <2>1. Occurs(queue[1], queue)
    BY <1>1 DEF Occurs
  <2>2. Without(queue, queue[1]) \in Seq(S)
    BY <2>1, SpliceQueue
  <2>3. DOMAIN Without(queue, queue[1]) = 1..(Len(queue) - 1)
    BY <1>3
  <2>4. QED
    BY <1>1, <2>2, <2>3
<1>6. \A i \in 1..(Len(queue) - 1) : Without(queue, queue[1])[i] = Tail(queue)[i]
  BY <1>3, <1>4
<1>7. QED
  BY <1>1, <1>4, <1>5, <1>6, SeqEqual

\* Taking out another than the head leaves the head in place.
LEMMA SpliceBehindHead ==
  ASSUME NEW S, NEW queue \in Seq(S), NEW r, Distinct(queue), Occurs(r, queue),
         queue # <<>>, Head(queue) # r
  PROVE  Without(queue, r) # <<>> /\ Head(Without(queue, r)) = Head(queue)
<1>. DEFINE at == CHOOSE i \in 1..Len(queue) : queue[i] = r
            w == Without(queue, r)
<1>1. at \in 1..Len(queue) /\ queue[at] = r
  BY DEF Occurs
<1>2. Len(queue) \in Nat /\ Head(queue) = queue[1]
  OBVIOUS
<1>3. w = [i \in 1..(Len(queue) - 1) |-> IF i < at THEN queue[i] ELSE queue[i + 1]]
  BY DEF Without
<1>4. w \in Seq(S)
  BY SpliceQueue
<1>. HIDE DEF w, at
<1>5. at >= 2 /\ Len(queue) >= 2 /\ 1 < at
  BY <1>1, <1>2
<1>6. 1 \in 1..(Len(queue) - 1) /\ w[1] = queue[1]
  BY <1>2, <1>3, <1>5
<1>7. DOMAIN w = 1..(Len(queue) - 1) /\ DOMAIN w = 1..Len(w)
  BY <1>3, <1>4
<1>8. w # <<>> /\ Head(w) = w[1]
  BY <1>4, <1>6, <1>7
<1>9. QED
  BY <1>2, <1>6, <1>8 DEF w

-----------------------------------------------------------------------------
(* Session files: each record names an earlier record, or 0, as its parent.  *)

Tree(records) ==
  /\ Len(records) \in Nat /\ DOMAIN records = 1..Len(records)
  /\ \A i \in 1..Len(records) : records[i].parent \in 0..(i - 1)

\* Max of some of the first numbers is one of them.
LEMMA MaxWithin ==
  ASSUME NEW n \in Nat, NEW S, S \subseteq 0..n, S # {}
  PROVE  Max(S) \in S
<1>. DEFINE T == {i + 1 : i \in S}
<1>1. PICK i \in S : TRUE
  OBVIOUS
<1>2. T \subseteq 1..(n + 1) /\ i + 1 \in T /\ n + 1 \in Nat
  BY <1>1
<1>3. Max(T) \in T /\ \A j \in T : j <= Max(T)
  BY <1>2, LastIndex
<1>4. PICK m \in S : Max(T) = m + 1
  BY <1>3
<1>5. \A j \in S : m >= j
  <2>1. ASSUME NEW j \in S PROVE j + 1 \in T /\ j + 1 <= m + 1
    <3>1. j + 1 \in T
      OBVIOUS
    <3>2. QED
      BY <1>3, <1>4, <3>1
  <2>2. QED
    BY <2>1
<1>. HIDE DEF T
<1>6. \E x \in S : \A y \in S : x >= y
  BY <1>5
<1>7. QED
  BY <1>6 DEF Max

\* Induction along the branches of a tree.
LEMMA AlongParents ==
  ASSUME NEW records, Tree(records), NEW S, 0 \in S,
         \A i \in 1..Len(records) : records[i].parent \in S => i \in S
  PROVE  \A i \in 0..Len(records) : i \in S
<1>. DEFINE Below == {m \in Nat : \A i \in 0..m : i <= Len(records) => i \in S}
<1>1. 0 \in Below
  OBVIOUS
<1>2. ASSUME NEW m \in Nat, m \in Below PROVE m + 1 \in Below
  <2>. SUFFICES ASSUME m + 1 <= Len(records) PROVE m + 1 \in S
    BY <1>2
  <2>1. m + 1 \in 1..Len(records) /\ records[m + 1].parent \in 0..m
    BY DEF Tree
  <2>2. records[m + 1].parent \in S
    BY <1>2, <2>1 DEF Tree
  <2>3. QED
    BY <2>1, <2>2
<1>3. \A m \in Nat : m \in Below
  <2>. HIDE DEF Below
  <2>1. QED
    BY <1>1, <1>2, EveryNatural
<1>4. ASSUME NEW i \in 0..Len(records) PROVE i \in S
  <2>1. i \in Nat /\ i \in 0..i /\ i <= Len(records)
    BY DEF Tree
  <2>2. i \in Below
    BY <1>3, <2>1
  <2>3. QED
    BY <2>1, <2>2
<1>5. QED
  BY <1>4

\* What is computed along the branches of a tree, one record at a time ...
Steps(n, V) == [1..n -> [V -> V]]
Walks(walk, records, start, next) ==
  /\ walk[0] = start
  /\ \A i \in 1..Len(records) : walk[i] = next[i][walk[records[i].parent]]

\* ... is computed for every record.
LEMMA WalkExists ==
  ASSUME NEW records, Tree(records), NEW V, NEW start \in V, NEW next \in Steps(Len(records), V)
  PROVE  \E walk \in [0..Len(records) -> V] : Walks(walk, records, start, next)
<1>. DEFINE n == Len(records)
            Step(f, i) == IF i = 0 THEN start ELSE next[i][f[records[i].parent]]
            Unfolded(m) == {f \in [0..m -> V] : \A i \in 0..m : f[i] = Step(f, i)}
            Reached == {m \in Nat : m <= n => Unfolded(m) # {}}
<1>0. /\ n \in Nat /\ next \in [1..n -> [V -> V]]
      /\ \A i \in 1..n : records[i].parent \in 0..(i - 1)
  BY DEF Tree, Steps
<1>. HIDE DEF n
<1>1. 0 \in Reached
  <2>1. [i \in 0..0 |-> start] \in Unfolded(0)
    OBVIOUS
  <2>2. QED
    BY <2>1
<1>2. ASSUME NEW m \in Nat, m \in Reached PROVE m + 1 \in Reached
  <2>. SUFFICES ASSUME m + 1 <= n PROVE Unfolded(m + 1) # {}
    <3>. HIDE DEF Unfolded
    <3>1. QED
      OBVIOUS
  <2>1. PICK f \in Unfolded(m) : TRUE
    <3>. HIDE DEF Unfolded
    <3>1. m <= n
      BY <1>0
    <3>2. QED
      BY <1>2, <3>1
  <2>. DEFINE g == [i \in 0..(m + 1) |-> IF i <= m THEN f[i] ELSE Step(f, m + 1)]
  <2>2. m + 1 \in 1..n /\ records[m + 1].parent \in 0..m
    BY <1>0
  <2>3. Step(f, m + 1) \in V
    BY <1>0, <2>1, <2>2
  <2>4. /\ g \in [0..(m + 1) -> V] /\ g[m + 1] = Step(f, m + 1)
        /\ \A i \in 0..m : g[i] = f[i]
    BY <2>1, <2>3
  <2>. HIDE DEF g
  <2>5. ASSUME NEW i \in 0..(m + 1) PROVE g[i] = Step(g, i)
    <3>1. CASE i = 0
      BY <2>1, <2>4, <3>1
    <3>2. CASE i # 0 /\ i <= m
      <4>1. i \in 1..n /\ i \in 0..m /\ records[i].parent \in 0..m
        BY <1>0, <2>2, <3>2
      <4>2. g[i] = f[i] /\ f[i] = Step(f, i) /\ g[records[i].parent] = f[records[i].parent]
        BY <2>1, <2>4, <4>1
      <4>3. QED
        BY <3>2, <4>2
    <3>3. CASE i = m + 1
      <4>1. g[i] = next[i][f[records[i].parent]] /\ i # 0
        BY <2>4, <3>3
      <4>2. g[records[i].parent] = f[records[i].parent]
        BY <2>2, <2>4, <3>3
      <4>3. QED
        BY <4>1, <4>2
    <3>4. QED
      BY <3>1, <3>2, <3>3
  <2>6. QED
    BY <2>4, <2>5
<1>3. \A m \in Nat : m \in Reached
  <2>. HIDE DEF Reached
  <2>1. QED
    BY <1>1, <1>2, EveryNatural
<1>4. PICK f \in [0..n -> V] : \A i \in 0..n : f[i] = Step(f, i)
  BY <1>0, <1>3
<1>5. f[0] = start /\ \A i \in 1..n : f[i] = next[i][f[records[i].parent]]
  BY <1>0, <1>4
<1>6. QED
  BY <1>5 DEF Walks, n

\* A branch is the branch of the parent and the record itself.
LEMMA BranchSteps ==
  ASSUME NEW records, Tree(records)
  PROVE  /\ Branch(records, 0) = <<>>
         /\ \A i \in 1..Len(records) : Branch(records, i) = Append(Branch(records, records[i].parent), i)
         /\ \A i \in 0..Len(records) :
              Branch(records, i) \in Seq(Nat) /\ Range(Branch(records, i)) \subseteq 1..i
<1>. DEFINE n == Len(records)
            Step(f, i) == IF i = 0 THEN <<>> ELSE Append(f[records[i].parent], i)
            path == CHOOSE f : f = [i \in 0..n |-> Step(f, i)]
            next == [i \in 1..n |-> [v \in Seq(Nat) |-> Append(v, i)]]
<1>0. n \in Nat /\ \A i \in 1..n : records[i].parent \in 0..(i - 1) /\ records[i].parent \in 0..n
  BY DEF Tree
<1>1. \A i : Branch(records, i) = path[i]
  BY Zenon DEF Branch
<1>2. next \in Steps(n, Seq(Nat)) /\ <<>> \in Seq(Nat)
  BY DEF Steps
<1>3. ASSUME NEW i \in 1..n, NEW v \in Seq(Nat) PROVE next[i][v] = Append(v, i)
  OBVIOUS
<1>. HIDE DEF next
<1>4. PICK f \in [0..n -> Seq(Nat)] : Walks(f, records, <<>>, next)
  BY <1>2, WalkExists
<1>. HIDE DEF n
<1>5. f[0] = <<>> /\ \A i \in 1..n : f[i] = next[i][f[records[i].parent]]
  BY <1>4 DEF Walks, n
<1>6. ASSUME NEW i \in 0..n PROVE f[i] = Step(f, i)
  <2>1. CASE i = 0
    BY <1>5, <2>1
  <2>2. CASE i # 0
    <3>1. i \in 1..n
      BY <1>0, <2>2
    <3>2. PICK v \in Seq(Nat) : v = f[records[i].parent]
      BY <1>0, <1>4, <3>1
    <3>3. f[i] = Append(v, i)
      BY <1>3, <1>5, <3>1, <3>2
    <3>4. QED
      BY <2>2, <3>2, <3>3
  <2>3. QED
    BY <2>1, <2>2
<1>7. path = [i \in 0..n |-> Step(path, i)]
  <2>. HIDE DEF Step
  <2>1. f = [i \in 0..n |-> Step(f, i)]
    BY <1>4, <1>6
  <2>2. QED
    BY <2>1
<1>. HIDE DEF path
<1>8. \A i \in 0..n : path[i] = Step(path, i)
  <2>. HIDE DEF Step
  <2>1. QED
    BY <1>7
<1>9. path[0] = <<>> /\ \A i \in 1..n : path[i] = Append(path[records[i].parent], i)
  <2>1. path[0] = Step(path, 0)
    BY <1>0, <1>8
  <2>2. ASSUME NEW i \in 1..n PROVE path[i] = Append(path[records[i].parent], i)
    <3>1. path[i] = Step(path, i) /\ i # 0
      BY <1>0, <1>8
    <3>2. QED
      BY <3>1
  <2>3. QED
    BY <2>1, <2>2
<1>. HIDE DEF Step
<1>10. \A i \in 0..n : path[i] \in Seq(Nat) /\ Range(path[i]) \subseteq 1..i
  <2>. DEFINE S == {i \in 0..n : path[i] \in Seq(Nat) /\ Range(path[i]) \subseteq 1..i}
  <2>1. 0 \in S
    <3>1. Range(<<>>) = {} /\ <<>> \in Seq(Nat)
      BY DEF Range
    <3>2. path[0] \in Seq(Nat) /\ Range(path[0]) = {} /\ 0 \in 0..n
      BY <1>0, <1>9, <3>1
    <3>3. QED
      BY <3>2
  <2>2. ASSUME NEW i \in 1..n, records[i].parent \in S PROVE i \in S
    <3>1. PICK k : k = records[i].parent
      OBVIOUS
    <3>2. PICK s : s = path[k]
      OBVIOUS
    <3>3. k \in 0..(i - 1) /\ s \in Seq(Nat) /\ Range(s) \subseteq 1..k /\ path[i] = Append(s, i)
      BY <1>0, <1>9, <2>2, <3>1, <3>2
    <3>4. Append(s, i) \in Seq(Nat) /\ Range(Append(s, i)) = Range(s) \cup {i}
      BY <3>3, AppendRange
    <3>5. Range(s) \cup {i} \subseteq 1..i /\ i \in 0..n
      BY <1>0, <3>3
    <3>6. QED
      BY <3>3, <3>4, <3>5
  <2>. HIDE DEF S
  <2>3. \A i \in 0..n : i \in S
    BY <2>1, <2>2, AlongParents DEF n
  <2>4. QED
    BY <2>3 DEF S
<1>11. QED
  BY <1>1, <1>9, <1>10 DEF n

\* What is appended to a session file changes no branch of it.
LEMMA BranchGrows ==
  ASSUME NEW records, Tree(records), NEW more, Tree(more), Len(records) <= Len(more),
         \A i \in 1..Len(records) : more[i] = records[i]
  PROVE  \A i \in 0..Len(records) : Branch(more, i) = Branch(records, i)
<1>. DEFINE S == {i \in 0..Len(records) : Branch(more, i) = Branch(records, i)}
<1>0. Len(records) \in Nat /\ Len(more) \in Nat
  BY DEF Tree
<1>1. /\ Branch(records, 0) = <<>> /\ Branch(more, 0) = <<>>
      /\ \A i \in 1..Len(records) : Branch(records, i) = Append(Branch(records, records[i].parent), i)
      /\ \A i \in 1..Len(more) : Branch(more, i) = Append(Branch(more, more[i].parent), i)
  BY BranchSteps
<1>2. 0 \in S
  BY <1>0, <1>1
<1>3. ASSUME NEW i \in 1..Len(records), records[i].parent \in S PROVE i \in S
  <2>1. more[i].parent = records[i].parent /\ i \in 1..Len(more)
    BY <1>0
  <2>2. /\ Branch(more, i) = Append(Branch(more, more[i].parent), i)
        /\ Branch(records, i) = Append(Branch(records, records[i].parent), i)
    BY <1>1, <2>1
  <2>3. Branch(more, records[i].parent) = Branch(records, records[i].parent)
    BY <1>3
  <2>4. i \in 0..Len(records)
    BY <1>0
  <2>5. QED
    BY <2>1, <2>2, <2>3, <2>4
<1>. HIDE DEF S
<1>4. \A i \in 0..Len(records) : i \in S
  BY <1>2, <1>3, AlongParents
<1>5. QED
  BY <1>4 DEF S

\* dropFailedTurnInput keeps a part of the messages.
LEMMA DropWithin ==
  ASSUME NEW records, NEW UserKinds, NEW v \in Seq(Nat)
  PROVE  /\ DropTrailing(records, v, UserKinds) \in Seq(Nat)
         /\ Range(DropTrailing(records, v, UserKinds)) \subseteq Range(v)
<1>1. PICK T : T = {0} \cup {j \in DOMAIN v : records[v[j]].kind \notin UserKinds}
  OBVIOUS
<1>2. T \subseteq 0..Len(v) /\ T # {} /\ Len(v) \in Nat
  BY <1>1
<1>3. PICK last : last = Max(T)
  OBVIOUS
<1>4. last \in 0..Len(v)
  BY <1>2, <1>3, MaxWithin
<1>5. DropTrailing(records, v, UserKinds) = SubSeq(v, 1, last)
  BY <1>1, <1>3 DEF DropTrailing
<1>6. /\ SubSeq(v, 1, last) \in Seq(Nat) /\ DOMAIN SubSeq(v, 1, last) = 1..last
      /\ \A j \in 1..last : SubSeq(v, 1, last)[j] = v[j]
  BY <1>2, <1>4
<1>7. \A j \in 1..last : v[j] \in Range(v)
  BY <1>4 DEF Range
<1>8. QED
  BY <1>5, <1>6, <1>7 DEF Range

\* What a record makes of the messages before it (projectSessionHistory).
MessagesWith(records, before, i, UserKinds, HostKinds) ==
  CASE records[i].kind \in HostKinds -> before
    [] records[i].kind = "failed" -> DropTrailing(records, before, UserKinds)
    [] records[i].kind = "checkpoint" -> <<i>>
    [] OTHER -> Append(before, i)

\* What the provider is shown of a branch is what its last record makes of the
\* branch before it, and is made of records up to its head.
LEMMA ProjectSteps ==
  ASSUME NEW records, Tree(records), NEW UserKinds, NEW HostKinds
  PROVE  /\ Project(records, 0, UserKinds, HostKinds) = <<>>
         /\ \A i \in 1..Len(records) :
              Project(records, i, UserKinds, HostKinds) =
                MessagesWith(records, Project(records, records[i].parent, UserKinds, HostKinds), i,
                         UserKinds, HostKinds)
         /\ \A i \in 0..Len(records) :
              /\ Project(records, i, UserKinds, HostKinds) \in Seq(Nat)
              /\ Range(Project(records, i, UserKinds, HostKinds)) \subseteq 1..i
<1>. DEFINE n == Len(records)
            Then(v, i) == MessagesWith(records, v, i, UserKinds, HostKinds)
            Step(f, i) == IF i = 0 THEN <<>> ELSE Then(f[records[i].parent], i)
            shown == CHOOSE f : f = [i \in 0..n |-> Step(f, i)]
            next == [i \in 1..n |-> [v \in Seq(Nat) |-> Then(v, i)]]
<1>0. n \in Nat /\ \A i \in 1..n : records[i].parent \in 0..(i - 1) /\ records[i].parent \in 0..n
  BY DEF Tree
<1>1. \A i : Project(records, i, UserKinds, HostKinds) = shown[i]
  BY Zenon DEF Project, MessagesWith
<1>2. ASSUME NEW v \in Seq(Nat), NEW i \in Nat
      PROVE  Then(v, i) \in Seq(Nat) /\ Range(Then(v, i)) \subseteq Range(v) \cup {i}
  <2>1. Append(v, i) \in Seq(Nat) /\ Range(Append(v, i)) = Range(v) \cup {i}
    BY AppendRange
  <2>2. <<i>> \in Seq(Nat) /\ Range(<<i>>) = {i}
    BY DEF Range
  <2>3. PICK d : d = DropTrailing(records, v, UserKinds)
    OBVIOUS
  <2>4. d \in Seq(Nat) /\ Range(d) \subseteq Range(v)
    BY <2>3, DropWithin
  <2>5. Then(v, i) \in {v, d, <<i>>, Append(v, i)}
    BY <2>3 DEF MessagesWith
  <2>. HIDE DEF Then
  <2>6. QED
    BY <2>1, <2>2, <2>4, <2>5
<1>. HIDE DEF Then
<1>3. next \in Steps(n, Seq(Nat)) /\ <<>> \in Seq(Nat)
  BY <1>2 DEF Steps
<1>4. ASSUME NEW i \in 1..n, NEW v \in Seq(Nat) PROVE next[i][v] = Then(v, i)
  OBVIOUS
<1>. HIDE DEF next
<1>5. PICK f \in [0..n -> Seq(Nat)] : Walks(f, records, <<>>, next)
  BY <1>3, WalkExists
<1>. HIDE DEF n
<1>6. f[0] = <<>> /\ \A i \in 1..n : f[i] = next[i][f[records[i].parent]]
  BY <1>5 DEF Walks, n
<1>7. ASSUME NEW i \in 0..n PROVE f[i] = Step(f, i)
  <2>1. CASE i = 0
    BY <1>6, <2>1
  <2>2. CASE i # 0
    <3>1. i \in 1..n
      BY <1>0, <2>2
    <3>2. PICK v \in Seq(Nat) : v = f[records[i].parent]
      BY <1>0, <1>5, <3>1
    <3>3. f[i] = Then(v, i)
      BY <1>4, <1>6, <3>1, <3>2
    <3>4. QED
      BY <2>2, <3>2, <3>3
  <2>3. QED
    BY <2>1, <2>2
<1>8. shown = [i \in 0..n |-> Step(shown, i)]
  <2>. HIDE DEF Step
  <2>1. f = [i \in 0..n |-> Step(f, i)]
    BY <1>5, <1>7
  <2>2. QED
    BY <2>1
<1>. HIDE DEF shown
<1>9. \A i \in 0..n : shown[i] = Step(shown, i)
  <2>. HIDE DEF Step
  <2>1. QED
    BY <1>8
<1>10. shown[0] = <<>> /\ \A i \in 1..n : shown[i] = Then(shown[records[i].parent], i)
  <2>1. shown[0] = Step(shown, 0)
    BY <1>0, <1>9
  <2>2. ASSUME NEW i \in 1..n PROVE shown[i] = Then(shown[records[i].parent], i)
    <3>1. shown[i] = Step(shown, i) /\ i # 0
      BY <1>0, <1>9
    <3>2. QED
      BY <3>1
  <2>3. QED
    BY <2>1, <2>2
<1>. HIDE DEF Step
<1>11. \A i \in 0..n : shown[i] \in Seq(Nat) /\ Range(shown[i]) \subseteq 1..i
  <2>. DEFINE S == {i \in 0..n : shown[i] \in Seq(Nat) /\ Range(shown[i]) \subseteq 1..i}
  <2>1. 0 \in S
    <3>1. Range(<<>>) = {} /\ <<>> \in Seq(Nat)
      BY DEF Range
    <3>2. shown[0] \in Seq(Nat) /\ Range(shown[0]) = {} /\ 0 \in 0..n
      BY <1>0, <1>10, <3>1
    <3>3. QED
      BY <3>2
  <2>2. ASSUME NEW i \in 1..n, records[i].parent \in S PROVE i \in S
    <3>1. PICK k : k = records[i].parent
      OBVIOUS
    <3>2. PICK s : s = shown[k]
      OBVIOUS
    <3>3. k \in 0..(i - 1) /\ s \in Seq(Nat) /\ Range(s) \subseteq 1..k /\ shown[i] = Then(s, i) /\ i \in Nat
      BY <1>0, <1>10, <2>2, <3>1, <3>2
    <3>4. Then(s, i) \in Seq(Nat) /\ Range(Then(s, i)) \subseteq Range(s) \cup {i}
      BY <1>2, <3>3
    <3>5. Range(s) \cup {i} \subseteq 1..i /\ i \in 0..n
      BY <1>0, <3>3
    <3>6. QED
      BY <3>3, <3>4, <3>5
  <2>. HIDE DEF S
  <2>3. \A i \in 0..n : i \in S
    BY <2>1, <2>2, AlongParents DEF n
  <2>4. QED
    BY <2>3 DEF S
<1>12. QED
  BY <1>1, <1>10, <1>11 DEF n, Then

\* What the provider is shown of a branch is made of records up to its head.
LEMMA ProjectWithin ==
  ASSUME NEW records, Tree(records), NEW UserKinds, NEW HostKinds
  PROVE  \A i \in 0..Len(records) :
           /\ Project(records, i, UserKinds, HostKinds) \in Seq(Nat)
           /\ Range(Project(records, i, UserKinds, HostKinds)) \subseteq 1..i
BY ProjectSteps

\* What is appended to a session file changes nothing the provider was shown of it.
LEMMA ProjectGrows ==
  ASSUME NEW records, Tree(records), NEW more, Tree(more), Len(records) <= Len(more),
         \A i \in 1..Len(records) : more[i] = records[i], NEW UserKinds, NEW HostKinds
  PROVE  \A i \in 0..Len(records) :
           Project(more, i, UserKinds, HostKinds) = Project(records, i, UserKinds, HostKinds)
<1>. DEFINE P(r, i) == Project(r, i, UserKinds, HostKinds)
            S == {i \in 0..Len(records) : P(more, i) = P(records, i)}
<1>0. Len(records) \in Nat /\ Len(more) \in Nat
  BY DEF Tree
<1>1. /\ P(records, 0) = <<>> /\ P(more, 0) = <<>>
      /\ \A i \in 1..Len(records) :
           P(records, i) = MessagesWith(records, P(records, records[i].parent), i, UserKinds, HostKinds)
      /\ \A i \in 1..Len(more) :
           P(more, i) = MessagesWith(more, P(more, more[i].parent), i, UserKinds, HostKinds)
      /\ \A i \in 0..Len(records) :
           P(records, i) \in Seq(Nat) /\ Range(P(records, i)) \subseteq 1..i
  BY ProjectSteps
<1>. HIDE DEF P
<1>2. 0 \in S
  BY <1>0, <1>1
<1>3. ASSUME NEW i \in 1..Len(records), records[i].parent \in S PROVE i \in S
  <2>. DEFINE k == records[i].parent
              v == P(records, k)
  <2>1. more[i] = records[i] /\ i \in 1..Len(more) /\ k \in 0..(i - 1) /\ k \in 0..Len(records)
    BY <1>0 DEF Tree
  <2>2. v \in Seq(Nat) /\ Range(v) \subseteq 1..k /\ P(more, k) = v
    BY <1>1, <1>3, <2>1
  <2>3. P(more, i) = MessagesWith(more, v, i, UserKinds, HostKinds)
    BY <1>1, <2>1, <2>2
  <2>4. P(records, i) = MessagesWith(records, v, i, UserKinds, HostKinds)
    BY <1>1
  <2>. HIDE DEF v
  <2>5. \A j \in DOMAIN v : more[v[j]] = records[v[j]]
    <3>1. 1..k \subseteq 1..Len(records)
      BY <1>0, <2>1
    <3>2. \A j \in DOMAIN v : v[j] \in Range(v)
      BY DEF Range
    <3>3. QED
      BY <2>2, <3>1, <3>2
  <2>6. DropTrailing(more, v, UserKinds) = DropTrailing(records, v, UserKinds)
    <3>1. {j \in DOMAIN v : more[v[j]].kind \notin UserKinds}
            = {j \in DOMAIN v : records[v[j]].kind \notin UserKinds}
      BY <2>5
    <3>2. QED
      BY <3>1, Zenon DEF DropTrailing
  <2>7. MessagesWith(more, v, i, UserKinds, HostKinds) = MessagesWith(records, v, i, UserKinds, HostKinds)
    BY <2>1, <2>6, Zenon DEF MessagesWith
  <2>8. i \in 0..Len(records)
    BY <1>0
  <2>9. QED
    BY <2>3, <2>4, <2>7, <2>8
<1>. HIDE DEF S
<1>4. \A i \in 0..Len(records) : i \in S
  BY <1>2, <1>3, AlongParents
<1>5. QED
  BY <1>4 DEF S, P
\* A record is appended: the tree grows by it, and by nothing else.
OneMore(records, more) ==
  /\ Tree(more) /\ Len(more) = Len(records) + 1
  /\ \A i \in 1..Len(records) : more[i] = records[i]

LEMMA TreeAppends ==
  ASSUME NEW R, NEW records \in Seq(R), Tree(records), NEW e \in R, e.parent \in 0..Len(records)
  PROVE  /\ Append(records, e) \in Seq(R) /\ OneMore(records, Append(records, e))
         /\ Append(records, e)[Len(records) + 1] = e
<1>. DEFINE more == Append(records, e)
<1>1. /\ more \in Seq(R) /\ Len(more) = Len(records) + 1 /\ more[Len(records) + 1] = e
      /\ \A i \in 1..Len(records) : more[i] = records[i]
      /\ Len(records) \in Nat /\ DOMAIN more = 1..Len(more)
  OBVIOUS
<1>. HIDE DEF more
<1>2. ASSUME NEW i \in 1..Len(more) PROVE more[i].parent \in 0..(i - 1)
  <2>1. CASE i = Len(records) + 1
    BY <1>1, <2>1
  <2>2. CASE i \in 1..Len(records)
    BY <1>1, <2>2 DEF Tree
  <2>3. QED
    BY <1>1, <2>1, <2>2
<1>3. Tree(more) /\ OneMore(records, more)
  BY <1>1, <1>2 DEF Tree, OneMore
<1>4. QED
  BY <1>1, <1>3 DEF more

\* What the provider is shown, and the branches, when a record is appended.
ProjectsOn(records, more, UserKinds, HostKinds) ==
  /\ \A i \in 0..Len(records) :
       Project(more, i, UserKinds, HostKinds) = Project(records, i, UserKinds, HostKinds)
  /\ Project(more, Len(more), UserKinds, HostKinds)
       = MessagesWith(more, Project(records, more[Len(more)].parent, UserKinds, HostKinds), Len(more),
                      UserKinds, HostKinds)
BranchesOn(records, more) ==
  /\ \A i \in 0..Len(records) : Branch(more, i) = Branch(records, i)
  /\ Branch(more, Len(more)) = Append(Branch(records, more[Len(more)].parent), Len(more))

LEMMA ProjectAppends ==
  ASSUME NEW records, Tree(records), NEW more, OneMore(records, more), NEW UserKinds, NEW HostKinds
  PROVE  ProjectsOn(records, more, UserKinds, HostKinds) /\ BranchesOn(records, more)
<1>1. /\ Tree(more) /\ \A i \in 1..Len(records) : more[i] = records[i]
      /\ Len(records) \in Nat /\ Len(more) \in Nat /\ Len(records) <= Len(more)
      /\ Len(more) \in 1..Len(more) /\ more[Len(more)].parent \in 0..Len(records)
  BY DEF OneMore, Tree
<1>2. \A i \in 0..Len(records) :
        Project(more, i, UserKinds, HostKinds) = Project(records, i, UserKinds, HostKinds)
  BY <1>1, ProjectGrows
<1>3. \A i \in 0..Len(records) : Branch(more, i) = Branch(records, i)
  BY <1>1, BranchGrows
<1>4. Project(more, Len(more), UserKinds, HostKinds)
        = MessagesWith(more, Project(more, more[Len(more)].parent, UserKinds, HostKinds), Len(more),
                   UserKinds, HostKinds)
  BY <1>1, ProjectSteps
<1>5. Branch(more, Len(more)) = Append(Branch(more, more[Len(more)].parent), Len(more))
  BY <1>1, BranchSteps
<1>6. QED
  BY <1>1, <1>2, <1>3, <1>4, <1>5 DEF ProjectsOn, BranchesOn
=============================================================================
