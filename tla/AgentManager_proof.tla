------------------------- MODULE AgentManager_proof -------------------------
(***************************************************************************)
(* Safety of the SubAgent execution scheduler, for every set of runs,      *)
(* every key assignment and every positive maxConcurrent; and of the       *)
(* SubAgent manager and its store over it, for every set of runs and       *)
(* parents, every mode, delegation and retry limit, and any number of      *)
(* crashes and store failures.                                             *)
(***************************************************************************)
EXTENDS AgentManager, DataLemmas

-----------------------------------------------------------------------------
(* The scheduler *)

(* Inductiveness.  Each action is shown to preserve the invariant's parts    *)
(* that it can disturb.                                                      *)

\* The idle scheduler satisfies the invariant.
LEMMA SchedInitInv == SchedInit => SchedInv
<1>. SUFFICES ASSUME SchedInit PROVE SchedInv
  OBVIOUS
<1>1. SchedTypeOK
  BY MaxConcurrentAssumption DEF SchedInit, SchedTypeOK, Phase
<1>2. SlotAccounting
  <2>1. Holders = {}
    BY DEF SchedInit, Holders
  <2>2. QED
    BY <2>1, FS_EmptySet, MaxConcurrentAssumption DEF SchedInit, SlotAccounting
<1>3. NoStrandedSlotWaiter /\ NoStrandedKeyWaiter /\ OnlyDelegatedWaitForKey
  BY DEF SchedInit, NoStrandedSlotWaiter, NoStrandedKeyWaiter, OnlyDelegatedWaitForKey
<1>4. DelegationMutex
  BY DEF SchedInit, DelegationMutex, KeyOwners, KeyPhase
<1>5. QueuesMatchWaiters
  BY DEF SchedInit, QueuesMatchWaiters, Occurs, Distinct
<1>6. QED
  BY <1>1, <1>2, <1>3, <1>4, <1>5 DEF SchedInv

\* acquireDelegation: the key is taken, the run queues, or it is refused.
LEMMA AcquireDelegationInv ==
  ASSUME SchedInv, NEW r \in Run, AcquireDelegation(r)
  PROVE  SchedInv'
<1>. USE DEF SchedInv
<1>1. /\ KeyOf[r] \in Key /\ phase[r] = "idle" /\ Keyed(r)
      /\ phase \in [Run -> Phase] /\ delegationWaiters \in [Key -> Seq(Run)]
  BY KeyAssumption DEF AcquireDelegation, Keyed, SchedTypeOK
<1>2. ~Occurs(r, delegationWaiters[KeyOf[r]]) /\ Distinct(delegationWaiters[KeyOf[r]])
  BY <1>1 DEF QueuesMatchWaiters
<1>3. Holders' = Holders
  BY <1>1 DEF AcquireDelegation, Holders
<1>4. SlotAccounting' /\ NoStrandedSlotWaiter'
  BY <1>3 DEF AcquireDelegation, SlotAccounting, NoStrandedSlotWaiter
<1>5. CASE r \in aborted
  <2>1. /\ phase' = [phase EXCEPT ![r] = "refused"]
        /\ UNCHANGED <<aborted, runningCount, slotWaiters, delegationRunning, delegationWaiters>>
    BY <1>5 DEF AcquireDelegation
  <2>2. SchedTypeOK'
    BY <1>1, <2>1 DEF SchedTypeOK, Phase
  <2>3. \A k \in Key : KeyOwners(k)' = KeyOwners(k)
    BY <1>1, <2>1 DEF KeyOwners, KeyPhase
  <2>4. DelegationMutex' /\ NoStrandedKeyWaiter'
    BY <2>1, <2>3 DEF DelegationMutex, NoStrandedKeyWaiter
  <2>5. QueuesMatchWaiters' /\ OnlyDelegatedWaitForKey'
    BY <1>1, <2>1 DEF QueuesMatchWaiters, OnlyDelegatedWaitForKey, Keyed
  <2>6. QED
    BY <1>4, <2>2, <2>4, <2>5
<1>6. CASE r \notin aborted /\ KeyOf[r] \notin delegationRunning
  <2>1. /\ phase' = [phase EXCEPT ![r] = "keyed"]
        /\ delegationRunning' = delegationRunning \cup {KeyOf[r]}
        /\ UNCHANGED <<aborted, runningCount, slotWaiters, delegationWaiters>>
    BY <1>6 DEF AcquireDelegation
  <2>2. SchedTypeOK'
    BY <1>1, <2>1 DEF SchedTypeOK, Phase
  <2>3. \A k \in Key : KeyOwners(k)' = IF k = KeyOf[r] THEN KeyOwners(k) \cup {r} ELSE KeyOwners(k)
    BY <1>1, <2>1 DEF KeyOwners, KeyPhase
  <2>4. KeyOwners(KeyOf[r]) = {}
    BY <1>1, <1>6 DEF DelegationMutex
  <2>5. DelegationMutex'
    <3>. SUFFICES ASSUME NEW k \in Key
                  PROVE  /\ \A x, y \in KeyOwners(k)' : x = y
                         /\ k \in delegationRunning' <=> KeyOwners(k)' # {}
      BY DEF DelegationMutex
    <3>1. CASE k = KeyOf[r]
      BY <2>1, <2>3, <2>4, <3>1
    <3>2. CASE k # KeyOf[r]
      BY <2>1, <2>3, <3>2 DEF DelegationMutex
    <3>3. QED
      BY <3>1, <3>2
  <2>6. NoStrandedKeyWaiter'
    BY <1>1, <2>1, <2>3 DEF NoStrandedKeyWaiter
  <2>7. QueuesMatchWaiters' /\ OnlyDelegatedWaitForKey'
    BY <1>1, <2>1 DEF QueuesMatchWaiters, OnlyDelegatedWaitForKey, Keyed
  <2>8. QED
    BY <1>4, <2>2, <2>5, <2>6, <2>7
<1>7. CASE r \notin aborted /\ KeyOf[r] \in delegationRunning
  <2>. DEFINE q == delegationWaiters[KeyOf[r]]
  <2>1. /\ phase' = [phase EXCEPT ![r] = "keyWait"]
        /\ delegationWaiters' = [delegationWaiters EXCEPT ![KeyOf[r]] = Append(q, r)]
        /\ UNCHANGED <<aborted, runningCount, slotWaiters, delegationRunning>>
    BY <1>7 DEF AcquireDelegation
  <2>2. /\ q \in Seq(Run) /\ Append(q, r) \in Seq(Run) /\ Distinct(Append(q, r))
        /\ \A x : Occurs(x, Append(q, r)) <=> Occurs(x, q) \/ x = r
    BY <1>1, <1>2, AppendQueue
  <2>3. SchedTypeOK'
    BY <1>1, <2>1, <2>2 DEF SchedTypeOK, Phase
  <2>4. \A k \in Key : KeyOwners(k)' = KeyOwners(k)
    BY <1>1, <2>1 DEF KeyOwners, KeyPhase
  <2>5. DelegationMutex'
    BY <2>1, <2>4 DEF DelegationMutex
  <2>6. NoStrandedKeyWaiter'
    BY <1>1, <1>7, <2>1, <2>4 DEF NoStrandedKeyWaiter, DelegationMutex
  <2>7. QueuesMatchWaiters'
    <3>. HIDE DEF q
    <3>1. \A x \in Run : Occurs(x, slotWaiters)' <=> phase'[x] = "slotWait"
      BY <1>1, <2>1 DEF QueuesMatchWaiters
    <3>2. \A k \in Key, x \in Run :
             Occurs(x, delegationWaiters'[k]) <=> phase'[x] = "keyWait" /\ KeyOf[x] = k
      BY <1>1, <2>1, <2>2 DEF QueuesMatchWaiters, q
    <3>3. \A k \in Key : Distinct(delegationWaiters'[k])
      BY <1>1, <2>1, <2>2 DEF QueuesMatchWaiters
    <3>4. QED
      BY <2>1, <3>1, <3>2, <3>3 DEF QueuesMatchWaiters
  <2>8. OnlyDelegatedWaitForKey'
    BY <1>1, <2>1 DEF OnlyDelegatedWaitForKey, Keyed
  <2>9. QED
    BY <1>4, <2>3, <2>5, <2>6, <2>7, <2>8
<1>8. QED
  BY <1>5, <1>6, <1>7

\* acquireSlot: a slot is taken, the run queues, or it is refused.
LEMMA AcquireSlotInv ==
  ASSUME SchedInv, NEW r \in Run, AcquireSlot(r)
  PROVE  SchedInv'
<1>. USE DEF SchedInv
<1>1. /\ phase[r] \in {"idle", "keyed"} /\ phase \in [Run -> Phase]
      /\ phase[r] = "idle" => KeyOf[r] = NoKey
      /\ phase[r] = "keyed" => KeyOf[r] # NoKey
      /\ slotWaiters \in Seq(Run) /\ runningCount \in 0..MaxConcurrent
      /\ UNCHANGED <<aborted, delegationRunning, delegationWaiters>>
  BY DEF AcquireSlot, SchedTypeOK, Keyed, OnlyDelegatedWaitForKey
<1>2. ~Occurs(r, slotWaiters) /\ Distinct(slotWaiters)
  BY <1>1 DEF QueuesMatchWaiters
<1>3. ASSUME NEW p \in {"slotRefused", "held", "slotWait"}, phase' = [phase EXCEPT ![r] = p]
      PROVE  /\ phase' \in [Run -> Phase]
             /\ DelegationMutex' /\ NoStrandedKeyWaiter' /\ OnlyDelegatedWaitForKey'
             /\ \A k \in Key, x \in Run :
                  Occurs(x, delegationWaiters'[k]) <=> phase'[x] = "keyWait" /\ KeyOf[x] = k
  <2>1. phase' \in [Run -> Phase]
    BY <1>1, <1>3 DEF Phase
  <2>2. \A k \in Key : KeyOwners(k)' = KeyOwners(k)
    BY <1>1, <1>3, KeyAssumption DEF KeyOwners, KeyPhase
  <2>3. DelegationMutex' /\ NoStrandedKeyWaiter'
    BY <1>1, <2>2 DEF DelegationMutex, NoStrandedKeyWaiter
  <2>4. OnlyDelegatedWaitForKey'
    BY <1>1, <1>3 DEF OnlyDelegatedWaitForKey, Keyed
  <2>5. \A k \in Key, x \in Run :
          Occurs(x, delegationWaiters'[k]) <=> phase'[x] = "keyWait" /\ KeyOf[x] = k
    BY <1>1, <1>3 DEF QueuesMatchWaiters
  <2>6. QED
    BY <2>1, <2>3, <2>4, <2>5
<1>4. CASE r \in aborted
  <2>1. phase' = [phase EXCEPT ![r] = "slotRefused"] /\ UNCHANGED <<runningCount, slotWaiters>>
    BY <1>4 DEF AcquireSlot
  <2>2. Holders' = Holders
    BY <1>1, <2>1 DEF Holders
  <2>3. SchedTypeOK' /\ SlotAccounting' /\ NoStrandedSlotWaiter'
    BY <1>1, <1>3, <2>1, <2>2 DEF SchedTypeOK, SlotAccounting, NoStrandedSlotWaiter
  <2>4. QueuesMatchWaiters'
    BY <1>1, <1>3, <2>1 DEF QueuesMatchWaiters
  <2>5. QED
    BY <1>3, <2>1, <2>3, <2>4
<1>5. CASE r \notin aborted /\ runningCount < MaxConcurrent
  <2>1. /\ phase' = [phase EXCEPT ![r] = "held"] /\ runningCount' = runningCount + 1
        /\ UNCHANGED slotWaiters
    BY <1>1, <1>5, MaxConcurrentAssumption DEF AcquireSlot
  <2>2. Holders' = Holders \cup {r} /\ r \notin Holders /\ IsFiniteSet(Holders)
    BY <1>1, <2>1, RunAssumption, FS_Subset DEF Holders
  <2>3. Cardinality(Holders') = Cardinality(Holders) + 1
    BY <2>2, FS_AddElement
  <2>4. SlotAccounting'
    BY <1>1, <1>5, <2>1, <2>3, MaxConcurrentAssumption DEF SlotAccounting
  <2>5. slotWaiters = <<>>
    BY <1>1, <1>5, MaxConcurrentAssumption DEF NoStrandedSlotWaiter
  <2>6. SchedTypeOK' /\ NoStrandedSlotWaiter'
    BY <1>1, <1>3, <1>5, <2>1, <2>5, MaxConcurrentAssumption DEF SchedTypeOK, NoStrandedSlotWaiter
  <2>7. QueuesMatchWaiters'
    BY <1>1, <1>3, <2>1 DEF QueuesMatchWaiters
  <2>8. QED
    BY <1>3, <2>1, <2>4, <2>6, <2>7
<1>6. CASE r \notin aborted /\ runningCount >= MaxConcurrent
  <2>1. /\ phase' = [phase EXCEPT ![r] = "slotWait"]
        /\ slotWaiters' = Append(slotWaiters, r) /\ UNCHANGED runningCount
    BY <1>1, <1>6, MaxConcurrentAssumption DEF AcquireSlot
  <2>2. /\ slotWaiters' \in Seq(Run) /\ Distinct(slotWaiters')
        /\ \A x : Occurs(x, slotWaiters') <=> Occurs(x, slotWaiters) \/ x = r
    BY <1>1, <1>2, <2>1, AppendQueue
  <2>3. Holders' = Holders
    BY <1>1, <2>1 DEF Holders
  <2>4. runningCount = MaxConcurrent
    BY <1>1, <1>6, MaxConcurrentAssumption
  <2>5. SchedTypeOK' /\ SlotAccounting' /\ NoStrandedSlotWaiter'
    BY <1>1, <1>3, <2>1, <2>2, <2>3, <2>4 DEF SchedTypeOK, SlotAccounting, NoStrandedSlotWaiter
  <2>6. \A x \in Run : Occurs(x, slotWaiters') <=> phase'[x] = "slotWait"
    BY <1>1, <2>1, <2>2 DEF QueuesMatchWaiters
  <2>7. QueuesMatchWaiters'
    BY <1>1, <1>3, <2>1, <2>2, <2>6 DEF QueuesMatchWaiters
  <2>8. QED
    BY <1>3, <2>1, <2>5, <2>7
<1>7. QED
  BY <1>4, <1>5, <1>6 DEF AcquireSlot

\* A waiter's signal fires: it leaves its queue, and only it.
LEMMA AbortInv ==
  ASSUME SchedInv, NEW r \in Run, Abort(r)
  PROVE  SchedInv'
<1>. USE DEF SchedInv
<1>1. /\ phase \in [Run -> Phase] /\ slotWaiters \in Seq(Run)
      /\ delegationWaiters \in [Key -> Seq(Run)]
      /\ aborted' = aborted \cup {r} /\ aborted' \subseteq Run
      /\ UNCHANGED <<runningCount, delegationRunning>>
  BY DEF Abort, SchedTypeOK
<1>2. CASE phase[r] = "keyWait"
  <2>. DEFINE q == delegationWaiters[KeyOf[r]]
  <2>1. KeyOf[r] \in Key
    BY <1>2, KeyAssumption DEF OnlyDelegatedWaitForKey, Keyed
  <2>2. q \in Seq(Run) /\ Distinct(q) /\ Occurs(r, q)
    BY <1>1, <1>2, <2>1 DEF QueuesMatchWaiters
  <2>3. /\ phase' = [phase EXCEPT ![r] = "refused"] /\ UNCHANGED slotWaiters
        /\ delegationWaiters' = [delegationWaiters EXCEPT ![KeyOf[r]] = Without(q, r)]
    BY <1>1, <1>2 DEF Abort
  <2>4. /\ Without(q, r) \in Seq(Run) /\ Distinct(Without(q, r))
        /\ \A x : Occurs(x, Without(q, r)) <=> Occurs(x, q) /\ x # r
    BY <2>2, SpliceQueue
  <2>5. SchedTypeOK'
    BY <1>1, <2>3, <2>4 DEF SchedTypeOK, Phase
  <2>6. Holders' = Holders /\ \A k \in Key : KeyOwners(k)' = KeyOwners(k)
    BY <1>1, <1>2, <2>3 DEF Holders, KeyOwners, KeyPhase
  <2>7. SlotAccounting' /\ NoStrandedSlotWaiter' /\ DelegationMutex'
    BY <1>1, <2>3, <2>6 DEF SlotAccounting, NoStrandedSlotWaiter, DelegationMutex
  <2>8. NoStrandedKeyWaiter'
    <3>1. KeyOwners(KeyOf[r]) # {}
      BY <2>1, <2>2, EmptyQueue DEF NoStrandedKeyWaiter
    <3>2. QED
      BY <1>1, <2>1, <2>3, <2>6, <3>1 DEF NoStrandedKeyWaiter
  <2>9. QueuesMatchWaiters'
    <3>. HIDE DEF q
    <3>1. \A x \in Run : Occurs(x, slotWaiters') <=> phase'[x] = "slotWait"
      BY <1>1, <1>2, <2>3 DEF QueuesMatchWaiters
    <3>2. \A k \in Key, x \in Run :
             Occurs(x, delegationWaiters'[k]) <=> phase'[x] = "keyWait" /\ KeyOf[x] = k
      BY <1>1, <1>2, <2>3, <2>4 DEF QueuesMatchWaiters, q
    <3>3. \A k \in Key : Distinct(delegationWaiters'[k])
      BY <1>1, <2>3, <2>4 DEF QueuesMatchWaiters
    <3>4. QED
      BY <2>3, <3>1, <3>2, <3>3 DEF QueuesMatchWaiters
  <2>10. OnlyDelegatedWaitForKey'
    BY <1>1, <2>3 DEF OnlyDelegatedWaitForKey, Keyed
  <2>11. QED
    BY <2>5, <2>7, <2>8, <2>9, <2>10
<1>3. CASE phase[r] = "slotWait"
  <2>1. Distinct(slotWaiters) /\ Occurs(r, slotWaiters)
    BY <1>1, <1>3 DEF QueuesMatchWaiters
  <2>2. /\ phase' = [phase EXCEPT ![r] = "slotRefused"]
        /\ slotWaiters' = Without(slotWaiters, r) /\ UNCHANGED delegationWaiters
    BY <1>1, <1>3 DEF Abort
  <2>3. /\ slotWaiters' \in Seq(Run) /\ Distinct(slotWaiters')
        /\ \A x : Occurs(x, slotWaiters') <=> Occurs(x, slotWaiters) /\ x # r
    BY <1>1, <2>1, <2>2, SpliceQueue
  <2>4. SchedTypeOK'
    BY <1>1, <2>2, <2>3 DEF SchedTypeOK, Phase
  <2>5. Holders' = Holders /\ \A k \in Key : KeyOwners(k)' = KeyOwners(k)
    BY <1>1, <1>3, <2>2 DEF Holders, KeyOwners, KeyPhase
  <2>6. SlotAccounting' /\ DelegationMutex' /\ NoStrandedKeyWaiter'
    BY <1>1, <2>2, <2>5 DEF SlotAccounting, DelegationMutex, NoStrandedKeyWaiter
  <2>7. NoStrandedSlotWaiter'
    <3>1. slotWaiters # <<>>
      BY <1>1, <2>1, EmptyQueue
    <3>2. QED
      BY <1>1, <3>1 DEF NoStrandedSlotWaiter
  <2>8. QueuesMatchWaiters'
    <3>1. \A x \in Run : Occurs(x, slotWaiters') <=> phase'[x] = "slotWait"
      BY <1>1, <1>3, <2>2, <2>3 DEF QueuesMatchWaiters
    <3>2. \A k \in Key, x \in Run :
             Occurs(x, delegationWaiters'[k]) <=> phase'[x] = "keyWait" /\ KeyOf[x] = k
      BY <1>1, <1>3, <2>2 DEF QueuesMatchWaiters
    <3>3. QED
      BY <2>2, <2>3, <3>1, <3>2 DEF QueuesMatchWaiters
  <2>9. OnlyDelegatedWaitForKey'
    BY <1>1, <2>2 DEF OnlyDelegatedWaitForKey, Keyed
  <2>10. QED
    BY <2>4, <2>6, <2>7, <2>8, <2>9
<1>4. CASE phase[r] \notin {"keyWait", "slotWait"}
  <2>1. UNCHANGED <<phase, runningCount, slotWaiters, delegationRunning, delegationWaiters>>
    BY <1>1, <1>4 DEF Abort
  <2>2. Holders' = Holders /\ \A k \in Key : KeyOwners(k)' = KeyOwners(k)
    BY <2>1 DEF Holders, KeyOwners
  <2>3. QED
    BY <1>1, <2>1, <2>2
    DEF SchedTypeOK, SlotAccounting, NoStrandedSlotWaiter, DelegationMutex, NoStrandedKeyWaiter,
        QueuesMatchWaiters, OnlyDelegatedWaitForKey
<1>5. QED
  BY <1>2, <1>3, <1>4

-----------------------------------------------------------------------------
(* The two handovers.                                                        *)

\* What giving the key of r back does, once r has left the key phases and
\* the next waiter, if any, has entered them.
LEMMA KeyHandover ==
  ASSUME SchedInv, NEW r \in Run, phase[r] \in KeyPhase, ReleaseDelegation(KeyOf[r]),
         phase' \in [Run -> Phase],
         phase'[r] \in {"released", "refused"},
         \A x \in NextKeyWaiter(KeyOf[r]) : phase'[x] = "keyed",
         \A x \in Run : x # r /\ x \notin NextKeyWaiter(KeyOf[r])
            => \/ phase'[x] = phase[x]
               \/ phase[x] = "slotWait" /\ phase'[x] = "held"
  PROVE  /\ delegationRunning' \subseteq Key
         /\ delegationWaiters' \in [Key -> Seq(Run)]
         /\ DelegationMutex' /\ NoStrandedKeyWaiter' /\ OnlyDelegatedWaitForKey'
         /\ \A k \in Key : Distinct(delegationWaiters'[k])
         /\ \A k \in Key, x \in Run :
              Occurs(x, delegationWaiters'[k]) <=> phase'[x] = "keyWait" /\ KeyOf[x] = k
<1>. USE DEF SchedInv
<1>. DEFINE c == KeyOf[r]
<1>1. /\ phase \in [Run -> Phase] /\ delegationWaiters \in [Key -> Seq(Run)]
      /\ delegationRunning \subseteq Key /\ c \in Key \cup {NoKey}
      /\ \A k \in Key : Distinct(delegationWaiters[k])
      /\ \A k \in Key, x \in Run :
           Occurs(x, delegationWaiters[k]) <=> phase[x] = "keyWait" /\ KeyOf[x] = k
  BY KeyAssumption DEF SchedTypeOK, QueuesMatchWaiters
<1>2. ASSUME NEW k \in Key, k # c PROVE KeyOwners(k)' = KeyOwners(k)
  <2>1. \A x \in NextKeyWaiter(c) : x \in Run /\ KeyOf[x] = c
    BY <1>1, TailQueue DEF NextKeyWaiter
  <2>2. QED
    BY <1>1, <1>2, <2>1 DEF KeyOwners, KeyPhase
<1>3. CASE c = NoKey
  <2>1. UNCHANGED <<delegationRunning, delegationWaiters>> /\ NextKeyWaiter(c) = {}
    BY <1>1, <1>3, KeyAssumption DEF ReleaseDelegation, NextKeyWaiter
  <2>2. \A k \in Key : k # c /\ KeyOwners(k)' = KeyOwners(k)
    BY <1>2, <1>3, KeyAssumption
  <2>3. DelegationMutex' /\ NoStrandedKeyWaiter'
    BY <2>1, <2>2 DEF DelegationMutex, NoStrandedKeyWaiter
  <2>4. OnlyDelegatedWaitForKey'
    BY <2>1 DEF OnlyDelegatedWaitForKey, Keyed
  <2>5. \A k \in Key, x \in Run :
          Occurs(x, delegationWaiters'[k]) <=> phase'[x] = "keyWait" /\ KeyOf[x] = k
    BY <1>1, <2>1 DEF KeyPhase
  <2>6. QED
    BY <1>1, <2>1, <2>3, <2>4, <2>5
<1>4. CASE c \in Key /\ delegationWaiters[c] = <<>>
  <2>1. /\ NextKeyWaiter(c) = {} /\ UNCHANGED delegationWaiters
        /\ delegationRunning' = delegationRunning \ {c}
    BY <1>4 DEF ReleaseDelegation, NextKeyWaiter
  <2>2. KeyOwners(c) = {r}
    BY <1>4 DEF DelegationMutex, KeyOwners
  <2>3. KeyOwners(c)' = {}
    BY <1>1, <2>1, <2>2 DEF KeyOwners, KeyPhase
  <2>4. DelegationMutex'
    <3>. SUFFICES ASSUME NEW k \in Key
                  PROVE  /\ \A x, y \in KeyOwners(k)' : x = y
                         /\ k \in delegationRunning' <=> KeyOwners(k)' # {}
      BY DEF DelegationMutex
    <3>1. CASE k = c
      BY <2>1, <2>3, <3>1
    <3>2. CASE k # c
      BY <1>2, <2>1, <3>2 DEF DelegationMutex
    <3>3. QED
      BY <3>1, <3>2
  <2>5. NoStrandedKeyWaiter'
    BY <1>2, <1>4, <2>1 DEF NoStrandedKeyWaiter
  <2>6. OnlyDelegatedWaitForKey'
    BY <2>1 DEF OnlyDelegatedWaitForKey, Keyed
  <2>7. \A k \in Key, x \in Run :
          Occurs(x, delegationWaiters'[k]) <=> phase'[x] = "keyWait" /\ KeyOf[x] = k
    BY <1>1, <2>1 DEF KeyPhase
  <2>8. QED
    BY <1>1, <2>1, <2>4, <2>5, <2>6, <2>7
<1>5. CASE c \in Key /\ delegationWaiters[c] # <<>>
  <2>. DEFINE q == delegationWaiters[c]
              n == Head(q)
  <2>1. /\ NextKeyWaiter(c) = {n} /\ UNCHANGED delegationRunning
        /\ delegationWaiters' = [delegationWaiters EXCEPT ![c] = Tail(q)]
    BY <1>5, KeyAssumption DEF ReleaseDelegation, NextKeyWaiter
  <2>2. /\ q \in Seq(Run) /\ n \in Run /\ Occurs(n, q) /\ Tail(q) \in Seq(Run) /\ Distinct(Tail(q))
        /\ \A x : Occurs(x, Tail(q)) <=> Occurs(x, q) /\ x # n
    BY <1>1, <1>5, TailQueue
  <2>3. KeyOf[n] = c /\ phase[n] = "keyWait" /\ n # r /\ phase'[n] = "keyed"
    BY <1>1, <1>5, <2>1, <2>2 DEF KeyPhase
  <2>4. KeyOwners(c) = {r}
    BY <1>5 DEF DelegationMutex, KeyOwners
  <2>. HIDE DEF n
  <2>5. KeyOwners(c)' = {n}
    BY <1>1, <2>1, <2>2, <2>3, <2>4 DEF KeyOwners, KeyPhase
  <2>6. DelegationMutex'
    <3>. SUFFICES ASSUME NEW k \in Key
                  PROVE  /\ \A x, y \in KeyOwners(k)' : x = y
                         /\ k \in delegationRunning' <=> KeyOwners(k)' # {}
      BY DEF DelegationMutex
    <3>1. CASE k = c
      BY <1>5, <2>1, <2>4, <2>5, <3>1 DEF DelegationMutex
    <3>2. CASE k # c
      BY <1>2, <2>1, <3>2 DEF DelegationMutex
    <3>3. QED
      BY <3>1, <3>2
  <2>7. NoStrandedKeyWaiter'
    <3>. SUFFICES ASSUME NEW k \in Key, delegationWaiters'[k] # <<>> PROVE KeyOwners(k)' # {}
      BY DEF NoStrandedKeyWaiter
    <3>1. CASE k = c
      BY <2>5, <3>1
    <3>2. CASE k # c
      BY <1>1, <1>2, <2>1, <3>2 DEF NoStrandedKeyWaiter
    <3>3. QED
      BY <3>1, <3>2
  <2>8. OnlyDelegatedWaitForKey'
    BY <1>5, <2>1, <2>3, KeyAssumption DEF OnlyDelegatedWaitForKey, Keyed
  <2>9. \A k \in Key, x \in Run :
          Occurs(x, delegationWaiters'[k]) <=> phase'[x] = "keyWait" /\ KeyOf[x] = k
    <3>. SUFFICES ASSUME NEW k \in Key, NEW x \in Run
                  PROVE  Occurs(x, delegationWaiters'[k]) <=> phase'[x] = "keyWait" /\ KeyOf[x] = k
      OBVIOUS
    <3>. HIDE DEF q
    <3>1. phase'[x] = "keyWait" <=> phase[x] = "keyWait" /\ x # n
      BY <2>1, <2>3 DEF KeyPhase
    <3>2. CASE k = c
      BY <1>1, <2>1, <2>2, <3>1, <3>2 DEF q
    <3>3. CASE k # c
      BY <1>1, <2>1, <2>3, <3>1, <3>3
    <3>4. QED
      BY <3>2, <3>3
  <2>10. QED
    BY ZenonT(30), <1>1, <2>1, <2>2, <2>6, <2>7, <2>8, <2>9
<1>6. QED
  BY <1>1, <1>3, <1>4, <1>5

\* The catch after a refused slot: the key goes to the next delegation.
LEMMA UnwindInv ==
  ASSUME SchedInv, NEW r \in Run, Unwind(r)
  PROVE  SchedInv'
<1>. USE DEF SchedInv
<1>1. /\ phase[r] = "slotRefused" /\ phase \in [Run -> Phase]
      /\ ReleaseDelegation(KeyOf[r])
      /\ UNCHANGED <<aborted, runningCount, slotWaiters>>
      /\ phase' = [x \in Run |-> CASE x = r -> "refused"
                                   [] x # r /\ x \in NextKeyWaiter(KeyOf[r]) -> "keyed"
                                   [] OTHER -> phase[x]]
  BY DEF Unwind, SchedTypeOK
<1>2. \A x \in NextKeyWaiter(KeyOf[r]) : x \in Run /\ x # r /\ phase[x] = "keyWait"
  BY <1>1, TailQueue, KeyAssumption DEF NextKeyWaiter, SchedTypeOK, QueuesMatchWaiters
<1>3. /\ phase' \in [Run -> Phase] /\ phase'[r] = "refused"
      /\ \A x \in NextKeyWaiter(KeyOf[r]) : phase'[x] = "keyed"
      /\ \A x \in Run : x # r /\ x \notin NextKeyWaiter(KeyOf[r]) => phase'[x] = phase[x]
  BY <1>1, <1>2 DEF Phase
<1>4. /\ delegationRunning' \subseteq Key
      /\ delegationWaiters' \in [Key -> Seq(Run)]
      /\ DelegationMutex' /\ NoStrandedKeyWaiter' /\ OnlyDelegatedWaitForKey'
      /\ \A k \in Key : Distinct(delegationWaiters'[k])
      /\ \A k \in Key, x \in Run :
           Occurs(x, delegationWaiters'[k]) <=> phase'[x] = "keyWait" /\ KeyOf[x] = k
  BY <1>1, <1>3, KeyHandover DEF KeyPhase
<1>5. SchedTypeOK'
  BY <1>1, <1>3, <1>4 DEF SchedTypeOK
<1>6. Holders' = Holders
  BY <1>1, <1>2, <1>3 DEF Holders
<1>7. SlotAccounting' /\ NoStrandedSlotWaiter'
  BY <1>1, <1>6 DEF SlotAccounting, NoStrandedSlotWaiter
<1>8. \A x \in Run : Occurs(x, slotWaiters') <=> phase'[x] = "slotWait"
  BY <1>1, <1>2, <1>3 DEF QueuesMatchWaiters
<1>9. QueuesMatchWaiters'
  BY <1>1, <1>4, <1>8 DEF QueuesMatchWaiters
<1>10. QED
  BY <1>4, <1>5, <1>7, <1>9

\* lease.release(): the slot and the key each go to their next waiter.
LEMMA ReleaseInv ==
  ASSUME SchedInv, NEW r \in Run, Release(r)
  PROVE  SchedInv'
<1>. USE DEF SchedInv
<1>1. /\ phase[r] = "held" /\ phase \in [Run -> Phase] /\ slotWaiters \in Seq(Run)
      /\ ReleaseDelegation(KeyOf[r]) /\ UNCHANGED aborted
      /\ phase' = [x \in Run |-> CASE x = r -> "released"
                                   [] x # r /\ x \in NextSlotWaiter -> "held"
                                   [] x # r /\ x \in NextKeyWaiter(KeyOf[r]) -> "keyed"
                                   [] OTHER -> phase[x]]
      /\ slotWaiters' = IF slotWaiters = <<>> THEN <<>> ELSE Tail(slotWaiters)
  BY DEF Release, ReleaseSlot, SchedTypeOK
<1>2. \A x \in NextKeyWaiter(KeyOf[r]) : x \in Run /\ x # r /\ phase[x] = "keyWait"
  BY <1>1, TailQueue, KeyAssumption DEF NextKeyWaiter, SchedTypeOK, QueuesMatchWaiters
<1>3. \A x \in NextSlotWaiter : x \in Run /\ x # r /\ phase[x] = "slotWait"
  BY <1>1, TailQueue DEF NextSlotWaiter, QueuesMatchWaiters
<1>4. /\ phase' \in [Run -> Phase] /\ phase'[r] = "released"
      /\ \A x \in NextKeyWaiter(KeyOf[r]) : phase'[x] = "keyed"
      /\ \A x \in NextSlotWaiter : phase'[x] = "held"
      /\ \A x \in Run : x # r /\ x \notin NextKeyWaiter(KeyOf[r]) /\ x \notin NextSlotWaiter
            => phase'[x] = phase[x]
  BY <1>1, <1>2, <1>3 DEF Phase
<1>5. /\ delegationRunning' \subseteq Key
      /\ delegationWaiters' \in [Key -> Seq(Run)]
      /\ DelegationMutex' /\ NoStrandedKeyWaiter' /\ OnlyDelegatedWaitForKey'
      /\ \A k \in Key : Distinct(delegationWaiters'[k])
      /\ \A k \in Key, x \in Run :
           Occurs(x, delegationWaiters'[k]) <=> phase'[x] = "keyWait" /\ KeyOf[x] = k
  <2>1. \A x \in Run : x # r /\ x \notin NextKeyWaiter(KeyOf[r])
            => \/ phase'[x] = phase[x]
               \/ phase[x] = "slotWait" /\ phase'[x] = "held"
    BY <1>3, <1>4
  <2>2. phase[r] \in KeyPhase
    BY <1>1 DEF KeyPhase
  <2>3. QED
    BY <1>1, <1>4, <2>1, <2>2, KeyHandover
<1>6. /\ Holders \subseteq Run /\ IsFiniteSet(Holders) /\ r \in Holders
      /\ IsFiniteSet(Holders \ {r}) /\ Cardinality(Holders \ {r}) = Cardinality(Holders) - 1
      /\ runningCount = Cardinality(Holders) /\ runningCount \in 0..MaxConcurrent
  <2>1. Holders \subseteq Run /\ r \in Holders
    BY <1>1 DEF Holders
  <2>2. IsFiniteSet(Holders)
    BY <2>1, RunAssumption, FS_Subset
  <2>3. QED
    BY <2>1, <2>2, FS_RemoveElement DEF SlotAccounting, SchedTypeOK
<1>7. Cardinality(Holders) \in Nat /\ Cardinality(Holders) > 0
  BY <1>6, FS_CardinalityType, FS_EmptySet
<1>8. CASE slotWaiters = <<>>
  <2>1. Holders' = Holders \ {r}
    BY <1>1, <1>2, <1>4, <1>8 DEF Holders, NextSlotWaiter
  <2>2. runningCount' = runningCount - 1
    BY <1>6, <1>7, <1>8 DEF Release, ReleaseSlot
  <2>3. slotWaiters' = <<>>
    BY <1>1, <1>8
  <2>4. SlotAccounting' /\ NoStrandedSlotWaiter' /\ runningCount' \in 0..MaxConcurrent
    BY <1>6, <1>7, <2>1, <2>2, <2>3, MaxConcurrentAssumption DEF SlotAccounting, NoStrandedSlotWaiter
  <2>5. SchedTypeOK'
    BY <1>1, <1>4, <1>5, <2>3, <2>4 DEF SchedTypeOK
  <2>6. \A x \in Run : Occurs(x, slotWaiters') <=> phase'[x] = "slotWait"
    BY <1>1, <1>2, <1>4, <1>8, <2>3 DEF QueuesMatchWaiters, NextSlotWaiter
  <2>7. QueuesMatchWaiters'
    BY <1>5, <1>8, <2>3, <2>6 DEF QueuesMatchWaiters
  <2>8. QED
    BY <1>5, <2>4, <2>5, <2>7
<1>9. CASE slotWaiters # <<>>
  <2>. DEFINE n == Head(slotWaiters)
  <2>1. NextSlotWaiter = {n} /\ slotWaiters' = Tail(slotWaiters) /\ runningCount' = runningCount
    BY <1>1, <1>9 DEF NextSlotWaiter, Release, ReleaseSlot
  <2>2. /\ n \in Run /\ slotWaiters' \in Seq(Run) /\ Distinct(slotWaiters')
        /\ \A x : Occurs(x, slotWaiters') <=> Occurs(x, slotWaiters) /\ x # n
    BY <1>1, <1>9, <2>1, TailQueue DEF QueuesMatchWaiters
  <2>3. phase[n] = "slotWait" /\ phase'[n] = "held" /\ n # r
    BY <1>3, <1>4, <2>1
  <2>. HIDE DEF n
  <2>4. Holders' = (Holders \ {r}) \cup {n} /\ n \notin Holders \ {r}
    BY <1>1, <1>2, <1>4, <2>1, <2>2, <2>3 DEF Holders
  <2>5. Cardinality(Holders') = Cardinality(Holders)
    <3>1. Cardinality((Holders \ {r}) \cup {n}) = Cardinality(Holders \ {r}) + 1
      BY <1>6, <2>4, FS_AddElement
    <3>2. QED
      BY <1>6, <1>7, <2>4, <3>1
  <2>6. SlotAccounting' /\ NoStrandedSlotWaiter'
    BY <1>9, <2>1, <2>5 DEF SlotAccounting, NoStrandedSlotWaiter
  <2>7. SchedTypeOK'
    BY <1>1, <1>4, <1>5, <1>6, <2>1, <2>2 DEF SchedTypeOK
  <2>8. \A x \in Run : Occurs(x, slotWaiters') <=> phase'[x] = "slotWait"
    BY <1>1, <1>2, <1>4, <2>1, <2>2, <2>3 DEF QueuesMatchWaiters
  <2>9. QueuesMatchWaiters'
    BY <1>5, <2>2, <2>8 DEF QueuesMatchWaiters
  <2>10. QED
    BY <1>5, <2>6, <2>7, <2>9
<1>10. QED
  BY <1>8, <1>9

\* Every step of the scheduler, stuttering included, preserves the invariant.
LEMMA SchedNextInv == SchedInv /\ [SchedNext]_schedVars => SchedInv'
<1>. SUFFICES ASSUME SchedInv, [SchedNext]_schedVars PROVE SchedInv'
  OBVIOUS
<1>1. ASSUME NEW r \in Run,
             AcquireDelegation(r) \/ AcquireSlot(r) \/ Abort(r) \/ Unwind(r) \/ Release(r)
      PROVE  SchedInv'
  BY <1>1, AcquireDelegationInv, AcquireSlotInv, AbortInv, UnwindInv, ReleaseInv
<1>2. CASE UNCHANGED schedVars
  BY <1>2
  DEF schedVars, SchedInv, SchedTypeOK, SlotAccounting, Holders, NoStrandedSlotWaiter, DelegationMutex,
      KeyOwners, NoStrandedKeyWaiter, QueuesMatchWaiters, OnlyDelegatedWaitForKey
<1>3. QED
  BY <1>1, <1>2 DEF SchedNext

-----------------------------------------------------------------------------
\* The invariant of the scheduler holds in every reachable state: the theorem
\* the ones below are read off from.
THEOREM SchedulerInvariant == SchedSpec => []SchedInv
BY SchedInitInv, SchedNextInv, PTL DEF SchedSpec

\* Every field keeps its type; in particular runningCount never leaves
\* 0..maxConcurrent.
THEOREM SchedulerTypes == SchedSpec => []SchedTypeOK
BY SchedulerInvariant, PTL DEF SchedInv

\* AgentExecutionScheduler never has more than maxConcurrent leases out, its
\* counter is their number, and no run waits beside a free slot.
THEOREM SlotSafety == SchedSpec => []SlotsConserved
<1>1. SchedInv => SlotsConserved
  BY DEF SchedInv, SlotsConserved
<1>2. QED
  BY <1>1, SchedulerInvariant, PTL

\* Delegations of one parent session never overlap, and a session's key is
\* marked exactly while somebody owns it.
THEOREM DelegationSafety == SchedSpec => []DelegationsSerial
<1>1. SchedInv => DelegationsSerial
  BY DEF SchedInv, DelegationsSerial
<1>2. QED
  BY <1>1, SchedulerInvariant, PTL

\* A suspended acquire() is in exactly the queue it waits on, once.
THEOREM QueueSafety == SchedSpec => []QueuesMatchWaiters
<1>1. SchedInv => QueuesMatchWaiters
  BY DEF SchedInv
<1>2. QED
  BY <1>1, SchedulerInvariant, PTL

-----------------------------------------------------------------------------
(* What a step may never do.                                                 *)

\* Only a release resumes a run that waits for a slot, and it resumes the
\* oldest one.
LEMMA ResumedIsOldest ==
  ASSUME SchedInv, [SchedNext]_schedVars, NEW j \in 1..Len(slotWaiters),
         phase'[slotWaiters[j]] = "held"
  PROVE  j = 1
<1>. DEFINE w == slotWaiters[j]
<1>1. /\ w \in Run /\ phase[w] = "slotWait" /\ Distinct(slotWaiters)
      /\ phase \in [Run -> Phase] /\ slotWaiters \in Seq(Run)
  BY DEF SchedInv, SchedTypeOK, QueuesMatchWaiters, Occurs
<1>2. ASSUME NEW r \in Run, Release(r) PROVE j = 1
  <2>1. w \in NextSlotWaiter
    BY <1>1, <1>2 DEF Release
  <2>2. slotWaiters # <<>> /\ w = slotWaiters[1]
    BY <1>1, <2>1 DEF NextSlotWaiter
  <2>3. QED
    BY <1>1, <2>2 DEF Distinct
<1>3. ASSUME NEW r \in Run, AcquireDelegation(r) \/ AcquireSlot(r) \/ Abort(r) \/ Unwind(r)
      PROVE  FALSE
  <2>1. ~AcquireDelegation(r)
    BY <1>1 DEF AcquireDelegation
  <2>2. ~AcquireSlot(r)
    BY <1>1 DEF AcquireSlot
  <2>3. ~Abort(r)
    BY <1>1 DEF Abort
  <2>4. ~Unwind(r)
    BY <1>1 DEF Unwind
  <2>5. QED
    BY <1>3, <2>1, <2>2, <2>3, <2>4
<1>4. ~UNCHANGED schedVars
  BY <1>1 DEF schedVars
<1>5. QED
  BY <1>2, <1>3, <1>4 DEF SchedNext

\* A slot waiter never overtakes one that queued before it.
THEOREM SlotsInOrder == SchedSpec => SlotFifo
<1>1. ASSUME SchedInv, [SchedNext]_schedVars,
             NEW i \in 1..Len(slotWaiters), NEW j \in 1..Len(slotWaiters),
             i < j, phase'[slotWaiters[j]] = "held"
      PROVE  FALSE
  BY <1>1, ResumedIsOldest
<1>2. SchedInv /\ [SchedNext]_schedVars
      => [\A i, j \in 1..Len(slotWaiters) :
            i < j /\ phase'[slotWaiters[j]] = "held" => phase'[slotWaiters[i]] # "slotWait"]_schedVars
  BY <1>1
<1>3. QED
  BY <1>2, SchedulerInvariant, PTL DEF SchedSpec, SlotFifo

-----------------------------------------------------------------------------
(* The manager *)

\* The position of execute() says how far the scheduler has gone with the run.
PhaseFollowsPc ==
  \A r \in Run :
    /\ pc[r] \in {"none", "allocating", "creating", "gone"} => phase[r] = "idle"
    /\ pc[r] = "acquiring"
         => phase[r] \in {"keyWait", "keyed", "slotWait", "slotRefused", "held", "refused"}
    /\ pc[r] \in {"running", "retrying", "enqueuing"} => phase[r] = "held"
    /\ pc[r] = "finishing" => phase[r] \in {"held", "refused"}
    /\ pc[r] = "settled" => phase[r] \in {"released", "refused"}

\* A run owns paths only from the start of its runner to execute()'s finally.
PathsFollowPc ==
  \A r \in Run, p \in Path :
    owner[p] = r => pc[r] \in {"running", "retrying", "finishing", "enqueuing"}

\* What the metadata file says of a run that its own host executes.
MetaFollowsPc ==
  \A r \in Run :
    /\ meta[r].status = "none" => meta[r] = NoMeta
    /\ pc[r] \in {"none", "allocating", "creating"} => meta[r] = NoMeta
    /\ pc[r] = "acquiring" => meta[r].status = "created"
    /\ pc[r] \in {"running", "retrying"} => meta[r].status = "running"
    /\ pc[r] = "finishing" => meta[r].status \in {"created", "running"} /\ outcome[r] \in Terminal
    /\ pc[r] = "finishing" /\ phase[r] = "refused" => outcome[r] = "cancelled"
    /\ pc[r] = "enqueuing" => meta[r].status \in {"completed", "failed"} /\ r \in Background
    /\ pc[r] = "settled" => meta[r].status # "none"
    /\ pc[r] \in {"acquiring", "running", "retrying", "finishing"} => meta[r].attempt <= attempt[r]

\* A report is written once, at the end, in the one place that fits the mode.
ReportsFollowPc ==
  \A r \in Run :
    /\ inbox[r] \in {0, 1} /\ toolRecord[r] \in {0, 1}
    /\ inbox[r] = 1 => r \in Background /\ meta[r].status \notin {"none", "cancelled"}
    /\ toolRecord[r] = 1 => r \notin Background /\ meta[r].status # "none"
    /\ pc[r] \notin {"settled", "gone"} => inbox[r] = 0 /\ toolRecord[r] = 0
    /\ pc[r] = "settled" /\ inbox[r] = 1 => meta[r].status \in Terminal

\* What recovery has reported of r before it saves r's metadata.
ReportWritten(r) ==
  IF r \in Background THEN inbox[r] = 1 \/ meta[r].status = "cancelled" ELSE toolRecord[r] = 1

\* Recovery visits files of dead runs, and reports each before it closes it.
RecoveryInOrder ==
  /\ \A r \in todo : pc[r] = "gone" /\ meta[r] # NoMeta
  /\ \A r \in repaired : ReportWritten(r)
  /\ RecoveryClosesRuns

\* The ordinal the next allocation of p returns.
NextHandle(p) == IF nextOrdinal[p] = 0 THEN initialOrdinal[p] ELSE nextOrdinal[p]

\* Ordinals are handed out upwards: what is allocated or on disk lies below
\* the next one, so no two runs of a parent share one.
HandlesAllocated ==
  /\ \A p \in Session : initialOrdinal[p] = 0 => nextOrdinal[p] = 0
  /\ \A r \in Run : pc[r] = "creating"
       => initialOrdinal[ParentOf[r]] # 0 /\ handle[r] < NextHandle(ParentOf[r])
  /\ \A r \in Run : meta[r] # NoMeta /\ initialOrdinal[ParentOf[r]] # 0
       => meta[r].ordinal < NextHandle(ParentOf[r])
  /\ \A r, q \in Run : r # q /\ ParentOf[r] = ParentOf[q] /\ pc[r] = "creating"
       => /\ pc[q] = "creating" => handle[r] # handle[q]
          /\ meta[q] # NoMeta => handle[r] # meta[q].ordinal
  /\ HandlesUnique

\* The inductive invariant.
IInv ==
  /\ TypeOK /\ SchedInv /\ ExclusivePaths /\ PhaseFollowsPc /\ PathsFollowPc /\ MetaFollowsPc
  /\ ReportsFollowPc /\ RecoveryInOrder /\ HandlesAllocated

-----------------------------------------------------------------------------
(* The ownership table keeps concurrent writers apart.                       *)

\* pathsOverlap does not depend on the order of its arguments.
LEMMA OverlapSymmetric == \A p, q : Paths!Overlap(p, q) <=> Paths!Overlap(q, p)
BY DEF Paths!Overlap

\* A claim that met no conflict keeps overlapping paths with one owner.
LEMMA ClaimExclusive ==
  ASSUME NEW o \in Run \cup HostCall, NEW paths \in SUBSET Path,
         Paths!OwnershipTypeOK, Paths!ExclusivePaths, Paths!Claim(o, paths)
  PROVE  Paths!OwnershipTypeOK' /\ Paths!ExclusivePaths'
<1>1. owner' = [p \in Path |-> IF p \in paths THEN o ELSE owner[p]]
  BY DEF Paths!Claim
<1>2. Paths!OwnershipTypeOK'
  BY <1>1 DEF Paths!OwnershipTypeOK
<1>3. ASSUME NEW p \in Path, NEW q \in Path,
             owner'[p] # NoOwner, owner'[q] # NoOwner, Paths!Overlap(p, q)
      PROVE  owner'[p] = owner'[q]
  <2>1. \A x \in paths, y \in Path : Paths!Overlap(x, y) => owner[y] \in {o, NoOwner}
    BY DEF Paths!Claim, Paths!Conflict
  <2>2. CASE p \in paths /\ q \in paths
    BY <1>1, <2>2
  <2>3. CASE p \in paths /\ q \notin paths
    BY <1>1, <1>3, <2>1, <2>3
  <2>4. CASE p \notin paths /\ q \in paths
    BY <1>1, <1>3, <2>1, <2>4, OverlapSymmetric
  <2>5. CASE p \notin paths /\ q \notin paths
    BY <1>1, <1>3, <2>5 DEF Paths!ExclusivePaths
  <2>6. QED
    BY <2>2, <2>3, <2>4, <2>5
<1>4. QED
  BY <1>2, <1>3 DEF Paths!ExclusivePaths, Paths!Overlap

\* A release only empties entries.
LEMMA ReleaseExclusive ==
  ASSUME NEW o \in Run \cup HostCall,
         Paths!OwnershipTypeOK, Paths!ExclusivePaths, Paths!ReleaseAll(o)
  PROVE  Paths!OwnershipTypeOK' /\ Paths!ExclusivePaths'
BY DEF Paths!ReleaseAll, Paths!OwnershipTypeOK, Paths!ExclusivePaths, Paths!Overlap

\* Whatever claims and releases interleave, of one path or of many, two owners
\* never hold overlapping paths: a write conflict is detected at the claim, not
\* at the write (core/agents/path-ownership.ts).
THEOREM OwnershipExclusive == Paths!OwnershipSpec => []Paths!ExclusivePaths
<1>. DEFINE Inv == Paths!OwnershipTypeOK /\ Paths!ExclusivePaths
<1>1. Paths!OwnershipInit => Inv
  BY DEF Paths!OwnershipInit, Paths!OwnershipTypeOK, Paths!ExclusivePaths
<1>2. Inv /\ [Paths!OwnershipNext]_owner => Inv'
  <2>. SUFFICES ASSUME Inv, [Paths!OwnershipNext]_owner PROVE Inv'
    OBVIOUS
  <2>1. CASE UNCHANGED owner
    BY <2>1 DEF Paths!OwnershipTypeOK, Paths!ExclusivePaths, Paths!Overlap
  <2>2. ASSUME NEW o \in Run \cup HostCall, Paths!ReleaseAll(o) PROVE Inv'
    BY <2>2, ReleaseExclusive
  <2>3. ASSUME NEW o \in Run \cup HostCall, NEW paths \in SUBSET Path, Paths!Claim(o, paths) PROVE Inv'
    BY <2>3, ClaimExclusive
  <2>4. ASSUME NEW o \in Run \cup HostCall, NEW paths \in SUBSET Path, Paths!RefuseClaim(o, paths)
        PROVE  Inv'
    BY <2>1, <2>4 DEF Paths!RefuseClaim
  <2>5. QED
    BY <2>1, <2>2, <2>3, <2>4 DEF Paths!OwnershipNext
<1>3. QED
  BY <1>1, <1>2, PTL DEF Paths!OwnershipSpec

-----------------------------------------------------------------------------
(* What one step of the scheduler does to the phases.                        *)

\* A step of another run leaves q's phase alone or takes q out of a queue.
Woken(q) ==
  \/ phase'[q] = phase[q]
  \/ phase[q] = "keyWait" /\ phase'[q] = "keyed"
  \/ phase[q] = "slotWait" /\ phase'[q] = "held"

\* Taking a delegation key: r asks, or queues behind the key, and no other run
\* moves.
LEMMA AcquireDelegationPhase ==
  ASSUME SchedInv, NEW r \in Run, AcquireDelegation(r)
  PROVE  /\ phase[r] = "idle" /\ phase'[r] \in {"refused", "keyed", "keyWait"}
         /\ \A q \in Run \ {r} : Woken(q)
BY DEF SchedInv, SchedTypeOK, AcquireDelegation, Woken

\* Taking a slot: r runs on, or queues for a slot, and no other run moves.
LEMMA AcquireSlotPhase ==
  ASSUME SchedInv, NEW r \in Run, AcquireSlot(r)
  PROVE  /\ phase[r] \in {"idle", "keyed"} /\ phase'[r] \in {"slotRefused", "held", "slotWait"}
         /\ \A q \in Run \ {r} : Woken(q)
BY DEF SchedInv, SchedTypeOK, AcquireSlot, Woken

\* An abort takes a waiting r out of its queue.
LEMMA AbortPhase ==
  ASSUME SchedInv, NEW r \in Run, Abort(r)
  PROVE  /\ \/ phase[r] = "keyWait" /\ phase'[r] = "refused"
            \/ phase[r] = "slotWait" /\ phase'[r] = "slotRefused"
            \/ phase'[r] = phase[r]
         /\ \A q \in Run \ {r} : Woken(q)
BY DEF SchedInv, SchedTypeOK, Abort, Woken

\* The waiters that a release resumes are waiting.
LEMMA NextWaiters ==
  ASSUME SchedInv, NEW r \in Run
  PROVE  /\ \A q \in NextSlotWaiter : q \in Run /\ phase[q] = "slotWait"
         /\ \A q \in NextKeyWaiter(KeyOf[r]) : q \in Run /\ phase[q] = "keyWait"
BY TailQueue, KeyAssumption
DEF SchedInv, SchedTypeOK, QueuesMatchWaiters, NextSlotWaiter, NextKeyWaiter

\* Unwinding a refused delegation wakes at most the next run of its key.
LEMMA UnwindPhase ==
  ASSUME SchedInv, NEW r \in Run, Unwind(r)
  PROVE  /\ phase[r] = "slotRefused" /\ phase'[r] = "refused"
         /\ \A q \in Run \ {r} : Woken(q)
BY NextWaiters DEF Unwind, Woken

\* A release ends r's lease and wakes at most one run per queue.
LEMMA ReleasePhase ==
  ASSUME SchedInv, NEW r \in Run, Release(r)
  PROVE  /\ phase[r] = "held" /\ phase'[r] = "released"
         /\ \A q \in Run \ {r} : Woken(q)
BY NextWaiters DEF Release, Woken

\* execute()'s finally.
LEMMA SettlePhase ==
  ASSUME SchedInv, NEW r \in Run, Settle(r)
  PROVE  /\ phase'[r] = IF phase[r] = "held" THEN "released" ELSE phase[r]
         /\ \A q \in Run \ {r} : Woken(q)
BY ReleasePhase DEF Settle, Woken, schedVars

-----------------------------------------------------------------------------
(* The ordinal that store.nextHandleOrdinal reads from the files.            *)

\* A finite non-empty set of naturals has a greatest element: a smallest set
\* without one would have one as soon as it has an element to take away.
LEMMA GreatestElement ==
  ASSUME NEW S \in SUBSET Nat, IsFiniteSet(S), S # {}
  PROVE  \E n \in S : \A m \in S : m <= n
<1>. DEFINE Bounded(T) == \E n \in T : \A m \in T : m <= n
            Bad == {T \in FiniteSubsetsOf(S) : T # {} /\ ~Bounded(T)}
<1>. SUFFICES ASSUME Bad # {} PROVE FALSE
  BY DEF FiniteSubsetsOf
<1>1. PICK T \in Bad : \A U \in Bad : <<U, T>> \notin StrictSubsetOrdering(S)
  BY FS_StrictSubsetOrderingWellFounded, WFMin, Bad \subseteq FiniteSubsetsOf(S)
<1>2. PICK x \in T : TRUE
  OBVIOUS
<1>3. T \ {x} \in FiniteSubsetsOf(S) /\ <<T \ {x}, T>> \in StrictSubsetOrdering(S)
  BY FS_RemoveElement DEF FiniteSubsetsOf, StrictSubsetOrdering
<1>4. CASE T \ {x} = {}
  BY <1>2, <1>4 DEF FiniteSubsetsOf
<1>5. CASE T \ {x} # {}
  <2>1. Bounded(T \ {x})
    BY <1>1, <1>3, <1>5
  <2>2. PICK n \in T \ {x} : \A m \in T \ {x} : m <= n
    BY <2>1
  <2>3. T \subseteq Nat
    BY DEF FiniteSubsetsOf
  <2>4. \A m \in T : m <= (IF x <= n THEN n ELSE x)
    BY <1>2, <2>2, <2>3
  <2>5. QED
    BY <1>2, <2>2, <2>4
<1>6. QED
  BY <1>4, <1>5

\* The ordinal offered next is above that of every file of the session.
LEMMA NextFreeOrdinalAbove ==
  ASSUME TypeOK, NEW p \in Session
  PROVE  /\ NextFreeOrdinal(p) \in Nat \ {0}
         /\ \A r \in Run : ParentOf[r] = p /\ meta[r] # NoMeta
              => meta[r].ordinal < NextFreeOrdinal(p)
<1>. DEFINE used == {meta[r].ordinal : r \in Siblings(p)}
<1>1. CASE Siblings(p) = {}
  BY <1>1 DEF NextFreeOrdinal, Siblings
<1>2. CASE Siblings(p) # {}
  <2>1. used \in SUBSET Nat /\ used # {}
    BY <1>2 DEF TypeOK, Meta, Siblings
  <2>2. IsFiniteSet(Siblings(p))
    BY RunAssumption, FS_Subset DEF Siblings
  <2>3. IsFiniteSet(used)
    <3>. DEFINE f == [r \in Siblings(p) |-> meta[r].ordinal]
    <3>1. f \in Surjection(Siblings(p), used)
      BY DEF Surjection
    <3>2. QED
      BY <2>2, <3>1, FS_Surjection
  <2>4. \E n \in used : \A m \in used : m <= n
    BY <2>1, <2>3, GreatestElement
  <2>. DEFINE top == CHOOSE n \in used : \A m \in used : m <= n
  <2>5. NextFreeOrdinal(p) = 1 + top
    BY <1>2 DEF NextFreeOrdinal
  <2>6. top \in used /\ \A m \in used : m <= top
    BY <2>4
  <2>7. QED
    <3>1. \A r \in Run : ParentOf[r] = p /\ meta[r] # NoMeta => meta[r].ordinal \in used
      BY DEF Siblings
    <3>2. top \in Nat /\ NextFreeOrdinal(p) \in Nat \ {0} /\ top < NextFreeOrdinal(p)
      <4>. HIDE DEF used, top
      <4>1. QED
        BY <2>1, <2>5, <2>6
    <3>3. \A m \in used : m \in Nat /\ m < NextFreeOrdinal(p)
      <4>. HIDE DEF used, top
      <4>1. QED
        BY <2>1, <2>5, <2>6, <3>2
    <3>4. QED
      BY <3>1, <3>2, <3>3
<1>3. QED
  BY <1>1, <1>2

-----------------------------------------------------------------------------
(* The invariant holds at first.                                             *)

\* An empty store and an idle scheduler satisfy the invariant.
LEMMA InitIInv == Init => IInv
<1>. SUFFICES ASSUME Init PROVE IInv
  OBVIOUS
<1>1. SchedInv
  BY SchedInitInv DEF Init
<1>2. TypeOK
  BY <1>1, BoundAssumption
  DEF Init, TypeOK, SchedInv, Paths!OwnershipInit, Paths!OwnershipTypeOK, PC, NoMeta, Meta
<1>3. ExclusivePaths
  BY DEF Init, ExclusivePaths, Paths!OwnershipInit, Paths!ExclusivePaths
<1>4. PhaseFollowsPc /\ PathsFollowPc
  BY OwnerAssumption DEF Init, SchedInit, Paths!OwnershipInit, PhaseFollowsPc, PathsFollowPc
<1>5. MetaFollowsPc /\ ReportsFollowPc
  BY DEF Init, MetaFollowsPc, ReportsFollowPc
<1>6. RecoveryInOrder /\ HandlesAllocated
  BY DEF Init, RecoveryInOrder, RecoveryClosesRuns, HandlesAllocated, HandlesUnique
<1>7. QED
  BY <1>1, <1>2, <1>3, <1>4, <1>5, <1>6 DEF IInv

-----------------------------------------------------------------------------
(* Each part is preserved by every step.                                     *)

\* A restart puts the scheduler back into its initial state, which satisfies
\* its invariant.
LEMMA SchedRestarts == SchedInit' => SchedInv'
BY SchedInitInv, PTL

\* The manager calls the scheduler and nothing else touches its state; a crash
\* starts a new one.
LEMMA SchedulerPart ==
  ASSUME IInv, [Next]_vars
  PROVE  SchedInv'
<1>. USE DEF IInv
<1>1. ASSUME Crash PROVE SchedInit'
  BY <1>1 DEF Crash, SchedInit
<1>2. ASSUME NEW r \in Run,
             \/ Spawn(r) \/ Allocate(r) \/ SaveCreated(r) \/ ContinueAcquire(r) \/ AcquireRejected(r)
             \/ SaveRunning(r) \/ ClaimMutation(r) \/ RunnerReturns(r) \/ RunnerThrows(r) \/ SaveRetry(r)
             \/ SaveTerminal(r) \/ Enqueue(r) \/ RecordForeground(r) \/ Interrupt(r) \/ StoreFails(r)
             \/ RecoverReport(r) \/ RecoverSave(r)
      PROVE  [SchedNext]_schedVars
  <2>1. Settle(r) => [SchedNext]_schedVars
    BY DEF Settle, SchedNext
  <2>2. QED
    BY <1>2, <2>1
    DEF Spawn, Allocate, SaveCreated, ContinueAcquire, AcquireRejected, SaveRunning, ClaimMutation,
        RunnerReturns, RunnerThrows, SaveRetry, SaveTerminal, Enqueue, RecordForeground, Interrupt,
        StoreFails, RecoverReport, RecoverSave, SchedNext
<1>3. ASSUME NEW p \in Session, ReadOrdinals(p) PROVE UNCHANGED schedVars
  BY <1>3 DEF ReadOrdinals
<1>4. ASSUME NEW h \in HostCall, ClaimHostMutation(h) \/ ReleaseHostMutations(h)
      PROVE  UNCHANGED schedVars
  BY <1>4 DEF ClaimHostMutation, ReleaseHostMutations
<1>5. CASE RecoveryFails \/ UNCHANGED vars
  BY <1>5, SchedNextInv DEF RecoveryFails, vars
<1>6. QED
  BY <1>1, <1>2, <1>3, <1>4, <1>5, SchedNextInv, SchedRestarts DEF Next

\* Every variable keeps its type.
LEMMA TypePart ==
  ASSUME IInv, [Next]_vars
  PROVE  TypeOK'
<1>. USE DEF IInv, TypeOK, PC, Terminal
<1>1. SchedTypeOK'
  BY SchedulerPart DEF SchedInv
<1>2. ASSUME NEW o \in Run \cup HostCall, NEW p \in Path, Paths!Claim(o, {p})
      PROVE  Paths!OwnershipTypeOK'
  BY <1>2 DEF Paths!Claim, Paths!OwnershipTypeOK
<1>3. ASSUME NEW o \in Run \cup HostCall, Paths!ReleaseAll(o)
      PROVE  Paths!OwnershipTypeOK'
  BY <1>3 DEF Paths!ReleaseAll, Paths!OwnershipTypeOK
<1>4. UNCHANGED owner => Paths!OwnershipTypeOK'
  BY DEF Paths!OwnershipTypeOK
<1>5. ASSUME NEW r \in Run, Settle(r)
      PROVE  pc' \in [Run -> PC] /\ Paths!OwnershipTypeOK'
  BY <1>3, <1>5 DEF Settle, Goto
<1>6. ASSUME NEW r \in Run,
             \/ Spawn(r) \/ ContinueAcquire(r) \/ AcquireRejected(r) \/ ClaimMutation(r)
             \/ RunnerReturns(r) \/ Interrupt(r)
      PROVE  TypeOK'
  BY <1>1, <1>2, <1>4, <1>6
  DEF Spawn, ContinueAcquire, AcquireRejected, ClaimMutation, RunnerReturns, Interrupt, Goto,
      memoryVars, handleVars, reportVars, recoveryVars, boundVars
<1>7. ASSUME NEW p \in Session, ReadOrdinals(p) PROVE TypeOK'
  <2>1. NextFreeOrdinal(p) \in Nat
    BY NextFreeOrdinalAbove
  <2>2. QED
    BY <1>1, <1>4, <1>7, <2>1 DEF ReadOrdinals, memoryVars, reportVars, recoveryVars, boundVars
<1>8. ASSUME NEW r \in Run, Allocate(r) PROVE TypeOK'
  <2>1. ParentOf[r] \in Session
    BY ParentAssumption
  <2>2. QED
    BY <1>1, <1>4, <1>8, <2>1 DEF Allocate, Goto, reportVars, recoveryVars, boundVars
<1>9. ASSUME NEW r \in Run, SaveCreated(r) \/ SaveRunning(r) \/ SaveRetry(r) PROVE TypeOK'
  <2>1. meta' \in [Run -> Meta]
    <3>1. SaveCreated(r) => meta' \in [Run -> Meta]
      BY DEF SaveCreated, Meta
    <3>2. SaveRunning(r) => meta' \in [Run -> Meta]
      BY DEF SaveRunning, Meta
    <3>3. attempt[r] \in Nat
      BY BoundAssumption
    <3>4. SaveRetry(r) => meta' \in [Run -> Meta]
      BY <3>3 DEF SaveRetry, Meta
    <3>5. QED
      BY <1>9, <3>1, <3>2, <3>4
  <2>2. QED
    BY <1>1, <1>4, <1>9, <2>1
    DEF SaveCreated, SaveRunning, SaveRetry, Goto, handleVars, reportVars, recoveryVars, boundVars
<1>10. ASSUME NEW r \in Run, RunnerThrows(r) PROVE TypeOK'
  <2>1. attempt' \in [Run -> 1..(RetryLimit + 1)]
    BY <1>10, BoundAssumption DEF RunnerThrows, CanRetry
  <2>2. QED
    BY <1>1, <1>4, <1>10, <2>1
    DEF RunnerThrows, Goto, handleVars, reportVars, recoveryVars, boundVars
<1>11. ASSUME NEW r \in Run, SaveTerminal(r) PROVE TypeOK'
  <2>1. meta' \in [Run -> Meta]
    <3>1. attempt[r] \in Nat
      BY BoundAssumption
    <3>2. QED
      BY ZenonT(30), <1>11, <3>1 DEF SaveTerminal, Meta
  <2>2. pc' \in [Run -> PC] /\ Paths!OwnershipTypeOK'
    BY <1>4, <1>5, <1>11 DEF SaveTerminal, Goto
  <2>3. QED
    BY <1>1, <1>11, <2>1, <2>2 DEF SaveTerminal, handleVars, reportVars, recoveryVars, boundVars
<1>12. ASSUME NEW r \in Run, Enqueue(r) PROVE TypeOK'
  BY <1>1, <1>5, <1>12 DEF Enqueue, handleVars, recoveryVars, boundVars
<1>13. ASSUME NEW r \in Run, RecordForeground(r) \/ RecoverReport(r) PROVE TypeOK'
  BY <1>1, <1>4, <1>13
  DEF RecordForeground, RecoverReport, memoryVars, handleVars, recoveryVars, boundVars
<1>14. ASSUME NEW r \in Run, StoreFails(r) PROVE TypeOK'
  <2>1. pc' \in [Run -> PC] /\ Paths!OwnershipTypeOK' /\ outcome' \in [Run -> {"none"} \cup Terminal]
    BY <1>4, <1>5, <1>14 DEF StoreFails, Goto
  <2>2. storeFailures' \in 0..MaxStoreFailures
    BY <1>14, BoundAssumption DEF StoreFails
  <2>3. QED
    BY <1>1, <1>14, <2>1, <2>2 DEF StoreFails, handleVars, reportVars, recoveryVars
<1>15. ASSUME NEW r \in Run, RecoverSave(r) PROVE TypeOK'
  <2>1. meta' \in [Run -> Meta]
    BY <1>15 DEF RecoverSave, Meta
  <2>2. QED
    BY <1>1, <1>4, <1>15, <2>1 DEF RecoverSave, memoryVars, handleVars, reportVars, boundVars
<1>16. ASSUME NEW h \in HostCall, ClaimHostMutation(h) \/ ReleaseHostMutations(h) PROVE TypeOK'
  BY <1>1, <1>2, <1>3, <1>16
  DEF ClaimHostMutation, ReleaseHostMutations, memoryVars, handleVars, reportVars, recoveryVars, boundVars
<1>17. CASE Crash
  BY <1>1, <1>17, BoundAssumption DEF Crash, Paths!OwnershipTypeOK, reportVars
<1>18. CASE RecoveryFails
  BY <1>1, <1>4, <1>18, BoundAssumption DEF RecoveryFails, memoryVars, handleVars, reportVars
<1>19. CASE UNCHANGED vars
  BY <1>1, <1>4, <1>19 DEF vars, memoryVars, handleVars, reportVars, recoveryVars, boundVars
<1>20. QED
  BY <1>6, <1>7, <1>8, <1>9, <1>10, <1>11, <1>12, <1>13, <1>14, <1>15, <1>16, <1>17, <1>18, <1>19
  DEF Next

\* A claim that met no conflict, and a release, keep writers apart.
LEMMA ExclusivePart ==
  ASSUME IInv, [Next]_vars
  PROVE  ExclusivePaths'
<1>. USE DEF IInv, ExclusivePaths
<1>1. ASSUME NEW o \in Run \cup HostCall, NEW p \in Path, Paths!Claim(o, {p})
      PROVE  Paths!ExclusivePaths'
  BY <1>1, ClaimExclusive DEF TypeOK
<1>2. ASSUME NEW o \in Run \cup HostCall, Paths!ReleaseAll(o)
      PROVE  Paths!ExclusivePaths'
  BY <1>2, ReleaseExclusive DEF TypeOK
<1>3. UNCHANGED owner => Paths!ExclusivePaths'
  BY DEF Paths!ExclusivePaths, Paths!Overlap
<1>4. ASSUME NEW r \in Run, Settle(r) PROVE Paths!ExclusivePaths'
  BY <1>2, <1>4 DEF Settle
<1>5. CASE Crash
  BY <1>5 DEF Crash, Paths!ExclusivePaths
<1>6. ASSUME NEW r \in Run,
             \/ ClaimMutation(r) \/ SaveTerminal(r) \/ Enqueue(r) \/ StoreFails(r)
      PROVE  Paths!ExclusivePaths'
  BY <1>1, <1>3, <1>4, <1>6 DEF ClaimMutation, SaveTerminal, Enqueue, StoreFails
<1>7. ASSUME NEW r \in Run,
             \/ Spawn(r) \/ Allocate(r) \/ SaveCreated(r) \/ ContinueAcquire(r) \/ AcquireRejected(r)
             \/ SaveRunning(r) \/ RunnerReturns(r) \/ RunnerThrows(r) \/ SaveRetry(r)
             \/ RecordForeground(r) \/ Interrupt(r) \/ RecoverReport(r) \/ RecoverSave(r)
      PROVE  UNCHANGED owner
  BY <1>7
  DEF Spawn, Allocate, SaveCreated, ContinueAcquire, AcquireRejected, SaveRunning, RunnerReturns,
      RunnerThrows, SaveRetry, RecordForeground, Interrupt, RecoverReport, RecoverSave
<1>8. ASSUME NEW h \in HostCall, ClaimHostMutation(h) \/ ReleaseHostMutations(h)
      PROVE  Paths!ExclusivePaths'
  BY <1>1, <1>2, <1>8 DEF ClaimHostMutation, ReleaseHostMutations
<1>9. CASE (\E p \in Session : ReadOrdinals(p)) \/ RecoveryFails \/ UNCHANGED vars
  BY <1>3, <1>9 DEF ReadOrdinals, RecoveryFails, vars
<1>10. QED
  BY <1>3, <1>5, <1>6, <1>7, <1>8, <1>9 DEF Next

\* execute() and the scheduler move together.
LEMMA PhasePart ==
  ASSUME IInv, [Next]_vars
  PROVE  PhaseFollowsPc'
<1>. USE DEF IInv
<1>1. pc \in [Run -> PC] /\ SchedInv
  BY DEF TypeOK
<1>2. ASSUME NEW r \in Run, Settle(r), pc[r] \in {"retrying", "finishing", "enqueuing"}
      PROVE  PhaseFollowsPc'
  BY ZenonT(30), <1>1, <1>2, SettlePhase DEF Settle, Goto, Woken, PhaseFollowsPc
<1>3. ASSUME NEW r \in Run, SaveCreated(r)
      PROVE  PhaseFollowsPc'
  BY <1>1, <1>3, AcquireDelegationPhase, AcquireSlotPhase
  DEF SaveCreated, Goto, Woken, PhaseFollowsPc
<1>4. ASSUME NEW r \in Run, ContinueAcquire(r)
      PROVE  PhaseFollowsPc'
  BY <1>1, <1>4, AcquireSlotPhase, UnwindPhase
  DEF ContinueAcquire, memoryVars, Woken, PhaseFollowsPc
<1>5. ASSUME NEW r \in Run, Interrupt(r)
      PROVE  PhaseFollowsPc'
  BY <1>1, <1>5, AbortPhase DEF Interrupt, memoryVars, Woken, PhaseFollowsPc
<1>6. ASSUME NEW r \in Run,
             \/ Spawn(r) \/ Allocate(r) \/ AcquireRejected(r) \/ SaveRunning(r) \/ RunnerReturns(r)
             \/ RunnerThrows(r) \/ SaveRetry(r)
      PROVE  PhaseFollowsPc'
  BY <1>1, <1>6
  DEF Spawn, Allocate, AcquireRejected, SaveRunning, RunnerReturns, RunnerThrows, SaveRetry, Goto,
      schedVars, PhaseFollowsPc
<1>7. ASSUME NEW r \in Run, SaveTerminal(r) \/ Enqueue(r) \/ StoreFails(r)
      PROVE  PhaseFollowsPc'
  <2>1. CASE Settle(r)
    BY <1>1, <1>2, <1>7, <2>1 DEF SaveTerminal, Enqueue, StoreFails, Settle, Goto
  <2>2. CASE SaveTerminal(r) /\ ~Settle(r)
    BY <1>1, <2>2 DEF SaveTerminal, Goto, schedVars, PhaseFollowsPc, MetaFollowsPc
  <2>3. CASE StoreFails(r) /\ ~Settle(r)
    BY <1>1, <2>3 DEF StoreFails, Goto, schedVars, PhaseFollowsPc
  <2>4. QED
    BY <1>7, <2>1, <2>2, <2>3 DEF Enqueue
<1>8. ASSUME UNCHANGED <<phase, pc>> PROVE PhaseFollowsPc'
  BY <1>8 DEF PhaseFollowsPc
<1>9. ASSUME NEW r \in Run,
             ClaimMutation(r) \/ RecordForeground(r) \/ RecoverReport(r) \/ RecoverSave(r)
      PROVE  UNCHANGED <<phase, pc>>
  BY <1>9 DEF ClaimMutation, RecordForeground, RecoverReport, RecoverSave, schedVars, memoryVars
<1>10. CASE Crash
  BY <1>1, <1>10 DEF Crash, PhaseFollowsPc
<1>11. CASE \/ \E p \in Session : ReadOrdinals(p)
            \/ \E h \in HostCall : ClaimHostMutation(h) \/ ReleaseHostMutations(h)
            \/ RecoveryFails \/ UNCHANGED vars
  BY <1>8, <1>11
  DEF ReadOrdinals, ClaimHostMutation, ReleaseHostMutations, RecoveryFails, vars, schedVars, memoryVars
<1>12. QED
  BY <1>3, <1>4, <1>5, <1>6, <1>7, <1>8, <1>9, <1>10, <1>11 DEF Next

\* execute()'s finally gives every path of the run back.
LEMMA PathsPart ==
  ASSUME IInv, [Next]_vars
  PROVE  PathsFollowPc'
<1>. USE DEF IInv
<1>1. pc \in [Run -> PC] /\ owner \in [Path -> Run \cup HostCall \cup {NoOwner}]
  BY DEF TypeOK, Paths!OwnershipTypeOK
<1>2. ASSUME NEW r \in Run, Settle(r) PROVE PathsFollowPc'
  BY <1>1, <1>2, OwnerAssumption DEF Settle, Goto, Paths!ReleaseAll, PathsFollowPc
<1>3. ASSUME NEW r \in Run, ClaimMutation(r) PROVE PathsFollowPc'
  BY <1>1, <1>3 DEF ClaimMutation, Paths!Claim, memoryVars, PathsFollowPc
<1>4. ASSUME NEW h \in HostCall, ClaimHostMutation(h) PROVE PathsFollowPc'
  BY <1>1, <1>4, OwnerAssumption DEF ClaimHostMutation, Paths!Claim, memoryVars, PathsFollowPc
<1>5. ASSUME NEW h \in HostCall, ReleaseHostMutations(h) PROVE PathsFollowPc'
  BY <1>1, <1>5, OwnerAssumption
  DEF ReleaseHostMutations, Paths!ReleaseAll, memoryVars, PathsFollowPc
<1>6. ASSUME NEW r \in Run,
             \/ Spawn(r) \/ Allocate(r) \/ SaveCreated(r) \/ AcquireRejected(r) \/ SaveRunning(r)
             \/ RunnerReturns(r) \/ RunnerThrows(r) \/ SaveRetry(r)
      PROVE  PathsFollowPc'
  BY <1>1, <1>6
  DEF Spawn, Allocate, SaveCreated, AcquireRejected, SaveRunning, RunnerReturns, RunnerThrows,
      SaveRetry, Goto, PathsFollowPc
<1>7. ASSUME NEW r \in Run, SaveTerminal(r) \/ Enqueue(r) \/ StoreFails(r) PROVE PathsFollowPc'
  BY <1>1, <1>2, <1>7 DEF SaveTerminal, Enqueue, StoreFails, Goto, PathsFollowPc
<1>8. ASSUME UNCHANGED <<owner, pc>> PROVE PathsFollowPc'
  BY <1>8 DEF PathsFollowPc
<1>9. ASSUME NEW r \in Run,
             \/ ContinueAcquire(r) \/ RecordForeground(r) \/ Interrupt(r) \/ RecoverReport(r)
             \/ RecoverSave(r)
      PROVE  UNCHANGED <<owner, pc>>
  BY <1>9 DEF ContinueAcquire, RecordForeground, Interrupt, RecoverReport, RecoverSave, memoryVars
<1>10. CASE Crash
  BY <1>10, OwnerAssumption DEF Crash, PathsFollowPc
<1>11. CASE (\E p \in Session : ReadOrdinals(p)) \/ RecoveryFails \/ UNCHANGED vars
  BY <1>8, <1>11 DEF ReadOrdinals, RecoveryFails, vars, memoryVars
<1>12. QED
  BY <1>3, <1>4, <1>5, <1>6, <1>7, <1>8, <1>9, <1>10, <1>11 DEF Next

\* The file follows execute(): created before the lease, running under it,
\* terminal before the report.
LEMMA MetaPart ==
  ASSUME IInv, [Next]_vars
  PROVE  MetaFollowsPc'
<1>. USE DEF IInv, Terminal
<1>1. /\ pc \in [Run -> PC] /\ meta \in [Run -> Meta] /\ outcome \in [Run -> {"none"} \cup Terminal]
      /\ attempt \in [Run -> 1..(RetryLimit + 1)] /\ RetryLimit \in Nat /\ SchedInv
  BY BoundAssumption DEF TypeOK
<1>2. ASSUME NEW r \in Run, Settle(r), UNCHANGED <<outcome, attempt, meta>>, meta[r].status # "none"
      PROVE  MetaFollowsPc'
  <2>1. pc' = [pc EXCEPT ![r] = "settled"] /\ meta' = meta /\ outcome' = outcome /\ attempt' = attempt
    BY <1>2 DEF Settle, Goto
  <2>2. \A q \in Run \ {r} : phase'[q] = "refused" => phase[q] = "refused"
    BY <1>1, <1>2, SettlePhase DEF Woken
  <2>3. MetaFollowsPc
    OBVIOUS
  <2>4. \A q \in Run \ {r} : pc'[q] = pc[q]
    BY <1>1, <2>1
  <2>5. pc'[r] = "settled"
    BY <1>1, <2>1
  <2>6. QED
    BY <1>2, <2>1, <2>2, <2>3, <2>4, <2>5 DEF MetaFollowsPc
<1>3. ASSUME NEW r \in Run, SaveTerminal(r) PROVE MetaFollowsPc'
  <2>1. CASE Settle(r)
    <3>1. /\ pc' = [pc EXCEPT ![r] = "settled"] /\ UNCHANGED <<outcome, attempt>>
          /\ meta'[r].status \in Terminal /\ \A q \in Run \ {r} : meta'[q] = meta[q]
      BY <1>1, <1>3, <2>1 DEF SaveTerminal, Settle, Goto, MetaFollowsPc, Meta
    <3>2. \A q \in Run \ {r} : pc[q] = "finishing" => phase'[q] = phase[q]
      BY <1>1, <2>1, SettlePhase DEF Woken, PhaseFollowsPc
    <3>3. QED
      BY <1>1, <3>1, <3>2 DEF MetaFollowsPc
  <2>2. CASE ~Settle(r)
    BY <1>1, <1>3, <2>2 DEF SaveTerminal, Goto, MetaFollowsPc, Meta, schedVars
  <2>3. QED
    BY <2>1, <2>2
<1>4. ASSUME NEW r \in Run, Enqueue(r) PROVE MetaFollowsPc'
  BY <1>1, <1>2, <1>4 DEF Enqueue, MetaFollowsPc
<1>5. ASSUME NEW r \in Run, StoreFails(r) PROVE MetaFollowsPc'
  <2>1. CASE Settle(r)
    BY <1>1, <1>2, <1>5, <2>1 DEF StoreFails, Settle, Goto, MetaFollowsPc
  <2>2. CASE ~Settle(r)
    BY <1>1, <1>5, <2>2 DEF StoreFails, Goto, schedVars, MetaFollowsPc
  <2>3. QED
    BY <2>1, <2>2
<1>6. ASSUME NEW r \in Run, SaveCreated(r) PROVE MetaFollowsPc'
  <2>1. \A q \in Run \ {r} : Woken(q)
    BY <1>1, <1>6, AcquireDelegationPhase, AcquireSlotPhase DEF SaveCreated
  <2>2. QED
    BY <1>1, <1>6, <2>1 DEF SaveCreated, Goto, Woken, MetaFollowsPc, PhaseFollowsPc
<1>7. ASSUME NEW r \in Run, ContinueAcquire(r) \/ Interrupt(r) PROVE MetaFollowsPc'
  <2>1. \A q \in Run : pc[q] = "finishing" => phase'[q] = phase[q]
    BY <1>1, <1>7, AcquireSlotPhase, UnwindPhase, AbortPhase
    DEF ContinueAcquire, Interrupt, Woken, PhaseFollowsPc
  <2>2. QED
    BY <1>1, <1>7, <2>1 DEF ContinueAcquire, Interrupt, memoryVars, MetaFollowsPc
<1>8. ASSUME NEW r \in Run,
             \/ Spawn(r) \/ Allocate(r) \/ AcquireRejected(r) \/ RunnerReturns(r) \/ RunnerThrows(r)
      PROVE  MetaFollowsPc'
  <2>1. CASE Spawn(r) \/ Allocate(r) \/ AcquireRejected(r) \/ RunnerReturns(r)
    BY <1>1, <2>1
    DEF Spawn, Allocate, AcquireRejected, RunnerReturns, Goto, schedVars, MetaFollowsPc, PhaseFollowsPc
  <2>2. CASE RunnerThrows(r)
    BY <1>1, <2>2 DEF RunnerThrows, Goto, schedVars, MetaFollowsPc, PhaseFollowsPc, Meta
  <2>3. QED
    BY <1>8, <2>1, <2>2
<1>9. ASSUME NEW r \in Run, SaveRunning(r) \/ SaveRetry(r) PROVE MetaFollowsPc'
  BY <1>1, <1>9 DEF SaveRunning, SaveRetry, Goto, schedVars, MetaFollowsPc, Meta
<1>10. ASSUME NEW r \in Run, RecoverSave(r) PROVE MetaFollowsPc'
  <2>1. /\ pc[r] = "gone" /\ meta[r] # NoMeta /\ UNCHANGED <<pc, phase, outcome, attempt>>
    BY <1>10 DEF RecoverSave, memoryVars, schedVars, RecoveryInOrder, TypeOK
  <2>2. /\ meta'[r].status # "none" /\ \A q \in Run \ {r} : meta'[q] = meta[q]
    BY <1>1, <1>10, <2>1 DEF RecoverSave, Interrupted, MetaFollowsPc, Meta
  <2>3. QED
    BY <1>1, <2>1, <2>2 DEF MetaFollowsPc
<1>11. ASSUME UNCHANGED <<phase, pc, outcome, attempt, meta>> PROVE MetaFollowsPc'
  BY <1>11 DEF MetaFollowsPc
<1>12. ASSUME NEW r \in Run, ClaimMutation(r) \/ RecordForeground(r) \/ RecoverReport(r)
       PROVE  UNCHANGED <<phase, pc, outcome, attempt, meta>>
  BY <1>12 DEF ClaimMutation, RecordForeground, RecoverReport, schedVars, memoryVars
<1>13. CASE Crash
  BY <1>1, <1>13 DEF Crash, MetaFollowsPc
<1>14. CASE \/ \E p \in Session : ReadOrdinals(p)
            \/ \E h \in HostCall : ClaimHostMutation(h) \/ ReleaseHostMutations(h)
            \/ RecoveryFails \/ UNCHANGED vars
  BY <1>11, <1>14
  DEF ReadOrdinals, ClaimHostMutation, ReleaseHostMutations, RecoveryFails, vars, schedVars, memoryVars
<1>15. QED
  BY <1>3, <1>4, <1>5, <1>6, <1>7, <1>8, <1>9, <1>10, <1>11, <1>12, <1>13, <1>14 DEF Next

\* Reports are written once and in the right place, whatever recovery repeats.
LEMMA ReportsPart ==
  ASSUME IInv, [Next]_vars
  PROVE  ReportsFollowPc'
<1>. USE DEF IInv, Terminal
<1>1. /\ pc \in [Run -> PC] /\ meta \in [Run -> Meta] /\ outcome \in [Run -> {"none"} \cup Terminal]
      /\ inbox \in [Run -> Nat] /\ toolRecord \in [Run -> Nat]
  BY DEF TypeOK
<1>2. ASSUME NEW r \in Run,
             \/ Spawn(r) \/ Allocate(r) \/ AcquireRejected(r) \/ RunnerReturns(r) \/ RunnerThrows(r)
      PROVE  ReportsFollowPc'
  BY <1>1, <1>2
  DEF Spawn, Allocate, AcquireRejected, RunnerReturns, RunnerThrows, Goto, reportVars,
      ReportsFollowPc
<1>3. ASSUME NEW r \in Run, SaveCreated(r) \/ SaveRunning(r) \/ SaveRetry(r)
      PROVE  ReportsFollowPc'
  BY <1>1, <1>3 DEF SaveCreated, SaveRunning, SaveRetry, Goto, reportVars, ReportsFollowPc, Meta
<1>4. ASSUME NEW r \in Run, SaveTerminal(r) PROVE ReportsFollowPc'
  <2>1. /\ pc[r] = "finishing" /\ UNCHANGED reportVars
        /\ pc' = [pc EXCEPT ![r] = "enqueuing"] \/ pc' = [pc EXCEPT ![r] = "settled"]
        /\ meta'[r].status \in Terminal /\ \A q \in Run \ {r} : meta'[q] = meta[q]
    BY <1>1, <1>4 DEF SaveTerminal, Settle, Goto, MetaFollowsPc, Meta
  <2>2. QED
    BY <1>1, <2>1 DEF reportVars, ReportsFollowPc
<1>5. ASSUME NEW r \in Run, Enqueue(r) PROVE ReportsFollowPc'
  BY <1>1, <1>5 DEF Enqueue, Settle, Goto, ReportsFollowPc, MetaFollowsPc
<1>6. ASSUME NEW r \in Run, RecordForeground(r) PROVE ReportsFollowPc'
  BY <1>1, <1>6 DEF RecordForeground, memoryVars, ReportsFollowPc, MetaFollowsPc
<1>7. ASSUME NEW r \in Run, StoreFails(r) PROVE ReportsFollowPc'
  BY <1>1, <1>7 DEF StoreFails, Settle, Goto, reportVars, ReportsFollowPc
<1>8. ASSUME NEW r \in Run, RecoverReport(r) PROVE ReportsFollowPc'
  <2>1. pc[r] = "gone" /\ meta[r].status # "none"
    BY <1>8 DEF RecoverReport, RecoveryInOrder, MetaFollowsPc
  <2>2. QED
    BY <1>1, <1>8, <2>1 DEF RecoverReport, OwesInboxEntry, memoryVars, ReportsFollowPc
<1>9. ASSUME NEW r \in Run, RecoverSave(r) PROVE ReportsFollowPc'
  <2>1. /\ pc[r] = "gone" /\ UNCHANGED <<pc, reportVars>>
        /\ meta'[r].status # "none"
        /\ meta'[r].status = "cancelled" => meta[r].status = "cancelled"
        /\ \A q \in Run \ {r} : meta'[q] = meta[q]
    BY <1>1, <1>9 DEF RecoverSave, Interrupted, memoryVars, RecoveryInOrder, MetaFollowsPc, TypeOK, Meta
  <2>2. QED
    BY <1>1, <2>1 DEF reportVars, ReportsFollowPc
<1>10. ASSUME UNCHANGED <<pc, meta, inbox, toolRecord>> PROVE ReportsFollowPc'
  BY <1>10 DEF ReportsFollowPc
<1>11. ASSUME NEW r \in Run, ContinueAcquire(r) \/ ClaimMutation(r) \/ Interrupt(r)
       PROVE  UNCHANGED <<pc, meta, inbox, toolRecord>>
  BY <1>11 DEF ContinueAcquire, ClaimMutation, Interrupt, memoryVars, reportVars
<1>12. CASE Crash
  BY <1>1, <1>12 DEF Crash, reportVars, ReportsFollowPc
<1>13. CASE \/ \E p \in Session : ReadOrdinals(p)
            \/ \E h \in HostCall : ClaimHostMutation(h) \/ ReleaseHostMutations(h)
            \/ RecoveryFails \/ UNCHANGED vars
  BY <1>10, <1>13
  DEF ReadOrdinals, ClaimHostMutation, ReleaseHostMutations, RecoveryFails, vars, memoryVars, reportVars
<1>14. QED
  BY <1>2, <1>3, <1>4, <1>5, <1>6, <1>7, <1>8, <1>9, <1>10, <1>11, <1>12, <1>13 DEF Next

\* A step of execute() leaves the runs of dead hosts and the recovery alone; a
\* run it gives up on its own has met a store failure.
LEMMA LiveStep ==
  ASSUME IInv, NEW r \in Run,
         \/ Spawn(r) \/ Allocate(r) \/ SaveCreated(r) \/ ContinueAcquire(r) \/ AcquireRejected(r)
         \/ SaveRunning(r) \/ ClaimMutation(r) \/ RunnerReturns(r) \/ RunnerThrows(r) \/ SaveRetry(r)
         \/ SaveTerminal(r) \/ Enqueue(r) \/ RecordForeground(r) \/ Interrupt(r) \/ StoreFails(r)
  PROVE  /\ UNCHANGED <<todo, repaired>>
         /\ \A q \in Run : pc[q] = "gone"
              => /\ pc'[q] = "gone" /\ meta'[q] = meta[q]
                 /\ inbox'[q] = inbox[q] /\ toolRecord'[q] = toolRecord[q]
         /\ storeFailures' = 0
              => storeFailures = 0 /\ \A q \in Run : pc'[q] = "gone" => pc[q] = "gone"
<1>. USE DEF IInv
<1>1. /\ pc \in [Run -> PC] /\ meta \in [Run -> Meta] /\ storeFailures \in Nat
      /\ inbox \in [Run -> Nat] /\ toolRecord \in [Run -> Nat]
  BY BoundAssumption DEF TypeOK
<1>2. CASE \/ Spawn(r) \/ Allocate(r) \/ ContinueAcquire(r) \/ AcquireRejected(r)
           \/ ClaimMutation(r) \/ RunnerReturns(r) \/ RunnerThrows(r) \/ Interrupt(r)
  BY <1>1, <1>2
  DEF Spawn, Allocate, ContinueAcquire, AcquireRejected, ClaimMutation, RunnerReturns, RunnerThrows,
      Interrupt, Goto, memoryVars, reportVars, recoveryVars, boundVars
<1>3. CASE SaveCreated(r) \/ SaveRunning(r) \/ SaveRetry(r) \/ SaveTerminal(r)
  BY <1>1, <1>3
  DEF SaveCreated, SaveRunning, SaveRetry, SaveTerminal, Settle, Goto, reportVars, recoveryVars,
      boundVars
<1>4. CASE Enqueue(r) \/ RecordForeground(r)
  BY <1>1, <1>4
  DEF Enqueue, RecordForeground, Settle, Goto, memoryVars, recoveryVars, boundVars
<1>5. CASE StoreFails(r)
  BY <1>1, <1>5 DEF StoreFails, Settle, Goto, reportVars, recoveryVars
<1>6. QED
  BY <1>2, <1>3, <1>4, <1>5

\* Recovery reports a run before it closes it, and closes every run it visits.
LEMMA RecoveryPart ==
  ASSUME IInv, [Next]_vars
  PROVE  RecoveryInOrder'
<1>. USE DEF IInv, RecoveryInOrder, RecoveryClosesRuns, ReportWritten
<1>1. /\ pc \in [Run -> PC] /\ meta \in [Run -> Meta] /\ storeFailures \in Nat
      /\ inbox \in [Run -> Nat] /\ toolRecord \in [Run -> Nat]
      /\ todo \subseteq Run /\ repaired \subseteq todo
  BY BoundAssumption DEF TypeOK
<1>2. ASSUME NEW r \in Run,
             \/ Spawn(r) \/ Allocate(r) \/ SaveCreated(r) \/ ContinueAcquire(r) \/ AcquireRejected(r)
             \/ SaveRunning(r) \/ ClaimMutation(r) \/ RunnerReturns(r) \/ RunnerThrows(r) \/ SaveRetry(r)
             \/ SaveTerminal(r) \/ Enqueue(r) \/ RecordForeground(r) \/ Interrupt(r) \/ StoreFails(r)
      PROVE  RecoveryInOrder'
  <2>1. /\ UNCHANGED <<todo, repaired>>
        /\ \A q \in Run : pc[q] = "gone"
             => /\ pc'[q] = "gone" /\ meta'[q] = meta[q]
                /\ inbox'[q] = inbox[q] /\ toolRecord'[q] = toolRecord[q]
        /\ storeFailures' = 0
             => storeFailures = 0 /\ \A q \in Run : pc'[q] = "gone" => pc[q] = "gone"
    BY <1>2, LiveStep
  <2>2. QED
    BY <1>1, <2>1
<1>3. ASSUME NEW r \in Run, RecoverReport(r) PROVE RecoveryInOrder'
  <2>1. /\ UNCHANGED <<pc, meta, todo, storeFailures>> /\ repaired' = {r} /\ r \in todo
        /\ \A q \in Run \ {r} : inbox'[q] = inbox[q] /\ toolRecord'[q] = toolRecord[q]
    BY <1>1, <1>3 DEF RecoverReport, memoryVars, boundVars
  <2>2. ReportWritten(r)'
    BY <1>1, <1>3 DEF RecoverReport, OwesInboxEntry, ReportsFollowPc
  <2>3. QED
    BY <1>1, <2>1, <2>2
<1>4. ASSUME NEW r \in Run, RecoverSave(r) PROVE RecoveryInOrder'
  <2>1. /\ UNCHANGED <<pc, inbox, toolRecord, storeFailures>> /\ repaired = {r} /\ r \in todo
        /\ todo' = todo \ {r} /\ repaired' = {}
        /\ \A q \in Run \ {r} : meta'[q] = meta[q]
    BY <1>1, <1>4 DEF RecoverSave, memoryVars, reportVars, boundVars
  <2>2. meta[r].status \in {"created", "running"} \cup Terminal
    BY <1>1, <2>1 DEF MetaFollowsPc, Meta
  <2>3. /\ meta'[r].status \in Terminal
        /\ meta[r].status = "cancelled" => meta'[r].status = "cancelled"
    BY <1>1, <1>4, <2>2 DEF RecoverSave, Interrupted, Meta, Terminal
  <2>4. QED
    BY <1>1, <2>1, <2>3
<1>5. CASE Crash
  BY <1>1, <1>5 DEF Crash, reportVars, MetaFollowsPc
<1>6. CASE RecoveryFails
  BY <1>1, <1>6 DEF RecoveryFails
<1>7. CASE \/ \E p \in Session : ReadOrdinals(p)
           \/ \E h \in HostCall : ClaimHostMutation(h) \/ ReleaseHostMutations(h)
           \/ UNCHANGED vars
  <2>1. UNCHANGED <<pc, meta, inbox, toolRecord, todo, repaired, storeFailures>>
    BY <1>7
    DEF ReadOrdinals, ClaimHostMutation, ReleaseHostMutations, vars, memoryVars, reportVars,
        recoveryVars, boundVars
  <2>2. QED
    BY <2>1
<1>8. QED
  BY <1>2, <1>3, <1>4, <1>5, <1>6, <1>7 DEF Next

\* Ordinals only go up within a process, and a new process starts above every
\* ordinal on disk.
LEMMA HandlesPart ==
  ASSUME IInv, [Next]_vars
  PROVE  HandlesAllocated'
<1>. USE DEF IInv
<1>1. /\ pc \in [Run -> PC] /\ meta \in [Run -> Meta] /\ handle \in [Run -> Nat]
      /\ initialOrdinal \in [Session -> Nat] /\ nextOrdinal \in [Session -> Nat]
      /\ \A r \in Run : ParentOf[r] \in Session
  BY ParentAssumption DEF TypeOK
\* The steps that neither allocate nor write an ordinal.
<1>2. ASSUME UNCHANGED handleVars,
             \A r \in Run : /\ pc'[r] = "creating" => pc[r] = "creating"
                            /\ meta'[r] # NoMeta => meta[r] # NoMeta
                            /\ meta'[r].ordinal = meta[r].ordinal
      PROVE  HandlesAllocated'
  BY <1>1, <1>2 DEF handleVars, HandlesAllocated, HandlesUnique, NextHandle
<1>3. ASSUME NEW r \in Run, Allocate(r) PROVE HandlesAllocated'
  <2>. DEFINE p == ParentOf[r]
  <2>1. /\ pc[r] = "allocating" /\ initialOrdinal[p] # 0 /\ UNCHANGED <<initialOrdinal, meta>>
        /\ handle' = [handle EXCEPT ![r] = NextHandle(p)]
        /\ nextOrdinal' = [nextOrdinal EXCEPT ![p] = NextHandle(p) + 1]
        /\ pc' = [pc EXCEPT ![r] = "creating"]
    BY <1>3 DEF Allocate, Goto, NextHandle
  <2>2. NextHandle(p) \in Nat
    BY <1>1, <2>1 DEF NextHandle
  <2>3. \A q \in Run : NextHandle(ParentOf[q])'
                       = IF ParentOf[q] = p THEN NextHandle(p) + 1 ELSE NextHandle(ParentOf[q])
    BY <1>1, <2>1, <2>2 DEF NextHandle
  <2>4. /\ \A q \in Session : initialOrdinal'[q] = 0 => nextOrdinal'[q] = 0
        /\ \A q \in Run : pc'[q] = "creating"
             => initialOrdinal'[ParentOf[q]] # 0 /\ handle'[q] < NextHandle(ParentOf[q])'
        /\ \A q \in Run : meta'[q] # NoMeta /\ initialOrdinal'[ParentOf[q]] # 0
             => meta'[q].ordinal < NextHandle(ParentOf[q])'
    <3>1. \A q \in Session : initialOrdinal'[q] = 0 => nextOrdinal'[q] = 0
      BY <1>1, <2>1 DEF HandlesAllocated
    <3>2. ASSUME NEW q \in Run, pc'[q] = "creating"
          PROVE  initialOrdinal'[ParentOf[q]] # 0 /\ handle'[q] < NextHandle(ParentOf[q])'
      BY <1>1, <2>1, <2>2, <2>3, <3>2 DEF HandlesAllocated
    <3>3. ASSUME NEW q \in Run, meta'[q] # NoMeta, initialOrdinal'[ParentOf[q]] # 0
          PROVE  meta'[q].ordinal < NextHandle(ParentOf[q])'
      <4>1. meta[q].ordinal \in Nat /\ meta[q].ordinal < NextHandle(ParentOf[q])
        BY <1>1, <2>1, <3>3 DEF HandlesAllocated, Meta
      <4>2. QED
        BY <1>1, <2>1, <2>2, <2>3, <4>1
    <3>4. QED
      BY <3>1, <3>2, <3>3
  <2>5. \A q, x \in Run : q # x /\ ParentOf[q] = ParentOf[x] /\ pc'[q] = "creating"
          => /\ pc'[x] = "creating" => handle'[q] # handle'[x]
             /\ meta'[x] # NoMeta => handle'[q] # meta'[x].ordinal
    BY <1>1, <2>1, <2>2 DEF HandlesAllocated, Meta
  <2>6. QED
    BY <2>1, <2>4, <2>5 DEF HandlesAllocated, HandlesUnique
<1>4. ASSUME NEW p \in Session, ReadOrdinals(p) PROVE HandlesAllocated'
  <2>1. /\ NextFreeOrdinal(p) \in Nat \ {0}
        /\ \A r \in Run : ParentOf[r] = p /\ meta[r] # NoMeta => meta[r].ordinal < NextFreeOrdinal(p)
    BY NextFreeOrdinalAbove
  <2>2. /\ initialOrdinal[p] = 0 /\ nextOrdinal[p] = 0
        /\ initialOrdinal' = [initialOrdinal EXCEPT ![p] = NextFreeOrdinal(p)]
        /\ UNCHANGED <<pc, meta, nextOrdinal, handle>>
    BY <1>4 DEF ReadOrdinals, memoryVars, HandlesAllocated
  <2>3. NextHandle(p)' = NextFreeOrdinal(p) /\ \A q \in Session \ {p} : NextHandle(q)' = NextHandle(q)
    BY <1>1, <2>2 DEF NextHandle
  <2>4. QED
    BY <1>1, <2>1, <2>2, <2>3 DEF HandlesAllocated, HandlesUnique
<1>5. ASSUME NEW r \in Run, SaveCreated(r) PROVE HandlesAllocated'
  <2>1. /\ pc[r] = "creating" /\ pc' = [pc EXCEPT ![r] = "acquiring"] /\ UNCHANGED handleVars
        /\ meta[r] = NoMeta /\ meta'[r].ordinal = handle[r]
        /\ \A q \in Run \ {r} : meta'[q] = meta[q]
    BY <1>1, <1>5 DEF SaveCreated, Goto, MetaFollowsPc
  <2>2. QED
    BY <1>1, <2>1 DEF handleVars, HandlesAllocated, HandlesUnique, NextHandle
<1>6. ASSUME NEW r \in Run,
             \/ Spawn(r) \/ ContinueAcquire(r) \/ AcquireRejected(r) \/ ClaimMutation(r)
             \/ RunnerReturns(r) \/ RunnerThrows(r) \/ Enqueue(r) \/ RecordForeground(r)
             \/ Interrupt(r) \/ StoreFails(r) \/ RecoverReport(r)
      PROVE  HandlesAllocated'
  <2>1. /\ UNCHANGED <<handleVars, meta>>
        /\ \A q \in Run : pc'[q] = "creating" => pc[q] = "creating"
    BY <1>1, <1>6
    DEF Spawn, ContinueAcquire, AcquireRejected, ClaimMutation, RunnerReturns, RunnerThrows, Enqueue,
        RecordForeground, Interrupt, StoreFails, RecoverReport, Settle, Goto, memoryVars
  <2>2. QED
    BY <1>2, <2>1
<1>7. ASSUME NEW r \in Run, SaveRunning(r) \/ SaveRetry(r) \/ SaveTerminal(r) \/ RecoverSave(r)
      PROVE  HandlesAllocated'
  <2>1. /\ UNCHANGED handleVars /\ meta[r] # NoMeta /\ meta'[r].ordinal = meta[r].ordinal
        /\ \A q \in Run \ {r} : meta'[q] = meta[q]
    BY <1>1, <1>7
    DEF SaveRunning, SaveRetry, SaveTerminal, RecoverSave, MetaFollowsPc, RecoveryInOrder, TypeOK,
        NoMeta, Meta
  <2>2. \A q \in Run : pc'[q] = "creating" => pc[q] = "creating"
    BY <1>1, <1>7 DEF SaveRunning, SaveRetry, SaveTerminal, RecoverSave, Settle, Goto, memoryVars
  <2>3. QED
    BY <1>2, <2>1, <2>2
<1>8. CASE Crash
  BY <1>1, <1>8 DEF Crash, HandlesAllocated, HandlesUnique
<1>9. CASE \/ \E h \in HostCall : ClaimHostMutation(h) \/ ReleaseHostMutations(h)
           \/ RecoveryFails \/ UNCHANGED vars
  <2>1. UNCHANGED <<handleVars, meta, pc>>
    BY <1>9 DEF ClaimHostMutation, ReleaseHostMutations, RecoveryFails, vars, memoryVars
  <2>2. QED
    BY <1>2, <2>1
<1>10. QED
  BY <1>3, <1>4, <1>5, <1>6, <1>7, <1>8, <1>9 DEF Next

\* Every step, stuttering included, preserves the invariant.
LEMMA NextIInv == IInv /\ [Next]_vars => IInv'
BY SchedulerPart, TypePart, ExclusivePart, PhasePart, PathsPart, MetaPart, ReportsPart, RecoveryPart,
   HandlesPart
DEF IInv

-----------------------------------------------------------------------------
(* What the invariant says of every reachable state.                         *)

\* The invariant of the manager holds in every reachable state.
THEOREM ManagerInvariant == Spec => []IInv
BY InitIInv, NextIInv, PTL DEF Spec

\* Every field of the manager, the store and the allocator keeps its type.
THEOREM ManagerTypes == Spec => []TypeOK
BY ManagerInvariant, PTL DEF IInv

\* A runner works only under a lease, so never more than maxConcurrent of them
\* and one per parent among the delegated; and however a run ends, neither a
\* lease nor a queue place nor a path of it stays behind.
THEOREM LeaseSafety == Spec => []LeasesFollowRuns
<1>1. ASSUME IInv PROVE RunnersHoldLeases
  <2>. DEFINE Runners == {r \in Run : pc[r] \in {"running", "retrying"}}
  <2>1. Runners \subseteq Holders
    BY <1>1 DEF IInv, PhaseFollowsPc, Holders
  <2>2. Cardinality(Runners) <= MaxConcurrent
    <3>1. IsFiniteSet(Holders) /\ Cardinality(Holders) <= MaxConcurrent
      BY <1>1, RunAssumption, FS_Subset DEF Holders, IInv, SchedInv, SlotAccounting
    <3>2. /\ Cardinality(Runners) <= Cardinality(Holders) /\ Cardinality(Holders) \in Nat
          /\ Cardinality(Runners) \in Nat
      BY <2>1, <3>1, FS_Subset, FS_CardinalityType
    <3>3. QED
      BY <3>1, <3>2, MaxConcurrentAssumption
  <2>3. ASSUME NEW r \in Delegated, NEW q \in Delegated, ParentOf[r] = ParentOf[q],
               r \in Runners, q \in Runners
        PROVE  r = q
    <3>1. r \in KeyOwners(ParentOf[r]) /\ q \in KeyOwners(ParentOf[r]) /\ ParentOf[r] \in Key
      BY <1>1, <2>3, ParentAssumption, ModeAssumption, DelegationAssumption
      DEF IInv, PhaseFollowsPc, KeyOwners, KeyPhase
    <3>2. QED
      BY <1>1, <3>1 DEF IInv, SchedInv, DelegationMutex
  <2>4. QED
    BY <1>1, <2>2, <2>3, ModeAssumption DEF RunnersHoldLeases, IInv, PhaseFollowsPc
<1>2. ASSUME IInv PROVE NothingLeaksAfterSettling
  BY <1>2 DEF IInv, PhaseFollowsPc, PathsFollowPc, NothingLeaksAfterSettling
<1>3. QED
  BY <1>1, <1>2, ManagerInvariant, PTL DEF LeasesFollowRuns

\* Two live writers, runs or host calls, never own overlapping paths, although
\* runs claim, settle and crash at any point.
THEOREM WriterSafety == Spec => []ExclusivePaths
BY ManagerInvariant, PTL DEF IInv

\* Crashes between any two writes, retries and repeated recoveries included, a
\* result is announced at most once and never of a run its host still executes.
THEOREM ReportSafety == Spec => []ReportsAreFinal
<1>1. IInv => ReportsAreFinal
  BY DEF IInv, ReportsFollowPc, ReportsAreFinal, ReportedAtMostOnce, TerminalBeforeInbox, PC, Terminal
<1>2. QED
  BY <1>1, ManagerInvariant, PTL

\* recoverInterrupted(), when it gets through, leaves no run of a dead host
\* open or unreported.
THEOREM RecoverySafety == Spec => []RecoveryClosesRuns
<1>1. IInv => RecoveryClosesRuns
  BY DEF IInv, RecoveryInOrder
<1>2. QED
  BY <1>1, ManagerInvariant, PTL

\* The handles of one parent session never collide, across concurrent spawns,
\* failed ones and restarts.
THEOREM HandleSafety == Spec => []HandlesUnique
<1>1. IInv => HandlesUnique
  BY DEF IInv, HandlesAllocated
<1>2. QED
  BY <1>1, ManagerInvariant, PTL

-----------------------------------------------------------------------------
(* What every step does to the disk.                                         *)

\* The steps that write a metadata file, and what they write.
LEMMA MetaStep ==
  ASSUME IInv, [Next]_vars, NEW r \in Run, meta'[r] # meta[r]
  PROVE  \/ SaveCreated(r) /\ meta[r] = NoMeta
         \/ SaveRunning(r) /\ meta[r].status = "created"
         \/ SaveRetry(r) /\ meta[r].status = "running"
         \/ SaveTerminal(r) /\ meta[r].status \in {"created", "running"}
         \/ RecoverSave(r) /\ Interrupted(r)
<1>. USE DEF IInv
<1>1. meta \in [Run -> Meta]
  BY DEF TypeOK
<1>2. ASSUME NEW q \in Run,
             \/ Spawn(q) \/ Allocate(q) \/ ContinueAcquire(q) \/ AcquireRejected(q)
             \/ ClaimMutation(q) \/ RunnerReturns(q) \/ RunnerThrows(q) \/ Enqueue(q)
             \/ RecordForeground(q) \/ Interrupt(q) \/ StoreFails(q) \/ RecoverReport(q)
      PROVE  FALSE
  BY <1>2
  DEF Spawn, Allocate, ContinueAcquire, AcquireRejected, ClaimMutation, RunnerReturns, RunnerThrows,
      Enqueue, RecordForeground, Interrupt, StoreFails, RecoverReport
<1>3. ~Crash /\ ~RecoveryFails /\ ~UNCHANGED vars
  BY DEF Crash, RecoveryFails, vars
<1>4. ASSUME NEW p \in Session, ReadOrdinals(p) PROVE FALSE
  BY <1>4 DEF ReadOrdinals
<1>5. ASSUME NEW h \in HostCall, ClaimHostMutation(h) \/ ReleaseHostMutations(h) PROVE FALSE
  BY <1>5 DEF ClaimHostMutation, ReleaseHostMutations
<1>6. PICK q \in Run :
        SaveCreated(q) \/ SaveRunning(q) \/ SaveRetry(q) \/ SaveTerminal(q) \/ RecoverSave(q)
  BY <1>2, <1>3, <1>4, <1>5 DEF Next
<1>7. q = r
  BY <1>1, <1>6 DEF SaveCreated, SaveRunning, SaveRetry, SaveTerminal, RecoverSave
<1>8. QED
  BY <1>6, <1>7
  DEF SaveCreated, SaveRunning, SaveRetry, SaveTerminal, RecoverSave, MetaFollowsPc

\* A metadata file moves forward through the lifecycle only: a terminal status
\* is never overwritten, by a late save or by a recovery, and the attempt it
\* names does not decrease.
THEOREM LifecycleSafety == Spec => DurableLifecycle
<1>. DEFINE Forward(r) ==
       /\ meta'[r].status = meta[r].status \/ <<meta[r].status, meta'[r].status>> \in Later
       /\ meta[r].status \notin Terminal
       /\ meta'[r].attempt >= meta[r].attempt
<1>1. ASSUME IInv, [Next]_vars, NEW r \in Run, meta'[r] # meta[r]
      PROVE  Forward(r)
  <2>1. /\ meta \in [Run -> Meta] /\ attempt[r] \in Nat /\ meta[r].attempt \in Nat
        /\ MetaFollowsPc
    BY <1>1, BoundAssumption DEF IInv, TypeOK, Meta
  <2>2. CASE SaveCreated(r) /\ meta[r] = NoMeta
    BY <2>1, <2>2 DEF SaveCreated, NoMeta, Later, Terminal
  <2>3. CASE SaveRunning(r) /\ meta[r].status = "created"
    BY <2>1, <2>3 DEF SaveRunning, Meta, Later, Terminal
  <2>4. CASE SaveRetry(r) /\ meta[r].status = "running"
    <3>1. meta[r].attempt <= attempt[r]
      BY <2>1, <2>4 DEF SaveRetry, MetaFollowsPc
    <3>2. QED
      BY <2>1, <2>4, <3>1 DEF SaveRetry, Meta, Terminal
  <2>5. CASE SaveTerminal(r) /\ meta[r].status \in {"created", "running"}
    <3>1. meta[r].attempt <= attempt[r] /\ outcome[r] \in Terminal
      BY <2>1, <2>5 DEF SaveTerminal, MetaFollowsPc
    <3>2. /\ meta'[r].status = outcome[r] /\ meta'[r].attempt = attempt[r]
      BY <2>1, <2>5 DEF SaveTerminal, Meta
    <3>3. QED
      BY <2>1, <2>5, <3>1, <3>2 DEF Later, Terminal
  <2>6. CASE RecoverSave(r) /\ Interrupted(r)
    BY <2>1, <2>6 DEF RecoverSave, Interrupted, Meta, Later, Terminal
  <2>7. QED
    BY <1>1, <2>2, <2>3, <2>4, <2>5, <2>6, MetaStep
<1>2. IInv /\ [Next]_vars => [\A r \in Run : meta'[r] # meta[r] => Forward(r)]_vars
  BY <1>1
<1>3. QED
  BY <1>2, ManagerInvariant, PTL DEF Spec, DurableLifecycle

-----------------------------------------------------------------------------
(* The refinement of AgentLedger.                                            *)

\* The part of a run that its entry depends on.
SameEntry(r) ==
  /\ meta'[r] = NoMeta <=> meta[r] = NoMeta
  /\ meta'[r].status = "cancelled" <=> meta[r].status = "cancelled"
  /\ inbox'[r] = inbox[r] /\ toolRecord'[r] = toolRecord[r]

\* The entry of r is a function of its metadata, inbox entry, tool record and
\* of whether its host is done with it.
LEMMA SameLedgerEntry ==
  ASSUME NEW r \in Run, SameEntry(r)
  PROVE  LedgerEntry(r)' = LedgerEntry(r)
BY DEF SameEntry, LedgerEntry

\* A step that leaves those of every run alone leaves the ledger alone.
LEMMA LedgerUnchanged ==
  ASSUME \A r \in Run : SameEntry(r)
  PROVE  UNCHANGED ledger
BY SameLedgerEntry DEF ledger

\* A step that changes the entry of one run.
LEMMA LedgerChanged ==
  ASSUME NEW r \in Run, \A q \in Run \ {r} : SameEntry(q)
  PROVE  ledger' = [ledger EXCEPT ![r] = ledger'[r]]
<1>1. \A q \in Run \ {r} : LedgerEntry(q)' = LedgerEntry(q)
  BY SameLedgerEntry
<1>2. QED
  BY <1>1 DEF ledger

\* Every step of the manager is a step of the ledger or leaves it alone.
LEMMA LedgerStep ==
  ASSUME IInv, [Next]_vars
  PROVE  [Ledger!Next]_ledger
<1>. USE DEF IInv
<1>1. /\ meta \in [Run -> Meta] /\ inbox \in [Run -> Nat] /\ toolRecord \in [Run -> Nat]
      /\ MetaFollowsPc /\ ReportsFollowPc
  BY DEF TypeOK
<1>2. ASSUME NEW r \in Run, SaveCreated(r) PROVE Ledger!Accept(r)
  <2>1. \A q \in Run \ {r} : SameEntry(q)
    BY <1>1, <1>2 DEF SaveCreated, SameEntry, reportVars
  <2>2. /\ meta[r] = NoMeta /\ meta'[r].status = "created" /\ meta'[r] # NoMeta
        /\ inbox'[r] = 0 /\ toolRecord'[r] = 0
    BY <1>1, <1>2 DEF SaveCreated, reportVars, MetaFollowsPc, ReportsFollowPc, NoMeta
  <2>3. ledger[r] = "absent" /\ ledger'[r] = "open"
    BY <2>2 DEF ledger, LedgerEntry
  <2>4. QED
    BY <2>1, <2>3, LedgerChanged DEF Ledger!Accept
<1>3. ASSUME NEW r \in Run, SaveTerminal(r) PROVE Ledger!Cancel(r) \/ UNCHANGED ledger
  <2>1. \A q \in Run \ {r} : SameEntry(q)
    BY <1>1, <1>3 DEF SaveTerminal, SameEntry, reportVars
  <2>2. /\ meta[r].status \in {"created", "running"} /\ meta'[r].status = outcome[r]
        /\ outcome[r] \in Terminal /\ inbox[r] = 0 /\ toolRecord[r] = 0
        /\ inbox'[r] = 0 /\ toolRecord'[r] = 0
    BY <1>1, <1>3 DEF SaveTerminal, reportVars, MetaFollowsPc, ReportsFollowPc, Meta
  <2>3. meta[r] # NoMeta /\ meta'[r] # NoMeta
    BY <2>2 DEF NoMeta, Terminal
  <2>4. CASE r \in Background /\ outcome[r] = "cancelled"
    <3>1. ledger[r] = "open" /\ ledger'[r] = "cancelled"
      BY <2>2, <2>3, <2>4 DEF ledger, LedgerEntry
    <3>2. QED
      BY <2>1, <2>4, <3>1, LedgerChanged DEF Ledger!Cancel
  <2>5. CASE ~(r \in Background /\ outcome[r] = "cancelled")
    <3>1. ledger[r] = "open" /\ ledger'[r] = "open"
      BY <2>2, <2>3, <2>5 DEF ledger, LedgerEntry
    <3>2. ledger' = [ledger EXCEPT ![r] = ledger[r]]
      BY <2>1, <3>1, LedgerChanged
    <3>3. QED
      BY <3>2 DEF ledger, LedgerEntry
  <2>6. QED
    BY <2>4, <2>5
<1>4. ASSUME NEW r \in Run, Enqueue(r) PROVE Ledger!Report(r)
  <2>1. \A q \in Run \ {r} : SameEntry(q)
    BY <1>1, <1>4 DEF Enqueue, SameEntry
  <2>2. /\ meta[r] # NoMeta /\ meta[r].status # "cancelled" /\ meta' = meta
        /\ inbox[r] = 0 /\ toolRecord[r] = 0 /\ inbox'[r] = 1 /\ toolRecord'[r] = 0
    BY <1>1, <1>4 DEF Enqueue, MetaFollowsPc, ReportsFollowPc, NoMeta
  <2>3. ledger[r] = "open" /\ ledger'[r] = "reported"
    BY <2>2 DEF ledger, LedgerEntry
  <2>4. QED
    BY <2>1, <2>3, LedgerChanged DEF Ledger!Report
<1>5. ASSUME NEW r \in Run, RecordForeground(r) PROVE Ledger!Report(r)
  <2>1. \A q \in Run \ {r} : SameEntry(q)
    BY <1>1, <1>5 DEF RecordForeground, SameEntry
  <2>2. /\ meta[r] # NoMeta /\ r \notin Background /\ meta' = meta
        /\ inbox[r] = 0 /\ toolRecord[r] = 0 /\ inbox'[r] = 0 /\ toolRecord'[r] = 1
    BY <1>1, <1>5 DEF RecordForeground, MetaFollowsPc, ReportsFollowPc, NoMeta
  <2>3. ledger[r] = "open" /\ ledger'[r] = "reported"
    BY <2>2 DEF ledger, LedgerEntry
  <2>4. QED
    BY <2>1, <2>3, LedgerChanged DEF Ledger!Report
<1>6. ASSUME NEW r \in Run, RecoverReport(r) PROVE Ledger!Report(r) \/ UNCHANGED ledger
  <2>1. \A q \in Run \ {r} : SameEntry(q)
    BY <1>1, <1>6 DEF RecoverReport, SameEntry
  <2>2. meta[r] # NoMeta /\ meta' = meta /\ inbox[r] \in {0, 1} /\ toolRecord[r] \in {0, 1}
    BY <1>6 DEF RecoverReport, RecoveryInOrder, ReportsFollowPc
  <2>3. CASE OwesInboxEntry(r)
    <3>1. /\ inbox[r] = 0 /\ toolRecord[r] = 0 /\ meta[r].status # "cancelled"
          /\ inbox'[r] = 1 /\ toolRecord'[r] = 0
      BY <1>1, <1>6, <2>2, <2>3 DEF RecoverReport, OwesInboxEntry, ReportsFollowPc
    <3>2. ledger[r] = "open" /\ ledger'[r] = "reported"
      BY <2>2, <3>1 DEF ledger, LedgerEntry
    <3>3. QED
      BY <2>1, <3>2, LedgerChanged DEF Ledger!Report
  <2>4. CASE r \notin Background /\ toolRecord[r] = 0
    <3>1. inbox[r] = 0 /\ inbox'[r] = 0 /\ toolRecord'[r] = 1
      BY <1>1, <1>6, <2>2, <2>4 DEF RecoverReport, OwesInboxEntry, ReportsFollowPc
    <3>2. ledger[r] = "open" /\ ledger'[r] = "reported"
      BY <2>2, <2>4, <3>1 DEF ledger, LedgerEntry
    <3>3. QED
      BY <2>1, <3>2, LedgerChanged DEF Ledger!Report
  <2>5. CASE ~OwesInboxEntry(r) /\ ~(r \notin Background /\ toolRecord[r] = 0)
    BY <1>6, <2>2, <2>5, LedgerUnchanged DEF RecoverReport, SameEntry
  <2>6. QED
    BY <2>3, <2>4, <2>5
<1>7. ASSUME NEW r \in Run, SaveRunning(r) \/ SaveRetry(r) \/ RecoverSave(r)
      PROVE  UNCHANGED ledger
  <2>1. /\ meta[r].status \in {"created", "running"} \/ meta' = meta
        /\ meta' # meta => meta'[r].status \in {"running", "failed"}
        /\ \A q \in Run \ {r} : meta'[q] = meta[q]
        /\ UNCHANGED <<inbox, toolRecord>>
    BY <1>1, <1>7
    DEF SaveRunning, SaveRetry, RecoverSave, Interrupted, MetaFollowsPc, Meta, reportVars
  <2>2. \A q \in Run : SameEntry(q)
    BY <2>1 DEF SameEntry, NoMeta
  <2>3. QED
    BY <2>2, LedgerUnchanged
<1>8. UNCHANGED <<meta, inbox, toolRecord>> => UNCHANGED ledger
  BY DEF ledger, LedgerEntry
<1>9. ASSUME NEW r \in Run,
             \/ Spawn(r) \/ Allocate(r) \/ ContinueAcquire(r) \/ AcquireRejected(r)
             \/ ClaimMutation(r) \/ RunnerReturns(r) \/ RunnerThrows(r) \/ Interrupt(r) \/ StoreFails(r)
      PROVE  UNCHANGED <<meta, inbox, toolRecord>>
  BY <1>9
  DEF Spawn, Allocate, ContinueAcquire, AcquireRejected, ClaimMutation, RunnerReturns, RunnerThrows,
      Interrupt, StoreFails, reportVars
<1>10. CASE \/ \E p \in Session : ReadOrdinals(p)
            \/ \E h \in HostCall : ClaimHostMutation(h) \/ ReleaseHostMutations(h)
            \/ Crash \/ RecoveryFails \/ UNCHANGED vars
  BY <1>8, <1>10
  DEF ReadOrdinals, ClaimHostMutation, ReleaseHostMutations, Crash, RecoveryFails, vars, reportVars
<1>11. QED
  BY <1>2, <1>3, <1>4, <1>5, <1>6, <1>7, <1>8, <1>9, <1>10 DEF Next, Ledger!Next

\* The manager and its store implement the promise to the parent session: an
\* accepted run goes from open to reported, once, or, in the background only,
\* to cancelled, across crashes, store failures and recoveries.  (That it gets
\* there in the end is the fairness half of KeepsLedger.)
THEOREM LedgerRefinement == Spec => Ledger!Init /\ [][Ledger!Next]_ledger
<1>1. Init => Ledger!Init
  BY DEF Init, Ledger!Init, ledger, LedgerEntry
<1>2. IInv /\ [Next]_vars => [Ledger!Next]_ledger
  BY LedgerStep
<1>3. QED
  BY <1>1, <1>2, ManagerInvariant, PTL DEF Spec
=============================================================================
