--------------------------- MODULE AgentScheduler ---------------------------
(***************************************************************************)
(* AgentExecutionScheduler (src/core/agents/execution-scheduler.ts): every *)
(* SubAgent run takes a lease before its runner starts.  A delegated run   *)
(* first takes the mutex of its parent session (its delegation key), then  *)
(* one of MaxConcurrent slots; both have FIFO waiter queues, both hand     *)
(* over synchronously on release, and an abort signal takes a waiter out.  *)
(*                                                                         *)
(* One atomic action is the code between two awaits.  The run's await of   *)
(* acquireDelegation resolves one microtask after the grant, so a run that *)
(* has its key and has not asked for a slot is a state of its own          *)
(* ("keyed"), and so is a run that was refused a slot and has not yet      *)
(* reached the catch that gives the key back ("slotRefused").              *)
(***************************************************************************)
EXTENDS Integers, Sequences, FiniteSets, WaitQueue

CONSTANTS
  Run,            \* SubAgent run ids
  Key,            \* delegation keys (parent session ids)
  KeyOf,          \* KeyOf[r]: the delegation key of r, or NoKey
  NoKey,          \* an ordinary run has no delegation key
  MaxConcurrent   \* options.maxConcurrent

ASSUME MaxConcurrentAssumption == MaxConcurrent \in Nat \ {0}
ASSUME KeyAssumption == NoKey \notin Key /\ KeyOf \in [Run -> Key \cup {NoKey}]
ASSUME RunAssumption == IsFiniteSet(Run)

VARIABLES
  phase,              \* where the run's acquire() stands
  aborted,            \* runs whose AbortSignal has fired
  runningCount,       \* this.runningCount
  slotWaiters,        \* this.slotWaiters
  delegationRunning,  \* this.delegationRunning
  delegationWaiters   \* this.delegationWaiters, <<>> for an absent entry

schedVars == <<phase, aborted, runningCount, slotWaiters, delegationRunning,
               delegationWaiters>>

Phase == {"idle", "keyWait", "keyed", "slotWait", "slotRefused", "held",
          "released", "refused"}

\* Phases in which a delegated run owns its delegation key.
KeyPhase == {"keyed", "slotWait", "slotRefused", "held"}

Keyed(r) == KeyOf[r] # NoKey

Holders == {r \in Run : phase[r] = "held"}

KeyOwners(k) == {r \in Run : KeyOf[r] = k /\ phase[r] \in KeyPhase}

-----------------------------------------------------------------------------
SchedInit ==
  /\ phase = [r \in Run |-> "idle"]
  /\ aborted = {}
  /\ runningCount = 0
  /\ slotWaiters = <<>>
  /\ delegationRunning = {}
  /\ delegationWaiters = [k \in Key |-> <<>>]

\* acquire() up to its first await, for a run with a delegation key
AcquireDelegation(r) ==
  /\ phase[r] = "idle" /\ Keyed(r)
  /\ \/ /\ r \in aborted
        /\ phase' = [phase EXCEPT ![r] = "refused"]
        /\ UNCHANGED <<delegationRunning, delegationWaiters>>
     \/ /\ r \notin aborted /\ KeyOf[r] \notin delegationRunning
        /\ phase' = [phase EXCEPT ![r] = "keyed"]
        /\ delegationRunning' = delegationRunning \cup {KeyOf[r]}
        /\ UNCHANGED delegationWaiters
     \/ /\ r \notin aborted /\ KeyOf[r] \in delegationRunning
        /\ phase' = [phase EXCEPT ![r] = "keyWait"]
        /\ delegationWaiters' = [delegationWaiters EXCEPT ![KeyOf[r]] = Append(@, r)]
        /\ UNCHANGED delegationRunning
  /\ UNCHANGED <<aborted, runningCount, slotWaiters>>

\* Mutant: the cap is not compared before the counter goes up.
AcquireSlotUncapped(r) ==
  /\ phase[r] = "keyed" \/ (phase[r] = "idle" /\ ~Keyed(r))
  /\ phase' = [phase EXCEPT ![r] = "held"] /\ runningCount' = runningCount + 1
  /\ UNCHANGED <<aborted, slotWaiters, delegationRunning, delegationWaiters>>

\* acquireSlot(): the first await of an ordinary run, the second of a keyed one
AcquireSlot(r) ==
  /\ phase[r] = "keyed" \/ (phase[r] = "idle" /\ ~Keyed(r))
  /\ \/ /\ r \in aborted
        /\ phase' = [phase EXCEPT ![r] = "slotRefused"]
        /\ UNCHANGED <<runningCount, slotWaiters>>
     \/ /\ r \notin aborted /\ runningCount < MaxConcurrent
        /\ phase' = [phase EXCEPT ![r] = "held"]
        /\ runningCount' = runningCount + 1
        /\ UNCHANGED slotWaiters
     \/ /\ r \notin aborted /\ runningCount >= MaxConcurrent
        /\ phase' = [phase EXCEPT ![r] = "slotWait"]
        /\ slotWaiters' = Append(slotWaiters, r)
        /\ UNCHANGED runningCount
  /\ UNCHANGED <<aborted, delegationRunning, delegationWaiters>>

\* The abort listeners of the two waiter promises; a run that is not waiting
\* only remembers that its signal fired.
Abort(r) ==
  /\ r \notin aborted /\ phase[r] \notin {"released", "refused"}
  /\ aborted' = aborted \cup {r}
  /\ phase' = [phase EXCEPT ![r] = CASE @ = "keyWait" -> "refused"
                                     [] @ = "slotWait" -> "slotRefused"
                                     [] OTHER -> @]
  /\ slotWaiters' = IF phase[r] = "slotWait" THEN Without(slotWaiters, r) ELSE slotWaiters
  /\ delegationWaiters' =
       IF phase[r] = "keyWait"
         THEN [delegationWaiters EXCEPT ![KeyOf[r]] = Without(@, r)]
         ELSE delegationWaiters
  /\ UNCHANGED <<runningCount, delegationRunning>>

\* Mutants: the newest waiter is resumed; a released key is not handed on.
NewestSlotWaiter == IF slotWaiters = <<>> THEN {} ELSE {slotWaiters[Len(slotWaiters)]}
NoKeyWaiter(k) == {}

\* The runs that releaseSlot and releaseDelegation(k) resume, as a set of at
\* most one run.
NextSlotWaiter == IF slotWaiters = <<>> THEN {} ELSE {Head(slotWaiters)}
NextKeyWaiter(k) ==
  IF k = NoKey \/ delegationWaiters[k] = <<>> THEN {} ELSE {Head(delegationWaiters[k])}

\* Mutant: the counter is not raised again for the waiter that is resumed.
ReleaseSlotUncounted ==
  /\ runningCount' = IF runningCount > 0 THEN runningCount - 1 ELSE 0
  /\ slotWaiters' = IF slotWaiters = <<>> THEN <<>> ELSE Tail(slotWaiters)

\* releaseSlot(): down by one, and up again for the waiter that is resumed
ReleaseSlot ==
  /\ runningCount' = IF slotWaiters = <<>>
                       THEN IF runningCount > 0 THEN runningCount - 1 ELSE 0
                       ELSE runningCount
  /\ slotWaiters' = IF slotWaiters = <<>> THEN <<>> ELSE Tail(slotWaiters)

ReleaseDelegation(k) ==
  /\ delegationRunning' = IF NextKeyWaiter(k) = {} THEN delegationRunning \ {k}
                                                   ELSE delegationRunning
  /\ delegationWaiters' = IF NextKeyWaiter(k) = {} THEN delegationWaiters
                          ELSE [delegationWaiters EXCEPT ![k] = Tail(@)]

\* Mutant: the catch rethrows without giving the key back.
UnwindKeepsKey(r) ==
  /\ phase[r] = "slotRefused"
  /\ phase' = [phase EXCEPT ![r] = "refused"]
  /\ UNCHANGED <<aborted, runningCount, slotWaiters, delegationRunning, delegationWaiters>>

\* The catch of acquire() after acquireSlot rejected: the key goes back.
Unwind(r) ==
  /\ phase[r] = "slotRefused"
  /\ ReleaseDelegation(KeyOf[r])
  /\ phase' = [q \in Run |-> CASE q = r -> "refused"
                               [] q # r /\ q \in NextKeyWaiter(KeyOf[r]) -> "keyed"
                               [] OTHER -> phase[q]]
  /\ UNCHANGED <<aborted, runningCount, slotWaiters>>

\* lease.release(): slot first, then key, each with its synchronous handover
Release(r) ==
  /\ phase[r] = "held"
  /\ ReleaseSlot
  /\ ReleaseDelegation(KeyOf[r])
  /\ phase' = [q \in Run |-> CASE q = r -> "released"
                               [] q # r /\ q \in NextSlotWaiter -> "held"
                               [] q # r /\ q \in NextKeyWaiter(KeyOf[r]) -> "keyed"
                               [] OTHER -> phase[q]]
  /\ UNCHANGED aborted

SchedNext == \E r \in Run : AcquireDelegation(r) \/ AcquireSlot(r) \/ Abort(r)
                       \/ Unwind(r) \/ Release(r)

\* The awaiting code runs whenever its promise is settled, and a runner that
\* holds a lease comes back; nothing forces a caller to acquire or to abort.
SchedFairness == \A r \in Run : WF_schedVars(AcquireSlot(r) /\ phase[r] = "keyed")
                           /\ WF_schedVars(Unwind(r)) /\ WF_schedVars(Release(r))

SchedSpec == SchedInit /\ [][SchedNext]_schedVars /\ SchedFairness

-----------------------------------------------------------------------------
\* Every variable has the type of the field it models.
SchedTypeOK ==
  /\ phase \in [Run -> Phase]
  /\ aborted \subseteq Run
  /\ runningCount \in 0..MaxConcurrent
  /\ slotWaiters \in Seq(Run)
  /\ delegationRunning \subseteq Key
  /\ delegationWaiters \in [Key -> Seq(Run)]

\* The counter is the number of leases and within the cap, ...
SlotAccounting == runningCount = Cardinality(Holders) /\ runningCount <= MaxConcurrent

\* ... and a run waits for a slot only while every slot is taken.
NoStrandedSlotWaiter == slotWaiters # <<>> => runningCount = MaxConcurrent

\* Slots are conserved: whatever aborts hit whatever waiters between whatever
\* releases, no slot is lost, counted twice or left free beside a waiter.
SlotsConserved == SlotAccounting /\ NoStrandedSlotWaiter

\* At most one run of a parent session is past acquireDelegation, and a marked
\* key has exactly one owner, ...
DelegationMutex ==
  \A k \in Key : /\ \A r, q \in KeyOwners(k) : r = q
                 /\ k \in delegationRunning <=> KeyOwners(k) # {}

\* ... and a run waits for a key only while another run owns it.
NoStrandedKeyWaiter ==
  \A k \in Key : delegationWaiters[k] # <<>> => KeyOwners(k) # {}

\* "Same-parent delegations are serial", and the serialisation never wedges a
\* parent: a key without an owner has neither a mark nor waiters.
DelegationsSerial == DelegationMutex /\ NoStrandedKeyWaiter

\* The queues and the suspended promises agree: a run is queued exactly once
\* while it waits and nowhere otherwise, so no settled promise is resumed.
QueuesMatchWaiters ==
  /\ \A r \in Run : Occurs(r, slotWaiters) <=> phase[r] = "slotWait"
  /\ \A k \in Key, r \in Run :
       Occurs(r, delegationWaiters[k]) <=> phase[r] = "keyWait" /\ KeyOf[r] = k
  /\ Distinct(slotWaiters)
  /\ \A k \in Key : Distinct(delegationWaiters[k])

\* Only delegated runs are ever in the key phases before a slot is asked for.
OnlyDelegatedWaitForKey ==
  \A r \in Run : phase[r] \in {"keyWait", "keyed"} => Keyed(r)

\* The inductive invariant of the proof module.
SchedInv ==
  /\ SchedTypeOK /\ SlotAccounting /\ NoStrandedSlotWaiter /\ DelegationMutex
  /\ NoStrandedKeyWaiter /\ QueuesMatchWaiters /\ OnlyDelegatedWaitForKey

\* A waiter never overtakes one queued before it: if it gets the slot in a
\* step, everyone ahead has left the queue by that step.
SlotFifo ==
  [][\A i, j \in 1..Len(slotWaiters) :
       i < j /\ phase'[slotWaiters[j]] = "held" => phase'[slotWaiters[i]] # "slotWait"]_schedVars

\* Nobody waits for ever: each acquire() settles, with a lease or a rejection.
AcquireSettles ==
  \A r \in Run : phase[r] \in {"keyWait", "keyed", "slotWait", "slotRefused"}
                   ~> phase[r] \in {"held", "released", "refused"}
=============================================================================
