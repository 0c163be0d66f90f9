----------------------------- MODULE WaitQueue -----------------------------
(***************************************************************************)
(* The array queues of execution-scheduler.ts and permissions/broker.ts:   *)
(* push at the end, shift from the front, splice(indexOf(x), 1) on abort.  *)
(***************************************************************************)
EXTENDS Integers, Sequences

Occurs(x, queue) == \E i \in 1..Len(queue) : queue[i] = x

Distinct(queue) == \A i, j \in 1..Len(queue) : queue[i] = queue[j] => i = j

\* queue.splice(index, 1) at the first position of x
Without(queue, x) ==
  LET at == CHOOSE i \in 1..Len(queue) : queue[i] = x
  IN  [i \in 1..(Len(queue) - 1) |-> IF i < at THEN queue[i] ELSE queue[i + 1]]
=============================================================================
