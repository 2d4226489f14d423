------------------------- MODULE PrioritySemaphore -------------------------
(***************************************************************************)
(* The Semaphore of the npm package async-mutex, as compiler/src/executor.ts *)
(* uses it: every acquire has weight 1 and a priority, higher ones first,  *)
(* first come first served among equals.  The actions say how the value    *)
(* and the queue of waiters change; the modules that extend this one say   *)
(* what the job whose promise is resolved does with its permit.            *)
(***************************************************************************)
EXTENDS Integers, Sequences

CONSTANTS
  Jobs,       \* those who acquire: the calls of execute()
  Priority    \* the priority argument of each

ASSUME PriorityAssumption == Priority \in [Jobs -> Int]

VARIABLES
  permits,    \* the semaphore's value
  queue       \* the waiters, next one first

\* Mutant of Precedes: the sign of the priority is wrong, newest first.
PrecedesNewest(waiter, p) == Priority[waiter] <= p

(* A waiter that a new job with priority p must not pass.                  *)
Precedes(waiter, p) == Priority[waiter] >= p

InsertAfter(q, k, j) ==
  [i \in 1 .. Len(q) + 1 |-> IF i <= k THEN q[i] ELSE IF i = k + 1 THEN j ELSE q[i - 1]]

CanPass(j) ==
  /\ permits >= 1
  /\ \A i \in 1 .. Len(queue) : ~Precedes(queue[i], Priority[j])

(* acquire(): resolved at once if a permit is free and nobody precedes.    *)
TakePermit(j) ==
  /\ CanPass(j)
  /\ permits' = permits - 1
  /\ UNCHANGED queue

(* acquire(): otherwise the job waits behind the last waiter who precedes. *)
Enqueue(j) ==
  /\ ~CanPass(j)
  /\ \E k \in 0 .. Len(queue) :
       /\ k > 0 => Precedes(queue[k], Priority[j])
       /\ \A i \in (k + 1) .. Len(queue) : ~Precedes(queue[i], Priority[j])
       /\ queue' = InsertAfter(queue, k, j)
  /\ UNCHANGED permits

(* release(): without waiters the value is incremented ...                 *)
GiveBack ==
  /\ queue = <<>>
  /\ permits' = permits + 1
  /\ UNCHANGED queue

(* ... otherwise the permit goes to the first waiter, Head(queue).  (The   *)
(* package loops while permits last; NoIdlePermit in Executor says that    *)
(* none is free while somebody waits, so one round is all there is.)       *)
HandOver ==
  /\ queue # <<>>
  /\ queue' = Tail(queue)
  /\ UNCHANGED permits

=============================================================================
