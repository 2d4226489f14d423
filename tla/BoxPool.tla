------------------------------ MODULE BoxPool ------------------------------
(***************************************************************************)
(* What the executor (compiler/src/executor.ts) promises its caller: a     *)
(* call of execute() waits its turn, takes its input files, runs, delivers *)
(* a result or an error, and gives its place to the next.  Boxes, shells   *)
(* and files are not visible here.  Executor.tla implements this.          *)
(***************************************************************************)
EXTENDS PrioritySemaphore

CONSTANT BoxCount

ASSUME BoxCountAssumption == BoxCount \in Nat

VARIABLES
  phase,    \* how far each job has come
  result    \* how the promise of execute() was settled

poolVars == <<permits, queue, phase, result>>

Phases == {"idle", "queued", "preparing", "running", "ending", "done"}
Results == {"none", "ok", "failed"}

Init ==
  /\ permits = BoxCount
  /\ queue = <<>>
  /\ phase = [j \in Jobs |-> "idle"]
  /\ result = [j \in Jobs |-> "none"]

AcquireAtOnce(j) ==
  /\ phase[j] = "idle"
  /\ TakePermit(j)
  /\ phase' = [phase EXCEPT ![j] = "preparing"]
  /\ UNCHANGED result

AcquireWaits(j) ==
  /\ phase[j] = "idle"
  /\ Enqueue(j)
  /\ phase' = [phase EXCEPT ![j] = "queued"]
  /\ UNCHANGED result

(* The input files are in the box: the command is run next.                *)
Prepared(j) ==
  /\ phase[j] = "preparing"
  /\ phase' = [phase EXCEPT ![j] = "running"]
  /\ UNCHANGED <<permits, queue, result>>

\* Mutant of Fails: a job that fails starts all over, without end.
FailsRetries(j) ==
  /\ phase[j] \in {"preparing", "running"}
  /\ phase' = [phase EXCEPT ![j] = "preparing"]
  /\ UNCHANGED <<permits, queue, result>>

(* execute() is going to throw.                                            *)
Fails(j) ==
  /\ phase[j] \in {"preparing", "running"}
  /\ phase' = [phase EXCEPT ![j] = "ending"]
  /\ result' = [result EXCEPT ![j] = "failed"]
  /\ UNCHANGED <<permits, queue>>

(* Output and metadata are read, output files are copied.                  *)
Succeeds(j) ==
  /\ phase[j] = "running"
  /\ phase' = [phase EXCEPT ![j] = "ending"]
  /\ result' = [result EXCEPT ![j] = "ok"]
  /\ UNCHANGED <<permits, queue>>

(* The finally block: the promise is settled and the place is free.        *)
Releases(j) ==
  /\ phase[j] = "ending"
  /\ \/ /\ GiveBack
        /\ phase' = [phase EXCEPT ![j] = "done"]
     \/ /\ HandOver
        /\ phase' = [phase EXCEPT ![j] = "done", ![Head(queue)] = "preparing"]
  /\ UNCHANGED result

Next ==
  \E j \in Jobs :
    \/ AcquireAtOnce(j) \/ AcquireWaits(j)
    \/ Prepared(j) \/ Fails(j) \/ Succeeds(j) \/ Releases(j)

Safety == Init /\ [][Next]_poolVars

=============================================================================
