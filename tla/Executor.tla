------------------------------ MODULE Executor ------------------------------
(***************************************************************************)
(* compiler/src/executor.ts: the pool of isolate sandboxes.  A job is one  *)
(* call of execute().  It takes a permit of a priority semaphore, pops a   *)
(* free box, and then does, each step an await of its own: initialise the  *)
(* box, put its input files in, run the command, collect output and        *)
(* metadata, clean up, and give box and permit back.                       *)
(*                                                                         *)
(* External, modelled from its use: `isolate`, which locks a box while a   *)
(* process of it runs, refuses to touch a box that is locked, empties the  *)
(* box on --init and --cleanup and writes the metadata file on --run.  A   *)
(* command sent to the box's shell is always answered (EveryExecAnswered   *)
(* in Shell), but when `terminate` fails the isolate process may outlive   *)
(* the answer: `stuck`.                                                    *)
(*                                                                         *)
(* The service may crash and be started again.  A behaviour is the life of *)
(* one process; it begins with whatever former ones have left: files in    *)
(* the boxes, metadata files, and isolate processes that still run (or     *)
(* nothing, where box and storage are a tmpfs as in docker-compose.yaml).  *)
(* What was left in box b is called b itself.                              *)
(***************************************************************************)
EXTENDS PrioritySemaphore, FiniteSets

CONSTANTS
  BoxCount,          \* isolate.boxCount
  Nobody,            \* no job
  Unkillable,        \* the jobs whose isolate processes may survive a time-out
  LeftBoxes          \* the boxes in which former processes have left files

ASSUME JobsAssumption ==
  /\ IsFiniteSet(Jobs)
  /\ Nobody \notin Jobs \union Int
  /\ Jobs \intersect Int = {}
ASSUME BoxCountAssumption == BoxCount \in Nat
ASSUME UnkillableAssumption == Unkillable \subseteq Jobs

Boxes == 0 .. (BoxCount - 1)

ASSUME LeftAssumption == LeftBoxes \subseteq Boxes

NoBox == -1

VARIABLES
  availableBoxes,   \* the stack of free boxes
  pc,               \* how far each job has come
  box,              \* the box each job holds
  result,           \* how the promise of execute() was settled
  content,          \* per box: whose files are in its directory
  metadata,         \* per box: who wrote its metadata file
  stuck,            \* per box: whose isolate process has outlived its job
  seen              \* per job: whose data went into its result

pool == <<permits, queue, availableBoxes>>
disk == <<content, metadata, stuck>>
vars == <<pool, pc, box, result, disk, seen>>

PC == {"idle", "queued", "granted", "init", "prepare", "run", "collect",
       "cleanup", "done"}
Holding == {"init", "prepare", "run", "collect", "cleanup"}
JobsIn(p) == {j \in Jobs : pc[j] = p}

(* Where data comes from: a job, or what was left in a box.                *)
Sources == Jobs \union Boxes

TypeOK ==
  /\ permits \in Nat
  /\ queue \in Seq(Jobs)
  /\ availableBoxes \in Seq(Boxes)
  /\ pc \in [Jobs -> PC]
  /\ box \in [Jobs -> Boxes \union {NoBox}]
  /\ result \in [Jobs -> {"none", "ok", "failed"}]
  /\ content \in [Boxes -> SUBSET Sources]
  /\ metadata \in [Boxes -> Sources \union {Nobody}]
  /\ stuck \in [Boxes -> Sources \union {Nobody}]
  /\ seen \in [Jobs -> SUBSET Sources]

(* The process has started, among the remains of former ones.              *)
Init ==
  /\ permits = BoxCount
  /\ queue = <<>>
  /\ availableBoxes = [i \in 1 .. BoxCount |-> i - 1]
  /\ pc = [j \in Jobs |-> "idle"]
  /\ box = [j \in Jobs |-> NoBox]
  /\ result = [j \in Jobs |-> "none"]
  /\ content = [b \in Boxes |-> {b} \intersect LeftBoxes]
  /\ \E records, processes \in SUBSET LeftBoxes :
       /\ metadata = [b \in Boxes |-> IF b \in records THEN b ELSE Nobody]
       /\ stuck = [b \in Boxes |-> IF b \in processes THEN b ELSE Nobody]
  /\ seen = [j \in Jobs |-> {}]

-----------------------------------------------------------------------------
(* Line 55: `await this.semaphore.acquire(1, priority)`.                   *)

AcquireAtOnce(j) ==
  /\ pc[j] = "idle"
  /\ TakePermit(j)
  /\ pc' = [pc EXCEPT ![j] = "granted"]
  /\ UNCHANGED <<availableBoxes, box, result, disk, seen>>

AcquireWaits(j) ==
  /\ pc[j] = "idle"
  /\ Enqueue(j)
  /\ pc' = [pc EXCEPT ![j] = "queued"]
  /\ UNCHANGED <<availableBoxes, box, result, disk, seen>>

\* Mutant of Release: the waiter is served and the permit is also given back.
ReleaseTwice(j) ==
  /\ permits' = permits + 1
  /\ IF queue = <<>>
     THEN pc' = [pc EXCEPT ![j] = "done"] /\ UNCHANGED queue
     ELSE /\ queue' = Tail(queue)
          /\ pc' = [pc EXCEPT ![j] = "done", ![Head(queue)] = "granted"]

\* Mutant of Release: the permit is given back, the waiters are not looked at.
ReleaseNoDispatch(j) ==
  /\ permits' = permits + 1
  /\ pc' = [pc EXCEPT ![j] = "done"]
  /\ UNCHANGED queue

(* release() by a job that is done.                                        *)
Release(j) ==
  \/ /\ GiveBack
     /\ pc' = [pc EXCEPT ![j] = "done"]
  \/ /\ HandOver
     /\ pc' = [pc EXCEPT ![j] = "done", ![Head(queue)] = "granted"]

-----------------------------------------------------------------------------
(* execute(), one action per await.                                        *)

\* Mutant of PopBox: the top of the stack is read but not removed.
PopBoxPeek(j) ==
  /\ pc[j] = "granted"
  /\ availableBoxes # <<>>
  /\ box' = [box EXCEPT ![j] = availableBoxes[Len(availableBoxes)]]
  /\ pc' = [pc EXCEPT ![j] = "init"]
  /\ UNCHANGED <<pool, result, disk, seen>>

(* Lines 56-65.  The exception for an empty stack has no action:           *)
(* GrantHasBox says that it is never thrown.                               *)
PopBox(j) ==
  /\ pc[j] = "granted"
  /\ availableBoxes # <<>>
  /\ box' = [box EXCEPT ![j] = availableBoxes[Len(availableBoxes)]]
  /\ availableBoxes' = SubSeq(availableBoxes, 1, Len(availableBoxes) - 1)
  /\ pc' = [pc EXCEPT ![j] = "init"]
  /\ UNCHANGED <<permits, queue, result, disk, seen>>

Continue(j, next) ==
  /\ pc' = [pc EXCEPT ![j] = next]
  /\ UNCHANGED <<pool, box, result>>

\* Mutant of Throw: the exception escapes without the finally block.
ThrowNoFinally(j) ==
  /\ pc' = [pc EXCEPT ![j] = "done"]
  /\ result' = [result EXCEPT ![j] = "failed"]
  /\ UNCHANGED <<pool, box, seen>>

(* An exception inside the try block: the finally block is next.           *)
Throw(j) ==
  /\ pc' = [pc EXCEPT ![j] = "cleanup"]
  /\ result' = [result EXCEPT ![j] = "failed"]
  /\ UNCHANGED <<pool, box, seen>>

Writes(j) == content' = [content EXCEPT ![box[j]] = @ \union {j}]
Empties(b) == stuck[b] = Nobody /\ content' = [content EXCEPT ![b] = {}]

(* A command of job j timed out in its box: its process may live on.       *)
MayLeaveProcess(j) ==
  \/ UNCHANGED stuck
  \/ /\ j \in Unkillable
     /\ stuck[box[j]] = Nobody
     /\ stuck' = [stuck EXCEPT ![box[j]] = j]

(* isolate --init, lines 67-79.                                            *)
InitSucceeds(j) ==
  /\ pc[j] = "init"
  /\ Empties(box[j])
  /\ Continue(j, "prepare")
  /\ UNCHANGED <<metadata, stuck, seen>>

\* Mutant of InitFails: the failure is logged and the job goes on.
InitFailsSwallowed(j) ==
  /\ pc[j] = "init"
  /\ UNCHANGED content \/ Empties(box[j])
  /\ MayLeaveProcess(j)
  /\ Continue(j, "prepare")
  /\ UNCHANGED <<metadata, seen>>

InitFails(j) ==
  /\ pc[j] = "init"
  /\ UNCHANGED content \/ Empties(box[j])
  /\ MayLeaveProcess(j)
  /\ Throw(j)
  /\ UNCHANGED metadata

(* Copying input files, writing input texts and stdin.txt, lines 80-161.   *)
PrepareSucceeds(j) ==
  /\ pc[j] = "prepare"
  /\ Writes(j)
  /\ Continue(j, "run")
  /\ UNCHANGED <<metadata, stuck, seen>>

PrepareFails(j) ==
  /\ pc[j] = "prepare"
  /\ UNCHANGED content \/ Writes(j)
  /\ Throw(j)
  /\ UNCHANGED <<metadata, stuck>>

(* isolate --run, lines 202-230.  The "box in use" branch has no action:   *)
(* NeverInUse says that it is never taken.                                 *)
RunEnds(j) ==
  /\ pc[j] = "run"
  /\ stuck[box[j]] = Nobody
  /\ Writes(j)
  /\ metadata' = [metadata EXCEPT ![box[j]] = j]
  /\ Continue(j, "collect")
  /\ UNCHANGED <<stuck, seen>>

(* isolate fails before it starts the program; the catch block goes on.    *)
RunRejected(j) ==
  /\ pc[j] = "run"
  /\ stuck[box[j]] = Nobody
  /\ Continue(j, "collect")
  /\ UNCHANGED <<disk, seen>>

\* Mutant of RunTimesOut: a job that timed out is tried again, without end.
RunTimesOutRetries(j) ==
  /\ pc[j] = "run"
  /\ Writes(j)
  /\ UNCHANGED metadata \/ metadata' = [metadata EXCEPT ![box[j]] = j]
  /\ MayLeaveProcess(j)
  /\ Continue(j, "init")
  /\ UNCHANGED seen

RunTimesOut(j) ==
  /\ pc[j] = "run"
  /\ Writes(j)
  /\ UNCHANGED metadata \/ metadata' = [metadata EXCEPT ![box[j]] = j]
  /\ MayLeaveProcess(j)
  /\ Throw(j)

(* Reading stdout.txt and the metadata file, copying output files, return, *)
(* lines 231-286.                                                          *)
Collect(j) ==
  /\ pc[j] = "collect"
  /\ seen' = [seen EXCEPT ![j] = content[box[j]] \union ({metadata[box[j]]} \ {Nobody})]
  /\ pc' = [pc EXCEPT ![j] = "cleanup"]
  /\ result' = [result EXCEPT ![j] = "ok"]
  /\ UNCHANGED <<pool, box, disk>>

\* Mutant of Cleanup: the metadata file is left behind.
CleanupKeepsMetadata(j) ==
  /\ pc[j] = "cleanup"
  /\ UNCHANGED content \/ Empties(box[j])
  /\ MayLeaveProcess(j)
  /\ availableBoxes' = Append(availableBoxes, box[j])
  /\ box' = [box EXCEPT ![j] = NoBox]
  /\ Release(j)
  /\ UNCHANGED <<metadata, result, seen>>

(* The finally block, lines 287-302: isolate --cleanup, whose failure is   *)
(* only logged, unlink of the metadata file, push of the box and release.  *)
Cleanup(j) ==
  /\ pc[j] = "cleanup"
  /\ UNCHANGED content \/ Empties(box[j])
  /\ MayLeaveProcess(j)
  /\ metadata' = [metadata EXCEPT ![box[j]] = Nobody]
  /\ availableBoxes' = Append(availableBoxes, box[j])
  /\ box' = [box EXCEPT ![j] = NoBox]
  /\ Release(j)
  /\ UNCHANGED <<result, seen>>

(* An isolate process that outlived its job still works on its box, and    *)
(* ends at last.  (It opened its metadata file at its start, so after the  *)
(* unlink it writes to a file without a name.)                             *)
StuckWorks(b) ==
  /\ stuck[b] # Nobody
  /\ content' \in {[content EXCEPT ![b] = @ \union {stuck[b]}], [content EXCEPT ![b] = {}]}
  /\ UNCHANGED <<pool, pc, box, result, metadata, stuck, seen>>

StuckEnds(b) ==
  /\ stuck[b] # Nobody
  /\ stuck' = [stuck EXCEPT ![b] = Nobody]
  /\ UNCHANGED <<pool, pc, box, result, content, metadata, seen>>

-----------------------------------------------------------------------------
Acquire(j) == AcquireAtOnce(j) \/ AcquireWaits(j)

(* What execute() does once it has its permit.                             *)
Advance(j) ==
  \/ PopBox(j)
  \/ InitSucceeds(j) \/ InitFails(j)
  \/ PrepareSucceeds(j) \/ PrepareFails(j)
  \/ RunEnds(j) \/ RunRejected(j) \/ RunTimesOut(j)
  \/ Collect(j)
  \/ Cleanup(j)

(* All jobs were served: the only way to stand still that is no deadlock.  *)
AllServed == (\A j \in Jobs : pc[j] = "done") /\ UNCHANGED vars

Next ==
  \/ \E j \in Jobs : Acquire(j) \/ Advance(j)
  \/ \E b \in Boxes : StuckWorks(b) \/ StuckEnds(b)
  \/ AllServed

(* Every await of execute() is eventually answered: shell commands by      *)
(* Shell!EveryExecAnswered, file operations by the operating system.       *)
Fairness == \A j \in Jobs : WF_vars(Advance(j))

Spec == Init /\ [][Next]_vars /\ Fairness

-----------------------------------------------------------------------------
(* A box serves one job at a time: no two jobs hold the same box, no box   *)
(* on the stack is held, and no box is on the stack twice.                 *)
BoxExclusive ==
  /\ \A j, k \in Jobs : j # k /\ box[j] = box[k] => box[j] = NoBox
  /\ \A i \in 1 .. Len(availableBoxes) :
       /\ \A j \in Jobs : box[j] # availableBoxes[i]
       /\ \A l \in 1 .. Len(availableBoxes) :
            availableBoxes[i] = availableBoxes[l] => i = l

(* The pop of line 56 never yields undefined: for each permit that is free *)
(* or granted and not yet used there is a box on the stack.                *)
GrantHasBox == Len(availableBoxes) = permits + Cardinality(JobsIn("granted"))

(* Nobody waits while a permit is free, so no job is stranded.             *)
NoIdlePermit == queue # <<>> => permits = 0

(* "Isolate box is currently in use, this should not happen" (line 223):   *)
(* even with processes that outlive their time-out, no command is run in a *)
(* box such a process still occupies.                                      *)
NeverInUse == \A j \in JobsIn("run") : stuck[box[j]] = Nobody

(* What is returned for a job stems from that job: nothing another one     *)
(* left in the box or in the metadata file gets into it, though cleaning   *)
(* up may fail.  Only a metadata file that a crashed process left behind   *)
(* may be taken for one's own, by one job at most (executor.ts:247, 293).  *)
OwnResult ==
  /\ \A j \in Jobs : seen[j] \subseteq {j} \union Boxes
  /\ \A j, k \in Jobs : j # k => seen[j] \intersect seen[k] = {}

(* A permit never goes to a job while one of higher priority keeps waiting *)
(* (older requests go first), and never to a newcomer while anybody of its *)
(* priority waits.                                                         *)
NoOvertaking ==
  [][\A j, k \in Jobs :
       /\ pc[j] \in {"idle", "queued"} /\ pc'[j] = "granted"
       /\ pc[k] = "queued" /\ pc'[k] = "queued"
       => Priority[k] <= Priority[j] /\ pc[j] = "queued"]_vars

(* To its callers the executor is the BoxPool: whatever boxes, shells and  *)
(* files do, a job goes through the same few phases and at most BoxCount   *)
(* are under way.                                                          *)
PhaseOf(p) ==
  CASE p \in {"granted", "init", "prepare"} -> "preparing"
    [] p \in {"run", "collect"} -> "running"
    [] p = "cleanup" -> "ending"
    [] OTHER -> p

Pool == INSTANCE BoxPool WITH phase <- [j \in Jobs |-> PhaseOf(pc[j])]
ImplementsPool == Pool!Safety

(* Every job that waits for a box gets one, ends, and is answered.         *)
EveryJobEnds ==
  \A j \in Jobs : (pc[j] # "idle") ~> (pc[j] = "done" /\ result[j] # "none")

=============================================================================
