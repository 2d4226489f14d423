--------------------------- MODULE CompileAndRun ---------------------------
(***************************************************************************)
(* compileAndRun of compiler/src/app.service.ts on top of the executor,    *)
(* of which only the promise to its callers is used, BoxPool, which        *)
(* Executor implements (theorem Implementation of ExecutorProofs):         *)
(* a request compiles its code in one job, which copies the executable     *)
(* `submission-<requestId>` out to the storage, and then runs it on every  *)
(* input in a job of its own that copies it in again.  The runs are        *)
(* started together; Promise.all throws at the first one that fails, and   *)
(* the finally block removes the executable while the other runs may still *)
(* wait for a box.  Jobs are pairs <<request, n>>: n = 0 compiles, n >= 1  *)
(* runs input n.  The process may crash and start again with requestId 0   *)
(* and what its predecessor left in the storage.                           *)
(***************************************************************************)
EXTENDS BoxPool

CONSTANTS
  Inputs,      \* the number of inputs of each request, in order of arrival
  MaxCrashes   \* bound: how often the process crashes

Requests == DOMAIN Inputs

ASSUME InputsAssumption == Inputs \in Seq(Nat)
ASSUME CrashAssumption == MaxCrashes \in Nat
ASSUME JobsAreParts ==
  /\ Jobs = UNION {{r} \X (0 .. Inputs[r]) : r \in Requests}
  /\ \A j \in Jobs : Priority[j] = -j[1]

Request(j) == j[1]
Compilation(r) == <<r, 0>>
Runs(r) == {r} \X (1 .. Inputs[r])
IsRun(j) == j[2] > 0
Over == {"idle", "done"}

VARIABLES
  stage,        \* how far the handler of each request has come
  reply,        \* what the request is answered with
  executable,   \* the file submission-<r>: whose compilation it stems from
  compiled,     \* whether the compiler ended with exit code 0
  loaded,       \* per run: the executable that was copied into its box
  swallowed,    \* copying the executable out failed, which is only logged
  crashes       \* how often the process has crashed

handler == <<stage, reply>>
storage == <<executable, compiled, loaded, swallowed>>
allVars == <<poolVars, handler, storage, crashes>>

TypeInvariant ==
  /\ permits \in Nat
  /\ queue \in Seq(Jobs)
  /\ phase \in [Jobs -> Phases]
  /\ result \in [Jobs -> Results]
  /\ stage \in [Requests -> {"new", "compiling", "checking", "running", "finally", "answered"}]
  /\ reply \in [Requests -> {"none", "verdict", "outputs", "error"}]
  /\ executable \in [Requests -> {"absent", "own", "leftover"}]
  /\ compiled \in [Requests -> BOOLEAN]
  /\ loaded \in [Jobs -> {"none", "own", "leftover"}]
  /\ swallowed \in [Requests -> BOOLEAN]
  /\ crashes \in 0 .. MaxCrashes

(* In a process that has just started: no request has reached its handler, *)
(* no executable was loaded, every flag is down.                           *)
NoStage == [r \in Requests |-> "new"]
NoReply == [r \in Requests |-> "none"]
NoFlag == [r \in Requests |-> FALSE]
NoLoad == [j \in Jobs |-> "none"]

CInit ==
  /\ Init
  /\ stage = NoStage /\ reply = NoReply
  /\ compiled = NoFlag /\ swallowed = NoFlag /\ loaded = NoLoad
  /\ executable = [r \in Requests |-> "absent"]
  /\ crashes = 0

Go(r, s) == stage' = [stage EXCEPT ![r] = s]
Finish(r, answer) == Go(r, "finally") /\ reply' = [reply EXCEPT ![r] = answer]

-----------------------------------------------------------------------------
(* The handler of request r.                                               *)

(* requestId++: requests are numbered in the order of their arrival.       *)
Next1(r) == stage[r] = "new" /\ \A q \in Requests : q < r => stage[q] # "new"

(* The code contains an #undef: answered before the try block.             *)
Reject(r) ==
  /\ Next1(r)
  /\ Go(r, "answered")
  /\ reply' = [reply EXCEPT ![r] = "verdict"]
  /\ UNCHANGED <<poolVars, storage, crashes>>

Compile(r) ==
  /\ Next1(r)
  /\ AcquireAtOnce(Compilation(r)) \/ AcquireWaits(Compilation(r))
  /\ Go(r, "compiling")
  /\ UNCHANGED <<reply, storage, crashes>>

\* Mutant of Compiled: the verdicts are returned outside the try block.
CompiledOutsideTry(r) ==
  /\ stage[r] = "compiling"
  /\ phase[Compilation(r)] = "done"
  /\ \/ /\ result[Compilation(r)] = "failed"
        /\ Finish(r, "error")
     \/ /\ result[Compilation(r)] = "ok"
        /\ Go(r, "answered")
        /\ reply' = [reply EXCEPT ![r] = "verdict"]
     \/ /\ result[Compilation(r)] = "ok" /\ compiled[r]
        /\ Go(r, "checking")
        /\ UNCHANGED reply
  /\ UNCHANGED <<poolVars, storage, crashes>>

(* The compilation has returned or thrown.  A header that is not allowed   *)
(* or a compiler that failed ends the request with a verdict.              *)
Compiled(r) ==
  /\ stage[r] = "compiling"
  /\ phase[Compilation(r)] = "done"
  /\ \/ /\ result[Compilation(r)] = "failed"
        /\ Finish(r, "error")
     \/ /\ result[Compilation(r)] = "ok"
        /\ Finish(r, "verdict")
     \/ /\ result[Compilation(r)] = "ok" /\ compiled[r]
        /\ Go(r, "checking")
        /\ UNCHANGED reply
  /\ UNCHANGED <<poolVars, storage, crashes>>

(* execute() called for all inputs in one turn of the event loop: as many  *)
(* as there are permits go ahead, the others wait one behind the other.    *)
AcquireAll(r) ==
  LET wait(now) == [i \in 1 .. (Inputs[r] - now) |-> <<r, now + i>>]
      blocked == \E i \in 1 .. Len(queue) : Precedes(queue[i], -r)
      now == IF blocked THEN 0 ELSE IF permits < Inputs[r] THEN permits ELSE Inputs[r]
  IN /\ permits' = permits - now
     /\ phase' = [j \in Jobs |->
                    IF j \notin Runs(r) THEN phase[j]
                    ELSE IF j[2] <= now THEN "preparing" ELSE "queued"]
     /\ \E k \in 0 .. Len(queue) :
          /\ k > 0 => Precedes(queue[k], -r)
          /\ \A i \in (k + 1) .. Len(queue) : ~Precedes(queue[i], -r)
          /\ queue' = SubSeq(queue, 1, k) \o wait(now) \o SubSeq(queue, k + 1, Len(queue))
     /\ UNCHANGED result

(* fs.stat of the executable throws if it is not there.                    *)
CheckExecutable(r) ==
  /\ stage[r] = "checking"
  /\ IF executable[r] = "absent"
     THEN Finish(r, "error") /\ UNCHANGED poolVars
     ELSE Go(r, "running") /\ AcquireAll(r) /\ UNCHANGED reply
  /\ UNCHANGED <<storage, crashes>>

\* Mutant of RunsReturn: the first run that is over decides (Promise.race).
RunsReturnFirst(r) ==
  /\ stage[r] = "running"
  /\ \E j \in Runs(r) : phase[j] = "done" /\ result[j] = "ok"
  /\ Finish(r, "outputs")
  /\ UNCHANGED <<poolVars, storage, crashes>>

(* Promise.all: resolved by the last run, rejected by the first failure.   *)
RunsReturn(r) ==
  /\ stage[r] = "running"
  /\ \A j \in Runs(r) : phase[j] = "done" /\ result[j] = "ok"
  /\ Finish(r, "outputs")
  /\ UNCHANGED <<poolVars, storage, crashes>>

RunsFail(r) ==
  /\ stage[r] = "running"
  /\ \E j \in Runs(r) : phase[j] = "done" /\ result[j] = "failed"
  /\ Finish(r, "error")
  /\ UNCHANGED <<poolVars, storage, crashes>>

(* The finally block: unlink, then the answer leaves.                      *)
Answer(r) ==
  /\ stage[r] = "finally"
  /\ executable' = [executable EXCEPT ![r] = "absent"]
  /\ Go(r, "answered")
  /\ UNCHANGED <<poolVars, reply, compiled, loaded, swallowed, crashes>>

-----------------------------------------------------------------------------
(* The jobs, with the files they exchange with the storage.                *)

\* Mutant of CopyOut: a file that is there already is not overwritten.
CopyOutKeepsLeftover(j) ==
  /\ ~IsRun(j)
  /\ Succeeds(j)
  /\ \E success, copied \in BOOLEAN :
       /\ compiled' = [compiled EXCEPT ![Request(j)] = success]
       /\ swallowed' = [swallowed EXCEPT ![Request(j)] = ~copied]
       /\ executable' = [executable EXCEPT ![Request(j)] =
                           IF copied /\ @ = "absent" THEN "own" ELSE @]
  /\ UNCHANGED <<handler, loaded, crashes>>

(* A compilation returns: the compiler succeeded or not, and the           *)
(* executable is copied out, or copying fails unnoticed.                   *)
CopyOut(j) ==
  /\ ~IsRun(j)
  /\ Succeeds(j)
  /\ \E success, copied \in BOOLEAN :
       /\ compiled' = [compiled EXCEPT ![Request(j)] = success]
       /\ swallowed' = [swallowed EXCEPT ![Request(j)] = ~copied]
       /\ executable' = [executable EXCEPT ![Request(j)] = IF copied THEN "own" ELSE @]
  /\ UNCHANGED <<handler, loaded, crashes>>

(* Preparing a run copies the executable in; without one it fails.         *)
CopyIn(j) ==
  /\ IsRun(j)
  /\ phase[j] = "preparing"
  /\ \/ /\ executable[Request(j)] # "absent"
        /\ Prepared(j)
        /\ loaded' = [loaded EXCEPT ![j] = executable[Request(j)]]
     \/ /\ Fails(j)
        /\ UNCHANGED loaded
  /\ UNCHANGED <<handler, executable, compiled, swallowed, crashes>>

(* All that touches no file of the storage.                                *)
JobStep(j) ==
  /\ \/ ~IsRun(j) /\ (Prepared(j) \/ Fails(j))
     \/ IsRun(j) /\ phase[j] = "running" /\ (Succeeds(j) \/ Fails(j))
     \/ Releases(j)
  /\ UNCHANGED <<handler, storage, crashes>>

-----------------------------------------------------------------------------
(* The process dies.  What is in the storage stays; the new process        *)
(* numbers its requests from the start.  (What stays in the boxes of the   *)
(* executor is what Executor begins with; it does not matter here.)        *)
Crash ==
  /\ crashes < MaxCrashes
  /\ crashes' = crashes + 1
  /\ permits' = BoxCount
  /\ queue' = <<>>
  /\ phase' = [j \in Jobs |-> "idle"]
  /\ result' = [j \in Jobs |-> "none"]
  /\ stage' = NoStage /\ reply' = NoReply
  /\ compiled' = NoFlag /\ swallowed' = NoFlag /\ loaded' = NoLoad
  /\ executable' = [r \in Requests |-> IF executable[r] = "absent" THEN "absent" ELSE "leftover"]

HandlerStep(r) ==
  Compiled(r) \/ CheckExecutable(r) \/ RunsReturn(r) \/ RunsFail(r) \/ Answer(r)

(* Every request is answered and every job is over.                        *)
AllAnswered ==
  /\ \A r \in Requests : stage[r] = "answered"
  /\ \A j \in Jobs : phase[j] \in Over
  /\ UNCHANGED allVars

CNext ==
  \/ \E r \in Requests : Reject(r) \/ Compile(r) \/ HandlerStep(r)
  \/ \E j \in Jobs : CopyOut(j) \/ CopyIn(j) \/ JobStep(j)
  \/ Crash
  \/ AllAnswered

(* Awaits are answered, and the event loop runs their continuations.       *)
CFairness ==
  /\ \A r \in Requests : WF_allVars(HandlerStep(r))
  /\ \A j \in Jobs : WF_allVars(CopyOut(j) \/ CopyIn(j) \/ JobStep(j))

CSpec == CInit /\ [][CNext]_allVars /\ CFairness

-----------------------------------------------------------------------------
(* Jobs outlive the answer of their request, or find its executable gone,  *)
(* only if that answer is an error: the finally block never pulls the      *)
(* executable from under a request that may still succeed, and no other    *)
(* answer leaves work behind that takes boxes from others                  *)
(* (app.service.ts:300-312 and 345).                                       *)
FindsExecutable ==
  \A j \in Jobs :
    /\ phase[j] \notin Over
    /\ stage[Request(j)] = "answered" \/ (IsRun(j) /\ executable[Request(j)] = "absent")
    => stage[Request(j)] = "answered" /\ reply[Request(j)] = "error"

(* Outputs that are returned were all produced by the executable of this   *)
(* very request.  A leftover of a crashed process gets in only if copying  *)
(* the new executable failed as well, which line 267 swallows.             *)
OutputsOfOwnCode ==
  \A r \in Requests : reply[r] = "outputs" =>
    \A j \in Runs(r) : result[j] = "ok" /\ (loaded[j] = "own" \/ swallowed[r])

(* A request that was answered leaves no executable of its own in the      *)
(* storage, whichever way it ended.  (One of a crashed process stays until *)
(* a request with the same number reaches its finally block.)              *)
StorageReleased == \A r \in Requests : stage[r] = "answered" => executable[r] # "own"

(* Every request is answered, unless the process crashes first.            *)
RequestAnswered ==
  \A r \in Requests : (stage[r] # "new") ~> (stage[r] \in {"answered", "new"})

=============================================================================
