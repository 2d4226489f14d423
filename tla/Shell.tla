------------------------------- MODULE Shell -------------------------------
(***************************************************************************)
(* compiler/src/shell.ts: one long-lived `/bin/sh` to which commands are   *)
(* written one after the other.  The end of a command is recognised by a   *)
(* marker line (`echo Bh7H_EXITCODE=$?_Bh7H`) on the shell's stdout.  When  *)
(* a command exceeds its time limit the process tree is terminated, a new  *)
(* shell (a new generation here) is spawned and the caller's promise is    *)
(* rejected.  The event listeners of every generation stay attached to the *)
(* same object, so output of an old shell is still looked at.              *)
(*                                                                         *)
(* External parts, modelled from their use: the operating system's sh      *)
(* (RunsToEnd), the npm package `terminate`, which resolves once the tree  *)
(* is dead and which polls with timers, so that what was in the pipe has   *)
(* been delivered by then (Terminated), or rejects (TerminateFails).       *)
(* Commands are numbered in the order of their exec calls.  stderr, the    *)
(* text of stdout and the log are left out: the executor looks only at how *)
(* the promise is settled.                                                 *)
(***************************************************************************)
EXTENDS Naturals, Sequences

CONSTANT
  MaxExecs       \* bound: how many commands the caller issues

ASSUME MaxExecsAssumption == MaxExecs \in Nat \ {0}

Commands == 1 .. MaxExecs
(* Each exec times out at most once, so one generation more than commands. *)
Generations == 1 .. (MaxExecs + 1)
ExitCodes == {"zero", "nonzero"}

VARIABLES
  initialized, running,   \* the flags of the class
  cmd,           \* this.cmd and the resolve/reject pair: latest accepted exec
  timer,         \* a timer is armed
  terminating,   \* timeout() awaits terminate
  shell,         \* the generation this.shell refers to
  stdin,         \* per generation: commands written, the first is executing
  stdout,        \* per generation: markers in the pipe, not yet delivered
  status,        \* what the operating system knows of each command
  answer,        \* how the promise of each exec was settled
  escaped        \* history: `terminate` has failed, so a command may have
                 \* outlived its shell

vars == <<initialized, running, cmd, timer, terminating, shell, stdin, stdout,
          status, answer, escaped>>

TypeOK ==
  /\ {initialized, running, timer, terminating, escaped} \subseteq BOOLEAN
  /\ cmd \in 0 .. MaxExecs
  /\ shell \in Generations
  /\ stdin \in [Generations -> Seq(Commands)]
  /\ stdout \in [Generations -> Seq(ExitCodes)]
  /\ status \in [Commands -> {"unsent", "executing", "killed"} \union ExitCodes]
  /\ answer \in [Commands -> {"none", "killed"} \union ExitCodes]

(* No promise of the caller is pending: it may call exec again.            *)
CallerIdle == \A c \in 1 .. cmd : answer[c] # "none"

(* Whether the process of generation g is alive: only the newest one is.   *)
Alive(g) == g = shell

Init ==
  /\ initialized = TRUE /\ running = FALSE
  /\ cmd = 0
  /\ timer = FALSE /\ terminating = FALSE
  /\ shell = 1
  /\ stdin = [g \in Generations |-> <<>>]
  /\ stdout = [g \in Generations |-> <<>>]
  /\ status = [c \in Commands |-> "unsent"]
  /\ answer = [c \in Commands |-> "none"]
  /\ escaped = FALSE

(* The command at the head of what a shell was given is executing.         *)
Started(queue, st) ==
  IF queue = <<>> \/ st[Head(queue)] # "unsent" THEN st
  ELSE [st EXCEPT ![Head(queue)] = "executing"]

(* exec(cmd, timeout): the promise is stored and the command is written to *)
(* the current shell.  exec throws at a caller who finds `running` set or  *)
(* `initialized` cleared; ReadyWhenAnswered says that never happens to a   *)
(* caller who waits for one answer before the next call, as the executor   *)
(* does, so there is no action for it.                                     *)
Exec ==
  /\ CallerIdle /\ cmd < MaxExecs
  /\ ~running /\ initialized
  /\ running' = TRUE
  /\ cmd' = cmd + 1
  /\ timer' = TRUE
  /\ stdin' = [stdin EXCEPT ![shell] = Append(@, cmd')]
  /\ status' = Started(stdin'[shell], status)
  /\ UNCHANGED <<initialized, terminating, shell, stdout, answer, escaped>>

(* The command executing in generation g ends.  A live shell then writes   *)
(* the marker and goes on with its input; a command that outlived its      *)
(* shell just ends.                                                        *)
RunsToEnd(g) ==
  /\ stdin[g] # <<>>
  /\ stdin' = [stdin EXCEPT ![g] = Tail(@)]
  /\ \E r \in ExitCodes :
       /\ status' = Started(stdin'[g], [status EXCEPT ![Head(stdin[g])] = r])
       /\ stdout' = IF Alive(g) THEN [stdout EXCEPT ![g] = Append(@, r)] ELSE stdout
  /\ UNCHANGED <<initialized, running, cmd, timer, terminating, shell, answer, escaped>>

(* The 'data' handler of generation g is given a chunk with n markers.     *)
(* While no command runs the chunk is dropped; otherwise the last marker   *)
(* of the chunk settles the promise that is stored now.                    *)
Data(g, n) ==
  /\ n <= Len(stdout[g])
  /\ stdout' = [stdout EXCEPT ![g] = SubSeq(@, n + 1, Len(@))]
  /\ \/ /\ ~running
        /\ UNCHANGED <<running, timer, answer>>
     \/ /\ running
        /\ running' = FALSE
        /\ timer' = FALSE
        /\ answer' = [answer EXCEPT ![cmd] = stdout[g][n]]
  /\ UNCHANGED <<initialized, terminating, shell, cmd, stdin, status, escaped>>

\* Mutant of TimerFires: `running` stays set while the shell is being killed.
TimerFiresStillRunning ==
  /\ timer /\ running
  /\ timer' = FALSE
  /\ initialized' = FALSE
  /\ terminating' = TRUE
  /\ UNCHANGED <<running, cmd, shell, stdin, stdout, status, answer, escaped>>

(* timeout() up to the await of terminate.                                 *)
TimerFires ==
  /\ timer /\ running
  /\ timer' = FALSE
  /\ initialized' = FALSE
  /\ running' = FALSE
  /\ terminating' = TRUE
  /\ UNCHANGED <<cmd, shell, stdin, stdout, status, answer, escaped>>

\* Mutant of Respawn: createShell() forgets to set `initialized` again.
RespawnUninitialized ==
  /\ shell' = shell + 1
  /\ terminating' = FALSE
  /\ answer' = [answer EXCEPT ![cmd] = "killed"]
  /\ UNCHANGED <<initialized, running, cmd, timer>>

\* Mutant of Respawn: the promise of the killed command is not rejected.
RespawnUnanswered ==
  /\ shell' = shell + 1
  /\ initialized' = TRUE
  /\ terminating' = FALSE
  /\ UNCHANGED <<running, cmd, timer, answer>>

\* Mutant of Respawn: the new child is spawned, but this.shell keeps the old.
RespawnOldHandle ==
  /\ initialized' = TRUE
  /\ terminating' = FALSE
  /\ answer' = [answer EXCEPT ![cmd] = "killed"]
  /\ UNCHANGED <<running, cmd, timer, shell>>

(* The rest of timeout(): createShell() and the rejection.                 *)
Respawn ==
  /\ shell' = shell + 1
  /\ initialized' = TRUE
  /\ terminating' = FALSE
  /\ answer' = [answer EXCEPT ![cmd] = "killed"]
  /\ UNCHANGED <<running, cmd, timer>>

\* Mutant of Terminated: the command itself survives its shell.
TerminatedOrphan ==
  /\ terminating
  /\ stdout[shell] = <<>>
  /\ Respawn
  /\ UNCHANGED <<stdin, stdout, status, escaped>>

(* terminate resolves: shell and command are dead, the pipe is drained.    *)
Terminated ==
  /\ terminating
  /\ stdout[shell] = <<>>
  /\ stdin' = [stdin EXCEPT ![shell] = <<>>]
  /\ status' = IF stdin[shell] = <<>> THEN status
               ELSE [status EXCEPT ![Head(stdin[shell])] = "killed"]
  /\ Respawn
  /\ UNCHANGED <<stdout, escaped>>

(* terminate rejects: shell.kill() ends the shell only.  What it was       *)
(* executing goes on, and markers it wrote are still in its pipe.          *)
TerminateFails ==
  /\ terminating
  /\ escaped' = TRUE
  /\ stdin' = [stdin EXCEPT ![shell] = SubSeq(@, 1, IF @ = <<>> THEN 0 ELSE 1)]
  /\ Respawn
  /\ UNCHANGED <<stdout, status>>

Next ==
  \/ Exec
  \/ \E g \in Generations : RunsToEnd(g)
  \/ \E g \in Generations : \E n \in 1 .. Len(stdout[g]) : Data(g, n)
  \/ TimerFires \/ Terminated \/ TerminateFails

(* Node's timers and event loop are fair, `terminate` settles (it has a    *)
(* time limit of its own).  A command may run for ever: no fairness.       *)
Fairness ==
  /\ WF_vars(TimerFires)
  /\ WF_vars(Terminated \/ TerminateFails)
  /\ \A g \in Generations : WF_vars(\E n \in 1 .. Len(stdout[g]) : Data(g, n))

Spec == Init /\ [][Next]_vars /\ Fairness

-----------------------------------------------------------------------------
(* exec is never refused to a caller who waits: whenever the caller has    *)
(* been answered the shell is ready, also right after a time-out, so the   *)
(* exceptions of shell.ts:159-164 never reach the executor.                *)
ReadyWhenAnswered == CallerIdle => initialized /\ ~running

(* A promise is settled once: neither a late marker nor a time-out         *)
(* answers an exec that was answered before (shell.ts:80, 121).            *)
AnsweredOnce ==
  [][\A c \in Commands : answer[c] # "none" => answer'[c] = answer[c]]_vars

(* Every exec is answered, whatever the command does and even if the       *)
(* process tree cannot be terminated.                                      *)
EveryExecAnswered == \A c \in Commands : (cmd = c) ~> (answer[c] # "none")

(* The shell keeps the promise of CommandServer up to the first time that  *)
(* terminate fails: each caller is told the fate of its own command, and   *)
(* no command runs on unobserved (shell.ts:78-153).                        *)
Server == INSTANCE CommandServer
ImplementsServer ==
  Server!Init /\ [][~escaped' => Server!Next]_<<status, answer>>

=============================================================================
