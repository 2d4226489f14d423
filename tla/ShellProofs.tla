----------------------------- MODULE ShellProofs -----------------------------
(***************************************************************************)
(* What Shell guarantees for any number of commands, even if `terminate`   *)
(* fails: its state is well-formed, a caller who has been answered finds   *)
(* the shell ready, and no promise is settled twice.  Until `terminate`    *)
(* fails it implements CommandServer.                                      *)
(***************************************************************************)
EXTENDS Shell, SequenceTheorems, TLAPS

(* The promise of the latest exec is pending.                              *)
Pending == cmd # 0 /\ answer[cmd] = "none"

(* The flags of the class follow the promise: while it is pending either   *)
(* the command runs under its timer, or the shell is being replaced.       *)
FlagsInv ==
  /\ Pending <=> running \/ terminating
  /\ ~(running /\ terminating)
  /\ timer <=> running
  /\ initialized <=> ~terminating

(* Earlier promises are settled, later ones do not exist, and each command *)
(* costs at most one shell.                                                *)
PromisesInv ==
  /\ \A c \in Commands : c < cmd => answer[c] # "none"
  /\ \A c \in Commands : c > cmd => answer[c] = "none"
  /\ shell <= IF Pending THEN cmd ELSE cmd + 1

ShellInv == TypeOK /\ FlagsInv /\ PromisesInv

LEMMA StartedType ==
  ASSUME NEW q \in Seq(Commands),
         NEW st \in [Commands -> {"unsent", "executing", "killed"} \union ExitCodes]
  PROVE  Started(q, st) \in [Commands -> {"unsent", "executing", "killed"} \union ExitCodes]
<1>1. CASE q = <<>>
  BY <1>1 DEF Started
<1>2. CASE q # <<>>
  <2>1. Head(q) \in Commands
    BY <1>2, HeadTailProperties
  <2>. QED
    BY <1>2, <2>1 DEF Started
<1>. QED
  BY <1>1, <1>2

LEMMA CutType ==
  ASSUME NEW S, NEW s \in Seq(S), NEW m \in Nat \ {0}, NEW n \in Nat, n <= Len(s)
  PROVE  SubSeq(s, m, n) \in Seq(S)
<1>1. \A i \in m .. n : s[i] \in S
  OBVIOUS
<1>. QED
  BY <1>1, SubSeqProperties

LEMMA PendingOne ==
  ASSUME ShellInv, Pending
  PROVE  cmd \in Commands /\ ~CallerIdle
BY MaxExecsAssumption DEF ShellInv, TypeOK, Pending, CallerIdle, Commands

LEMMA IdleOne ==
  ASSUME ShellInv
  PROVE  CallerIdle <=> ~Pending
BY MaxExecsAssumption DEF ShellInv, TypeOK, PromisesInv, Pending, CallerIdle, Commands

LEMMA ShellInit == Init => ShellInv
<1>. SUFFICES ASSUME Init PROVE ShellInv
  OBVIOUS
<1>1. TypeOK
  <2>1. 1 \in Generations /\ <<>> \in Seq(Commands) /\ <<>> \in Seq(ExitCodes)
    BY MaxExecsAssumption DEF Generations
  <2>2. {initialized, running, timer, terminating, escaped} \subseteq BOOLEAN
    BY Zenon DEF Init
  <2>3. cmd \in 0 .. MaxExecs /\ shell \in Generations
    BY <2>1, MaxExecsAssumption DEF Init
  <2>4. /\ stdin \in [Generations -> Seq(Commands)]
        /\ stdout \in [Generations -> Seq(ExitCodes)]
    BY <2>1 DEF Init
  <2>5. /\ status \in [Commands -> {"unsent", "executing", "killed"} \union ExitCodes]
        /\ answer \in [Commands -> {"none", "killed"} \union ExitCodes]
    BY DEF Init
  <2>. QED
    BY <2>2, <2>3, <2>4, <2>5 DEF TypeOK
<1>2. FlagsInv /\ PromisesInv
  BY MaxExecsAssumption DEF Init, FlagsInv, PromisesInv, Pending, Commands
<1>. QED
  BY <1>1, <1>2 DEF ShellInv

LEMMA ShellExec ==
  ASSUME ShellInv, Exec
  PROVE  ShellInv'
<1>. USE MaxExecsAssumption DEF ShellInv
<1>1. ~Pending
  BY IdleOne DEF Exec
<1>2. cmd' \in Commands /\ cmd' = cmd + 1
  BY DEF Exec, TypeOK, Commands
<1>3. stdin' \in [Generations -> Seq(Commands)]
  <2>1. Append(stdin[shell], cmd') \in Seq(Commands)
    BY <1>2, AppendProperties DEF TypeOK
  <2>. QED
    BY <2>1 DEF Exec, TypeOK
<1>4. status' \in [Commands -> {"unsent", "executing", "killed"} \union ExitCodes]
  <2>1. stdin'[shell] \in Seq(Commands)
    BY <1>3 DEF TypeOK
  <2>. QED
    BY <2>1, StartedType DEF Exec, TypeOK
<1>5. TypeOK'
  BY <1>2, <1>3, <1>4 DEF Exec, TypeOK, Commands
<1>6. Pending'
  BY <1>2 DEF Exec, PromisesInv, Pending, TypeOK, Commands
<1>7. FlagsInv'
  BY <1>1, <1>6 DEF Exec, FlagsInv
<1>8. PromisesInv'
  <2>1. \A c \in Commands : c < cmd' => answer'[c] # "none"
    BY <1>1, <1>2 DEF Exec, PromisesInv, Pending, TypeOK, Commands
  <2>2. \A c \in Commands : c > cmd' => answer'[c] = "none"
    BY <1>2 DEF Exec, PromisesInv, TypeOK, Commands
  <2>3. shell' <= cmd'
    BY <1>1, <1>2 DEF Exec, PromisesInv
  <2>. QED
    BY <1>6, <2>1, <2>2, <2>3 DEF PromisesInv
<1>. QED
  BY <1>5, <1>7, <1>8

LEMMA ShellRunsToEnd ==
  ASSUME ShellInv, NEW g \in Generations, RunsToEnd(g)
  PROVE  ShellInv'
<1>. USE DEF ShellInv
<1>1. PICK r \in ExitCodes :
        /\ status' = Started(stdin'[g], [status EXCEPT ![Head(stdin[g])] = r])
        /\ stdout' = IF Alive(g) THEN [stdout EXCEPT ![g] = Append(@, r)] ELSE stdout
  BY DEF RunsToEnd
<1>2. /\ stdin[g] # <<>> /\ stdin[g] \in Seq(Commands)
      /\ stdin' = [stdin EXCEPT ![g] = Tail(@)]
      /\ UNCHANGED <<initialized, running, cmd, timer, terminating, shell, answer, escaped>>
  BY DEF RunsToEnd, TypeOK
<1>3. Head(stdin[g]) \in Commands /\ Tail(stdin[g]) \in Seq(Commands)
  BY <1>2, HeadTailProperties
<1>4. stdin' \in [Generations -> Seq(Commands)] /\ stdin'[g] \in Seq(Commands)
  BY <1>2, <1>3 DEF TypeOK
<1>5. status' \in [Commands -> {"unsent", "executing", "killed"} \union ExitCodes]
  <2>1. [status EXCEPT ![Head(stdin[g])] = r]
          \in [Commands -> {"unsent", "executing", "killed"} \union ExitCodes]
    BY <1>1, <1>3 DEF TypeOK
  <2>. QED
    BY <1>1, <1>4, <2>1, StartedType
<1>6. stdout' \in [Generations -> Seq(ExitCodes)]
  <2>1. Append(stdout[g], r) \in Seq(ExitCodes)
    BY AppendProperties DEF TypeOK
  <2>. QED
    BY <1>1, <2>1 DEF TypeOK
<1>7. TypeOK'
  BY <1>2, <1>4, <1>5, <1>6 DEF TypeOK
<1>8. FlagsInv' /\ PromisesInv'
  BY <1>2 DEF FlagsInv, PromisesInv, Pending
<1>. QED
  BY <1>7, <1>8

(* Settling the pending promise keeps the order of promises.               *)
LEMMA Settles ==
  ASSUME ShellInv, Pending, NEW a \in {"killed"} \union ExitCodes,
         cmd' = cmd, answer' = [answer EXCEPT ![cmd] = a],
         shell' <= cmd + 1
  PROVE  /\ answer' \in [Commands -> {"none", "killed"} \union ExitCodes]
         /\ ~Pending' /\ PromisesInv'
         /\ \A c \in Commands : answer[c] # "none" => answer'[c] = answer[c]
<1>1. cmd \in Commands
  BY PendingOne
<1>2. a # "none"
  BY DEF ExitCodes
<1>3. answer \in [Commands -> {"none", "killed"} \union ExitCodes]
  BY DEF ShellInv, TypeOK
<1>4. answer'[cmd] = a /\ \A c \in Commands : c # cmd => answer'[c] = answer[c]
  BY <1>1, <1>3
<1>5. ~Pending'
  BY <1>2, <1>4 DEF Pending
<1>6. PromisesInv'
  BY <1>4, <1>5, MaxExecsAssumption DEF ShellInv, PromisesInv, Commands
<1>. QED
  BY <1>1, <1>3, <1>4, <1>5, <1>6 DEF Pending

LEMMA ShellData ==
  ASSUME ShellInv, NEW g \in Generations, NEW n \in 1 .. Len(stdout[g]), Data(g, n)
  PROVE  /\ ShellInv'
         /\ \A c \in Commands : answer[c] # "none" => answer'[c] = answer[c]
<1>. USE DEF ShellInv
<1>1. /\ stdout' = [stdout EXCEPT ![g] = SubSeq(@, n + 1, Len(@))]
      /\ UNCHANGED <<initialized, terminating, shell, cmd, stdin, status, escaped>>
  BY DEF Data
<1>2. stdout[g] \in Seq(ExitCodes) /\ Len(stdout[g]) \in Nat /\ n \in Nat \ {0}
  BY DEF TypeOK
<1>3. SubSeq(stdout[g], n + 1, Len(stdout[g])) \in Seq(ExitCodes)
  BY <1>2, CutType
<1>4. stdout' \in [Generations -> Seq(ExitCodes)]
  BY <1>1, <1>3 DEF TypeOK
<1>5. CASE ~running
  <2>1. UNCHANGED <<running, timer, answer>>
    BY <1>5 DEF Data
  <2>2. TypeOK'
    BY <1>1, <1>4, <2>1 DEF TypeOK
  <2>3. FlagsInv' /\ PromisesInv'
    BY <1>1, <2>1 DEF FlagsInv, PromisesInv, Pending
  <2>. QED
    BY <2>1, <2>2, <2>3
<1>6. CASE running
  <2>1. /\ ~running' /\ ~timer'
        /\ running' \in BOOLEAN /\ timer' \in BOOLEAN
        /\ answer' = [answer EXCEPT ![cmd] = stdout[g][n]]
    BY <1>6 DEF Data
  <2>2. stdout[g][n] \in ExitCodes
    BY <1>2
  <2>3. Pending /\ shell' <= cmd + 1
    BY <1>1, <1>6, MaxExecsAssumption DEF FlagsInv, PromisesInv, TypeOK, Generations
  <2>4. /\ answer' \in [Commands -> {"none", "killed"} \union ExitCodes]
        /\ ~Pending' /\ PromisesInv'
        /\ \A c \in Commands : answer[c] # "none" => answer'[c] = answer[c]
    BY <1>1, <2>1, <2>2, <2>3, Settles
  <2>5. TypeOK'
    BY <1>1, <1>4, <2>1, <2>4 DEF TypeOK
  <2>6. FlagsInv'
    BY <1>1, <1>6, <2>1, <2>4 DEF FlagsInv
  <2>. QED
    BY <2>4, <2>5, <2>6
<1>. QED
  BY <1>5, <1>6

LEMMA ShellTimerFires ==
  ASSUME ShellInv, TimerFires
  PROVE  ShellInv'
<1>1. TypeOK'
  BY DEF ShellInv, TypeOK, TimerFires
<1>2. FlagsInv' /\ PromisesInv'
  BY DEF ShellInv, FlagsInv, PromisesInv, Pending, TimerFires
<1>. QED
  BY <1>1, <1>2 DEF ShellInv

LEMMA ShellRespawn ==
  ASSUME ShellInv, terminating, Respawn,
         stdin' \in [Generations -> Seq(Commands)],
         stdout' \in [Generations -> Seq(ExitCodes)],
         status' \in [Commands -> {"unsent", "executing", "killed"} \union ExitCodes],
         escaped' \in BOOLEAN
  PROVE  /\ ShellInv'
         /\ \A c \in Commands : answer[c] # "none" => answer'[c] = answer[c]
<1>. USE DEF ShellInv
<1>1. Pending /\ shell <= cmd /\ ~running /\ ~timer
  BY DEF FlagsInv, PromisesInv
<1>2. cmd' = cmd /\ shell' = shell + 1 /\ answer' = [answer EXCEPT ![cmd] = "killed"]
      /\ initialized' = TRUE /\ terminating' = FALSE /\ UNCHANGED <<running, timer>>
  BY DEF Respawn
<1>3. shell' <= cmd + 1 /\ shell' \in Generations
  BY <1>1, <1>2, MaxExecsAssumption DEF TypeOK, Generations
<1>4. /\ answer' \in [Commands -> {"none", "killed"} \union ExitCodes]
      /\ ~Pending' /\ PromisesInv'
      /\ \A c \in Commands : answer[c] # "none" => answer'[c] = answer[c]
  BY <1>1, <1>2, <1>3, Settles
<1>5. TypeOK'
  BY <1>2, <1>3, <1>4 DEF TypeOK
<1>6. FlagsInv'
  BY <1>1, <1>2, <1>4 DEF FlagsInv
<1>. QED
  BY <1>4, <1>5, <1>6

LEMMA ShellTerminated ==
  ASSUME ShellInv, Terminated \/ TerminateFails
  PROVE  /\ ShellInv'
         /\ \A c \in Commands : answer[c] # "none" => answer'[c] = answer[c]
<1>. USE DEF ShellInv
<1>1. stdin[shell] \in Seq(Commands)
  BY DEF TypeOK
<1>2. CASE Terminated
  <2>1. stdin' \in [Generations -> Seq(Commands)] /\ stdout' = stdout
    BY <1>2 DEF Terminated, TypeOK
  <2>2. status' \in [Commands -> {"unsent", "executing", "killed"} \union ExitCodes]
    <3>1. CASE stdin[shell] = <<>>
      BY <1>2, <3>1 DEF Terminated, TypeOK
    <3>2. CASE stdin[shell] # <<>>
      <4>1. Head(stdin[shell]) \in Commands
        BY <1>1, <3>2, HeadTailProperties
      <4>. QED
        BY <1>2, <3>2, <4>1 DEF Terminated, TypeOK
    <3>. QED
      BY <3>1, <3>2
  <2>. QED
    BY <1>2, <2>1, <2>2, ShellRespawn DEF Terminated, TypeOK
<1>3. CASE TerminateFails
  <2>1. SubSeq(stdin[shell], 1, IF stdin[shell] = <<>> THEN 0 ELSE 1) \in Seq(Commands)
    BY <1>1, CutType
  <2>2. stdin' \in [Generations -> Seq(Commands)] /\ UNCHANGED <<stdout, status>>
    BY <1>3, <2>1 DEF TerminateFails, TypeOK
  <2>. QED
    BY <1>3, <2>2, ShellRespawn DEF TerminateFails, TypeOK
<1>. QED
  BY <1>2, <1>3

LEMMA ShellStep ==
  ASSUME ShellInv, [Next]_vars
  PROVE  /\ ShellInv'
         /\ \A c \in Commands : answer[c] # "none" => answer'[c] = answer[c]
<1>1. CASE Exec
  BY <1>1, ShellExec DEF Exec
<1>2. CASE \E g \in Generations : RunsToEnd(g)
  BY <1>2, ShellRunsToEnd DEF RunsToEnd
<1>3. CASE \E g \in Generations : \E n \in 1 .. Len(stdout[g]) : Data(g, n)
  BY <1>3, ShellData
<1>4. CASE TimerFires
  BY <1>4, ShellTimerFires DEF TimerFires
<1>5. CASE Terminated \/ TerminateFails
  BY <1>5, ShellTerminated
<1>6. CASE UNCHANGED vars
  BY <1>6 DEF vars, ShellInv, TypeOK, FlagsInv, PromisesInv, Pending
<1>. QED
  BY <1>1, <1>2, <1>3, <1>4, <1>5, <1>6 DEF Next

LEMMA ShellHolds == Spec => []ShellInv
  BY ShellInit, ShellStep, PTL DEF Spec

(* The state of shell.ts and of the processes around it is well-formed, in *)
(* particular each command costs at most one respawned shell.              *)
THEOREM TypeCorrect == Spec => []TypeOK
<1>1. ShellInv => TypeOK
  BY DEF ShellInv
<1>. QED
  BY <1>1, ShellHolds, PTL

(* The two exceptions of exec() never reach a caller who waits for each    *)
(* answer, however many commands time out and even if terminate fails.     *)
THEOREM AlwaysReady == Spec => []ReadyWhenAnswered
<1>1. ShellInv => ReadyWhenAnswered
  BY IdleOne DEF ReadyWhenAnswered, ShellInv, FlagsInv
<1>. QED
  BY <1>1, ShellHolds, PTL

(* resolve() and reject() are called once per exec: neither late markers   *)
(* nor a time-out touch a promise that is settled.                         *)
THEOREM SettledOnce == Spec => AnsweredOnce
<1>. DEFINE Kept == \A c \in Commands : answer[c] # "none" => answer'[c] = answer[c]
<1>1. ShellInv /\ [Next]_vars => [Kept]_vars
  BY ShellStep
<1>. QED
  BY <1>1, ShellHolds, PTL DEF Spec, AnsweredOnce

-----------------------------------------------------------------------------
(* Nothing of shell g is left to run or to be read.                        *)
Quiet(g) == stdin[g] = <<>> /\ stdout[g] = <<>>

(* How far the command of the pending promise has come: it is executing,   *)
(* its marker is in the pipe, or the marker was dropped by a handler that  *)
(* found the shell being replaced.                                         *)
CommandInv ==
  \/ Quiet(shell) /\ (Pending => terminating /\ status[cmd] \in ExitCodes)
  \/ /\ Pending /\ stdin[shell] = <<cmd>> /\ stdout[shell] = <<>>
     /\ status[cmd] = "executing"
  \/ /\ Pending /\ stdin[shell] = <<>> /\ stdout[shell] = <<status[cmd]>>
     /\ status[cmd] \in ExitCodes

(* As long as terminate has not failed, old shells are quiet, and markers  *)
(* are those of the command whose promise is stored.                       *)
ServerInv ==
  ~escaped =>
    /\ \A g \in Generations : g # shell => Quiet(g)
    /\ CommandInv
    /\ \A c \in Commands : status[c] = "unsent" <=> c > cmd

ServerStep == ~escaped' => (ServerInv' /\ (Server!Next \/ UNCHANGED <<status, answer>>))

LEMMA ServerExec ==
  ASSUME ShellInv, ServerInv, Exec
  PROVE  ServerStep
<1>. SUFFICES ASSUME ~escaped PROVE ServerInv' /\ Server!Next
  BY DEF Exec, ServerStep
<1>1. ~Pending /\ Quiet(shell)
  BY IdleOne DEF Exec, ServerInv, CommandInv
<1>2. /\ cmd' = cmd + 1 /\ cmd' \in Commands /\ cmd \in Nat /\ shell \in Generations
      /\ stdin \in [Generations -> Seq(Commands)]
      /\ status \in [Commands -> {"unsent", "executing", "killed"} \union ExitCodes]
  BY MaxExecsAssumption DEF Exec, ShellInv, TypeOK, Commands
<1>3. stdin'[shell] = <<cmd'>> /\ \A g \in Generations : g # shell => stdin'[g] = stdin[g]
  BY <1>1, <1>2 DEF Exec, Quiet
<1>4. status[cmd'] = "unsent"
  BY <1>2 DEF ServerInv
<1>5. status' = [status EXCEPT ![cmd'] = "executing"]
  <2>1. stdin'[shell] # <<>> /\ Head(stdin'[shell]) = cmd'
    BY <1>3
  <2>. QED
    BY <1>4, <2>1 DEF Exec, Started
<1>6. UNCHANGED <<shell, stdout, answer, escaped>>
  BY DEF Exec
<1>7. \A c \in Commands : status'[c] = "unsent" <=> c > cmd'
  BY <1>2, <1>5 DEF ServerInv, Commands
<1>8. Pending'
  BY <1>2, <1>6 DEF ShellInv, PromisesInv, Pending, Commands
<1>9. CommandInv'
  BY <1>1, <1>2, <1>3, <1>5, <1>6, <1>8 DEF CommandInv, Quiet
<1>10. ServerInv'
  BY <1>3, <1>6, <1>7, <1>9 DEF ServerInv, Quiet
<1>11. \A d \in Commands : ~Server!Awaited(d)
  <2>1. \A d \in Commands : answer[d] = "none" => d > cmd
    BY <1>1, <1>2 DEF ShellInv, PromisesInv, Pending, Commands
  <2>. QED
    BY <2>1 DEF Server!Awaited, ServerInv
<1>12. Server!Submit(cmd')
  BY <1>4, <1>5, <1>6, <1>11 DEF Server!Submit
<1>. QED
  BY <1>2, <1>10, <1>12 DEF Server!Next

(* Only the pending command can end, so its marker is the only one.        *)
LEMMA ServerRunsToEnd ==
  ASSUME ShellInv, ServerInv, NEW g \in Generations, RunsToEnd(g)
  PROVE  ServerStep
<1>. SUFFICES ASSUME ~escaped PROVE ServerInv' /\ Server!Next
  BY DEF RunsToEnd, ServerStep
<1>1. /\ g = shell /\ Pending /\ stdin[g] = <<cmd>> /\ stdout[g] = <<>>
      /\ status[cmd] = "executing"
  BY DEF RunsToEnd, ServerInv, CommandInv, Quiet
<1>2. cmd \in Commands
  BY <1>1, PendingOne
<1>3. PICK r \in ExitCodes :
        /\ status' = Started(stdin'[g], [status EXCEPT ![Head(stdin[g])] = r])
        /\ stdout' = IF Alive(g) THEN [stdout EXCEPT ![g] = Append(@, r)] ELSE stdout
  BY DEF RunsToEnd
<1>4. /\ stdin' = [stdin EXCEPT ![g] = Tail(@)]
      /\ UNCHANGED <<cmd, shell, answer, escaped, terminating>>
  BY DEF RunsToEnd
<1>5. stdin'[g] = <<>> /\ \A h \in Generations : h # g => stdin'[h] = stdin[h]
  BY <1>1, <1>4 DEF ShellInv, TypeOK
<1>6. status' = [status EXCEPT ![cmd] = r]
  BY <1>1, <1>3, <1>5 DEF Started
<1>7. stdout'[g] = <<r>> /\ \A h \in Generations : h # g => stdout'[h] = stdout[h]
  BY <1>1, <1>3 DEF ShellInv, TypeOK, Alive
<1>8. status'[cmd] = r /\ \A c \in Commands : c # cmd => status'[c] = status[c]
  BY <1>2, <1>6 DEF ShellInv, TypeOK
<1>9. r # "unsent" /\ r \in Server!ExitCodes
  BY DEF ExitCodes, Server!ExitCodes
<1>10. Pending'
  BY <1>1, <1>4 DEF Pending
<1>11. CommandInv'
  BY <1>1, <1>4, <1>5, <1>7, <1>8, <1>10 DEF CommandInv
<1>12. \A c \in Commands : status'[c] = "unsent" <=> c > cmd'
  BY <1>1, <1>4, <1>8, <1>9 DEF ServerInv
<1>13. ServerInv'
  BY <1>1, <1>4, <1>5, <1>7, <1>11, <1>12 DEF ServerInv, Quiet
<1>14. Server!Exit(cmd)
  BY <1>1, <1>4, <1>6, <1>9 DEF Server!Exit
<1>. QED
  BY <1>2, <1>13, <1>14 DEF Server!Next

(* A marker that is delivered settles the promise of its own command, or   *)
(* is dropped.                                                             *)
LEMMA ServerData ==
  ASSUME ShellInv, ServerInv, NEW g \in Generations, NEW n \in 1 .. Len(stdout[g]),
         Data(g, n)
  PROVE  ServerStep
<1>. SUFFICES ASSUME ~escaped
              PROVE  ServerInv' /\ (Server!Next \/ UNCHANGED <<status, answer>>)
  BY DEF Data, ServerStep
<1>1. stdout[g] # <<>>
  OBVIOUS
<1>2. /\ g = shell /\ Pending /\ stdin[g] = <<>> /\ stdout[g] = <<status[cmd]>>
      /\ status[cmd] \in ExitCodes
  BY <1>1 DEF ServerInv, CommandInv, Quiet
<1>3. n = 1 /\ stdout[g][n] = status[cmd] /\ Len(stdout[g]) = 1
  BY <1>2
<1>4. cmd \in Commands
  BY <1>2, PendingOne
<1>5. UNCHANGED <<initialized, terminating, shell, cmd, stdin, status, escaped>>
  BY DEF Data
<1>6. stdout'[g] = <<>> /\ \A h \in Generations : h # g => stdout'[h] = stdout[h]
  BY <1>2, <1>3 DEF Data, ShellInv, TypeOK
<1>7. Quiet(shell)' /\ \A h \in Generations : h # shell' => Quiet(h)'
  BY <1>2, <1>5, <1>6 DEF ServerInv, Quiet
<1>8. CASE ~running
  <2>1. answer' = answer /\ terminating /\ Pending'
    BY <1>2, <1>5, <1>8 DEF Data, ShellInv, FlagsInv, Pending
  <2>. QED
    BY <1>2, <1>5, <1>7, <2>1 DEF ServerInv, CommandInv
<1>9. CASE running
  <2>1. answer' = [answer EXCEPT ![cmd] = status[cmd]]
    BY <1>3, <1>9 DEF Data
  <2>2. ~Pending'
    BY <1>2, <1>4, <1>5, <2>1 DEF Pending, ShellInv, TypeOK, ExitCodes
  <2>3. ServerInv'
    BY <1>5, <1>7, <2>2 DEF ServerInv, CommandInv
  <2>4. Server!Reply(cmd)
    BY <1>2, <1>4, <1>5, <2>1 DEF Server!Reply, Server!Awaited, Pending, ExitCodes,
                               Server!ExitCodes
  <2>. QED
    BY <1>4, <2>3, <2>4 DEF Server!Next
<1>. QED
  BY <1>8, <1>9

LEMMA ServerTimerFires ==
  ASSUME ShellInv, ServerInv, TimerFires
  PROVE  ServerStep
<1>1. UNCHANGED <<cmd, shell, stdin, stdout, status, answer, escaped>> /\ terminating'
  BY DEF TimerFires
<1>. QED
  BY <1>1 DEF ServerStep, ServerInv, CommandInv, Quiet, Pending

(* A replaced shell leaves nothing behind.                                 *)
LEMMA ServerTerminated ==
  ASSUME ShellInv, ServerInv, Terminated
  PROVE  ServerStep
<1>. SUFFICES ASSUME ~escaped PROVE ServerInv' /\ Server!Next
  BY DEF Terminated, ServerStep
<1>1. /\ Pending /\ shell <= cmd
  BY DEF Terminated, ShellInv, FlagsInv, PromisesInv
<1>2. cmd \in Commands
  BY <1>1, PendingOne
<1>3. /\ cmd' = cmd /\ shell' = shell + 1 /\ UNCHANGED <<stdout, escaped>>
      /\ answer' = [answer EXCEPT ![cmd] = "killed"]
      /\ stdin' = [stdin EXCEPT ![shell] = <<>>]
      /\ stdout[shell] = <<>>
  BY DEF Terminated, Respawn
<1>4. shell' \in Generations /\ shell \in Generations /\ shell' # shell
  BY <1>1, <1>2, <1>3, MaxExecsAssumption DEF ShellInv, TypeOK, Generations, Commands
<1>5. \A g \in Generations : Quiet(g)'
  BY <1>3 DEF ServerInv, Quiet, ShellInv, TypeOK
<1>6. ~Pending'
  BY <1>2, <1>3 DEF Pending, ShellInv, TypeOK
<1>7. CommandInv'
  BY <1>4, <1>5, <1>6 DEF CommandInv
<1>8. status' = [status EXCEPT ![cmd] = IF @ = "executing" THEN "killed" ELSE @]
  <2>1. CASE stdin[shell] = <<>>
    <3>1. status[cmd] # "executing"
      BY <1>1, <2>1 DEF ServerInv, CommandInv, ExitCodes
    <3>. QED
      BY <2>1, <3>1 DEF Terminated, ShellInv, TypeOK
  <2>2. CASE stdin[shell] # <<>>
    <3>1. stdin[shell] = <<cmd>> /\ status[cmd] = "executing"
      BY <2>2 DEF ServerInv, CommandInv, Quiet
    <3>2. Head(stdin[shell]) = cmd
      BY <3>1
    <3>. QED
      BY <2>2, <3>1, <3>2 DEF Terminated
  <2>. QED
    BY <2>1, <2>2
<1>9. \A c \in Commands : status'[c] = "unsent" <=> c > cmd'
  BY <1>2, <1>3, <1>8 DEF ServerInv, ShellInv, TypeOK
<1>10. ServerInv'
  BY <1>5, <1>7, <1>9 DEF ServerInv
<1>11. Server!Kill(cmd)
  <2>1. Server!Awaited(cmd)
    BY <1>1, <1>2 DEF Server!Awaited, ServerInv, Pending, Commands
  <2>. QED
    BY <1>3, <1>8, <2>1 DEF Server!Kill
<1>. QED
  BY <1>2, <1>10, <1>11 DEF Server!Next

LEMMA ServerStepHolds ==
  ASSUME ShellInv, ServerInv, [Next]_vars
  PROVE  ServerInv' /\ (~escaped' => Server!Next \/ UNCHANGED <<status, answer>>)
<1>1. CASE Next
  <2>1. ServerStep
    <3>1. CASE TerminateFails
      BY <3>1 DEF TerminateFails, ServerStep
    <3>. QED
      BY <1>1, <3>1, ServerExec, ServerRunsToEnd, ServerData, ServerTimerFires,
         ServerTerminated DEF Next
  <2>. QED
    BY <2>1 DEF ServerStep, ServerInv
<1>2. CASE UNCHANGED vars
  BY <1>2 DEF vars, ServerInv, CommandInv, Quiet, Pending
<1>. QED
  BY <1>1, <1>2

(* Until terminate fails, each caller is told the fate of its own command  *)
(* and no command runs on when nobody waits for it: what shell.ts does is  *)
(* what CommandServer promises, for any number of commands.                *)
THEOREM Implementation == Spec => ImplementsServer
<1>1. Init => Server!Init /\ ServerInv
  <2>. SUFFICES ASSUME Init PROVE Server!Init /\ ServerInv
    OBVIOUS
  <2>1. Server!Init
    BY DEF Init, Server!Init
  <2>2. CommandInv /\ \A g \in Generations : Quiet(g)
    BY MaxExecsAssumption DEF Init, CommandInv, Quiet, Pending, Generations
  <2>3. \A c \in Commands : status[c] = "unsent" <=> c > cmd
    BY DEF Init, Commands
  <2>. QED
    BY <2>1, <2>2, <2>3 DEF ServerInv
<1>2. ShellInv /\ ServerInv /\ [Next]_vars => ServerInv'
  BY ServerStepHolds
<1>3. ShellInv /\ ServerInv /\ [Next]_vars
        => [~escaped' => Server!Next]_<<status, answer>>
  BY ServerStepHolds
<1>. QED
  BY <1>1, <1>2, <1>3, ShellHolds, PTL DEF Spec, ImplementsServer

=============================================================================
