--------------------------- MODULE CommandServer ---------------------------
(***************************************************************************)
(* What one persistent shell promises the executor that drives it          *)
(* (compiler/src/shell.ts): commands are handed over one at a time, a      *)
(* command runs only while its caller waits for it, and the caller is told *)
(* either the exit status of that very command or that it was killed.      *)
(*                                                                         *)
(* Shell.tla shows what the code does, and implements this specification   *)
(* until `terminate` fails for once to kill the shell's process tree.      *)
(***************************************************************************)
EXTENDS Naturals

CONSTANT Commands   \* the commands handed to the shell over time

VARIABLES
  status,   \* what the operating system knows of each command
  answer    \* what the caller of exec was told

vars == <<status, answer>>

ExitCodes == {"zero", "nonzero"}
Statuses == {"unsent", "executing", "killed"} \union ExitCodes
Answers == {"none", "killed"} \union ExitCodes

Awaited(c) == status[c] # "unsent" /\ answer[c] = "none"

Init ==
  /\ status = [c \in Commands |-> "unsent"]
  /\ answer = [c \in Commands |-> "none"]

(* exec: a new command, while no other one is waited for.                  *)
Submit(c) ==
  /\ status[c] = "unsent"
  /\ \A d \in Commands : ~Awaited(d)
  /\ status' = [status EXCEPT ![c] = "executing"]
  /\ UNCHANGED answer

(* The command ends by itself, with its exit status.                       *)
Exit(c) ==
  /\ status[c] = "executing"
  /\ \E r \in ExitCodes : status' = [status EXCEPT ![c] = r]
  /\ UNCHANGED answer

(* The promise of exec is settled with the command's own exit status.      *)
Reply(c) ==
  /\ Awaited(c)
  /\ status[c] \in ExitCodes
  /\ answer' = [answer EXCEPT ![c] = status[c]]
  /\ UNCHANGED status

(* The time limit passed: whatever was still running is dead by the time   *)
(* the caller hears of it.                                                 *)
Kill(c) ==
  /\ Awaited(c)
  /\ answer' = [answer EXCEPT ![c] = "killed"]
  /\ status' = [status EXCEPT ![c] = IF @ = "executing" THEN "killed" ELSE @]

Next == \E c \in Commands : Submit(c) \/ Exit(c) \/ Reply(c) \/ Kill(c)

Spec == Init /\ [][Next]_vars

=============================================================================
