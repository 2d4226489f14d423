----------------------------- MODULE MCRequests -----------------------------
(***************************************************************************)
(* Model checking of Judge, Contract, Saves and UniqueNames: what requests *)
(* make of the data they carry.  The four share nothing, so each behaviour *)
(* is one of the module in `focus`.  Problems and programs to be judged    *)
(* are those of MCJudge.  The bodies for Contract are at and around the    *)
(* limits; together they fill the row to the brim.                         *)
(***************************************************************************)
EXTENDS MCJudge, Contract, Saves, UniqueNames, TLC

VARIABLE focus

(* Where another module is in focus, the problem of Judge is any one.      *)
AnyProblem == CHOOSE pb \in MCProblems : TRUE
AnySolution == CHOOSE p \in MCSolutions(AnyProblem) : TRUE

Text(n, w) == [length |-> n, width |-> w]
Tests(n, l, s) == [count |-> n, longest |-> l, size |-> s]

Draft ==
  [title |-> Text(255, 4), testcases |-> Tests(1, 100, 1), solution |-> Text(100, 1),
   solutionLanguage |-> "C++17", difficulty |-> 1, score |-> 100]

MCBodies ==
  {Draft,
   [difficulty |-> 5] @@ Draft,
   [difficulty |-> 6] @@ Draft,
   [testcases |-> Tests(0, 0, 0)] @@ Draft,
   [title |-> Text(0, 1)] @@ Draft,
   [hint |-> Text(10, 1)] @@ Draft,
   [hint |-> Text(16383, 4), hintCost |-> 10] @@ Draft,
   [hintCost |-> -5],
   [testcases |-> Tests(64, 14 * Mi, 15)],
   [testcases |-> Tests(64, 16 * Mi, 17)],
   [testcases |-> Tests(65, 10, 1)],
   [testcases |-> Tests(60, 16 * Mi, 60), exampleTestcases |-> Tests(16, 16 * Mi, 36)],
   [exampleTestcases |-> Tests(16, 15 * Mi, 16)],
   [exampleTestcases |-> Tests(17, 10, 1)],
   [exampleTestcases |-> Tests(1, 16 * Mi + 1, 17)],
   [description |-> Text(16383, 4), input |-> Text(16383, 4), output |-> Text(16383, 3),
    starterCode |-> Text(32767, 2), solution |-> Text(32767, 2)],
   [description |-> Text(16384, 4)],
   [solution |-> Text(32767, 3)],
   [starterCode |-> Text(32768, 2)],
   [timeLimit |-> 5000, memoryLimit |-> 128 * Mi, allowedHeaders |-> Null,
    bannedFunctions |-> 20, optimizationLevel |-> "O3", solutionLanguage |-> "c17"],
   [timeLimit |-> 5001],
   [bannedFunctions |-> 70000],
   [bannedFunctions |-> Null],
   [optimizationLevel |-> "Os"],
   [optimizationLevel |-> Null],
   [score |-> Huge]}

MCPrograms ==
  {[code |-> Text(32767, w), language |-> l] : w \in {2, 3}, l \in {"C17", "pascal"}}

Sample ==
  [code |-> Text(256 * 1024, 1), language |-> "C++17", level |-> "ofast", time |-> 1000,
   memory |-> 32 * Mi, inputs |-> 16, longest |-> 16 * Mi, size |-> 95]

MCRuns ==
  {Sample, [Sample EXCEPT !.inputs = 17], [Sample EXCEPT !.size = 96],
   [Sample EXCEPT !.time = 5001], [Sample EXCEPT !.level = "OG", !.memory = 128 * Mi]}

Init ==
  /\ focus \in {"judge", "contract", "saves", "names"}
  /\ JudgeInit /\ ContractInit /\ SavesInit /\ NamesInit
  /\ focus # "judge" => problem = AnyProblem /\ solution = AnySolution
  /\ focus # "names" => ~countsFirst

Next ==
  /\ \/ focus = "judge" /\ JudgeNext /\ UNCHANGED <<contractVars, savesVars, namesVars>>
     \/ focus = "contract" /\ ContractNext /\ UNCHANGED <<judgeVars, savesVars, namesVars>>
     \/ focus = "saves" /\ SavesNext /\ UNCHANGED <<judgeVars, contractVars, namesVars>>
     \/ focus = "names" /\ NamesNext /\ UNCHANGED <<judgeVars, contractVars, savesVars>>
  /\ UNCHANGED focus

Spec == Init /\ [][Next]_<<judgeVars, contractVars, savesVars, namesVars, focus>>
=============================================================================
