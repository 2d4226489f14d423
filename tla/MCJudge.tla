------------------------------ MODULE MCJudge ------------------------------
(* Problems and programs for the model checking of Judge, by MCRequests.    *)
(* Problems of two kinds: "texts", one test with any short expected text    *)
(* and a solution that prints any short text, to exercise the comparison;   *)
(* and "runs", an example and a hidden test, and programs of all fates,     *)
(* with a memory limit far above the margin of 2 MB or below it.            *)
EXTENDS Judge

Chars == {"a", "sp", "cr", "lf"}
ShortTexts == SeqOf(Chars, 3)

Run(fate, detail, time, rss, lost, text) ==
  [fate |-> fate, detail |-> detail, time |-> time, rss |-> rss, lost |-> lost, text |-> text]
Good(text) == Run("exit", 0, 500, 1500, "nothing", text)
Program(lines, foreign, fault, runs) ==
  [lines |-> lines, foreign |-> foreign, fault |-> fault, runs |-> runs]

TextProblems ==
  [bans : {FALSE}, restricted : {FALSE}, memory : {33554432}, examples : {0}, expected : {<<t>> : t \in SeqOf(Chars, 4)}]
TextSolutions == {Program(<<"other">>, FALSE, "none", <<Good(t)>>) : t \in ShortTexts}

Line == <<"a">>
RuleProblems ==
  [bans : BOOLEAN, restricted : BOOLEAN, memory : {33554432}, examples : {1},
   expected : {<<Line, <<"a", "a">> >>}]
SmallProblem ==
  [bans |-> FALSE, restricted |-> FALSE, memory |-> 1200, examples |-> 1,
   expected |-> <<Line, <<"a", "a">> >>]

(* The second run of a program: all fates, at and around the limits.       *)
JudgedRuns ==
  {Run("exit", d, time, 1500, lost, text) :
     d \in {0, 1}, time \in {1000, 1001}, lost \in {"nothing", "output"},
     text \in {Line, <<"a", "a", "lf">>}}
  \union {Run("exit", d, 1000, 1500, "metadata", <<"a", "a">>) : d \in {0, 1}}
  \union {Run("signal", sig, 10, rss, lost, <<"a", "a">>) :
            sig \in {11, 25, 9}, rss \in {1500, 31000}, lost \in {"nothing", "metadata"}}
  \union {Run(fate, 0, 1002, 1500, lost, <<"a", "a">>) :
            fate \in {"timeout", "internal"}, lost \in {"nothing", "metadata"}}

Sources == {<<"other">>, <<"call">>, <<"include", "other">>, <<"include", "call">>,
            <<"other", "include">>, <<"call", "include">>, <<"undef", "call">>, <<"other", "undef">>,
            <<"maskedUndef", "include", "call">>, <<"call", "maskedUndef">>, <<"maskedCall">>}

SourcePrograms ==
  {Program(lines, foreign, fault, <<Good(Line), Good(<<"a", "a">>)>>) :
     lines \in Sources, foreign \in BOOLEAN,
     fault \in {"none", "syntax", "memory", "size", "timeout"}}
RunPrograms ==
  {Program(<<"other">>, FALSE, "none", <<Good(Line), run>>) : run \in JudgedRuns}
  \union {Program(<<"other">>, FALSE, "none", <<run, Good(<<"a", "a">>)>>) : run \in JudgedRuns}

MCProblems == TextProblems \union RuleProblems \union {SmallProblem}
MCSolutions(pb) ==
  CASE pb.examples = 0 -> TextSolutions
    [] pb = SmallProblem -> RunPrograms
    [] pb.bans \/ pb.restricted -> SourcePrograms
    [] OTHER -> SourcePrograms \union RunPrograms

(* Every program is the solution of some initial state and is submitted as  *)
(* such; one other that fails is enough for mixed histories.                *)
MCSubmissions(pb) ==
  IF pb.examples = 0 THEN {}
  ELSE {Program(<<"other">>, FALSE, "none", <<Good(Line), Good(Line)>>)}

(* What gets lost of the compilation has nothing to do with texts.          *)
MCLostReports(pb) == IF pb.examples = 0 THEN {"nothing"} ELSE Losses

(* One kind of problem is enough for the lists.                             *)
MCFilters(pb) ==
  IF pb = SmallProblem THEN {"Solved", "Attempted", "Unattempted"} ELSE {}
=============================================================================
