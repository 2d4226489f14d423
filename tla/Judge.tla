------------------------------- MODULE Judge -------------------------------
(***************************************************************************)
(* How a program is judged: the part of compileAndRun in                   *)
(* compiler/src/app.service.ts that decides (which result code?), and its  *)
(* two callers in api/src, create()/runTestcases() for submissions and     *)
(* verifyTestcases() for the author's own solution.                        *)
(*                                                                         *)
(* A call works on one snapshot of the problem (entities are per request), *)
(* so calls do not disturb each other here; what overlapping requests do   *)
(* to the problem itself is the subject of ProblemWorkflow.                *)
(*                                                                         *)
(* A program is given by what it is and does: its source lines, whether it *)
(* includes a foreign header, what the compiler finds wrong with it, and   *)
(* how it behaves on each test.  The code under test sees none of that: it *)
(* sees what gcc and isolate (external) report.                            *)
(***************************************************************************)
EXTENDS Integers, Sequences, SequencesExt

CONSTANTS
  Problems,        \* [bans, restricted, memory, examples, expected]: functions are
                   \* banned, headers are restricted, the memory limit in bytes,
                   \* how many tests are examples, and the expected text of every
                   \* test, examples first
  Solutions(_),    \* the programs the author of a problem may have written
  Submissions(_),  \* the programs its solvers may submit, besides that one
  Filters(_),      \* the completion statuses for which users list problems
  LostReports(_),  \* what may get lost of the report of a compilation
  TimeLimit,       \* in ms
  MaxSubmissions   \* bounds the length of a behaviour

(* What isolate reports of a run or a compilation, and what of it may be   *)
(* lost: each of two files that cannot be read is only logged.             *)
Losses == {"nothing", "output", "metadata"}
Fates == {"exit", "signal", "timeout", "internal"}
RunsOfPrograms ==
  [fate : Fates, detail : Nat, time : Nat, rss : Nat,
   lost : Losses, text : Seq(STRING)]

(* Source lines.  "undef" and "call" (of the banned function) are written  *)
(* plainly; the masked ones do the same for gcc, but behind a comment or   *)
(* with parentheses around the name, so that neither the pattern of        *)
(* hoistIncludes() nor a macro with arguments matches.                     *)
Lines == {"include", "undef", "maskedUndef", "call", "maskedCall", "other"}
Faults == {"none", "syntax", "memory", "size", "timeout"}
Statuses == {"Unattempted", "Attempted", "Solved"}

(* The examples are the first of the tests, at least one test is hidden    *)
(* (create-problem.dto.ts), and a program is run on each test once.        *)
ASSUME ProblemsAssumption ==
  \A pb \in Problems :
    /\ pb.expected \in Seq(Seq(STRING))
    /\ pb.examples \in 0 .. Len(pb.expected) - 1
    /\ pb.memory \in Nat
    /\ \A p \in Solutions(pb) \union Submissions(pb) :
         /\ p.lines \in Seq(Lines) /\ p.fault \in Faults
         /\ p.runs \in Seq(RunsOfPrograms) /\ Len(p.runs) = Len(pb.expected)
    /\ Filters(pb) \subseteq Statuses
    /\ LostReports(pb) \subseteq Losses
ASSUME LimitsAssumption == TimeLimit \in Nat

VARIABLES
  problem, solution,
  call,         \* the request under way: [kind, program], or NoCall
  response,     \* what the compiler service has answered, or Unanswered
  verified,     \* verifyTestcases() has accepted the solution
  judged,       \* history: the last submission, with its output codes, and
                \* what was lost of the report of its compilation
  submissions,  \* the submissions of one user for the problem: accepted or not
  listing,      \* his list of problems under way: what findAll() has read
  listed        \* history: what the last list has said of the problem

lists == <<listing, listed>>
judgeVars == <<problem, solution, call, response, verified, judged, submissions, lists>>

NoCall == [kind |-> "idle"]
Unanswered == [code |-> "waiting"]
Nothing == [codes |-> <<>>]
NoList == [filter |-> "none"]

CompileCodes == {"DNA", "HNA", "FNA", "CE", "CMLE", "COLE", "CTLE", "IE"}
RunCodes == {"none", "RE", "MLE", "OLE", "TLE", "IE"}
OutputCodes == CompileCodes \union (RunCodes \ {"none"}) \union {"AC", "WA"}

TypeOK ==
  /\ problem \in Problems
  /\ solution \in Solutions(problem)
  /\ call.kind \in {"idle", "verify", "submit"}
  /\ response.code \in CompileCodes \union {"waiting", "none"}
  /\ verified \in BOOLEAN
  /\ judged.codes \in Seq(OutputCodes)
  /\ submissions \in Seq(BOOLEAN)
  /\ {listing.filter, listed.filter} \subseteq Statuses \union {"none"}

-----------------------------------------------------------------------------
(* The elements of a sequence at the given positions, in order.            *)
Rank(positions, i) == Cardinality({q \in positions : q <= i})
Pick(s, positions) ==
  [n \in 1 .. Cardinality(positions) |-> s[CHOOSE p \in positions : Rank(positions, p) = n]]

(* Texts are sequences of visible characters, "sp", "cr" and "lf".  Every  *)
(* one of CR LF, CR and LF becomes LF.                                     *)
Seconds(t) == {i \in DOMAIN t : t[i] = "lf" /\ i > 1 /\ t[i - 1] = "cr"}
UnixLines(t) ==
  LET s == Pick(t, DOMAIN t \ Seconds(t))
  IN [i \in DOMAIN s |-> IF s[i] = "cr" THEN "lf" ELSE s[i]]

(* Spaces before a line end.                                               *)
Trailing(t) ==
  {i \in DOMAIN t : \E e \in i + 1 .. Len(t) :
                      t[e] = "lf" /\ \A k \in i .. e - 1 : t[k] = "sp"}

normalizeEndOfLine(t) ==
  LET s == UnixLines(t) IN Pick(s, DOMAIN s \ Trailing(s))

trimEnd(t, chars) == Pick(t, {i \in DOMAIN t : \E k \in i .. Len(t) : t[k] \notin chars})

\* Mutant of normalizeOutput: line ends are trimmed, but not unified.
normalizeOutputNoUnix(t) == trimEnd(Pick(t, DOMAIN t \ Trailing(t)), {"lf", "sp"})

normalizeOutput(t) == trimEnd(normalizeEndOfLine(t), {"lf", "sp"})

compareOutput(output, expected) == normalizeOutput(output) = normalizeOutput(expected)

-----------------------------------------------------------------------------
(* hoistIncludes() moves the includes to the top, so that the header that  *)
(* declares the banned function is not hit by the macro.                   *)
Includes(lines) == {i \in DOMAIN lines : lines[i] = "include"}
hoistIncludes(lines) ==
  Pick(lines, Includes(lines)) \o Pick(lines, DOMAIN lines \ Includes(lines))

(* addBannendFunctionAsserts(): the macro goes right behind the includes.  *)
addBannendFunctionAsserts(lines, insertAt) ==
  SubSeq(lines, 1, insertAt) \o <<"define">> \o SubSeq(lines, insertAt + 1, Len(lines))

PreparedLines(lines) ==
  addBannendFunctionAsserts(hoistIncludes(lines), Cardinality(Includes(lines)))

(* gcc (external): where the macro is defined, the assertion in it fails   *)
(* at every plain call, and at a declaration of the function in a header.  *)
AssertionFails(lines) ==
  \E d, c \in DOMAIN lines :
    /\ d < c /\ lines[d] = "define" /\ lines[c] \in {"call", "include"}
    /\ \A u \in d .. c : lines[u] \notin {"undef", "maskedUndef"}

(* What compileAndRun makes of the compilation, in the order of its        *)
(* returns and of the assignments to resultCode.  The headers, the failed  *)
(* assertion and two of the faults are read from the output, the time-out  *)
(* from the metadata; if those are lost, what is left is that gcc failed.  *)
CompilerCode(p, lost) ==
  CASE p.fault = "none" -> "none"
    [] p.fault = "timeout" /\ lost # "metadata" -> "CTLE"
    [] p.fault = "size" /\ lost # "output" -> "COLE"
    [] p.fault = "memory" /\ lost # "output" -> "CMLE"
    [] OTHER -> "CE"

CompilationCode(pb, p, lost) ==
  LET asserted == pb.bans /\ AssertionFails(PreparedLines(p.lines))
  IN IF pb.bans /\ Contains(p.lines, "undef") THEN "DNA"
     ELSE IF pb.restricted /\ p.foreign /\ lost # "output" THEN "HNA"
     ELSE IF asserted /\ lost # "output" THEN "FNA"
     ELSE IF asserted /\ p.fault = "none" THEN "CE"
     ELSE CompilerCode(p, lost)

-----------------------------------------------------------------------------
(* isolate (external).  A run has a fate: it ends by itself ("exit", with  *)
(* a status), is killed by a signal, is stopped at the time limit, or      *)
(* isolate itself fails.  Fields that are not in the metadata are 0, and   *)
(* so is all of it if the metadata file cannot be read.                    *)
Metadata(run) ==
  IF run.lost = "metadata"
  THEN [status |-> "", exitsig |-> 0, exitcode |-> 0, killed |-> FALSE, rss |-> 0, time |-> 0,
        hasExitcode |-> FALSE]
  ELSE [status |-> CASE run.fate = "timeout" -> "TO" [] run.fate = "signal" -> "SG"
                     [] run.fate = "internal" -> "XX" [] OTHER -> "",
        exitsig |-> IF run.fate = "signal" THEN run.detail ELSE 0,
        exitcode |-> IF run.fate = "exit" THEN run.detail ELSE 0,
        killed |-> run.fate = "timeout",
        rss |-> run.rss, time |-> run.time,
        hasExitcode |-> run.fate = "exit"]

(* The exit status of the isolate command, as the shell reports it.        *)
IsolateFails(run) == run.fate # "exit" \/ run.detail # 0

(* The end of execute(): the exit code, from the least to the most telling *)
(* of its sources.                                                         *)
exitCode(run) ==
  LET m == Metadata(run)
  IN CASE m.hasExitcode -> m.exitcode
       [] ~m.hasExitcode /\ m.exitsig # 0 -> m.exitsig
       [] ~m.hasExitcode /\ m.exitsig = 0 /\ (m.killed \/ IsolateFails(run)) -> 1
       [] OTHER -> 0

Output(run) == IF run.lost = "output" THEN <<>> ELSE run.text

(* max-rss is in KB.  90 % of the limit or 2 MB less than it.              *)
NearMemoryLimit(rss, memoryLimit) ==
  10 * rss * 1024 > 9 * memoryLimit \/ rss * 1024 > memoryLimit - 2 * 1024 * 1024

\* Mutant of processOutput: a failed run without metadata is taken for a success.
processOutputTrusting(run, memoryLimit) ==
  LET m == Metadata(run)
  IN IF m.time > TimeLimit THEN "TLE"
     ELSE IF m.rss > memoryLimit THEN "MLE"
     ELSE IF m.exitcode = 0 /\ m.exitsig = 0 /\ ~m.killed THEN "none"
     ELSE IF m.status = "XX" THEN "IE"
     ELSE IF m.status = "TO" THEN "TLE"
     ELSE IF m.exitsig = 25 THEN "OLE"
     ELSE IF m.exitsig \in {11, 127} /\ NearMemoryLimit(m.rss, memoryLimit) THEN "MLE"
     ELSE "RE"

(* processOutput(): the last assignment to resultCode comes first here.    *)
(* The second test compares KB with bytes, as the code does.               *)
processOutput(run, memoryLimit) ==
  LET m == Metadata(run)
  IN IF m.time > TimeLimit THEN "TLE"
     ELSE IF m.rss > memoryLimit THEN "MLE"
     ELSE IF exitCode(run) = 0 THEN "none"
     ELSE IF m.status = "XX" THEN "IE"
     ELSE IF m.status = "TO" THEN "TLE"
     ELSE IF m.exitsig = 25 THEN "OLE"
     ELSE IF m.exitsig \in {11, 127} /\ NearMemoryLimit(m.rss, memoryLimit) THEN "MLE"
     ELSE "RE"

-----------------------------------------------------------------------------
(* Which tests a call is about: verifyTestcases() sends the examples, too. *)
Part(kind, s) == IF kind = "verify" THEN s ELSE SubSeq(s, problem.examples + 1, Len(s))

\* Mutant of ExpectedOutputs: the answers of the hidden tests are looked up
\* among all tests.
ExpectedOutputsAll(kind) == problem.expected

ExpectedOutputs(kind) == Part(kind, problem.expected)

JudgeInit ==
  /\ problem \in Problems
  /\ solution \in Solutions(problem)
  /\ call = NoCall
  /\ response = Unanswered
  /\ verified = FALSE
  /\ judged = Nothing
  /\ submissions = <<>>
  /\ listing = NoList /\ listed = NoList

(* The author submits the problem for review ...                           *)
VerifySolution ==
  /\ call = NoCall
  /\ call' = [kind |-> "verify", program |-> solution]
  /\ UNCHANGED <<problem, solution, response, verified, judged, submissions, lists>>

(* ... and a user a program.                                               *)
SubmitProgram(p) ==
  /\ call = NoCall /\ Len(submissions) < MaxSubmissions
  /\ call' = [kind |-> "submit", program |-> p]
  /\ UNCHANGED <<problem, solution, response, verified, judged, submissions, lists>>

(* compileAndRun: a code for the whole, or an output for each input.  Each *)
(* call compiles anew, and may lose the report of the compilation.         *)
ServiceAnswers(lost) ==
  LET code == CompilationCode(problem, call.program, lost)
      runs == Part(call.kind, call.program.runs)
  IN /\ call # NoCall /\ response = Unanswered
     /\ response' =
          IF code # "none" THEN [code |-> code, lost |-> lost]
          ELSE [code |-> "none", lost |-> lost,
                outputs |-> [i \in DOMAIN runs |->
                  [code |-> processOutput(runs[i], problem.memory),
                   runtimeOutput |-> Output(runs[i])]]]
     /\ UNCHANGED <<problem, solution, call, verified, judged, submissions, lists>>

(* An exception in the service, an unreachable service or a time-out: the  *)
(* client turns all of them into IE.                                       *)
ServiceFails ==
  /\ call # NoCall /\ response = Unanswered
  /\ response' = [code |-> "IE", lost |-> "nothing"]
  /\ UNCHANGED <<problem, solution, call, verified, judged, submissions, lists>>

Answered(kind) == call.kind = kind /\ response # Unanswered
CallEnds == call' = NoCall /\ response' = Unanswered

(* verifyTestcases() returns, or throws (and nothing changes).             *)
VerifyEnds ==
  LET ok == /\ response.code = "none"
            /\ \A i \in DOMAIN ExpectedOutputs("verify") :
                 /\ response.outputs[i].code = "none"
                 /\ compareOutput(ExpectedOutputs("verify")[i],
                                  response.outputs[i].runtimeOutput)
  IN /\ Answered("verify") /\ CallEnds
     /\ verified' = (verified \/ ok)
     /\ UNCHANGED <<problem, solution, judged, submissions, lists>>

(* runTestcases(): one code per test of the problem.                       *)
runTestcases ==
  LET expected == ExpectedOutputs("submit")
      testcases == Part("submit", problem.expected)
  IN IF response.code # "none" THEN [i \in DOMAIN testcases |-> response.code]
     ELSE [i \in DOMAIN response.outputs |->
             IF response.outputs[i].code # "none" THEN response.outputs[i].code
             ELSE IF compareOutput(response.outputs[i].runtimeOutput, expected[i])
                  THEN "AC" ELSE "WA"]

(* create(): the submission is accepted if every code is AC, and stored.   *)
SubmitEnds ==
  LET accepted == \A i \in DOMAIN runTestcases : runTestcases[i] = "AC"
  IN /\ Answered("submit") /\ CallEnds
     /\ judged' = [program |-> call.program, codes |-> runTestcases,
                   lost |-> response.lost, served |-> response.code # "IE"]
     /\ submissions' = Append(submissions, accepted)
     /\ UNCHANGED <<problem, solution, verified, lists>>

-----------------------------------------------------------------------------
(* The two computations of a user's status for a problem: of findOne() ... *)
getCompletionStatusOne(subs) ==
  IF \E i \in DOMAIN subs : subs[i] THEN "Solved"
  ELSE IF subs # <<>> THEN "Attempted" ELSE "Unattempted"

\* Mutant of CompletionStep: a status that is known already is overwritten.
CompletionStepOverwrites(status, accepted) == IF accepted THEN "Solved" ELSE "Attempted"

CompletionStep(status, accepted) ==
  IF accepted THEN "Solved" ELSE IF status = "Unattempted" THEN "Attempted" ELSE status

(* ... and of findAll(), which goes through all submissions once.          *)
getCompletionStatuses(subs) == FoldLeft(CompletionStep, "Unattempted", subs)

(* The condition of findAll() on the submissions of a problem.             *)
Selects(filter, subs) ==
  CASE filter = "Solved" -> \E i \in DOMAIN subs : subs[i]
    [] filter = "Attempted" -> subs # <<>> /\ \A i \in DOMAIN subs : ~subs[i]
    [] filter = "Unattempted" -> subs = <<>>

(* findAll() computes the statuses of the user's problems first ...        *)
ListBegins(f) ==
  /\ listing = NoList
  /\ listing' = [filter |-> f, status |-> getCompletionStatuses(submissions),
                 stored |-> Len(submissions)]
  /\ UNCHANGED <<problem, solution, call, response, verified, judged, submissions, listed>>

(* ... and then selects the problems, by another query.                    *)
ListEnds ==
  /\ listing # NoList
  /\ listing' = NoList
  /\ listed' = [filter |-> listing.filter, status |-> listing.status,
                shown |-> Selects(listing.filter, submissions),
                alone |-> listing.stored = Len(submissions)]
  /\ UNCHANGED <<problem, solution, call, response, verified, judged, submissions>>

JudgeNext ==
  \/ VerifySolution
  \/ \E p \in Submissions(problem) \union {solution} : SubmitProgram(p)
  \/ \E lost \in LostReports(problem) : ServiceAnswers(lost)
  \/ ServiceFails
  \/ VerifyEnds \/ SubmitEnds
  \/ \E f \in Filters(problem) : ListBegins(f)
  \/ ListEnds

JudgeSpec == JudgeInit /\ [][JudgeNext]_judgeVars

-----------------------------------------------------------------------------
(* What a text shows: which character stands in which row and column.      *)
LineEnds(t) ==
  {i \in DOMAIN t : t[i] = "lf" \/ (t[i] = "cr" /\ ~(i < Len(t) /\ t[i + 1] = "lf"))}
Before(t, i) == {e \in LineEnds(t) : e < i}
Visible(t) == {i \in DOMAIN t : t[i] \notin {"sp", "cr", "lf"}}
Place(t, i) == <<Cardinality(Before(t, i)), i - Max(Before(t, i) \union {0})>>
Rendered(t) == {<<Place(t, i), t[i]>> : i \in Visible(t)}

(* What of the rules of the problem the service can see broken: an undef   *)
(* or a call that is written plainly, the latter unless a masked undef     *)
(* precedes it, and a foreign header if the output of gcc could be read.   *)
CalledOpenly(lines) ==
  \E c \in DOMAIN lines :
    lines[c] = "call" /\ \A u \in 1 .. c - 1 : lines[u] # "maskedUndef"

CaughtAt(p, lost) ==
  \/ problem.bans /\ (Contains(p.lines, "undef") \/ CalledOpenly(p.lines))
  \/ problem.restricted /\ p.foreign /\ lost # "output"

(* What the tests ask for.                                                 *)
EndsWell(run) ==
  /\ run.fate = "exit" /\ run.detail = 0
  /\ run.lost = "metadata" \/ run.time <= TimeLimit

Passes(run, expected) == EndsWell(run) /\ Rendered(Output(run)) = Rendered(expected)

WithinMemory(run) == run.rss * 1024 <= problem.memory

Hidden == problem.examples + 1 .. Len(problem.expected)

(* An accepted submission compiled, was not caught breaking the rules of   *)
(* the problem, wherever its includes stood, and on every hidden test      *)
(* ended well, in time and with a text that looks like the expected one,   *)
(* whatever its line ends, trailing spaces and final newlines.             *)
(* And every such program that stays within its memory is accepted, unless *)
(* the compiler service fails, which accepts nothing.                      *)
AcceptedMeansPassed ==
  judged # Nothing =>
    LET accepted == \A i \in DOMAIN judged.codes : judged.codes[i] = "AC"
        p == judged.program
        entitled == /\ judged.served /\ p.fault = "none" /\ ~CaughtAt(p, judged.lost)
                    /\ \A i \in Hidden : Passes(p.runs[i], problem.expected[i])
    IN /\ accepted => entitled
       /\ entitled /\ (\A i \in Hidden : WithinMemory(p.runs[i])) => accepted

NamesCause(code, run) ==
  CASE code \in {"AC", "WA"} -> EndsWell(run)
    [] code = "TLE" -> run.fate = "timeout" \/ run.time > TimeLimit
    [] code = "OLE" -> run.fate = "signal" /\ run.detail = 25
    [] code = "MLE" -> \/ ~WithinMemory(run)
                       \/ /\ run.fate = "signal"
                          /\ problem.memory >= 4 * 1024 * 1024 =>
                               run.rss * 1024 * 2 > problem.memory
    [] code = "IE" -> run.fate = "internal"
    [] code = "RE" -> \/ run.fate = "exit" /\ run.detail # 0
                      \/ run.fate = "signal"
                      \/ run.lost = "metadata" /\ run.fate # "exit"
    [] OTHER -> FALSE

(* Every code of a program that was run stands at its own test and names   *)
(* what happened there, even if isolate's report of the run was lost.      *)
(* MLE stands for a run above the limit or for one that was killed near    *)
(* it; "near" means something only for limits that exceed the margin of    *)
(* 2 MB, so at 4 MB or more that it used half of the memory at least.      *)
CodesNameCause ==
  judged # Nothing /\ judged.served /\ CompilationCode(problem, judged.program, judged.lost) = "none"
    => /\ Len(judged.codes) = Len(problem.expected) - problem.examples
       /\ \A i \in DOMAIN judged.codes :
            NamesCause(judged.codes[i], judged.program.runs[problem.examples + i])

(* The author's solution, once verified, is an accepted submission, unless *)
(* the compiler service fails: the two callers agree about the tests, the  *)
(* order of their outputs and the comparison, and what was lost of either  *)
(* compilation makes no difference.  The exception is a header that is not *)
(* allowed, which may have been missed when the solution was verified.     *)
VerifiedIsAccepted ==
  verified /\ (problem.restricted => ~solution.foreign)
    /\ judged # Nothing /\ judged.program = solution /\ judged.served
    => \A i \in DOMAIN judged.codes : judged.codes[i] = "AC"

Progress == [Unattempted |-> 0, Attempted |-> 1, Solved |-> 2]

(* A single problem, the list of problems and the filter of the list agree *)
(* about the status.  If a submission is stored while the list is made, a  *)
(* problem may be listed under a filter with the status it had before, but *)
(* never with one that is ahead of the filter.                             *)
CompletionAgrees ==
  /\ getCompletionStatuses(submissions) = getCompletionStatusOne(submissions)
  /\ listed # NoList =>
       /\ listed.alone => (listed.shown <=> listed.status = listed.filter)
       /\ listed.shown => Progress[listed.status] <= Progress[listed.filter]

=============================================================================
