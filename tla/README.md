# CE Boostup XII backend: a verification project

TLA+ models of the judge backend in this repository: the **compiler** service,
which compiles and runs submitted programs in `isolate` sandboxes, and the
**API** server, which keeps problems, submissions, users and their scores in
MariaDB. TLC checks the models on small instances, TLAPS proves the most
important facts for all instances. `PROJECT.json` maps every definition to the
lines it models and lists runs, hazards and theorems.

## 1. The system

| Component | State it keeps | Operations | What makes it correct |
|---|---|---|---|
| Shell (`compiler/src/shell.ts`) | one child `/bin/sh`, flags `running`/`initialized`, the pending promise, a timer | `exec`, stdout handler, time-out with `terminate`, respawn | each exec is answered once and with its own result; the shell is ready when the caller is told |
| Executor (`compiler/src/executor.ts`) | semaphore, stack of free boxes, one shell per box, box directories and metadata files on disk | `execute`, `getBoxesStatus` | a box serves one job at a time, is always given back, leaks nothing between jobs; older requests go first |
| compileAndRun (`compiler/src/app.service.ts`) | `requestId`, executables on disk | one request: compile, then all inputs in parallel, then unlink | outputs come from the request's own code; every request is answered; nothing stays behind |
| Problems (`api/src/problems`) | problem row: content, status, reviewer, unlocked hints | create, update (edit, move, unlock hint), remove, queries | the approval flow; only checked and reviewed content is published |
| Submissions (`api/src/submissions`) | submission rows | create (judge), queries | accepted means every testcase passed |
| Users (`api/src/users`), Groups | user row with score offset, mail stamp, password hash; avatars on disk | create, update, updateInternal, remove, validatePassword | a hint costs what it says; scores are sums over published problems |
| Auth and mail (`api/src/auth`, `api/src/mail`) | signed tokens (kept by their receivers), `lastEmailRequestedAt` | login, request/complete account creation and password reset | one mail per cooldown; an account is created once |
| Attachments (`api/src/attachments`) | rows and files | create, remove, queries | every row has its file |
| Saves (`api/src/saves`) | rows with a time stamp, many per user and problem | create, update, remove, queries | the user gets back what he saved last |
| Problem tags, groups, users: names | one column each, with a unique index | create, update, remove | no two rows of one name; who asks for a name in use is told so |
| DTOs, constants, columns (`api/src/problems/dto`, `entities`, `config` of both services) | the row of a problem; nothing else | validation of bodies, defaults, the statement, the request to the compiler | what passes the API's validation fits the columns and passes that of the compiler service |
| Compiler client (`api/src/compiler`) | none | POST, any error becomes verdict IE | every request is answered within 150 s |

Interaction: a controller of the API calls its service; services read rows into
objects of an ORM context that belongs to one request and write the changed
columns at `flush`. `SubmissionsService` and `ProblemsService` await the
compiler service over HTTP. There `AppService` calls `Executor.execute`, once
for the compilation and once per input; `Executor` awaits a permit, then drives
the shell of its box; `Shell` settles its promise from an event listener or a
timer.

Hard behaviour: awaits between reading and using shared state (boxes, rows);
time-outs that race with late output; processes that outlive their time-out;
`Promise.all` that throws while its siblings run on; clean-up steps whose
failure is only logged; crashes that leave files behind while `requestId`
starts again; two database writes of one request with a failure in between.
Section "hazards" of `PROJECT.json` lists each at its line with the properties
that watch it.

## 2. Modules

| Module | Models | Depends on |
|---|---|---|
| `CommandServer` | what a shell promises its executor (abstract) | |
| `Shell`, `MCShell` | `shell.ts` | implements `CommandServer` |
| `ShellProofs` | theorems about `Shell` | |
| `PrioritySemaphore` | `Semaphore` of `async-mutex`, external | |
| `BoxPool` | what `execute()` promises its callers (abstract) | `PrioritySemaphore` |
| `Executor`, `MCExecutor` | `executor.ts` | `PrioritySemaphore`; implements `BoxPool` |
| `ExecutorProofs` | theorems about `Executor` | |
| `CompileAndRun`, `MCCompileAndRun` | `compileAndRun` of `app.service.ts` | composed with `BoxPool` |
| `CompileAndRunProofs` | theorems about `CompileAndRun` and `Judge` | |
| `ProblemWorkflow`, `MCProblemWorkflow` | `problems.service.ts`: create, update, remove, verifyTestcases | |
| `ProblemProofs` | theorems about `ProblemWorkflow` | |
| `Judge`, `MCJudge` | the verdict in `app.service.ts`, `submissions.service.ts` create/runTestcases, `verifyTestcases`, `compare-output.ts`, completion statuses | |
| `Accounts`, `MCAccounts` | `auth.service.ts`, `mail.service.ts` and what they call in `users.service.ts` | |
| `AccountsProofs` | theorems about `Accounts` | |
| `Scores`, `MCScores` | unlockHint of `problems.service.ts`, score formulas of `user.entity.ts` and `group.entity.ts` | |
| `ScoresProofs` | theorems about `Scores` | |
| `FileStore`, `MCFileStore` | files and rows of attachments and of the avatars of users and groups | |
| `FileStoreProofs` | theorems about `FileStore` | |
| `Contract` | DTOs, constants and columns of problems; requests to the compiler service | |
| `Saves` | `saves.service.ts` | |
| `UniqueNames` | names in `problem-tags.service.ts`, `groups.service.ts`, `users.service.ts` | |
| `RecordsProofs` | theorems about these three | |
| `MCRequests` | the run of `Judge`, `Contract`, `Saves` and `UniqueNames` | |

### Shell
Every respawn begins a new *generation*; listeners of old generations stay
attached to the object, as in the code. `stdin[g]` holds the commands a shell
was given, `stdout[g]` the markers in its pipe. `Exec`, `Data`, `TimerFires`,
`Terminated`/`TerminateFails` (the two outcomes of the await in `timeout()`)
correspond to the method, the stdout handler and the halves of `timeout()`.
The two exceptions of `exec` have no action: `ReadyWhenAnswered` says a caller
who waits for each answer never meets them. The executor is such a caller.

The container image has no `ps`, on which `terminate` relies, so its failure is not
far-fetched; in every run it may fail each time. The history variable `escaped`
remembers that it has. Until then `Shell` implements `CommandServer`
(`ImplementsServer`). Afterwards a marker of the killed command may arrive while
the next command is current and answer it; what is left then is `ReadyWhenAnswered`,
`AnsweredOnce` and `EveryExecAnswered`, which are checked whether it has failed or not.

### Executor
`pc[j]` is the await job `j` is at; one action per outcome of each await.
`content[b]` and `metadata[b]` say whose files are in a box and whose metadata
file lies beside it, `seen[j]` whose data went into the result of `j`, `stuck[b]`
which isolate process outlived its time-out in `b`. `Unkillable` names the jobs
whose process may do that.

The service may crash at any moment and be started again. As nothing of a process
but its files and children survives it, a behaviour is the life of *one* process, and
`Init` is what former ones may have left in the boxes `LeftBoxes`: files, metadata
files, and isolate processes that still run, in any combination. What was left in box
`b` is called `b` (`Sources`). Under `docker-compose.yaml` boxes and storage are
tmpfs and only the restart of the service inside its container leaves anything; run
directly on a host, every crash may.

Assumed of `isolate`: it refuses to init, run or clean up a box in which one of its
processes lives, it empties the box on init, and its metadata file is opened when the
run starts. Of the file system: unlinking the metadata file fails only if it is not
there. The branch "box currently in use, this should not happen" and the exception
"Failed to acquire isolate box" have no action; `NeverInUse` and `GrantHasBox`
say why. The model takes the answer of a shell command for its own answer,
which is what `ImplementsServer` gives; with a desynchronised shell (above)
"should not happen" can happen.

`OwnResult` says what isolation is worth: a result holds nothing of another job. A
run that fails before isolate writes its metadata can report what a former process
left in that box, but one job per box at most, since it unlinks what it has read.

### CompileAndRun
A job is `<<request, n>>`, `n = 0` the compilation. `AcquireAll` is the fan-out:
`execute()` is called for all inputs in one turn of the event loop. `CopyOut` and
`CopyIn` are the pool's steps that touch the storage of executables, `JobStep`
the others. `RunsReturn`/`RunsFail` are the two ways `Promise.all` settles. `Crash`
keeps the storage and loses everything else; what it leaves in the boxes is the
business of `Executor`. The module is composed with `BoxPool` instead of `Executor`,
which `Executor` implements (theorem `Implementation`). `FindsExecutable` is about
the `finally` block: jobs left over by an answered request, and runs that find their
executable gone, belong to requests that were answered with an error.
`swallowed` marks the request whose executable could not be copied out, which is only
logged; it is then that a leftover of a crashed process with the same number can be run.
Assumed: unlink fails only if the file is not there.

### ProblemWorkflow
`row` is the database row, `seen`/`entity` the loaded object and its changed
state in each request under way. `Receive` loads and passes the `switch` over
the status, `Verified` is the answer of the compiler, `Flush` writes the columns
that differ from what was loaded. `Slots` is the number of requests that may
overlap, `overlapped` remembers whether two ever did. Requests with `unlockHint`
are excluded; the query at the end of `update()` only reads. `standing` says that an
approval was written since the problem last became a draft, `crossed` that it became
one while another request was under way. `DocumentedMoves` is the list of README.md,
not that of the code, with which it disagrees (run `problem_flow`).

### Judge
The pure part of judging, as operators named after the functions, and a small
machine around them: `VerifySolution`/`SubmitProgram` send a program to the compiler service,
`ServiceAnswers`/`ServiceFails` are its answer and the client's `IE`,
`VerifyEnds`/`SubmitEnds` the rest of the two callers. Texts are sequences of
letters, spaces, CR and LF; source lines are one of six kinds, among them an `undef` and a
call that do what the plain ones do but are written so that the code does not find them; a
run is given by its fate (`exit`, `signal`, `timeout`, `internal`), time, memory, text, and by
what gets lost of isolate's report. Of the report of a compilation, too, the output or the
metadata may be lost, at each call anew (`LostReports`): headers, failed assertions and two
of the faults are then not seen. `AcceptedMeansPassed` compares the code's
answer with a definition that shares nothing with it: texts are equal if the same
visible characters stand in the same rows and columns. `ListBegins` and `ListEnds` are the two
queries of `findAll`, between which a submission may be stored. gcc and isolate are
external: the compiler finds at most one fault, the failing assertion is reported
before any other, and a metadata field that is not written reads as absent.

### Accounts
One account. `pc[s]` is the await of request `s`: signing and stamping, mailing,
hashing. `live` counts valid mailed tokens by type, remaining life, and whether
the request was *overtaken*: another one wrote `lastEmailRequestedAt` between its
load and its stamp. Time is kept as ages up to `Cooldown`. `password` is the
one the stored hash fits, `legacy` says that its parameters are outdated, `given` what a
request has set out to hash: an old password that comes back is visible. `Aborts` ends a request
at any await. The site origin check and unknown addresses refuse a request before
anything happens and have no action.

### Scores
`totalScore` and `groupTotalScore` are the SQL formulas of the entities. A request
with `unlockHint` goes through `Load` (problem, then user with total and offset in
one query), `Check` (the collection is read, the exceptions), `Charge`
(`updateInternal` writes the offset it computed from what it loaded) and `Link` (the
row of `user_unlocked_hints`); `LinkRefused` and `Fails` are its other ends.
`ShowsHint` is the decision of `findOne` for those who are neither author nor
reviewer. The rest of `update()` is `Reprice`, `Publish` and `Withdraw`. Scores of
problems and groups of users are fixed: the formulas read nothing but their current
values. Deleting a problem acts on scores like withdrawing it. Prices are any integers
(`Costs`), as a PATCH with the price alone is not validated. The histories `spent` and
`credited` add up what prices above and below 0 have done to a user, `charges` counts for
each hint the requests that charged a price other than 0 and did not fail, `gratis` has the
hints that were unlocked when they cost nothing.

### FileStore
`disk` is the set of files, `row[x]` the file the row of `x` names (or `Unused`: not
created, `Removed`, `NoFile`: no avatar). `pc[s]` is the await of request `s`:
`storing` (multer has written the upload, the row is not there), `unlinking`,
`removing` (the flush nobody awaits, after the answer), `replacing` (unlink of the old
avatar), `writing`, `flushing`. `seen` and `new` are the loaded and the new file name.
`Flush` writes only if the name differs from what was loaded. Creation and removal of an
owner are single steps as they touch no file, except a group created with an avatar; the
file of a removed owner stays, as does that of a refused upload, so that `NoFileLeftBehind`
is about avatars of owners that exist.
`interrupted` names objects with a request cut off between disk and database, `worst`
counts how many changes of one avatar followed each other without a pause:
`NamedFileExists` allows for two, with three a row can name a file that is gone. The pictures
are not told apart; refusals before the first access to the disk have no action.

### Contract
The way of a problem from the body of a request through the validation of the API
into the columns, and from there into the request to the compiler service, which
validates again with constants of its own. `Transformed`, `AcceptsCreate`, `AcceptsUpdate`
are the DTO, `Created` the defaults, `Fits` and `Storable` the columns and the packet,
`Request` what `verifyTestcases` and `runTestcases` send, `Accepts` the DTO of
`compile-and-run`. `Outcome` lists the checks in their order. Texts are a length and
the widest letter in bytes, lists a count, the longest text and a size. External: the
column sizes, `max_allowed_packet` (its default) and how MikroORM computes changes.

### Saves
The rows of one user for one problem. A create and an update are two steps each: what
is taken when the request runs (the time, what has changed) and the statement. `Found` is
the set of rows `findForProblem` may give, as times are whole seconds. `later` remembers
which row was written after which. As the time is taken before the row is written, requests
that overlap may leave the row written last with the earlier time; `LatestFound` is about
those that do not.

### UniqueNames
The count and the statement of `create` and `update` of tags, groups and users (where the
name is the e-mail address). `countsFirst` tells users, whose `update` counts, from
the others. `beaten` remembers that somebody else took the name in between.

`MCRequests` checks `Judge`, `Contract`, `Saves` and `UniqueNames` in one run; as they share
nothing, each behaviour is of the one in `focus`. The problems and programs for `Judge` are
those of `MCJudge`.

## 3. Runs

| Run | Instance | Shows |
|---|---|---|
| `shell` | 4 commands, each of which may time out, `terminate` failing or not | `Shell` implements `CommandServer` until `terminate` has failed; ready when answered, answered once, always answered, though it may fail |
| `executor` | 4 jobs with 3 priorities, 2 of whose isolate processes may survive; 2 boxes, one with remains of former processes | exclusiveness, isolation, work conservation, priorities, `BoxPool`, every job ends |
| `compile_and_run` | 2 requests with 3 and 1 inputs, 2 boxes, 1 crash | own executable, clean storage, orphan runs only after errors, every request answered |
| `problem` | 2 slots, author (also a reviewer), reviewer, SuperAdmin, a sound and an unsound content | nothing gets out unreviewed, nor on an approval from before a return to draft; while no requests have overlapped, what gets out was checked and is what its reviewer has seen |
| `problem_unchecked` | 2 slots | **violation**: an unchecked solution is put up for review |
| `problem_published` | 2 slots | **violation**: a published problem becomes a draft again |
| `problem_flow` | 1 slot, no overlaps | **violation**: a problem that awaits approval is taken back to draft |
| `requests` | `Judge`: every output of up to 3 characters against every expected text of up to 4; an example and a hidden test with every fate of run, source and compilation and every loss. `Contract`: 26 bodies, 4 programs and 5 runs at the limits. `Saves`: 2 saves, 2 requests, 2 seconds. `UniqueNames`: 2 rows, 2 names, 3 requests | accepted means passed, codes name causes, verified means accepted, one completion status; the compiler service accepts what the API sends, plain bodies never fail at the database; the last save is found; names are unique |
| `accounts` | 3 slots, cooldown of 2 ticks, 2 passwords | links do not pile up, first password only, a renewed hash keeps the password, the cooldown ends |
| `accounts_cooldown` | 2 slots | **violation**: two overlapping requests both send a mail |
| `file_store` | an attachment and a group (users behave like groups), 3 formats, 2 slots, 1 fault | rows name files that are there, one answer per removal and its row really goes, no avatar of an existing owner is left behind |
| `scores` | 2 users in a group, one of whom asks for 2 hints in 2 slots, one for 0 or 2, one for -1; 2 accepted submissions, 1 failure after payment | nobody overdraws his score, hints are paid exactly and shown to those who paid or unlocked them when they were free, a group scores what its members do |

Bounds. Shell: a time-out can be followed by a late marker of any earlier
generation and two more commands, which is all the desynchronisation there is.
Executor: two boxes and four jobs give a waiter of higher and one of equal
priority, each overtaking possibility, and a reuse of each box; a box with remains
beside a clean one meets every combination of remains (the first job gets the one
with remains, which it can only see by failing before isolate writes its metadata);
more boxes only repeat this, and the theorems hold for any number. CompileAndRun: three inputs
on two boxes leave a run queued when its sibling fails; one crash leaves a file
for the next process; more of either repeats it, and the theorems hold for any number. ProblemWorkflow: two slots
suffice for each known overlap; the theorems cover any number. Judge: the
comparison looks at a line end, the character before it and the rest of the text,
so short texts meet every case; every fate is met at and around each limit, each kind of
source line alone and before or behind the others it can hide or uncover, and the loss of
either file of each report; one memory limit is far above the margin of 2 MB, one below it.
FileStore: objects have no file in common, so one of each kind is enough; a request
that is under way and others that come and go beside it form every chain of two and of
three changes; with three formats a change back, a change on and a change to the same
name differ; one fault at any step shows what a step of several leaves behind.
Scores: the two scores pay for a hint that costs 2, or nothing for a while, beside one
whose price is negative, in any order of solving, paying and changing the price; requests
of different users touch different rows, so one buyer is enough, and the theorems cover
any number and any prices. Accounts: three requests can be stamping,
mailing and hashing at once, or overtake one another twice; two passwords tell an old one
from a new one; the theorems cover any number and any cooldown. Contract: the bodies are at
and one beyond every limit of the validation, the columns, the packet and the two body
sizes, in every order in which they can follow each other; the theorems hold for any bodies.
Saves: two rows, two requests and two seconds tell rows written in the same second
from rows written later. UniqueNames: with three requests one is beaten while another
is refused; two rows and two names let a rename meet a create and a removal.

Fairness. `Shell`: Node's timers and event loop are fair, `terminate` settles;
commands may run for ever. `Executor`, `CompileAndRun`: each await is answered:
shell commands because of `EveryExecAnswered`, file operations by the operating
system. No fairness of arrivals or of surviving processes is assumed.
`ProblemWorkflow`: the HTTP client gives up after 150 s, the database answers or
throws. `FileStore`: disk and database answer or fail, so each request goes on; the
instance stutters by `Quiet` when nobody asks. `Accounts`: time passes (`WF(Tick)`), nothing
else; requests may hang. No fairness in `Judge`, `Scores`, `Contract`, `Saves` and `UniqueNames`. In `Executor` and `CompileAndRun` deadlock is checked (a finished
instance stutters by an explicit step); `CHECK_DEADLOCK FALSE` is used for the
shell only, whose caller issues a bounded number of commands and may then stop.

## 4. Findings

1. `problems.service.ts:517`: the check awaits the compiler between loading and
   writing; an edit that overlaps it goes unchecked (README.md, line 29).
2. `problems.service.ts:634`: the new status is written without regard to what
   the row holds by then; a published problem can go back to draft (README.md,
   line 53).
3. `problems.service.ts:522`: the owner may take a problem that awaits approval back
   to draft, and change it there, where README.md, line 50, allows no change but to
   approve or reject it. (By lines 557 to 559 he may also archive an approved problem,
   which README.md, line 51, does not list.)
4. `auth.service.ts:62`: the cooldown is checked before the signature and written
   after it; overlapping requests all pass (api/README.md, line 63). `LiveInTurn`
   says what the cooldown does guarantee.

Met on the way, without a statement in the repository that a run could hold it against;
the models do what the code does:

- `app.service.ts:436` compares `max-rss` in kilobytes with a limit in bytes, so a
  program that ends well is never over the memory limit.
- A PATCH with a price but no hint is not validated (`create-problem.dto.ts:80`):
  any number is stored, also a negative one, and whoever unlocks that hint gains by it.
  `Scores` takes any integers for prices.
- If the output of a compilation cannot be read, which is only logged
  (`executor.ts:237`), the check of headers (`app.service.ts:172`) finds nothing: a header
  that is not allowed is accepted. An `#undef` behind a comment (line 365) and a call with
  parentheses around the name of the function (lines 389 to 397) are not found either.
  `Judge` has all three.
- When the price of a hint is 0 it can be unlocked for nothing, and stays so when the price
  is raised later.
- The levels `Og`, `Os` and `Ofast` are refused for problems, whose DTO writes them in
  upper case, and accepted for `compile-and-run`, whose DTO does not.
- `null` for a column that must not be null passes `@IsOptional` and fails at the
  database, as do numbers beyond 32 bits, programs at the limit with letters of three
  bytes, and bodies above `max_allowed_packet` (16 MB) but below the 96 MB of the API.
- Renaming a tag or a group to a name in use is answered by the error of the index.
- The language of a save is never loaded, so that giving it always counts as a change,
  and it is never returned.
- `users.service.ts:359` to 442: some refusals of `update()` flush first, so that a
  refused request may have changed the group or the roles.
- The filter `isAccepted=false` of `submissions.service.ts` has no effect, and the result
  codes of the API lack `DNA`, which the compiler service knows.

## 5. Proofs

`ExecutorProofs` proves for every number of boxes, every finite set of jobs and
every priority: type correctness, `BoxExclusive`, `GrantHasBox`, `NoIdlePermit`,
`NeverInUse`, `OwnResult`, and that `Executor` implements `BoxPool`. The argument
is one inductive invariant in layers. `TypeInv` adds to `TypeOK` that a job holds
a box exactly from the pop to its clean-up. `WaitInv` says the queue lists exactly
the jobs that wait, each once, and that nobody waits while a permit is free:
without it a hand-over could grant a permit to a job that is not waiting.
`BoxExclusive` and `GrantHasBox` together make the pop defined. `CleanInv` says what
lies in a box from the init on: only data of its holder, no surviving process
before the run, no metadata but the holder's; a free box may be dirty but has no
metadata file. The refinement maps `pc` to the phases of `BoxPool`; steps inside a
phase are stutters. `RemainsTakenOnce` adds that what former processes left reaches
the result of one job at most, and is gone from the box then. `OrderInv` says that the
queue is sorted by priority and holds every job that waits: who is granted a permit is then
its head or a newcomer that found nobody waiting, which is `NoOvertaking`. Assumptions:
`JobsAssumption` (finitely many jobs, which are neither numbers nor `Nobody`),
`BoxCountAssumption`, `PriorityAssumption`, `UnkillableAssumption`, `LeftAssumption`.

`CompileAndRunProofs` proves `TypeInvariant`, `FindsExecutable`, `OutputsOfOwnCode` and
`StorageReleased` for any requests, inputs, boxes and crashes. Its invariant `IndInv`
relates the handler of a request to its jobs. `Waiting` and `Fresh` are about the pool
alone: the queue lists waiting jobs, each once, so that a hand-over moves a job that
waits and nothing else (`Advances`). `BuildingOf` says that the compilation is under way only while the handler
awaits it and what it has built is the executable there is; `RunningOf` that runs are
under way only beside an executable or after an error, with what was built loaded;
`AnsweringOf` that outputs are those of runs that are all over. A request
whose handler does not move keeps its part whatever the others do (`UntouchedKeeps`),
so each action is proved for its own request only. Assumptions: `InputsAssumption`,
`CrashAssumption`, `JobsAreParts` (jobs are the parts of requests and have their
priority), `BoxCountAssumption`.

`ProblemProofs` proves type correctness and `OutOnlyReviewed` for any users,
contents and number of overlapping requests. `RequestsReviewed` strengthens it: a
request about to write Approved, Published or Archived either carries the
approval of a legitimate reviewer itself or has loaded a row that was approved
before. `ReviewedAgainAlways` proves `ReviewedAgain`: by `StandingInv` the same holds of
an approval since the last return to draft, unless a request was under way at that moment,
which may still write what it has decided on the old approval. `CheckedWhenSerial` and
`LiveWhenSerial` prove the other two properties of the run `problem`. Their invariant `FlowInv` says of a problem
whose requests have not overlapped that at most one is under way (`Solo`), that what
it loaded is still what the row holds, and that its decision was one the code allows
for that status (`Decided`); without `Solo` the flush of a request says nothing about
the row it is written to, which is what the two violations show.

`ShellProofs` proves type correctness, `ReadyWhenAnswered` and `AnsweredOnce` for any
number of commands, `terminate` failing or not, and `ImplementsServer`: until `terminate`
fails, every step of `Shell` is one of `CommandServer` or a stutter. `FlagsInv` ties the flags of the class
to the pending promise: exactly while it is pending is the shell either running, with
its timer, or being replaced. `PromisesInv` says that only the latest promise can be
pending and that no more shells were spawned than promises settled, so that there is
always a next generation. `ServerInv` is what the refinement needs as long as `terminate` has not
failed: shells that were replaced are quiet (`Quiet`), and `CommandInv` follows the command
of the pending promise from its execution to the marker in the pipe, so that a marker that
is read always tells the fate of the command whose promise it settles. Assumption:
`MaxExecsAssumption`.

`AccountsProofs` proves type correctness and `LiveInTurn` for any slots and any
cooldown. The strengthening `TurnInv` relates lives to the cooldown: while the
account exists, whatever was signed in turn before the last stamp expires within
the cooldown that stamp began (`ExpiresInTime`); a request that is about to stamp
and was not overtaken was let in when all of that had expired (`NothingBefore`);
and what is pending or valid in turn is so alone (`OneInTurn`). `FirstPasswordOnly` and
`RehashKeepsPassword` follow from `SeenPassword`: a hash under way that nobody has
overtaken will be written over the password its request has seen. Assumption:
`CooldownAssumption`.

`ScoresProofs` proves `HintsArePaidFor` and `NoFreeHints` for any prices, negative ones
included. `Covered` strengthens the bounds of the first to the balances that requests have
loaded: an older balance plus all later charges is never negative, and never more than what
prices below 0 have given since. `Alone` and `Exact` strengthen the second half: as long as a
user's requests have not overlapped he has at most one, what it has loaded is what
is stored, and it never charges for a hint he has.

`SpendsOnlyEarned` needs `Backed`: what a request has loaded as the total was earned by
then, what counts as earned only grows, and a request that is past the check has loaded
at least the price; so even an update computed from an old balance is covered.
`GroupScoreIsSum` says that two ways to sum a matrix agree, by problems and by members.
Both are about folds over finite sets, of which the library states nothing that could
be used here. `ScoresProofs` proves what is needed of them (`SumOf` is an integer, grows with the
set, splits off an element, sums of sums) by taking a smallest set for which it would
be false. Assumptions: `CostsAssumption` (prices are integers), `BuyersAssumption`, and
`TablesAssumption`: users and problems are finitely many, and scores of problems are not
negative.

For `NoFreeHints`, `Paid` says that a hint was charged for at least as
often as there are requests that have paid a price other than 0 and not delivered, plus one
if it was delivered to the user at such a price, so that a failing request takes back no
charge but its own.

`FileStoreProofs` proves `RemovedOnce` for any number of attachments, requests and
faults. `TookFile` says that after an answered removal the file is gone and the row no
longer new, `Works` that whoever unlinks has the only name of the file and that nobody
who works on an avatar writes under that name. `NamedFileExists` and `NoFileLeftBehind` are
proved in two halves. For attachments, `UploadsInv` says that an upload stays on the disk
until its row is written and then until a removal has taken it. For avatars, `AvatarOk`
holds as long as no request was cut off and three changes have not followed each other
(`Kept`); it describes the change under way if it is the `First` since a pause, if it is
`Alone` by now, and a `Pair` of them, and counts files and writes that are owed together
(`Load`), which is what bounds the files that are left. Assumptions: `GroupsAssumption`,
`MarksAssumption`. Files of uploads that were refused and of owners that were removed do stay
on the disk; the theorem is about owners that exist.

`RecordsProofs` is about three modules. Of `Contract` it proves `RequestsAccepted` and
`PlainBodiesStored` for any bodies, programs and runs. `RowInv` says that every column
that is sent went through a validation (`Ready`) and a list of testcases through a
statement as well: two statements of 16 MB each are less than the 512 MB the compiler
service takes, 64 and 16 testcases no more than its 80. Of `Saves` it proves `LatestFound`
for any number of rows and requests: as long as requests have not overlapped one at most
is under way (`SaveAlone`), and times grow in the order of writing (`InTime`). Of
`UniqueNames` it proves `NamesGuarded`: a wanted name that another row has by now
was taken since the count (`BeatenKnown`), unless nobody counted. Assumptions:
`BodiesAssumption`, `RunsAssumption`, `NullAssumption`, `MaxTimeAssumption`,
`NoSaveAssumption`, `NoNameAssumption`.

The second part of `CompileAndRunProofs` is about `Judge`, which models what
`compileAndRun` decides; for any problems, programs and runs it proves its four
properties. `JudgeInv` says that the answer of the service is a function of the program
(`AnswerTo`), that the codes of a submission are one as well (`CodesOf`), or `IE` for every
hidden test if the service failed, and that a verified
solution passes every test; `VerifiedIsAccepted` follows because the hidden tests are the
tests behind the examples in both, and `CompilesAgain`: a solution that was compiled once
is compiled again whatever is lost of the report, unless it includes a header that is not
allowed, which a lost output may have hidden the first time. `CodesNameCause` holds for any
limits: `MLE` stands for a run above the limit, or for one that was killed by a signal near
it. "90 % of the limit or 2 MB less than it" (`app.service.ts:420`) is at least half of the
limit from 4 MB on (`NearIsHalf`); of smaller limits, which the DTOs allow, it says nothing,
and neither does the property: there a run that ends by signal 11 is called `MLE` however
little it used. `CompletionAgrees` needs
`ListsInv` (what `findAll` has read is the status of a prefix of the submissions) and
`StatusesAgree`: the pass over all submissions, a fold, equals the direct computation, for
a list of any length, as there is no least index at which they part.

`AcceptedMeansPassed` says what an accepted submission is worth: it was served and compiled,
was not *caught* breaking the rules of its problem, and passed every hidden test; and every
such program that stays within its memory is accepted. What can be caught is `CaughtAt`: an
`undef` or a call that is written plainly, and a foreign header if the output of gcc could be
read. It is proved for texts and sources of any length and any limits. Its core is
`ComparesWhatShows`: `compareOutput` holds exactly of texts that show the same characters in
the same rows and columns. One half says that each of the three steps of normalisation
keeps the place of everything visible: what is kept is picked by its rank among the kept
positions (`PickFacts`), ranks grow by one from the start of the row on (`RankSteps`), and
every end of a row has one that stands for it (`Keeps`, `ShowsTheSame`). The other half says that a text
in normal form (no CR, no space at the end of a row, no empty row at the end) is
determined by what it shows (`NormalIsUnique`): up to the first difference both have the
same rows, and behind it there is something visible in one of them whose place tells what
the other must hold (`GoesOn`). `AssertsCalls` does the same for sources: with the includes in
front and without a plain `undef`, the assertion fails exactly if a banned function is called
plainly and no masked `undef` precedes the call, wherever the includes stood. The
theorem needs a hidden test (`minTestcaseCount`, `config-constants.ts:29`): `every()` over an
empty list of codes accepts what does not even compile. Assumptions:
`ProblemsAssumption` (a program is run on each test once, examples come first, there is
a hidden test, limits are natural numbers), `LimitsAssumption`.

All invariants and step properties of the passing runs are theorems. Only model-checked is
liveness under fairness (`EveryExecAnswered`, `EveryJobEnds`,
`RequestAnswered`, `AskAgain`, `AnsweredIsGone`), which is out of the prover's reach.

## 6. Plan

The modules planned first are there: judge core, approval flow, hints, mails, files,
records. What is left, in this order:

1. The safety half of the liveness properties as theorems: in `Executor` and
   `CompileAndRun` no reachable state with an unanswered job or request is stuck, stated by
   the guards of the actions and without ENABLED.
2. A refinement between the two views of `compileAndRun`: an answer of `CompileAndRun` as one
   step `ServiceAnswers` or `ServiceFails` of `Judge`.

Not modelled, and why:

- queries that only read, except those whose answer a property is about (`findOne` and
  `findAll` of problems, `findForProblem` of saves);
- the rest of `users.service.ts` `update()` (profile, group and roles): checks and
  assignments of one request on one row that no other column depends on;
- attachments and tags of a problem: references that the database keeps;
- the text of diagnostics and mails, session tokens, the options of isolate's command line;
- controllers, guards, rate limits and configuration: they refuse a request before anything
  happens; what they limit is a constant of `Contract`.
