------------------------------ MODULE Contract ------------------------------
(***************************************************************************)
(* What two services and a database agree on: the way of a problem from    *)
(* the body of a request through the validation of the API (the DTOs with  *)
(* config-constants.ts) into the columns of problem.entity.ts, and from    *)
(* there, edited by any number of requests, into the request that the API  *)
(* sends to the compiler service, which has a validation and constants of  *)
(* its own and answers what it does not accept with an error.              *)
(*                                                                         *)
(* A body is a function from the fields that were given to their values.   *)
(* Of a text only its number of characters and the widest of them in bytes *)
(* matter, of testcases how many there are, the longest text among them    *)
(* and the megabytes of the whole, of names of headers and functions the   *)
(* bytes of the joined list.  Times are in milliseconds.  Numbers beyond   *)
(* 32 bits are Huge.  One problem, a draft in the hands of its author.     *)
(***************************************************************************)
EXTENDS Integers

CONSTANTS
  Bodies,    \* bodies of POST and PATCH of problems
  Programs,  \* submissions: code and language as written
  Runs,      \* bodies of compile-and-run, with the defaults filled in
  Null, Huge

TextFields == {"title", "description", "input", "output", "hint",
               "starterCode", "solution", "credits"}
ListFields == {"testcases", "exampleTestcases"}
NameFields == {"allowedHeaders", "bannedFunctions"}
NumberFields == {"hintCost", "timeLimit", "memoryLimit", "difficulty", "score"}
EnumFields == {"solutionLanguage", "optimizationLevel"}
Fields == TextFields \union ListFields \union NameFields \union NumberFields \union EnumFields

ASSUME BodiesAssumption == \A b \in Bodies : DOMAIN b \subseteq Fields
VARIABLES
  stored,   \* the row, or Null before it is created
  answer,    \* how the last request to the API was answered
  sent       \* what it has sent to the compiler service, or Null

contractVars == <<stored, answer, sent>>

Texts == [length : Nat, width : 1 .. 4]
Lists == [count : Nat, longest : Nat, size : Nat]
Mi == 1024 * 1024

ASSUME RunsAssumption ==
  Runs \subseteq [code : Texts, language : STRING, level : STRING, time : Int, memory : Int,
                  inputs : Nat, longest : Nat, size : Nat]

-----------------------------------------------------------------------------
(* The constants of the two services and the columns.                      *)

\* Mutant of MaxLength: descriptions, inputs, outputs and hints one too long.
MaxLengthOff(f) ==
  IF f \in {"title", "credits"} THEN 255
  ELSE IF f \in {"starterCode", "solution"} THEN 32768 ELSE 16384

MaxLength(f) ==
  IF f \in {"title", "credits"} THEN 255
  ELSE IF f \in {"starterCode", "solution"} THEN 32767 ELSE 16383

MinLength(f) == IF f = "title" THEN 1 ELSE 0

\* Mutant of MaxCount: one example more.
MaxCountMore(f) == IF f = "testcases" THEN 64 ELSE 17

MaxCount(f) == IF f = "testcases" THEN 64 ELSE 16

MinCount(f) == IF f = "testcases" THEN 1 ELSE 0

MaxTestcaseLength == 16 * Mi
MaxProgramLength == 32767

MaxNumber(f) ==
  IF f = "timeLimit" THEN 5000 ELSE IF f = "memoryLimit" THEN 128 * Mi ELSE 5

APIBody == 96        \* maxBodySize, in megabytes
APIInputs == 16      \* executor.maxInputCount of the API
CompilerBody == 512  \* the limit in main.ts of the compiler service
CompilerInputs == 80 \* its executor.maxInputCount
Packet == 16         \* max_allowed_packet of MariaDB, in megabytes
TextColumn == 65535  \* bytes of a TEXT column

Languages == {"c17", "c++17"}
Levels == {"O0", "Og", "O1", "O2", "O3", "Os", "Ofast"}

(* Null and Huge are none of the other values.                             *)
ASSUME NullAssumption ==
  /\ Null # Huge
  /\ \A v \in {Null, Huge} :
       v \notin Texts \union Lists \union Int \union Languages \union Levels \union {"OG", "OS", "OFAST"}

Default ==
  [f \in Fields |->
     CASE f \in TextFields -> [length |-> 0, width |-> 1]
       [] f \in ListFields -> [count |-> 0, longest |-> 0, size |-> 0]
       [] f \in NameFields -> 0
       [] f = "timeLimit" -> 1000
       [] f = "memoryLimit" -> 32 * Mi
       [] f = "optimizationLevel" -> "O1"
       [] OTHER -> 0]

Required == {"title", "testcases", "solution", "solutionLanguage", "difficulty", "score"}

-----------------------------------------------------------------------------
(* Validation.                                                             *)

LowerCase(v) == IF v = "C17" THEN "c17" ELSE IF v = "C++17" THEN "c++17" ELSE v
UpperCase(v) ==
  IF v \in {"Og", "og"} THEN "OG" ELSE IF v \in {"Os", "os"} THEN "OS"
  ELSE IF v \in {"Ofast", "ofast"} THEN "OFAST" ELSE IF v = "o1" THEN "O1" ELSE v
Capitalize(v) ==
  IF v \in {"OG", "og"} THEN "Og" ELSE IF v \in {"OS", "os"} THEN "Os"
  ELSE IF v \in {"OFAST", "ofast"} THEN "Ofast" ELSE IF v = "o1" THEN "O1" ELSE v

(* The transformations of the DTO of problems; they cannot take null.      *)
Throws(b) == \E f \in EnumFields \intersect DOMAIN b : b[f] = Null
Transformed(b) ==
  [f \in DOMAIN b |->
     IF f = "solutionLanguage" THEN LowerCase(b[f])
     ELSE IF f = "optimizationLevel" THEN UpperCase(b[f]) ELSE b[f]]

Valid(f, v) ==
  \/ f \in TextFields /\ v \in Texts /\ v.length \in MinLength(f) .. MaxLength(f)
  \/ /\ f \in ListFields /\ v \in Lists
     /\ v.count \in MinCount(f) .. MaxCount(f) /\ v.longest <= MaxTestcaseLength
  \/ f \in NameFields /\ v \in Nat
  \/ f = "allowedHeaders" /\ v = Null
  \/ f \in {"timeLimit", "memoryLimit"} /\ v \in 0 .. MaxNumber(f)
  \/ f = "difficulty" /\ v \in 1 .. MaxNumber(f)
  \/ f \in {"hintCost", "score"} /\ (v = Huge \/ v \in Nat)
  \/ f = "solutionLanguage" /\ v \in Languages
  \/ f = "optimizationLevel" /\ v \in Levels

(* @IsOptional lets null pass as well.                                     *)
ValidOr(optional, f, v) == Valid(f, v) \/ (f \in optional /\ v = Null)

(* CreateProblemDto: the price of a hint is looked at with the hint only.  *)
AcceptsCreate(b) ==
  /\ Required \subseteq DOMAIN b
  /\ \A f \in DOMAIN b \ {"hintCost"} : ValidOr(Fields \ Required, f, b[f])
  /\ "hint" \in DOMAIN b => "hintCost" \in DOMAIN b /\ Valid("hintCost", b["hintCost"])

(* UpdateProblemDto: PartialType makes every field optional.               *)
AcceptsUpdate(b) ==
  /\ \A f \in DOMAIN b \ {"hintCost"} : ValidOr(Fields, f, b[f])
  /\ {"hint", "hintCost"} \subseteq DOMAIN b => ValidOr(Fields, "hintCost", b["hintCost"])

Size(b) ==
  (IF "testcases" \in DOMAIN b /\ b["testcases"] # Null THEN b["testcases"].size ELSE 0)
  + (IF "exampleTestcases" \in DOMAIN b /\ b["exampleTestcases"] # Null
     THEN b["exampleTestcases"].size ELSE 0)

(* What a column takes: titles and credits are counted in characters.      *)
Fits(f, v) ==
  \/ v = Null /\ f = "allowedHeaders"
  \/ /\ v # Null /\ v # Huge
     /\ f \in TextFields \ {"title", "credits"} => v.length * v.width <= TextColumn
     /\ f \in NameFields => v <= TextColumn

(* The statement that writes the fields of b.                              *)
Storable(b) == Size(b) <= Packet /\ \A f \in DOMAIN b : Fits(f, b[f])

-----------------------------------------------------------------------------
(* The requests to the API.                                                *)

ContractInit == stored = Null /\ answer = "none" /\ sent = Null

(* In the order of the checks: express, the pipe, the validators, MariaDB. *)
Outcome(b, accepted, written) ==
  IF Size(b) >= APIBody THEN "too_large"
  ELSE IF Throws(b) THEN "server_error"
  ELSE IF ~accepted THEN "unprocessable"
  ELSE IF ~Storable(written) THEN "server_error" ELSE "done"

Given(b, f) == IF f \in DOMAIN b THEN b[f] ELSE Default[f]

(* assignDefault and the price of no hint.                                 *)
Created(b) ==
  [f \in Fields |->
     IF f = "hintCost" /\ (Given(b, "hint") = Null \/ Given(b, "hint").length = 0)
     THEN 0 ELSE Given(b, f)]

CreateProblem(b) ==
  LET new == Created(Transformed(b))
  IN /\ stored = Null
     /\ answer' = Outcome(b, AcceptsCreate(Transformed(b)), new)
     /\ stored' = IF answer' = "done" THEN new ELSE Null
     /\ sent' = Null

(* MikroORM writes the columns that differ from what was loaded.           *)
UpdateProblem(b) ==
  LET new == Transformed(b)
      changed == [f \in {g \in DOMAIN b : new[g] # stored[g]} |-> new[f]]
  IN /\ stored # Null
     /\ answer' = Outcome(b, AcceptsUpdate(new), changed)
     /\ stored' = IF answer' = "done"
                   THEN [f \in Fields |-> IF f \in DOMAIN b THEN new[f] ELSE stored[f]]
                   ELSE stored
     /\ sent' = Null

(* What the API asks of the compiler for the testcases of the given lists. *)
Request(code, language, lists) ==
  LET Of(f) == IF f \in lists THEN stored[f] ELSE Default[f]
      examples == Of("exampleTestcases")
      tests == Of("testcases")
  IN [code |-> code, language |-> language,
      level |-> stored["optimizationLevel"],
      time |-> stored["timeLimit"], memory |-> stored["memoryLimit"],
      inputs |-> examples.count + tests.count,
      longest |-> IF examples.longest > tests.longest THEN examples.longest ELSE tests.longest,
      size |-> examples.size + tests.size]

(* verifyTestcases(), when the author submits the problem for approval.    *)
Verify ==
  /\ stored # Null
  /\ sent' = Request(stored["solution"], stored["solutionLanguage"], ListFields)
  /\ answer' = "done"
  /\ UNCHANGED stored

(* create() of submissions: validated, judged, and only then stored.       *)
Submit(p) ==
  LET valid == /\ p.code \in Texts /\ p.code.length <= MaxProgramLength
               /\ LowerCase(p.language) \in Languages
  IN /\ stored # Null
     /\ sent' = IF valid THEN Request(p.code, LowerCase(p.language), {"testcases"}) ELSE Null
     /\ answer' = IF ~valid THEN "unprocessable"
                  ELSE IF Fits("solution", p.code) THEN "done" ELSE "server_error"
     /\ UNCHANGED stored

(* CompileAndRunDto, the same in both services but for some constants.     *)
Parsed(r) == [r EXCEPT !.language = LowerCase(@), !.level = Capitalize(@)]

Accepts(r, inputs, body) ==
  /\ r.size < body
  /\ r.language \in Languages /\ r.level \in Levels
  /\ r.code \in Texts /\ r.code.length <= 256 * 1024
  /\ r.inputs \in 0 .. inputs /\ r.longest <= MaxTestcaseLength
  /\ r.time \in 0 .. MaxNumber("timeLimit")
  /\ r.memory \in 0 .. MaxNumber("memoryLimit")

(* compile-and-run of the API hands on what it accepts.                    *)
CompileAndRun(r) ==
  /\ \/ /\ Accepts(Parsed(r), APIInputs, APIBody)
        /\ sent' = Parsed(r) /\ answer' = "done"
     \/ /\ ~Accepts(Parsed(r), APIInputs, APIBody)
        /\ answer' = "unprocessable" /\ sent' = Null
  /\ UNCHANGED stored

ContractNext ==
  \/ \E b \in Bodies : CreateProblem(b) \/ UpdateProblem(b)
  \/ Verify
  \/ \E p \in Programs : Submit(p)
  \/ \E r \in Runs : CompileAndRun(r)

ContractSpec == ContractInit /\ [][ContractNext]_contractVars

-----------------------------------------------------------------------------
(* Whatever sequence of requests a problem was made by: what the API sends *)
(* for it, for a submission or on behalf of a user is accepted by the      *)
(* compiler service.  Otherwise every submission would be judged IE and no *)
(* author could tell why (compiler.service.ts:43).                         *)
RequestsAccepted == sent # Null => Accepts(Parsed(sent), CompilerInputs, CompilerBody)

(* Text of any script may be as long as the constants say, programs as     *)
(* long as they have no letters of three bytes; and nothing is too large   *)
(* for a statement.                                                        *)
Plain(b) ==
  /\ \A f \in DOMAIN b : (b[f] # Null \/ f = "allowedHeaders") /\ b[f] # Huge
  /\ \A f \in {"starterCode", "solution"} \intersect DOMAIN b : b[f].width <= 2
  /\ \A f \in NameFields \intersect DOMAIN b : b[f] = Null \/ b[f] <= TextColumn
  /\ Size(b) <= Packet

(* "Must be less than 16384", "Must be less than 32768" (config-constants):*)
(* the limits keep a plain body within the columns, so that it is either   *)
(* refused by name or stored and never fails at the database.              *)
PlainBodiesStored ==
  [][answer' = "server_error" =>
       \A b \in Bodies : Plain(b) => ~(CreateProblem(b) \/ UpdateProblem(b))]_contractVars

=============================================================================
