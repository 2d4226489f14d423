---------------------------- MODULE RecordsProofs ----------------------------
(***************************************************************************)
(* Theorems about Contract, Saves and UniqueNames, for any values of their *)
(* constants.                                                              *)
(*                                                                         *)
(* Contract: what is sent to the compiler service is put together from the *)
(* columns of a row, so the invariant says of each of them (SentFields)    *)
(* that it went through a validation and, of lists, through a statement of *)
(* its own: two statements of a packet each are still less than a body.    *)
(***************************************************************************)
EXTENDS Contract, Saves, UniqueNames, TLAPS

SentFields ==
  {"solution", "solutionLanguage", "optimizationLevel", "timeLimit", "memoryLimit"}
    \union ListFields

Ready(f, v) == Valid(f, v) /\ (f \in ListFields => v.size <= Packet)

RowInv == stored # Null => \A f \in SentFields : Ready(f, stored[f])

-----------------------------------------------------------------------------
(* A sum of two sizes that fits a packet leaves room for each of them.     *)
LEMMA SizesFit ==
  ASSUME NEW row, "testcases" \in DOMAIN row, "exampleTestcases" \in DOMAIN row,
         row["testcases"] \in Lists, row["exampleTestcases"] \in Lists,
         Size(row) <= Packet
  PROVE  row["testcases"].size <= Packet /\ row["exampleTestcases"].size <= Packet
<1>1. /\ row["testcases"] # Null /\ row["exampleTestcases"] # Null
      /\ row["testcases"].size \in Nat /\ row["exampleTestcases"].size \in Nat
  BY NullAssumption DEF Lists
<1>2. Size(row) = row["testcases"].size + row["exampleTestcases"].size
  BY <1>1 DEF Size
<1> QED
  BY <1>1, <1>2 DEF Packet

(* ValidOr that is not Null is Valid.                                      *)
LEMMA StoredIsValid ==
  ASSUME NEW f \in SentFields, NEW v, NEW optional, ValidOr(optional, f, v), Fits(f, v)
  PROVE  Valid(f, v)
<1>1. v # Null
  BY DEF Fits, SentFields, ListFields
<1> QED
  BY <1>1 DEF ValidOr

LEMMA SentAreFields == SentFields \subseteq Fields \ {"hintCost"}
  BY DEF SentFields, Fields, TextFields, ListFields, NameFields, NumberFields, EnumFields

LEMMA ValidLists ==
  ASSUME NEW f \in ListFields, NEW v, Valid(f, v)
  PROVE  v \in Lists /\ v.count \in MinCount(f) .. MaxCount(f) /\ v.longest <= MaxTestcaseLength
BY DEF Valid, ListFields, TextFields, NameFields

(* A row that was created from an accepted body is ready to be sent.       *)
LEMMA CreatedReady ==
  ASSUME NEW b, DOMAIN b \subseteq Fields, AcceptsCreate(b), Storable(Created(b))
  PROVE  \A f \in SentFields : Ready(f, Created(b)[f])
<1> DEFINE new == Created(b)
<1>1. \A f \in SentFields : new[f] = Given(b, f)
  BY SentAreFields DEF Created
<1>2. \A f \in SentFields : Fits(f, new[f])
  BY SentAreFields DEF Storable, Created
<1>3. ASSUME NEW f \in SentFields PROVE Valid(f, new[f])
  <2>1. CASE f \in DOMAIN b
    <3>1. new[f] = b[f]
      BY <1>1, <2>1 DEF Given
    <3>2. ValidOr(Fields \ Required, f, b[f])
      BY <2>1, SentAreFields DEF AcceptsCreate
    <3>3. Fits(f, b[f])
      BY <1>2, <3>1
    <3>4. Valid(f, b[f])
      BY <3>2, <3>3, StoredIsValid
    <3> QED
      BY <3>1, <3>4
  <2>2. CASE f \notin DOMAIN b
    <3>1. f \in Fields /\ f \notin Required
      BY <2>2, SentAreFields DEF AcceptsCreate
    <3>2. new[f] = Default[f]
      BY <1>1, <2>2 DEF Given
    <3>3. f \in {"optimizationLevel", "timeLimit", "memoryLimit", "exampleTestcases"}
      BY <3>1 DEF SentFields, ListFields, Required
    <3>4. CASE f = "optimizationLevel"
      <4>1. Default[f] = "O1"
        BY <3>1, <3>4 DEF Default, Fields, TextFields, ListFields, NameFields, NumberFields, EnumFields
      <4> QED
        BY <3>2, <3>4, <4>1 DEF Valid, Levels
    <3>5. CASE f = "timeLimit"
      <4>1. Default[f] = 1000
        BY <3>1, <3>5 DEF Default, Fields, TextFields, ListFields, NameFields, NumberFields, EnumFields
      <4> QED
        BY <3>2, <3>5, <4>1 DEF Valid, MaxNumber
    <3>6. CASE f = "memoryLimit"
      <4>1. Default[f] = 32 * Mi
        BY <3>1, <3>6 DEF Default, Fields, TextFields, ListFields, NameFields, NumberFields, EnumFields
      <4>2. 32 * Mi \in 0 .. 128 * Mi
        <5>1. Mi \in Nat
          BY DEF Mi
        <5> QED
          BY <5>1
      <4>3. MaxNumber(f) = 128 * Mi
        BY <3>6 DEF MaxNumber
      <4> QED
        BY <3>2, <3>6, <4>1, <4>2, <4>3 DEF Valid
    <3>7. CASE f = "exampleTestcases"
      <4>1. Default[f] = [count |-> 0, longest |-> 0, size |-> 0]
        BY <3>1, <3>7 DEF Default, Fields, TextFields, ListFields, NameFields, NumberFields, EnumFields
      <4> QED
        BY <3>2, <3>7, <4>1 DEF Valid, Lists, ListFields, MinCount, MaxCount, MaxTestcaseLength, Mi
    <3> QED
      BY <3>3, <3>4, <3>5, <3>6, <3>7
  <2> QED
    BY <2>1, <2>2
<1>4. new["testcases"] \in Lists /\ new["exampleTestcases"] \in Lists
  BY <1>3, ValidLists DEF SentFields, ListFields
<1>5. DOMAIN new = Fields /\ Size(new) <= Packet
  BY DEF Created, Storable
<1>6. \A f \in ListFields : new[f].size <= Packet
  BY <1>4, <1>5, SizesFit DEF Fields, ListFields
<1> QED
  BY <1>3, <1>6 DEF Ready

(* So is a row after an accepted change that MariaDB has taken.            *)
LEMMA UpdatedReady ==
  ASSUME NEW b, NEW old, \A f \in SentFields : Ready(f, old[f]), AcceptsUpdate(b),
         Storable([f \in {g \in DOMAIN b : b[g] # old[g]} |-> b[f]])
  PROVE  \A f \in SentFields : Ready(f, IF f \in DOMAIN b THEN b[f] ELSE old[f])
<1> DEFINE changed == [f \in {g \in DOMAIN b : b[g] # old[g]} |-> b[f]]
<1>1. \A f \in SentFields \intersect DOMAIN changed : Valid(f, changed[f])
  <2> SUFFICES ASSUME NEW f \in SentFields \intersect DOMAIN changed
               PROVE  Valid(f, changed[f])
    OBVIOUS
  <2>1. f \in DOMAIN b /\ changed[f] = b[f]
    OBVIOUS
  <2>2. Fits(f, b[f])
    BY <2>1 DEF Storable
  <2>3. ValidOr(Fields, f, b[f])
    BY <2>1, SentAreFields DEF AcceptsUpdate
  <2>4. Valid(f, b[f])
    BY <2>2, <2>3, StoredIsValid
  <2> QED
    BY <2>1, <2>4
<1>2. \A f \in ListFields \intersect DOMAIN changed : changed[f] \in Lists /\ changed[f] # Null
  BY <1>1, ValidLists, NullAssumption DEF SentFields
<1>3. Size(changed) <= Packet
  BY DEF Storable
<1>4. \A f \in ListFields \intersect DOMAIN changed : changed[f].size <= Packet
  <2>1. \A f \in ListFields \intersect DOMAIN changed : changed[f].size \in Nat
    BY <1>2 DEF Lists
  <2> HIDE DEF changed
  <2> QED
    BY <1>2, <1>3, <2>1 DEF Size, ListFields, Packet
<1>5. \A f \in SentFields \intersect DOMAIN changed : Ready(f, changed[f])
  BY <1>1, <1>4 DEF Ready
<1>6. ASSUME NEW f \in SentFields
      PROVE  Ready(f, IF f \in DOMAIN b THEN b[f] ELSE old[f])
  <2>1. CASE f \in DOMAIN changed
    <3>1. f \in DOMAIN b /\ changed[f] = b[f]
      BY <2>1
    <3> QED
      BY <1>5, <2>1, <3>1
  <2>2. CASE f \notin DOMAIN changed
    BY <2>2
  <2> QED
    BY <2>1, <2>2
<1> QED
  BY <1>6

LEMMA InitRow == ContractInit => RowInv
BY DEF ContractInit, RowInv

LEMMA NextRow == RowInv /\ [ContractNext]_contractVars => RowInv'
<1> SUFFICES ASSUME RowInv, [ContractNext]_contractVars PROVE RowInv'
  OBVIOUS
<1>1. ASSUME NEW b \in Bodies, CreateProblem(b) PROVE RowInv'
  <2> DEFINE c == Transformed(b)
  <2>1. CASE answer' = "done"
    <3>1. AcceptsCreate(c) /\ Storable(Created(c)) /\ stored' = Created(c)
      BY <1>1, <2>1 DEF CreateProblem, Outcome
    <3>2. DOMAIN c \subseteq Fields
      BY BodiesAssumption DEF Transformed
    <3> HIDE DEF c
    <3> QED
      BY <3>1, <3>2, CreatedReady DEF RowInv
  <2>2. CASE answer' # "done"
    BY <1>1, <2>2 DEF CreateProblem, RowInv
  <2> QED
    BY <2>1, <2>2
<1>2. ASSUME NEW b \in Bodies, UpdateProblem(b) PROVE RowInv'
  <2> DEFINE c == Transformed(b)
             changed == [f \in {g \in DOMAIN c : c[g] # stored[g]} |-> c[f]]
  <2>0. DOMAIN c = DOMAIN b
    BY DEF Transformed
  <2>1. CASE answer' = "done"
    <3>1. /\ AcceptsUpdate(c) /\ stored # Null /\ Storable(changed)
          /\ stored' = [f \in Fields |-> IF f \in DOMAIN c THEN c[f] ELSE stored[f]]
      BY <1>2, <2>0, <2>1 DEF UpdateProblem, Outcome
    <3>2. \A f \in SentFields : Ready(f, stored[f])
      BY <3>1 DEF RowInv
    <3> HIDE DEF c
    <3>3. \A f \in SentFields : Ready(f, IF f \in DOMAIN c THEN c[f] ELSE stored[f])
      BY <3>1, <3>2, UpdatedReady
    <3>4. \A f \in SentFields : stored'[f] = IF f \in DOMAIN c THEN c[f] ELSE stored[f]
      BY <3>1, SentAreFields
    <3> QED
      BY <3>3, <3>4 DEF RowInv
  <2>2. CASE answer' # "done"
    BY <1>2, <2>2 DEF UpdateProblem, RowInv
  <2> QED
    BY <2>1, <2>2
<1>3. ASSUME UNCHANGED stored PROVE RowInv'
  BY <1>3 DEF RowInv
<1> QED
  BY <1>1, <1>2, <1>3 DEF ContractNext, Verify, Submit, CompileAndRun, contractVars

(* The rows of problems are fit to be sent, whatever was asked for.        *)
THEOREM RowsReady == ContractSpec => []RowInv
BY InitRow, NextRow, PTL DEF ContractSpec

-----------------------------------------------------------------------------
(* Letters once lowered or raised stay as they are.                        *)
LEMMA Lowered ==
  ASSUME NEW v, LowerCase(v) \in Languages
  PROVE  LowerCase(LowerCase(v)) \in Languages
BY DEF LowerCase, Languages

LEMMA Capitalized ==
  ASSUME NEW v, v \in Levels
  PROVE  Capitalize(v) \in Levels
BY DEF Capitalize, Levels

LEMMA LanguageKept ==
  ASSUME NEW v, v \in Languages
  PROVE  LowerCase(v) \in Languages
BY DEF LowerCase, Languages

(* What is put together from a ready row is accepted.                      *)
LEMMA RowAccepted ==
  ASSUME RowInv, stored # Null, NEW code \in Texts, code.length <= MaxProgramLength,
         NEW language, language \in Languages, NEW lists \in SUBSET ListFields
  PROVE  Accepts(Parsed(Request(code, language, lists)), CompilerInputs, CompilerBody)
<1> DEFINE Of(f) == IF f \in lists THEN stored[f] ELSE Default[f]
           examples == Of("exampleTestcases")
           tests == Of("testcases")
           r == Request(code, language, lists)
<1>1. \A f \in SentFields : Ready(f, stored[f])
  BY DEF RowInv
<1>2. \A f \in ListFields : Default[f] = [count |-> 0, longest |-> 0, size |-> 0]
  BY DEF Default, Fields, TextFields, ListFields, NameFields, NumberFields, EnumFields
<1>3. ASSUME NEW f \in ListFields
      PROVE  /\ Of(f).count \in 0 .. MaxCount(f)
             /\ Of(f).longest \in 0 .. MaxTestcaseLength
             /\ Of(f).size \in 0 .. Packet
  <2>1. CASE f \in lists
    <3>1. Valid(f, stored[f]) /\ stored[f].size <= Packet
      BY <1>1 DEF Ready, SentFields
    <3>2. /\ stored[f] \in Lists
          /\ stored[f].count \in MinCount(f) .. MaxCount(f)
          /\ stored[f].longest <= MaxTestcaseLength
      BY <3>1, ValidLists
    <3>3. /\ stored[f].count \in Nat /\ stored[f].longest \in Nat
          /\ stored[f].size \in Nat
      BY <3>2 DEF Lists
    <3>4. MinCount(f) \in Nat /\ MaxCount(f) \in Nat /\ MaxTestcaseLength \in Nat
      BY DEF MinCount, MaxCount, MaxTestcaseLength, Mi
    <3>5. Of(f) = stored[f]
      BY <2>1
    <3> HIDE DEF Of
    <3> QED
      BY <3>1, <3>2, <3>3, <3>4, <3>5 DEF Packet
  <2>2. CASE f \notin lists
    <3>1. MaxCount(f) \in Nat /\ MaxTestcaseLength \in Nat
      BY DEF MaxCount, MaxTestcaseLength, Mi
    <3>2. Of(f) = [count |-> 0, longest |-> 0, size |-> 0]
      BY <1>2, <2>2
    <3> HIDE DEF Of
    <3> QED
      BY <3>1, <3>2 DEF Packet
  <2> QED
    BY <2>1, <2>2
<1>4. /\ examples.count \in 0 .. 16 /\ tests.count \in 0 .. 64
      /\ examples.longest \in 0 .. MaxTestcaseLength /\ tests.longest \in 0 .. MaxTestcaseLength
      /\ examples.size \in 0 .. 16 /\ tests.size \in 0 .. 16
  BY <1>3 DEF ListFields, MaxCount, Packet
<1>5. /\ stored["timeLimit"] \in 0 .. MaxNumber("timeLimit")
      /\ stored["memoryLimit"] \in 0 .. MaxNumber("memoryLimit")
      /\ stored["optimizationLevel"] \in Levels
  BY <1>1 DEF Ready, Valid, SentFields, ListFields, TextFields, NameFields
<1> HIDE DEF examples, tests
<1>6. /\ r.code = code /\ r.language = language /\ r.level = stored["optimizationLevel"]
      /\ r.time = stored["timeLimit"] /\ r.memory = stored["memoryLimit"]
      /\ r.inputs = examples.count + tests.count
      /\ r.longest = (IF examples.longest > tests.longest THEN examples.longest
                      ELSE tests.longest)
      /\ r.size = examples.size + tests.size
      /\ DOMAIN r = {"code", "language", "level", "time", "memory", "inputs", "longest", "size"}
  BY DEF Request, examples, tests
<1> HIDE DEF r
<1>7. /\ r.size < CompilerBody /\ r.inputs \in 0 .. CompilerInputs
      /\ r.longest <= MaxTestcaseLength
  <2>1. MaxTestcaseLength \in Nat
    BY DEF MaxTestcaseLength, Mi
  <2> QED
    BY <1>4, <1>6, <2>1 DEF CompilerBody, CompilerInputs
<1>8. r.code \in Texts /\ r.code.length <= 256 * 1024
  BY <1>6 DEF Texts, MaxProgramLength
<1>9. /\ Parsed(r).language = LowerCase(r.language) /\ Parsed(r).level = Capitalize(r.level)
      /\ Parsed(r).code = r.code /\ Parsed(r).time = r.time /\ Parsed(r).memory = r.memory
      /\ Parsed(r).inputs = r.inputs /\ Parsed(r).longest = r.longest
      /\ Parsed(r).size = r.size
  BY <1>6 DEF Parsed
<1>10. Accepts(Parsed(r), CompilerInputs, CompilerBody)
  BY <1>5, <1>6, <1>7, <1>8, <1>9, LanguageKept, Capitalized DEF Accepts
<1> QED
  BY <1>10 DEF r

LEMMA NextAccepted == RowInv /\ RequestsAccepted /\ [ContractNext]_contractVars => RequestsAccepted'
<1> SUFFICES ASSUME RowInv, RequestsAccepted, [ContractNext]_contractVars,
                    sent' # Null
             PROVE  Accepts(Parsed(sent'), CompilerInputs, CompilerBody)
  BY DEF RequestsAccepted, Accepts, Parsed
<1>1. ASSUME Verify PROVE Accepts(Parsed(sent'), CompilerInputs, CompilerBody)
  <2>1. /\ Valid("solution", stored["solution"])
        /\ Valid("solutionLanguage", stored["solutionLanguage"])
    BY <1>1 DEF Verify, RowInv, Ready, SentFields
  <2>2. stored["solutionLanguage"] \in Languages
    BY <2>1 DEF Valid, TextFields, ListFields, NameFields
  <2>3. /\ stored["solution"] \in Texts
        /\ stored["solution"].length \in MinLength("solution") .. MaxLength("solution")
    BY <2>1 DEF Valid, TextFields, ListFields, NameFields
  <2>4. MinLength("solution") = 0 /\ MaxLength("solution") = MaxProgramLength
    BY DEF MinLength, MaxLength, MaxProgramLength
  <2>5. stored["solution"].length <= MaxProgramLength
    BY <2>3, <2>4 DEF MaxProgramLength
  <2> QED
    BY <1>1, <2>2, <2>3, <2>5, RowAccepted DEF Verify
<1>2. ASSUME NEW p \in Programs, Submit(p)
      PROVE  Accepts(Parsed(sent'), CompilerInputs, CompilerBody)
  <2>1. /\ p.code \in Texts /\ p.code.length <= MaxProgramLength
        /\ LowerCase(p.language) \in Languages /\ stored # Null
        /\ sent' = Request(p.code, LowerCase(p.language), {"testcases"})
    BY <1>2 DEF Submit
  <2>2. {"testcases"} \in SUBSET ListFields
    BY DEF ListFields
  <2> QED
    BY <2>1, <2>2, RowAccepted
<1>3. ASSUME NEW r \in Runs, CompileAndRun(r)
      PROVE  Accepts(Parsed(sent'), CompilerInputs, CompilerBody)
  <2> DEFINE s == Parsed(r)
  <2>1. sent' = s /\ Accepts(s, APIInputs, APIBody)
    BY <1>3 DEF CompileAndRun
  <2>2. /\ r.inputs \in Nat /\ r.size \in Nat
        /\ DOMAIN r = {"code", "language", "level", "time", "memory", "inputs", "longest", "size"}
    BY RunsAssumption
  <2>3. /\ s.inputs = r.inputs /\ s.size = r.size /\ s.language = LowerCase(r.language)
        /\ DOMAIN s = DOMAIN r
    BY <2>2 DEF Parsed
  <2> HIDE DEF s
  <2>4. /\ Parsed(s).language = LowerCase(s.language) /\ Parsed(s).level = Capitalize(s.level)
        /\ Parsed(s).code = s.code /\ Parsed(s).time = s.time /\ Parsed(s).memory = s.memory
        /\ Parsed(s).inputs = s.inputs /\ Parsed(s).longest = s.longest
        /\ Parsed(s).size = s.size
    BY <2>2, <2>3 DEF Parsed
  <2>5. s.size < CompilerBody /\ s.inputs \in 0 .. CompilerInputs
    BY <2>1, <2>2, <2>3 DEF Accepts, APIInputs, APIBody, CompilerInputs, CompilerBody
  <2>6. LowerCase(s.language) \in Languages /\ Capitalize(s.level) \in Levels
    BY <2>1, LanguageKept, Capitalized DEF Accepts
  <2>7. Accepts(Parsed(s), CompilerInputs, CompilerBody)
    BY <2>1, <2>4, <2>5, <2>6 DEF Accepts
  <2> QED
    BY <2>1, <2>7
<1>4. ASSUME NEW b \in Bodies, CreateProblem(b) \/ UpdateProblem(b) PROVE FALSE
  BY <1>4 DEF CreateProblem, UpdateProblem
<1>5. ASSUME UNCHANGED contractVars
      PROVE  Accepts(Parsed(sent'), CompilerInputs, CompilerBody)
  BY <1>5 DEF contractVars, RequestsAccepted
<1> QED
  BY <1>1, <1>2, <1>3, <1>4, <1>5 DEF ContractNext

(* Whatever bodies problems are made and changed with, and whatever is     *)
(* submitted or run: the compiler service accepts what the API sends it.   *)
THEOREM AcceptedByCompiler == ContractSpec => []RequestsAccepted
<1>1. ContractInit => RequestsAccepted
  BY DEF ContractInit, RequestsAccepted
<1> QED
  BY <1>1, NextAccepted, RowsReady, PTL DEF ContractSpec

-----------------------------------------------------------------------------
(* Bytes of the longest texts; a product of two variables is taken apart   *)
(* by the four widths.                                                     *)
LEMMA Bytes ==
  ASSUME NEW n \in Nat, NEW w \in 1 .. 4,
         n <= 16383 \/ (n <= 32767 /\ w <= 2)
  PROVE  n * w <= TextColumn
<1>1. w \in {1, 2, 3, 4}
  OBVIOUS
<1>2. CASE w = 1
  BY <1>2 DEF TextColumn
<1>3. CASE w = 2
  BY <1>3 DEF TextColumn
<1>4. CASE w = 3
  BY <1>4 DEF TextColumn
<1>5. CASE w = 4
  BY <1>5 DEF TextColumn
<1> QED
  BY <1>1, <1>2, <1>3, <1>4, <1>5

(* A value of a plain body fits its column if the validation accepts it,   *)
(* or does not look at it.                                                 *)
LEMMA PlainFits ==
  ASSUME NEW f \in Fields, NEW v, NEW optional,
         f = "hintCost" \/ ValidOr(optional, f, v),
         v # Null \/ f = "allowedHeaders", v # Huge,
         f \in {"starterCode", "solution"} => v.width <= 2,
         f \in NameFields => v = Null \/ v <= TextColumn
  PROVE  Fits(f, v)
<1>1. CASE v = Null
  BY <1>1 DEF Fits
<1>2. CASE v # Null
  <2>1. ASSUME f \in TextFields \ {"title", "credits"} PROVE v.length * v.width <= TextColumn
    <3>1. Valid(f, v)
      BY <1>2, <2>1 DEF ValidOr, TextFields
    <3>2. v \in Texts /\ v.length \in 0 .. MaxLength(f)
      BY <3>1, <2>1 DEF Valid, TextFields, ListFields, NameFields, MinLength, Texts
    <3>3. v.length \in Nat /\ v.width \in 1 .. 4
      BY <3>2 DEF Texts
    <3>4. v.length <= 16383 \/ (v.length <= 32767 /\ v.width <= 2)
      BY <2>1, <3>2, <3>3 DEF MaxLength
    <3> QED
      BY <3>3, <3>4, Bytes
  <2> QED
    BY <1>2, <2>1 DEF Fits
<1> QED
  BY <1>1, <1>2

(* So do the defaults.                                                     *)
LEMMA DefaultFits ==
  ASSUME NEW f \in Fields
  PROVE  Fits(f, Default[f]) /\ Fits("hintCost", 0)
<1>1. Null \notin Int /\ Huge \notin Int /\ Null \notin Levels /\ Huge \notin Levels
      /\ Null \notin Texts /\ Huge \notin Texts /\ Null \notin Lists /\ Huge \notin Lists
  BY NullAssumption
<1>2. CASE f \in TextFields
  <2>1. Default[f] = [length |-> 0, width |-> 1]
    <3>1. /\ f \notin ListFields \union NameFields
          /\ f \notin {"timeLimit", "memoryLimit", "optimizationLevel"}
      BY <1>2 DEF TextFields, ListFields, NameFields
    <3> QED
      BY <1>2, <3>1 DEF Default
  <2>2. Default[f] \in Texts
    BY <2>1 DEF Texts
  <2> QED
    BY <1>1, <1>2, <2>1, <2>2 DEF Fits, TextColumn, TextFields, NameFields
<1>3. CASE f \in ListFields
  <2>1. Default[f] = [count |-> 0, longest |-> 0, size |-> 0]
    <3>1. /\ f \notin TextFields \union NameFields
          /\ f \notin {"timeLimit", "memoryLimit", "optimizationLevel"}
      BY <1>3 DEF TextFields, ListFields, NameFields
    <3> QED
      BY <1>3, <3>1 DEF Default
  <2>2. Default[f] \in Lists
    BY <2>1 DEF Lists
  <2> QED
    BY <1>1, <1>3, <2>2 DEF Fits, TextFields, ListFields, NameFields
<1>4. CASE f \in NameFields \union NumberFields \union EnumFields
  <2>1. Default[f] \in Int \union Levels
    <3>1. f \notin TextFields \union ListFields
      BY <1>4 DEF TextFields, ListFields, NameFields, NumberFields, EnumFields
    <3>2. Default[f] \in {0, 1000, 32 * Mi, "O1"}
      <4>1. f \in NameFields => f \notin {"timeLimit", "memoryLimit", "optimizationLevel"}
        BY DEF NameFields
      <4> QED
        BY <3>1, <4>1 DEF Default
    <3>3. 32 * Mi \in Int /\ 0 \in Int /\ 1000 \in Int
      BY DEF Mi
    <3>4. "O1" \in Levels
      BY DEF Levels
    <3> QED
      BY <3>2, <3>3, <3>4
  <2>2. f \in NameFields => Default[f] = 0
    BY DEF Default, Fields, TextFields, ListFields, NameFields
  <2> QED
    BY <1>1, <1>4, <2>1, <2>2
       DEF Fits, TextColumn, TextFields, ListFields, NameFields, NumberFields, EnumFields
<1> QED
  BY <1>2, <1>3, <1>4 DEF Fields

(* The transformations leave alone what Plain speaks of, and cannot make a *)
(* value that was accepted Null or Huge.                                   *)
LEMMA TransformedPlain ==
  ASSUME NEW b, DOMAIN b \subseteq Fields, Plain(b),
         \A f \in DOMAIN b \intersect EnumFields : Valid(f, Transformed(b)[f])
  PROVE  /\ DOMAIN Transformed(b) = DOMAIN b
         /\ \A f \in DOMAIN b \ EnumFields : Transformed(b)[f] = b[f]
         /\ \A f \in DOMAIN b :
              (Transformed(b)[f] # Null \/ f = "allowedHeaders") /\ Transformed(b)[f] # Huge
<1>1. DOMAIN Transformed(b) = DOMAIN b
  BY DEF Transformed
<1>2. \A f \in DOMAIN b \ EnumFields : Transformed(b)[f] = b[f]
  BY DEF Transformed, EnumFields
<1>3. \A f \in DOMAIN b \intersect EnumFields : Transformed(b)[f] \in Languages \union Levels
  BY DEF Valid, EnumFields, TextFields, ListFields, NameFields
<1> QED
  BY <1>1, <1>2, <1>3, NullAssumption DEF Plain

(* Whatever part of an accepted plain body is written fits its columns.    *)
LEMMA PlainValuesFit ==
  ASSUME NEW b, DOMAIN b \subseteq Fields, Plain(b), NEW optional,
         \A f \in DOMAIN b \ {"hintCost"} : ValidOr(optional, f, Transformed(b)[f]),
         optional \subseteq Fields, ~Throws(b)
  PROVE  \A f \in DOMAIN b : Fits(f, Transformed(b)[f])
<1> DEFINE c == Transformed(b)
<1>1. \A f \in DOMAIN b \intersect EnumFields : Valid(f, c[f])
  <2>1. ASSUME NEW f \in DOMAIN b \intersect EnumFields PROVE Valid(f, c[f])
    <3>1. ValidOr(optional, f, c[f])
      BY DEF EnumFields
    <3>2. b[f] # Null
      BY DEF Throws
    <3>3. c[f] # Null
      <4>1. Null \notin Languages \union Levels \union {"OG", "OS", "OFAST"}
        BY NullAssumption
      <4>2. c[f] = b[f] \/ c[f] \in {"c17", "c++17", "OG", "OS", "OFAST", "O1"}
        BY DEF Transformed, LowerCase, UpperCase
      <4> QED
        BY <3>2, <4>1, <4>2 DEF Languages, Levels
    <3> QED
      BY <3>1, <3>3 DEF ValidOr
  <2> QED
    BY <2>1
<1>2. /\ DOMAIN c = DOMAIN b
      /\ \A f \in DOMAIN b \ EnumFields : c[f] = b[f]
      /\ \A f \in DOMAIN b : (c[f] # Null \/ f = "allowedHeaders") /\ c[f] # Huge
  BY <1>1, TransformedPlain
<1>3. ASSUME NEW f \in DOMAIN b PROVE Fits(f, c[f])
  <2>1. f = "hintCost" \/ ValidOr(optional, f, c[f])
    OBVIOUS
  <2>2. f \in {"starterCode", "solution"} => c[f].width <= 2
    BY <1>2 DEF Plain, EnumFields
  <2>3. f \in NameFields => c[f] = Null \/ c[f] <= TextColumn
    BY <1>2 DEF Plain, EnumFields, NameFields
  <2> HIDE DEF c
  <2> QED
    BY <1>2, <2>1, <2>2, <2>3, PlainFits
<1> QED
  BY <1>3

(* A created row is made of the body and of defaults.                      *)
LEMMA CreatedFits ==
  ASSUME NEW b, DOMAIN b \subseteq Fields, \A f \in DOMAIN b : Fits(f, b[f])
  PROVE  \A f \in Fields : Fits(f, Created(b)[f])
<1> SUFFICES ASSUME NEW f \in Fields PROVE Fits(f, Created(b)[f])
  OBVIOUS
<1>1. (Created(b)[f] = 0 /\ f = "hintCost") \/ Created(b)[f] = Given(b, f)
  BY DEF Created
<1>2. (Given(b, f) = b[f] /\ f \in DOMAIN b) \/ Given(b, f) = Default[f]
  BY DEF Given
<1> QED
  BY <1>1, <1>2, DefaultFits

(* Neither the row nor what has changed is larger than the body.           *)
LEMMA Smaller ==
  ASSUME NEW b, NEW row, Size(b) <= Packet,
         \A f \in ListFields \intersect DOMAIN b : b[f] \in Lists,
         \A f \in ListFields \intersect DOMAIN row :
           row[f] = Default[f] \/ (f \in DOMAIN b /\ row[f] = b[f])
  PROVE  Size(row) <= Packet
<1> DEFINE Part(r, f) == IF f \in DOMAIN r /\ r[f] # Null THEN r[f].size ELSE 0
<1>1. \A f \in ListFields : Default[f] = [count |-> 0, longest |-> 0, size |-> 0]
  BY DEF Default, Fields, TextFields, ListFields, NameFields, NumberFields, EnumFields
<1>2. \A f \in ListFields : Part(b, f) \in Nat
  BY DEF Lists
<1>3. \A f \in ListFields : Part(row, f) \in Nat /\ Part(row, f) <= Part(b, f)
  BY <1>1, <1>2
<1>4. /\ Size(b) = Part(b, "testcases") + Part(b, "exampleTestcases")
      /\ Size(row) = Part(row, "testcases") + Part(row, "exampleTestcases")
  BY DEF Size
<1> HIDE DEF Part
<1> QED
  BY <1>2, <1>3, <1>4 DEF ListFields, Packet

LEMMA NextStored ==
  ASSUME NEW b \in Bodies, Plain(b), CreateProblem(b) \/ UpdateProblem(b)
  PROVE  answer' # "server_error"
<1> DEFINE c == Transformed(b)
<1>1. DOMAIN b \subseteq Fields /\ DOMAIN c = DOMAIN b
  BY BodiesAssumption DEF Transformed
<1>2. ~Throws(b)
  BY DEF Throws, Plain, EnumFields
<1>3. \A f \in ListFields \intersect DOMAIN b : c[f] = b[f] /\ b[f] # Null
  BY DEF Transformed, ListFields, Plain
<1>4. Size(c) <= Packet
  BY <1>1, <1>3 DEF Plain, Size, ListFields
<1> HIDE DEF c
<1>5. ASSUME NEW optional, optional \subseteq Fields,
             \A f \in DOMAIN b \ {"hintCost"} : ValidOr(optional, f, c[f])
      PROVE  /\ \A f \in DOMAIN b : Fits(f, c[f])
             /\ \A f \in ListFields \intersect DOMAIN c : c[f] \in Lists
  <2>1. \A f \in DOMAIN b : Fits(f, c[f])
    BY <1>1, <1>2, <1>5, PlainValuesFit DEF c
  <2>2. \A f \in ListFields \intersect DOMAIN c : Valid(f, c[f])
    BY <1>1, <1>3, <1>5 DEF ValidOr, ListFields
  <2> QED
    BY <2>1, <2>2, ValidLists
<1>6. CASE CreateProblem(b)
  <2>1. answer' = Outcome(b, AcceptsCreate(c), Created(c))
    BY <1>6 DEF CreateProblem, c
  <2>2. ASSUME AcceptsCreate(c) PROVE Storable(Created(c))
    <3>1. \A f \in DOMAIN b \ {"hintCost"} : ValidOr(Fields \ Required, f, c[f])
      BY <1>1, <2>2 DEF AcceptsCreate
    <3>2. /\ \A f \in DOMAIN c : Fits(f, c[f])
          /\ \A f \in ListFields \intersect DOMAIN c : c[f] \in Lists
      BY <1>1, <1>5, <3>1
    <3>3. \A f \in Fields : Fits(f, Created(c)[f])
      BY <1>1, <3>2, CreatedFits
    <3>4. \A f \in ListFields \intersect DOMAIN Created(c) :
            Created(c)[f] = Default[f] \/ (f \in DOMAIN c /\ Created(c)[f] = c[f])
      BY DEF Created, Given, ListFields
    <3>5. Size(Created(c)) <= Packet
      BY <1>4, <3>2, <3>4, Smaller
    <3> QED
      BY <3>3, <3>5 DEF Storable, Created
  <2> QED
    BY <1>2, <2>1, <2>2 DEF Outcome
<1>7. CASE UpdateProblem(b)
  <2> DEFINE changed == [f \in {g \in DOMAIN c : c[g] # stored[g]} |-> c[f]]
  <2>1. answer' = Outcome(b, AcceptsUpdate(c), changed)
    BY <1>1, <1>7 DEF UpdateProblem, c
  <2>2. ASSUME AcceptsUpdate(c) PROVE Storable(changed)
    <3>1. \A f \in DOMAIN b \ {"hintCost"} : ValidOr(Fields, f, c[f])
      BY <1>1, <2>2 DEF AcceptsUpdate
    <3>2. /\ \A f \in DOMAIN c : Fits(f, c[f])
          /\ \A f \in ListFields \intersect DOMAIN c : c[f] \in Lists
      BY <1>1, <1>5, <3>1
    <3>3. \A f \in ListFields \intersect DOMAIN changed : f \in DOMAIN c /\ changed[f] = c[f]
      OBVIOUS
    <3>4. Size(changed) <= Packet
      BY <1>4, <3>2, <3>3, Smaller
    <3> QED
      BY <3>2, <3>4 DEF Storable
  <2> QED
    BY <1>2, <2>1, <2>2 DEF Outcome
<1> QED
  BY <1>6, <1>7

(* For any bodies: a plain body is refused by name or stored, and never    *)
(* fails at the database.                                                  *)
THEOREM PlainNeverFails == ContractSpec => PlainBodiesStored
<1>1. [ContractNext]_contractVars =>
        [answer' = "server_error" =>
           \A b \in Bodies : Plain(b) => ~(CreateProblem(b) \/ UpdateProblem(b))]_contractVars
  BY NextStored
<1> QED
  BY <1>1, PTL DEF ContractSpec, PlainBodiesStored

-----------------------------------------------------------------------------
(* Saves.  As long as requests have not overlapped there is at most one    *)
(* under way (SaveAlone), no row is ahead of the clock, the time that the  *)
(* request has taken is not behind any row, and rows that were written     *)
(* later have a later time or the same.                                    *)
SaveAlone == \A q, s \in Savers : saver[q] # Idle /\ saver[s] # Idle => q = s

InTime ==
  /\ \A i \in SaveIds : save[i] # NoSave => save[i].updatedAt <= clock
  /\ \A q \in Savers, i \in SaveIds :
       saver[q].step \in {"inserting", "updating"} =>
         saver[q].time <= clock /\ (save[i] # NoSave => save[i].updatedAt <= saver[q].time)
  /\ \A i, j \in SaveIds : <<i, j>> \in later =>
       /\ save[i] # NoSave /\ save[j] # NoSave
       /\ save[i].updatedAt <= save[j].updatedAt

SavesInv == SavesTypeOK /\ (~overlapped => SaveAlone /\ InTime)

LEMMA SavesTyped == SavesTypeOK /\ [SavesNext]_savesVars => SavesTypeOK'
<1> SUFFICES ASSUME SavesTypeOK, [SavesNext]_savesVars PROVE SavesTypeOK'
  OBVIOUS
<1> USE MaxTimeAssumption DEF SavesTypeOK
<1>1. ASSUME NEW q \in Savers, NEW i \in SaveIds, NEW c \in Codes, CreateSave(q, i, c)
      PROVE  SavesTypeOK'
  <2>1. [step |-> "inserting", id |-> i, seen |-> c, code |-> c, time |-> clock] \in Writing
    BY DEF Writing
  <2> QED
    BY <1>1, <2>1 DEF CreateSave, BeginSave
<1>2. ASSUME NEW q \in Savers, NEW i \in SaveIds, NEW c \in Codes, NEW l \in BOOLEAN,
             LoadSave(q, i, c, l)
      PROVE  SavesTypeOK'
  <2>1. save[i].code \in Codes
    BY <1>2 DEF LoadSave, Saved
  <2>2. [step |-> "loaded", id |-> i, seen |-> save[i].code, code |-> c, language |-> l] \in Loaded
    BY <2>1 DEF Loaded
  <2> QED
    BY <1>2, <2>2 DEF LoadSave, BeginSave
<1>3. ASSUME NEW q \in Savers, FlushSave(q) PROVE SavesTypeOK'
  <2>1. saver[q] \in Loaded
    BY <1>3 DEF FlushSave, Idle, Loaded, Writing
  <2>2. [step |-> "updating", id |-> saver[q].id, seen |-> saver[q].seen, code |-> saver[q].code,
         time |-> clock] \in Writing
    BY <2>1 DEF Loaded, Writing
  <2> QED
    BY <1>3, <2>2 DEF FlushSave
<1>4. ASSUME NEW q \in Savers, WriteSave(q) PROVE SavesTypeOK'
  <2>1. saver[q] \in Writing
    BY <1>4 DEF WriteSave, Idle, Loaded, Writing
  <2>2. /\ saver[q].id \in SaveIds /\ saver[q].code \in Codes
        /\ saver[q].time \in 0 .. MaxTime
    BY <2>1 DEF Writing
  <2>3. save' \in [SaveIds -> Saved \union {NoSave}]
    BY <1>4, <2>2 DEF WriteSave, Saved
  <2>4. later' \subseteq SaveIds \X SaveIds
    BY <1>4, <2>2 DEF WriteSave
  <2> QED
    BY <1>4, <2>3, <2>4 DEF WriteSave
<1>5. ASSUME NEW q \in Savers, LoseSave(q) PROVE SavesTypeOK'
  BY <1>5 DEF LoseSave
<1>6. ASSUME NEW i \in SaveIds, RemoveSave(i) PROVE SavesTypeOK'
  BY <1>6 DEF RemoveSave
<1>7. ASSUME TickSave PROVE SavesTypeOK'
  BY <1>7 DEF TickSave
<1>8. ASSUME UNCHANGED savesVars PROVE SavesTypeOK'
  BY <1>8 DEF savesVars
<1> QED
  BY <1>1, <1>2, <1>3, <1>4, <1>5, <1>6, <1>7, <1>8 DEF SavesNext

LEMMA SavesKept == SavesInv /\ [SavesNext]_savesVars => SavesInv'
<1> SUFFICES ASSUME SavesInv, [SavesNext]_savesVars, SavesTypeOK', ~overlapped'
             PROVE  SaveAlone' /\ InTime'
  BY SavesTyped DEF SavesInv
<1>0. ~overlapped
  BY DEF SavesNext, CreateSave, LoadSave, BeginSave, FlushSave, WriteSave, LoseSave, RemoveSave,
         TickSave, savesVars, SavesInv, SavesTypeOK
<1>a. SaveAlone /\ InTime /\ SavesTypeOK
  BY <1>0 DEF SavesInv
<1>b. /\ clock \in Nat
      /\ \A i \in SaveIds : save[i] # NoSave => save[i].updatedAt \in Nat
      /\ \A q \in Savers : saver[q].step \in {"inserting", "updating"} =>
           saver[q].time \in Nat /\ saver[q].id \in SaveIds /\ saver[q] \in Writing
  BY <1>a, MaxTimeAssumption DEF SavesTypeOK, Saved, Writing, Loaded, Idle
<1>1. ASSUME NEW q \in Savers, NEW i \in SaveIds, NEW c \in Codes, CreateSave(q, i, c)
      PROVE  SaveAlone' /\ InTime'
  <2>1. \A s \in Savers : saver[s] = Idle
    BY <1>1 DEF CreateSave, BeginSave
  <2>2. /\ saver' = [saver EXCEPT ![q] = [step |-> "inserting", id |-> i, seen |-> c,
                                        code |-> c, time |-> clock]]
        /\ UNCHANGED <<save, clock, later>>
    BY <1>1 DEF CreateSave, BeginSave
  <2>3. \A s \in Savers \ {q} : saver'[s] = Idle /\ Idle.step = "idle"
    BY <2>1, <2>2 DEF Idle
  <2>4. saver'[q].time = clock
    BY <1>a, <2>2 DEF SavesTypeOK
  <2> QED
    BY <1>a, <1>b, <2>2, <2>3, <2>4 DEF SaveAlone, InTime
<1>2. ASSUME NEW q \in Savers, NEW i \in SaveIds, NEW c \in Codes, NEW l \in BOOLEAN,
             LoadSave(q, i, c, l)
      PROVE  SaveAlone' /\ InTime'
  <2>1. \A s \in Savers : saver[s] = Idle
    BY <1>2 DEF LoadSave, BeginSave
  <2>2. saver'[q].step = "loaded" /\ UNCHANGED <<save, clock, later>>
    BY <1>2, <1>a DEF LoadSave, BeginSave, SavesTypeOK
  <2>3. \A s \in Savers \ {q} : saver'[s] = Idle /\ Idle.step = "idle"
    BY <1>2, <2>1 DEF LoadSave, BeginSave, Idle
  <2> QED
    BY <1>a, <2>2, <2>3 DEF SaveAlone, InTime
<1>3. ASSUME NEW q \in Savers, FlushSave(q) PROVE SaveAlone' /\ InTime'
  <2>1. saver[q] # Idle /\ UNCHANGED <<save, clock, later>>
    BY <1>3 DEF FlushSave, Idle
  <2>2. \A s \in Savers \ {q} : saver'[s] = saver[s] /\ saver[s] = Idle /\ Idle.step = "idle"
    BY <1>3, <1>a, <2>1 DEF FlushSave, SaveAlone, Idle
  <2>3. saver'[q] = Idle \/ saver'[q].time = clock
    BY <1>3, <1>a DEF FlushSave, SavesTypeOK
  <2>4. Idle.step = "idle"
    BY DEF Idle
  <2> QED
    BY <1>a, <1>b, <2>1, <2>2, <2>3, <2>4 DEF SaveAlone, InTime
<1>4. ASSUME NEW q \in Savers, WriteSave(q) PROVE SaveAlone' /\ InTime'
  <2> DEFINE i == saver[q].id
  <2>1. saver[q].step \in {"inserting", "updating"} /\ clock' = clock /\ i \in SaveIds
    BY <1>4, <1>b DEF WriteSave
  <2>2. \A s \in Savers : saver'[s] = Idle /\ Idle.step = "idle"
    BY <1>4, <1>a, <2>1 DEF WriteSave, SaveAlone, Idle, SavesTypeOK
  <2>3. CASE UNCHANGED <<save, later>>
    BY <1>a, <2>1, <2>2, <2>3 DEF SaveAlone, InTime
  <2>4. CASE /\ save'[i] # NoSave /\ save'[i].updatedAt = saver[q].time
             /\ \A k \in SaveIds \ {i} : save'[k] = save[k]
             /\ later' = {p \in later : p[1] # i}
                   \union {<<j, i>> : j \in {k \in SaveIds : k # i /\ save[k] # NoSave}}
    <3>1. \A k \in SaveIds : save'[k] # NoSave => save'[k].updatedAt <= saver[q].time
      BY <1>a, <1>b, <2>1, <2>4 DEF InTime
    <3>2. saver[q].time <= clock
      BY <1>a, <2>1 DEF InTime
    <3>3. \A k \in SaveIds : save'[k] # NoSave => save'[k].updatedAt <= clock'
      <4>1. \A k \in SaveIds : save'[k] # NoSave => save'[k].updatedAt \in Nat
        BY <1>b, <2>1, <2>4
      <4> QED
        BY <1>b, <2>1, <3>1, <3>2, <4>1
    <3>4. ASSUME NEW k \in SaveIds, NEW j \in SaveIds, <<k, j>> \in later'
          PROVE  /\ save'[k] # NoSave /\ save'[j] # NoSave
                 /\ save'[k].updatedAt <= save'[j].updatedAt
      <4>1. k # i /\ save[k] # NoSave /\ (j = i \/ <<k, j>> \in later)
        BY <1>a, <2>4, <3>4 DEF InTime
      <4>2. CASE j = i
        BY <2>4, <3>1, <4>1, <4>2
      <4>3. CASE j # i
        BY <1>a, <2>4, <4>1, <4>3 DEF InTime
      <4> QED
        BY <4>2, <4>3
    <3> QED
      BY <2>2, <3>3, <3>4 DEF SaveAlone, InTime
  <2>5. \/ UNCHANGED <<save, later>>
        \/ /\ save'[i] # NoSave /\ save'[i].updatedAt = saver[q].time
           /\ \A k \in SaveIds \ {i} : save'[k] = save[k]
           /\ later' = {p \in later : p[1] # i}
                 \union {<<j, i>> : j \in {k \in SaveIds : k # i /\ save[k] # NoSave}}
    <3> DEFINE writes == saver[q].step = "inserting" \/ save[i] # NoSave
               code == IF saver[q].step = "inserting" \/ saver[q].code # saver[q].seen
                       THEN saver[q].code ELSE save[i].code
               new == [code |-> code, updatedAt |-> saver[q].time]
    <3>1. CASE ~writes
      BY <1>4, <3>1 DEF WriteSave
    <3>2. CASE writes
      <4>1. save' = [save EXCEPT ![i] = new]
        BY <1>4, <3>2 DEF WriteSave
      <4>2. later' = {p \in later : p[1] # i}
                 \union {<<j, i>> : j \in {k \in SaveIds : k # i /\ save[k] # NoSave}}
        BY <1>4, <3>2 DEF WriteSave
      <4>3. saver[q] \in Writing
        BY <1>b, <2>1
      <4>4. new \in Saved
        BY <1>a, <3>2, <4>3 DEF Saved, Writing, SavesTypeOK
      <4>5. new # NoSave
        BY <4>4, NoSaveAssumption DEF Saved
      <4>6. save'[i] = new /\ \A k \in SaveIds \ {i} : save'[k] = save[k]
        BY <1>a, <2>1, <4>1 DEF SavesTypeOK
      <4> QED
        BY <4>2, <4>5, <4>6
    <3> QED
      BY <3>1, <3>2
  <2> QED
    BY <2>3, <2>4, <2>5
<1>5. ASSUME NEW q \in Savers, LoseSave(q) PROVE SaveAlone' /\ InTime'
  <2>1. \A s \in Savers : saver'[s] = Idle \/ saver'[s] = saver[s]
    BY <1>5, <1>a DEF LoseSave, SavesTypeOK
  <2>2. Idle.step = "idle" /\ UNCHANGED <<save, clock, later>>
    BY <1>5 DEF Idle, LoseSave
  <2> QED
    BY <1>a, <2>1, <2>2 DEF SaveAlone, InTime
<1>6. ASSUME NEW i \in SaveIds, RemoveSave(i) PROVE SaveAlone' /\ InTime'
  <2>1. /\ \A k \in SaveIds : save'[k] = IF k = i THEN NoSave ELSE save[k]
        /\ UNCHANGED <<clock, saver>>
    BY <1>6, <1>a DEF RemoveSave, SavesTypeOK
  <2>2. \A k, j \in SaveIds : <<k, j>> \in later' => <<k, j>> \in later /\ k # i /\ j # i
    BY <1>6 DEF RemoveSave
  <2> QED
    BY <1>a, <2>1, <2>2 DEF SaveAlone, InTime
<1>7. ASSUME TickSave PROVE SaveAlone' /\ InTime'
  BY <1>7, <1>a, <1>b DEF TickSave, SaveAlone, InTime
<1>8. ASSUME UNCHANGED savesVars PROVE SaveAlone' /\ InTime'
  BY <1>8, <1>a DEF savesVars, SaveAlone, InTime
<1> QED
  BY <1>1, <1>2, <1>3, <1>4, <1>5, <1>6, <1>7, <1>8 DEF SavesNext

(* For any number of saves and requests: as long as requests have not      *)
(* overlapped, the save that is found is the one that was written last.    *)
THEOREM LastIsFound == SavesSpec => []LatestFound
<1>1. SavesInit => SavesInv
  <2> SUFFICES ASSUME SavesInit PROVE SavesInv
    OBVIOUS
  <2>1. SavesTypeOK
    <3>1. save \in [SaveIds -> Saved \union {NoSave}] /\ saver \in [Savers -> {Idle} \union Loaded \union Writing]
      BY DEF SavesInit
    <3>2. clock \in 0 .. MaxTime
      BY MaxTimeAssumption DEF SavesInit
    <3>3. later \subseteq SaveIds \X SaveIds /\ overlapped \in BOOLEAN
      BY DEF SavesInit
    <3> QED
      BY <3>1, <3>2, <3>3 DEF SavesTypeOK
  <2>2. \A q \in Savers : saver[q] = Idle /\ Idle.step = "idle"
    BY DEF SavesInit, Idle
  <2> QED
    BY <2>1, <2>2 DEF SavesInit, SavesInv, SaveAlone, InTime
<1>2. SavesInv => LatestFound
  <2> SUFFICES ASSUME SavesInv, ~overlapped, NEW i \in Found, NEW j \in SaveIds,
                      <<i, j>> \in later
               PROVE  j \in Found
    BY DEF LatestFound
  <2>1. i \in SaveIds /\ save[i] # NoSave /\ save[j] # NoSave
    BY DEF SavesInv, InTime, Found
  <2>2. save[i].updatedAt <= save[j].updatedAt
    BY <2>1 DEF SavesInv, InTime
  <2>3. \A k \in SaveIds : save[k] # NoSave => save[k].updatedAt \in Nat
    BY MaxTimeAssumption DEF SavesInv, SavesTypeOK, Saved
  <2> QED
    BY <2>1, <2>2, <2>3 DEF Found
<1> QED
  BY <1>1, <1>2, SavesKept, PTL DEF SavesSpec

-----------------------------------------------------------------------------
(* Unique names.  A request that still wants a name that another row has   *)
(* by now was beaten to it, unless it never counted.                       *)
OneRowEach == \A r, q \in RowIds : name[r] = name[q] /\ name[r] # NoName => r = q

BeatenKnown ==
  \A s \in Writers :
    /\ writer[s].step = "creating" /\ InUse(writer[s].wanted, RowIds) => beaten[s]
    /\ writer[s].step = "renaming" /\ countsFirst
         /\ InUse(writer[s].wanted, RowIds \ {writer[s].id}) => beaten[s]

NamesInv == NamesTypeOK /\ OneRowEach /\ BeatenKnown /\ NamesGuarded

LEMMA NamesKept == NamesInv /\ [NamesNext]_namesVars => NamesInv'
<1> SUFFICES ASSUME NamesInv, [NamesNext]_namesVars PROVE NamesInv'
  OBVIOUS
<1>a. NamesTypeOK /\ OneRowEach /\ BeatenKnown /\ NamesGuarded
  BY DEF NamesInv
<1>b. \A s \in Writers : writer[s] # Resting => writer[s] \in Requests
  BY <1>a DEF NamesTypeOK
<1>c. /\ Resting.step = "idle"
      /\ \A s \in Writers : writer[s] # Resting =>
           writer[s].wanted \in Names /\ writer[s].step \in {"creating", "renaming"}
      /\ \A s \in Writers : writer[s].step = "renaming" => writer[s].id \in RowIds
  BY <1>b DEF Requests, Resting
<1>1. ASSUME NEW s \in Writers, NEW n \in Names, CountForCreate(s, n) PROVE NamesInv'
  <2> DEFINE request == [step |-> "creating", wanted |-> n]
  <2>1. UNCHANGED <<name, countsFirst>> /\ beaten' = [beaten EXCEPT ![s] = FALSE]
    BY <1>1 DEF CountForCreate, Counted
  <2>2. \/ /\ writer' = [writer EXCEPT ![s] = Resting]
           /\ reply' = [reply EXCEPT ![s] = "in_use"]
        \/ /\ ~InUse(n, RowIds) /\ writer' = [writer EXCEPT ![s] = request]
           /\ reply' = [reply EXCEPT ![s] = "none"]
    BY <1>1 DEF CountForCreate, Counted, Answers
  <2>3. request \in Requests
    BY DEF Requests
  <2>4. NamesTypeOK'
    BY <1>a, <2>1, <2>2, <2>3 DEF NamesTypeOK, Replies
  <2>5. OneRowEach' /\ NamesGuarded'
    BY <1>a, <2>1, <2>2 DEF OneRowEach, NamesGuarded, NamesTypeOK
  <2>6. BeatenKnown'
    BY <1>a, <1>c, <2>1, <2>2 DEF BeatenKnown, InUse, NamesTypeOK
  <2> QED
    BY <2>4, <2>5, <2>6 DEF NamesInv
<1>2. ASSUME NEW s \in Writers, NEW r \in RowIds, NEW n \in Names, CountForRename(s, r, n)
      PROVE  NamesInv'
  <2> DEFINE request == [step |-> "renaming", wanted |-> n, id |-> r]
  <2>1. UNCHANGED <<name, countsFirst>> /\ beaten' = [beaten EXCEPT ![s] = FALSE]
    BY <1>2 DEF CountForRename, Counted
  <2>2. \/ /\ writer' = [writer EXCEPT ![s] = Resting]
           /\ reply' = [reply EXCEPT ![s] = "in_use"]
        \/ /\ ~(countsFirst /\ InUse(n, RowIds \ {r}))
           /\ writer' = [writer EXCEPT ![s] = request]
           /\ reply' = [reply EXCEPT ![s] = "none"]
    BY <1>2 DEF CountForRename, Counted, Answers
  <2>3. request \in Requests
    BY DEF Requests
  <2>4. NamesTypeOK'
    BY <1>a, <2>1, <2>2, <2>3 DEF NamesTypeOK, Replies
  <2>5. OneRowEach' /\ NamesGuarded'
    BY <1>a, <2>1, <2>2 DEF OneRowEach, NamesGuarded, NamesTypeOK
  <2>6. BeatenKnown'
    BY <1>a, <1>c, <2>1, <2>2 DEF BeatenKnown, InUse, NamesTypeOK
  <2> QED
    BY <2>4, <2>5, <2>6 DEF NamesInv
<1>3. ASSUME NEW s \in Writers, NEW r \in RowIds, NEW error \in {"error_creating", "error_renaming"},
             writer[s] # Resting, Write(s, r, error), UNCHANGED countsFirst,
             \/ writer[s].step = "creating" /\ error = "error_creating"
             \/ writer[s].step = "renaming" /\ error = "error_renaming" /\ writer[s].id = r,
             \A q \in Writers : writer[q].step = "renaming" /\ name[r] = NoName => writer[q].id # r
      PROVE  NamesInv'
  <2> DEFINE n == writer[s].wanted
             taken == InUse(n, RowIds \ {r})
  <2>1. /\ writer' = [writer EXCEPT ![s] = Resting] /\ n \in Names
        /\ reply' = [reply EXCEPT ![s] = IF taken THEN error ELSE "done"]
    BY <1>3, <1>c DEF Write, Answers
  <2>2. CASE taken
    <3>1. UNCHANGED <<name, beaten>>
      BY <1>3, <2>2 DEF Write
    <3>2. error = "error_creating" => beaten[s]
      BY <1>3, <1>a, <2>2 DEF BeatenKnown, InUse
    <3>3. error = "error_renaming" => beaten[s] \/ ~countsFirst
      BY <1>3, <1>a, <2>2 DEF BeatenKnown
    <3>4. NamesTypeOK' /\ OneRowEach'
      BY <1>3, <1>a, <2>1, <2>2, <3>1 DEF NamesTypeOK, OneRowEach, Replies
    <3>5. BeatenKnown'
      BY <1>3, <1>a, <1>c, <2>1, <3>1 DEF BeatenKnown, InUse, NamesTypeOK
    <3>6. NamesGuarded'
      BY <1>3, <1>a, <2>1, <2>2, <3>1, <3>2, <3>3, <3>4 DEF NamesGuarded, NamesTypeOK, OneRowEach
    <3> QED
      BY <3>4, <3>5, <3>6 DEF NamesInv
  <2>3. CASE ~taken
    <3>1. /\ name' = [name EXCEPT ![r] = n]
          /\ beaten' = [q \in Writers |-> beaten[q] \/ (q # s /\ writer[q] # Resting
                                                      /\ writer[q].wanted = n)]
      BY <1>3, <2>3 DEF Write
    <3>2. NamesTypeOK'
      BY <1>3, <1>a, <2>1, <2>3, <3>1 DEF NamesTypeOK, Replies
    <3>3. \A q \in RowIds \ {r} : name[q] # n
      BY <2>3 DEF InUse
    <3>4. OneRowEach'
      BY <1>a, <3>1, <3>3 DEF OneRowEach, NamesTypeOK
    <3>5. \A q \in Writers : beaten[q] => beaten'[q]
      BY <3>1
    <3>6. ASSUME NEW q \in Writers, writer'[q].step \in {"creating", "renaming"}
          PROVE  /\ q # s /\ writer'[q] = writer[q]
                 /\ writer[q].wanted = n => beaten'[q]
      BY <1>a, <1>c, <2>1, <3>1, <3>6 DEF NamesTypeOK
    <3>7. \A rows \in SUBSET RowIds, m \in Names :
            m # n /\ InUse(m, rows)' => InUse(m, rows)
      BY <1>a, <3>1 DEF InUse, NamesTypeOK
    <3>8. BeatenKnown'
      <4>1. ASSUME NEW q \in Writers, writer'[q].step = "creating",
                   InUse(writer[q].wanted, RowIds)'
            PROVE  beaten'[q]
        BY <1>a, <1>c, <3>5, <3>6, <3>7, <4>1 DEF BeatenKnown
      <4>2. ASSUME NEW q \in Writers, writer'[q].step = "renaming", countsFirst,
                   InUse(writer[q].wanted, RowIds \ {writer[q].id})'
            PROVE  beaten'[q]
        BY <1>a, <1>c, <3>5, <3>6, <3>7, <4>2 DEF BeatenKnown
      <4> QED
        BY <1>3, <3>6, <4>1, <4>2 DEF BeatenKnown, InUse
    <3>9. NamesGuarded'
      BY <1>3, <1>a, <2>1, <2>3, <3>4, <3>5 DEF NamesGuarded, NamesTypeOK, OneRowEach
    <3> QED
      BY <3>2, <3>4, <3>8, <3>9 DEF NamesInv
  <2> QED
    BY <2>2, <2>3
<1>4. ASSUME NEW s \in Writers, NEW r \in RowIds, InsertName(s, r) PROVE NamesInv'
  BY <1>3, <1>4, <1>c DEF InsertName
<1>5. ASSUME NEW s \in Writers, UpdateName(s) PROVE NamesInv'
  <2>1. writer[s].step = "renaming" /\ writer[s] # Resting /\ writer[s].id \in RowIds
    BY <1>5, <1>c DEF UpdateName
  <2>2. CASE name[writer[s].id] # NoName
    BY <1>3, <1>5, <2>1, <2>2 DEF UpdateName
  <2>3. CASE name[writer[s].id] = NoName
    <3>1. /\ writer' = [writer EXCEPT ![s] = Resting]
          /\ reply' = [reply EXCEPT ![s] = "gone"]
          /\ UNCHANGED <<name, beaten, countsFirst>>
      BY <1>5, <2>3 DEF UpdateName, Answers
    <3>2. NamesTypeOK' /\ OneRowEach' /\ NamesGuarded'
      BY <1>a, <3>1 DEF NamesTypeOK, OneRowEach, NamesGuarded, Replies
    <3>3. BeatenKnown'
      BY <1>a, <1>c, <3>1 DEF BeatenKnown, InUse, NamesTypeOK
    <3> QED
      BY <3>2, <3>3 DEF NamesInv
  <2> QED
    BY <2>2, <2>3
<1>6. ASSUME NEW r \in RowIds, RemoveRow(r) PROVE NamesInv'
  <2>1. /\ \A q \in RowIds : name'[q] = IF q = r THEN NoName ELSE name[q]
        /\ UNCHANGED <<countsFirst, writer, reply, beaten>>
    BY <1>6, <1>a DEF RemoveRow, NamesTypeOK
  <2>2. NamesTypeOK'
    BY <1>6, <1>a DEF RemoveRow, NamesTypeOK
  <2>3. OneRowEach' /\ NamesGuarded'
    BY <1>a, <2>1 DEF OneRowEach, NamesGuarded
  <2>4. \A rows \in SUBSET RowIds, m \in Names : InUse(m, rows)' => InUse(m, rows)
    BY <2>1, NoNameAssumption DEF InUse
  <2>5. BeatenKnown'
    <3>1. ASSUME NEW s \in Writers, writer[s].step = "creating",
                 InUse(writer[s].wanted, RowIds)'
          PROVE  beaten[s]
      BY <1>a, <1>c, <2>1, <2>4, <3>1 DEF BeatenKnown
    <3>2. ASSUME NEW s \in Writers, writer[s].step = "renaming", countsFirst,
                 InUse(writer[s].wanted, RowIds \ {writer[s].id})'
          PROVE  beaten[s]
      BY <1>a, <1>c, <2>1, <2>4, <3>2 DEF BeatenKnown
    <3> QED
      BY <2>1, <3>1, <3>2 DEF BeatenKnown, InUse
  <2> QED
    BY <2>2, <2>3, <2>5 DEF NamesInv
<1>7. ASSUME UNCHANGED namesVars PROVE NamesInv'
  BY <1>7, <1>a DEF namesVars, NamesInv, NamesTypeOK, OneRowEach, BeatenKnown, NamesGuarded, InUse
<1> QED
  BY <1>1, <1>2, <1>4, <1>5, <1>6, <1>7 DEF NamesNext

(* For any number of rows, names and overlapping requests: no two rows     *)
(* have one name, and only those who were beaten to a name, or rename a    *)
(* tag or a group, are shown an error of the database.                     *)
THEOREM GuardedNames == NamesSpec => []NamesGuarded
<1>1. NamesInit => NamesInv
  <2> SUFFICES ASSUME NamesInit PROVE NamesInv
    OBVIOUS
  <2>1. NamesTypeOK
    BY DEF NamesInit, NamesTypeOK, Replies
  <2>2. \A s \in Writers : writer[s] = Resting /\ Resting.step = "idle"
    BY DEF NamesInit, Resting
  <2> QED
    BY <2>1, <2>2 DEF NamesInit, NamesInv, OneRowEach, BeatenKnown, NamesGuarded
<1> QED
  BY <1>1, NamesKept, PTL DEF NamesSpec, NamesInv

=============================================================================
