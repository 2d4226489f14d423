------------------------- MODULE CompileAndRunProofs -------------------------
(***************************************************************************)
(* What TLAPS proves of CompileAndRun, for any number of requests, inputs, *)
(* boxes and crashes: that runs find their executable, that outputs come   *)
(* from the code of the request, and that the storage is released.         *)
(*                                                                         *)
(* The inductive invariant relates the handler of a request to its jobs:   *)
(*   Waiting    the queue lists jobs that wait, each once;                 *)
(*   Fresh      a job has no result before it has run;                     *)
(*   Building   the compilation is under way only while the handler awaits *)
(*              it, and what it has built is the executable there is;      *)
(*   Running    runs are under way only beside an executable, or after an  *)
(*              error, and have loaded what was built;                     *)
(*   Answering  outputs are those of runs that are all over.               *)
(*                                                                         *)
(* The second part is about Judge, which models what compileAndRun decides *)
(* and what its callers make of it, for any problems and programs:         *)
(*   JudgeInv   an answer is a function of the program (AnswerTo), and so  *)
(*              are the codes of a submission (CodesOf); what is verified  *)
(*              passes all tests;                                          *)
(*   ListsInv   what findAll() has read is the status the submissions had  *)
(*              when it read them, and submissions are only appended.      *)
(* What compareOutput() compares is not built by recursion here: what a    *)
(* text keeps is picked by rank (PickFacts).  Each normalisation keeps     *)
(* what is visible at its place (Keeps), and of two normal texts that show *)
(* the same neither can go on where the other does not (GoesOn), so they   *)
(* are equal (NormalIsUnique).                                             *)
(* The status computed by one pass over the submissions is a fold: that it *)
(* equals the direct one is proved for all sequences from the least index  *)
(* at which they differ.                                                   *)
(***************************************************************************)
EXTENDS CompileAndRun, Judge, SequenceTheorems, FiniteSetTheorems,
        WellFoundedInduction, TLAPS

WaitersQueued == \A i \in 1 .. Len(queue) : phase[queue[i]] = "queued"
WaitOnce == \A i, l \in 1 .. Len(queue) : queue[i] = queue[l] => i = l
Waiting == WaitersQueued /\ WaitOnce

Fresh ==
  \A j \in Jobs : phase[j] \in {"idle", "queued", "preparing", "running"} => result[j] = "none"

Built(r) == phase[Compilation(r)] \in {"ending", "done"} /\ result[Compilation(r)] = "ok"

BuildingOf(r) ==
  /\ phase[Compilation(r)] \notin Over => stage[r] = "compiling"
  /\ stage[r] = "new" => phase[Compilation(r)] = "idle" /\ executable[r] # "own"
  /\ stage[r] \in {"checking", "running"} => Built(r)
  /\ Built(r) => executable[r] \in {"own", "absent"} \/ swallowed[r]

RunningOf(r, j) ==
  /\ phase[j] # "idle" => Built(r) /\ stage[r] \in {"running", "finally", "answered"}
  /\ phase[j] \notin Over =>
       \/ stage[r] = "running" /\ executable[r] # "absent"
       \/ stage[r] = "finally" /\ executable[r] # "absent" /\ reply[r] = "error"
       \/ stage[r] = "answered" /\ reply[r] = "error"
  /\ phase[j] = "running" \/ result[j] = "ok" => loaded[j] = "own" \/ swallowed[r]

AnsweringOf(r) ==
  /\ reply[r] = "outputs" =>
       /\ stage[r] \in {"finally", "answered"}
       /\ \A j \in Runs(r) : phase[j] = "done" /\ result[j] = "ok"
  /\ stage[r] = "answered" => executable[r] # "own"

Building == \A r \in Requests : BuildingOf(r)
Running == \A r \in Requests : \A j \in Runs(r) : RunningOf(r, j)
Answering == \A r \in Requests : AnsweringOf(r)

-----------------------------------------------------------------------------
(* Jobs are the parts of requests.                                         *)
LEMMA Parts ==
  /\ \A r \in Requests : Compilation(r) \in Jobs /\ ~IsRun(Compilation(r))
                           /\ Request(Compilation(r)) = r
  /\ \A r \in Requests : \A j \in Runs(r) : j \in Jobs /\ IsRun(j) /\ Request(j) = r
  /\ \A j \in Jobs : /\ Request(j) \in Requests
                     /\ IsRun(j) => j \in Runs(Request(j))
                     /\ ~IsRun(j) => j = Compilation(Request(j))
<1>0. \A r \in Requests : Inputs[r] \in Nat
  BY InputsAssumption DEF Requests
<1>1. ASSUME NEW r \in Requests
      PROVE  Compilation(r) \in Jobs /\ ~IsRun(Compilation(r)) /\ Request(Compilation(r)) = r
  <2>1. Compilation(r) \in {r} \X (0 .. Inputs[r])
    BY <1>0 DEF Compilation
  <2>. QED
    BY <2>1, JobsAreParts DEF Compilation, IsRun, Request
<1>2. ASSUME NEW r \in Requests, NEW j \in Runs(r)
      PROVE  j \in Jobs /\ IsRun(j) /\ Request(j) = r
  <2>1. j \in {r} \X (0 .. Inputs[r]) /\ j[1] = r /\ j[2] > 0
    BY <1>0 DEF Runs
  <2>. QED
    BY <2>1, JobsAreParts DEF IsRun, Request
<1>3. ASSUME NEW j \in Jobs
      PROVE  /\ Request(j) \in Requests
             /\ IsRun(j) => j \in Runs(Request(j))
             /\ ~IsRun(j) => j = Compilation(Request(j))
  <2>1. PICK r \in Requests : j \in {r} \X (0 .. Inputs[r])
    BY JobsAreParts
  <2>2. j = <<r, j[2]>> /\ j[2] \in 0 .. Inputs[r]
    BY <2>1
  <2>. QED
    BY <1>0, <2>2 DEF IsRun, Request, Runs, Compilation
<1>. QED
  BY <1>1, <1>2, <1>3

(* The elements of a queue q into which w was inserted after place k.      *)
Inserted(s, q, k, w) ==
  /\ Len(s) = Len(q) + Len(w)
  /\ \A i \in 1 .. Len(s) :
       s[i] = IF i <= k THEN q[i] ELSE IF i <= k + Len(w) THEN w[i - k] ELSE q[i - Len(w)]

(* They are elements of the one or of the other.                           *)
LEMMA InsertedFrom ==
  ASSUME NEW q \in Seq(Jobs), NEW w \in Seq(Jobs), NEW k \in 0 .. Len(q),
         NEW s, Inserted(s, q, k, w), NEW i \in 1 .. Len(s)
  PROVE  \/ i <= k /\ i \in 1 .. Len(q) /\ s[i] = q[i]
         \/ i > k /\ i <= k + Len(w) /\ i - k \in 1 .. Len(w) /\ s[i] = w[i - k]
         \/ i > k + Len(w) /\ i - Len(w) \in 1 .. Len(q) /\ s[i] = q[i - Len(w)]
<1>. DEFINE n == Len(q)
            m == Len(w)
<1>1. n \in Nat /\ m \in Nat
  OBVIOUS
<1>2. i \in 1 .. n + m /\ s[i] = IF i <= k THEN q[i] ELSE IF i <= k + m THEN w[i - k] ELSE q[i - m]
  BY DEF Inserted
<1>. HIDE DEF n, m
<1>3. k \in 0 .. n
  BY DEF n
<1>4. \/ i <= k /\ i \in 1 .. n /\ s[i] = q[i]
      \/ i > k /\ i <= k + m /\ i - k \in 1 .. m /\ s[i] = w[i - k]
      \/ i > k + m /\ i - m \in 1 .. n /\ s[i] = q[i - m]
  BY <1>1, <1>2, <1>3
<1>. QED
  BY <1>4 DEF n, m

(* Inserting distinct new waiters among distinct ones leaves all distinct. *)
LEMMA InsertedDistinct ==
  ASSUME NEW q \in Seq(Jobs), NEW w \in Seq(Jobs), NEW k \in 0 .. Len(q),
         NEW s, Inserted(s, q, k, w),
         \A i, l \in 1 .. Len(q) : q[i] = q[l] => i = l,
         \A i, l \in 1 .. Len(w) : w[i] = w[l] => i = l,
         \A i \in 1 .. Len(q), l \in 1 .. Len(w) : q[i] # w[l]
  PROVE  \A a, b \in 1 .. Len(s) : s[a] = s[b] => a = b
<1>. SUFFICES ASSUME NEW a \in 1 .. Len(s), NEW b \in 1 .. Len(s), s[a] = s[b]
              PROVE  a = b
  OBVIOUS
<1>. DEFINE n == Len(q)
            m == Len(w)
<1>1. n \in Nat /\ m \in Nat /\ k \in Int
  OBVIOUS
<1>2. /\ \/ a <= k /\ a \in 1 .. n /\ s[a] = q[a]
         \/ a > k /\ a <= k + m /\ a - k \in 1 .. m /\ s[a] = w[a - k]
         \/ a > k + m /\ a - m \in 1 .. n /\ s[a] = q[a - m]
      /\ \/ b <= k /\ b \in 1 .. n /\ s[b] = q[b]
         \/ b > k /\ b <= k + m /\ b - k \in 1 .. m /\ s[b] = w[b - k]
         \/ b > k + m /\ b - m \in 1 .. n /\ s[b] = q[b - m]
  BY InsertedFrom
<1>3. a \in Int /\ b \in Int
  OBVIOUS
<1>. HIDE DEF n, m
<1>4. /\ \A i, l \in 1 .. n : q[i] = q[l] => i = l
      /\ \A i, l \in 1 .. m : w[i] = w[l] => i = l
      /\ \A i \in 1 .. n, l \in 1 .. m : q[i] # w[l]
  BY DEF n, m
<1>5. CASE a <= k /\ a \in 1 .. n /\ s[a] = q[a]
  BY <1>1, <1>2, <1>3, <1>4, <1>5
<1>6. CASE a > k /\ a <= k + m /\ a - k \in 1 .. m /\ s[a] = w[a - k]
  BY <1>1, <1>2, <1>3, <1>4, <1>6
<1>7. CASE a > k + m /\ a - m \in 1 .. n /\ s[a] = q[a - m]
  BY <1>1, <1>2, <1>3, <1>4, <1>7
<1>. QED
  BY <1>2, <1>5, <1>6, <1>7

(* Waiters inserted among waiters: all wait, each once.                    *)
LEMMA InsertedWait ==
  ASSUME NEW q \in Seq(Jobs), NEW w \in Seq(Jobs), NEW k \in 0 .. Len(q),
         NEW s, Inserted(s, q, k, w), NEW ph,
         \A i \in 1 .. Len(q) : ph[q[i]] = "queued",
         \A i \in 1 .. Len(w) : ph[w[i]] = "queued",
         \A i, l \in 1 .. Len(q) : q[i] = q[l] => i = l,
         \A i, l \in 1 .. Len(w) : w[i] = w[l] => i = l,
         \A i \in 1 .. Len(q), l \in 1 .. Len(w) : q[i] # w[l]
  PROVE  /\ \A i \in 1 .. Len(s) : ph[s[i]] = "queued"
         /\ \A i, l \in 1 .. Len(s) : s[i] = s[l] => i = l
<1>1. ASSUME NEW i \in 1 .. Len(s) PROVE ph[s[i]] = "queued"
  <2>1. \/ i <= k /\ i \in 1 .. Len(q) /\ s[i] = q[i]
        \/ i > k /\ i <= k + Len(w) /\ i - k \in 1 .. Len(w) /\ s[i] = w[i - k]
        \/ i > k + Len(w) /\ i - Len(w) \in 1 .. Len(q) /\ s[i] = q[i - Len(w)]
    BY InsertedFrom
  <2>. QED
    BY <2>1
<1>2. \A a, b \in 1 .. Len(s) : s[a] = s[b] => a = b
  BY InsertedDistinct
<1>. QED
  BY <1>1, <1>2

(* InsertAfter of the semaphore inserts one waiter ...                     *)
LEMMA InsertAfterInserts ==
  ASSUME NEW q \in Seq(Jobs), NEW k \in 0 .. Len(q), NEW j \in Jobs
  PROVE  /\ InsertAfter(q, k, j) \in Seq(Jobs)
         /\ Inserted(InsertAfter(q, k, j), q, k, <<j>>)
<1>1. InsertAfter(q, k, j) \in Seq(Jobs) /\ Len(InsertAfter(q, k, j)) = Len(q) + 1
  BY DEF InsertAfter
<1>2. Len(<<j>>) = 1 /\ <<j>>[1] = j
  OBVIOUS
<1>3. \A i \in 1 .. Len(q) + 1 :
        InsertAfter(q, k, j)[i] = IF i <= k THEN q[i] ELSE IF i = k + 1 THEN j ELSE q[i - 1]
  BY DEF InsertAfter
<1>. DEFINE s == InsertAfter(q, k, j)
            w == <<j>>
<1>. HIDE DEF s, w
<1>4. /\ s \in Seq(Jobs) /\ Len(s) = Len(q) + 1
      /\ Len(w) = 1 /\ w[1] = j
      /\ \A i \in 1 .. Len(q) + 1 :
           s[i] = IF i <= k THEN q[i] ELSE IF i = k + 1 THEN j ELSE q[i - 1]
  BY <1>1, <1>2, <1>3 DEF s, w
<1>5. Inserted(s, q, k, w)
  <2>1. Len(q) \in Nat /\ k \in Nat
    OBVIOUS
  <2>2. ASSUME NEW i \in 1 .. Len(s), i > k, i <= k + Len(w) PROVE i = k + 1 /\ i - k = 1
    BY <1>4, <2>1, <2>2
  <2>. QED
    BY <1>4, <2>1, <2>2 DEF Inserted
<1>. QED
  BY <1>4, <1>5 DEF s, w

(* ... AcquireAll a sequence of them.                                      *)
LEMMA ConcatInserts ==
  ASSUME NEW q \in Seq(Jobs), NEW w \in Seq(Jobs), NEW k \in 0 .. Len(q)
  PROVE  /\ SubSeq(q, 1, k) \o w \o SubSeq(q, k + 1, Len(q)) \in Seq(Jobs)
         /\ Inserted(SubSeq(q, 1, k) \o w \o SubSeq(q, k + 1, Len(q)), q, k, w)
<1>. DEFINE n == Len(q)
            m == Len(w)
            x == SubSeq(q, 1, k)
            y == SubSeq(q, k + 1, n)
            s == (x \o w) \o y
<1>1. n \in Nat /\ m \in Nat /\ k \in 0 .. n
  OBVIOUS
<1>2. x \in Seq(Jobs) /\ Len(x) = k /\ \A i \in 1 .. k : x[i] = q[i]
  OBVIOUS
<1>3. y \in Seq(Jobs) /\ Len(y) = n - k /\ \A i \in 1 .. n - k : y[i] = q[k + i]
  OBVIOUS
<1>4. /\ x \o w \in Seq(Jobs) /\ Len(x \o w) = k + m
      /\ \A i \in 1 .. k + m : (x \o w)[i] = IF i <= k THEN x[i] ELSE w[i - k]
  BY <1>2
<1>5. /\ s \in Seq(Jobs) /\ Len(s) = n + m
      /\ \A i \in 1 .. n + m : s[i] = IF i <= k + m THEN (x \o w)[i] ELSE y[i - (k + m)]
  <2>. DEFINE v == x \o w
  <2>1. v \in Seq(Jobs) /\ Len(v) = k + m
    BY <1>4
  <2>. HIDE DEF x, y, v
  <2>2. /\ v \o y \in Seq(Jobs) /\ Len(v \o y) = Len(v) + Len(y)
        /\ \A i \in 1 .. Len(v) + Len(y) :
             (v \o y)[i] = IF i <= Len(v) THEN v[i] ELSE y[i - Len(v)]
    BY <1>3, <2>1, ConcatProperties
  <2>3. Len(v) + Len(y) = n + m
    BY <1>1, <1>3, <2>1
  <2>. QED
    BY <2>1, <2>2, <2>3 DEF v
<1>. HIDE DEF x, y, s, n, m
<1>6. ASSUME NEW i \in 1 .. n + m
      PROVE  s[i] = IF i <= k THEN q[i] ELSE IF i <= k + m THEN w[i - k] ELSE q[i - m]
  <2>. DEFINE v == x \o w
  <2>. HIDE DEF v
  <2>1. /\ \A l \in 1 .. k + m : v[l] = IF l <= k THEN x[l] ELSE w[l - k]
        /\ s[i] = IF i <= k + m THEN v[i] ELSE y[i - (k + m)]
    BY <1>4, <1>5 DEF v
  <2>2. CASE i <= k + m
    BY <1>1, <1>2, <2>1, <2>2
  <2>3. CASE i > k + m
    <3>1. i - (k + m) \in 1 .. n - k /\ k + (i - (k + m)) = i - m
      BY <1>1, <2>3
    <3>2. y[i - (k + m)] = q[i - m]
      BY <1>3, <3>1
    <3>. QED
      BY <1>1, <2>1, <2>3, <3>2
  <2>. QED
    BY <1>1, <2>2, <2>3
<1>7. Inserted(s, q, k, w)
  BY <1>5, <1>6 DEF Inserted, n, m
<1>8. s = SubSeq(q, 1, k) \o w \o SubSeq(q, k + 1, Len(q))
  BY DEF x, y, s, n
<1>. QED
  BY <1>5, <1>7, <1>8

(* A queue without its head.                                               *)
LEMMA TailElements ==
  ASSUME NEW q \in Seq(Jobs), q # <<>>
  PROVE  /\ Head(q) \in Jobs /\ Head(q) = q[1] /\ 1 \in 1 .. Len(q)
         /\ Tail(q) \in Seq(Jobs) /\ Len(Tail(q)) = Len(q) - 1
         /\ \A i \in 1 .. Len(Tail(q)) : i + 1 \in 1 .. Len(q) /\ Tail(q)[i] = q[i + 1]
<1>1. Head(q) \in Jobs /\ Head(q) = q[1] /\ 1 \in 1 .. Len(q)
  BY EmptySeq
<1>2. Tail(q) \in Seq(Jobs) /\ Len(Tail(q)) = Len(q) - 1
  BY HeadTailProperties
<1>3. \A i \in 1 .. Len(Tail(q)) : i + 1 \in 1 .. Len(q) /\ Tail(q)[i] = q[i + 1]
  BY <1>2, HeadTailProperties
<1>. QED
  BY <1>1, <1>2, <1>3

-----------------------------------------------------------------------------
(* What a step of the pool does, whoever takes it.                         *)
PoolTyped ==
  /\ permits \in Nat
  /\ queue \in Seq(Jobs)
  /\ phase \in [Jobs -> Phases]
  /\ result \in [Jobs -> Results]

PoolInv == PoolTyped /\ Waiting /\ Fresh

(* The others go on as they were, or the next of them gets a box.          *)
Advances(l) ==
  /\ phase'[l] = phase[l] \/ (phase[l] = "queued" /\ phase'[l] = "preparing")
  /\ result'[l] = result[l]

(* A step of one job that leaves the queue alone.                          *)
LEMMA MoveKeeps ==
  ASSUME PoolInv, NEW j \in Jobs, phase[j] # "queued",
         NEW p \in Phases, phase' = [phase EXCEPT ![j] = p],
         NEW res \in Results, result' = [result EXCEPT ![j] = res],
         p \in {"idle", "queued", "preparing", "running"} => res = "none",
         permits' \in Nat, queue' = queue
  PROVE  PoolInv' /\ \A l \in Jobs \ {j} : Advances(l)
<1>1. PoolTyped'
  BY DEF PoolInv, PoolTyped
<1>2. Waiting'
  <2>1. \A i \in 1 .. Len(queue) : queue[i] \in Jobs /\ queue[i] # j
    BY DEF PoolInv, PoolTyped, Waiting, WaitersQueued
  <2>. QED
    BY <2>1 DEF PoolInv, PoolTyped, Waiting, WaitersQueued, WaitOnce
<1>3. Fresh'
  BY DEF PoolInv, PoolTyped, Fresh
<1>4. \A l \in Jobs \ {j} : Advances(l)
  BY DEF PoolInv, PoolTyped, Advances
<1>. QED
  BY <1>1, <1>2, <1>3, <1>4 DEF PoolInv

LEMMA AtOnceKeeps ==
  ASSUME PoolInv, NEW j \in Jobs, AcquireAtOnce(j)
  PROVE  PoolInv' /\ \A l \in Jobs \ {j} : Advances(l)
<1>1. phase[j] = "idle" /\ phase' = [phase EXCEPT ![j] = "preparing"] /\ queue' = queue
  BY DEF AcquireAtOnce, TakePermit
<1>2. permits' \in Nat
  BY DEF AcquireAtOnce, TakePermit, CanPass, PoolInv, PoolTyped
<1>3. result[j] = "none" /\ result' = [result EXCEPT ![j] = "none"]
  BY <1>1 DEF AcquireAtOnce, PoolInv, PoolTyped, Fresh
<1>. QED
  BY <1>1, <1>2, <1>3, MoveKeeps DEF Phases, Results

LEMMA WaitsKeeps ==
  ASSUME PoolInv, NEW j \in Jobs, AcquireWaits(j)
  PROVE  PoolInv' /\ \A l \in Jobs \ {j} : Advances(l)
<1>1. /\ phase[j] = "idle" /\ phase' = [phase EXCEPT ![j] = "queued"]
      /\ result' = result /\ permits' = permits
  BY DEF AcquireWaits, Enqueue
<1>2. PICK k \in 0 .. Len(queue) : queue' = InsertAfter(queue, k, j)
  BY DEF AcquireWaits, Enqueue
<1>3. queue \in Seq(Jobs)
  BY DEF PoolInv, PoolTyped
<1>4. queue' \in Seq(Jobs) /\ Inserted(queue', queue, k, <<j>>)
  BY <1>2, <1>3, InsertAfterInserts
<1>5. PoolTyped'
  BY <1>1, <1>4 DEF PoolInv, PoolTyped, Phases
<1>6. \A i \in 1 .. Len(queue) : queue[i] \in Jobs /\ phase[queue[i]] = "queued" /\ queue[i] # j
  BY <1>1, <1>3 DEF PoolInv, Waiting, WaitersQueued
<1>7. <<j>> \in Seq(Jobs) /\ Len(<<j>>) = 1 /\ <<j>>[1] = j
  OBVIOUS
<1>8. \A i \in 1 .. Len(<<j>>) : <<j>>[i] = j
  BY <1>7
<1>9. Waiting'
  <2>. DEFINE s == queue'
              ph == phase'
              w == <<j>>
  <2>1. /\ w \in Seq(Jobs) /\ Inserted(s, queue, k, w)
        /\ \A i \in 1 .. Len(w) : ph[w[i]] = "queued"
        /\ \A i, l \in 1 .. Len(w) : w[i] = w[l] => i = l
        /\ \A i \in 1 .. Len(queue), l \in 1 .. Len(w) : queue[i] # w[l]
    BY <1>1, <1>4, <1>6, <1>7, <1>8 DEF PoolInv, PoolTyped
  <2>2. /\ \A i \in 1 .. Len(queue) : ph[queue[i]] = "queued"
        /\ \A i, l \in 1 .. Len(queue) : queue[i] = queue[l] => i = l
    BY <1>1, <1>6 DEF PoolInv, PoolTyped, Waiting, WaitOnce
  <2>3. Waiting' <=> /\ \A i \in 1 .. Len(s) : ph[s[i]] = "queued"
                     /\ \A i, l \in 1 .. Len(s) : s[i] = s[l] => i = l
    BY DEF Waiting, WaitersQueued, WaitOnce
  <2>. HIDE DEF s, ph, w
  <2>. QED
    BY <1>3, <2>1, <2>2, <2>3, InsertedWait
<1>10. Fresh'
  BY <1>1 DEF PoolInv, PoolTyped, Fresh
<1>11. \A l \in Jobs \ {j} : Advances(l)
  BY <1>1 DEF PoolInv, PoolTyped, Advances
<1>. QED
  BY <1>5, <1>9, <1>10, <1>11 DEF PoolInv

LEMMA ReleasesKeeps ==
  ASSUME PoolInv, NEW j \in Jobs, Releases(j)
  PROVE  /\ PoolInv' /\ \A l \in Jobs \ {j} : Advances(l)
         /\ phase[j] = "ending" /\ phase'[j] = "done" /\ result' = result
<1>1. phase[j] = "ending" /\ result' = result
  BY DEF Releases
<1>2. CASE GiveBack /\ phase' = [phase EXCEPT ![j] = "done"]
  <2>1. permits' \in Nat /\ queue' = queue
    BY <1>2 DEF GiveBack, PoolInv, PoolTyped
  <2>2. result[j] \in Results /\ result' = [result EXCEPT ![j] = result[j]]
    BY <1>1 DEF PoolInv, PoolTyped
  <2>3. PoolInv' /\ \A l \in Jobs \ {j} : Advances(l)
    BY <1>1, <1>2, <2>1, <2>2, MoveKeeps DEF Phases
  <2>. QED
    BY <1>1, <1>2, <2>3 DEF PoolInv, PoolTyped
<1>3. CASE HandOver /\ phase' = [phase EXCEPT ![j] = "done", ![Head(queue)] = "preparing"]
  <2>. DEFINE h == Head(queue)
  <2>1. queue \in Seq(Jobs) /\ queue # <<>> /\ queue' = Tail(queue) /\ permits' = permits
    BY <1>3 DEF HandOver, PoolInv, PoolTyped
  <2>2. /\ h \in Jobs /\ h = queue[1] /\ 1 \in 1 .. Len(queue)
        /\ queue' \in Seq(Jobs) /\ Len(queue') = Len(queue) - 1
        /\ \A i \in 1 .. Len(queue') : i + 1 \in 1 .. Len(queue) /\ queue'[i] = queue[i + 1]
    BY <2>1, TailElements
  <2>3. phase[h] = "queued" /\ h # j
    BY <1>1, <2>2 DEF PoolInv, Waiting, WaitersQueued
  <2>. HIDE DEF h
  <2>4. phase' = [phase EXCEPT ![j] = "done", ![h] = "preparing"]
    BY <1>3 DEF h
  <2>5. /\ phase'[j] = "done" /\ phase'[h] = "preparing"
        /\ \A l \in Jobs : l # j /\ l # h => phase'[l] = phase[l]
    BY <2>2, <2>3, <2>4 DEF PoolInv, PoolTyped
  <2>6. PoolTyped'
    BY <1>1, <2>1, <2>2, <2>4 DEF PoolInv, PoolTyped, Phases
  <2>7. Waiting'
    <3>1. \A i \in 1 .. Len(queue') : queue[i + 1] # h /\ queue[i + 1] # j /\ queue[i + 1] \in Jobs
      BY <1>1, <2>1, <2>2 DEF PoolInv, Waiting, WaitersQueued, WaitOnce
    <3>2. WaitersQueued'
      BY <2>2, <2>5, <3>1 DEF PoolInv, Waiting, WaitersQueued
    <3>3. WaitOnce'
      <4>1. SUFFICES ASSUME NEW a \in 1 .. Len(queue'), NEW b \in 1 .. Len(queue'),
                            queue'[a] = queue'[b]
                     PROVE  a = b
        BY DEF WaitOnce
      <4>2. a + 1 = b + 1
        BY <2>2, <4>1 DEF PoolInv, Waiting, WaitOnce
      <4>. QED
        BY <4>2
    <3>. QED
      BY <3>2, <3>3 DEF Waiting
  <2>8. Fresh'
    BY <1>1, <2>3, <2>5 DEF PoolInv, Fresh
  <2>9. \A l \in Jobs \ {j} : Advances(l)
    BY <1>1, <2>3, <2>5 DEF Advances
  <2>. QED
    BY <1>1, <2>5, <2>6, <2>7, <2>8, <2>9 DEF PoolInv
<1>. QED
  BY <1>2, <1>3 DEF Releases

-----------------------------------------------------------------------------
HandlerTyped ==
  /\ stage \in [Requests -> {"new", "compiling", "checking", "running", "finally", "answered"}]
  /\ reply \in [Requests -> {"none", "verdict", "outputs", "error"}]
  /\ executable \in [Requests -> {"absent", "own", "leftover"}]
  /\ compiled \in [Requests -> BOOLEAN]
  /\ loaded \in [Jobs -> {"none", "own", "leftover"}]
  /\ swallowed \in [Requests -> BOOLEAN]
  /\ crashes \in 0 .. MaxCrashes

RequestInv(r) == BuildingOf(r) /\ (\A j \in Runs(r) : RunningOf(r, j)) /\ AnsweringOf(r)

IndInv == PoolInv /\ HandlerTyped /\ Building /\ Running /\ Answering

LEMMA IndInvParts ==
  /\ IndInv <=> PoolInv /\ HandlerTyped /\ \A r \in Requests : RequestInv(r)
  /\ PoolTyped /\ HandlerTyped <=> TypeInvariant
<1>1. Building /\ Running /\ Answering <=> \A r \in Requests : RequestInv(r)
  BY DEF Building, Running, Answering, RequestInv
<1>. QED
  BY <1>1 DEF IndInv, PoolTyped, HandlerTyped, TypeInvariant

LEMMA IndInvAgain ==
  PoolInv' /\ HandlerTyped' /\ (\A r \in Requests : RequestInv(r)') => IndInv'
  BY DEF Building, Running, Answering, RequestInv, IndInv, Runs

(* A request whose handler does not move and whose jobs go on at most.     *)
Untouched(r) ==
  /\ stage'[r] = stage[r] /\ reply'[r] = reply[r]
  /\ executable'[r] = executable[r] /\ swallowed'[r] = swallowed[r]
  /\ \A j \in Jobs : Request(j) = r => Advances(j) /\ loaded'[j] = loaded[j]

LEMMA UntouchedKeeps ==
  ASSUME NEW r \in Requests, RequestInv(r), Untouched(r)
  PROVE  RequestInv(r)'
<1>1. Advances(Compilation(r))
  BY Parts DEF Untouched
<1>2. \A j \in Runs(r) : Advances(j) /\ loaded'[j] = loaded[j]
  BY Parts DEF Untouched
<1>3. Built(r)' <=> Built(r)
  BY <1>1 DEF Advances, Built, Compilation
<1>4. BuildingOf(r)'
  BY <1>1, <1>3 DEF RequestInv, BuildingOf, Untouched, Advances, Over, Compilation
<1>5. ASSUME NEW j \in Runs(r) PROVE RunningOf(r, j)'
  BY <1>2, <1>3 DEF RequestInv, RunningOf, Untouched, Advances, Over
<1>6. AnsweringOf(r)'
  BY <1>2 DEF RequestInv, AnsweringOf, Untouched, Advances, Runs
<1>. QED
  BY <1>4, <1>5, <1>6 DEF RequestInv, Runs

(* A step of the handler of q that starts no job.                          *)
LEMMA HandlerMoves ==
  ASSUME IndInv, NEW q \in Requests,
         UNCHANGED <<poolVars, compiled, loaded, swallowed, crashes>>,
         NEW s \in {"new", "compiling", "checking", "running", "finally", "answered"},
         stage' = [stage EXCEPT ![q] = s],
         NEW p \in {"none", "verdict", "outputs", "error"},
         reply' = [reply EXCEPT ![q] = p],
         NEW e \in {"absent", "own", "leftover"},
         executable' = [executable EXCEPT ![q] = e],
         RequestInv(q)'
  PROVE  IndInv'
<1>1. PoolInv'
  BY DEF IndInv, PoolInv, PoolTyped, Waiting, WaitersQueued, WaitOnce, Fresh, poolVars
<1>2. HandlerTyped'
  BY DEF IndInv, HandlerTyped
<1>3. ASSUME NEW r \in Requests, r # q PROVE RequestInv(r)'
  <2>1. RequestInv(r)
    BY IndInvParts
  <2>2. Untouched(r)
    BY <1>3 DEF Untouched, Advances, IndInv, HandlerTyped, poolVars
  <2>. QED
    BY <2>1, <2>2, UntouchedKeeps
<1>. QED
  BY <1>1, <1>2, <1>3, IndInvAgain

LEMMA RejectKeeps == ASSUME IndInv, NEW q \in Requests, Reject(q) PROVE IndInv'
<1>1. /\ stage[q] = "new" /\ stage' = [stage EXCEPT ![q] = "answered"]
      /\ reply' = [reply EXCEPT ![q] = "verdict"]
      /\ UNCHANGED <<poolVars, executable, compiled, loaded, swallowed, crashes>>
  BY DEF Reject, Next1, Go, storage
<1>2. HandlerTyped /\ RequestInv(q)
  BY IndInvParts
<1>3. /\ executable[q] \in {"absent", "own", "leftover"}
      /\ executable' = [executable EXCEPT ![q] = executable[q]]
      /\ stage'[q] = "answered" /\ reply'[q] = "verdict"
  BY <1>1, <1>2 DEF HandlerTyped
<1>4. RequestInv(q)'
  BY <1>1, <1>2, <1>3 DEF RequestInv, BuildingOf, RunningOf, AnsweringOf, Built, Over, poolVars
<1>. QED
  BY <1>1, <1>3, <1>4, HandlerMoves

LEMMA CompiledKeeps == ASSUME IndInv, NEW q \in Requests, Compiled(q) PROVE IndInv'
<1>1. HandlerTyped /\ RequestInv(q)
  BY IndInvParts
<1>2. /\ stage[q] = "compiling" /\ phase[Compilation(q)] = "done"
      /\ UNCHANGED <<poolVars, executable, compiled, loaded, swallowed, crashes>>
  BY DEF Compiled, storage
<1>3. /\ executable[q] \in {"absent", "own", "leftover"}
      /\ executable' = [executable EXCEPT ![q] = executable[q]]
      /\ reply[q] \in {"none", "verdict", "outputs", "error"}
  BY <1>1, <1>2 DEF HandlerTyped
<1>4. ASSUME NEW a \in {"verdict", "error"}, Finish(q, a) PROVE IndInv'
  <2>1. /\ stage' = [stage EXCEPT ![q] = "finally"] /\ reply' = [reply EXCEPT ![q] = a]
        /\ stage'[q] = "finally" /\ reply'[q] = a
    BY <1>1, <1>4 DEF Finish, Go, HandlerTyped
  <2>2. RequestInv(q)'
    BY <1>1, <1>2, <2>1 DEF RequestInv, BuildingOf, RunningOf, AnsweringOf, Built, Over, poolVars
  <2>. QED
    BY <1>2, <1>3, <2>1, <2>2, HandlerMoves
<1>5. ASSUME result[Compilation(q)] = "ok", Go(q, "checking"), UNCHANGED reply PROVE IndInv'
  <2>1. /\ stage' = [stage EXCEPT ![q] = "checking"] /\ stage'[q] = "checking"
        /\ reply' = [reply EXCEPT ![q] = reply[q]] /\ reply'[q] = reply[q]
    BY <1>1, <1>5 DEF Go, HandlerTyped
  <2>2. RequestInv(q)'
    BY <1>1, <1>2, <1>5, <2>1 DEF RequestInv, BuildingOf, RunningOf, AnsweringOf, Built, Over, poolVars
  <2>. QED
    BY <1>2, <1>3, <2>1, <2>2, HandlerMoves
<1>. QED
  <2>1. \/ Finish(q, "error") \/ Finish(q, "verdict")
        \/ result[Compilation(q)] = "ok" /\ Go(q, "checking") /\ UNCHANGED reply
    BY DEF Compiled
  <2>. QED
    BY <1>4, <1>5, <2>1

LEMMA RunsReturnKeeps == ASSUME IndInv, NEW q \in Requests, RunsReturn(q) PROVE IndInv'
<1>1. HandlerTyped /\ RequestInv(q)
  BY IndInvParts
<1>2. /\ stage[q] = "running"
      /\ \A j \in Runs(q) : phase[j] = "done" /\ result[j] = "ok"
      /\ stage' = [stage EXCEPT ![q] = "finally"] /\ reply' = [reply EXCEPT ![q] = "outputs"]
      /\ UNCHANGED <<poolVars, executable, compiled, loaded, swallowed, crashes>>
  BY DEF RunsReturn, Finish, Go, storage
<1>3. /\ executable[q] \in {"absent", "own", "leftover"}
      /\ executable' = [executable EXCEPT ![q] = executable[q]]
      /\ stage'[q] = "finally" /\ reply'[q] = "outputs"
  BY <1>1, <1>2 DEF HandlerTyped
<1>4. RequestInv(q)'
  BY <1>1, <1>2, <1>3 DEF RequestInv, BuildingOf, RunningOf, AnsweringOf, Built, Over, poolVars
<1>. QED
  BY <1>2, <1>3, <1>4, HandlerMoves

LEMMA RunsFailKeeps == ASSUME IndInv, NEW q \in Requests, RunsFail(q) PROVE IndInv'
<1>1. HandlerTyped /\ RequestInv(q)
  BY IndInvParts
<1>2. /\ stage[q] = "running"
      /\ stage' = [stage EXCEPT ![q] = "finally"] /\ reply' = [reply EXCEPT ![q] = "error"]
      /\ UNCHANGED <<poolVars, executable, compiled, loaded, swallowed, crashes>>
  BY DEF RunsFail, Finish, Go, storage
<1>3. /\ executable[q] \in {"absent", "own", "leftover"}
      /\ executable' = [executable EXCEPT ![q] = executable[q]]
      /\ stage'[q] = "finally" /\ reply'[q] = "error"
  BY <1>1, <1>2 DEF HandlerTyped
<1>4. RequestInv(q)'
  BY <1>1, <1>2, <1>3 DEF RequestInv, BuildingOf, RunningOf, AnsweringOf, Built, Over, poolVars
<1>. QED
  BY <1>2, <1>3, <1>4, HandlerMoves

LEMMA AnswerKeeps == ASSUME IndInv, NEW q \in Requests, Answer(q) PROVE IndInv'
<1>1. HandlerTyped /\ RequestInv(q)
  BY IndInvParts
<1>2. /\ stage[q] = "finally"
      /\ stage' = [stage EXCEPT ![q] = "answered"]
      /\ executable' = [executable EXCEPT ![q] = "absent"]
      /\ UNCHANGED <<poolVars, reply, compiled, loaded, swallowed, crashes>>
  BY DEF Answer, Go
<1>3. /\ reply[q] \in {"none", "verdict", "outputs", "error"}
      /\ reply' = [reply EXCEPT ![q] = reply[q]]
      /\ stage'[q] = "answered" /\ executable'[q] = "absent" /\ reply'[q] = reply[q]
  BY <1>1, <1>2 DEF HandlerTyped
<1>4. RequestInv(q)'
  BY <1>1, <1>2, <1>3 DEF RequestInv, BuildingOf, RunningOf, AnsweringOf, Built, Over, poolVars
<1>. QED
  BY <1>2, <1>3, <1>4, HandlerMoves

-----------------------------------------------------------------------------
(* A step of the compilation of q, while the handler awaits it.            *)
LEMMA BuildMoves ==
  ASSUME IndInv, NEW q \in Requests, PoolInv', HandlerTyped',
         \A l \in Jobs \ {Compilation(q)} : Advances(l),
         \A r \in Requests \ {q} : /\ stage'[r] = stage[r] /\ executable'[r] = executable[r]
                                    /\ swallowed'[r] = swallowed[r],
         reply' = reply, loaded' = loaded,
         stage'[q] = "compiling", stage[q] \in {"new", "compiling"},
         \/ ~Built(q)'
         \/ executable'[q] \in {"own", "absent"} \/ swallowed'[q]
  PROVE  IndInv'
<1>1. ASSUME NEW r \in Requests \ {q} PROVE RequestInv(r)'
  <2>1. RequestInv(r)
    BY IndInvParts
  <2>2. Untouched(r)
    BY Parts DEF Untouched
  <2>. QED
    BY <2>1, <2>2, UntouchedKeeps
<1>2. RequestInv(q)
  BY IndInvParts
<1>3. \A j \in Runs(q) : phase[j] = "idle" /\ Advances(j)
  BY <1>2, Parts DEF RequestInv, RunningOf
<1>4. \A j \in Runs(q) : phase'[j] = "idle" /\ result'[j] = "none"
  BY <1>3, Parts DEF Advances, PoolInv, Fresh
<1>5. BuildingOf(q)'
  BY DEF BuildingOf
<1>6. \A j \in Runs(q) : RunningOf(q, j)'
  BY <1>4 DEF RunningOf, Over
<1>7. AnsweringOf(q)'
  BY <1>2 DEF RequestInv, AnsweringOf
<1>. QED
  BY <1>1, <1>5, <1>6, <1>7, IndInvAgain DEF RequestInv, Runs

(* A step of a run of q that is under way.                                 *)
LEMMA RunMoves ==
  ASSUME IndInv, NEW q \in Requests, NEW j \in Runs(q), PoolInv', HandlerTyped',
         \A l \in Jobs \ {j} : Advances(l) /\ loaded'[l] = loaded[l],
         stage' = stage, reply' = reply, executable' = executable, swallowed' = swallowed,
         phase[j] \notin Over,
         phase'[j] = "running" \/ result'[j] = "ok" => loaded'[j] = "own" \/ swallowed[q]
  PROVE  IndInv'
<1>1. ASSUME NEW r \in Requests, r # q PROVE RequestInv(r)'
  <2>1. RequestInv(r)
    BY IndInvParts
  <2>2. Untouched(r)
    BY <1>1, Parts DEF Untouched
  <2>. QED
    BY <2>1, <2>2, UntouchedKeeps
<1>2. RequestInv(q)
  BY IndInvParts
<1>3. Advances(Compilation(q)) /\ \A l \in Runs(q) \ {j} : Advances(l) /\ loaded'[l] = loaded[l]
  BY Parts
<1>4. Built(q)' <=> Built(q)
  BY <1>3 DEF Advances, Built, Compilation
<1>5. BuildingOf(q)'
  BY <1>2, <1>3, <1>4 DEF RequestInv, BuildingOf, Advances, Over, Compilation
<1>6. ASSUME NEW l \in Runs(q), l # j PROVE RunningOf(q, l)'
  BY <1>2, <1>3, <1>4, <1>6 DEF RequestInv, RunningOf, Advances, Over
<1>7. RunningOf(q, j)'
  BY <1>2, <1>4 DEF RequestInv, RunningOf, Over
<1>8. AnsweringOf(q)'
  BY <1>2 DEF RequestInv, AnsweringOf, Over
<1>. QED
  BY <1>1, <1>5, <1>6, <1>7, <1>8, IndInvAgain DEF RequestInv, Runs

LEMMA CompileKeeps == ASSUME IndInv, NEW q \in Requests, Compile(q) PROVE IndInv'
<1>. DEFINE c == Compilation(q)
<1>1. HandlerTyped /\ PoolInv /\ c \in Jobs
  BY IndInvParts, Parts
<1>2. /\ stage[q] = "new" /\ stage' = [stage EXCEPT ![q] = "compiling"]
      /\ UNCHANGED <<reply, executable, compiled, loaded, swallowed, crashes>>
  BY DEF Compile, Next1, Go, storage
<1>3. AcquireAtOnce(c) \/ AcquireWaits(c)
  BY DEF Compile
<1>4. PoolInv' /\ \A l \in Jobs \ {c} : Advances(l)
  BY <1>1, <1>3, AtOnceKeeps, WaitsKeeps
<1>5. phase'[c] \in {"preparing", "queued"}
  BY <1>1, <1>3 DEF AcquireAtOnce, AcquireWaits, PoolInv, PoolTyped
<1>6. ~Built(q)'
  BY <1>5 DEF Built, Compilation
<1>7. HandlerTyped'
  BY <1>1, <1>2 DEF HandlerTyped
<1>8. /\ stage'[q] = "compiling"
      /\ \A r \in Requests \ {q} : /\ stage'[r] = stage[r] /\ executable'[r] = executable[r]
                                   /\ swallowed'[r] = swallowed[r]
  BY <1>1, <1>2 DEF HandlerTyped
<1>. QED
  BY <1>2, <1>4, <1>6, <1>7, <1>8, BuildMoves

LEMMA CopyOutKeeps == ASSUME IndInv, NEW j \in Jobs, CopyOut(j) PROVE IndInv'
<1>. DEFINE q == Request(j)
<1>1. q \in Requests /\ j = Compilation(q)
  BY Parts DEF CopyOut
<1>2. HandlerTyped /\ PoolInv /\ RequestInv(q)
  BY <1>1, IndInvParts
<1>3. /\ phase[j] = "running" /\ phase' = [phase EXCEPT ![j] = "ending"]
      /\ result' = [result EXCEPT ![j] = "ok"]
      /\ permits' = permits /\ queue' = queue
      /\ UNCHANGED <<stage, reply, loaded, crashes>>
  BY DEF CopyOut, Succeeds, handler
<1>4. PICK success, copied \in BOOLEAN :
        /\ compiled' = [compiled EXCEPT ![q] = success]
        /\ swallowed' = [swallowed EXCEPT ![q] = ~copied]
        /\ executable' = [executable EXCEPT ![q] = IF copied THEN "own" ELSE @]
  BY DEF CopyOut
<1>. HIDE DEF q
<1>5. stage[q] = "compiling"
  BY <1>1, <1>2, <1>3 DEF RequestInv, BuildingOf, Over
<1>6. PoolInv' /\ \A l \in Jobs \ {j} : Advances(l)
  BY <1>2, <1>3, MoveKeeps DEF PoolInv, PoolTyped, Phases, Results
<1>7. HandlerTyped'
  BY <1>1, <1>2, <1>3, <1>4 DEF HandlerTyped
<1>8. executable'[q] = "own" \/ swallowed'[q]
  BY <1>1, <1>2, <1>4 DEF HandlerTyped
<1>9. \A r \in Requests \ {q} : stage'[r] = stage[r] /\ executable'[r] = executable[r]
                                /\ swallowed'[r] = swallowed[r]
  BY <1>1, <1>2, <1>3, <1>4 DEF HandlerTyped
<1>. QED
  BY <1>1, <1>3, <1>5, <1>6, <1>7, <1>8, <1>9, BuildMoves

(* A step of a job that reads or writes no file: its effect on the pool.   *)
LEMMA PlainKeeps ==
  ASSUME PoolInv, NEW j \in Jobs, Prepared(j) \/ Succeeds(j) \/ Fails(j) \/ Releases(j)
  PROVE  /\ PoolInv' /\ \A l \in Jobs \ {j} : Advances(l)
         /\ phase[j] \in {"preparing", "running", "ending"}
         /\ Prepared(j) => phase[j] = "preparing" /\ phase'[j] = "running"
                            /\ result'[j] = "none"
         /\ Succeeds(j) => phase[j] = "running" /\ phase'[j] = "ending" /\ result'[j] = "ok"
         /\ Fails(j) => phase[j] # "ending" /\ phase'[j] = "ending" /\ result'[j] = "failed"
         /\ Releases(j) => phase[j] = "ending" /\ phase'[j] = "done" /\ result' = result
<1>1. ASSUME NEW p \in Phases, phase[j] \in {"preparing", "running"},
             phase' = [phase EXCEPT ![j] = p],
             NEW res \in Results, result' = [result EXCEPT ![j] = res],
             p \in {"idle", "queued", "preparing", "running"} => res = "none",
             permits' = permits, queue' = queue
      PROVE  /\ PoolInv' /\ \A l \in Jobs \ {j} : Advances(l)
             /\ phase'[j] = p /\ result'[j] = res
  <2>1. permits' \in Nat /\ phase[j] # "queued"
    BY <1>1 DEF PoolInv, PoolTyped
  <2>2. PoolInv' /\ \A l \in Jobs \ {j} : Advances(l)
    BY <1>1, <2>1, MoveKeeps
  <2>. QED
    BY <1>1, <2>2 DEF PoolInv, PoolTyped
<1>2. CASE Prepared(j)
  <2>1. /\ phase[j] = "preparing" /\ phase' = [phase EXCEPT ![j] = "running"]
        /\ result' = result /\ permits' = permits /\ queue' = queue
    BY <1>2 DEF Prepared
  <2>2. result' = [result EXCEPT ![j] = "none"]
    BY <2>1 DEF PoolInv, PoolTyped, Fresh
  <2>3. /\ PoolInv' /\ \A l \in Jobs \ {j} : Advances(l)
        /\ phase'[j] = "running" /\ result'[j] = "none"
    BY <1>1, <2>1, <2>2 DEF Phases, Results
  <2>. QED
    BY <2>1, <2>3 DEF Succeeds, Fails, Releases
<1>3. CASE Succeeds(j)
  <2>1. /\ phase[j] = "running" /\ phase' = [phase EXCEPT ![j] = "ending"]
        /\ result' = [result EXCEPT ![j] = "ok"] /\ permits' = permits /\ queue' = queue
    BY <1>3 DEF Succeeds
  <2>2. /\ PoolInv' /\ \A l \in Jobs \ {j} : Advances(l)
        /\ phase'[j] = "ending" /\ result'[j] = "ok"
    BY <1>1, <2>1 DEF Phases, Results
  <2>3. ~Fails(j) /\ ~Prepared(j) /\ ~Releases(j)
    <3>1. ASSUME Fails(j) PROVE FALSE
      BY <2>2, <3>1 DEF Fails, PoolInv, PoolTyped
    <3>. QED
      BY <2>1, <3>1 DEF Prepared, Releases
  <2>. QED
    BY <2>1, <2>2, <2>3
<1>4. CASE Fails(j)
  <2>1. /\ phase[j] \in {"preparing", "running"} /\ phase' = [phase EXCEPT ![j] = "ending"]
        /\ result' = [result EXCEPT ![j] = "failed"] /\ permits' = permits /\ queue' = queue
    BY <1>4 DEF Fails
  <2>2. /\ PoolInv' /\ \A l \in Jobs \ {j} : Advances(l)
        /\ phase'[j] = "ending" /\ result'[j] = "failed"
    BY <1>1, <2>1 DEF Phases, Results
  <2>3. ~Succeeds(j) /\ ~Prepared(j) /\ ~Releases(j)
    <3>1. ASSUME Succeeds(j) PROVE FALSE
      BY <2>2, <3>1 DEF Succeeds, PoolInv, PoolTyped
    <3>2. ASSUME Prepared(j) PROVE FALSE
      BY <2>2, <3>2 DEF Prepared, PoolInv, PoolTyped
    <3>. QED
      BY <2>1, <3>1, <3>2 DEF Releases
  <2>. QED
    BY <2>1, <2>2, <2>3
<1>5. CASE Releases(j)
  <2>1. /\ PoolInv' /\ \A l \in Jobs \ {j} : Advances(l)
        /\ phase[j] = "ending" /\ phase'[j] = "done" /\ result' = result
    BY <1>5, ReleasesKeeps
  <2>. QED
    BY <2>1 DEF Prepared, Succeeds, Fails
<1>. QED
  BY <1>2, <1>3, <1>4, <1>5

LEMMA CopyInKeeps == ASSUME IndInv, NEW j \in Jobs, CopyIn(j) PROVE IndInv'
<1>. DEFINE q == Request(j)
<1>1. q \in Requests /\ j \in Runs(q) /\ q = Request(j)
  BY Parts DEF CopyIn
<1>. HIDE DEF q
<1>2. HandlerTyped /\ PoolInv /\ RequestInv(q)
  BY <1>1, IndInvParts
<1>3. /\ phase[j] = "preparing"
      /\ UNCHANGED <<stage, reply, executable, compiled, swallowed, crashes>>
  BY DEF CopyIn, handler
<1>4. \/ /\ executable[q] # "absent" /\ Prepared(j)
         /\ loaded' = [loaded EXCEPT ![j] = executable[q]]
      \/ Fails(j) /\ loaded' = loaded
  BY <1>1 DEF CopyIn
<1>5. PoolInv' /\ \A l \in Jobs \ {j} : Advances(l)
  BY <1>2, <1>4, PlainKeeps
<1>6. HandlerTyped'
  BY <1>1, <1>2, <1>3, <1>4 DEF HandlerTyped
<1>7. \A l \in Jobs \ {j} : loaded'[l] = loaded[l]
  BY <1>2, <1>4 DEF HandlerTyped
<1>8. phase[j] \notin Over
  BY <1>3 DEF Over
<1>9. CASE executable[q] # "absent" /\ loaded' = [loaded EXCEPT ![j] = executable[q]]
  <2>1. Built(q) /\ loaded'[j] = executable[q]
    BY <1>1, <1>2, <1>3, <1>9 DEF RequestInv, RunningOf, HandlerTyped
  <2>2. loaded'[j] = "own" \/ swallowed[q]
    BY <1>2, <1>9, <2>1 DEF RequestInv, BuildingOf
  <2>. QED
    BY <1>1, <1>3, <1>5, <1>6, <1>7, <1>8, <2>2, RunMoves
<1>10. CASE Fails(j)
  <2>1. phase'[j] = "ending" /\ result'[j] = "failed"
    BY <1>2, <1>10, PlainKeeps
  <2>. QED
    BY <1>1, <1>3, <1>5, <1>6, <1>7, <1>8, <2>1, RunMoves
<1>. QED
  BY <1>4, <1>9, <1>10

LEMMA JobStepKeeps == ASSUME IndInv, NEW j \in Jobs, JobStep(j) PROVE IndInv'
<1>. DEFINE q == Request(j)
<1>1. /\ q \in Requests /\ j \in Jobs
      /\ IsRun(j) => j \in Runs(q)
      /\ ~IsRun(j) => j = Compilation(q)
  BY Parts
<1>. HIDE DEF q
<1>2. HandlerTyped /\ PoolInv /\ RequestInv(q)
  BY <1>1, IndInvParts
<1>3. UNCHANGED <<stage, reply, executable, compiled, loaded, swallowed, crashes>>
  BY DEF JobStep, handler, storage
<1>4. Prepared(j) \/ Succeeds(j) \/ Fails(j) \/ Releases(j)
  BY DEF JobStep
<1>5. /\ PoolInv' /\ \A l \in Jobs \ {j} : Advances(l)
      /\ phase[j] \in {"preparing", "running", "ending"}
  BY <1>1, <1>2, <1>4, PlainKeeps
<1>6. HandlerTyped' /\ phase[j] \notin Over
  BY <1>2, <1>3, <1>5 DEF HandlerTyped, Over
<1>7. CASE IsRun(j)
  <2>1. phase'[j] = "running" \/ result'[j] = "ok" => phase[j] = "running" \/ result[j] = "ok"
    <3>1. Succeeds(j) \/ Fails(j) \/ Releases(j)
      BY <1>7 DEF JobStep
    <3>. QED
      BY <1>1, <1>2, <3>1, PlainKeeps
  <2>2. phase'[j] = "running" \/ result'[j] = "ok" => loaded'[j] = "own" \/ swallowed[q]
    BY <1>1, <1>2, <1>3, <1>7, <2>1 DEF RequestInv, RunningOf
  <2>. QED
    BY <1>1, <1>3, <1>5, <1>6, <1>7, <2>2, RunMoves
<1>8. CASE ~IsRun(j)
  <2>1. j = Compilation(q) /\ stage[q] = "compiling"
    BY <1>1, <1>2, <1>6, <1>8 DEF RequestInv, BuildingOf
  <2>2. ~Built(q)' \/ executable'[q] \in {"own", "absent"} \/ swallowed'[q]
    <3>1. CASE Prepared(j) \/ Fails(j)
      <4>1. phase'[j] = "running" \/ result'[j] = "failed"
        BY <1>1, <1>2, <3>1, PlainKeeps
      <4>. QED
        BY <2>1, <4>1 DEF Built, Compilation
    <3>2. CASE Releases(j)
      <4>1. phase[j] = "ending" /\ result'[j] = result[j]
        BY <1>1, <1>2, <3>2, PlainKeeps
      <4>2. result'[j] = "ok" => Built(q)
        BY <2>1, <4>1 DEF Built
      <4>. QED
        BY <1>2, <1>3, <2>1, <4>2 DEF RequestInv, BuildingOf, Built, Compilation
    <3>. QED
      BY <1>8, <3>1, <3>2 DEF JobStep
  <2>. QED
    BY <1>1, <1>3, <1>5, <1>6, <2>1, <2>2, BuildMoves
<1>. QED
  BY <1>7, <1>8

(* The runs of a request all start in one turn: the queue takes the ones   *)
(* for which no permit is left.                                            *)
LEMMA AcquireAllKeeps ==
  ASSUME PoolInv, NEW q \in Requests, \A j \in Runs(q) : phase[j] = "idle", AcquireAll(q)
  PROVE  /\ PoolInv' /\ result' = result
         /\ \A j \in Runs(q) : phase'[j] \in {"queued", "preparing"}
         /\ \A j \in Jobs \ Runs(q) : phase'[j] = phase[j]
<1>1. Inputs[q] \in Nat /\ permits \in Nat /\ queue \in Seq(Jobs)
  BY InputsAssumption DEF Requests, PoolInv, PoolTyped
<1>2. PICK now, w :
        /\ now \in 0 .. Inputs[q] /\ now <= permits
        /\ w = [i \in 1 .. (Inputs[q] - now) |-> <<q, now + i>>]
        /\ permits' = permits - now
        /\ phase' = [j \in Jobs |-> IF j \notin Runs(q) THEN phase[j]
                                    ELSE IF j[2] <= now THEN "preparing" ELSE "queued"]
        /\ \E k \in 0 .. Len(queue) :
             queue' = SubSeq(queue, 1, k) \o w \o SubSeq(queue, k + 1, Len(queue))
        /\ result' = result
  <2>. DEFINE blocked == \E i \in 1 .. Len(queue) : Precedes(queue[i], -q)
              n == IF blocked THEN 0 ELSE IF permits < Inputs[q] THEN permits ELSE Inputs[q]
              v == [i \in 1 .. (Inputs[q] - n) |-> <<q, n + i>>]
  <2>1. n \in 0 .. Inputs[q] /\ n <= permits
    BY <1>1
  <2>2. /\ permits' = permits - n
        /\ phase' = [j \in Jobs |-> IF j \notin Runs(q) THEN phase[j]
                                    ELSE IF j[2] <= n THEN "preparing" ELSE "queued"]
        /\ \E k \in 0 .. Len(queue) :
             queue' = SubSeq(queue, 1, k) \o v \o SubSeq(queue, k + 1, Len(queue))
        /\ result' = result
    BY DEF AcquireAll
  <2>3. v = [i \in 1 .. (Inputs[q] - n) |-> <<q, n + i>>]
    OBVIOUS
  <2>. HIDE DEF n, v
  <2>. QED
    BY <2>1, <2>2, <2>3
<1>3. PICK k \in 0 .. Len(queue) :
        queue' = SubSeq(queue, 1, k) \o w \o SubSeq(queue, k + 1, Len(queue))
  BY <1>2
<1>4. /\ Len(w) = Inputs[q] - now /\ w \in Seq(Runs(q))
      /\ \A i \in 1 .. Len(w) : w[i] = <<q, now + i>> /\ w[i] \in Runs(q)
  <2>1. Inputs[q] - now \in Nat /\ now \in Nat
    BY <1>1, <1>2
  <2>2. \A i \in 1 .. (Inputs[q] - now) : <<q, now + i>> \in Runs(q)
    <3>1. \A i \in 1 .. (Inputs[q] - now) : now + i \in 1 .. Inputs[q]
      BY <1>1, <1>2
    <3>. QED
      BY <3>1 DEF Runs
  <2>3. w = [i \in 1 .. (Inputs[q] - now) |-> <<q, now + i>>]
    BY <1>2
  <2>4. w \in Seq(Runs(q)) /\ Len(w) = Inputs[q] - now
    <3>. DEFINE n == Inputs[q] - now
                S == Runs(q)
    <3>1. n \in Nat /\ w \in [1 .. n -> S] /\ DOMAIN w = 1 .. n
      BY <2>1, <2>2, <2>3
    <3>. HIDE DEF n, S
    <3>2. w \in Seq(S) /\ Len(w) = n
      BY <3>1, SeqDef
    <3>. QED
      BY <3>2 DEF n, S
  <2>. QED
    BY <2>2, <2>3, <2>4
<1>5. \A j \in Runs(q) : j \in Jobs
  BY Parts
<1>6. w \in Seq(Jobs)
  BY <1>4, <1>5
<1>7. queue' \in Seq(Jobs) /\ Inserted(queue', queue, k, w)
  BY <1>1, <1>3, <1>6, ConcatInserts
<1>8. /\ \A j \in Runs(q) : phase'[j] \in {"queued", "preparing"}
      /\ \A j \in Jobs \ Runs(q) : phase'[j] = phase[j]
  BY <1>2, <1>5
<1>9. PoolTyped'
  <2>1. permits' \in Nat
    BY <1>1, <1>2
  <2>2. phase' \in [Jobs -> Phases]
    BY <1>2 DEF PoolInv, PoolTyped, Phases
  <2>. QED
    BY <1>2, <1>7, <2>1, <2>2 DEF PoolInv, PoolTyped
<1>10. Waiting'
  <2>. DEFINE s == queue'
              ph == phase'
  <2>1. \A i \in 1 .. Len(queue) : /\ queue[i] \in Jobs \ Runs(q)
                                   /\ phase[queue[i]] = "queued"
    BY <1>1 DEF PoolInv, Waiting, WaitersQueued
  <2>2. \A i \in 1 .. Len(queue) : ph[queue[i]] = "queued"
    BY <1>8, <2>1
  <2>3. \A i \in 1 .. Len(w) : ph[w[i]] = "queued"
    <3>1. SUFFICES ASSUME NEW i \in 1 .. Len(w) PROVE ph[w[i]] = "queued"
      OBVIOUS
    <3>2. w[i][2] = now + i /\ w[i] \in Runs(q) /\ w[i] \in Jobs
      BY <1>4, <1>5
    <3>3. ~(now + i <= now)
      BY <1>2, <1>4
    <3>. QED
      BY <1>2, <3>2, <3>3
  <2>4. \A i, l \in 1 .. Len(w) : w[i] = w[l] => i = l
    <3>1. SUFFICES ASSUME NEW i \in 1 .. Len(w), NEW l \in 1 .. Len(w), w[i] = w[l]
                   PROVE  i = l
      OBVIOUS
    <3>2. now + i = now + l
      BY <1>4, <3>1
    <3>3. now \in Int /\ i \in Int /\ l \in Int
      BY <1>2, <1>4
    <3>. QED
      BY <3>2, <3>3
  <2>5. \A i, l \in 1 .. Len(queue) : queue[i] = queue[l] => i = l
    BY DEF PoolInv, Waiting, WaitOnce
  <2>6. \A i \in 1 .. Len(queue), l \in 1 .. Len(w) : queue[i] # w[l]
    BY <1>4, <2>1
  <2>7. Waiting' <=> /\ \A i \in 1 .. Len(s) : ph[s[i]] = "queued"
                     /\ \A i, l \in 1 .. Len(s) : s[i] = s[l] => i = l
    BY DEF Waiting, WaitersQueued, WaitOnce
  <2>8. Inserted(s, queue, k, w)
    BY <1>7
  <2>. HIDE DEF s, ph
  <2>. QED
    BY <1>1, <1>6, <2>2, <2>3, <2>4, <2>5, <2>6, <2>7, <2>8, InsertedWait
<1>11. Fresh'
  BY <1>2, <1>8 DEF PoolInv, Fresh
<1>. QED
  BY <1>2, <1>8, <1>9, <1>10, <1>11 DEF PoolInv

LEMMA CheckExecutableKeeps == ASSUME IndInv, NEW q \in Requests, CheckExecutable(q) PROVE IndInv'
<1>1. HandlerTyped /\ PoolInv /\ RequestInv(q)
  BY IndInvParts
<1>2. stage[q] = "checking" /\ UNCHANGED <<executable, compiled, loaded, swallowed, crashes>>
  BY DEF CheckExecutable, storage
<1>3. \A j \in Runs(q) : phase[j] = "idle" /\ result[j] = "none"
  BY <1>1, <1>2, Parts DEF RequestInv, RunningOf, PoolInv, Fresh
<1>4. /\ executable[q] \in {"absent", "own", "leftover"}
      /\ executable' = [executable EXCEPT ![q] = executable[q]]
      /\ Built(q)
  BY <1>1, <1>2 DEF HandlerTyped, RequestInv, BuildingOf
<1>5. CASE executable[q] = "absent"
  <2>1. /\ stage' = [stage EXCEPT ![q] = "finally"] /\ reply' = [reply EXCEPT ![q] = "error"]
        /\ UNCHANGED poolVars
    BY <1>5 DEF CheckExecutable, Finish, Go
  <2>2. stage'[q] = "finally" /\ reply'[q] = "error"
    BY <1>1, <2>1 DEF HandlerTyped
  <2>3. RequestInv(q)'
    BY <1>1, <1>2, <1>3, <2>1, <2>2
       DEF RequestInv, BuildingOf, RunningOf, AnsweringOf, Built, Over, poolVars
  <2>. QED
    BY <1>2, <1>4, <2>1, <2>3, HandlerMoves
<1>6. CASE executable[q] # "absent"
  <2>1. /\ stage' = [stage EXCEPT ![q] = "running"] /\ reply' = reply /\ AcquireAll(q)
        /\ stage'[q] = "running"
    BY <1>1, <1>6 DEF CheckExecutable, Go, HandlerTyped
  <2>2. /\ PoolInv' /\ result' = result
        /\ \A j \in Runs(q) : phase'[j] \in {"queued", "preparing"}
        /\ \A j \in Jobs \ Runs(q) : phase'[j] = phase[j]
    BY <1>1, <1>3, <2>1, AcquireAllKeeps
  <2>3. HandlerTyped'
    BY <1>1, <1>2, <2>1 DEF HandlerTyped
  <2>4. ASSUME NEW r \in Requests, r # q PROVE RequestInv(r)'
    <3>1. \A j \in Jobs : Request(j) = r => j \notin Runs(q)
      BY <2>4, Parts
    <3>2. Untouched(r)
      BY <1>1, <1>2, <2>1, <2>2, <2>4, <3>1 DEF Untouched, Advances, HandlerTyped
    <3>3. RequestInv(r)
      BY IndInvParts
    <3>. QED
      BY <3>2, <3>3, UntouchedKeeps
  <2>5. RequestInv(q)'
    <3>1. /\ phase'[Compilation(q)] = phase[Compilation(q)]
          /\ result'[Compilation(q)] = result[Compilation(q)]
      BY <2>2, Parts
    <3>2. Built(q)'
      BY <1>4, <3>1 DEF Built, Compilation
    <3>3. BuildingOf(q)'
      BY <1>1, <1>2, <1>4, <2>1, <3>1, <3>2 DEF RequestInv, BuildingOf, Built, Over, Compilation
    <3>4. ASSUME NEW j \in Runs(q) PROVE RunningOf(q, j)'
      BY <1>2, <1>3, <1>6, <2>1, <2>2, <3>2 DEF RunningOf
    <3>5. AnsweringOf(q)'
      BY <1>1, <1>2, <2>1 DEF RequestInv, AnsweringOf
    <3>. QED
      BY <3>3, <3>4, <3>5 DEF RequestInv, Runs
  <2>. QED
    BY <2>2, <2>3, <2>4, <2>5, IndInvAgain
<1>. QED
  BY <1>5, <1>6

-----------------------------------------------------------------------------
LEMMA InitIndInv == CInit => IndInv
<1>. SUFFICES ASSUME CInit PROVE IndInv
  OBVIOUS
<1>. USE DEF CInit, Init, NoStage, NoReply, NoFlag, NoLoad
<1>1. PoolInv
  BY EmptySeq, BoxCountAssumption
     DEF PoolInv, PoolTyped, Waiting, WaitersQueued, WaitOnce, Fresh, Phases, Results
<1>2. HandlerTyped
  BY CrashAssumption DEF HandlerTyped
<1>3. ASSUME NEW r \in Requests PROVE RequestInv(r)
  BY Parts DEF RequestInv, BuildingOf, RunningOf, AnsweringOf, Built, Over
<1>. QED
  BY <1>1, <1>2, <1>3, IndInvParts

LEMMA CrashKeeps == ASSUME IndInv, Crash PROVE IndInv'
<1>. USE DEF Crash, NoStage, NoReply, NoFlag, NoLoad
<1>1. PoolInv'
  BY EmptySeq, BoxCountAssumption
     DEF PoolInv, PoolTyped, Waiting, WaitersQueued, WaitOnce, Fresh, Phases, Results
<1>2. HandlerTyped'
  BY CrashAssumption DEF HandlerTyped, IndInv
<1>3. ASSUME NEW r \in Requests PROVE RequestInv(r)'
  BY Parts DEF RequestInv, BuildingOf, RunningOf, AnsweringOf, Built, Over
<1>. QED
  BY <1>1, <1>2, <1>3, IndInvAgain

LEMMA NextIndInv == IndInv /\ [CNext]_allVars => IndInv'
<1>. SUFFICES ASSUME IndInv, [CNext]_allVars PROVE IndInv'
  OBVIOUS
<1>1. ASSUME NEW r \in Requests, Reject(r) \/ Compile(r) \/ HandlerStep(r) PROVE IndInv'
  <2>1. CASE Reject(r)
    BY <2>1, RejectKeeps
  <2>2. CASE Compile(r)
    BY <2>2, CompileKeeps
  <2>3. CASE HandlerStep(r)
    BY <2>3, CompiledKeeps, CheckExecutableKeeps, RunsReturnKeeps, RunsFailKeeps, AnswerKeeps
       DEF HandlerStep
  <2>. QED
    BY <1>1, <2>1, <2>2, <2>3
<1>2. ASSUME NEW j \in Jobs, CopyOut(j) \/ CopyIn(j) \/ JobStep(j) PROVE IndInv'
  <2>1. CASE CopyOut(j)
    BY <2>1, CopyOutKeeps
  <2>2. CASE CopyIn(j)
    BY <2>2, CopyInKeeps
  <2>3. CASE JobStep(j)
    BY <2>3, JobStepKeeps
  <2>. QED
    BY <1>2, <2>1, <2>2, <2>3
<1>3. CASE Crash
  BY <1>3, CrashKeeps
<1>4. CASE UNCHANGED allVars
  <2>1. PoolInv'
    BY <1>4 DEF allVars, poolVars, IndInv, PoolInv, PoolTyped, Waiting, WaitersQueued,
                WaitOnce, Fresh
  <2>2. HandlerTyped'
    BY <1>4 DEF allVars, handler, storage, IndInv, HandlerTyped
  <2>3. ASSUME NEW r \in Requests PROVE RequestInv(r)'
    <3>1. RequestInv(r) /\ Untouched(r)
      BY <1>4, IndInvParts DEF Untouched, Advances, allVars, poolVars, handler, storage
    <3>. QED
      BY <3>1, UntouchedKeeps
  <2>. QED
    BY <2>1, <2>2, <2>3, IndInvAgain
<1>. QED
  BY <1>1, <1>2, <1>3, <1>4 DEF CNext, AllAnswered

LEMMA IndInvHolds == CSpec => []IndInv
BY InitIndInv, NextIndInv, PTL DEF CSpec

(* The states of requests and jobs are always the ones declared.           *)
THEOREM TypeCorrect == CSpec => []TypeInvariant
<1>1. IndInv => TypeInvariant
  BY IndInvParts DEF PoolInv
<1>. QED
  BY <1>1, IndInvHolds, PTL

(* A job that outlives the answer of its request, or finds the executable  *)
(* gone, belongs to a request that ended in an error: the finally block    *)
(* never pulls the executable from under one that may still succeed.       *)
THEOREM ExecutableStays == CSpec => []FindsExecutable
<1>1. IndInv => FindsExecutable
  <2>. SUFFICES ASSUME IndInv, NEW j \in Jobs, phase[j] \notin Over,
                       \/ stage[Request(j)] = "answered"
                       \/ IsRun(j) /\ executable[Request(j)] = "absent"
                PROVE  stage[Request(j)] = "answered" /\ reply[Request(j)] = "error"
    BY DEF FindsExecutable
  <2>1. Request(j) \in Requests /\ RequestInv(Request(j))
    BY Parts, IndInvParts
  <2>2. CASE IsRun(j)
    BY <2>1, <2>2, Parts DEF RequestInv, RunningOf
  <2>3. CASE ~IsRun(j)
    BY <2>1, <2>3, Parts DEF RequestInv, BuildingOf
  <2>. QED
    BY <2>2, <2>3
<1>. QED
  BY <1>1, IndInvHolds, PTL

(* Outputs that are returned come from the executable this request has     *)
(* built, unless copying it out failed and a leftover took its place.      *)
THEOREM OwnCode == CSpec => []OutputsOfOwnCode
<1>1. IndInv => OutputsOfOwnCode
  BY IndInvParts DEF RequestInv, AnsweringOf, RunningOf, OutputsOfOwnCode
<1>. QED
  BY <1>1, IndInvHolds, PTL

(* An answered request has left no executable of its own in the storage.   *)
THEOREM Released == CSpec => []StorageReleased
<1>1. IndInv => StorageReleased
  BY DEF IndInv, Answering, AnsweringOf, StorageReleased
<1>. QED
  BY <1>1, IndInvHolds, PTL

-----------------------------------------------------------------------------
(* Judge.  What the compiler service answers for a program, and the codes  *)
(* a submission of it gets, as functions of the program and of what was    *)
(* lost of the report of its compilation.                                  *)

AnswerTo(kind, p, lost) ==
  IF CompilationCode(problem, p, lost) # "none"
  THEN [code |-> CompilationCode(problem, p, lost), lost |-> lost]
  ELSE [code |-> "none", lost |-> lost,
        outputs |-> [i \in DOMAIN Part(kind, p.runs) |->
          [code |-> processOutput(Part(kind, p.runs)[i], problem.memory),
           runtimeOutput |-> Output(Part(kind, p.runs)[i])]]]

HiddenTests == Len(problem.expected) - problem.examples

CodeOfRun(p, i) ==
  IF processOutput(p.runs[i], problem.memory) # "none"
  THEN processOutput(p.runs[i], problem.memory)
  ELSE IF compareOutput(Output(p.runs[i]), problem.expected[i]) THEN "AC" ELSE "WA"

CodesOf(p, lost) ==
  IF CompilationCode(problem, p, lost) # "none"
  THEN [i \in 1 .. HiddenTests |-> CompilationCode(problem, p, lost)]
  ELSE [i \in 1 .. HiddenTests |-> CodeOfRun(p, problem.examples + i)]

PassesAll(p) ==
  /\ \E lost \in Losses : CompilationCode(problem, p, lost) = "none"
  /\ \A i \in 1 .. Len(problem.expected) :
       /\ processOutput(p.runs[i], problem.memory) = "none"
       /\ compareOutput(problem.expected[i], Output(p.runs[i]))

Written == Submissions(problem) \union {solution}

(* The invariant: an answer is that to the program of the call, and what   *)
(* was decided by it is what the program deserves.                         *)
ProblemInv == problem \in Problems /\ solution \in Solutions(problem)
CallInv ==
  \/ call = NoCall /\ response = Unanswered
  \/ call.kind = "submit" /\ call.program \in Written
  \/ call.kind = "verify" /\ call.program = solution
ResponseInv ==
  \/ response = Unanswered
  \/ response = [code |-> "IE", lost |-> "nothing"]
  \/ \E lost \in Losses : response = AnswerTo(call.kind, call.program, lost)
VerifiedInv == verified => PassesAll(solution)
JudgedInv ==
  judged # Nothing =>
    /\ judged.program \in Written
    /\ judged.lost \in Losses
    /\ judged.codes = IF judged.served THEN CodesOf(judged.program, judged.lost)
                      ELSE [i \in 1 .. HiddenTests |-> "IE"]
JudgeInv == ProblemInv /\ CallInv /\ ResponseInv /\ VerifiedInv /\ JudgedInv

(* A program has one run for each test of its problem.                     *)
LEMMA RunsFit ==
  ASSUME ProblemInv, NEW p \in Written
  PROVE  /\ problem.expected \in Seq(Seq(STRING))
         /\ problem.examples \in 0 .. Len(problem.expected) - 1
         /\ p.runs \in Seq(RunsOfPrograms)
         /\ Len(p.runs) = Len(problem.expected)
         /\ HiddenTests \in Nat
<1>1. /\ problem.expected \in Seq(Seq(STRING))
      /\ problem.examples \in 0 .. Len(problem.expected) - 1
      /\ p.runs \in Seq(RunsOfPrograms)
      /\ Len(p.runs) = Len(problem.expected)
  BY ProblemsAssumption DEF ProblemInv, Written
<1>2. Len(problem.expected) \in Nat
  BY <1>1
<1>. QED
  BY <1>1, <1>2 DEF HiddenTests

(* The hidden part of a sequence with an element for each test.            *)
LEMMA HiddenPart ==
  ASSUME ProblemInv, NEW S, NEW s \in Seq(S), Len(s) = Len(problem.expected)
  PROVE  /\ DOMAIN Part("submit", s) = 1 .. HiddenTests
         /\ \A i \in 1 .. HiddenTests :
              Part("submit", s)[i] = s[problem.examples + i]
<1>. DEFINE e == problem.examples
            n == Len(s)
<1>1. n \in Nat /\ e \in 0 .. n /\ Len(problem.expected) = n
  BY ProblemsAssumption DEF ProblemInv
<1>2. \A i \in e + 1 .. n : s[i] \in S
  BY <1>1
<1>3. /\ SubSeq(s, e + 1, n) \in Seq(S)
      /\ Len(SubSeq(s, e + 1, n)) = IF e + 1 <= n THEN n - (e + 1) + 1 ELSE 0
      /\ \A i \in 1 .. n - (e + 1) + 1 : SubSeq(s, e + 1, n)[i] = s[e + 1 + i - 1]
  <2>1. e + 1 \in Int /\ n \in Int
    BY <1>1
  <2>. HIDE DEF e, n
  <2>. QED
    BY <1>2, <2>1, SubSeqProperties
<1>4. Part("submit", s) = SubSeq(s, e + 1, n)
  BY DEF Part
<1>5. HiddenTests = n - e
  BY <1>1 DEF HiddenTests
<1>. HIDE DEF e, n
<1>6. Len(SubSeq(s, e + 1, n)) = n - e /\ n - (e + 1) + 1 = n - e
  BY <1>1, <1>3
<1>7. \A i \in 1 .. n - e : SubSeq(s, e + 1, n)[i] = s[e + i]
  <2>. SUFFICES ASSUME NEW i \in 1 .. n - e PROVE SubSeq(s, e + 1, n)[i] = s[e + i]
    OBVIOUS
  <2>1. e + 1 + i - 1 = e + i
    BY <1>1
  <2>. QED
    BY <1>3, <1>6, <2>1
<1>8. DOMAIN SubSeq(s, e + 1, n) = 1 .. n - e
  BY <1>3, <1>6
<1>. QED
  BY <1>4, <1>5, <1>7, <1>8 DEF e

LEMMA InitJudgeInv == JudgeInit => JudgeInv
BY DEF JudgeInit, JudgeInv, ProblemInv, CallInv, ResponseInv, VerifiedInv, JudgedInv

(* runTestcases() on the answer to a submission gives the codes above.     *)
LEMMA CodesOfAnswer ==
  ASSUME ProblemInv, NEW p \in Written, NEW lost, response = AnswerTo("submit", p, lost)
  PROVE  runTestcases = CodesOf(p, lost)
<1>1. /\ problem.expected \in Seq(Seq(STRING))
      /\ p.runs \in Seq(RunsOfPrograms)
      /\ Len(p.runs) = Len(problem.expected)
  BY RunsFit
<1>2. /\ DOMAIN Part("submit", p.runs) = 1 .. HiddenTests
      /\ \A i \in 1 .. HiddenTests :
           Part("submit", p.runs)[i] = p.runs[problem.examples + i]
  BY <1>1, HiddenPart
<1>3. /\ DOMAIN Part("submit", problem.expected) = 1 .. HiddenTests
      /\ \A i \in 1 .. HiddenTests :
           Part("submit", problem.expected)[i] = problem.expected[problem.examples + i]
  BY <1>1, HiddenPart
<1>4. CASE CompilationCode(problem, p, lost) # "none"
  <2>1. response.code = CompilationCode(problem, p, lost)
    BY <1>4 DEF AnswerTo
  <2>. QED
    BY <1>3, <1>4, <2>1 DEF runTestcases, CodesOf
<1>5. CASE CompilationCode(problem, p, lost) = "none"
  <2>1. /\ response.code = "none"
        /\ DOMAIN response.outputs = 1 .. HiddenTests
        /\ \A i \in 1 .. HiddenTests :
             /\ response.outputs[i].code = processOutput(p.runs[problem.examples + i], problem.memory)
             /\ response.outputs[i].runtimeOutput = Output(p.runs[problem.examples + i])
    BY <1>2, <1>5 DEF AnswerTo
  <2>. QED
    BY <1>3, <1>5, <2>1 DEF runTestcases, CodesOf, CodeOfRun, ExpectedOutputs
<1>. QED
  BY <1>4, <1>5

(* Verification accepts only what passes all tests.                        *)
LEMMA VerifyDecides ==
  ASSUME ProblemInv, NEW lost \in Losses, response = AnswerTo("verify", solution, lost),
         response.code = "none",
         \A i \in DOMAIN ExpectedOutputs("verify") :
           /\ response.outputs[i].code = "none"
           /\ compareOutput(ExpectedOutputs("verify")[i], response.outputs[i].runtimeOutput)
  PROVE  PassesAll(solution)
<1>1. /\ problem.expected \in Seq(Seq(STRING))
      /\ solution.runs \in Seq(RunsOfPrograms)
      /\ Len(solution.runs) = Len(problem.expected)
  BY RunsFit DEF Written
<1>2. CompilationCode(problem, solution, lost) = "none"
  BY DEF AnswerTo
<1>3. /\ DOMAIN response.outputs = 1 .. Len(problem.expected)
      /\ \A i \in 1 .. Len(problem.expected) :
           /\ response.outputs[i].code = processOutput(solution.runs[i], problem.memory)
           /\ response.outputs[i].runtimeOutput = Output(solution.runs[i])
  BY <1>1, <1>2 DEF AnswerTo, Part
<1>4. ExpectedOutputs("verify") = problem.expected
  BY DEF ExpectedOutputs, Part
<1>5. DOMAIN problem.expected = 1 .. Len(problem.expected)
  BY <1>1
<1>6. ASSUME NEW i \in 1 .. Len(problem.expected)
      PROVE  /\ processOutput(solution.runs[i], problem.memory) = "none"
             /\ compareOutput(problem.expected[i], Output(solution.runs[i]))
  BY <1>3, <1>4, <1>5
<1>. QED
  BY <1>2, <1>6 DEF PassesAll

LEMMA NextJudgeInv == JudgeInv /\ [JudgeNext]_judgeVars => JudgeInv'
<1>. SUFFICES ASSUME JudgeInv, [JudgeNext]_judgeVars PROVE JudgeInv'
  OBVIOUS
<1>. USE DEF JudgeInv
<1>1. problem' = problem /\ solution' = solution
  BY DEF JudgeNext, VerifySolution, SubmitProgram, ServiceAnswers, ServiceFails, VerifyEnds, SubmitEnds,
     ListBegins, ListEnds, judgeVars
<1>2. ProblemInv'
  BY <1>1 DEF ProblemInv
<1>3. /\ Written' = Written /\ HiddenTests' = HiddenTests
      /\ \A p, lost : CodesOf(p, lost)' = CodesOf(p, lost)
      /\ \A p : PassesAll(p)' <=> PassesAll(p)
      /\ \A kind, p, lost : AnswerTo(kind, p, lost)' = AnswerTo(kind, p, lost)
  BY <1>1 DEF Written, HiddenTests, CodesOf, CodeOfRun, PassesAll, AnswerTo, Part
<1>4. ASSUME UNCHANGED verified PROVE VerifiedInv'
  BY <1>1, <1>3, <1>4 DEF VerifiedInv
<1>5. ASSUME UNCHANGED judged PROVE JudgedInv'
  BY <1>1, <1>3, <1>5 DEF JudgedInv
<1>6. CASE VerifySolution
  <2>1. CallInv'
    BY <1>1, <1>6 DEF VerifySolution, CallInv
  <2>2. ResponseInv'
    BY <1>6 DEF VerifySolution, CallInv, ResponseInv, NoCall
  <2>. QED
    BY <1>2, <1>4, <1>5, <1>6, <2>1, <2>2 DEF VerifySolution
<1>7. CASE \E p \in Written : SubmitProgram(p)
  <2>1. PICK p \in Written : SubmitProgram(p)
    BY <1>7
  <2>2. CallInv'
    BY <1>3, <2>1 DEF SubmitProgram, CallInv
  <2>3. ResponseInv'
    BY <2>1 DEF SubmitProgram, CallInv, ResponseInv, NoCall
  <2>. QED
    BY <1>2, <1>4, <1>5, <2>1, <2>2, <2>3 DEF SubmitProgram
<1>8. CASE \E lost \in LostReports(problem) : ServiceAnswers(lost)
  <2>. PICK lost \in Losses : ServiceAnswers(lost)
    BY <1>8, ProblemsAssumption DEF ProblemInv
  <2>1. call' = call /\ call # NoCall /\ UNCHANGED <<verified, judged>>
    BY DEF ServiceAnswers
  <2>2. response' = AnswerTo(call.kind, call.program, lost)
    BY DEF ServiceAnswers, AnswerTo
  <2>3. CallInv'
    BY <1>1, <1>3, <2>1 DEF CallInv
  <2>4. ResponseInv'
    BY <1>3, <2>1, <2>2 DEF ResponseInv
  <2>. QED
    BY <1>2, <1>4, <1>5, <2>1, <2>3, <2>4
<1>9. CASE ServiceFails
  <2>1. CallInv' /\ ResponseInv'
    BY <1>1, <1>3, <1>9 DEF ServiceFails, CallInv, ResponseInv
  <2>. QED
    BY <1>2, <1>4, <1>5, <1>9, <2>1 DEF ServiceFails
<1>10. CASE VerifyEnds
  <2>1. CallInv' /\ ResponseInv'
    BY <1>10 DEF VerifyEnds, CallEnds, CallInv, ResponseInv
  <2>2. call.kind = "verify" /\ response # Unanswered /\ UNCHANGED judged
    BY <1>10 DEF VerifyEnds, Answered
  <2>3. /\ call.program = solution
        /\ response.code = "none" =>
             \E lost \in Losses : response = AnswerTo("verify", solution, lost)
    BY <2>2 DEF CallInv, ResponseInv, NoCall
  <2>4. VerifiedInv'
    <3>. SUFFICES ASSUME verified', ~verified PROVE PassesAll(solution)
      BY <1>1, <1>3 DEF VerifiedInv
    <3>1. /\ response.code = "none"
          /\ \A i \in DOMAIN ExpectedOutputs("verify") :
               /\ response.outputs[i].code = "none"
               /\ compareOutput(ExpectedOutputs("verify")[i], response.outputs[i].runtimeOutput)
      BY <1>10 DEF VerifyEnds
    <3>. QED
      BY <2>3, <3>1, VerifyDecides
  <2>. QED
    BY <1>2, <1>5, <2>1, <2>2, <2>4
<1>11. CASE SubmitEnds
  <2>1. CallInv' /\ ResponseInv'
    BY <1>11 DEF SubmitEnds, CallEnds, CallInv, ResponseInv
  <2>2. /\ call.kind = "submit" /\ response # Unanswered /\ UNCHANGED verified
        /\ judged' = [program |-> call.program, codes |-> runTestcases,
                      lost |-> response.lost, served |-> response.code # "IE"]
    BY <1>11 DEF SubmitEnds, Answered
  <2>3. /\ call.program \in Written
        /\ response.lost \in Losses
        /\ response.code # "IE" => response = AnswerTo("submit", call.program, response.lost)
    BY <2>2 DEF CallInv, ResponseInv, NoCall, AnswerTo, Losses
  <2>4. JudgedInv'
    <3>0. ProblemInv
      OBVIOUS
    <3>1. ASSUME response.code # "IE"
          PROVE  runTestcases = CodesOf(call.program, response.lost)
      <4>1. \A p \in Written : \A lost :
              response = AnswerTo("submit", p, lost) => runTestcases = CodesOf(p, lost)
        BY <3>0, CodesOfAnswer
      <4>. QED
        BY <2>3, <3>1, <4>1
    <3>2. response.code = "IE" => runTestcases = [i \in 1 .. HiddenTests |-> "IE"]
      <4>0. problem.expected \in Seq(Seq(STRING))
        BY <2>3, <3>0, RunsFit
      <4>1. DOMAIN Part("submit", problem.expected) = 1 .. HiddenTests
        BY <3>0, <4>0, HiddenPart
      <4>. QED
        BY <4>1 DEF runTestcases
    <3>. QED
      BY <1>1, <1>3, <2>2, <2>3, <3>1, <3>2 DEF JudgedInv
  <2>. QED
    BY <1>2, <1>4, <2>1, <2>2, <2>4
<1>12. CASE \/ \E f \in Filters(problem) : ListBegins(f)
            \/ ListEnds \/ UNCHANGED judgeVars
  <2>1. UNCHANGED <<call, response, verified, judged>>
    BY <1>12 DEF ListBegins, ListEnds, judgeVars
  <2>2. CallInv' /\ ResponseInv'
    BY <1>1, <1>3, <2>1 DEF CallInv, ResponseInv
  <2>. QED
    BY <1>2, <1>4, <1>5, <2>1, <2>2
<1>. QED
  BY <1>6, <1>7, <1>8, <1>9, <1>10, <1>11, <1>12 DEF JudgeNext, Written

LEMMA JudgeInvHolds == JudgeSpec => []JudgeInv
BY InitJudgeInv, NextJudgeInv, PTL DEF JudgeSpec

(* What compiles, whatever was lost of the report, does so again, unless   *)
(* it includes a header that is not allowed.                               *)
LEMMA CompilesAgain ==
  ASSUME NEW p, NEW l, NEW lost, CompilationCode(problem, p, l) = "none",
         problem.restricted => ~p.foreign
  PROVE  CompilationCode(problem, p, lost) = "none"
<1>. DEFINE asserted == problem.bans /\ AssertionFails(PreparedLines(p.lines))
            undefines == problem.bans /\ Contains(p.lines, "undef")
<1>1. ~undefines /\ ~asserted /\ CompilerCode(p, l) = "none"
  <2>. HIDE DEF asserted, undefines
  <2>1. CompilationCode(problem, p, l) =
          IF undefines THEN "DNA"
          ELSE IF problem.restricted /\ p.foreign /\ l # "output" THEN "HNA"
          ELSE IF asserted /\ l # "output" THEN "FNA"
          ELSE IF asserted /\ p.fault = "none" THEN "CE"
          ELSE CompilerCode(p, l)
    BY DEF CompilationCode, asserted, undefines
  <2>2. asserted /\ p.fault # "none" => CompilerCode(p, l) # "none"
    BY DEF CompilerCode
  <2>. QED
    BY <2>1, <2>2
<1>2. p.fault = "none"
  BY <1>1 DEF CompilerCode
<1>3. CompilerCode(p, lost) = "none"
  BY <1>2 DEF CompilerCode
<1>. QED
  BY <1>1, <1>3 DEF CompilationCode

(* The two callers of the compiler service agree (problems.service.ts:768, *)
(* submissions.service.ts:336): what verifyTestcases() has accepted gets   *)
(* only AC as a submission, for any problems, tests and programs, whatever *)
(* is lost of either compilation.                                          *)
THEOREM VerifiedPasses == JudgeSpec => []VerifiedIsAccepted
<1>1. JudgeInv => VerifiedIsAccepted
  <2>. SUFFICES ASSUME JudgeInv, verified, problem.restricted => ~solution.foreign,
                       judged # Nothing, judged.program = solution,
                       judged.served, NEW i \in DOMAIN judged.codes
                PROVE  judged.codes[i] = "AC"
    BY DEF VerifiedIsAccepted
  <2>1. /\ PassesAll(solution) /\ solution \in Written
        /\ judged.codes = CodesOf(solution, judged.lost)
    BY DEF JudgeInv, VerifiedInv, JudgedInv
  <2>c. CompilationCode(problem, solution, judged.lost) = "none"
    BY <2>1, CompilesAgain DEF PassesAll
  <2>2. i \in 1 .. HiddenTests /\ judged.codes[i] = CodeOfRun(solution, problem.examples + i)
    BY <2>1, <2>c DEF CodesOf
  <2>3. problem.examples + i \in 1 .. Len(problem.expected)
    <3>1. problem.examples \in Nat /\ Len(problem.expected) \in Nat
      BY <2>1, RunsFit DEF JudgeInv
    <3>. QED
      BY <2>2, <3>1 DEF HiddenTests
  <2>. QED
    BY <2>1, <2>2, <2>3 DEF PassesAll, CodeOfRun, compareOutput
<1>. QED
  BY <1>1, JudgeInvHolds, PTL

-----------------------------------------------------------------------------
(* What a code of processOutput() says of the run.                         *)

(* The threshold is above half of the limit if that is at least 4 MB.      *)
LEMMA NearIsHalf ==
  ASSUME NEW rss \in Nat, NEW limit \in Nat, limit >= 4 * 1024 * 1024,
         NearMemoryLimit(rss, limit)
  PROVE  rss * 1024 * 2 > limit
BY DEF NearMemoryLimit

LEMMA CodeNamesCause ==
  ASSUME NEW run \in RunsOfPrograms, problem.memory \in Nat
  PROVE  LET code == processOutput(run, problem.memory)
         IN IF code = "none" THEN EndsWell(run)
            ELSE code \notin {"AC", "WA"} /\ NamesCause(code, run)
<1>1. /\ run.fate \in {"exit", "signal", "timeout", "internal"}
      /\ run.detail \in Nat /\ run.time \in Nat /\ run.rss \in Nat
      /\ run.lost \in {"nothing", "output", "metadata"}
  BY DEF RunsOfPrograms, Fates, Losses
<1>t. ~(run.time > TimeLimit) => run.time <= TimeLimit
  BY <1>1, LimitsAssumption
<1>m. run.rss > problem.memory => ~WithinMemory(run)
  BY <1>1 DEF WithinMemory
<1>0. 0 > problem.memory <=> FALSE
  OBVIOUS
<1>2. CASE run.lost = "metadata"
  <2>1. exitCode(run) = IF IsolateFails(run) THEN 1 ELSE 0
    BY <1>2 DEF exitCode, Metadata
  <2>2. processOutput(run, problem.memory) = IF IsolateFails(run) THEN "RE" ELSE "none"
    BY <1>0, <1>2, <2>1, LimitsAssumption DEF processOutput, Metadata
  <2>. QED
    BY <1>1, <1>2, <2>2 DEF IsolateFails, EndsWell, NamesCause
<1>3. CASE run.lost # "metadata" /\ run.fate = "exit"
  <2>1. exitCode(run) = run.detail
    BY <1>1, <1>3 DEF exitCode, Metadata
  <2>2. processOutput(run, problem.memory) = IF run.time > TimeLimit THEN "TLE"
                             ELSE IF run.rss > problem.memory THEN "MLE"
                             ELSE IF run.detail = 0 THEN "none" ELSE "RE"
    BY <1>3, <2>1 DEF processOutput, Metadata
  <2>. QED
    BY <1>1, <1>3, <1>m, <1>t, <2>2 DEF EndsWell, NamesCause
<1>4. CASE run.lost # "metadata" /\ run.fate = "signal"
  <2>1. IsolateFails(run)
    BY <1>4 DEF IsolateFails
  <2>2. exitCode(run) = IF run.detail # 0 THEN run.detail ELSE 1
    BY <1>4, <2>1 DEF exitCode, Metadata
  <2>3. exitCode(run) # 0
    BY <2>2
  <2>4. processOutput(run, problem.memory) =
          IF run.time > TimeLimit THEN "TLE"
          ELSE IF run.rss > problem.memory THEN "MLE"
          ELSE IF run.detail = 25 THEN "OLE"
          ELSE IF run.detail \in {11, 127} /\ NearMemoryLimit(run.rss, problem.memory) THEN "MLE" ELSE "RE"
    BY <1>4, <2>3 DEF processOutput, Metadata
  <2>5. NearMemoryLimit(run.rss, problem.memory) => (problem.memory >= 4 * 1024 * 1024 => run.rss * 1024 * 2 > problem.memory)
    BY <1>1, NearIsHalf
  <2>. QED
    BY <1>4, <1>m, <2>4, <2>5 DEF NamesCause
<1>5. CASE run.lost # "metadata" /\ run.fate \in {"timeout", "internal"}
  <2>1. IsolateFails(run)
    BY <1>5 DEF IsolateFails
  <2>2. exitCode(run) = 1
    BY <1>5, <2>1 DEF exitCode, Metadata
  <2>3. processOutput(run, problem.memory) =
          IF run.time > TimeLimit THEN "TLE"
          ELSE IF run.rss > problem.memory THEN "MLE"
          ELSE IF run.fate = "timeout" THEN "TLE" ELSE "IE"
    BY <1>5, <2>2 DEF processOutput, Metadata
  <2>. QED
    BY <1>5, <1>m, <2>3 DEF NamesCause
<1>. QED
  BY <1>1, <1>2, <1>3, <1>4, <1>5

(* For any problems, tests and programs, every code stands at its own test *)
(* and names what happened to the program there (app.service.ts:405,       *)
(* submissions.service.ts:336).                                            *)
THEOREM CodesAreTrue == JudgeSpec => []CodesNameCause
<1>1. JudgeInv => CodesNameCause
  <2>. DEFINE p == judged.program
  <2>. SUFFICES ASSUME JudgeInv, judged # Nothing, judged.served,
                       CompilationCode(problem, p, judged.lost) = "none"
                PROVE  /\ Len(judged.codes) = Len(problem.expected) - problem.examples
                       /\ \A i \in DOMAIN judged.codes :
                            NamesCause(judged.codes[i], p.runs[problem.examples + i])
    BY DEF CodesNameCause
  <2>1. p \in Written /\ judged.codes = CodesOf(p, judged.lost)
    BY DEF JudgeInv, JudgedInv
  <2>. HIDE DEF p
  <2>2. judged.codes = [i \in 1 .. HiddenTests |-> CodeOfRun(p, problem.examples + i)]
    BY <2>1 DEF CodesOf
  <2>3. /\ p.runs \in Seq(RunsOfPrograms) /\ Len(p.runs) = Len(problem.expected)
        /\ problem.examples \in 0 .. Len(problem.expected) - 1
        /\ HiddenTests \in Nat /\ Len(problem.expected) \in Nat
    BY <2>1, RunsFit DEF JudgeInv
  <2>4. Len(judged.codes) = HiddenTests
    BY <2>2, <2>3
  <2>5. ASSUME NEW i \in 1 .. HiddenTests
        PROVE  NamesCause(CodeOfRun(p, problem.examples + i), p.runs[problem.examples + i])
    <3>. DEFINE k == problem.examples + i
    <3>1. k \in 1 .. Len(p.runs)
      BY <2>3 DEF HiddenTests
    <3>. HIDE DEF k
    <3>2. p.runs[k] \in RunsOfPrograms
      BY <2>3, <3>1
    <3>3. problem.memory \in Nat
      BY ProblemsAssumption DEF JudgeInv, ProblemInv
    <3>5. LET code == processOutput(p.runs[k], problem.memory)
          IN IF code = "none" THEN EndsWell(p.runs[k])
             ELSE code \notin {"AC", "WA"} /\ NamesCause(code, p.runs[k])
      BY <3>2, <3>3, CodeNamesCause
    <3>6. NamesCause(CodeOfRun(p, k), p.runs[k])
      BY <3>5 DEF CodeOfRun, NamesCause
    <3>. QED
      BY <3>6 DEF k
  <2>. QED
    BY <2>2, <2>4, <2>5 DEF HiddenTests
<1>. QED
  BY <1>1, JudgeInvHolds, PTL

-----------------------------------------------------------------------------
(* Texts: what compareOutput() compares.                                   *)

LEMMA FunctionIsSeq ==
  ASSUME NEW S, NEW n \in Nat, NEW s \in [1 .. n -> S]
  PROVE  s \in Seq(S) /\ Len(s) = n
OBVIOUS

(* Ranks: how many of the positions stand no later than the given one.     *)
LEMMA RankType ==
  ASSUME NEW P, IsFiniteSet(P), NEW i
  PROVE  /\ IsFiniteSet({q \in P : q <= i})
         /\ Rank(P, i) \in 0 .. Cardinality(P) /\ Cardinality(P) \in Nat
<1>1. {q \in P : q <= i} \in SUBSET P
  OBVIOUS
<1>2. IsFiniteSet({q \in P : q <= i}) /\ Cardinality({q \in P : q <= i}) <= Cardinality(P)
  BY <1>1, FS_Subset
<1>3. Cardinality({q \in P : q <= i}) \in Nat /\ Cardinality(P) \in Nat
  BY <1>2, FS_CardinalityType
<1>. QED
  BY <1>2, <1>3 DEF Rank

LEMMA RankGrows ==
  ASSUME NEW P \in SUBSET Int, IsFiniteSet(P), NEW i \in Int, NEW j \in Int, i <= j
  PROVE  /\ Rank(P, i) <= Rank(P, j)
         /\ \A q \in P : i < q /\ q <= j => Rank(P, i) < Rank(P, j)
<1>. DEFINE A == {q \in P : q <= i}
            B == {q \in P : q <= j}
<1>1. A \in SUBSET B /\ IsFiniteSet(A) /\ IsFiniteSet(B)
  <2>1. ASSUME NEW q \in P, q <= i PROVE q <= j
    <3>1. q \in Int
      OBVIOUS
    <3>. QED
      BY <2>1, <3>1
  <2>. QED
    BY <2>1, RankType
<1>2. Cardinality(A) <= Cardinality(B) /\ (Cardinality(A) = Cardinality(B) => A = B)
  <2>. HIDE DEF A, B
  <2>. QED
    BY <1>1, FS_Subset
<1>3. \A q \in P : i < q /\ q <= j => A # B
  OBVIOUS
<1>4. Cardinality(A) \in Nat /\ Cardinality(B) \in Nat
  BY <1>1, FS_CardinalityType
<1>5. Rank(P, i) = Cardinality(A) /\ Rank(P, j) = Cardinality(B)
  BY DEF Rank
<1>. HIDE DEF A, B
<1>. QED
  BY <1>2, <1>3, <1>4, <1>5

(* All positions from one on to another count.                             *)
LEMMA RankSteps ==
  ASSUME NEW P \in SUBSET Int, IsFiniteSet(P), NEW i \in Int, NEW j \in Int, i <= j,
         i + 1 .. j \subseteq P
  PROVE  Rank(P, j) - Rank(P, i) = j - i
<1>. DEFINE A == {q \in P : q <= i}
            B == {q \in P : q <= j}
            C == i + 1 .. j
<1>1. B = A \union C /\ A \intersect C = {}
  <2>1. ASSUME NEW q \in P PROVE q <= j <=> (q <= i \/ q \in i + 1 .. j)
    <3>1. q \in Int
      OBVIOUS
    <3>. QED
      BY <3>1
  <2>2. \A q \in C : ~(q <= i)
    OBVIOUS
  <2>. QED
    BY <2>1, <2>2
<1>2. IsFiniteSet(A) /\ Rank(P, i) = Cardinality(A) /\ Rank(P, j) = Cardinality(B)
  BY RankType DEF Rank
<1>3. IsFiniteSet(C) /\ Cardinality(C) = j - i
  <2>1. i + 1 \in Int
    OBVIOUS
  <2>2. IsFiniteSet(C) /\ Cardinality(C) = IF i + 1 > j THEN 0 ELSE j - (i + 1) + 1
    BY <2>1, FS_Interval
  <2>. QED
    BY <2>2
<1>. HIDE DEF A, B, C
<1>4. Cardinality(B) = Cardinality(A) + Cardinality(C)
  <2>1. Cardinality(B) = Cardinality(A) + Cardinality(C) - Cardinality(A \intersect C)
    BY <1>1, <1>2, <1>3, FS_Union
  <2>2. Cardinality(A) \in Nat
    BY <1>2, FS_CardinalityType
  <2>. QED
    BY <1>1, <1>3, <2>1, <2>2, FS_EmptySet
<1>5. Cardinality(A) \in Nat
  BY <1>2, FS_CardinalityType
<1>. QED
  BY <1>2, <1>3, <1>4, <1>5

(* Nothing counts from one position on to another.                         *)
LEMMA RankStays ==
  ASSUME NEW P \in SUBSET Int, NEW i \in Int, NEW j \in Int, i <= j,
         \A q \in P : ~(i < q /\ q <= j)
  PROVE  Rank(P, j) = Rank(P, i)
<1>1. {q \in P : q <= j} = {q \in P : q <= i}
  <2>1. \A q \in P : q <= j <=> q <= i
    <3>. SUFFICES ASSUME NEW q \in P PROVE q <= j <=> q <= i
      OBVIOUS
    <3>1. q \in Int
      OBVIOUS
    <3>. QED
      BY <3>1
  <2>. QED
    BY <2>1
<1>. QED
  BY <1>1 DEF Rank

(* Each rank up to the number of positions is that of exactly one of them. *)
LEMMA RankOnto ==
  ASSUME NEW P \in SUBSET Int, IsFiniteSet(P)
  PROVE  /\ \A p \in P : Rank(P, p) \in 1 .. Cardinality(P)
         /\ \A p, q \in P : Rank(P, p) < Rank(P, q) <=> p < q
         /\ \A p, q \in P : Rank(P, p) = Rank(P, q) => p = q
         /\ \A n \in 1 .. Cardinality(P) : \E p \in P : Rank(P, p) = n
<1>1. ASSUME NEW p \in P PROVE Rank(P, p) \in 1 .. Cardinality(P)
  <2>1. p \in {q \in P : q <= p} /\ IsFiniteSet({q \in P : q <= p})
    BY RankType
  <2>2. Cardinality({q \in P : q <= p}) # 0
    BY <2>1, FS_EmptySet
  <2>. QED
    BY <2>2, RankType DEF Rank
<1>2. ASSUME NEW p \in P, NEW q \in P, p < q PROVE Rank(P, p) < Rank(P, q)
  <2>1. p \in Int /\ q \in Int /\ p <= q
    BY <1>2
  <2>. QED
    BY <1>2, <2>1, RankGrows
<1>3. \A p, q \in P : Rank(P, p) = Rank(P, q) => p = q
  <2>. SUFFICES ASSUME NEW p \in P, NEW q \in P, Rank(P, p) = Rank(P, q), p # q PROVE FALSE
    OBVIOUS
  <2>1. p \in Int /\ q \in Int
    OBVIOUS
  <2>2. p < q \/ q < p
    BY <2>1
  <2>3. Rank(P, p) \in Int /\ Rank(P, q) \in Int
    BY <1>1
  <2>. QED
    BY <1>2, <2>2, <2>3
<1>4. \A p, q \in P : Rank(P, p) < Rank(P, q) <=> p < q
  <2>. SUFFICES ASSUME NEW p \in P, NEW q \in P, Rank(P, p) < Rank(P, q), ~(p < q) PROVE FALSE
    BY <1>2
  <2>1. p = q \/ q < p
    OBVIOUS
  <2>2. Rank(P, p) \in Int /\ Rank(P, q) \in Int
    BY <1>1
  <2>. QED
    BY <1>2, <2>1, <2>2
<1>5. \A n \in 1 .. Cardinality(P) : \E p \in P : Rank(P, p) = n
  <2>. DEFINE f == [p \in P |-> Rank(P, p)]
              N == 1 .. Cardinality(P)
  <2>1. f \in Injection(P, N)
    BY <1>1, <1>3 DEF Injection, IsInjective
  <2>2. Cardinality(P) \in Nat
    BY FS_CardinalityType
  <2>3. IsFiniteSet(N) /\ Cardinality(N) = Cardinality(P)
    <3>1. 1 \in Int /\ Cardinality(P) \in Int
      BY <2>2
    <3>2. IsFiniteSet(N) /\ Cardinality(N) = IF 1 > Cardinality(P) THEN 0 ELSE Cardinality(P) - 1 + 1
      BY <3>1, FS_Interval
    <3>. QED
      BY <2>2, <3>2
  <2>4. f \in Surjection(P, N)
    <3>. HIDE DEF f, N
    <3>. QED
      BY <2>1, <2>3, FS_Injection
  <2>. QED
    BY <2>4 DEF Surjection
<1>. QED
  BY <1>1, <1>3, <1>4, <1>5

(* What is picked stands at its rank, and nothing else is there.           *)
LEMMA PickFacts ==
  ASSUME NEW S, NEW s \in Seq(S), NEW P \in SUBSET DOMAIN s
  PROVE  /\ IsFiniteSet(P) /\ P \in SUBSET Int /\ Cardinality(P) \in Nat
         /\ Pick(s, P) \in Seq(S) /\ Len(Pick(s, P)) = Cardinality(P)
         /\ \A p \in P : /\ Rank(P, p) \in 1 .. Cardinality(P)
                         /\ Pick(s, P)[Rank(P, p)] = s[p]
         /\ \A n \in 1 .. Cardinality(P) : \E p \in P : Rank(P, p) = n
<1>1. DOMAIN s = 1 .. Len(s) /\ Len(s) \in Nat
  OBVIOUS
<1>2. IsFiniteSet(P) /\ P \in SUBSET Int
  <2>1. IsFiniteSet(1 .. Len(s))
    BY <1>1, FS_Interval
  <2>. QED
    BY <1>1, <2>1, FS_Subset
<1>3. Cardinality(P) \in Nat
  BY <1>2, FS_CardinalityType
<1>4. ASSUME NEW n \in 1 .. Cardinality(P)
      PROVE  /\ (CHOOSE p \in P : Rank(P, p) = n) \in P
             /\ Rank(P, CHOOSE p \in P : Rank(P, p) = n) = n
  BY <1>2, RankOnto
<1>5. ASSUME NEW p \in P
      PROVE  Rank(P, p) \in 1 .. Cardinality(P) /\ Pick(s, P)[Rank(P, p)] = s[p]
  <2>1. Rank(P, p) \in 1 .. Cardinality(P)
    BY <1>2, RankOnto
  <2>2. (CHOOSE q \in P : Rank(P, q) = Rank(P, p)) = p
    BY <1>2, <1>4, <2>1, RankOnto
  <2>. QED
    BY <2>1, <2>2 DEF Pick
<1>6. ASSUME NEW n \in 1 .. Cardinality(P) PROVE s[CHOOSE p \in P : Rank(P, p) = n] \in S
  BY <1>1, <1>4
<1>7. Pick(s, P) \in Seq(S) /\ Len(Pick(s, P)) = Cardinality(P)
  <2>1. Pick(s, P) = [n \in 1 .. Cardinality(P) |-> s[CHOOSE p \in P : Rank(P, p) = n]]
    BY DEF Pick
  <2>. DEFINE F(n) == s[CHOOSE p \in P : Rank(P, p) = n]
  <2>2. \A n \in 1 .. Cardinality(P) : F(n) \in S
    BY <1>6
  <2>3. Pick(s, P) = [n \in 1 .. Cardinality(P) |-> F(n)]
    BY <2>1
  <2>. HIDE DEF F
  <2>. QED
    BY <1>3, <2>2, <2>3
<1>. QED
  BY <1>2, <1>3, <1>5, <1>7, RankOnto

-----------------------------------------------------------------------------
(* The largest in a set of positions, or 0.                                *)
LEMMA MaxOf ==
  ASSUME NEW n \in Nat, NEW s, s \subseteq 0 .. n, s # {}
  PROVE  Max(s) \in s /\ \A i \in s : i <= Max(s)
<1>. DEFINE U == {m \in Nat : \A i \in s : i <= m}
<1>1. n \in U
  OBVIOUS
<1>2. PICK m \in U : \A k \in U : <<k, m>> \notin OpToRel(<, Nat)
  <2>1. U \subseteq Nat /\ U # {}
    BY <1>1
  <2>. HIDE DEF U
  <2>. QED
    BY <2>1, NatLessThanWellFounded, WFMin
<1>3. \A k \in U : ~(k < m)
  BY <1>2 DEF OpToRel
<1>4. m \in s
  <2>. SUFFICES ASSUME m \notin s PROVE FALSE
    OBVIOUS
  <2>1. \A i \in s : i <= m - 1
    BY DEF U
  <2>2. m - 1 \in Nat
    <3>1. PICK i \in s : TRUE
      OBVIOUS
    <3>2. i \in 0 .. n /\ i <= m - 1 /\ m \in Nat
      BY <2>1
    <3>. QED
      BY <3>2
  <2>. QED
    BY <1>3, <2>1, <2>2
<1>5. m \in s /\ \A y \in s : m >= y
  BY <1>4
<1>6. Max(s) \in s /\ \A y \in s : Max(s) >= y
  BY <1>5 DEF Max
<1>7. \A y \in s : y \in Int
  OBVIOUS
<1>. QED
  BY <1>6, <1>7

(* Where the row of a position starts.                                     *)
LEMMA RowStart ==
  ASSUME NEW S, NEW t \in Seq(S), NEW i \in Int
  PROVE  /\ IsFiniteSet(Before(t, i)) /\ Before(t, i) \subseteq 1 .. Len(t)
         /\ \E m \in Before(t, i) \union {0} :
              /\ \A e \in Before(t, i) : e <= m
              /\ Place(t, i) = <<Cardinality(Before(t, i)), i - m>>
<1>. DEFINE B == Before(t, i)
<1>1. B \subseteq 1 .. Len(t) /\ Len(t) \in Nat
  BY DEF Before, LineEnds
<1>2. IsFiniteSet(B)
  <2>1. IsFiniteSet(1 .. Len(t))
    BY <1>1, FS_Interval
  <2>. QED
    BY <1>1, <2>1, FS_Subset
<1>3. B \union {0} \subseteq 0 .. Len(t) /\ B \union {0} # {}
  BY <1>1
<1>4. Place(t, i) = <<Cardinality(B), i - Max(B \union {0})>>
  BY DEF Place
<1>. HIDE DEF B
<1>5. Max(B \union {0}) \in B \union {0} /\ \A e \in B \union {0} : e <= Max(B \union {0})
  BY <1>1, <1>3, MaxOf
<1>6. \E m \in B \union {0} :
        (\A e \in B : e <= m) /\ Place(t, i) = <<Cardinality(B), i - m>>
  BY <1>4, <1>5
<1>. QED
  BY <1>1, <1>2, <1>6 DEF B

(* Where it starts, the column is counted from.                            *)
LEMMA PlaceIs ==
  ASSUME NEW S, NEW t \in Seq(S), NEW i \in Int, NEW m \in Before(t, i) \union {0},
         \A e \in Before(t, i) : e <= m
  PROVE  Place(t, i) = <<Cardinality(Before(t, i)), i - m>> /\ m \in Nat
<1>1. PICK k \in Before(t, i) \union {0} :
        /\ \A e \in Before(t, i) : e <= k
        /\ Place(t, i) = <<Cardinality(Before(t, i)), i - k>>
  BY RowStart
<1>2. \A e \in Before(t, i) \union {0} : e \in Nat
  BY RowStart
<1>3. k <= m /\ m <= k /\ k \in Nat /\ m \in Nat
  BY <1>1, <1>2
<1>. QED
  BY <1>1, <1>3

(* Whoever keeps the visible characters, everything between the start of   *)
(* their rows and them, and one end for each end, shows the same.          *)
Keeps(t, K, s) ==
  /\ K \subseteq DOMAIN t /\ Len(s) = Cardinality(K)
  /\ \A i \in Visible(t) : i \in K /\ s[Rank(K, i)] = t[i]
  /\ \A n \in Visible(s) : \E i \in Visible(t) : n = Rank(K, i)
  /\ \A i \in Visible(t) :
       /\ Before(s, Rank(K, i)) = {Rank(K, e) : e \in Before(t, i)}
       /\ \A e, g \in Before(t, i) : Rank(K, e) = Rank(K, g) => e = g
       /\ \A m \in 1 .. i - 1 : m \in K \/ \E e \in Before(t, i) : m <= e

LEMMA SamePlace ==
  ASSUME NEW S, NEW t \in Seq(S), NEW s \in Seq(S), NEW K, Keeps(t, K, s),
         NEW i \in Visible(t)
  PROVE  Rank(K, i) \in Visible(s) /\ Place(s, Rank(K, i)) = Place(t, i)
<1>. DEFINE r == Rank(K, i)
            A == Before(t, i)
            B == Before(s, r)
<1>1. /\ DOMAIN t = 1 .. Len(t) /\ Len(t) \in Nat /\ DOMAIN s = 1 .. Len(s)
      /\ i \in 1 .. Len(t) /\ i \in K /\ K \subseteq 1 .. Len(t)
  BY DEF Keeps, Visible
<1>2. K \in SUBSET Int /\ IsFiniteSet(K)
  <2>1. IsFiniteSet(1 .. Len(t))
    BY <1>1, FS_Interval
  <2>2. K \in SUBSET (1 .. Len(t))
    BY <1>1
  <2>3. IsFiniteSet(K)
    BY <2>1, <2>2, FS_Subset
  <2>4. \A k \in K : k \in Int
    BY <2>2
  <2>. QED
    BY <2>3, <2>4
<1>3. r \in 1 .. Len(s) /\ s[r] = t[i]
  BY <1>1, <1>2, RankOnto DEF Keeps
<1>4. r \in Visible(s)
  BY <1>1, <1>3 DEF Visible
<1>5. /\ B = {Rank(K, e) : e \in A}
      /\ \A e, g \in A : Rank(K, e) = Rank(K, g) => e = g
      /\ \A m \in 1 .. i - 1 : m \in K \/ \E e \in A : m <= e
  BY DEF Keeps
<1>6. /\ IsFiniteSet(A) /\ A \subseteq 1 .. Len(t) /\ \A e \in A : e < i
      /\ r \in Int /\ i \in Int
  BY <1>1, <1>3, RowStart DEF Before
<1>7. PICK m \in A \union {0} :
        (\A e \in A : e <= m) /\ Place(t, i) = <<Cardinality(A), i - m>>
  BY <1>6, RowStart
<1>. HIDE DEF A, B, r
<1>8. Cardinality(A) = Cardinality(B)
  <2>. DEFINE f == [e \in A |-> Rank(K, e)]
  <2>1. f \in Surjection(A, B) /\ f \in Injection(A, B)
    BY <1>5 DEF Surjection, Injection, IsInjective
  <2>. QED
    BY <1>6, <2>1, FS_Surjection
<1>9. m \in Int /\ 0 <= m /\ m < i
  BY <1>1, <1>6, <1>7
<1>10. Rank(K, m) \in B \union {0}
  <2>1. CASE m \in A
    BY <1>5, <2>1
  <2>2. CASE m = 0
    <3>1. {q \in K : q <= 0} = {}
      <4>. SUFFICES ASSUME NEW q \in K, q <= 0 PROVE FALSE
        OBVIOUS
      <4>1. q \in 1 .. Len(t)
        BY <1>1
      <4>. QED
        BY <4>1
    <3>. QED
      BY <2>2, <3>1, FS_EmptySet DEF Rank
  <2>. QED
    BY <2>1, <2>2
<1>11. \A b \in B : b <= Rank(K, m)
  <2>. SUFFICES ASSUME NEW e \in A PROVE Rank(K, e) <= Rank(K, m)
    BY <1>5
  <2>1. e \in Int /\ e <= m
    BY <1>6, <1>7
  <2>. QED
    BY <1>2, <1>9, <2>1, RankGrows
<1>12. m + 1 .. i \subseteq K
  <2>. SUFFICES ASSUME NEW x \in m + 1 .. i, x # i PROVE x \in K
    BY <1>1
  <2>1. x \in 1 .. i - 1 /\ x > m
    BY <1>6, <1>9
  <2>2. ~ \E e \in A : x <= e
    <3>. SUFFICES ASSUME NEW e \in A, x <= e PROVE FALSE
      OBVIOUS
    <3>1. e \in Int /\ e <= m
      BY <1>6, <1>7
    <3>. QED
      BY <1>9, <2>1, <3>1
  <2>. QED
    BY <1>5, <2>1, <2>2
<1>13. r - Rank(K, m) = i - m
  BY <1>2, <1>6, <1>9, <1>12, RankSteps DEF r
<1>14. Place(s, r) = <<Cardinality(B), r - Rank(K, m)>>
  BY <1>6, <1>10, <1>11, PlaceIs DEF B
<1>. QED
  BY <1>4, <1>7, <1>8, <1>13, <1>14 DEF r

LEMMA ShowsTheSame ==
  ASSUME NEW S, NEW t \in Seq(S), NEW s \in Seq(S), NEW K, Keeps(t, K, s)
  PROVE  Rendered(s) = Rendered(t)
<1>1. ASSUME NEW i \in Visible(t)
      PROVE  /\ Rank(K, i) \in Visible(s)
             /\ <<Place(s, Rank(K, i)), s[Rank(K, i)]>> = <<Place(t, i), t[i]>>
  <2>1. s[Rank(K, i)] = t[i]
    BY DEF Keeps
  <2>2. Rank(K, i) \in Visible(s) /\ Place(s, Rank(K, i)) = Place(t, i)
    BY SamePlace
  <2>. QED
    BY <2>1, <2>2
<1>2. ASSUME NEW n \in Visible(s)
      PROVE  \E i \in Visible(t) : <<Place(s, n), s[n]>> = <<Place(t, i), t[i]>>
  <2>1. PICK i \in Visible(t) : n = Rank(K, i)
    BY DEF Keeps
  <2>. QED
    BY <1>1, <2>1
<1>. QED
  BY <1>1, <1>2 DEF Rendered

-----------------------------------------------------------------------------
(* Normalisation.  One end for CR LF, and no CR left.                      *)
NoReturns(t) == \A i \in DOMAIN t : t[i] # "cr"

LEMMA UnixLinesShow ==
  ASSUME NEW S, "lf" \in S, NEW t \in Seq(S)
  PROVE  /\ UnixLines(t) \in Seq(S) /\ NoReturns(UnixLines(t))
         /\ Rendered(UnixLines(t)) = Rendered(t)
<1>. DEFINE K == DOMAIN t \ Seconds(t)
            s == UnixLines(t)
<1>1. /\ K \in SUBSET Int /\ IsFiniteSet(K) /\ K \subseteq DOMAIN t
      /\ s \in Seq(S) /\ Len(s) = Cardinality(K) /\ NoReturns(s)
      /\ \A q \in K : Rank(K, q) \in DOMAIN s
                     /\ s[Rank(K, q)] = IF t[q] = "cr" THEN "lf" ELSE t[q]
      /\ \A n \in DOMAIN s : \E q \in K : Rank(K, q) = n
  <2>. DEFINE p == Pick(t, K)
  <2>1. /\ IsFiniteSet(K) /\ K \in SUBSET Int /\ Cardinality(K) \in Nat
        /\ K \subseteq DOMAIN t
        /\ p \in Seq(S) /\ Len(p) = Cardinality(K)
        /\ \A q \in K : Rank(K, q) \in 1 .. Cardinality(K) /\ p[Rank(K, q)] = t[q]
        /\ \A n \in 1 .. Cardinality(K) : \E q \in K : Rank(K, q) = n
    <3>1. K \in SUBSET DOMAIN t
      OBVIOUS
    <3>. HIDE DEF K
    <3>. QED
      BY <3>1, PickFacts
  <2>2. s = [i \in DOMAIN p |-> IF p[i] = "cr" THEN "lf" ELSE p[i]]
    BY DEF UnixLines
  <2>. HIDE DEF p, s, K
  <2>3. DOMAIN p = 1 .. Cardinality(K) /\ \A i \in DOMAIN p : p[i] \in S
    BY <2>1
  <2>4. /\ s \in Seq(S) /\ Len(s) = Cardinality(K) /\ DOMAIN s = 1 .. Cardinality(K)
        /\ NoReturns(s)
    <3>. DEFINE F(i) == IF p[i] = "cr" THEN "lf" ELSE p[i]
    <3>1. ASSUME NEW i \in 1 .. Cardinality(K) PROVE F(i) \in S /\ F(i) # "cr"
      <4>1. p[i] \in S
        BY <2>3
      <4>. QED
        BY <4>1
    <3>2. s = [i \in 1 .. Cardinality(K) |-> F(i)]
      BY <2>2, <2>3
    <3>. HIDE DEF F
    <3>3. /\ s \in [1 .. Cardinality(K) -> S]
          /\ DOMAIN s = 1 .. Cardinality(K)
          /\ \A i \in 1 .. Cardinality(K) : s[i] # "cr"
      BY <3>1, <3>2
    <3>4. s \in Seq(S) /\ Len(s) = Cardinality(K)
      BY <2>1, <3>3, FunctionIsSeq
    <3>. QED
      BY <3>3, <3>4 DEF NoReturns
  <2>5. /\ K \subseteq DOMAIN t
        /\ \A q \in K : /\ Rank(K, q) \in DOMAIN s
                        /\ s[Rank(K, q)] = IF t[q] = "cr" THEN "lf" ELSE t[q]
        /\ \A n \in DOMAIN s : \E q \in K : Rank(K, q) = n
    BY <2>1, <2>2, <2>3, <2>4
  <2>. QED
    BY <2>1, <2>4, <2>5
<1>2. \A i \in DOMAIN t : i \notin K <=> t[i] = "lf" /\ i > 1 /\ t[i - 1] = "cr"
  BY DEF Seconds
<1>3. DOMAIN t = 1 .. Len(t) /\ Len(t) \in Nat
  OBVIOUS
<1>. HIDE DEF K, s
<1>4. \A i : i \in Visible(t) => i \in K /\ s[Rank(K, i)] = t[i] /\ Rank(K, i) \in Int
  <2>1. DOMAIN s = 1 .. Len(s)
    BY <1>1
  <2>. QED
    BY <1>1, <1>2, <2>1 DEF Visible
<1>5. ASSUME NEW n \in Visible(s) PROVE \E i \in Visible(t) : n = Rank(K, i)
  <2>1. n \in DOMAIN s /\ s[n] \notin {"sp", "cr", "lf"}
    BY DEF Visible
  <2>2. PICK q \in K : Rank(K, q) = n
    BY <1>1, <2>1
  <2>3. q \in Visible(t)
    BY <1>1, <2>1, <2>2 DEF Visible
  <2>. QED
    BY <2>2, <2>3
<1>6. \A n : n \in LineEnds(s) <=> n \in DOMAIN s /\ s[n] = "lf"
  BY <1>1 DEF LineEnds, NoReturns
(* The end of a row is kept, or the character before it stands for it.     *)
<1>7. ASSUME NEW e \in LineEnds(t)
      PROVE  \/ e \in K /\ s[Rank(K, e)] = "lf"
             \/ /\ e \notin K /\ e - 1 \in K /\ Rank(K, e) = Rank(K, e - 1)
                /\ e - 1 \notin LineEnds(t) /\ s[Rank(K, e - 1)] = "lf"
  <2>1. e \in 1 .. Len(t) /\ (t[e] = "lf" \/ t[e] = "cr")
    BY <1>3 DEF LineEnds
  <2>2. CASE e \in K
    BY <1>1, <2>1, <2>2
  <2>3. CASE e \notin K
    <3>1. t[e] = "lf" /\ e > 1 /\ t[e - 1] = "cr" /\ e - 1 \in 1 .. Len(t)
      BY <1>2, <1>3, <2>1, <2>3
    <3>2. e - 1 \in K /\ s[Rank(K, e - 1)] = "lf"
      BY <1>1, <1>2, <1>3, <3>1
    <3>3. e - 1 \notin LineEnds(t)
      <4>1. e - 1 < Len(t) /\ (e - 1) + 1 = e
        BY <2>1
      <4>. QED
        BY <3>1, <4>1 DEF LineEnds
    <3>4. Rank(K, e) = Rank(K, e - 1)
      <4>1. e \in Int /\ e - 1 \in Int /\ e - 1 <= e
        BY <2>1
      <4>2. \A q \in K : ~(e - 1 < q /\ q <= e)
        <5>. SUFFICES ASSUME NEW q \in K, e - 1 < q, q <= e PROVE FALSE
          OBVIOUS
        <5>1. q \in Int
          BY <1>1
        <5>2. q = e
          BY <4>1, <5>1
        <5>. QED
          BY <2>3, <5>2
      <4>. QED
        BY <1>1, <4>1, <4>2, RankStays
    <3>. QED
      BY <2>3, <3>2, <3>3, <3>4
  <2>. QED
    BY <2>2, <2>3
<1>8. ASSUME NEW i \in Visible(t), NEW e \in Before(t, i), NEW g \in Before(t, i), e < g
      PROVE  Rank(K, e) < Rank(K, g)
  <2>1. /\ e \in LineEnds(t) /\ g \in LineEnds(t) /\ e \in Int /\ g \in Int
        /\ e <= g
    BY <1>3, <1>8 DEF Before, LineEnds
  <2>2. CASE g \in K
    BY <1>1, <1>8, <2>1, <2>2, RankGrows
  <2>3. CASE g \notin K
    <3>1. g - 1 \in K /\ Rank(K, g) = Rank(K, g - 1) /\ g - 1 \notin LineEnds(t)
      BY <1>7, <2>1, <2>3
    <3>2. e # g - 1
      BY <2>1, <3>1
    <3>3. e <= g - 1 /\ e < g - 1 /\ g - 1 \in Int /\ g - 1 <= g - 1
      BY <1>8, <2>1, <3>2
    <3>. QED
      BY <1>1, <2>1, <3>1, <3>3, RankGrows
  <2>. QED
    BY <2>2, <2>3
<1>9. ASSUME NEW i \in Visible(t)
      PROVE  \A e, g \in Before(t, i) : Rank(K, e) = Rank(K, g) => e = g
  <2>. SUFFICES ASSUME NEW e \in Before(t, i), NEW g \in Before(t, i),
                       Rank(K, e) = Rank(K, g), e # g
                PROVE  FALSE
    OBVIOUS
  <2>1. e \in Int /\ g \in Int
    BY <1>3 DEF Before, LineEnds
  <2>2. Rank(K, e) \in Int /\ Rank(K, g) \in Int
    <3>1. /\ Rank(K, e) \in 0 .. Cardinality(K) /\ Rank(K, g) \in 0 .. Cardinality(K)
          /\ Cardinality(K) \in Nat
      BY <1>1, RankType
    <3>. QED
      BY <3>1
  <2>3. e < g \/ g < e
    BY <2>1
  <2>. QED
    BY <1>8, <2>2, <2>3
<1>10. ASSUME NEW i \in Visible(t)
       PROVE  Before(s, Rank(K, i)) = {Rank(K, e) : e \in Before(t, i)}
  <2>1. i \in K /\ i \in 1 .. Len(t) /\ t[i] # "lf"
    BY <1>3, <1>4 DEF Visible
  <2>2. ASSUME NEW n \in Before(s, Rank(K, i))
        PROVE  \E e \in Before(t, i) : n = Rank(K, e)
    <3>1. n \in DOMAIN s /\ s[n] = "lf" /\ n < Rank(K, i)
      BY <1>6 DEF Before
    <3>2. PICK q \in K : Rank(K, q) = n
      BY <1>1, <3>1
    <3>3. q < i /\ q \in 1 .. Len(t) /\ (t[q] = "lf" \/ t[q] = "cr")
      BY <1>1, <1>3, <2>1, <3>1, <3>2, RankOnto
    <3>4. CASE q \in LineEnds(t)
      BY <3>2, <3>3, <3>4 DEF Before
    <3>5. CASE q \notin LineEnds(t)
      <4>1. t[q] = "cr" /\ q < Len(t) /\ t[q + 1] = "lf"
        BY <1>3, <3>3, <3>5 DEF LineEnds
      <4>2. q + 1 \in 1 .. Len(t) /\ (q + 1) - 1 = q /\ q + 1 > 1
        BY <3>3, <4>1
      <4>3. q + 1 \in LineEnds(t) /\ q + 1 \notin K
        BY <1>2, <1>3, <4>1, <4>2 DEF LineEnds
      <4>4. Rank(K, q + 1) = n
        BY <1>7, <3>2, <4>2, <4>3
      <4>5. q + 1 < i
        <5>1. q + 1 # i
          BY <2>1, <4>1
        <5>. QED
          BY <2>1, <3>3, <5>1
      <4>. QED
        BY <4>3, <4>4, <4>5 DEF Before
    <3>. QED
      BY <3>4, <3>5
  <2>3. ASSUME NEW e \in Before(t, i) PROVE Rank(K, e) \in Before(s, Rank(K, i))
    <3>1. e \in LineEnds(t) /\ e < i /\ e \in Int
      BY <1>3 DEF Before, LineEnds
    <3>2. PICK q \in K : q <= e /\ Rank(K, e) = Rank(K, q) /\ s[Rank(K, q)] = "lf"
      <4>1. CASE e \in K
        BY <1>7, <3>1, <4>1
      <4>2. CASE e \notin K
        BY <1>7, <3>1, <4>2
      <4>. QED
        BY <4>1, <4>2
    <3>3. q < i
      <4>1. q \in Int
        BY <1>1
      <4>. QED
        BY <2>1, <3>1, <3>2, <4>1
    <3>4. Rank(K, q) < Rank(K, i) /\ Rank(K, q) \in DOMAIN s
      BY <1>1, <2>1, <3>3, RankOnto
    <3>. QED
      BY <1>6, <3>2, <3>4 DEF Before
  <2>. QED
    BY <2>2, <2>3
<1>11. ASSUME NEW i \in Visible(t), NEW m \in 1 .. i - 1, m \notin K
       PROVE  \E e \in Before(t, i) : m <= e
  <2>1. i \in 1 .. Len(t)
    BY <1>3 DEF Visible
  <2>2. m \in 1 .. Len(t) /\ m < i /\ m <= m
    BY <2>1
  <2>3. m \in LineEnds(t)
    BY <1>2, <1>3, <1>11, <2>2 DEF LineEnds
  <2>. QED
    BY <2>2, <2>3 DEF Before
<1>12. Keeps(t, K, s)
  BY <1>1, <1>4, <1>5, <1>9, <1>10, <1>11 DEF Keeps
<1>13. Rendered(s) = Rendered(t)
  BY <1>1, <1>12, ShowsTheSame
<1>. QED
  BY <1>1, <1>13 DEF s

(* Without CR the ends of rows are the LFs.                                *)
LEMMA EndsAreFeeds ==
  ASSUME NEW S, NEW t \in Seq(S), NoReturns(t)
  PROVE  /\ \A e : e \in LineEnds(t) <=> e \in DOMAIN t /\ t[e] = "lf"
         /\ \A i, e : e \in Before(t, i) <=> e \in DOMAIN t /\ t[e] = "lf" /\ e < i
         /\ \A i : i \in Visible(t) <=> i \in DOMAIN t /\ t[i] \notin {"sp", "lf"}
BY DEF NoReturns, LineEnds, Before, Visible

(* Spaces at the end of rows go.                                           *)
LEMMA TrailingShow ==
  ASSUME NEW S, NEW t \in Seq(S), NoReturns(t),
         NEW s, s = Pick(t, DOMAIN t \ Trailing(t))
  PROVE  /\ s \in Seq(S) /\ NoReturns(s) /\ Trailing(s) = {}
         /\ Rendered(s) = Rendered(t)
<1>. DEFINE K == DOMAIN t \ Trailing(t)
<1>1. DOMAIN t = 1 .. Len(t) /\ Len(t) \in Nat
  OBVIOUS
<1>2. \A i : i \in Trailing(t) <=>
        /\ i \in DOMAIN t
        /\ \E e \in i + 1 .. Len(t) : t[e] = "lf" /\ \A k \in i .. e - 1 : t[k] = "sp"
  BY DEF Trailing
<1>3. \A i \in Trailing(t) : t[i] = "sp"
  <2>. SUFFICES ASSUME NEW i \in Trailing(t) PROVE t[i] = "sp"
    OBVIOUS
  <2>1. PICK e \in i + 1 .. Len(t) : \A k \in i .. e - 1 : t[k] = "sp"
    BY <1>2
  <2>2. i \in Int
    BY <1>1, <1>2
  <2>3. i \in i .. e - 1
    BY <2>2
  <2>. QED
    BY <2>1, <2>3
<1>4. K \in SUBSET DOMAIN t /\ K \subseteq DOMAIN t
      /\ \A i \in DOMAIN t : i \notin K <=> i \in Trailing(t)
  OBVIOUS
<1>5. s = Pick(t, K)
  OBVIOUS
<1>. HIDE DEF K
<1>6. /\ IsFiniteSet(K) /\ K \in SUBSET Int /\ Cardinality(K) \in Nat
      /\ s \in Seq(S) /\ Len(s) = Cardinality(K) /\ DOMAIN s = 1 .. Cardinality(K)
      /\ \A q \in K : Rank(K, q) \in 1 .. Cardinality(K) /\ s[Rank(K, q)] = t[q]
  <2>1. /\ IsFiniteSet(K) /\ K \in SUBSET Int /\ Cardinality(K) \in Nat
        /\ s \in Seq(S) /\ Len(s) = Cardinality(K)
        /\ \A q \in K : Rank(K, q) \in 1 .. Cardinality(K) /\ s[Rank(K, q)] = t[q]
    <3>1. /\ IsFiniteSet(K) /\ K \in SUBSET Int /\ Cardinality(K) \in Nat
          /\ Pick(t, K) \in Seq(S) /\ Len(Pick(t, K)) = Cardinality(K)
          /\ \A q \in K : Rank(K, q) \in 1 .. Cardinality(K) /\ Pick(t, K)[Rank(K, q)] = t[q]
      BY <1>4, PickFacts
    <3>. QED
      BY <1>5, <3>1
  <2>2. DOMAIN s = 1 .. Cardinality(K)
    BY <2>1
  <2>. QED
    BY <2>1, <2>2
<1>7. \A n \in DOMAIN s : \E q \in K : Rank(K, q) = n
  BY <1>4, <1>6, PickFacts
<1>8. NoReturns(s)
  BY <1>4, <1>6, <1>7 DEF NoReturns
<1>9. /\ \A n : n \in Visible(s) <=> n \in DOMAIN s /\ s[n] \notin {"sp", "lf"}
      /\ \A i, e : e \in Before(s, i) <=> e \in DOMAIN s /\ s[e] = "lf" /\ e < i
      /\ \A i : i \in Visible(t) <=> i \in DOMAIN t /\ t[i] \notin {"sp", "lf"}
      /\ \A i, e : e \in Before(t, i) <=> e \in DOMAIN t /\ t[e] = "lf" /\ e < i
  <2>1. /\ \A n : n \in Visible(s) <=> n \in DOMAIN s /\ s[n] \notin {"sp", "lf"}
        /\ \A i, e : e \in Before(s, i) <=> e \in DOMAIN s /\ s[e] = "lf" /\ e < i
    BY <1>6, <1>8, EndsAreFeeds
  <2>2. /\ \A i : i \in Visible(t) <=> i \in DOMAIN t /\ t[i] \notin {"sp", "lf"}
        /\ \A i, e : e \in Before(t, i) <=> e \in DOMAIN t /\ t[e] = "lf" /\ e < i
    BY EndsAreFeeds
  <2>. QED
    BY <2>1, <2>2
<1>10. \A i \in DOMAIN t : t[i] # "sp" => i \in K
  BY <1>3, <1>4
<1>11. \A i \in Visible(t) : i \in K /\ s[Rank(K, i)] = t[i]
  BY <1>6, <1>9, <1>10
<1>12. \A n \in Visible(s) : \E i \in Visible(t) : n = Rank(K, i)
  BY <1>4, <1>6, <1>9, <1>7
<1>13. ASSUME NEW i \in Visible(t)
       PROVE  Before(s, Rank(K, i)) = {Rank(K, e) : e \in Before(t, i)}
  <2>1. i \in K
    BY <1>11
  <2>2. ASSUME NEW n \in Before(s, Rank(K, i)) PROVE \E e \in Before(t, i) : n = Rank(K, e)
    <3>1. n \in DOMAIN s /\ s[n] = "lf" /\ n < Rank(K, i)
      BY <1>9
    <3>2. PICK q \in K : Rank(K, q) = n
      BY <1>7, <3>1
    <3>3. q < i /\ t[q] = "lf" /\ q \in DOMAIN t
      <4>1. s[Rank(K, q)] = t[q] /\ Rank(K, q) < Rank(K, i)
        BY <1>6, <3>1, <3>2
      <4>. QED
        BY <1>4, <1>6, <2>1, <3>1, <3>2, <4>1, RankOnto
    <3>. QED
      BY <1>9, <3>2, <3>3
  <2>3. ASSUME NEW e \in Before(t, i) PROVE Rank(K, e) \in Before(s, Rank(K, i))
    <3>1. e \in K /\ t[e] = "lf" /\ e < i
      BY <1>9, <1>10
    <3>2. Rank(K, e) < Rank(K, i)
      BY <1>6, <2>1, <3>1, RankOnto
    <3>3. Rank(K, e) \in DOMAIN s /\ s[Rank(K, e)] = "lf"
      BY <1>6, <3>1
    <3>. QED
      BY <1>9, <3>2, <3>3
  <2>. QED
    BY <2>2, <2>3
<1>14. ASSUME NEW i \in Visible(t)
       PROVE  \A e, g \in Before(t, i) : Rank(K, e) = Rank(K, g) => e = g
  BY <1>6, <1>9, <1>10, RankOnto
<1>15. ASSUME NEW i \in Visible(t), NEW m \in 1 .. i - 1, m \notin K
       PROVE  \E e \in Before(t, i) : m <= e
  <2>1. i \in 1 .. Len(t) /\ t[i] # "sp" /\ t[i] # "lf"
    BY <1>1, <1>9
  <2>2. m \in 1 .. Len(t) /\ m < i
    BY <2>1
  <2>3. m \in Trailing(t)
    BY <1>1, <1>4, <1>15, <2>2
  <2>4. PICK e \in m + 1 .. Len(t) : t[e] = "lf" /\ \A k \in m .. e - 1 : t[k] = "sp"
    BY <1>2, <2>3
  <2>5. e < i
    <3>1. i # e /\ ~(i \in m .. e - 1)
      BY <2>1, <2>4
    <3>. QED
      BY <2>1, <2>2, <3>1
  <2>6. e \in 1 .. Len(t) /\ m <= e
    BY <2>2
  <2>. QED
    BY <1>1, <1>9, <2>4, <2>5, <2>6
<1>16. Keeps(t, K, s)
  BY <1>4, <1>6, <1>11, <1>12, <1>13, <1>14, <1>15 DEF Keeps
<1>17. Rendered(s) = Rendered(t)
  BY <1>6, <1>16, ShowsTheSame
(* What is left of a row does not end in a space.                          *)
<1>18. Trailing(s) = {}
  <2>. SUFFICES ASSUME NEW n \in Trailing(s) PROVE FALSE
    OBVIOUS
  <2>1. /\ n \in 1 .. Len(s)
        /\ \E e \in n + 1 .. Len(s) : s[e] = "lf" /\ \A k \in n .. e - 1 : s[k] = "sp"
    BY <1>6 DEF Trailing
  <2>2. PICK e \in n + 1 .. Len(s) : s[e] = "lf" /\ \A k \in n .. e - 1 : s[k] = "sp"
    BY <2>1
  <2>3. PICK q \in K : Rank(K, q) = n
    BY <1>6, <1>7, <2>1
  <2>4. PICK g \in K : Rank(K, g) = e
    <3>1. e \in 1 .. Cardinality(K)
      BY <1>6, <2>1
    <3>. QED
      BY <1>6, <1>7, <3>1
  <2>5. q < g /\ t[g] = "lf" /\ q \in 1 .. Len(t) /\ g \in 1 .. Len(t)
    <3>1. q \in 1 .. Len(t) /\ g \in 1 .. Len(t)
      BY <1>1, <1>4
    <3>2. Rank(K, q) < Rank(K, g)
      <4>1. n \in Int /\ e \in n + 1 .. Len(s) /\ n < e
        BY <2>1, <2>2
      <4>. QED
        BY <2>3, <2>4, <4>1
    <3>3. s[Rank(K, g)] = t[g]
      BY <1>6
    <3>. QED
      BY <1>6, <2>2, <2>3, <2>4, <3>1, <3>2, <3>3, RankOnto
  <2>6. ASSUME NEW k \in q .. g - 1 PROVE t[k] = "sp"
    <3>1. k \in 1 .. Len(t) /\ q <= k /\ k < g
      BY <2>5
    <3>2. CASE k \in K
      <4>1. Rank(K, k) < e /\ ~(Rank(K, k) < n) /\ Rank(K, k) \in 1 .. Cardinality(K)
        <5>1. ~(k < q)
          BY <2>5, <3>1
        <5>2. Rank(K, k) < Rank(K, g) /\ ~(Rank(K, k) < Rank(K, q))
          BY <1>6, <3>1, <3>2, <5>1, RankOnto
        <5>3. Rank(K, k) \in 1 .. Cardinality(K)
          BY <1>6, <3>2
        <5>. QED
          BY <2>3, <2>4, <5>2, <5>3
      <4>2. Rank(K, k) \in n .. e - 1
        BY <2>1, <4>1
      <4>. QED
        BY <1>6, <2>2, <3>2, <4>2
    <3>3. CASE k \notin K
      BY <1>1, <1>3, <1>4, <3>1, <3>3
    <3>. QED
      BY <3>2, <3>3
  <2>7. g \in q + 1 .. Len(t)
    BY <2>5
  <2>8. q \in Trailing(t)
    BY <1>1, <1>2, <2>5, <2>6, <2>7
  <2>. QED
    BY <1>4, <2>3, <2>8
<1>. QED
  BY <1>6, <1>8, <1>17, <1>18

-----------------------------------------------------------------------------
LEMMA LeastOf ==
  ASSUME NEW U, U \subseteq Nat, U # {}
  PROVE  \E m \in U : \A k \in U : m <= k
<1>1. PICK m \in U : \A k \in U : <<k, m>> \notin OpToRel(<, Nat)
  BY NatLessThanWellFounded, WFMin
<1>2. \A k \in U : ~(k < m)
  BY <1>1 DEF OpToRel
<1>3. \A k \in U : k \in Nat
  OBVIOUS
<1>4. \A k \in U : m <= k
  BY <1>2, <1>3
<1>. QED
  BY <1>4

(* A text of which every row ends in something visible, and the last row   *)
(* is not empty.                                                           *)
Normal(t) ==
  /\ NoReturns(t) /\ Trailing(t) = {}
  /\ \A i \in DOMAIN t : \E k \in Visible(t) : i <= k

(* Spaces and ends at the end of the text go.                              *)
LEMMA TrimEndShow ==
  ASSUME NEW S, NEW t \in Seq(S), NoReturns(t), Trailing(t) = {},
         NEW s, s = trimEnd(t, {"lf", "sp"})
  PROVE  s \in Seq(S) /\ Normal(s) /\ Rendered(s) = Rendered(t)
<1>. DEFINE K == {i \in DOMAIN t : \E k \in i .. Len(t) : t[k] \notin {"lf", "sp"}}
<1>1. DOMAIN t = 1 .. Len(t) /\ Len(t) \in Nat
  OBVIOUS
<1>2. /\ \A i : i \in Visible(t) <=> i \in DOMAIN t /\ t[i] \notin {"sp", "lf"}
      /\ \A i, e : e \in Before(t, i) <=> e \in DOMAIN t /\ t[e] = "lf" /\ e < i
  BY EndsAreFeeds
<1>3. K \in SUBSET DOMAIN t /\ K \subseteq DOMAIN t
  OBVIOUS
<1>4. \A i \in DOMAIN t : i \in K <=> \E k \in Visible(t) : i <= k
  <2>. SUFFICES ASSUME NEW i \in 1 .. Len(t) PROVE i \in K <=> \E k \in Visible(t) : i <= k
    BY <1>1
  <2>1. \A k : k \in i .. Len(t) <=> k \in 1 .. Len(t) /\ i <= k
    BY <1>1
  <2>. QED
    BY <1>1, <1>2, <2>1
<1>5. s = Pick(t, K)
  BY DEF trimEnd
<1>. HIDE DEF K
<1>6. /\ IsFiniteSet(K) /\ K \in SUBSET Int /\ Cardinality(K) \in Nat
      /\ s \in Seq(S) /\ Len(s) = Cardinality(K)
      /\ \A q \in K : Rank(K, q) \in 1 .. Cardinality(K) /\ s[Rank(K, q)] = t[q]
  BY <1>3, <1>5, PickFacts
<1>7. \A n \in 1 .. Cardinality(K) : \E q \in K : Rank(K, q) = n
  BY <1>3, PickFacts
<1>8. ASSUME NEW i \in K PROVE Rank(K, i) = i
  <2>1. i \in 1 .. Len(t)
    BY <1>1, <1>3
  <2>2. 0 + 1 .. i \subseteq K
    <3>. SUFFICES ASSUME NEW m \in 1 .. i PROVE m \in K
      OBVIOUS
    <3>1. PICK k \in Visible(t) : i <= k
      BY <1>1, <1>4, <2>1
    <3>2. k \in 1 .. Len(t)
      BY <1>1, <1>2
    <3>3. m \in 1 .. Len(t) /\ m <= k
      BY <2>1, <3>1, <3>2
    <3>. QED
      BY <1>1, <1>4, <3>3
  <2>3. Rank(K, 0) = 0
    <3>1. {q \in K : q <= 0} = {}
      <4>. SUFFICES ASSUME NEW q \in K, q <= 0 PROVE FALSE
        OBVIOUS
      <4>1. q \in 1 .. Len(t)
        BY <1>1, <1>3
      <4>. QED
        BY <4>1
    <3>. QED
      BY <3>1, FS_EmptySet DEF Rank
  <2>4. Rank(K, i) - Rank(K, 0) = i - 0
    <3>1. 0 \in Int /\ i \in Int /\ 0 <= i
      BY <2>1
    <3>. QED
      BY <1>6, <2>2, <3>1, RankSteps
  <2>5. Rank(K, i) \in Int
    BY <1>6
  <2>. QED
    BY <2>1, <2>3, <2>4, <2>5
<1>9. DOMAIN s = 1 .. Cardinality(K) /\ K = 1 .. Cardinality(K) /\ \A i \in K : s[i] = t[i]
  <2>1. \A n : n \in K <=> n \in 1 .. Cardinality(K)
    BY <1>6, <1>8, <1>7
  <2>2. K = 1 .. Cardinality(K)
    BY <2>1
  <2>3. \A i \in K : s[i] = t[i]
    BY <1>6, <1>8
  <2>. QED
    BY <1>6, <2>2, <2>3
<1>10. NoReturns(s)
  BY <1>3, <1>9 DEF NoReturns
<1>11. /\ \A n : n \in Visible(s) <=> n \in DOMAIN s /\ s[n] \notin {"sp", "lf"}
       /\ \A i, e : e \in Before(s, i) <=> e \in DOMAIN s /\ s[e] = "lf" /\ e < i
  BY <1>6, <1>10, EndsAreFeeds
<1>12. \A i \in Visible(t) : i \in K
  <2>. SUFFICES ASSUME NEW i \in Visible(t) PROVE i \in K
    OBVIOUS
  <2>1. i \in 1 .. Len(t) /\ i <= i
    BY <1>1, <1>2
  <2>. QED
    BY <1>1, <1>4, <2>1
<1>13. \A n : n \in Visible(s) <=> n \in Visible(t)
  BY <1>2, <1>3, <1>9, <1>11, <1>12
<1>14. ASSUME NEW i \in Visible(t), NEW e \in 1 .. i PROVE e \in K
  <2>1. i \in 1 .. Len(t)
    BY <1>1, <1>2
  <2>2. e \in 1 .. Len(t) /\ e <= i
    BY <2>1
  <2>. QED
    BY <1>1, <1>4, <2>2
<1>15. ASSUME NEW i \in Visible(t)
       PROVE  /\ Before(s, Rank(K, i)) = {Rank(K, e) : e \in Before(t, i)}
              /\ \A e, g \in Before(t, i) : Rank(K, e) = Rank(K, g) => e = g
  <2>1. Rank(K, i) = i /\ i \in 1 .. Len(t)
    BY <1>1, <1>2, <1>8, <1>12
  <2>2. \A e \in Before(t, i) : e \in K /\ Rank(K, e) = e
    <3>. SUFFICES ASSUME NEW e \in Before(t, i) PROVE e \in K
      BY <1>8
    <3>1. e \in 1 .. Len(t) /\ e < i
      BY <1>1, <1>2
    <3>2. e \in 1 .. i
      BY <2>1, <3>1
    <3>. QED
      BY <1>14, <3>2
  <2>3. \A e : e \in Before(s, i) <=> e \in Before(t, i)
    BY <1>2, <1>3, <1>9, <1>11, <2>2
  <2>. QED
    BY <2>1, <2>2, <2>3
<1>16. ASSUME NEW i \in Visible(t), NEW m \in 1 .. i - 1 PROVE m \in K
  <2>1. i \in 1 .. Len(t)
    BY <1>1, <1>2
  <2>2. m \in 1 .. i
    BY <2>1
  <2>. QED
    BY <1>14, <2>2
<1>17. Keeps(t, K, s)
  <2>1. /\ \A i \in Visible(t) : i \in K /\ s[Rank(K, i)] = t[i]
        /\ \A n \in Visible(s) : \E i \in Visible(t) : n = Rank(K, i)
    BY <1>6, <1>8, <1>12, <1>13
  <2>. QED
    BY <1>3, <1>6, <1>15, <1>16, <2>1 DEF Keeps
<1>18. Rendered(s) = Rendered(t)
  BY <1>6, <1>17, ShowsTheSame
<1>19. \A i \in DOMAIN s : \E k \in Visible(s) : i <= k
  BY <1>3, <1>4, <1>9, <1>13
<1>20. Trailing(s) = {}
  <2>. SUFFICES ASSUME NEW n \in Trailing(s) PROVE FALSE
    OBVIOUS
  <2>1. /\ n \in 1 .. Len(s)
        /\ \E e \in n + 1 .. Len(s) : s[e] = "lf" /\ \A k \in n .. e - 1 : s[k] = "sp"
    BY <1>6, <1>9 DEF Trailing
  <2>2. PICK e \in n + 1 .. Len(s) : s[e] = "lf" /\ \A k \in n .. e - 1 : s[k] = "sp"
    BY <2>1
  <2>3. n \in K /\ e \in K /\ n \in 1 .. Len(t) /\ e \in 1 .. Len(t)
    <3>1. e \in 1 .. Cardinality(K) /\ n \in 1 .. Cardinality(K)
      BY <1>6, <2>1
    <3>. QED
      BY <1>1, <1>3, <1>9, <3>1
  <2>4. ASSUME NEW k \in n .. e - 1 PROVE t[k] = "sp"
    <3>1. k \in 1 .. Cardinality(K)
      BY <1>6, <2>1
    <3>. QED
      BY <1>9, <2>2, <3>1
  <2>5. e \in n + 1 .. Len(t) /\ t[e] = "lf"
    BY <1>9, <2>2, <2>3
  <2>6. n \in Trailing(t)
    BY <1>1, <2>3, <2>4, <2>5 DEF Trailing
  <2>. QED
    BY <2>6
<1>. QED
  BY <1>6, <1>10, <1>18, <1>19, <1>20 DEF Normal

-----------------------------------------------------------------------------
(* Two positions have one place only if they are the same.                 *)
LEMMA SameRow ==
  ASSUME NEW S, NEW t \in Seq(S), NEW i \in Int, NEW k \in Int,
         Cardinality(Before(t, i)) = Cardinality(Before(t, k))
  PROVE  Before(t, i) = Before(t, k)
<1>1. ASSUME NEW x \in Int, NEW y \in Int, x <= y PROVE Before(t, x) \in SUBSET Before(t, y)
  <2>. SUFFICES ASSUME NEW e \in Before(t, x) PROVE e \in Before(t, y)
    OBVIOUS
  <2>1. e \in LineEnds(t) /\ e < x /\ e \in 1 .. Len(t)
    BY RowStart DEF Before
  <2>. QED
    BY <1>1, <2>1 DEF Before
<1>2. IsFiniteSet(Before(t, i)) /\ IsFiniteSet(Before(t, k))
  BY RowStart
<1>3. CASE i <= k
  BY <1>1, <1>2, <1>3, FS_Subset
<1>4. CASE k <= i
  BY <1>1, <1>2, <1>4, FS_Subset
<1>. QED
  BY <1>3, <1>4

LEMMA PairsEqual ==
  ASSUME NEW a, NEW b, NEW c, NEW d, <<a, b>> = <<c, d>>
  PROVE  a = c /\ b = d
OBVIOUS

(* Of two normal texts that show the same, one goes on where the other     *)
(* does, with the same visible character or not with a row's end.          *)
Agree(a, b, i) == \A j \in 1 .. i - 1 : j \in DOMAIN a /\ j \in DOMAIN b /\ a[j] = b[j]

LEMMA GoesOn ==
  ASSUME NEW S, NEW a \in Seq(S), NEW b \in Seq(S), Normal(a), Normal(b),
         Rendered(a) \subseteq Rendered(b), NEW i \in DOMAIN a, Agree(a, b, i)
  PROVE  /\ i \in DOMAIN b
         /\ i \in Visible(a) => b[i] = a[i]
         /\ a[i] = "sp" => b[i] # "lf"
<1>1. /\ DOMAIN a = 1 .. Len(a) /\ Len(a) \in Nat
      /\ DOMAIN b = 1 .. Len(b) /\ Len(b) \in Nat
      /\ i \in 1 .. Len(a)
  OBVIOUS
<1>2. /\ \A k, e : e \in Before(a, k) <=> e \in DOMAIN a /\ a[e] = "lf" /\ e < k
      /\ \A k : k \in Visible(a) <=> k \in DOMAIN a /\ a[k] \notin {"sp", "lf"}
      /\ \A k, e : e \in Before(b, k) <=> e \in DOMAIN b /\ b[e] = "lf" /\ e < k
      /\ \A k : k \in Visible(b) <=> k \in DOMAIN b /\ b[k] \notin {"sp", "lf"}
  <2>1. NoReturns(a) /\ NoReturns(b)
    BY DEF Normal
  <2>2. /\ \A k, e : e \in Before(a, k) <=> e \in DOMAIN a /\ a[e] = "lf" /\ e < k
        /\ \A k : k \in Visible(a) <=> k \in DOMAIN a /\ a[k] \notin {"sp", "lf"}
    BY <2>1, EndsAreFeeds
  <2>3. /\ \A k, e : e \in Before(b, k) <=> e \in DOMAIN b /\ b[e] = "lf" /\ e < k
        /\ \A k : k \in Visible(b) <=> k \in DOMAIN b /\ b[k] \notin {"sp", "lf"}
    BY <2>1, EndsAreFeeds
  <2>. QED
    BY <2>2, <2>3
<1>3. Before(a, i) = Before(b, i)
  <2>. SUFFICES ASSUME NEW e PROVE e \in Before(a, i) <=> e \in Before(b, i)
    OBVIOUS
  <2>1. e \in Before(a, i) \/ e \in Before(b, i) => e \in 1 .. i - 1
    BY <1>1, <1>2
  <2>. QED
    BY <1>2, <2>1 DEF Agree
<1>4. ASSUME NEW k \in Visible(a)
      PROVE  \E g \in Visible(b) : Place(b, g) = Place(a, k) /\ b[g] = a[k]
  <2>1. <<Place(a, k), a[k]>> \in Rendered(b)
    BY DEF Rendered
  <2>2. PICK g \in Visible(b) : <<Place(a, k), a[k]>> = <<Place(b, g), b[g]>>
    BY <2>1 DEF Rendered
  <2>. QED
    BY <2>2
(* What is visible in the same row stands at the same position.            *)
<1>5. ASSUME NEW k \in Visible(a), Before(a, k) = Before(a, i)
      PROVE  k \in Visible(b) /\ b[k] = a[k] /\ Before(b, k) = Before(b, i)
  <2>1. PICK g \in Visible(b) : Place(b, g) = Place(a, k) /\ b[g] = a[k]
    BY <1>4
  <2>2. g \in Int /\ k \in Int /\ i \in Int
    BY <1>1, <1>2
  <2>3. PICK m \in Before(a, k) \union {0} :
          /\ \A e \in Before(a, k) : e <= m
          /\ Place(a, k) = <<Cardinality(Before(a, k)), k - m>>
    BY <2>2, RowStart
  <2>4. PICK n \in Before(b, g) \union {0} :
          /\ \A e \in Before(b, g) : e <= n
          /\ Place(b, g) = <<Cardinality(Before(b, g)), g - n>>
    BY <2>2, RowStart
  <2>5. Cardinality(Before(b, g)) = Cardinality(Before(b, i))
    <3>1. <<Cardinality(Before(b, g)), g - n>> = <<Cardinality(Before(a, k)), k - m>>
      BY <2>1, <2>3, <2>4, Zenon
    <3>2. Cardinality(Before(b, g)) = Cardinality(Before(a, k))
      BY <3>1, PairsEqual, Zenon
    <3>. QED
      BY <1>3, <1>5, <3>2
  <2>6. Before(b, g) = Before(b, i)
    BY <2>2, <2>5, SameRow
  <2>7. Place(b, g) = <<Cardinality(Before(b, g)), g - m>> /\ m \in Nat
    BY <1>3, <1>5, <2>2, <2>3, <2>6, PlaceIs
  <2>8. g - m = k - m
    <3>1. <<Cardinality(Before(b, g)), g - m>> = <<Cardinality(Before(a, k)), k - m>>
      BY <2>1, <2>3, <2>7, Zenon
    <3>. QED
      BY <3>1, PairsEqual, Zenon
  <2>9. g = k
    BY <2>2, <2>7, <2>8
  <2>. QED
    BY <2>1, <2>6, <2>9
<1>6. i \in Visible(a) => i \in DOMAIN b /\ b[i] = a[i]
  BY <1>2, <1>5
(* Behind a space the row goes on to something visible.                    *)
<1>7. ASSUME a[i] = "sp" PROVE i \in DOMAIN b /\ b[i] # "lf"
  <2>. DEFINE U == {k \in 1 .. Len(a) : i <= k /\ a[k] # "sp"}
  <2>1. U \subseteq Nat /\ U # {}
    <3>1. PICK k \in Visible(a) : i <= k
      BY DEF Normal
    <3>2. k \in U
      BY <1>1, <1>2, <3>1
    <3>. QED
      BY <3>2
  <2>2. PICK k \in U : \A g \in U : k <= g
    <3>. HIDE DEF U
    <3>. QED
      BY <2>1, LeastOf
  <2>3. k \in 1 .. Len(a) /\ i < k /\ a[k] # "sp"
    BY <1>1, <1>7
  <2>4. ASSUME NEW g \in i .. k - 1 PROVE a[g] = "sp"
    <3>1. g \in 1 .. Len(a) /\ i <= g /\ ~(k <= g)
      BY <1>1, <2>3
    <3>. QED
      BY <2>2, <3>1
  <2>5. a[k] # "lf"
    <3>1. k \in i + 1 .. Len(a)
      BY <1>1, <2>3
    <3>2. i \notin Trailing(a)
      BY DEF Normal
    <3>. QED
      BY <2>4, <3>1, <3>2 DEF Trailing
  <2>6. k \in Visible(a)
    BY <1>1, <1>2, <2>3, <2>5
  <2>7. Before(a, k) = Before(a, i)
    <3>. SUFFICES ASSUME NEW e PROVE e \in Before(a, k) <=> e \in Before(a, i)
      OBVIOUS
    <3>1. ASSUME e \in Before(a, k) PROVE e \in Before(a, i)
      <4>1. e \in 1 .. Len(a) /\ a[e] = "lf" /\ e < k
        BY <1>1, <1>2, <3>1
      <4>2. e \notin i .. k - 1
        BY <2>4, <4>1
      <4>3. e < i
        BY <1>1, <2>3, <4>1, <4>2
      <4>. QED
        BY <1>1, <1>2, <4>1, <4>3
    <3>2. ASSUME e \in Before(a, i) PROVE e \in Before(a, k)
      <4>1. e \in 1 .. Len(a) /\ a[e] = "lf" /\ e < i
        BY <1>1, <1>2, <3>2
      <4>2. e < k
        BY <1>1, <2>3, <4>1
      <4>. QED
        BY <1>1, <1>2, <4>1, <4>2
    <3>. QED
      BY <3>1, <3>2
  <2>8. k \in 1 .. Len(b) /\ Before(b, k) = Before(b, i)
    BY <1>1, <1>2, <1>5, <2>6, <2>7
  <2>9. i \in 1 .. Len(b)
    BY <1>1, <2>3, <2>8
  <2>10. b[i] # "lf"
    <3>. SUFFICES ASSUME b[i] = "lf" PROVE FALSE
      OBVIOUS
    <3>1. i \in Before(b, k)
      BY <1>1, <1>2, <2>3, <2>9
    <3>2. i < i
      BY <1>2, <2>8, <3>1
    <3>. QED
      BY <1>1, <3>2
  <2>. QED
    BY <1>1, <2>9, <2>10
(* Behind an end there is something visible, in a later row.               *)
<1>8. ASSUME a[i] = "lf" PROVE i \in DOMAIN b
  <2>1. PICK k \in Visible(a) : i <= k
    BY DEF Normal
  <2>2. k \in 1 .. Len(a) /\ i < k
    <3>1. i # k
      BY <1>2, <1>8
    <3>. QED
      BY <1>1, <1>2, <2>1, <3>1
  <2>3. PICK g \in Visible(b) : Place(b, g) = Place(a, k)
    BY <1>4
  <2>4. g \in 1 .. Len(b)
    BY <1>1, <1>2
  <2>5. ~(g < i)
    <3>. SUFFICES ASSUME g < i PROVE FALSE
      OBVIOUS
    <3>1. Cardinality(Before(b, g)) = Cardinality(Before(a, k))
      <4>1. PICK m \in Before(a, k) \union {0} :
              Place(a, k) = <<Cardinality(Before(a, k)), k - m>>
        BY <2>2, RowStart
      <4>2. PICK n \in Before(b, g) \union {0} :
              Place(b, g) = <<Cardinality(Before(b, g)), g - n>>
        BY <2>4, RowStart
      <4>3. <<Cardinality(Before(b, g)), g - n>> = <<Cardinality(Before(a, k)), k - m>>
        BY <2>3, <4>1, <4>2, Zenon
      <4>. QED
        BY <4>3, PairsEqual, Zenon
    <3>2. Before(b, g) \in SUBSET Before(a, k) /\ i \in Before(a, k) /\ i \notin Before(b, g)
      <4>1. ASSUME NEW e \in Before(b, g) PROVE e \in Before(a, k)
        <5>1. e \in 1 .. Len(b) /\ b[e] = "lf" /\ e < g
          BY <1>1, <1>2
        <5>2. e < i /\ e < k
          BY <1>1, <2>2, <2>4, <5>1
        <5>3. e \in Before(a, i)
          BY <1>1, <1>2, <1>3, <5>1, <5>2
        <5>. QED
          BY <1>2, <5>2, <5>3
      <4>2. i \in Before(a, k)
        BY <1>1, <1>2, <1>8, <2>2
      <4>3. i \notin Before(b, g)
        BY <1>1, <1>2, <2>4
      <4>. QED
        BY <4>1, <4>2, <4>3
    <3>3. IsFiniteSet(Before(a, k))
      BY <2>2, RowStart
    <3>. QED
      BY <3>1, <3>2, <3>3, FS_Subset
  <2>. QED
    BY <1>1, <2>4, <2>5
<1>. QED
  BY <1>1, <1>2, <1>6, <1>7, <1>8

LEMMA NormalIsUnique ==
  ASSUME NEW S, NEW a \in Seq(S), NEW b \in Seq(S), Normal(a), Normal(b),
         Rendered(a) = Rendered(b)
  PROVE  a = b
<1>. DEFINE same(i) == i \in DOMAIN a /\ i \in DOMAIN b /\ a[i] = b[i]
            D == {i \in Nat : (i \in DOMAIN a \/ i \in DOMAIN b) /\ ~same(i)}
<1>1. /\ DOMAIN a = 1 .. Len(a) /\ Len(a) \in Nat
      /\ DOMAIN b = 1 .. Len(b) /\ Len(b) \in Nat
  OBVIOUS
<1>2. D = {}
  <2>. SUFFICES ASSUME D # {} PROVE FALSE
    OBVIOUS
  <2>1. PICK i \in D : \A k \in D : i <= k
    <3>1. D \subseteq Nat
      OBVIOUS
    <3>. HIDE DEF D
    <3>. QED
      BY <3>1, LeastOf
  <2>2. i \in Nat /\ (i \in DOMAIN a \/ i \in DOMAIN b) /\ ~same(i)
    OBVIOUS
  <2>3. \A j \in 1 .. i - 1 : same(j)
    <3>. SUFFICES ASSUME NEW j \in 1 .. i - 1 PROVE same(j)
      OBVIOUS
    <3>1. j \in Nat /\ ~(i <= j) /\ (j \in DOMAIN a \/ j \in DOMAIN b)
      <4>1. i \in 1 .. Len(a) \/ i \in 1 .. Len(b)
        BY <1>1, <2>2
      <4>. QED
        BY <1>1, <2>2, <4>1
    <3>. QED
      BY <2>1, <3>1
  <2>4. Agree(a, b, i) /\ Agree(b, a, i)
    BY <2>3 DEF Agree
  <2>5. i \in DOMAIN a => /\ i \in DOMAIN b
                          /\ i \in Visible(a) => b[i] = a[i]
                          /\ a[i] = "sp" => b[i] # "lf"
    BY <2>4, GoesOn
  <2>6. i \in DOMAIN b => /\ i \in DOMAIN a
                          /\ i \in Visible(b) => a[i] = b[i]
                          /\ b[i] = "sp" => a[i] # "lf"
    BY <2>4, GoesOn
  <2>7. i \in DOMAIN a /\ i \in DOMAIN b
    BY <2>2, <2>5, <2>6
  <2>8. /\ i \in Visible(a) \/ a[i] \in {"sp", "lf"}
        /\ i \in Visible(b) \/ b[i] \in {"sp", "lf"}
    BY <2>7 DEF Normal, NoReturns, Visible
  <2>9. a[i] = b[i]
    BY <2>5, <2>6, <2>7, <2>8
  <2>. QED
    BY <2>2, <2>7, <2>9
<1>3. \A i \in Nat : i \in DOMAIN a \/ i \in DOMAIN b => same(i)
  BY <1>2
<1>4. DOMAIN a = DOMAIN b
  <2>1. \A i : i \in DOMAIN a \/ i \in DOMAIN b => i \in Nat
    BY <1>1
  <2>. QED
    BY <1>3, <2>1
<1>5. \A i \in DOMAIN a : a[i] = b[i]
  BY <1>1, <1>3
<1>. QED
  BY <1>4, <1>5

(* Hence the comparison compares what the texts show.                      *)
LEMMA Normalized ==
  ASSUME NEW t \in Seq(STRING)
  PROVE  /\ normalizeOutput(t) \in Seq(STRING \union {"lf"}) /\ Normal(normalizeOutput(t))
         /\ Rendered(normalizeOutput(t)) = Rendered(t)
<1>. DEFINE S == STRING \union {"lf"}
            u == UnixLines(t)
            v == Pick(u, DOMAIN u \ Trailing(u))
<1>1. t \in Seq(S) /\ "lf" \in S
  OBVIOUS
<1>2. normalizeOutput(t) = trimEnd(v, {"lf", "sp"})
  BY DEF normalizeOutput, normalizeEndOfLine
<1>. HIDE DEF S, u
<1>3. u \in Seq(S) /\ NoReturns(u) /\ Rendered(u) = Rendered(t)
  BY <1>1, UnixLinesShow DEF u
<1>4. v \in Seq(S) /\ NoReturns(v) /\ Trailing(v) = {} /\ Rendered(v) = Rendered(u)
  BY <1>3, TrailingShow
<1>. HIDE DEF v
<1>5. /\ normalizeOutput(t) \in Seq(S) /\ Normal(normalizeOutput(t))
      /\ Rendered(normalizeOutput(t)) = Rendered(v)
  BY <1>2, <1>4, TrimEndShow
<1>. QED
  BY <1>3, <1>4, <1>5 DEF S

LEMMA ComparesWhatShows ==
  ASSUME NEW x \in Seq(STRING), NEW y \in Seq(STRING)
  PROVE  compareOutput(x, y) <=> Rendered(x) = Rendered(y)
<1>1. /\ normalizeOutput(x) \in Seq(STRING \union {"lf"}) /\ Normal(normalizeOutput(x))
      /\ Rendered(normalizeOutput(x)) = Rendered(x)
  BY Normalized
<1>2. /\ normalizeOutput(y) \in Seq(STRING \union {"lf"}) /\ Normal(normalizeOutput(y))
      /\ Rendered(normalizeOutput(y)) = Rendered(y)
  BY Normalized
<1>3. Rendered(x) = Rendered(y) => normalizeOutput(x) = normalizeOutput(y)
  BY <1>1, <1>2, NormalIsUnique
<1>. QED
  BY <1>1, <1>2, <1>3 DEF compareOutput

-----------------------------------------------------------------------------
(* The source that is compiled: the includes, the macro, and the rest.     *)
LEMMA IncludesFirst ==
  ASSUME NEW lines \in Seq(Lines)
  PROVE  LET n == Cardinality(Includes(lines))
             B == Pick(lines, DOMAIN lines \ Includes(lines))
             s == PreparedLines(lines)
         IN /\ n \in Nat /\ B \in Seq(Lines)
            /\ DOMAIN s = 1 .. n + 1 + Len(B)
            /\ \A i \in 1 .. n : s[i] = "include"
            /\ s[n + 1] = "define"
            /\ \A i \in 1 .. Len(B) : s[n + 1 + i] = B[i]
<1>. DEFINE I == Includes(lines)
            n == Cardinality(I)
            A == Pick(lines, I)
            B == Pick(lines, DOMAIN lines \ I)
            h == A \o B
            m == Len(B)
<1>1. I \in SUBSET DOMAIN lines /\ DOMAIN lines \ I \in SUBSET DOMAIN lines
      /\ \A p \in I : lines[p] = "include"
  BY DEF Includes
<1>2. PreparedLines(lines) = SubSeq(h, 1, n) \o <<"define">> \o SubSeq(h, n + 1, Len(h))
  BY DEF PreparedLines, addBannendFunctionAsserts, hoistIncludes
<1>. HIDE DEF I
<1>3. n \in Nat /\ A \in Seq(Lines) /\ Len(A) = n /\ \A i \in 1 .. n : A[i] = "include"
  <2>1. /\ n \in Nat /\ A \in Seq(Lines) /\ Len(A) = n
        /\ \A p \in I : A[Rank(I, p)] = lines[p]
    BY <1>1, PickFacts
  <2>2. \A i \in 1 .. n : \E p \in I : Rank(I, p) = i
    BY <1>1, PickFacts
  <2>. QED
    BY <1>1, <2>1, <2>2
<1>4. B \in Seq(Lines) /\ m \in Nat
  <2>1. B \in Seq(Lines)
    BY <1>1, PickFacts
  <2>. QED
    BY <2>1
<1>. HIDE DEF n, A, B
<1>5. /\ h \in Seq(Lines) /\ Len(h) = n + m
      /\ \A i \in 1 .. n : h[i] = "include"
      /\ \A i \in 1 .. m : h[n + i] = B[i]
  <2>1. /\ h \in Seq(Lines) /\ Len(h) = Len(A) + m
        /\ \A i \in 1 .. Len(A) + m : h[i] = IF i <= Len(A) THEN A[i] ELSE B[i - Len(A)]
    BY <1>3, <1>4, ConcatProperties
  <2>2. ASSUME NEW i \in 1 .. n PROVE h[i] = "include"
    BY <1>3, <1>4, <2>1
  <2>3. ASSUME NEW i \in 1 .. m PROVE h[n + i] = B[i]
    <3>1. n + i \in 1 .. n + m /\ ~(n + i <= n) /\ (n + i) - n = i
      BY <1>3, <1>4
    <3>. QED
      BY <1>3, <2>1, <3>1
  <2>. QED
    BY <1>3, <2>1, <2>2, <2>3
<1>. HIDE DEF h, m
<1>. DEFINE T == Lines \union {"define"}
            P == SubSeq(h, 1, n)
            Q == SubSeq(h, n + 1, Len(h))
            D == <<"define">>
            s == (P \o D) \o Q
<1>6. DOMAIN h = 1 .. n + m /\ \A i \in 1 .. n + m : h[i] \in T
  BY <1>5
<1>7. P \in Seq(T) /\ Len(P) = n /\ \A i \in 1 .. n : P[i] = "include"
  <2>1. \A i \in 1 .. n : h[i] \in T
    BY <1>3, <1>4, <1>6
  <2>2. /\ P \in Seq(T) /\ Len(P) = IF 1 <= n THEN n - 1 + 1 ELSE 0
        /\ \A i \in 1 .. n - 1 + 1 : P[i] = h[1 + i - 1]
    <3>1. 1 \in Int /\ n \in Int
      BY <1>3
    <3>. HIDE DEF T
    <3>. QED
      BY <2>1, <3>1, SubSeqProperties
  <2>3. ASSUME NEW i \in 1 .. n PROVE P[i] = "include"
    <3>1. i \in 1 .. n - 1 + 1 /\ 1 + i - 1 = i
      BY <1>3
    <3>. QED
      BY <1>5, <2>2, <3>1
  <2>4. Len(P) = n
    BY <1>3, <2>2
  <2>. HIDE DEF P, T
  <2>. QED
    BY <2>2, <2>3, <2>4
<1>8. Q \in Seq(T) /\ Len(Q) = m /\ \A i \in 1 .. m : Q[i] = B[i]
  <2>1. \A i \in n + 1 .. Len(h) : h[i] \in T
    BY <1>3, <1>4, <1>5, <1>6
  <2>2. /\ Q \in Seq(T) /\ Len(Q) = IF n + 1 <= Len(h) THEN Len(h) - (n + 1) + 1 ELSE 0
        /\ \A i \in 1 .. Len(h) - (n + 1) + 1 : Q[i] = h[(n + 1) + i - 1]
    <3>1. n + 1 \in Int /\ Len(h) \in Int
      BY <1>3, <1>4, <1>5
    <3>. HIDE DEF T
    <3>. QED
      BY <2>1, <3>1, SubSeqProperties
  <2>3. ASSUME NEW i \in 1 .. m PROVE Q[i] = B[i]
    <3>1. i \in 1 .. Len(h) - (n + 1) + 1 /\ (n + 1) + i - 1 = n + i
      BY <1>3, <1>4, <1>5
    <3>. QED
      BY <1>5, <2>2, <3>1
  <2>4. Len(Q) = m
    BY <1>3, <1>4, <1>5, <2>2
  <2>. HIDE DEF Q, T
  <2>. QED
    BY <2>2, <2>3, <2>4
<1>9. D \in Seq(T) /\ Len(D) = 1 /\ D[1] = "define"
  OBVIOUS
<1>. HIDE DEF T, P, Q, D
<1>10. /\ P \o D \in Seq(T) /\ Len(P \o D) = n + 1
       /\ \A i \in 1 .. n + 1 : (P \o D)[i] = IF i <= n THEN P[i] ELSE D[i - n]
  <2>1. /\ P \o D \in Seq(T) /\ Len(P \o D) = Len(P) + Len(D)
        /\ \A i \in 1 .. Len(P) + Len(D) :
             (P \o D)[i] = IF i <= Len(P) THEN P[i] ELSE D[i - Len(P)]
    BY <1>7, <1>9, ConcatProperties
  <2>. QED
    BY <1>7, <1>9, <2>1
<1>11. /\ s \in Seq(T) /\ Len(s) = n + 1 + m
       /\ \A i \in 1 .. n + 1 + m :
            s[i] = IF i <= n + 1 THEN (P \o D)[i] ELSE Q[i - (n + 1)]
  <2>. DEFINE E == P \o D
  <2>. HIDE DEF E
  <2>1. E \in Seq(T) /\ Len(E) = n + 1
    BY <1>10 DEF E
  <2>2. /\ E \o Q \in Seq(T) /\ Len(E \o Q) = Len(E) + Len(Q)
        /\ \A i \in 1 .. Len(E) + Len(Q) :
             (E \o Q)[i] = IF i <= Len(E) THEN E[i] ELSE Q[i - Len(E)]
    BY <1>8, <2>1, ConcatProperties
  <2>. QED
    BY <1>8, <2>1, <2>2 DEF E
<1>12. PreparedLines(lines) = s
  BY <1>2 DEF P, D, Q
<1>. HIDE DEF s
<1>13. DOMAIN s = 1 .. n + 1 + m
  BY <1>11
<1>14. ASSUME NEW i \in 1 .. n PROVE s[i] = "include"
  <2>1. i \in 1 .. n + 1 + m /\ i <= n + 1 /\ i \in 1 .. n + 1 /\ i <= n
    BY <1>3, <1>4
  <2>. QED
    BY <1>7, <1>10, <1>11, <2>1
<1>15. s[n + 1] = "define"
  <2>1. n + 1 \in 1 .. n + 1 + m /\ n + 1 \in 1 .. n + 1 /\ ~(n + 1 <= n) /\ n + 1 - n = 1
        /\ n + 1 <= n + 1
    BY <1>3, <1>4
  <2>2. s[n + 1] = (P \o D)[n + 1]
    BY <1>11, <2>1
  <2>3. (P \o D)[n + 1] = D[1]
    <3>1. PICK k : k = n + 1
      OBVIOUS
    <3>2. k \in 1 .. n + 1 /\ ~(k <= n) /\ k - n = 1
      BY <1>3, <3>1
    <3>3. (P \o D)[k] = D[k - n]
      BY <1>10, <3>2
    <3>. QED
      BY <3>1, <3>2, <3>3
  <2>. QED
    BY <1>9, <2>1, <2>2, <2>3
<1>16. ASSUME NEW i \in 1 .. m PROVE s[n + 1 + i] = B[i]
  <2>1. n + 1 + i \in 1 .. n + 1 + m /\ ~(n + 1 + i <= n + 1) /\ (n + 1 + i) - (n + 1) = i
    BY <1>3, <1>4
  <2>. QED
    BY <1>8, <1>11, <2>1
<1>. QED
  BY <1>3, <1>4, <1>12, <1>13, <1>14, <1>15, <1>16 DEF n, B, m, I

(* Without a plain 'undef' the compilation fails at the assertion exactly  *)
(* if the banned function is called plainly, and not behind a masked one.  *)
LEMMA AssertsCalls ==
  ASSUME NEW lines \in Seq(Lines), ~Contains(lines, "undef")
  PROVE  AssertionFails(PreparedLines(lines)) <=> CalledOpenly(lines)
<1>. DEFINE n == Cardinality(Includes(lines))
            K == DOMAIN lines \ Includes(lines)
            B == Pick(lines, K)
            s == PreparedLines(lines)
<1>1. /\ n \in Nat /\ B \in Seq(Lines) /\ Len(B) \in Nat
      /\ DOMAIN s = 1 .. n + 1 + Len(B)
      /\ \A i \in 1 .. n : s[i] = "include"
      /\ s[n + 1] = "define"
      /\ \A i \in 1 .. Len(B) : s[n + 1 + i] = B[i]
  <2>1. /\ n \in Nat /\ B \in Seq(Lines)
        /\ DOMAIN s = 1 .. n + 1 + Len(B)
        /\ \A i \in 1 .. n : s[i] = "include"
        /\ s[n + 1] = "define"
        /\ \A i \in 1 .. Len(B) : s[n + 1 + i] = B[i]
    BY IncludesFirst
  <2>. HIDE DEF B
  <2>2. Len(B) \in Nat
    BY <2>1
  <2>. QED
    BY <2>1, <2>2
<1>2. /\ DOMAIN lines = 1 .. Len(lines) /\ Len(lines) \in Nat /\ K \in SUBSET DOMAIN lines
      /\ \A p \in DOMAIN lines : lines[p] \in Lines /\ lines[p] # "undef"
      /\ \A p \in DOMAIN lines : p \in K <=> lines[p] # "include"
  BY DEF Contains, Includes
<1>. HIDE DEF n, s, K
<1>3. /\ IsFiniteSet(K) /\ K \in SUBSET Int /\ Len(B) = Cardinality(K)
      /\ \A p \in K : Rank(K, p) \in 1 .. Len(B) /\ B[Rank(K, p)] = lines[p]
      /\ \A i \in 1 .. Len(B) : \E p \in K : Rank(K, p) = i
  BY <1>2, PickFacts
<1>. HIDE DEF B
<1>4. ASSUME NEW p \in K, NEW q \in K
      PROVE  /\ p < q => Rank(K, p) < Rank(K, q)
             /\ p <= q => Rank(K, p) <= Rank(K, q)
  <2>1. p \in Int /\ q \in Int /\ q <= q /\ (p < q => p <= q)
    BY <1>3
  <2>. QED
    BY <1>3, <2>1, RankGrows
<1>5. \A i \in 1 .. Len(B) : \E p \in K : Rank(K, p) = i /\ B[i] = lines[p]
  BY <1>3
<1>6. \A i \in 1 .. Len(B) : B[i] \in {"maskedUndef", "call", "maskedCall", "other"}
  BY <1>2, <1>5 DEF Lines
<1>7. ASSUME NEW i \in DOMAIN s
      PROVE  \/ i \in 1 .. n /\ s[i] = "include"
             \/ i = n + 1 /\ s[i] = "define"
             \/ \E k \in 1 .. Len(B) : i = n + 1 + k /\ s[i] = B[k]
  <2>1. \/ i \in 1 .. n
        \/ i = n + 1
        \/ i - (n + 1) \in 1 .. Len(B) /\ i = n + 1 + (i - (n + 1))
    BY <1>1
  <2>. QED
    BY <1>1, <2>1
<1>8. ASSUME AssertionFails(s) PROVE CalledOpenly(lines)
  <2>1. PICK d, c \in DOMAIN s : /\ d < c /\ s[d] = "define" /\ s[c] \in {"call", "include"}
                                 /\ \A u \in d .. c : s[u] \notin {"undef", "maskedUndef"}
    BY <1>8 DEF AssertionFails
  <2>2. d = n + 1
    BY <1>6, <1>7, <2>1
  <2>3. ~(c \in 1 .. n) /\ c # n + 1
    BY <1>1, <2>1, <2>2
  <2>4. PICK k \in 1 .. Len(B) : c = n + 1 + k /\ s[c] = B[k]
    BY <1>7, <2>3
  <2>5. B[k] = "call"
    BY <1>6, <2>1, <2>4
  <2>6. PICK p \in K : Rank(K, p) = k /\ lines[p] = "call"
    BY <1>5, <2>5
  <2>7. ASSUME NEW u \in 1 .. p - 1, lines[u] = "maskedUndef" PROVE FALSE
    <3>1. p \in DOMAIN lines /\ p \in 1 .. Len(lines)
      BY <1>2
    <3>2. u \in DOMAIN lines /\ u < p
      BY <1>2, <3>1
    <3>3. u \in K
      BY <1>2, <2>7, <3>2
    <3>4. /\ Rank(K, u) < k /\ Rank(K, u) \in 1 .. Len(B)
          /\ B[Rank(K, u)] = "maskedUndef"
      BY <1>3, <1>4, <2>6, <2>7, <3>2, <3>3
    <3>. DEFINE r == Rank(K, u)
    <3>. HIDE DEF r
    <3>5. r < k /\ r \in 1 .. Len(B) /\ B[r] = "maskedUndef"
      BY <3>4 DEF r
    <3>6. n + 1 + r \in d .. c
      BY <1>1, <2>2, <2>4, <3>5
    <3>7. s[n + 1 + r] = "maskedUndef"
      BY <1>1, <3>5
    <3>. QED
      BY <2>1, <3>6, <3>7
  <2>8. p \in DOMAIN lines
    BY <1>2
  <2>. QED
    BY <2>6, <2>7, <2>8 DEF CalledOpenly
<1>9. ASSUME CalledOpenly(lines) PROVE AssertionFails(s)
  <2>1. PICK p \in DOMAIN lines :
          lines[p] = "call" /\ \A u \in 1 .. p - 1 : lines[u] # "maskedUndef"
    BY <1>9 DEF CalledOpenly
  <2>2. p \in K
    BY <1>2, <2>1
  <2>3. PICK k \in 1 .. Len(B) : k = Rank(K, p) /\ B[k] = "call"
    BY <1>3, <2>1, <2>2
  <2>4. n + 1 \in DOMAIN s /\ n + 1 + k \in DOMAIN s /\ n + 1 < n + 1 + k
    BY <1>1
  <2>5. s[n + 1 + k] = "call"
    BY <1>1, <2>3
  <2>6. ASSUME NEW j \in 1 .. Len(B), j <= k, B[j] = "maskedUndef" PROVE FALSE
    <3>1. PICK q \in K : Rank(K, q) = j /\ lines[q] = "maskedUndef"
      BY <1>5, <2>6
    <3>2. q \in 1 .. Len(lines) /\ p \in 1 .. Len(lines) /\ q # p
      BY <1>2, <2>1, <3>1
    <3>3. ~(q \in 1 .. p - 1)
      BY <2>1, <3>1
    <3>4. p < q
      BY <3>2, <3>3
    <3>5. Rank(K, p) < Rank(K, q)
      BY <1>4, <2>2, <3>4
    <3>6. k < j
      BY <2>3, <3>1, <3>5
    <3>. QED
      BY <2>6, <3>6
  <2>7. ASSUME NEW u \in n + 1 .. n + 1 + k PROVE s[u] \notin {"undef", "maskedUndef"}
    <3>1. u \in DOMAIN s /\ ~(u \in 1 .. n)
      BY <1>1
    <3>2. CASE u = n + 1
      BY <1>1, <3>2
    <3>3. CASE u # n + 1
      <4>1. PICK j \in 1 .. Len(B) : u = n + 1 + j /\ s[u] = B[j]
        BY <1>7, <3>1, <3>3
      <4>2. j <= k
        BY <1>1, <4>1
      <4>3. B[j] # "maskedUndef"
        BY <2>6, <4>2
      <4>. QED
        BY <1>6, <4>1, <4>3
    <3>. QED
      BY <3>2, <3>3
  <2>. QED
    BY <1>1, <2>4, <2>5, <2>7 DEF AssertionFails
<1>. QED
  BY <1>8, <1>9 DEF s

-----------------------------------------------------------------------------
(* Which submissions are accepted.                                         *)
LEMMA CompilesByTheRules ==
  ASSUME ProblemInv, NEW p \in Written, NEW lost \in Losses
  PROVE  /\ CompilationCode(problem, p, lost) # "AC"
         /\ CompilationCode(problem, p, lost) = "none"
              <=> ~CaughtAt(p, lost) /\ p.fault = "none"
<1>1. p.lines \in Seq(Lines) /\ p.fault \in Faults
  BY ProblemsAssumption DEF ProblemInv, Written
<1>. DEFINE fails == AssertionFails(PreparedLines(p.lines))
            undefines == Contains(p.lines, "undef")
<1>2. ~undefines => (fails <=> CalledOpenly(p.lines))
  BY <1>1, AssertsCalls
<1>. HIDE DEF fails, undefines
<1>3. /\ CompilerCode(p, lost) # "AC"
      /\ CompilerCode(p, lost) = "none" <=> p.fault = "none"
  BY <1>1 DEF CompilerCode, Faults
<1>4. CompilationCode(problem, p, lost) =
        IF problem.bans /\ undefines THEN "DNA"
        ELSE IF problem.restricted /\ p.foreign /\ lost # "output" THEN "HNA"
        ELSE IF problem.bans /\ fails /\ lost # "output" THEN "FNA"
        ELSE IF problem.bans /\ fails /\ p.fault = "none" THEN "CE"
        ELSE CompilerCode(p, lost)
  BY DEF CompilationCode, fails, undefines
<1>5. CaughtAt(p, lost) <=> \/ problem.bans /\ (undefines \/ CalledOpenly(p.lines))
                            \/ problem.restricted /\ p.foreign /\ lost # "output"
  BY DEF CaughtAt, undefines
<1>. QED
  BY <1>2, <1>3, <1>4, <1>5

(* No code is given only to a run that ends well, and to every such run    *)
(* that stays within its memory.                                           *)
LEMMA NoCodeEndsWell ==
  ASSUME NEW run \in RunsOfPrograms, problem.memory \in Nat
  PROVE  /\ processOutput(run, problem.memory) # "AC"
         /\ processOutput(run, problem.memory) = "none" => EndsWell(run)
         /\ EndsWell(run) /\ WithinMemory(run) => processOutput(run, problem.memory) = "none"
<1>1. /\ run.fate \in {"exit", "signal", "timeout", "internal"}
      /\ run.detail \in Nat /\ run.time \in Nat /\ run.rss \in Nat
      /\ run.lost \in {"nothing", "output", "metadata"}
  BY DEF RunsOfPrograms, Fates, Losses
<1>2. processOutput(run, problem.memory) # "AC"
  BY DEF processOutput
<1>3. processOutput(run, problem.memory) = "none" => EndsWell(run)
  BY CodeNamesCause
<1>4. ASSUME EndsWell(run), WithinMemory(run) PROVE processOutput(run, problem.memory) = "none"
  <2>1. run.fate = "exit" /\ run.detail = 0
    BY <1>4 DEF EndsWell
  <2>2. exitCode(run) = 0
    BY <1>1, <2>1 DEF exitCode, Metadata, IsolateFails
  <2>3. ~(Metadata(run).time > TimeLimit)
    BY <1>1, <1>4, LimitsAssumption DEF EndsWell, Metadata
  <2>4. ~(Metadata(run).rss > problem.memory)
    BY <1>1, <1>4 DEF WithinMemory, Metadata
  <2>. QED
    BY <2>2, <2>3, <2>4 DEF processOutput
<1>. QED
  BY <1>2, <1>3, <1>4

(* The code of a run is AC only if it passes its test, and is so if the    *)
(* run stays within its memory, too.                                       *)
LEMMA PassedTest ==
  ASSUME ProblemInv, NEW p \in Written, NEW i \in 1 .. Len(problem.expected)
  PROVE  /\ CodeOfRun(p, i) = "AC" => Passes(p.runs[i], problem.expected[i])
         /\ Passes(p.runs[i], problem.expected[i]) /\ WithinMemory(p.runs[i])
              => CodeOfRun(p, i) = "AC"
<1>1. /\ problem.expected \in Seq(Seq(STRING)) /\ p.runs \in Seq(RunsOfPrograms)
      /\ Len(p.runs) = Len(problem.expected)
  BY RunsFit
<1>2. p.runs[i] \in RunsOfPrograms /\ problem.expected[i] \in Seq(STRING)
  BY <1>1
<1>3. problem.memory \in Nat
  BY ProblemsAssumption DEF ProblemInv
<1>4. /\ processOutput(p.runs[i], problem.memory) # "AC"
      /\ processOutput(p.runs[i], problem.memory) = "none" => EndsWell(p.runs[i])
      /\ EndsWell(p.runs[i]) /\ WithinMemory(p.runs[i])
           => processOutput(p.runs[i], problem.memory) = "none"
  BY <1>2, <1>3, NoCodeEndsWell
<1>5. Output(p.runs[i]) \in Seq(STRING)
  <2>1. \A run \in RunsOfPrograms : run.text \in Seq(STRING)
    BY DEF RunsOfPrograms
  <2>2. <<>> \in Seq(STRING)
    OBVIOUS
  <2>. QED
    BY <1>2, <2>1, <2>2 DEF Output
<1>6. compareOutput(Output(p.runs[i]), problem.expected[i])
        <=> Rendered(Output(p.runs[i])) = Rendered(problem.expected[i])
  BY <1>2, <1>5, ComparesWhatShows
<1>. QED
  BY <1>4, <1>6 DEF CodeOfRun, Passes

(* For any problems, texts and programs, any limits, whatever is lost of   *)
(* the reports of isolate and whatever has happened before: an accepted    *)
(* submission compiled, was not caught breaking the rules and shows what   *)
(* is expected on every hidden test, in time; and every such program that  *)
(* stays within its memory is accepted (submissions.service.ts:336,        *)
(* compare-output.ts:3, app.service.ts:354).  Without at least one hidden  *)
(* test, a program that does not even compile would be accepted: it would  *)
(* get no code that is not AC.                                             *)
THEOREM AcceptedArePassed == JudgeSpec => []AcceptedMeansPassed
<1>1. JudgeInv => AcceptedMeansPassed
  <2>. DEFINE p == judged.program
              lost == judged.lost
              AllAC == \A i \in DOMAIN judged.codes : judged.codes[i] = "AC"
              e == problem.examples
              AllPassed == \A i \in Hidden : Passes(p.runs[i], problem.expected[i])
              AllWithin == \A i \in Hidden : WithinMemory(p.runs[i])
              entitled == /\ judged.served /\ p.fault = "none" /\ ~CaughtAt(p, lost)
                          /\ AllPassed
  <2>. SUFFICES ASSUME JudgeInv, judged # Nothing
                PROVE  (AllAC => entitled) /\ (entitled /\ AllWithin => AllAC)
    BY DEF AcceptedMeansPassed
  <2>1. /\ ProblemInv /\ p \in Written /\ lost \in Losses
        /\ judged.codes = IF judged.served THEN CodesOf(p, lost)
                          ELSE [i \in 1 .. HiddenTests |-> "IE"]
    BY DEF JudgeInv, JudgedInv
  <2>. HIDE DEF p, lost
  <2>2. /\ e \in Nat /\ Len(problem.expected) \in Nat /\ e + HiddenTests = Len(problem.expected)
        /\ HiddenTests \in Nat /\ 1 \in 1 .. HiddenTests
    <3>1. /\ problem.examples \in 0 .. Len(problem.expected) - 1
          /\ Len(problem.expected) \in Nat
      BY <2>1, RunsFit
    <3>. QED
      BY <3>1 DEF HiddenTests
  <2>3. /\ CompilationCode(problem, p, lost) # "AC"
        /\ CompilationCode(problem, p, lost) = "none" <=> ~CaughtAt(p, lost) /\ p.fault = "none"
    BY <2>1, CompilesByTheRules
  <2>4. CASE ~judged.served
    <3>1. ~AllAC
      BY <2>1, <2>2, <2>4
    <3>. QED
      BY <2>4, <3>1
  <2>5. CASE judged.served /\ CompilationCode(problem, p, lost) # "none"
    <3>1. ~AllAC
      BY <2>1, <2>2, <2>3, <2>5 DEF CodesOf
    <3>. QED
      BY <2>3, <2>5, <3>1
  <2>6. CASE judged.served /\ CompilationCode(problem, p, lost) = "none"
    <3>1. AllAC <=> \A i \in 1 .. HiddenTests : CodeOfRun(p, e + i) = "AC"
      BY <2>1, <2>6 DEF CodesOf
    <3>2. ASSUME NEW k \in 1 .. Len(problem.expected)
          PROVE  /\ CodeOfRun(p, k) = "AC" => Passes(p.runs[k], problem.expected[k])
                 /\ Passes(p.runs[k], problem.expected[k]) /\ WithinMemory(p.runs[k])
                      => CodeOfRun(p, k) = "AC"
      BY <2>1, PassedTest
    <3>3. /\ \A i \in 1 .. HiddenTests : e + i \in Hidden
          /\ \A k \in Hidden : k \in 1 .. Len(problem.expected) /\ k - e \in 1 .. HiddenTests
                                /\ e + (k - e) = k
      BY <2>2 DEF Hidden
    <3>4. (\A i \in 1 .. HiddenTests : CodeOfRun(p, e + i) = "AC")
            <=> \A k \in Hidden : CodeOfRun(p, k) = "AC"
      <4>. HIDE DEF e
      <4>1. ASSUME \A i \in 1 .. HiddenTests : CodeOfRun(p, e + i) = "AC", NEW k \in Hidden
            PROVE  CodeOfRun(p, k) = "AC"
        <5>1. CodeOfRun(p, e + (k - e)) = "AC"
          BY <3>3, <4>1
        <5>. QED
          BY <3>3, <5>1
      <4>. QED
        BY <3>3, <4>1
    <3>5. /\ (\A k \in Hidden : CodeOfRun(p, k) = "AC") => AllPassed
          /\ AllPassed /\ AllWithin => \A k \in Hidden : CodeOfRun(p, k) = "AC"
      BY <3>2, <3>3
    <3>. QED
      BY <2>3, <2>6, <3>1, <3>4, <3>5
  <2>. QED
    BY <2>4, <2>5, <2>6
<1>. QED
  BY <1>1, JudgeInvHolds, PTL

-----------------------------------------------------------------------------
(* The status of a problem.                                                *)

(* The status after the submissions at the given positions, as findOne()   *)
(* computes it.                                                            *)
StatusOf(subs, s) ==
  IF \E i \in s : subs[i] THEN "Solved" ELSE IF s # {} THEN "Attempted" ELSE "Unattempted"

(* The equation that the fold of findAll() solves.                         *)
Steps(g, subs, D) ==
  g = [s \in SUBSET D |->
         IF s = {} THEN "Unattempted" ELSE CompletionStep(g[s \ {Max(s)}], subs[Max(s)])]

(* One more submission moves the status on.                                *)
LEMMA StepMoves ==
  ASSUME NEW subs, NEW s, s # {}, Max(s) \in s
  PROVE  StatusOf(subs, s) = CompletionStep(StatusOf(subs, s \ {Max(s)}), subs[Max(s)])
BY DEF StatusOf, CompletionStep

LEMMA StatusSolves ==
  ASSUME NEW subs, NEW n \in Nat
  PROVE  Steps([s \in SUBSET (1 .. n) |-> StatusOf(subs, s)], subs, 1 .. n)
<1>. DEFINE D == 1 .. n
            g == [s \in SUBSET D |-> StatusOf(subs, s)]
<1>1. ASSUME NEW s \in SUBSET D
      PROVE  g[s] = IF s = {} THEN "Unattempted"
                    ELSE CompletionStep(g[s \ {Max(s)}], subs[Max(s)])
  <2>1. CASE s = {}
    BY <2>1 DEF StatusOf
  <2>2. CASE s # {}
    <3>1. s \subseteq 0 .. n
      OBVIOUS
    <3>2. Max(s) \in s
      BY <2>2, <3>1, MaxOf
    <3>. QED
      BY <2>2, <3>2, StepMoves
  <2>. QED
    BY <2>1, <2>2
<1>. QED
  BY <1>1 DEF Steps

LEMMA StepsAgree ==
  ASSUME NEW subs, NEW n \in Nat, NEW g, Steps(g, subs, 1 .. n),
         NEW h, Steps(h, subs, 1 .. n), NEW s \in SUBSET (1 .. n)
  PROVE  g[s] = h[s]
<1>. DEFINE D == 1 .. n
            F == {u \in SUBSET D : g[u] # h[u]}
<1>1. CASE F = {}
  BY <1>1
<1>2. CASE F # {}
  <2>1. PICK u \in F : \A v \in F : <<v, u>> \notin StrictSubsetOrdering(D)
    <3>1. F \subseteq FiniteSubsetsOf(D)
      BY FS_Interval, FS_FiniteSubsetsOfFinite
    <3>. HIDE DEF F, D
    <3>. QED
      BY <1>2, <3>1, FS_StrictSubsetOrderingWellFounded, WFMin
  <2>2. u # {} => Max(u) \in u
    <3>1. u \subseteq 0 .. n
      OBVIOUS
    <3>. QED
      BY <3>1, MaxOf
  <2>3. ASSUME u # {} PROVE g[u \ {Max(u)}] = h[u \ {Max(u)}]
    <3>. DEFINE v == u \ {Max(u)}
    <3>1. v \in SUBSET D /\ v \subseteq u /\ v # u /\ u \in SUBSET D
      BY <2>2, <2>3
    <3>2. <<v, u>> \in StrictSubsetOrdering(D)
      <4>. HIDE DEF v, D
      <4>. QED
        BY <3>1 DEF StrictSubsetOrdering
    <3>3. v \notin F
      BY <2>1, <3>2
    <3>. QED
      BY <3>1, <3>3
  <2>4. /\ g[u] = IF u = {} THEN "Unattempted" ELSE CompletionStep(g[u \ {Max(u)}], subs[Max(u)])
        /\ h[u] = IF u = {} THEN "Unattempted" ELSE CompletionStep(h[u \ {Max(u)}], subs[Max(u)])
    BY DEF Steps
  <2>. QED
    BY <2>3, <2>4
<1>. QED
  BY <1>1, <1>2

(* findAll() and findOne() compute the same status from the same           *)
(* submissions, however many there are.                                    *)
LEMMA StatusesAgree ==
  ASSUME NEW subs \in Seq(BOOLEAN)
  PROVE  getCompletionStatuses(subs) = getCompletionStatusOne(subs)
<1>. DEFINE n == Len(subs)
            iter == CHOOSE g : Steps(g, subs, 1 .. n)
<1>1. n \in Nat /\ DOMAIN subs = 1 .. n
  OBVIOUS
<1>2. getCompletionStatuses(subs) = iter[1 .. n]
  BY <1>1 DEF getCompletionStatuses, FoldLeft, MapThenFoldSet, Steps
<1>. HIDE DEF n
<1>3. Steps([s \in SUBSET (1 .. n) |-> StatusOf(subs, s)], subs, 1 .. n)
  BY <1>1, StatusSolves
<1>4. Steps(iter, subs, 1 .. n)
  BY <1>3
<1>5. iter[1 .. n] = StatusOf(subs, 1 .. n)
  <2>. HIDE DEF iter
  <2>. QED
    BY <1>1, <1>3, <1>4, StepsAgree
<1>6. (subs # <<>>) <=> (1 .. n # {})
  <2>1. (subs # <<>>) <=> (n # 0)
    BY DEF n
  <2>2. (n # 0) <=> (1 .. n # {})
    <3>1. n # 0 => 1 \in 1 .. n
      BY <1>1
    <3>2. n = 0 => 1 .. n = {}
      BY <1>1
    <3>. QED
      BY <3>1, <3>2
  <2>. QED
    BY <2>1, <2>2
<1>. HIDE DEF iter
<1>. QED
  BY <1>1, <1>2, <1>5, <1>6 DEF StatusOf, getCompletionStatusOne

(* The invariant of the lists: the status that was read is that of the     *)
(* submissions stored then, and does not go back when more are stored.     *)
StatusBy(subs) == getCompletionStatusOne(subs)

SubmissionsTyped == submissions \in Seq(BOOLEAN)
ListingInv ==
  listing # NoList =>
    /\ listing.filter \in Statuses /\ listing.status \in Statuses
    /\ listing.stored \in 0 .. Len(submissions)
    /\ listing.stored = Len(submissions) => listing.status = StatusBy(submissions)
    /\ Progress[listing.status] <= Progress[StatusBy(submissions)]
ListedInv ==
  listed # NoList =>
    /\ listed.alone => (listed.shown <=> listed.status = listed.filter)
    /\ listed.shown => Progress[listed.status] <= Progress[listed.filter]
ListsInv == problem \in Problems /\ SubmissionsTyped /\ ListingInv /\ ListedInv

LEMMA StatusType ==
  ASSUME NEW subs
  PROVE  StatusBy(subs) \in Statuses
BY DEF StatusBy, getCompletionStatusOne, Statuses

LEMMA ProgressType == \A s \in Statuses : Progress[s] \in Nat
BY DEF Statuses, Progress

(* The filter of the list selects by the status that findOne() computes.   *)
LEMMA SelectsByStatus ==
  ASSUME NEW subs \in Seq(BOOLEAN), NEW f \in Statuses
  PROVE  Selects(f, subs) <=> StatusBy(subs) = f
<1>1. (\E i \in DOMAIN subs : subs[i]) => subs # <<>>
  OBVIOUS
<1>. QED
  BY <1>1 DEF Selects, StatusBy, getCompletionStatusOne, Statuses

(* Storing a submission never moves the status back.                       *)
LEMMA StoringMovesOn ==
  ASSUME NEW subs \in Seq(BOOLEAN), NEW accepted \in BOOLEAN
  PROVE  /\ Append(subs, accepted) \in Seq(BOOLEAN)
         /\ Len(Append(subs, accepted)) = Len(subs) + 1
         /\ Progress[StatusBy(subs)] <= Progress[StatusBy(Append(subs, accepted))]
<1>. DEFINE more == Append(subs, accepted)
<1>1. /\ more \in Seq(BOOLEAN) /\ Len(more) = Len(subs) + 1 /\ Len(subs) \in Nat
      /\ DOMAIN subs = 1 .. Len(subs) /\ DOMAIN more = 1 .. Len(subs) + 1
      /\ \A i \in 1 .. Len(subs) : more[i] = subs[i]
  OBVIOUS
<1>. HIDE DEF more
<1>2. more # <<>>
  BY <1>1
<1>3. \A i \in DOMAIN subs : i \in DOMAIN more /\ more[i] = subs[i]
  BY <1>1
<1>4. Progress[StatusBy(subs)] <= Progress[StatusBy(more)]
  BY <1>2, <1>3 DEF StatusBy, getCompletionStatusOne, Progress
<1>. QED
  BY <1>1, <1>4 DEF more

LEMMA NextListsInv == ListsInv /\ [JudgeNext]_judgeVars => ListsInv'
<1>. SUFFICES ASSUME ListsInv, [JudgeNext]_judgeVars PROVE ListsInv'
  OBVIOUS
<1>1. problem' = problem
  BY DEF JudgeNext, VerifySolution, SubmitProgram, ServiceAnswers, ServiceFails, VerifyEnds, SubmitEnds,
     ListBegins, ListEnds, judgeVars
<1>2. CASE UNCHANGED <<submissions, lists>>
  BY <1>1, <1>2 DEF ListsInv, SubmissionsTyped, ListingInv, ListedInv, StatusBy,
     getCompletionStatusOne, lists
<1>3. CASE SubmitEnds
  <2>. DEFINE accepted == \A i \in DOMAIN runTestcases : runTestcases[i] = "AC"
  <2>1. submissions' = Append(submissions, accepted) /\ accepted \in BOOLEAN
        /\ listing' = listing /\ listed' = listed
    BY <1>3 DEF SubmitEnds, lists
  <2>. HIDE DEF accepted
  <2>2. /\ submissions' \in Seq(BOOLEAN)
        /\ Len(submissions') = Len(submissions) + 1
        /\ Progress[StatusBy(submissions)] <= Progress[StatusBy(submissions')]
    BY <2>1, StoringMovesOn DEF ListsInv, SubmissionsTyped
  <2>3. Len(submissions) \in Nat
    BY DEF ListsInv, SubmissionsTyped
  <2>4. ListingInv'
    <3>. SUFFICES ASSUME listing # NoList
                  PROVE  /\ listing.stored \in 0 .. Len(submissions')
                         /\ listing.stored # Len(submissions')
                         /\ Progress[listing.status] <= Progress[StatusBy(submissions')]
      BY <2>1 DEF ListsInv, ListingInv, StatusBy, getCompletionStatusOne
    <3>1. /\ listing.status \in Statuses /\ listing.stored \in 0 .. Len(submissions)
          /\ Progress[listing.status] <= Progress[StatusBy(submissions)]
      BY DEF ListsInv, ListingInv
    <3>2. /\ Progress[listing.status] \in Nat /\ Progress[StatusBy(submissions)] \in Nat
          /\ Progress[StatusBy(submissions')] \in Nat
      BY <3>1, StatusType, ProgressType
    <3>. QED
      BY <2>2, <2>3, <3>1, <3>2
  <2>. QED
    BY <1>1, <2>1, <2>2, <2>4 DEF ListsInv, SubmissionsTyped, ListedInv
<1>4. CASE \E f \in Filters(problem) : ListBegins(f)
  <2>1. PICK f \in Filters(problem) : ListBegins(f)
    BY <1>4
  <2>2. f \in Statuses
    BY ProblemsAssumption DEF ListsInv
  <2>3. getCompletionStatuses(submissions) = StatusBy(submissions)
    BY StatusesAgree DEF ListsInv, SubmissionsTyped, StatusBy
  <2>4. /\ listing' = [filter |-> f, status |-> StatusBy(submissions), stored |-> Len(submissions)]
        /\ submissions' = submissions /\ listed' = listed
    BY <2>1, <2>3 DEF ListBegins
  <2>5. Len(submissions) \in Nat
    BY DEF ListsInv, SubmissionsTyped
  <2>6. StatusBy(submissions) \in Statuses /\ Progress[StatusBy(submissions)] \in Nat
    BY StatusType, ProgressType
  <2>7. StatusBy(submissions)' = StatusBy(submissions)
    BY <2>4 DEF StatusBy, getCompletionStatusOne
  <2>8. ListingInv'
    BY <2>2, <2>4, <2>5, <2>6, <2>7 DEF ListingInv
  <2>. QED
    BY <1>1, <2>4, <2>8 DEF ListsInv, SubmissionsTyped, ListedInv
<1>5. CASE ListEnds
  <2>1. /\ listing # NoList /\ listing' = NoList /\ submissions' = submissions
        /\ listed' = [filter |-> listing.filter, status |-> listing.status,
                      shown |-> Selects(listing.filter, submissions),
                      alone |-> listing.stored = Len(submissions)]
    BY <1>5 DEF ListEnds
  <2>2. /\ listing.filter \in Statuses
        /\ listing.stored = Len(submissions) => listing.status = StatusBy(submissions)
        /\ Progress[listing.status] <= Progress[StatusBy(submissions)]
    BY <2>1 DEF ListsInv, ListingInv
  <2>3. Selects(listing.filter, submissions) <=> StatusBy(submissions) = listing.filter
    BY <2>2, SelectsByStatus DEF ListsInv, SubmissionsTyped
  <2>4. ListedInv'
    BY <2>1, <2>2, <2>3 DEF ListedInv
  <2>. QED
    BY <1>1, <2>1, <2>4 DEF ListsInv, SubmissionsTyped, ListingInv
<1>. QED
  BY <1>2, <1>3, <1>4, <1>5 DEF JudgeNext, VerifySolution, SubmitProgram, ServiceAnswers, ServiceFails,
     VerifyEnds, judgeVars

(* However submissions come in between, the single problem, the list and   *)
(* its filter agree about what a user has solved (problems.service.ts:133, *)
(* 724 and 741), for any number of submissions.                            *)
THEOREM StatusAgrees == JudgeSpec => []CompletionAgrees
<1>1. JudgeInit => ListsInv
  BY DEF JudgeInit, ListsInv, SubmissionsTyped, ListingInv, ListedInv
<1>2. ListsInv => CompletionAgrees
  BY StatusesAgree DEF ListsInv, SubmissionsTyped, ListedInv, CompletionAgrees
<1>. QED
  BY <1>1, <1>2, NextListsInv, PTL DEF JudgeSpec

=============================================================================
