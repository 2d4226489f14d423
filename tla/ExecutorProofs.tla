--------------------------- MODULE ExecutorProofs ---------------------------
(***************************************************************************)
(* What TLAPS proves of Executor for every number of boxes, every finite   *)
(* set of jobs and every priority.  The inductive invariant is built in    *)
(* layers, each one preserved by the help of those below it:               *)
(*   TypeInv    the types, and that exactly the jobs between pop and push  *)
(*              hold a box;                                                *)
(*   WaitInv    the waiters of the semaphore are queued jobs, each once;   *)
(*   BoxExclusive, GrantHasBox                                             *)
(*   CleanInv   what a job may find in its box and metadata file;          *)
(*   OrderInv   the queue is sorted and every queued job is in it.         *)
(***************************************************************************)
EXTENDS Executor, FiniteSetTheorems, SequenceTheorems, TLAPS

Held == \A j \in Jobs : (pc[j] \in Holding) <=> (box[j] # NoBox)
TypeInv == TypeOK /\ Held

(* The steps of execute() between the pop and the push of its box.         *)
InBox(j) ==
  \/ InitSucceeds(j) \/ InitFails(j)
  \/ PrepareSucceeds(j) \/ PrepareFails(j)
  \/ RunEnds(j) \/ RunRejected(j) \/ RunTimesOut(j)
  \/ Collect(j)

OutsideStep(b) == StuckWorks(b) \/ StuckEnds(b)

-----------------------------------------------------------------------------
(* Shape of the next-state relation, for the case splits below.            *)
LEMMA StepCases ==
  ASSUME [Next]_vars
  PROVE  \/ \E j \in Jobs : AcquireAtOnce(j)
         \/ \E j \in Jobs : AcquireWaits(j)
         \/ \E j \in Jobs : PopBox(j)
         \/ \E j \in Jobs : InBox(j)
         \/ \E j \in Jobs : Cleanup(j)
         \/ \E b \in Boxes : OutsideStep(b)
         \/ UNCHANGED vars
BY DEF Next, Acquire, Advance, AllServed, InBox, OutsideStep

(* A step inside a box touches neither the pool nor who holds which box.   *)
LEMMA InBoxEffect ==
  ASSUME NEW j \in Jobs, InBox(j)
  PROVE  /\ UNCHANGED <<pool, box>>
         /\ pc[j] \in Holding
         /\ \E p \in Holding : pc' = [pc EXCEPT ![j] = p]
BY DEF InBox, InitSucceeds, InitFails, PrepareSucceeds, PrepareFails, RunEnds,
       RunRejected, RunTimesOut, Collect, Continue, Throw, Holding

(* It keeps the types of what it changes on the disk and in the results.   *)
LEMMA InBoxType ==
  ASSUME TypeInv, NEW j \in Jobs, InBox(j)
  PROVE  /\ result' \in [Jobs -> {"none", "ok", "failed"}]
         /\ content' \in [Boxes -> SUBSET Sources]
         /\ metadata' \in [Boxes -> Sources \union {Nobody}]
         /\ stuck' \in [Boxes -> Sources \union {Nobody}]
         /\ seen' \in [Jobs -> SUBSET Sources]
<1>1. box[j] \in Boxes
  BY InBoxEffect DEF TypeInv, TypeOK, Held
<1>. USE DEF Sources
<1>2. CASE InitSucceeds(j)
  BY <1>1, <1>2 DEF InitSucceeds, Continue, Empties, TypeInv, TypeOK
<1>3. CASE InitFails(j)
  BY <1>1, <1>3 DEF InitFails, Throw, Empties, MayLeaveProcess, TypeInv, TypeOK
<1>4. CASE PrepareSucceeds(j)
  BY <1>1, <1>4 DEF PrepareSucceeds, Continue, Writes, TypeInv, TypeOK
<1>5. CASE PrepareFails(j)
  BY <1>1, <1>5 DEF PrepareFails, Throw, Writes, TypeInv, TypeOK
<1>6. CASE RunEnds(j)
  BY <1>1, <1>6 DEF RunEnds, Continue, Writes, TypeInv, TypeOK
<1>7. CASE RunRejected(j)
  BY <1>1, <1>7 DEF RunRejected, Continue, disk, TypeInv, TypeOK
<1>8. CASE RunTimesOut(j)
  <2>1. content' \in [Boxes -> SUBSET Sources] /\ seen' = seen
    BY <1>1, <1>8 DEF RunTimesOut, Throw, Writes, TypeInv, TypeOK
  <2>2. result' \in [Jobs -> {"none", "ok", "failed"}]
    BY <1>8 DEF RunTimesOut, Throw, TypeInv, TypeOK
  <2>3. metadata' = metadata \/ metadata' = [metadata EXCEPT ![box[j]] = j]
    BY <1>8 DEF RunTimesOut
  <2>4. metadata' \in [Boxes -> Sources \union {Nobody}]
    BY <1>1, <2>3 DEF TypeInv, TypeOK
  <2>5. stuck' = stuck \/ stuck' = [stuck EXCEPT ![box[j]] = j]
    BY <1>8 DEF RunTimesOut, MayLeaveProcess
  <2>6. stuck' \in [Boxes -> Sources \union {Nobody}]
    BY <1>1, <2>5 DEF TypeInv, TypeOK
  <2>. QED
    BY <2>1, <2>2, <2>4, <2>6 DEF TypeInv, TypeOK
<1>9. CASE Collect(j)
  <2>1. content[box[j]] \union ({metadata[box[j]]} \ {Nobody}) \subseteq Sources
    BY <1>1 DEF TypeInv, TypeOK
  <2>. QED
    BY <1>1, <1>9, <2>1 DEF Collect, disk, TypeInv, TypeOK
<1>. QED
  BY <1>2, <1>3, <1>4, <1>5, <1>6, <1>7, <1>8, <1>9 DEF InBox

(* Inserting a waiter yields a longer sequence of jobs.                    *)
LEMMA InsertAfterType ==
  ASSUME NEW q \in Seq(Jobs), NEW k \in 0 .. Len(q), NEW j \in Jobs
  PROVE  /\ InsertAfter(q, k, j) \in Seq(Jobs)
         /\ Len(InsertAfter(q, k, j)) = Len(q) + 1
         /\ \A i \in 1 .. Len(q) + 1 :
              InsertAfter(q, k, j)[i] = IF i <= k THEN q[i]
                                        ELSE IF i = k + 1 THEN j ELSE q[i - 1]
BY DEF InsertAfter

(* Inserting a new waiter among distinct ones leaves them distinct.        *)
LEMMA InsertAfterDistinct ==
  ASSUME NEW q \in Seq(Jobs), NEW k \in 0 .. Len(q), NEW j \in Jobs,
         \A i, l \in 1 .. Len(q) : q[i] = q[l] => i = l,
         \A i \in 1 .. Len(q) : q[i] # j,
         NEW n \in 1 .. Len(InsertAfter(q, k, j)),
         NEW m \in 1 .. Len(InsertAfter(q, k, j)),
         InsertAfter(q, k, j)[n] = InsertAfter(q, k, j)[m]
  PROVE  n = m
<1>. DEFINE s == InsertAfter(q, k, j)
<1>1. ASSUME NEW i \in 1 .. Len(s)
      PROVE  \/ i <= k /\ i \in 1 .. Len(q) /\ s[i] = q[i]
             \/ i = k + 1 /\ s[i] = j
             \/ i > k + 1 /\ i - 1 \in 1 .. Len(q) /\ s[i] = q[i - 1]
  <2>1. /\ Len(s) = Len(q) + 1
        /\ s[i] = IF i <= k THEN q[i] ELSE IF i = k + 1 THEN j ELSE q[i - 1]
    BY InsertAfterType
  <2>. HIDE DEF s
  <2>. QED
    BY <2>1
<1>. HIDE DEF s
<1>2. n \in 1 .. Len(s) /\ m \in 1 .. Len(s) /\ s[n] = s[m]
  BY DEF s
<1>3. /\ \/ n <= k /\ n \in 1 .. Len(q) /\ s[n] = q[n]
         \/ n = k + 1 /\ s[n] = j
         \/ n > k + 1 /\ n - 1 \in 1 .. Len(q) /\ s[n] = q[n - 1]
      /\ \/ m <= k /\ m \in 1 .. Len(q) /\ s[m] = q[m]
         \/ m = k + 1 /\ s[m] = j
         \/ m > k + 1 /\ m - 1 \in 1 .. Len(q) /\ s[m] = q[m - 1]
  BY <1>1, <1>2
<1>4. n \in Int /\ m \in Int /\ k \in Int
  BY <1>2
<1>5. CASE n = k + 1
  <2>1. s[m] = j
    BY <1>2, <1>3, <1>4, <1>5
  <2>. QED
    BY <1>3, <1>4, <1>5, <2>1
<1>6. CASE m = k + 1
  <2>1. s[n] = j
    BY <1>2, <1>3, <1>4, <1>6
  <2>. QED
    BY <1>3, <1>4, <1>6, <2>1
<1>7. CASE n # k + 1 /\ m # k + 1
  <2>. DEFINE a == IF n <= k THEN n ELSE n - 1
              b == IF m <= k THEN m ELSE m - 1
  <2>1. a \in 1 .. Len(q) /\ b \in 1 .. Len(q) /\ q[a] = q[b]
    BY <1>2, <1>3, <1>4, <1>7
  <2>2. a = b
    <3>. HIDE DEF a, b
    <3>. QED
      BY <2>1
  <2>. QED
    BY <1>3, <1>4, <1>7, <2>2
<1>. QED
  BY <1>5, <1>6, <1>7

(* Dropping the first element renumbers the others.                        *)
LEMMA TailElements ==
  ASSUME NEW q \in Seq(Jobs), q # <<>>
  PROVE  /\ Len(Tail(q)) = Len(q) - 1
         /\ \A i \in 1 .. Len(Tail(q)) : i + 1 \in 1 .. Len(q) /\ Tail(q)[i] = q[i + 1]
         /\ Head(q) = q[1] /\ 1 \in 1 .. Len(q)
OBVIOUS

(* Dropping the last element keeps the others where they are.              *)
LEMMA FrontElements ==
  ASSUME NEW S, NEW q \in Seq(S), q # <<>>
  PROVE  /\ Len(q) \in 1 .. Len(q)
         /\ Len(SubSeq(q, 1, Len(q) - 1)) = Len(q) - 1
         /\ \A i \in 1 .. Len(q) - 1 :
              i \in 1 .. Len(q) /\ i # Len(q) /\ SubSeq(q, 1, Len(q) - 1)[i] = q[i]
<1>. DEFINE n == Len(q)
            t == SubSeq(q, 1, n - 1)
<1>1. n \in Nat /\ n # 0 /\ \A i \in 1 .. n - 1 : q[i] \in S
  OBVIOUS
<1>2. /\ Len(t) = IF 1 <= n - 1 THEN n - 1 - 1 + 1 ELSE 0
      /\ \A i \in 1 .. n - 1 - 1 + 1 : t[i] = q[1 + i - 1]
  <2>1. n - 1 \in Int /\ 1 \in Int
    BY <1>1
  <2>. HIDE DEF n
  <2>. QED
    BY <1>1, <2>1, SubSeqProperties
<1>. HIDE DEF n, t
<1>3. Len(t) = n - 1
  BY <1>1, <1>2
<1>4. ASSUME NEW i \in 1 .. n - 1
      PROVE  i \in 1 .. n /\ i # n /\ t[i] = q[i]
  <2>1. i \in 1 .. n - 1 - 1 + 1 /\ 1 + i - 1 = i
    BY <1>1
  <2>. QED
    BY <1>1, <1>2, <2>1
<1>5. n \in 1 .. n
  BY <1>1
<1>. QED
  BY <1>3, <1>4, <1>5 DEF n, t

-----------------------------------------------------------------------------
(* First layer: types, and who holds a box.                                *)

LEMMA InitTypeInv == Init => TypeInv
<1>. SUFFICES ASSUME Init PROVE TypeInv
  OBVIOUS
<1>1. permits \in Nat /\ queue \in Seq(Jobs)
  BY BoxCountAssumption DEF Init
<1>2. availableBoxes \in Seq(Boxes)
  <2>1. availableBoxes \in [1 .. BoxCount -> Boxes]
    BY BoxCountAssumption DEF Init, Boxes
  <2>. QED
    BY <2>1, BoxCountAssumption
<1>3. /\ content \in [Boxes -> SUBSET Sources]
      /\ metadata \in [Boxes -> Sources \union {Nobody}]
      /\ stuck \in [Boxes -> Sources \union {Nobody}]
  BY DEF Init, Sources
<1>. QED
  BY <1>1, <1>2, <1>3 DEF Init, TypeInv, TypeOK, Held, PC, Holding

LEMMA ReleaseType ==
  ASSUME TypeInv, NEW j \in Jobs, pc[j] = "cleanup", Release(j)
  PROVE  /\ permits' \in Nat
         /\ queue' \in Seq(Jobs)
         /\ pc' \in [Jobs -> PC]
<1>1. CASE queue = <<>>
  BY <1>1 DEF Release, GiveBack, HandOver, TypeInv, TypeOK, PC
<1>2. CASE queue # <<>>
  <2>1. Head(queue) \in Jobs /\ Tail(queue) \in Seq(Jobs)
    BY <1>2 DEF TypeInv, TypeOK
  <2>. QED
    BY <1>2, <2>1 DEF Release, GiveBack, HandOver, TypeInv, TypeOK, PC
<1>. QED
  BY <1>1, <1>2

(* The waiters of the semaphore: each is a queued job and waits once, and  *)
(* nobody waits while a permit is free.                                    *)
WaitersQueued == \A i \in 1 .. Len(queue) : pc[queue[i]] = "queued"
WaitOnce == \A i, l \in 1 .. Len(queue) : queue[i] = queue[l] => i = l
WaitInv == WaitersQueued /\ WaitOnce /\ NoIdlePermit

LEMMA NextTypeInv == TypeInv /\ WaitInv /\ [Next]_vars => TypeInv'
<1>. SUFFICES ASSUME TypeInv, WaitInv, [Next]_vars PROVE TypeInv'
  OBVIOUS
<1>1. CASE \E j \in Jobs : AcquireAtOnce(j)
  <2>. PICK j \in Jobs : AcquireAtOnce(j)
    BY <1>1
  <2>. QED
    BY DEF AcquireAtOnce, TakePermit, CanPass, disk, TypeInv, TypeOK, Held, PC, Holding
<1>2. CASE \E j \in Jobs : AcquireWaits(j)
  <2>. PICK j \in Jobs : AcquireWaits(j)
    BY <1>2
  <2>1. queue' \in Seq(Jobs)
    BY InsertAfterType DEF AcquireWaits, Enqueue, CanPass, TypeInv, TypeOK
  <2>. QED
    BY <2>1 DEF AcquireWaits, Enqueue, CanPass, disk, TypeInv, TypeOK, Held, PC, Holding
<1>3. CASE \E j \in Jobs : PopBox(j)
  <2>. PICK j \in Jobs : PopBox(j)
    BY <1>3
  <2>1. /\ availableBoxes' \in Seq(Boxes)
        /\ availableBoxes[Len(availableBoxes)] \in Boxes
    BY DEF PopBox, TypeInv, TypeOK
  <2>2. NoBox \notin Boxes
    BY BoxCountAssumption DEF NoBox, Boxes
  <2>. QED
    BY <2>1, <2>2 DEF PopBox, disk, TypeInv, TypeOK, Held, PC, Holding
<1>4. CASE \E j \in Jobs : InBox(j)
  <2>. PICK j \in Jobs : InBox(j)
    BY <1>4
  <2>1. PICK p \in Holding : pc' = [pc EXCEPT ![j] = p]
    BY InBoxEffect
  <2>2. pc' \in [Jobs -> PC]
    BY <2>1 DEF TypeInv, TypeOK, PC, Holding
  <2>3. Held'
    BY <2>1, InBoxEffect DEF TypeInv, TypeOK, Held
  <2>. QED
    BY <2>2, <2>3, InBoxEffect, InBoxType DEF pool, TypeInv, TypeOK
<1>5. CASE \E j \in Jobs : Cleanup(j)
  <2>. PICK j \in Jobs : Cleanup(j)
    BY <1>5
  <2>1. box[j] \in Boxes
    BY DEF Cleanup, TypeInv, TypeOK, Held, Holding
  <2>2. /\ permits' \in Nat /\ queue' \in Seq(Jobs) /\ pc' \in [Jobs -> PC]
    BY ReleaseType DEF Cleanup
  <2>3. /\ availableBoxes' \in Seq(Boxes)
        /\ box' \in [Jobs -> Boxes \union {NoBox}]
        /\ result' = result /\ seen' = seen
    BY <2>1 DEF Cleanup, TypeInv, TypeOK
  <2>4. /\ content' \in [Boxes -> SUBSET Sources]
        /\ metadata' \in [Boxes -> Sources \union {Nobody}]
        /\ stuck' \in [Boxes -> Sources \union {Nobody}]
    BY <2>1 DEF Cleanup, Empties, MayLeaveProcess, TypeInv, TypeOK, Sources
  <2>5. Held'
    <3>1. box' = [box EXCEPT ![j] = NoBox]
      BY DEF Cleanup
    <3>2. CASE queue = <<>>
      BY <3>1, <3>2 DEF Cleanup, Release, GiveBack, HandOver, TypeInv, TypeOK, Held, Holding
    <3>3. CASE queue # <<>>
      <4>1. Head(queue) \in Jobs /\ pc[Head(queue)] = "queued"
        BY <3>3 DEF TypeInv, TypeOK, WaitInv, WaitersQueued
      <4>2. pc' = [pc EXCEPT ![j] = "done", ![Head(queue)] = "granted"]
        BY <3>3 DEF Cleanup, Release, GiveBack, HandOver
      <4>. QED
        BY <3>1, <4>1, <4>2 DEF Cleanup, TypeInv, TypeOK, Held, Holding
    <3>. QED
      BY <3>2, <3>3
  <2>. QED
    BY <2>2, <2>3, <2>4, <2>5 DEF TypeInv, TypeOK
<1>6. CASE \E b \in Boxes : OutsideStep(b)
  BY <1>6 DEF OutsideStep, StuckWorks, StuckEnds, pool, TypeInv, TypeOK, Held
<1>7. CASE UNCHANGED vars
  BY <1>7 DEF vars, pool, disk, TypeInv, TypeOK, Held
<1>. QED
  BY <1>1, <1>2, <1>3, <1>4, <1>5, <1>6, <1>7, StepCases

-----------------------------------------------------------------------------
(* Second layer: the waiters of the semaphore.                             *)

LEMMA InitWaitInv == Init => WaitInv
BY DEF Init, WaitInv, WaitersQueued, WaitOnce, NoIdlePermit

LEMMA NextWaitInv == TypeInv /\ WaitInv /\ [Next]_vars => WaitInv'
<1>. SUFFICES ASSUME TypeInv, WaitInv, [Next]_vars PROVE WaitInv'
  OBVIOUS
<1>q. queue \in Seq(Jobs)
  BY DEF TypeInv, TypeOK
<1>. USE DEF WaitInv, WaitersQueued, WaitOnce, NoIdlePermit
<1>0. \A i \in 1 .. Len(queue) : queue[i] \in Jobs
  BY DEF TypeInv, TypeOK
<1>1. CASE \E j \in Jobs : AcquireAtOnce(j)
  BY <1>0, <1>1 DEF AcquireAtOnce, TakePermit, CanPass, TypeInv, TypeOK
<1>2. CASE \E j \in Jobs : AcquireWaits(j)
  <2>1. PICK j \in Jobs : AcquireWaits(j)
    BY <1>2
  <2>2. PICK k \in 0 .. Len(queue) : queue' = InsertAfter(queue, k, j)
    BY <2>1 DEF AcquireWaits, Enqueue, CanPass
  <2>3. /\ Len(queue') = Len(queue) + 1
        /\ \A i \in 1 .. Len(queue) + 1 :
             queue'[i] = IF i <= k THEN queue[i]
                         ELSE IF i = k + 1 THEN j ELSE queue[i - 1]
    <3>. DEFINE s == InsertAfter(queue, k, j)
    <3>1. /\ Len(s) = Len(queue) + 1
          /\ \A i \in 1 .. Len(queue) + 1 :
               s[i] = IF i <= k THEN queue[i] ELSE IF i = k + 1 THEN j ELSE queue[i - 1]
      BY <1>q, InsertAfterType
    <3>. QED
      BY <2>2, <3>1
  <2>4. pc' = [pc EXCEPT ![j] = "queued"] /\ pc[j] = "idle"
    BY <2>1 DEF AcquireWaits, Enqueue, CanPass
  <2>5. WaitersQueued'
    BY <1>0, <2>3, <2>4 DEF TypeInv, TypeOK
  <2>6. \A i \in 1 .. Len(queue) : queue[i] # j
    BY <2>4
  <2>7. WaitOnce'
    BY <2>2, <2>6, InsertAfterDistinct DEF TypeInv, TypeOK
  <2>8. NoIdlePermit'
    <3>1. CASE permits = 0
      BY <2>1, <3>1 DEF AcquireWaits, Enqueue, CanPass
    <3>2. CASE \E i \in 1 .. Len(queue) : Precedes(queue[i], Priority[j])
      BY <2>1, <3>2 DEF AcquireWaits, Enqueue, CanPass, TypeInv, TypeOK
    <3>. QED
      BY <2>1, <3>1, <3>2 DEF AcquireWaits, Enqueue, CanPass, TypeInv, TypeOK
  <2>. QED
    BY <2>5, <2>7, <2>8
<1>3. CASE \E j \in Jobs : PopBox(j)
  BY <1>0, <1>3 DEF PopBox, TypeInv, TypeOK
<1>4. CASE \E j \in Jobs : InBox(j)
  BY <1>0, <1>4, InBoxEffect DEF pool, Holding, TypeInv, TypeOK
<1>5. CASE \E j \in Jobs : Cleanup(j)
  <2>1. PICK j \in Jobs : Cleanup(j)
    BY <1>5
  <2>2. CASE queue = <<>>
    BY <2>1, <2>2 DEF Cleanup, Release, GiveBack, HandOver
  <2>3. CASE queue # <<>>
    <3>1. /\ Len(queue') = Len(queue) - 1
          /\ \A i \in 1 .. Len(queue') : i + 1 \in 1 .. Len(queue) /\ queue'[i] = queue[i + 1]
          /\ Head(queue) = queue[1] /\ 1 \in 1 .. Len(queue)
      <4>1. queue' = Tail(queue)
        BY <2>1, <2>3 DEF Cleanup, Release, GiveBack, HandOver
      <4>. QED
        BY <1>q, <2>3, <4>1, TailElements
    <3>2. /\ pc' = [pc EXCEPT ![j] = "done", ![Head(queue)] = "granted"]
          /\ permits' = permits
          /\ pc[j] = "cleanup"
      BY <2>1, <2>3 DEF Cleanup, Release, GiveBack, HandOver
    <3>3. WaitOnce'
      BY <3>1 DEF TypeInv, TypeOK
    <3>4. ASSUME NEW i \in 1 .. Len(queue') PROVE pc'[queue'[i]] = "queued"
      <4>1. queue[i + 1] # queue[1]
        BY <3>1 DEF TypeInv, TypeOK
      <4>2. pc[queue[i + 1]] = "queued" /\ queue[i + 1] \in Jobs
        BY <1>0, <3>1
      <4>. QED
        BY <3>1, <3>2, <4>1, <4>2 DEF TypeInv, TypeOK
    <3>. QED
      BY <2>3, <3>2, <3>3, <3>4
  <2>. QED
    BY <2>2, <2>3
<1>6. CASE \E b \in Boxes : OutsideStep(b)
  BY <1>6 DEF OutsideStep, StuckWorks, StuckEnds, pool
<1>7. CASE UNCHANGED vars
  BY <1>7 DEF vars, pool
<1>. QED
  BY <1>1, <1>2, <1>3, <1>4, <1>5, <1>6, <1>7, StepCases

-----------------------------------------------------------------------------
(* Third layer: a box serves one job at a time.                            *)

LEMMA InitBoxExclusive == Init => BoxExclusive
<1>. SUFFICES ASSUME Init PROVE BoxExclusive
  OBVIOUS
<1>1. \A i \in 1 .. Len(availableBoxes) :
        i \in 1 .. BoxCount /\ availableBoxes[i] = i - 1
  BY BoxCountAssumption DEF Init
<1>. QED
  BY <1>1, BoxCountAssumption DEF Init, BoxExclusive, NoBox

LEMMA NextBoxExclusive == TypeInv /\ BoxExclusive /\ [Next]_vars => BoxExclusive'
<1>. SUFFICES ASSUME TypeInv, BoxExclusive, [Next]_vars PROVE BoxExclusive'
  OBVIOUS
<1>b. availableBoxes \in Seq(Boxes)
  BY DEF TypeInv, TypeOK
<1>1. CASE \E j \in Jobs : AcquireAtOnce(j)
  BY <1>1 DEF AcquireAtOnce, TakePermit, CanPass, BoxExclusive
<1>2. CASE \E j \in Jobs : AcquireWaits(j)
  BY <1>2 DEF AcquireWaits, Enqueue, CanPass, BoxExclusive
<1>3. CASE \E j \in Jobs : PopBox(j)
  <2>1. PICK j \in Jobs : PopBox(j)
    BY <1>3
  <2>. DEFINE n == Len(availableBoxes)
  <2>2. /\ n \in 1 .. n
        /\ box' = [box EXCEPT ![j] = availableBoxes[n]]
        /\ Len(availableBoxes') = n - 1
        /\ \A i \in 1 .. Len(availableBoxes') :
             i \in 1 .. n /\ i # n /\ availableBoxes'[i] = availableBoxes[i]
    <3>1. /\ availableBoxes # <<>>
          /\ availableBoxes' = SubSeq(availableBoxes, 1, Len(availableBoxes) - 1)
          /\ box' = [box EXCEPT ![j] = availableBoxes[n]]
      BY <2>1 DEF PopBox
    <3>. QED
      BY <1>b, <3>1, FrontElements
  <2>3. \A k \in Jobs : box[k] # availableBoxes[n]
    BY <2>2 DEF BoxExclusive
  <2>. HIDE DEF n
  <2>4. ASSUME NEW k \in Jobs, NEW l \in Jobs, k # l, box'[k] = box'[l]
        PROVE  box'[k] = NoBox
    BY <2>2, <2>3, <2>4 DEF BoxExclusive, TypeInv, TypeOK
  <2>5. ASSUME NEW i \in 1 .. Len(availableBoxes'), NEW k \in Jobs
        PROVE  box'[k] # availableBoxes'[i]
    BY <2>2 DEF BoxExclusive, TypeInv, TypeOK, n
  <2>6. ASSUME NEW i \in 1 .. Len(availableBoxes'), NEW l \in 1 .. Len(availableBoxes'),
               availableBoxes'[i] = availableBoxes'[l]
        PROVE  i = l
    BY <2>2, <2>6 DEF BoxExclusive, n
  <2>. QED
    BY <2>4, <2>5, <2>6 DEF BoxExclusive
<1>4. CASE \E j \in Jobs : InBox(j)
  BY <1>4, InBoxEffect DEF pool, BoxExclusive
<1>5. CASE \E j \in Jobs : Cleanup(j)
  <2>1. PICK j \in Jobs : Cleanup(j)
    BY <1>5
  <2>. DEFINE n == Len(availableBoxes)
  <2>2. box[j] \in Boxes /\ box[j] # NoBox
    BY <2>1 DEF Cleanup, TypeInv, TypeOK, Held, Holding
  <2>3. /\ n \in Nat
        /\ Len(availableBoxes') = n + 1
        /\ availableBoxes'[n + 1] = box[j]
        /\ \A i \in 1 .. n : availableBoxes'[i] = availableBoxes[i]
    BY <1>b, <2>1, <2>2 DEF Cleanup
  <2>4. box' = [box EXCEPT ![j] = NoBox]
    BY <2>1 DEF Cleanup
  <2>5. \A i \in 1 .. n : availableBoxes[i] \in Boxes /\ availableBoxes[i] # box[j]
    BY <1>b DEF BoxExclusive
  <2>6. NoBox \notin Boxes
    BY BoxCountAssumption DEF NoBox, Boxes
  <2>7. ASSUME NEW k \in Jobs, NEW l \in Jobs, k # l, box'[k] = box'[l]
        PROVE  box'[k] = NoBox
    BY <2>4, <2>7 DEF BoxExclusive, TypeInv, TypeOK
  <2>8. ASSUME NEW i \in 1 .. n + 1
        PROVE  i \in 1 .. n \/ i = n + 1
    BY <2>3
  <2>9. ASSUME NEW i \in 1 .. n + 1, NEW k \in Jobs
        PROVE  box'[k] # availableBoxes'[i]
    <3>1. CASE i = n + 1
      BY <2>2, <2>3, <2>4, <3>1 DEF BoxExclusive, TypeInv, TypeOK
    <3>2. CASE i \in 1 .. n
      BY <2>3, <2>4, <2>5, <2>6, <3>2 DEF BoxExclusive, TypeInv, TypeOK
    <3>. QED
      BY <2>8, <3>1, <3>2
  <2>10. ASSUME NEW i \in 1 .. n + 1, NEW l \in 1 .. n + 1,
                availableBoxes'[i] = availableBoxes'[l]
         PROVE  i = l
    BY <2>3, <2>5, <2>8, <2>10 DEF BoxExclusive
  <2>. QED
    BY <2>3, <2>7, <2>9, <2>10 DEF BoxExclusive
<1>6. CASE \E b \in Boxes : OutsideStep(b)
  BY <1>6 DEF OutsideStep, StuckWorks, StuckEnds, pool, BoxExclusive
<1>7. CASE UNCHANGED vars
  BY <1>7 DEF vars, pool, BoxExclusive
<1>. QED
  BY <1>1, <1>2, <1>3, <1>4, <1>5, <1>6, <1>7, StepCases

-----------------------------------------------------------------------------
(* Fourth layer: there is a box on the stack for every permit that is free *)
(* or granted and not yet used.                                            *)

LEMMA GrantedFinite == IsFiniteSet(JobsIn("granted"))
BY JobsAssumption, FS_Subset DEF JobsIn

LEMMA InitGrantHasBox == Init => GrantHasBox
<1>. SUFFICES ASSUME Init PROVE GrantHasBox
  OBVIOUS
<1>1. Len(availableBoxes) = BoxCount /\ permits = BoxCount
  BY BoxCountAssumption DEF Init
<1>2. JobsIn("granted") = {}
  BY DEF Init, JobsIn
<1>. QED
  BY <1>1, <1>2, FS_EmptySet, BoxCountAssumption DEF GrantHasBox

LEMMA NextGrantHasBox ==
  TypeInv /\ WaitInv /\ GrantHasBox /\ [Next]_vars => GrantHasBox'
<1>. SUFFICES ASSUME TypeInv, WaitInv, GrantHasBox, [Next]_vars PROVE GrantHasBox'
  OBVIOUS
<1>. DEFINE G == JobsIn("granted")
<1>g. IsFiniteSet(G) /\ Cardinality(G) \in Nat /\ G \subseteq Jobs
  BY GrantedFinite, FS_CardinalityType DEF JobsIn
<1>t. availableBoxes \in Seq(Boxes) /\ permits \in Nat /\ Len(availableBoxes) \in Nat
  BY DEF TypeInv, TypeOK
<1>h. Len(availableBoxes) = permits + Cardinality(G)
  BY DEF GrantHasBox
<1>. SUFFICES Len(availableBoxes') = permits' + Cardinality(G')
  BY DEF GrantHasBox
<1>1. CASE \E j \in Jobs : AcquireAtOnce(j)
  <2>1. PICK j \in Jobs : AcquireAtOnce(j)
    BY <1>1
  <2>2. j \notin G /\ G' = G \union {j}
    BY <2>1 DEF AcquireAtOnce, TakePermit, CanPass, JobsIn, TypeInv, TypeOK
  <2>3. permits' = permits - 1 /\ availableBoxes' = availableBoxes
    BY <2>1 DEF AcquireAtOnce, TakePermit, CanPass
  <2>4. Cardinality(G') = Cardinality(G) + 1
    BY <1>g, <2>2, FS_AddElement
  <2>. QED
    BY <1>g, <1>t, <1>h, <2>3, <2>4
<1>2. CASE \E j \in Jobs : AcquireWaits(j)
  <2>1. G' = G
    BY <1>2 DEF AcquireWaits, Enqueue, CanPass, JobsIn, TypeInv, TypeOK
  <2>. QED
    BY <1>2, <1>h, <2>1 DEF AcquireWaits, Enqueue, CanPass
<1>3. CASE \E j \in Jobs : PopBox(j)
  <2>1. PICK j \in Jobs : PopBox(j)
    BY <1>3
  <2>2. j \in G /\ G' = G \ {j}
    BY <2>1 DEF PopBox, JobsIn, TypeInv, TypeOK
  <2>3. /\ permits' = permits
        /\ availableBoxes # <<>>
        /\ availableBoxes' = SubSeq(availableBoxes, 1, Len(availableBoxes) - 1)
    BY <2>1 DEF PopBox
  <2>4. Len(availableBoxes') = Len(availableBoxes) - 1
    BY <1>t, <2>3, FrontElements
  <2>5. Cardinality(G') = Cardinality(G) - 1
    BY <1>g, <2>2, FS_RemoveElement
  <2>. QED
    BY <1>g, <1>t, <1>h, <2>3, <2>4, <2>5
<1>4. CASE \E j \in Jobs : InBox(j)
  <2>1. PICK j \in Jobs : InBox(j)
    BY <1>4
  <2>2. G' = G
    BY <2>1, InBoxEffect DEF JobsIn, Holding, TypeInv, TypeOK
  <2>. QED
    BY <1>h, <2>1, <2>2, InBoxEffect DEF pool
<1>5. CASE \E j \in Jobs : Cleanup(j)
  <2>1. PICK j \in Jobs : Cleanup(j)
    BY <1>5
  <2>2. Len(availableBoxes') = Len(availableBoxes) + 1
    BY <1>t, <2>1 DEF Cleanup, TypeInv, TypeOK, Held, Holding
  <2>3. CASE queue = <<>>
    <3>1. permits' = permits + 1
      BY <2>1, <2>3 DEF Cleanup, Release, GiveBack, HandOver
    <3>2. G' = G
      BY <2>1, <2>3 DEF Cleanup, Release, GiveBack, HandOver, JobsIn, TypeInv, TypeOK
    <3>. QED
      BY <1>g, <1>t, <1>h, <2>2, <3>1, <3>2
  <2>4. CASE queue # <<>>
    <3>1. Head(queue) \in Jobs /\ pc[Head(queue)] = "queued"
      BY <2>4 DEF TypeInv, TypeOK, WaitInv, WaitersQueued
    <3>2. /\ pc' = [pc EXCEPT ![j] = "done", ![Head(queue)] = "granted"]
          /\ permits' = permits
          /\ pc[j] = "cleanup"
      BY <2>1, <2>4 DEF Cleanup, Release, GiveBack, HandOver
    <3>3. Head(queue) \notin G /\ G' = G \union {Head(queue)}
      BY <3>1, <3>2 DEF JobsIn, TypeInv, TypeOK
    <3>4. Cardinality(G') = Cardinality(G) + 1
      BY <1>g, <3>3, FS_AddElement
    <3>. QED
      BY <1>g, <1>t, <1>h, <2>2, <3>2, <3>4
  <2>. QED
    BY <2>3, <2>4
<1>6. CASE \E b \in Boxes : OutsideStep(b)
  BY <1>6, <1>h DEF OutsideStep, StuckWorks, StuckEnds, pool, JobsIn
<1>7. CASE UNCHANGED vars
  BY <1>7, <1>h DEF vars, pool, JobsIn
<1>. QED
  BY <1>1, <1>2, <1>3, <1>4, <1>5, <1>6, <1>7, StepCases

-----------------------------------------------------------------------------
(* Fifth layer: what a job finds in its box and in its metadata file.      *)

(* From a successful --init on, the box is not in use by a leftover        *)
(* process and holds files of its own job only.                            *)
CleanBox ==
  \A j \in Jobs : pc[j] \in {"prepare", "run", "collect"} =>
    content[box[j]] \subseteq {j} /\ stuck[box[j]] = Nobody

(* The metadata file does not exist before the job's own run, unless it is *)
(* a remainder of a former process.                                        *)
CleanMetadata ==
  /\ \A j \in Jobs :
       pc[j] \in {"init", "prepare", "run"} => metadata[box[j]] \in {Nobody, box[j]}
  /\ \A j \in Jobs : pc[j] = "collect" => metadata[box[j]] \in {Nobody, j, box[j]}
  /\ \A i \in 1 .. Len(availableBoxes) :
       metadata[availableBoxes[i]] \in {Nobody, availableBoxes[i]}

(* A job that has taken such a remainder for its own still holds the box   *)
(* while the file is there: it is going to remove it.                      *)
RemainsTakenOnce ==
  \A j \in Jobs : \A b \in Boxes : b \in seen[j] /\ metadata[b] = b => box[j] = b

CleanInv == CleanBox /\ CleanMetadata /\ RemainsTakenOnce /\ OwnResult

LEMMA InitCleanInv == Init => CleanInv
<1>. SUFFICES ASSUME Init PROVE CleanInv
  OBVIOUS
<1>1. \A i \in 1 .. Len(availableBoxes) : availableBoxes[i] \in Boxes
  BY BoxCountAssumption DEF Init, Boxes
<1>2. CleanMetadata
  BY <1>1 DEF Init, CleanMetadata
<1>. QED
  BY <1>2 DEF Init, CleanInv, CleanBox, RemainsTakenOnce, OwnResult

(* Jobs are no boxes, and no box is nobody.                                *)
LEMMA SourcesDiffer ==
  /\ \A j \in Jobs : j \notin Boxes /\ j # Nobody
  /\ Nobody \notin Boxes
BY JobsAssumption, BoxCountAssumption DEF Boxes

(* A step of job j leaves the disk of every other box as it is.            *)
LEMMA InBoxFrame ==
  ASSUME TypeInv, NEW j \in Jobs, InBox(j), NEW b \in Boxes, b # box[j]
  PROVE  content'[b] = content[b] /\ metadata'[b] = metadata[b] /\ stuck'[b] = stuck[b]
<1>1. box[j] \in Boxes
  BY InBoxEffect DEF TypeInv, TypeOK, Held
<1>. QED
  BY <1>1 DEF InBox, InitSucceeds, InitFails, PrepareSucceeds, PrepareFails, RunEnds,
     RunRejected, RunTimesOut, Collect, Continue, Throw, Writes, Empties,
     MayLeaveProcess, disk, TypeInv, TypeOK

(* What a step leaves in the job's own box.                                *)
CleanFor(j) ==
  /\ pc[j] \in {"prepare", "run", "collect"} =>
       content[box[j]] \subseteq {j} /\ stuck[box[j]] = Nobody
  /\ pc[j] \in {"init", "prepare", "run"} => metadata[box[j]] \in {Nobody, box[j]}
  /\ pc[j] = "collect" => metadata[box[j]] \in {Nobody, j, box[j]}

LEMMA InBoxClean ==
  ASSUME TypeInv, CleanInv, NEW j \in Jobs, InBox(j)
  PROVE  CleanFor(j)'
<1>1. box[j] \in Boxes /\ box' = box
  BY InBoxEffect DEF TypeInv, TypeOK, Held
<1>c. CleanFor(j)
  BY DEF CleanInv, CleanBox, CleanMetadata, CleanFor
<1>. USE DEF CleanFor
<1>2. CASE InitSucceeds(j)
  BY <1>1, <1>c, <1>2 DEF InitSucceeds, Continue, Empties, TypeInv, TypeOK
<1>3. CASE InitFails(j)
  BY <1>1, <1>c, <1>3 DEF InitFails, Throw, TypeInv, TypeOK
<1>4. CASE PrepareSucceeds(j)
  BY <1>1, <1>c, <1>4 DEF PrepareSucceeds, Continue, Writes, TypeInv, TypeOK
<1>5. CASE PrepareFails(j)
  BY <1>1, <1>c, <1>5 DEF PrepareFails, Throw, TypeInv, TypeOK
<1>6. CASE RunEnds(j)
  BY <1>1, <1>c, <1>6 DEF RunEnds, Continue, Writes, TypeInv, TypeOK
<1>7. CASE RunRejected(j)
  BY <1>1, <1>c, <1>7 DEF RunRejected, Continue, disk, TypeInv, TypeOK
<1>8. CASE RunTimesOut(j)
  BY <1>1, <1>c, <1>8 DEF RunTimesOut, Throw, TypeInv, TypeOK
<1>9. CASE Collect(j)
  BY <1>1, <1>9 DEF Collect, TypeInv, TypeOK
<1>. QED
  BY <1>2, <1>3, <1>4, <1>5, <1>6, <1>7, <1>8, <1>9 DEF InBox

(* What a step in a box takes into a result is the job's own, or what was  *)
(* left in that box.                                                       *)
LEMMA InBoxTakes ==
  ASSUME TypeInv, CleanInv, NEW j \in Jobs, InBox(j)
  PROVE  /\ \A k \in Jobs \ {j} : seen'[k] = seen[k]
         /\ \/ seen' = seen
            \/ /\ seen'[j] \subseteq {j, box[j]}
               /\ box[j] \in seen'[j] => metadata[box[j]] = box[j]
         /\ \A b \in Boxes : metadata'[b] \in {metadata[b], j}
<1>1. box[j] \in Boxes
  BY InBoxEffect DEF TypeInv, TypeOK, Held
<1>2. \A b \in Boxes : metadata'[b] \in {metadata[b], j}
  BY <1>1 DEF InBox, InitSucceeds, InitFails, PrepareSucceeds, PrepareFails, RunEnds,
     RunRejected, RunTimesOut, Collect, Continue, Throw, disk, TypeInv, TypeOK
<1>3. CASE Collect(j)
  <2>1. seen' = [seen EXCEPT ![j] = content[box[j]] \union ({metadata[box[j]]} \ {Nobody})]
    BY <1>3 DEF Collect
  <2>2. content[box[j]] \subseteq {j} /\ metadata[box[j]] \in {Nobody, j, box[j]}
    BY <1>3 DEF Collect, CleanInv, CleanBox, CleanMetadata
  <2>3. j # box[j]
    BY <1>1, SourcesDiffer
  <2>. QED
    BY <1>2, <2>1, <2>2, <2>3 DEF TypeInv, TypeOK
<1>4. CASE ~Collect(j)
  <2>1. seen' = seen
    BY <1>4 DEF InBox, InitSucceeds, InitFails, PrepareSucceeds, PrepareFails, RunEnds,
       RunRejected, RunTimesOut, Continue, Throw
  <2>. QED
    BY <1>2, <2>1
<1>. QED
  BY <1>3, <1>4

(* So it keeps what is said of results: nobody else has taken what was     *)
(* left in a box that j holds.                                             *)
LEMMA InBoxOwn ==
  ASSUME TypeInv, BoxExclusive, CleanInv, NEW j \in Jobs, InBox(j)
  PROVE  RemainsTakenOnce' /\ OwnResult'
<1>1. box[j] \in Boxes /\ box[j] # NoBox /\ box' = box
  BY InBoxEffect DEF TypeInv, TypeOK, Held
<1>2. /\ \A k \in Jobs \ {j} : seen'[k] = seen[k]
      /\ \/ seen' = seen
         \/ /\ seen'[j] \subseteq {j, box[j]}
            /\ box[j] \in seen'[j] => metadata[box[j]] = box[j]
      /\ \A b \in Boxes : metadata'[b] \in {metadata[b], j}
  BY InBoxTakes
<1>3. RemainsTakenOnce'
  <2>. SUFFICES ASSUME NEW k \in Jobs, NEW b \in Boxes, b \in seen'[k], metadata'[b] = b
                PROVE  box'[k] = b
    BY DEF RemainsTakenOnce, Boxes
  <2>1. metadata[b] = b
    BY <1>2, SourcesDiffer
  <2>2. CASE seen'[k] = seen[k]
    BY <1>1, <2>1, <2>2 DEF CleanInv, RemainsTakenOnce
  <2>3. CASE k = j /\ seen'[j] \subseteq {j, box[j]}
    BY <1>1, <2>3, SourcesDiffer
  <2>. QED
    BY <1>2, <2>2, <2>3
<1>4. \A k \in Jobs \ {j} : box[j] \in seen[k] => metadata[box[j]] # box[j]
  BY <1>1 DEF CleanInv, RemainsTakenOnce, BoxExclusive
<1>5. ASSUME seen' = seen PROVE OwnResult'
  BY <1>5 DEF CleanInv, OwnResult
<1>6. ASSUME seen'[j] \subseteq {j, box[j]},
             box[j] \in seen'[j] => metadata[box[j]] = box[j]
      PROVE  OwnResult'
  <2>1. \A k \in Jobs : seen'[k] \subseteq {k} \union Boxes
    BY <1>1, <1>2, <1>6 DEF CleanInv, OwnResult
  <2>2. ASSUME NEW k \in Jobs \ {j} PROVE seen'[j] \intersect seen'[k] = {}
    <3>1. j \notin seen[k]
      BY SourcesDiffer DEF CleanInv, OwnResult
    <3>. QED
      BY <1>2, <1>4, <1>6, <3>1
  <2>3. \A k, l \in Jobs \ {j} : k # l => seen'[k] \intersect seen'[l] = {}
    BY <1>2 DEF CleanInv, OwnResult
  <2>4. \A k, l \in Jobs : k # l => seen'[k] \intersect seen'[l] = {}
    BY <2>2, <2>3
  <2>. QED
    BY <2>1, <2>4 DEF OwnResult
<1>. QED
  BY <1>2, <1>3, <1>5, <1>6

(* Steps that write no result and let no holder of a remainder go.         *)
LEMMA ResultsKept ==
  ASSUME CleanInv, seen' = seen,
         \A b \in Boxes : metadata'[b] = b =>
           metadata[b] = b /\ \A k \in Jobs : box[k] = b => box'[k] = b
  PROVE  RemainsTakenOnce' /\ OwnResult'
BY DEF CleanInv, RemainsTakenOnce, OwnResult

LEMMA NextCleanInv ==
  TypeInv /\ WaitInv /\ BoxExclusive /\ CleanInv /\ [Next]_vars => CleanInv'
<1>. SUFFICES ASSUME TypeInv, WaitInv, BoxExclusive, CleanInv, [Next]_vars
              PROVE  CleanInv'
  OBVIOUS
<1>b. availableBoxes \in Seq(Boxes)
  BY DEF TypeInv, TypeOK
<1>. USE DEF CleanInv, CleanBox, CleanMetadata
<1>1. CASE \E j \in Jobs : AcquireAtOnce(j)
  BY <1>1, ResultsKept DEF AcquireAtOnce, TakePermit, CanPass, disk, TypeInv, TypeOK
<1>2. CASE \E j \in Jobs : AcquireWaits(j)
  BY <1>2, ResultsKept DEF AcquireWaits, Enqueue, CanPass, disk, TypeInv, TypeOK
<1>3. CASE \E j \in Jobs : PopBox(j)
  <2>1. PICK j \in Jobs : PopBox(j)
    BY <1>3
  <2>. DEFINE n == Len(availableBoxes)
  <2>2. /\ pc' = [pc EXCEPT ![j] = "init"]
        /\ box' = [box EXCEPT ![j] = availableBoxes[n]]
        /\ availableBoxes # <<>>
        /\ availableBoxes' = SubSeq(availableBoxes, 1, Len(availableBoxes) - 1)
        /\ UNCHANGED <<content, metadata, stuck, seen>>
    BY <2>1 DEF PopBox, disk
  <2>3. /\ n \in 1 .. n
        /\ \A i \in 1 .. Len(availableBoxes') :
             i \in 1 .. n /\ availableBoxes'[i] = availableBoxes[i]
    BY <1>b, <2>2, FrontElements
  <2>4. metadata[availableBoxes[n]] \in {Nobody, availableBoxes[n]}
    BY <2>3
  <2>. HIDE DEF n
  <2>5. CleanBox'
    BY <2>2 DEF TypeInv, TypeOK
  <2>6. \A k \in Jobs :
          pc'[k] \in {"init", "prepare", "run"} => metadata'[box'[k]] \in {Nobody, box'[k]}
    BY <2>2, <2>4 DEF TypeInv, TypeOK
  <2>7. \A k \in Jobs : pc'[k] = "collect" => metadata'[box'[k]] \in {Nobody, k, box'[k]}
    BY <2>2 DEF TypeInv, TypeOK
  <2>8. \A i \in 1 .. Len(availableBoxes') :
          metadata'[availableBoxes'[i]] \in {Nobody, availableBoxes'[i]}
    BY <2>2, <2>3 DEF n
  <2>9. RemainsTakenOnce' /\ OwnResult'
    <3>1. box[j] = NoBox /\ NoBox \notin Boxes
      <4>1. NoBox \notin Boxes
        BY BoxCountAssumption DEF NoBox, Boxes
      <4>2. pc[j] \notin Holding
        BY <2>1 DEF PopBox, Holding
      <4>. QED
        BY <4>1, <4>2 DEF TypeInv, Held
    <3>2. \A k \in Jobs : box[k] \in Boxes => box'[k] = box[k]
      BY <2>2, <3>1 DEF TypeInv, TypeOK
    <3>. QED
      BY <2>2, <3>2, ResultsKept
  <2>. QED
    BY <2>5, <2>6, <2>7, <2>8, <2>9
<1>4. CASE \E j \in Jobs : InBox(j)
  <2>1. PICK j \in Jobs : InBox(j)
    BY <1>4
  <2>2. CleanFor(j)' /\ RemainsTakenOnce' /\ OwnResult'
    BY <2>1, InBoxClean, InBoxOwn
  <2>3. /\ box' = box /\ availableBoxes' = availableBoxes
        /\ \A k \in Jobs \ {j} : pc'[k] = pc[k]
        /\ box[j] \in Boxes /\ box[j] # NoBox
    BY <2>1, InBoxEffect DEF pool, TypeInv, TypeOK, Held
  <2>4. ASSUME NEW k \in Jobs \ {j}, pc[k] \in Holding
        PROVE  /\ content'[box[k]] = content[box[k]]
               /\ metadata'[box[k]] = metadata[box[k]]
               /\ stuck'[box[k]] = stuck[box[k]]
    <3>1. box[k] \in Boxes /\ box[k] # box[j]
      BY <2>3, <2>4 DEF BoxExclusive, TypeInv, TypeOK, Held
    <3>. QED
      BY <2>1, <3>1, InBoxFrame
  <2>5. ASSUME NEW i \in 1 .. Len(availableBoxes)
        PROVE  metadata'[availableBoxes[i]] = metadata[availableBoxes[i]]
    <3>1. availableBoxes[i] \in Boxes /\ availableBoxes[i] # box[j]
      BY <1>b DEF BoxExclusive
    <3>. QED
      BY <2>1, <3>1, InBoxFrame
  <2>6. CleanBox'
    BY <2>2, <2>3, <2>4 DEF CleanFor, Holding
  <2>7. CleanMetadata'
    BY <2>2, <2>3, <2>4, <2>5 DEF CleanFor, Holding
  <2>. QED
    BY <2>2, <2>6, <2>7
<1>5. CASE \E j \in Jobs : Cleanup(j)
  <2>1. PICK j \in Jobs : Cleanup(j)
    BY <1>5
  <2>2. /\ box[j] \in Boxes /\ box[j] # NoBox
        /\ box' = [box EXCEPT ![j] = NoBox]
        /\ availableBoxes' = Append(availableBoxes, box[j])
        /\ metadata' = [metadata EXCEPT ![box[j]] = Nobody]
        /\ seen' = seen
    BY <2>1 DEF Cleanup, TypeInv, TypeOK, Held, Holding
  <2>3. ASSUME NEW k \in Jobs, pc'[k] \in {"init", "prepare", "run", "collect"}
        PROVE  k # j /\ pc'[k] = pc[k]
    <3>1. CASE queue = <<>>
      BY <2>1, <2>3, <3>1 DEF Cleanup, Release, GiveBack, HandOver, TypeInv, TypeOK
    <3>2. CASE queue # <<>>
      <4>1. Head(queue) \in Jobs
        BY <3>2 DEF TypeInv, TypeOK
      <4>2. pc' = [pc EXCEPT ![j] = "done", ![Head(queue)] = "granted"]
        BY <2>1, <3>2 DEF Cleanup, Release, GiveBack, HandOver
      <4>. QED
        BY <2>3, <4>1, <4>2 DEF TypeInv, TypeOK
    <3>. QED
      BY <3>1, <3>2
  <2>4. ASSUME NEW k \in Jobs, pc'[k] \in {"init", "prepare", "run", "collect"}
        PROVE  /\ box'[k] = box[k] /\ box[k] \in Boxes /\ box[k] # box[j]
               /\ content'[box[k]] = content[box[k]]
               /\ metadata'[box[k]] = metadata[box[k]]
               /\ stuck'[box[k]] = stuck[box[k]]
    <3>1. k # j /\ pc[k] \in Holding
      BY <2>3, <2>4 DEF Holding
    <3>2. box[k] \in Boxes /\ box[k] # box[j]
      BY <2>2, <3>1 DEF BoxExclusive, TypeInv, TypeOK, Held
    <3>3. /\ UNCHANGED content \/ Empties(box[j])
          /\ MayLeaveProcess(j)
      BY <2>1 DEF Cleanup
    <3>. QED
      BY <2>2, <3>1, <3>2, <3>3 DEF Empties, MayLeaveProcess, TypeInv, TypeOK
  <2>5. \A i \in 1 .. Len(availableBoxes') :
          metadata'[availableBoxes'[i]] \in {Nobody, availableBoxes'[i]}
    <3>1. ASSUME NEW i \in 1 .. Len(availableBoxes')
          PROVE  \/ i \in 1 .. Len(availableBoxes) /\ availableBoxes'[i] = availableBoxes[i]
                 \/ availableBoxes'[i] = box[j]
      BY <1>b, <2>2
    <3>2. \A i \in 1 .. Len(availableBoxes) : availableBoxes[i] \in Boxes
      BY <1>b
    <3>. QED
      BY <2>2, <3>1, <3>2 DEF TypeInv, TypeOK
  <2>6. CleanBox'
    BY <2>3, <2>4
  <2>7. CleanMetadata'
    BY <2>3, <2>4, <2>5
  <2>8. RemainsTakenOnce' /\ OwnResult'
    <3>1. ASSUME NEW b \in Boxes, metadata'[b] = b PROVE b # box[j] /\ metadata[b] = b
      BY <2>2, <3>1, SourcesDiffer DEF TypeInv, TypeOK
    <3>2. \A k \in Jobs : box[k] # box[j] => box'[k] = box[k]
      BY <2>2 DEF TypeInv, TypeOK
    <3>. QED
      BY <2>2, <3>1, <3>2, ResultsKept
  <2>. QED
    BY <2>6, <2>7, <2>8
<1>6. CASE \E b \in Boxes : OutsideStep(b)
  <2>1. PICK b \in Boxes : OutsideStep(b)
    BY <1>6
  <2>2. stuck[b] # Nobody /\ UNCHANGED <<pc, box, metadata, availableBoxes, seen>>
    BY <2>1 DEF OutsideStep, StuckWorks, StuckEnds, pool
  <2>3. CleanBox'
    <3>1. \A c \in Boxes \ {b} : content'[c] = content[c] /\ stuck'[c] = stuck[c]
      BY <2>1 DEF OutsideStep, StuckWorks, StuckEnds, TypeInv, TypeOK
    <3>2. ASSUME NEW j \in Jobs, pc[j] \in {"prepare", "run", "collect"}
          PROVE  box[j] \in Boxes \ {b}
      BY <2>2, <3>2 DEF TypeInv, TypeOK, Held, Holding
    <3>. QED
      BY <2>2, <3>1, <3>2
  <2>4. CleanMetadata'
    BY <2>2
  <2>5. RemainsTakenOnce' /\ OwnResult'
    BY <2>2, ResultsKept
  <2>. QED
    BY <2>3, <2>4, <2>5
<1>7. CASE UNCHANGED vars
  BY <1>7, ResultsKept DEF vars, pool, disk
<1>. QED
  BY <1>1, <1>2, <1>3, <1>4, <1>5, <1>6, <1>7, StepCases

-----------------------------------------------------------------------------
(* Sixth layer: the waiters stand in the order of their priorities, and    *)
(* every job that is queued is among them.                                 *)

QueueSorted ==
  \A i, l \in 1 .. Len(queue) : i <= l => Priority[queue[l]] <= Priority[queue[i]]
QueuedWait == \A j \in Jobs : pc[j] = "queued" => \E i \in 1 .. Len(queue) : queue[i] = j
OrderInv == QueueSorted /\ QueuedWait

LEMMA InitOrderInv == Init => OrderInv
BY DEF Init, OrderInv, QueueSorted, QueuedWait

(* A permit is taken at once only if nobody is queued.                     *)
LEMMA AtOnceAlone ==
  ASSUME TypeInv, WaitInv, OrderInv, NEW j \in Jobs, AcquireAtOnce(j)
  PROVE  queue = <<>> /\ \A k \in Jobs : pc[k] # "queued"
<1>1. queue = <<>>
  BY DEF AcquireAtOnce, TakePermit, CanPass, WaitInv, NoIdlePermit, TypeInv, TypeOK
<1>2. Len(queue) = 0
  BY <1>1
<1>. QED
  BY <1>1, <1>2 DEF OrderInv, QueuedWait

(* Where acquire() puts a waiter: behind all who precede him and before    *)
(* all others.                                                             *)
LEMMA EnqueueEffect ==
  ASSUME TypeInv, NEW j \in Jobs, AcquireWaits(j)
  PROVE  \E k \in 0 .. Len(queue) :
           /\ k > 0 => Priority[j] <= Priority[queue[k]]
           /\ \A i \in (k + 1) .. Len(queue) : Priority[queue[i]] < Priority[j]
           /\ Len(queue') = Len(queue) + 1
           /\ \A i \in 1 .. Len(queue) + 1 :
                queue'[i] = IF i <= k THEN queue[i]
                            ELSE IF i = k + 1 THEN j ELSE queue[i - 1]
<1>1. PICK k \in 0 .. Len(queue) :
        /\ k > 0 => Precedes(queue[k], Priority[j])
        /\ \A i \in (k + 1) .. Len(queue) : ~Precedes(queue[i], Priority[j])
        /\ queue' = InsertAfter(queue, k, j)
  BY DEF AcquireWaits, Enqueue
<1>2. queue \in Seq(Jobs) /\ Len(queue) \in Nat
  BY DEF TypeInv, TypeOK
<1>3. /\ Len(queue') = Len(queue) + 1
      /\ \A i \in 1 .. Len(queue) + 1 :
           queue'[i] = IF i <= k THEN queue[i] ELSE IF i = k + 1 THEN j ELSE queue[i - 1]
  <2>. DEFINE s == InsertAfter(queue, k, j)
  <2>1. /\ Len(s) = Len(queue) + 1
        /\ \A i \in 1 .. Len(queue) + 1 :
             s[i] = IF i <= k THEN queue[i] ELSE IF i = k + 1 THEN j ELSE queue[i - 1]
    BY <1>2, InsertAfterType
  <2>. QED
    BY <1>1, <2>1
<1>4. \A i \in 1 .. Len(queue) : Priority[queue[i]] \in Int
  BY <1>2, PriorityAssumption
<1>5. Priority[j] \in Int
  BY PriorityAssumption
<1>6. k > 0 => Priority[j] <= Priority[queue[k]]
  BY <1>1, <1>2, <1>4, <1>5 DEF Precedes
<1>7. ASSUME NEW i \in (k + 1) .. Len(queue) PROVE Priority[queue[i]] < Priority[j]
  <2>1. i \in 1 .. Len(queue)
    BY <1>2
  <2>. QED
    BY <1>1, <1>4, <1>5, <2>1 DEF Precedes
<1>. QED
  BY <1>3, <1>6, <1>7

LEMMA WaitsOrderInv ==
  ASSUME TypeInv, OrderInv, NEW j \in Jobs, AcquireWaits(j)
  PROVE  OrderInv'
<1>1. PICK k \in 0 .. Len(queue) :
        /\ k > 0 => Priority[j] <= Priority[queue[k]]
        /\ \A i \in (k + 1) .. Len(queue) : Priority[queue[i]] < Priority[j]
        /\ Len(queue') = Len(queue) + 1
        /\ \A i \in 1 .. Len(queue) + 1 :
             queue'[i] = IF i <= k THEN queue[i]
                         ELSE IF i = k + 1 THEN j ELSE queue[i - 1]
  BY EnqueueEffect
<1>. DEFINE n == Len(queue)
<1>2. n \in Nat /\ k \in 0 .. n /\ Priority[j] \in Int
  BY PriorityAssumption DEF TypeInv, TypeOK
<1>3. \A i \in 1 .. n : Priority[queue[i]] \in Int
  BY PriorityAssumption DEF TypeInv, TypeOK
<1>4. \A i, l \in 1 .. n : i <= l => Priority[queue[l]] <= Priority[queue[i]]
  BY DEF OrderInv, QueueSorted
<1>5. /\ k > 0 => Priority[j] <= Priority[queue[k]]
      /\ \A i \in (k + 1) .. n : Priority[queue[i]] < Priority[j]
      /\ Len(queue') = n + 1
      /\ \A i \in 1 .. n + 1 :
           queue'[i] = IF i <= k THEN queue[i] ELSE IF i = k + 1 THEN j ELSE queue[i - 1]
  BY <1>1
<1>6. \A i \in 1 .. k : i \in 1 .. n /\ queue'[i] = queue[i]
                        /\ Priority[j] <= Priority[queue[i]]
  <2>. SUFFICES ASSUME NEW i \in 1 .. k
                PROVE  /\ i \in 1 .. n /\ queue'[i] = queue[i]
                       /\ Priority[j] <= Priority[queue[i]]
    OBVIOUS
  <2>. HIDE DEF n
  <2>1. i \in 1 .. n /\ k \in 1 .. n /\ k > 0 /\ i <= k /\ i \in 1 .. n + 1
    BY <1>2
  <2>2. queue'[i] = queue[i]
    BY <1>5, <2>1
  <2>3. Priority[queue[k]] <= Priority[queue[i]] /\ Priority[j] <= Priority[queue[k]]
    BY <1>4, <1>5, <2>1
  <2>4. Priority[queue[k]] \in Int /\ Priority[queue[i]] \in Int
    BY <1>3, <2>1
  <2>. QED
    BY <1>2, <2>1, <2>2, <2>3, <2>4
<1>7. queue'[k + 1] = j
  <2>. HIDE DEF n
  <2>. QED
    BY <1>2, <1>5
<1>8. \A i \in (k + 2) .. n + 1 : i - 1 \in 1 .. n /\ queue'[i] = queue[i - 1]
                                /\ Priority[queue[i - 1]] < Priority[j]
  <2>. HIDE DEF n
  <2>. SUFFICES ASSUME NEW i \in (k + 2) .. n + 1
                PROVE  /\ i - 1 \in 1 .. n /\ queue'[i] = queue[i - 1]
                       /\ Priority[queue[i - 1]] < Priority[j]
    OBVIOUS
  <2>1. i - 1 \in (k + 1) .. n /\ i - 1 \in 1 .. n /\ ~(i <= k) /\ i # k + 1
        /\ i \in 1 .. n + 1
    BY <1>2
  <2>. QED
    BY <1>5, <2>1
<1>. HIDE DEF n
<1>9. QueueSorted'
  <2>. SUFFICES ASSUME NEW i \in 1 .. n + 1, NEW l \in 1 .. n + 1, i <= l
                PROVE  Priority[queue'[l]] <= Priority[queue'[i]]
    BY <1>5 DEF QueueSorted
  <2>1. ASSUME NEW m \in 1 .. n + 1
        PROVE  m \in 1 .. k \/ m = k + 1 \/ m \in (k + 2) .. n + 1
    BY <1>2
  <2>2. CASE i = l
    <3>1. Priority[queue'[i]] \in Int
      BY <1>2, <1>3, <1>6, <1>7, <1>8, <2>1
    <3>. QED
      BY <2>2, <3>1
  <2>3. CASE i \in 1 .. k /\ l \in 1 .. k
    BY <1>4, <1>6, <2>3
  <2>4. CASE i \in 1 .. k /\ l = k + 1
    BY <1>6, <1>7, <2>4
  <2>5. CASE i \in 1 .. k /\ l \in (k + 2) .. n + 1
    <3>1. /\ queue'[i] = queue[i] /\ queue'[l] = queue[l - 1]
          /\ i \in 1 .. n /\ l - 1 \in 1 .. n
      BY <1>6, <1>8, <2>5
    <3>2. i <= l - 1
      BY <1>2, <2>5
    <3>. QED
      BY <1>4, <3>1, <3>2
  <2>6. CASE i = k + 1 /\ l \in (k + 2) .. n + 1
    BY <1>2, <1>3, <1>7, <1>8, <2>6
  <2>7. CASE i \in (k + 2) .. n + 1 /\ l \in (k + 2) .. n + 1
    <3>1. /\ queue'[i] = queue[i - 1] /\ queue'[l] = queue[l - 1]
          /\ i - 1 \in 1 .. n /\ l - 1 \in 1 .. n
      BY <1>8, <2>7
    <3>2. i - 1 <= l - 1
      OBVIOUS
    <3>. QED
      BY <1>4, <3>1, <3>2
  <2>8. \/ i = l
        \/ i \in 1 .. k /\ (l \in 1 .. k \/ l = k + 1 \/ l \in (k + 2) .. n + 1)
        \/ i = k + 1 /\ l \in (k + 2) .. n + 1
        \/ i \in (k + 2) .. n + 1 /\ l \in (k + 2) .. n + 1
    BY <1>2, <2>1
  <2>. QED
    BY <2>2, <2>3, <2>4, <2>5, <2>6, <2>7, <2>8
<1>10. QueuedWait'
  <2>. SUFFICES ASSUME NEW l \in Jobs, pc'[l] = "queued"
                PROVE  \E i \in 1 .. n + 1 : queue'[i] = l
    BY <1>5 DEF QueuedWait
  <2>1. CASE l = j
    <3>1. k + 1 \in 1 .. n + 1
      BY <1>2
    <3>. QED
      BY <1>7, <2>1, <3>1
  <2>2. CASE l # j
    <3>1. pc[l] = "queued"
      BY <2>2 DEF AcquireWaits, TypeInv, TypeOK
    <3>2. PICK m \in 1 .. n : queue[m] = l
      BY <3>1 DEF OrderInv, QueuedWait, n
    <3>3. CASE m <= k
      <4>1. m \in 1 .. k /\ m \in 1 .. n + 1
        BY <1>2, <3>3
      <4>. QED
        BY <1>6, <3>2, <4>1
    <3>4. CASE ~(m <= k)
      <4>1. m + 1 \in (k + 2) .. n + 1 /\ m + 1 \in 1 .. n + 1 /\ m + 1 - 1 = m
        BY <1>2, <3>4
      <4>2. queue'[m + 1] = queue[m]
        BY <1>8, <4>1
      <4>. QED
        BY <3>2, <4>1, <4>2
    <3>. QED
      BY <3>3, <3>4
  <2>. QED
    BY <2>1, <2>2
<1>. QED
  BY <1>9, <1>10 DEF OrderInv

(* Giving back a permit grants it to the first waiter, and to nobody else. *)
LEMMA CleanupGrants ==
  ASSUME TypeInv, WaitInv, NEW j \in Jobs, Cleanup(j), queue # <<>>
  PROVE  /\ Len(queue) \in Nat /\ 1 \in 1 .. Len(queue)
         /\ queue[1] \in Jobs
         /\ Len(queue') = Len(queue) - 1
         /\ \A i \in 1 .. Len(queue') : i + 1 \in 1 .. Len(queue) /\ queue'[i] = queue[i + 1]
         /\ pc' = [pc EXCEPT ![j] = "done", ![queue[1]] = "granted"]
<1>1. queue \in Seq(Jobs)
  BY DEF TypeInv, TypeOK
<1>2. /\ queue' = Tail(queue)
      /\ pc' = [pc EXCEPT ![j] = "done", ![Head(queue)] = "granted"]
  BY DEF Cleanup, Release, GiveBack, HandOver
<1>3. /\ Len(Tail(queue)) = Len(queue) - 1
      /\ \A i \in 1 .. Len(Tail(queue)) :
           i + 1 \in 1 .. Len(queue) /\ Tail(queue)[i] = queue[i + 1]
      /\ Head(queue) = queue[1] /\ 1 \in 1 .. Len(queue)
  BY <1>1, TailElements
<1>. QED
  BY <1>1, <1>2, <1>3

LEMMA NextOrderInv == TypeInv /\ WaitInv /\ OrderInv /\ [Next]_vars => OrderInv'
<1>. SUFFICES ASSUME TypeInv, WaitInv, OrderInv, [Next]_vars PROVE OrderInv'
  OBVIOUS
<1>. USE DEF OrderInv, QueueSorted, QueuedWait
<1>1. CASE \E j \in Jobs : AcquireAtOnce(j)
  BY <1>1, AtOnceAlone DEF AcquireAtOnce, TakePermit, CanPass, TypeInv, TypeOK
<1>2. CASE \E j \in Jobs : AcquireWaits(j)
  BY <1>2, WaitsOrderInv
<1>3. CASE \E j \in Jobs : PopBox(j)
  BY <1>3 DEF PopBox, TypeInv, TypeOK
<1>4. CASE \E j \in Jobs : InBox(j)
  BY <1>4, InBoxEffect DEF pool, Holding, TypeInv, TypeOK
<1>5. CASE \E j \in Jobs : Cleanup(j)
  <2>1. PICK j \in Jobs : Cleanup(j)
    BY <1>5
  <2>2. CASE queue = <<>>
    BY <2>1, <2>2 DEF Cleanup, Release, GiveBack, HandOver, TypeInv, TypeOK
  <2>3. CASE queue # <<>>
    <3>1. /\ Len(queue) \in Nat /\ 1 \in 1 .. Len(queue)
          /\ queue[1] \in Jobs
          /\ Len(queue') = Len(queue) - 1
          /\ \A i \in 1 .. Len(queue') : i + 1 \in 1 .. Len(queue) /\ queue'[i] = queue[i + 1]
          /\ pc' = [pc EXCEPT ![j] = "done", ![queue[1]] = "granted"]
      BY <2>1, <2>3, CleanupGrants
    <3>2. QueueSorted'
      <4>. SUFFICES ASSUME NEW i \in 1 .. Len(queue'), NEW l \in 1 .. Len(queue'), i <= l
                    PROVE  Priority[queue'[l]] <= Priority[queue'[i]]
        OBVIOUS
      <4>1. i + 1 \in 1 .. Len(queue) /\ l + 1 \in 1 .. Len(queue) /\ i + 1 <= l + 1
        BY <3>1
      <4>. QED
        BY <3>1, <4>1
    <3>3. QueuedWait'
      <4>. SUFFICES ASSUME NEW k \in Jobs, pc'[k] = "queued"
                    PROVE  \E i \in 1 .. Len(queue') : queue'[i] = k
        OBVIOUS
      <4>1. pc[k] = "queued" /\ k # queue[1]
        BY <3>1 DEF TypeInv, TypeOK
      <4>2. PICK m \in 1 .. Len(queue) : queue[m] = k
        BY <4>1
      <4>3. m - 1 \in 1 .. Len(queue') /\ m - 1 + 1 = m
        BY <3>1, <4>1, <4>2
      <4>4. queue'[m - 1] = queue[m]
        BY <3>1, <4>3
      <4>. QED
        BY <4>2, <4>3, <4>4
    <3>. QED
      BY <3>2, <3>3
  <2>. QED
    BY <2>2, <2>3
<1>6. CASE \E b \in Boxes : OutsideStep(b)
  BY <1>6 DEF OutsideStep, StuckWorks, StuckEnds, pool
<1>7. CASE UNCHANGED vars
  BY <1>7 DEF vars, pool
<1>. QED
  BY <1>1, <1>2, <1>3, <1>4, <1>5, <1>6, <1>7, StepCases

(* One step of NoOvertaking.                                               *)
FairGrant ==
  \A j, k \in Jobs :
    /\ pc[j] \in {"idle", "queued"} /\ pc'[j] = "granted"
    /\ pc[k] = "queued" /\ pc'[k] = "queued"
    => Priority[k] <= Priority[j] /\ pc[j] = "queued"

(* Only acquire() and release() grant a permit: the one if nobody is       *)
(* queued, the other to the first of the queue.                            *)
LEMMA NextFairGrant == TypeInv /\ WaitInv /\ OrderInv /\ [Next]_vars => FairGrant
<1>. SUFFICES ASSUME TypeInv, WaitInv, OrderInv, [Next]_vars,
                     NEW j \in Jobs, NEW k \in Jobs,
                     pc[j] \in {"idle", "queued"}, pc'[j] = "granted",
                     pc[k] = "queued", pc'[k] = "queued"
              PROVE  Priority[k] <= Priority[j] /\ pc[j] = "queued"
  BY DEF FairGrant
<1>1. CASE \E l \in Jobs : AcquireAtOnce(l)
  BY <1>1, AtOnceAlone
<1>2. CASE \E l \in Jobs : AcquireWaits(l)
  BY <1>2 DEF AcquireWaits, TypeInv, TypeOK
<1>3. CASE \E l \in Jobs : PopBox(l)
  BY <1>3 DEF PopBox, TypeInv, TypeOK
<1>4. CASE \E l \in Jobs : InBox(l)
  BY <1>4, InBoxEffect DEF Holding, TypeInv, TypeOK
<1>5. CASE \E l \in Jobs : Cleanup(l)
  <2>1. PICK l \in Jobs : Cleanup(l)
    BY <1>5
  <2>2. CASE queue = <<>>
    BY <2>1, <2>2 DEF Cleanup, Release, GiveBack, HandOver, TypeInv, TypeOK
  <2>3. CASE queue # <<>>
    <3>1. /\ 1 \in 1 .. Len(queue) /\ queue[1] \in Jobs
          /\ pc' = [pc EXCEPT ![l] = "done", ![queue[1]] = "granted"]
      BY <2>1, <2>3, CleanupGrants
    <3>2. j = queue[1]
      BY <3>1 DEF TypeInv, TypeOK
    <3>3. pc[j] = "queued"
      BY <3>1, <3>2 DEF WaitInv, WaitersQueued
    <3>4. PICK m \in 1 .. Len(queue) : queue[m] = k
      BY DEF OrderInv, QueuedWait
    <3>5. 1 <= m
      BY <3>1
    <3>. QED
      BY <3>1, <3>2, <3>3, <3>4, <3>5 DEF OrderInv, QueueSorted
  <2>. QED
    BY <2>2, <2>3
<1>6. CASE \E b \in Boxes : OutsideStep(b)
  BY <1>6 DEF OutsideStep, StuckWorks, StuckEnds
<1>7. CASE UNCHANGED vars
  BY <1>7 DEF vars
<1>. QED
  BY <1>1, <1>2, <1>3, <1>4, <1>5, <1>6, <1>7, StepCases

-----------------------------------------------------------------------------
(* The layers together, and what follows for every reachable state.        *)

IndInv == TypeInv /\ WaitInv /\ BoxExclusive /\ GrantHasBox /\ CleanInv /\ OrderInv

LEMMA IndInvHolds == Spec => []IndInv
<1>1. Init => IndInv
  BY InitTypeInv, InitWaitInv, InitBoxExclusive, InitGrantHasBox, InitCleanInv,
     InitOrderInv DEF IndInv
<1>2. IndInv /\ [Next]_vars => IndInv'
  BY NextTypeInv, NextWaitInv, NextBoxExclusive, NextGrantHasBox, NextCleanInv,
     NextOrderInv DEF IndInv
<1>. QED
  BY <1>1, <1>2, PTL DEF Spec

(* Every variable keeps its type, whatever the order of the awaits.        *)
THEOREM TypeCorrect == Spec => []TypeOK
<1>1. IndInv => TypeOK
  BY DEF IndInv, TypeInv
<1>. QED
  BY <1>1, IndInvHolds, PTL

(* A box is never given to two jobs, nor twice to the stack                *)
(* (executor.ts:56 and 300).                                               *)
THEOREM Exclusion == Spec => []BoxExclusive
<1>1. IndInv => BoxExclusive
  BY DEF IndInv
<1>. QED
  BY <1>1, IndInvHolds, PTL

(* The stack has a box for every permit, so "Failed to acquire isolate     *)
(* box" (executor.ts:57-63) is never thrown.                               *)
THEOREM GrantsHaveBoxes == Spec => []GrantHasBox
<1>1. IndInv => GrantHasBox
  BY DEF IndInv
<1>. QED
  BY <1>1, IndInvHolds, PTL

(* In particular the stack is not empty when a job with a permit pops it.  *)
THEOREM PopDefined == Spec => [](JobsIn("granted") # {} => availableBoxes # <<>>)
<1>1. IndInv => (JobsIn("granted") # {} => availableBoxes # <<>>)
  <2>. SUFFICES ASSUME IndInv, JobsIn("granted") # {}
                PROVE  availableBoxes # <<>>
    OBVIOUS
  <2>1. Cardinality(JobsIn("granted")) \in Nat /\ Cardinality(JobsIn("granted")) # 0
    BY GrantedFinite, FS_CardinalityType, FS_EmptySet
  <2>2. Len(availableBoxes) = permits + Cardinality(JobsIn("granted")) /\ permits \in Nat
    BY DEF IndInv, GrantHasBox, TypeInv, TypeOK
  <2>3. Len(availableBoxes) # 0
    BY <2>1, <2>2
  <2>. QED
    BY <2>3
<1>. QED
  BY <1>1, IndInvHolds, PTL

(* No job is left waiting while a permit is free.                          *)
THEOREM WorkConserving == Spec => []NoIdlePermit
<1>1. IndInv => NoIdlePermit
  BY DEF IndInv, WaitInv
<1>. QED
  BY <1>1, IndInvHolds, PTL

(* "Isolate box is currently in use, this should not happen"               *)
(* (executor.ts:221-229): it does not, though processes may outlive their  *)
(* time-outs and cleaning up may fail.                                     *)
THEOREM BoxNeverInUse == Spec => []NeverInUse
<1>1. IndInv => NeverInUse
  BY DEF IndInv, CleanInv, CleanBox, NeverInUse, JobsIn
<1>. QED
  BY <1>1, IndInvHolds, PTL

(* No job is returned data of another one.                                 *)
THEOREM Isolation == Spec => []OwnResult
<1>1. IndInv => OwnResult
  BY DEF IndInv, CleanInv
<1>. QED
  BY <1>1, IndInvHolds, PTL

(* A permit never passes over a waiter of higher priority, and no newcomer *)
(* passes a waiter at all: the order of async-mutex's queue, whose         *)
(* priorities executor.ts:55 hands in, decides every grant.                *)
THEOREM GrantsInOrder == Spec => NoOvertaking
<1>1. IndInv /\ [Next]_vars => [FairGrant]_vars
  BY NextFairGrant DEF IndInv
<1>2. NoOvertaking <=> [][FairGrant]_vars
  BY DEF NoOvertaking, FairGrant
<1>. QED
  BY <1>1, <1>2, IndInvHolds, PTL DEF Spec

-----------------------------------------------------------------------------
(* The executor implements BoxPool.                                        *)

Phase == [j \in Jobs |-> PhaseOf(pc[j])]

(* Moving job j to p moves it to the phase of p in the abstract pool.      *)
LEMMA PhaseMoves ==
  ASSUME TypeInv, NEW j \in Jobs, NEW p, pc' = [pc EXCEPT ![j] = p]
  PROVE  Phase' = [Phase EXCEPT ![j] = PhaseOf(p)]
BY DEF Phase, TypeInv, TypeOK

LEMMA InitPool == Init => Pool!Init
BY DEF Init, Pool!Init, PhaseOf

LEMMA NextPool == TypeInv /\ [Next]_vars => [Pool!Next]_(Pool!poolVars)
<1>. SUFFICES ASSUME TypeInv, [Next]_vars
              PROVE  Pool!Next \/ (UNCHANGED <<permits, queue, result>> /\ Phase' = Phase)
  BY DEF Pool!poolVars, Phase
<1>1. CASE \E j \in Jobs : AcquireAtOnce(j)
  <2>1. PICK j \in Jobs : AcquireAtOnce(j)
    BY <1>1
  <2>2. Phase' = [Phase EXCEPT ![j] = "preparing"] /\ Phase[j] = "idle"
    BY <2>1, PhaseMoves DEF AcquireAtOnce, PhaseOf, Phase
  <2>3. Pool!AcquireAtOnce(j)
    BY <2>1, <2>2 DEF AcquireAtOnce, Pool!AcquireAtOnce, Phase, TakePermit, CanPass,
       Precedes, Pool!TakePermit, Pool!CanPass, Pool!Precedes
  <2>. QED
    BY <2>3 DEF Pool!Next
<1>2. CASE \E j \in Jobs : AcquireWaits(j)
  <2>1. PICK j \in Jobs : AcquireWaits(j)
    BY <1>2
  <2>2. Phase' = [Phase EXCEPT ![j] = "queued"] /\ Phase[j] = "idle"
    BY <2>1, PhaseMoves DEF AcquireWaits, PhaseOf, Phase
  <2>3. Pool!AcquireWaits(j)
    BY <2>1, <2>2 DEF AcquireWaits, Pool!AcquireWaits, Phase, Enqueue, CanPass, Precedes,
       InsertAfter, Pool!Enqueue, Pool!CanPass, Pool!Precedes, Pool!InsertAfter
  <2>. QED
    BY <2>3 DEF Pool!Next
<1>3. CASE \E j \in Jobs : PopBox(j)
  <2>1. PICK j \in Jobs : PopBox(j)
    BY <1>3
  <2>2. Phase' = [Phase EXCEPT ![j] = "preparing"] /\ Phase[j] = "preparing"
    BY <2>1, PhaseMoves DEF PopBox, PhaseOf, Phase
  <2>. QED
    BY <2>1, <2>2 DEF PopBox, Phase
<1>4. CASE \E j \in Jobs : InBox(j)
  <2>1. PICK j \in Jobs : InBox(j)
    BY <1>4
  <2>. USE DEF PhaseOf, Phase
  <2>2. CASE InitSucceeds(j)
    BY <2>1, <2>2, PhaseMoves DEF InitSucceeds, Continue, pool
  <2>3. CASE InitFails(j) \/ PrepareFails(j) \/ RunTimesOut(j)
    <3>1. /\ Phase' = [Phase EXCEPT ![j] = "ending"]
          /\ Phase[j] \in {"preparing", "running"}
          /\ result' = [result EXCEPT ![j] = "failed"]
          /\ UNCHANGED <<permits, queue>>
      BY <2>3, PhaseMoves DEF InitFails, PrepareFails, RunTimesOut, Throw, pool
    <3>. QED
      BY <3>1 DEF Pool!Next, Pool!Fails
  <2>4. CASE PrepareSucceeds(j)
    <3>1. /\ Phase' = [Phase EXCEPT ![j] = "running"]
          /\ Phase[j] = "preparing"
          /\ UNCHANGED <<permits, queue, result>>
      BY <2>4, PhaseMoves DEF PrepareSucceeds, Continue, pool
    <3>. QED
      BY <3>1 DEF Pool!Next, Pool!Prepared
  <2>5. CASE RunEnds(j) \/ RunRejected(j)
    <3>1. /\ pc[j] = "run" /\ pc' = [pc EXCEPT ![j] = "collect"]
          /\ UNCHANGED <<permits, queue, result>>
      BY <2>5 DEF RunEnds, RunRejected, Continue, pool
    <3>2. Phase' = [Phase EXCEPT ![j] = "running"] /\ Phase[j] = "running"
      BY <3>1, PhaseMoves
    <3>. QED
      BY <3>1, <3>2 DEF Phase
  <2>6. CASE Collect(j)
    <3>1. /\ Phase' = [Phase EXCEPT ![j] = "ending"]
          /\ Phase[j] = "running"
          /\ result' = [result EXCEPT ![j] = "ok"]
          /\ UNCHANGED <<permits, queue>>
      BY <2>6, PhaseMoves DEF Collect, pool
    <3>. QED
      BY <3>1 DEF Pool!Next, Pool!Succeeds
  <2>. QED
    BY <2>1, <2>2, <2>3, <2>4, <2>5, <2>6 DEF InBox
<1>5. CASE \E j \in Jobs : Cleanup(j)
  <2>1. PICK j \in Jobs : Cleanup(j)
    BY <1>5
  <2>2. Phase[j] = "ending" /\ result' = result
    BY <2>1 DEF Cleanup, Phase, PhaseOf
  <2>3. CASE GiveBack /\ pc' = [pc EXCEPT ![j] = "done"]
    <3>1. Phase' = [Phase EXCEPT ![j] = "done"]
      BY <2>3, PhaseMoves DEF PhaseOf
    <3>. QED
      BY <2>2, <2>3, <3>1 DEF GiveBack, Phase, Pool!Next, Pool!Releases, Pool!GiveBack
  <2>4. CASE HandOver /\ pc' = [pc EXCEPT ![j] = "done", ![Head(queue)] = "granted"]
    <3>1. Phase' = [Phase EXCEPT ![j] = "done", ![Head(queue)] = "preparing"]
      BY <2>4 DEF HandOver, Phase, PhaseOf, TypeInv, TypeOK
    <3>. QED
      BY <2>2, <2>4, <3>1 DEF HandOver, Phase, Pool!Next, Pool!Releases, Pool!HandOver
  <2>. QED
    BY <2>1, <2>3, <2>4 DEF Cleanup, Release
<1>6. CASE \E b \in Boxes : OutsideStep(b)
  BY <1>6 DEF OutsideStep, StuckWorks, StuckEnds, pool, Phase
<1>7. CASE UNCHANGED vars
  BY <1>7 DEF vars, pool, Phase
<1>. QED
  BY <1>1, <1>2, <1>3, <1>4, <1>5, <1>6, <1>7, StepCases

(* Every behaviour of the executor is one of the abstract pool: boxes,     *)
(* shells, isolate and its files cannot be told from outside.              *)
THEOREM Implementation == Spec => ImplementsPool
<1>1. IndInv => TypeInv
  BY DEF IndInv
<1>. QED
  BY <1>1, InitPool, NextPool, IndInvHolds, PTL DEF Spec, ImplementsPool, Pool!Safety

=============================================================================
