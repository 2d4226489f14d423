--------------------------- MODULE FileStoreProofs ---------------------------
(* Proofs about FileStore, for any number of attachments, owners,          *)
(* overlapping requests and faults: removals of attachments are answered   *)
(* once, rows name files that are there, and changes of avatars leave no   *)
(* files behind.                                                           *)
EXTENDS FileStore, FiniteSetTheorems, TLAPS

Stages == {"idle", "storing", "unlinking", "removing", "replacing", "writing", "flushing"}

(* As much of the types as is needed.                                      *)
Typed ==
  /\ DOMAIN row = Objects
  /\ pc \in [Slots -> Stages]
  /\ DOMAIN object = Slots /\ DOMAIN seen = Slots /\ DOMAIN new = Slots
  /\ answers \in [Attachments -> Nat]

(* A request that has to do with attachments works on one, with its only   *)
(* file; the others leave the files of attachments alone.                  *)
Works(s) ==
  /\ pc[s] \in {"storing", "unlinking", "removing"} => object[s] \in Attachments
  /\ pc[s] = "storing" => new[s] = Upload(object[s])
  /\ pc[s] = "unlinking" => seen[s] = Upload(object[s])
  /\ pc[s] \in {"unlinking", "removing"} => row[object[s]] # Unused
  /\ pc[s] \in {"replacing", "writing", "flushing"} =>
       object[s] \in Owners /\ new[s].of = object[s]

(* The row of an attachment names its only file as long as it is there.    *)
NamesUpload(a) == row[a] \in {Unused, Removed, Upload(a)}

(* An answered removal took the file, which does not come back.            *)
TookFile(a) == answers[a] = 0 \/ (answers[a] = 1 /\ Upload(a) \notin disk /\ row[a] # Unused)

StoreInv ==
  /\ Typed
  /\ \A s \in Slots : Works(s)
  /\ \A a \in Attachments : NamesUpload(a) /\ TookFile(a)

LEMMA UploadFacts ==
  ASSUME NEW a \in Attachments
  PROVE  /\ a \in Objects /\ a \notin Owners
         /\ Upload(a).of = a /\ Upload(a) \in Files
         /\ Upload(a) # Unused /\ Upload(a) # Removed
         /\ Unused # Removed /\ Unused # NoFile
         /\ Unused \notin Attachments /\ Unused \notin Owners
         /\ Unused \notin Files /\ Removed \notin Files /\ NoFile \notin Files
         /\ \A b \in Attachments : Upload(a) = Upload(b) <=> a = b
<1>1. a \in Objects /\ a \notin Owners /\ Upload(a) \in Files
  BY GroupsAssumption DEF Objects, Files
<1>2. Marks \intersect Files = {}
  BY MarksAssumption
<1>3. Upload(a).of = a /\ \A b \in Attachments : Upload(b).of = b
  BY DEF Upload
<1>. QED
  BY <1>1, <1>2, <1>3, MarksAssumption DEF Marks, Objects

LEMMA StoreInit == Init => StoreInv
<1>. SUFFICES ASSUME Init PROVE StoreInv
  OBVIOUS
<1>1. Typed
  BY DEF Init, Typed, Stages
<1>2. \A s \in Slots : Works(s)
  BY DEF Init, Works
<1>3. \A a \in Attachments : NamesUpload(a) /\ TookFile(a)
  BY UploadFacts DEF Init, NamesUpload, TookFile
<1>. QED
  BY <1>1, <1>2, <1>3 DEF StoreInv

LEMMA StoreUploadKeeps ==
  ASSUME StoreInv, NEW s \in Slots, NEW a \in Attachments, StoreUpload(s, a)
  PROVE  StoreInv'
<1>1. /\ pc[s] = "idle" /\ row[a] = Unused /\ row' = row /\ answers' = answers
      /\ disk' = disk \union {Upload(a)}
      /\ pc' = [pc EXCEPT ![s] = "storing"] /\ object' = [object EXCEPT ![s] = a]
      /\ seen' = [seen EXCEPT ![s] = row[a]] /\ new' = [new EXCEPT ![s] = Upload(a)]
  BY DEF StoreUpload, IsNew, Starts, history
<1>2. Typed'
  BY <1>1 DEF StoreInv, Typed, Stages
<1>3. \A q \in Slots : Works(q)'
  BY <1>1 DEF StoreInv, Typed, Works
<1>4. \A b \in Attachments : NamesUpload(b)' /\ TookFile(b)'
  BY <1>1, UploadFacts DEF StoreInv, NamesUpload, TookFile
<1>. QED
  BY <1>2, <1>3, <1>4 DEF StoreInv

LEMMA AsksKeep ==
  ASSUME StoreInv, NEW s \in Slots,
         \/ \E a \in Attachments : AskRemoval(s, a)
         \/ \E g \in Groups, e \in Exts : CreateWithAvatar(s, g, e)
         \/ \E o \in Owners, e \in Exts : AskChange(s, o, e)
  PROVE  StoreInv'
<1>1. /\ row' = row /\ disk' = disk /\ answers' = answers /\ pc[s] = "idle"
  BY DEF AskRemoval, CreateWithAvatar, AskChange, Starts, Counts, history
<1>2. ASSUME NEW a \in Attachments, AskRemoval(s, a)
      PROVE  Typed' /\ \A q \in Slots : Works(q)'
  <2>1. /\ pc' = [pc EXCEPT ![s] = "unlinking"] /\ object' = [object EXCEPT ![s] = a]
        /\ seen' = [seen EXCEPT ![s] = row[a]] /\ new' = [new EXCEPT ![s] = Unused]
        /\ row[a] \in Files
    BY <1>2 DEF AskRemoval, Starts
  <2>2. row[a] = Upload(a)
    BY <2>1, UploadFacts DEF StoreInv, NamesUpload
  <2>. QED
    BY <1>1, <2>1, <2>2, UploadFacts DEF StoreInv, Typed, Stages, Works
<1>3. ASSUME NEW o \in Owners, NEW e \in Exts, NEW at \in {"writing", "replacing"},
             Starts(s, at, o, Avatar(o, e))
      PROVE  Typed' /\ \A q \in Slots : Works(q)'
  <2>1. /\ pc' = [pc EXCEPT ![s] = at] /\ object' = [object EXCEPT ![s] = o]
        /\ seen' = [seen EXCEPT ![s] = row[o]] /\ new' = [new EXCEPT ![s] = Avatar(o, e)]
    BY <1>3 DEF Starts
  <2>2. Avatar(o, e).of = o
    BY DEF Avatar
  <2>3. at # "idle" /\ at \in Stages /\ at \notin {"storing", "unlinking", "removing"}
    BY DEF Stages
  <2>4. Typed'
    BY <1>1, <2>1, <2>3 DEF StoreInv, Typed
  <2>5. ASSUME NEW q \in Slots PROVE Works(q)'
    <3>1. CASE q = s
      BY <2>1, <2>2, <2>3, <3>1 DEF StoreInv, Typed, Works
    <3>2. CASE q # s
      BY <1>1, <2>1, <3>2 DEF StoreInv, Typed, Works
    <3>. QED
      BY <3>1, <3>2
  <2>. QED
    BY <2>4, <2>5
<1>4. Typed' /\ \A q \in Slots : Works(q)'
  BY <1>2, <1>3, GroupsAssumption DEF CreateWithAvatar, AskChange
<1>5. \A a \in Attachments : NamesUpload(a)' /\ TookFile(a)'
  BY <1>1 DEF StoreInv, NamesUpload, TookFile
<1>. QED
  BY <1>4, <1>5 DEF StoreInv

(* A request ends, and the rows are as they were but for at most that of   *)
(* its object.                                                             *)
LEMMA EndKeeps ==
  ASSUME StoreInv, NEW s \in Slots, Ends(s), disk' = disk, answers' = answers,
         NEW x \in Objects, NEW value,
         row' = row \/ row' = [row EXCEPT ![x] = value],
         x \in Attachments => value \in {Removed, Upload(x)}
  PROVE  StoreInv'
<1>1. /\ pc' = [pc EXCEPT ![s] = "idle"]
      /\ \A q \in Slots : q # s => object'[q] = object[q] /\ seen'[q] = seen[q] /\ new'[q] = new[q]
  BY DEF Ends, StoreInv, Typed
<1>2. Typed'
  BY DEF Ends, StoreInv, Typed, Stages
<1>3. \A a \in Attachments : NamesUpload(a)' /\ (row[a] # Unused => row'[a] # Unused)
  BY UploadFacts DEF StoreInv, Typed, NamesUpload
<1>4. ASSUME NEW q \in Slots PROVE Works(q)'
  <2>1. CASE q = s
    BY <1>1, <2>1 DEF StoreInv, Typed, Works
  <2>2. CASE q # s
    BY <1>1, <1>3, <2>2 DEF StoreInv, Typed, Works
  <2>. QED
    BY <2>1, <2>2
<1>5. \A a \in Attachments : TookFile(a)'
  BY <1>3 DEF StoreInv, TookFile
<1>. QED
  BY <1>2, <1>3, <1>4, <1>5 DEF StoreInv

(* The unlinking decides who has removed the attachment.                   *)
LEMMA UnlinkUploadKeeps ==
  ASSUME StoreInv, NEW s \in Slots, UnlinkUpload(s)
  PROVE  StoreInv'
<1>. DEFINE a == object[s]
<1>1. /\ pc[s] = "unlinking" /\ pc' = [pc EXCEPT ![s] = "removing"]
      /\ UNCHANGED <<object, seen, new, row>>
      /\ seen[s] \in disk /\ disk' = disk \ {seen[s]}
      /\ answers' = [answers EXCEPT ![a] = @ + 1]
  BY DEF UnlinkUpload, Goes
<1>2. a \in Attachments /\ seen[s] = Upload(a) /\ row[a] # Unused
  BY <1>1 DEF StoreInv, Works
<1>3. Typed' /\ \A q \in Slots : Works(q)'
  BY <1>1, <1>2 DEF StoreInv, Typed, Stages, Works
<1>4. answers[a] = 0 /\ answers'[a] = 1
  BY <1>1, <1>2 DEF StoreInv, Typed, TookFile
<1>5. \A b \in Attachments : NamesUpload(b)' /\ TookFile(b)'
  BY <1>1, <1>2, <1>4 DEF StoreInv, Typed, NamesUpload, TookFile
<1>. QED
  BY <1>3, <1>5 DEF StoreInv

(* Changes of avatars do not touch the files of attachments.               *)
LEMMA AvatarKeeps ==
  ASSUME StoreInv, NEW s \in Slots, UnlinkAvatar(s) \/ WriteAvatar(s)
  PROVE  StoreInv'
<1>1. /\ UNCHANGED <<object, seen, new, row, answers>>
      /\ \/ pc[s] = "replacing" /\ pc' = [pc EXCEPT ![s] = "writing"]
         \/ pc[s] = "writing" /\ pc' = [pc EXCEPT ![s] = "flushing"]
      /\ disk' \subseteq disk \/ disk' = disk \union {new[s]}
      /\ new[s].of \in Owners
  BY DEF UnlinkAvatar, WriteAvatar, Goes, history, StoreInv, Works
<1>2. Typed'
  BY <1>1 DEF StoreInv, Typed, Stages
<1>3. \A q \in Slots : Works(q)'
  BY <1>1 DEF StoreInv, Typed, Works
<1>4. \A a \in Attachments : Upload(a) \in disk' => Upload(a) \in disk
  BY <1>1, UploadFacts
<1>5. \A a \in Attachments : NamesUpload(a)' /\ TookFile(a)'
  BY <1>1, <1>4 DEF StoreInv, NamesUpload, TookFile
<1>. QED
  BY <1>2, <1>3, <1>5 DEF StoreInv

LEMMA OwnerKeeps ==
  ASSUME StoreInv, NEW o \in Owners, Create(o) \/ RemoveOwner(o)
  PROVE  StoreInv'
<1>1. /\ UNCHANGED <<disk, request, answers>>
      /\ row' = [row EXCEPT ![o] = NoFile] \/ row' = [row EXCEPT ![o] = Removed]
  BY DEF Create, RemoveOwner, history
<1>2. o \notin Attachments
  BY GroupsAssumption
<1>3. \A a \in Attachments : row'[a] = row[a]
  BY <1>1, <1>2, UploadFacts DEF StoreInv, Typed
<1>4. Typed'
  BY <1>1 DEF StoreInv, Typed, request
<1>5. \A q \in Slots : Works(q)'
  BY <1>1, <1>3 DEF StoreInv, Works, request
<1>6. \A a \in Attachments : NamesUpload(a)' /\ TookFile(a)'
  BY <1>1, <1>3 DEF StoreInv, NamesUpload, TookFile
<1>. QED
  BY <1>4, <1>5, <1>6 DEF StoreInv

LEMMA StepKeeps ==
  ASSUME StoreInv, NEW s \in Slots, Step(s)
  PROVE  StoreInv'
<1>1. CASE RefuseUpload(s) \/ NothingToUnlink(s) \/ ChangeFails(s)
  <2>1. Ends(s) /\ disk' = disk /\ answers' = answers /\ row' = row
    BY <1>1 DEF RefuseUpload, NothingToUnlink, ChangeFails, Fault, history
  <2>2. object[s] \in Objects
    BY <1>1 DEF RefuseUpload, NothingToUnlink, ChangeFails, StoreInv, Works, Objects
  <2>. QED
    BY <2>1, <2>2, EndKeeps
<1>2. CASE CreateAttachment(s)
  <2>1. /\ Ends(s) /\ disk' = disk /\ answers' = answers
        /\ row' = [row EXCEPT ![object[s]] = Upload(object[s])]
        /\ object[s] \in Attachments
    BY <1>2 DEF CreateAttachment, history, StoreInv, Works
  <2>. QED
    BY <2>1, EndKeeps, UploadFacts
<1>3. CASE DropRow(s)
  <2>1. /\ Ends(s) /\ disk' = disk /\ answers' = answers
        /\ row' = [row EXCEPT ![object[s]] = Removed]
        /\ object[s] \in Attachments
    BY <1>3 DEF DropRow, history, StoreInv, Works
  <2>. QED
    BY <2>1, EndKeeps, UploadFacts
<1>4. CASE Flush(s)
  <2>1. /\ Ends(s) /\ disk' = disk /\ answers' = answers
        /\ row' = row \/ row' = [row EXCEPT ![object[s]] = new[s]]
        /\ object[s] \in Owners
    BY <1>4 DEF Flush, history, StoreInv, Works
  <2>2. object[s] \in Objects /\ object[s] \notin Attachments
    BY <2>1, GroupsAssumption DEF Objects
  <2>. QED
    BY <2>1, <2>2, EndKeeps
<1>. QED
  BY <1>1, <1>2, <1>3, <1>4, UnlinkUploadKeeps, AvatarKeeps DEF Step

LEMMA StoreNext == StoreInv /\ [Next]_vars => StoreInv'
<1>. SUFFICES ASSUME StoreInv, [Next]_vars PROVE StoreInv'
  OBVIOUS
<1>1. CASE Crash
  <2>1. /\ pc' = [s \in Slots |-> "idle"] /\ row' = row /\ disk' = disk /\ answers' = answers
        /\ DOMAIN object' = Slots /\ DOMAIN seen' = Slots /\ DOMAIN new' = Slots
    BY <1>1 DEF Crash, Fault
  <2>2. Typed' /\ \A s \in Slots : Works(s)'
    BY <2>1 DEF StoreInv, Typed, Stages, Works
  <2>. QED
    BY <2>1, <2>2 DEF StoreInv, NamesUpload, TookFile
<1>2. CASE UNCHANGED vars
  BY <1>2 DEF vars, request, history, StoreInv, Typed, Works, NamesUpload, TookFile
<1>. QED
  BY <1>1, <1>2, StoreUploadKeeps, AsksKeep, StepKeeps, OwnerKeeps DEF Next, Quiet

(* However many requests to remove an attachment overlap, whatever fails   *)
(* and whenever the process ends, at most one of them is answered with     *)
(* success.                                                                *)
THEOREM RemovedByOne == Spec => []RemovedOnce
<1>1. StoreInv => RemovedOnce
  BY DEF StoreInv, TookFile, RemovedOnce
<1>. QED
  BY <1>1, StoreInit, StoreNext, PTL DEF Spec
-----------------------------------------------------------------------------
(* A change of an avatar is about files of its own object only.            *)
Changing(s) == pc[s] \in {"replacing", "writing", "flushing"}
Owned(s) ==
  Changing(s) =>
    /\ new[s] \in Files
    /\ seen[s] \in Files => seen[s].of = object[s]
    /\ pc[s] = "replacing" => seen[s] \in Files

FilesInv ==
  /\ TypeOK
  /\ \A s \in Slots : Owned(s)
  /\ \A x \in Objects : row[x] \in Files => row[x].of = x

LEMMA FileFacts ==
  /\ \A a \in Attachments : Upload(a) \in Files /\ Upload(a).of = a
  /\ \A o \in Owners, e \in Exts : Avatar(o, e) \in Files /\ Avatar(o, e).of = o
  /\ Attachments \subseteq Objects /\ Owners \subseteq Objects /\ Groups \subseteq Owners
  /\ Unused \notin Objects /\ \A m \in Marks : m \notin Files
  /\ Unused \in Marks /\ Removed \in Marks /\ NoFile \in Marks
<1>1. \A o \in Owners, e \in Exts : Avatar(o, e) \in Files /\ Avatar(o, e).of = o
  BY DEF Files, Avatar
<1>. QED
  BY <1>1, UploadFacts, GroupsAssumption, MarksAssumption DEF Objects, Marks

LEMMA StartsFiles ==
  ASSUME FilesInv, NEW s \in Slots, NEW x \in Objects, NEW file \in Files \union Marks,
         NEW at \in {"storing", "unlinking", "replacing", "writing"},
         Starts(s, at, x, file),
         at \in {"replacing", "writing"} => file \in Files,
         at = "replacing" => row[x] \in Files
  PROVE  /\ pc' \in [Slots -> Stages] /\ object' \in [Slots -> Objects \union {Unused}]
         /\ seen' \in [Slots -> Files \union Marks] /\ new' \in [Slots -> Files \union Marks]
         /\ \A q \in Slots : Owned(q)'
<1>1. row[x] \in Files \union Marks /\ (row[x] \in Files => row[x].of = x)
  BY DEF FilesInv, TypeOK
<1>2. /\ pc' \in [Slots -> Stages] /\ object' \in [Slots -> Objects \union {Unused}]
      /\ seen' \in [Slots -> Files \union Marks] /\ new' \in [Slots -> Files \union Marks]
  BY <1>1 DEF Starts, FilesInv, TypeOK, Stages
<1>3. /\ pc'[s] = at /\ object'[s] = x /\ seen'[s] = row[x] /\ new'[s] = file
      /\ \A q \in Slots : q # s => /\ pc'[q] = pc[q] /\ object'[q] = object[q]
                                   /\ seen'[q] = seen[q] /\ new'[q] = new[q]
  BY DEF Starts, FilesInv, TypeOK
<1>4. \A q \in Slots : Owned(q)'
  BY <1>1, <1>3 DEF FilesInv, Owned, Changing
<1>. QED
  BY <1>2, <1>4

LEMMA EndsFiles ==
  ASSUME FilesInv, NEW s \in Slots, Ends(s)
  PROVE  /\ pc' \in [Slots -> Stages] /\ object' \in [Slots -> Objects \union {Unused}]
         /\ seen' \in [Slots -> Files \union Marks] /\ new' \in [Slots -> Files \union Marks]
         /\ \A q \in Slots : Owned(q)'
<1>1. /\ pc' \in [Slots -> Stages] /\ object' \in [Slots -> Objects \union {Unused}]
      /\ seen' \in [Slots -> Files \union Marks] /\ new' \in [Slots -> Files \union Marks]
  BY FileFacts DEF Ends, FilesInv, TypeOK, Stages
<1>2. /\ pc'[s] = "idle"
      /\ \A q \in Slots : q # s => /\ pc'[q] = pc[q] /\ object'[q] = object[q]
                                   /\ seen'[q] = seen[q] /\ new'[q] = new[q]
  BY DEF Ends, FilesInv, TypeOK
<1>3. \A q \in Slots : Owned(q)'
  BY <1>2 DEF FilesInv, Owned, Changing
<1>. QED
  BY <1>1, <1>3

LEMMA CountsType ==
  ASSUME TypeOK, NEW o \in Owners, Counts(o)
  PROVE  /\ burst' \in [Owners -> 0 .. 3] /\ worst' \in [Owners -> 0 .. 3]
         /\ UNCHANGED <<answers, faults, interrupted>>
BY DEF Counts, Least, Most, TypeOK

(* What a fault touches are objects.                                       *)
LEMMA FaultType ==
  ASSUME StoreInv, TypeOK, NEW slots \in SUBSET Slots, Fault(slots)
  PROVE  faults' \in Nat /\ interrupted' \subseteq Objects /\ interrupted \subseteq interrupted'
<1>1. \A s \in Touching : object[s] \in Objects
  BY DEF StoreInv, Works, Touching, Objects
<1>. QED
  BY <1>1 DEF Fault, TypeOK

LEMMA FilesInit == Init => FilesInv
BY FileFacts DEF Init, FilesInv, TypeOK, Owned, Changing

(* A request goes from one of its stages to the next.                      *)
LEMMA GoesFiles ==
  ASSUME FilesInv, NEW s \in Slots, NEW from, NEW to \in {"removing", "writing", "flushing"},
         Goes(s, from, to), to # "removing" => from \in {"replacing", "writing"}
  PROVE  pc' \in [Slots -> Stages] /\ \A q \in Slots : Owned(q)'
BY DEF FilesInv, TypeOK, Owned, Changing, Goes, Stages

LEMMA FilesNext == StoreInv /\ FilesInv /\ [Next]_vars => FilesInv'
<1>. SUFFICES ASSUME StoreInv, FilesInv, [Next]_vars PROVE FilesInv'
  OBVIOUS
<1>. USE FileFacts
<1>1. ASSUME NEW s \in Slots, NEW a \in Attachments, StoreUpload(s, a) PROVE FilesInv'
  <2>1. Starts(s, "storing", a, Upload(a)) /\ disk' = disk \union {Upload(a)}
        /\ UNCHANGED <<row, history>>
    BY <1>1 DEF StoreUpload
  <2>2. /\ pc' \in [Slots -> Stages] /\ object' \in [Slots -> Objects \union {Unused}]
        /\ seen' \in [Slots -> Files \union Marks] /\ new' \in [Slots -> Files \union Marks]
        /\ \A q \in Slots : Owned(q)'
    BY <2>1, StartsFiles
  <2>. QED
    BY <2>1, <2>2 DEF FilesInv, TypeOK, history, Stages
<1>2. ASSUME NEW s \in Slots, NEW a \in Attachments, AskRemoval(s, a) PROVE FilesInv'
  <2>1. Starts(s, "unlinking", a, Unused) /\ UNCHANGED <<disk, row, history>>
    BY <1>2 DEF AskRemoval
  <2>2. /\ pc' \in [Slots -> Stages] /\ object' \in [Slots -> Objects \union {Unused}]
        /\ seen' \in [Slots -> Files \union Marks] /\ new' \in [Slots -> Files \union Marks]
        /\ \A q \in Slots : Owned(q)'
    BY <2>1, StartsFiles
  <2>. QED
    BY <2>1, <2>2 DEF FilesInv, TypeOK, history, Stages
<1>3. ASSUME NEW s \in Slots, NEW o \in Owners, NEW e \in Exts,
             NEW at \in {"writing", "replacing"}, at = "replacing" => row[o] \in Files,
             Starts(s, at, o, Avatar(o, e)), Counts(o), UNCHANGED <<disk, row>>
      PROVE  FilesInv'
  <2>1. /\ pc' \in [Slots -> Stages] /\ object' \in [Slots -> Objects \union {Unused}]
        /\ seen' \in [Slots -> Files \union Marks] /\ new' \in [Slots -> Files \union Marks]
        /\ \A q \in Slots : Owned(q)'
    BY <1>3, StartsFiles
  <2>2. /\ burst' \in [Owners -> 0 .. 3] /\ worst' \in [Owners -> 0 .. 3]
        /\ UNCHANGED <<answers, faults, interrupted>>
    BY <1>3, CountsType DEF FilesInv
  <2>. QED
    BY <1>3, <2>1, <2>2 DEF FilesInv, TypeOK, Stages
<1>4. ASSUME NEW s \in Slots, Ends(s), disk' = disk, UNCHANGED history,
             NEW x, NEW value \in Files \union Marks, value \in Files => value.of = x,
             row' = row \/ row' = [row EXCEPT ![x] = value]
      PROVE  FilesInv'
  <2>1. /\ pc' \in [Slots -> Stages] /\ object' \in [Slots -> Objects \union {Unused}]
        /\ seen' \in [Slots -> Files \union Marks] /\ new' \in [Slots -> Files \union Marks]
        /\ \A q \in Slots : Owned(q)'
    BY <1>4, EndsFiles
  <2>2. row' \in [Objects -> Files \union Marks]
        /\ \A y \in Objects : row'[y] \in Files => row'[y].of = y
    BY <1>4 DEF FilesInv, TypeOK
  <2>. QED
    BY <1>4, <2>1, <2>2 DEF FilesInv, TypeOK, history, Stages
<1>5. ASSUME NEW s \in Slots, Step(s) PROVE FilesInv'
  <2>1. CASE RefuseUpload(s) \/ NothingToUnlink(s)
    BY <1>4, <2>1 DEF RefuseUpload, NothingToUnlink
  <2>2. CASE CreateAttachment(s)
    <3>1. new[s] \in Files /\ new[s].of = object[s]
      BY <2>2 DEF CreateAttachment, StoreInv, Works
    <3>. QED
      BY <1>4, <2>2, <3>1 DEF CreateAttachment
  <2>3. CASE DropRow(s)
    BY <1>4, <2>3 DEF DropRow
  <2>4. CASE Flush(s)
    <3>1. new[s] \in Files /\ new[s].of = object[s]
      BY <2>4 DEF Flush, StoreInv, Works, FilesInv, Owned, Changing
    <3>. QED
      BY <1>4, <2>4, <3>1 DEF Flush
  <2>5. CASE UnlinkUpload(s)
    <3>1. pc' \in [Slots -> Stages] /\ \A q \in Slots : Owned(q)'
      BY <2>5, GoesFiles DEF UnlinkUpload
    <3>2. answers' \in [Attachments -> Nat]
      BY <2>5 DEF UnlinkUpload, Goes, StoreInv, Typed, Works
    <3>3. disk' \subseteq Files /\ UNCHANGED <<row, object, seen, new, faults, interrupted, burst, worst>>
      BY <2>5 DEF UnlinkUpload, Goes, FilesInv, TypeOK
    <3>. QED
      BY <3>1, <3>2, <3>3 DEF FilesInv, TypeOK, Stages
  <2>6. CASE UnlinkAvatar(s) \/ WriteAvatar(s)
    <3>1. pc' \in [Slots -> Stages] /\ \A q \in Slots : Owned(q)'
      BY <2>6, GoesFiles DEF UnlinkAvatar, WriteAvatar
    <3>2. disk' \subseteq Files /\ UNCHANGED <<row, object, seen, new, history>>
      BY <2>6 DEF UnlinkAvatar, WriteAvatar, Goes, FilesInv, TypeOK, Owned, Changing
    <3>. QED
      BY <3>1, <3>2 DEF FilesInv, TypeOK, history, Stages
  <2>7. CASE ChangeFails(s)
    <3>1. Ends(s) /\ Fault({s}) /\ UNCHANGED <<disk, row, answers, burst, worst>>
      BY <2>7 DEF ChangeFails, Fault
    <3>2. faults' \in Nat /\ interrupted' \subseteq Objects
      BY <3>1, FaultType DEF FilesInv
    <3>. QED
      BY <3>1, <3>2, EndsFiles DEF FilesInv, TypeOK, Stages
  <2>. QED
    BY <1>5, <2>1, <2>2, <2>3, <2>4, <2>5, <2>6, <2>7 DEF Step
<1>6. ASSUME NEW o \in Owners, Create(o) \/ RemoveOwner(o) PROVE FilesInv'
  <2>1. /\ UNCHANGED <<disk, request, history>>
        /\ row' = [row EXCEPT ![o] = NoFile] \/ row' = [row EXCEPT ![o] = Removed]
    BY <1>6 DEF Create, RemoveOwner
  <2>2. row' \in [Objects -> Files \union Marks]
        /\ \A y \in Objects : row'[y] \in Files => row'[y].of = y
    BY <2>1 DEF FilesInv, TypeOK
  <2>. QED
    BY <2>1, <2>2 DEF FilesInv, TypeOK, Owned, Changing, request, history
<1>7. CASE Crash
  <2>1. faults' \in Nat /\ interrupted' \subseteq Objects
    BY <1>7, FaultType DEF Crash, FilesInv
  <2>. QED
    BY <1>7, <2>1 DEF Crash, Fault, FilesInv, TypeOK, Owned, Changing
<1>8. CASE UNCHANGED vars
  BY <1>8 DEF vars, request, history, FilesInv, TypeOK, Owned, Changing
<1>9. ASSUME NEW s \in Slots, NEW g \in Groups, NEW e \in Exts, CreateWithAvatar(s, g, e)
      PROVE  FilesInv'
  BY <1>3, <1>9 DEF CreateWithAvatar
<1>10. ASSUME NEW s \in Slots, NEW o \in Owners, NEW e \in Exts, AskChange(s, o, e)
       PROVE  FilesInv'
  <2>1. CASE row[o] = NoFile
    BY <1>3, <1>10, <2>1 DEF AskChange
  <2>2. CASE row[o] \in Files
    <3>1. Starts(s, "replacing", o, Avatar(o, e))
      BY <1>10, <2>2 DEF AskChange
    <3>. QED
      BY <1>3, <1>10, <2>2, <3>1 DEF AskChange
  <2>. QED
    BY <1>10, <2>1, <2>2 DEF AskChange
<1>. QED
  BY <1>1, <1>2, <1>5, <1>6, <1>7, <1>8, <1>9, <1>10 DEF Next, Quiet

LEMMA FilesHold == Spec => [](StoreInv /\ FilesInv)
BY StoreInit, StoreNext, FilesInit, FilesNext, PTL DEF Spec

(* The state of disk, rows and requests is well-formed.                    *)
THEOREM TypeCorrect == Spec => []TypeOK
<1>1. FilesInv => TypeOK
  BY DEF FilesInv
<1>. QED
  BY <1>1, FilesHold, PTL
-----------------------------------------------------------------------------
(* An upload stays on the disk until its row is written, and from then on  *)
(* until a removal has taken it, which is then about to drop the row.      *)
StoredFirst(s) ==
  pc[s] = "storing" =>
    /\ new[s] \in disk /\ row[object[s]] = Unused
    /\ \A q \in Slots : pc[q] # "idle" /\ object[q] = object[s] => q = s

UploadThere(a) ==
  row[a] \in Files /\ a \notin interrupted =>
    row[a] \in disk \/ \E s \in Slots : pc[s] = "removing" /\ object[s] = a

UploadsInv ==
  /\ \A s \in Slots : StoredFirst(s)
  /\ \A a \in Attachments : UploadThere(a)

LEMMA UploadsStart ==
  ASSUME StoreInv, UploadsInv, NEW s \in Slots, NEW at, NEW x \in Objects, NEW file,
         Starts(s, at, x, file), row' = row, interrupted' = interrupted, disk \subseteq disk',
         at = "storing" => IsNew(x) /\ file \in disk',
         x \in Attachments => IsNew(x) \/ row[x] # Unused
  PROVE  UploadsInv'
<1>1. /\ pc[s] = "idle" /\ pc'[s] = at /\ object'[s] = x /\ new'[s] = file
      /\ \A q \in Slots : q # s => pc'[q] = pc[q] /\ object'[q] = object[q] /\ new'[q] = new[q]
  BY DEF Starts, StoreInv, Typed
<1>2. ASSUME NEW q \in Slots PROVE StoredFirst(q)'
  <2>1. CASE q = s
    BY <1>1, <2>1 DEF StoredFirst, IsNew, UnderWay
  <2>2. CASE q # s /\ pc[q] = "storing"
    <3>1. StoredFirst(q) /\ object[q] \in Attachments
      BY <2>2 DEF UploadsInv, StoreInv, Works
    <3>2. x # object[q]
      BY <2>2, <3>1 DEF StoredFirst, IsNew, UnderWay
    <3>. QED
      BY <1>1, <2>2, <3>1, <3>2 DEF StoredFirst
  <2>3. CASE q # s /\ pc[q] # "storing"
    BY <1>1, <2>3 DEF StoredFirst
  <2>. QED
    BY <2>1, <2>2, <2>3
<1>3. \A a \in Attachments : UploadThere(a)'
  BY <1>1 DEF UploadsInv, UploadThere
<1>. QED
  BY <1>2, <1>3 DEF UploadsInv

LEMMA UploadsEnd ==
  ASSUME StoreInv, UploadsInv, NEW s \in Slots, pc[s] # "idle", Ends(s), disk' = disk,
         interrupted \subseteq interrupted', NEW x \in Objects, NEW value,
         row' = row \/ row' = [row EXCEPT ![x] = value],
         x = object[s], x \in Attachments => value \in disk \/ value = Removed,
         pc[s] = "removing" => row' = [row EXCEPT ![x] = value] /\ value = Removed
  PROVE  UploadsInv'
<1>1. /\ pc'[s] = "idle"
      /\ \A q \in Slots : q # s => pc'[q] = pc[q] /\ object'[q] = object[q] /\ new'[q] = new[q]
  BY DEF Ends, StoreInv, Typed
<1>2. /\ row'[x] = row[x] \/ row'[x] = value
      /\ pc[s] = "removing" => row'[x] = Removed
      /\ \A y \in Objects : y # x => row'[y] = row[y]
  BY DEF StoreInv, Typed
<1>3. ASSUME NEW q \in Slots PROVE StoredFirst(q)'
  <2>1. CASE q = s \/ pc[q] # "storing"
    BY <1>1, <2>1 DEF StoredFirst
  <2>2. CASE q # s /\ pc[q] = "storing"
    <3>1. StoredFirst(q) /\ object[q] \in Attachments /\ object[q] \in Objects
      BY <2>2 DEF UploadsInv, StoreInv, Works, Objects
    <3>2. x # object[q]
      BY <2>2, <3>1 DEF StoredFirst
    <3>. QED
      BY <1>1, <1>2, <2>2, <3>1, <3>2 DEF StoredFirst
  <2>. QED
    BY <2>1, <2>2
<1>4. ASSUME NEW a \in Attachments PROVE UploadThere(a)'
  <2>1. CASE a = x
    BY <1>1, <1>2, <2>1, UploadFacts DEF UploadsInv, UploadThere
  <2>2. CASE a # x
    BY <1>1, <1>2, <2>2, UploadFacts DEF UploadsInv, UploadThere
  <2>. QED
    BY <2>1, <2>2
<1>. QED
  BY <1>3, <1>4 DEF UploadsInv
(* Unlinking the file of one object leaves those of the others.            *)
LEMMA UploadsGo ==
  ASSUME StoreInv, FilesInv, UploadsInv, NEW s \in Slots,
         UnlinkUpload(s) \/ UnlinkAvatar(s) \/ WriteAvatar(s)
  PROVE  UploadsInv'
<1>1. /\ UNCHANGED <<object, seen, new, row, interrupted>>
      /\ pc[s] \in {"unlinking", "replacing", "writing"}
      /\ pc' = [pc EXCEPT ![s] = IF pc[s] = "unlinking" THEN "removing"
                                 ELSE IF pc[s] = "replacing" THEN "writing" ELSE "flushing"]
      /\ pc[s] = "writing" => disk \subseteq disk'
      /\ pc[s] # "writing" => disk' = disk \ {seen[s]} /\ seen[s] \in disk
  BY DEF UnlinkUpload, UnlinkAvatar, WriteAvatar, Goes, history
<1>2. pc[s] # "writing" => seen[s] \in Files /\ seen[s].of = object[s] /\ object[s] \in Objects
  BY <1>1, UploadFacts DEF StoreInv, Works, FilesInv, Owned, Changing, Objects
<1>3. /\ pc'[s] # "storing" /\ pc'[s] # "idle" /\ (pc[s] = "unlinking" => pc'[s] = "removing")
      /\ \A q \in Slots : q # s => pc'[q] = pc[q]
  BY <1>1 DEF StoreInv, Typed
<1>4. ASSUME NEW q \in Slots PROVE StoredFirst(q)'
  <2>1. CASE q = s \/ pc[q] # "storing"
    BY <1>3, <2>1 DEF StoredFirst
  <2>2. CASE q # s /\ pc[q] = "storing"
    <3>1. /\ StoredFirst(q) /\ object[q] \in Attachments /\ new[q] = Upload(object[q])
          /\ object[q] # object[s]
      BY <1>1, <2>2 DEF UploadsInv, StoreInv, Works, StoredFirst
    <3>2. new[q].of = object[q]
      BY <3>1, UploadFacts
    <3>3. new[q] \in disk'
      BY <1>1, <1>2, <2>2, <3>1, <3>2 DEF StoredFirst
    <3>. QED
      BY <1>1, <1>3, <2>2, <3>1, <3>3 DEF StoredFirst
  <2>. QED
    BY <2>1, <2>2
<1>5. ASSUME NEW a \in Attachments PROVE UploadThere(a)'
  <2>1. CASE a = object[s] /\ pc[s] = "unlinking"
    BY <1>1, <1>3, <2>1 DEF UploadThere
  <2>2. CASE a # object[s] \/ pc[s] = "writing"
    <3>1. row[a] \in Files => row[a].of = a
      BY UploadFacts DEF FilesInv
    <3>. QED
      BY <1>1, <1>2, <1>3, <2>2, <3>1 DEF UploadsInv, UploadThere
  <2>3. pc[s] # "unlinking" => a # object[s]
    BY <1>1, GroupsAssumption DEF StoreInv, Works
  <2>. QED
    BY <2>1, <2>2, <2>3
<1>. QED
  BY <1>4, <1>5 DEF UploadsInv

LEMMA UploadsNext == StoreInv /\ FilesInv /\ UploadsInv /\ [Next]_vars => UploadsInv'
<1>. SUFFICES ASSUME StoreInv, FilesInv, UploadsInv, [Next]_vars PROVE UploadsInv'
  OBVIOUS
<1>1. \A o \in Owners : o \in Objects /\ o \notin Attachments
  BY GroupsAssumption DEF Objects
<1>2. ASSUME NEW s \in Slots, NEW a \in Attachments, StoreUpload(s, a) PROVE UploadsInv'
  BY <1>2, UploadsStart, FileFacts DEF StoreUpload, history
<1>3. ASSUME NEW s \in Slots, NEW a \in Attachments, AskRemoval(s, a) PROVE UploadsInv'
  BY <1>3, UploadsStart, FileFacts DEF AskRemoval, history
<1>4. ASSUME NEW s \in Slots, NEW o \in Owners, NEW e \in Exts,
             CreateWithAvatar(s, o, e) \/ AskChange(s, o, e)
      PROVE  UploadsInv'
  <2>1. PICK at \in {"writing", "replacing"} : Starts(s, at, o, Avatar(o, e))
    BY <1>4 DEF CreateWithAvatar, AskChange
  <2>2. UNCHANGED <<row, disk, interrupted>>
    BY <1>4 DEF CreateWithAvatar, AskChange, Counts
  <2>. QED
    BY <1>1, <2>1, <2>2, UploadsStart
<1>5. ASSUME NEW s \in Slots, Step(s) PROVE UploadsInv'
  <2>. DEFINE x == object[s]
  <2>1. pc[s] # "idle" => x \in Objects
    BY DEF StoreInv, Typed, Stages, Works, Objects
  <2>2. CASE RefuseUpload(s) \/ NothingToUnlink(s)
    BY <2>1, <2>2, UploadsEnd DEF RefuseUpload, NothingToUnlink, history
  <2>3. CASE CreateAttachment(s)
    <3>1. new[s] \in disk
      BY <2>3 DEF CreateAttachment, UploadsInv, StoredFirst
    <3>. QED
      BY <2>1, <2>3, <3>1, UploadsEnd DEF CreateAttachment, history
  <2>4. CASE DropRow(s)
    BY <2>1, <2>4, UploadsEnd DEF DropRow, history
  <2>5. CASE Flush(s)
    <3>1. x \notin Attachments
      BY <2>5, GroupsAssumption DEF Flush, StoreInv, Works
    <3>. QED
      BY <2>1, <2>5, <3>1, UploadsEnd DEF Flush, history
  <2>6. CASE ChangeFails(s)
    <3>1. /\ pc[s] \in {"writing", "flushing"} /\ Ends(s) /\ UNCHANGED <<disk, row>>
          /\ interrupted \subseteq interrupted'
      BY <2>6 DEF ChangeFails, Fault
    <3>2. x \notin Attachments
      BY <3>1, GroupsAssumption DEF StoreInv, Works
    <3>. QED
      BY <2>1, <3>1, <3>2, UploadsEnd
  <2>. QED
    BY <1>5, <2>2, <2>3, <2>4, <2>5, <2>6, UploadsGo DEF Step
<1>6. ASSUME NEW o \in Owners, Create(o) \/ RemoveOwner(o) PROVE UploadsInv'
  <2>1. /\ UNCHANGED <<disk, request, history>>
        /\ row' = [row EXCEPT ![o] = NoFile] \/ row' = [row EXCEPT ![o] = Removed]
    BY <1>6 DEF Create, RemoveOwner
  <2>2. \A a \in Attachments : row'[a] = row[a]
    BY <1>1, <2>1, FileFacts DEF StoreInv, Typed
  <2>3. \A q \in Slots : StoredFirst(q)'
    BY <2>1, <2>2 DEF UploadsInv, StoredFirst, StoreInv, Works, request
  <2>. QED
    BY <2>1, <2>2, <2>3 DEF UploadsInv, UploadThere, request, history
<1>7. CASE Crash
  <2>1. \A q \in Slots : pc'[q] = "idle"
    BY <1>7 DEF Crash
  <2>2. UNCHANGED <<disk, row>> /\ interrupted \subseteq interrupted'
        /\ \A q \in Slots : pc[q] = "removing" => object[q] \in interrupted'
    BY <1>7 DEF Crash, Fault, Touching
  <2>. QED
    BY <2>1, <2>2 DEF UploadsInv, UploadThere, StoredFirst
<1>8. CASE UNCHANGED vars
  BY <1>8 DEF vars, request, history, UploadsInv, StoredFirst, UploadThere
<1>. QED
  BY <1>2, <1>3, <1>4, <1>5, <1>6, <1>7, <1>8, FileFacts DEF Next, Quiet
-----------------------------------------------------------------------------
(* What the file store promises about an avatar it promises as long as no  *)
(* request was cut off, three changes have never overlapped, and the owner *)
(* is there.                                                               *)
Kept(o) == o \notin interrupted /\ worst[o] <= 2 /\ row[o] # Removed

Few(o) ==
  /\ burst[o] <= worst[o]
  /\ UnderWay(o) # {} => burst[o] >= 1
  /\ \A s, q \in UnderWay(o) : s = q \/ burst[o] = 2
  /\ \A s, q, r \in UnderWay(o) : s = q \/ q = r \/ s = r

(* No change is under way.                                                 *)
Still(o) ==
  /\ row[o] \in Files => row[o] \in OnDisk(o)
  /\ row[o] = NoFile => OnDisk(o) = {}

(* The change under way is the only one since none was.                    *)
First(o, s) ==
  /\ row[o] = seen[s]
  /\ pc[s] = "flushing" =>
       new[s] \in OnDisk(o) /\ (seen[s] \in OnDisk(o) => new[s] = seen[s])

(* One change is under way; another may have ended meanwhile.              *)
Alone(o, s) ==
  \/ /\ pc[s] = "replacing"
     /\ row[o] \in OnDisk(o) /\ (row[o] = seen[s] \/ seen[s] \notin OnDisk(o))
  \/ /\ pc[s] = "writing"
     /\ IF seen[s] \in Files THEN row[o] = seen[s] /\ seen[s] \notin OnDisk(o)
        ELSE row[o] = seen[s] \/ row[o] \in OnDisk(o)
  \/ /\ pc[s] = "flushing"
     /\ IF new[s] # seen[s] THEN new[s] \in OnDisk(o) ELSE row[o] \in OnDisk(o)

(* Two changes are under way.  Both have loaded the same row, and the file *)
(* that it names decides which of them may unlink: whoever finds it there. *)
Pair(o, s, q) ==
  /\ row[o] \in Files \union {NoFile} /\ seen[s] = row[o] /\ seen[q] = row[o]
  /\ pc[s] = "replacing" /\ pc[q] = "replacing" => row[o] \in OnDisk(o)
  /\ pc[s] = "replacing" /\ pc[q] = "writing" => row[o] \notin OnDisk(o)
  /\ pc[s] = "replacing" /\ pc[q] = "flushing" =>
       new[q] \in OnDisk(o) /\ (row[o] \in OnDisk(o) => new[q] = row[o])
  /\ pc[s] = "writing" /\ row[o] \in Files =>
       /\ pc[q] # "writing" /\ row[o] \notin OnDisk(o)
       /\ pc[q] = "flushing" => new[q] = row[o]
  /\ pc[s] = "flushing" /\ pc[q] = "flushing" =>
       /\ row[o] \in Files => row[o] \in {new[s], new[q]}
       /\ new[s] # row[o] \/ new[s] = new[q] => new[s] \in OnDisk(o)
  /\ pc[s] = "flushing" /\ row[o] = NoFile => new[s] \in OnDisk(o)

Settled(o) ==
  /\ UnderWay(o) = {} => Still(o)
  /\ \A s \in UnderWay(o) :
       /\ burst[o] = 1 => First(o, s)
       /\ UnderWay(o) = {s} => Alone(o, s)
       /\ \A q \in UnderWay(o) : q # s => Pair(o, s, q)

(* A change that has unlinked a file, or found none, is owed one: files    *)
(* and debts together are no more than the changes that overlapped.        *)
Writing(o) == {s \in UnderWay(o) : pc[s] = "writing"}
Load(o) == Cardinality(OnDisk(o)) + Cardinality(Writing(o))

Bounded(o) ==
  /\ IsFiniteSet(OnDisk(o))
  /\ Load(o) <= worst[o]
  /\ UnderWay(o) # {} /\ row[o] \notin Files => Load(o) <= burst[o]

AvatarOk(o) == Kept(o) => Few(o) /\ Settled(o) /\ Bounded(o)

LEMMA OwnerFacts ==
  ASSUME StoreInv, FilesInv, NEW o \in Owners
  PROVE  /\ o \in Objects /\ o \notin Attachments
         /\ row[o] \in Files \union Marks /\ (row[o] \in Files => row[o].of = o)
         /\ burst[o] \in 0 .. 3 /\ worst[o] \in 0 .. 3
         /\ OnDisk(o) \subseteq Files
         /\ \A f : f \in OnDisk(o) <=> f \in disk /\ f.of = o
         /\ \A s \in UnderWay(o) :
              /\ s \in Slots /\ object[s] = o
              /\ pc[s] \in {"replacing", "writing", "flushing"}
              /\ new[s] \in Files /\ new[s].of = o
              /\ seen[s] \in Files \union Marks
              /\ seen[s] \in Files => seen[s].of = o
              /\ pc[s] = "replacing" => seen[s] \in Files
<1>1. o \in Objects /\ o \notin Attachments
  BY GroupsAssumption DEF Objects
<1>2. ASSUME NEW s \in UnderWay(o)
      PROVE  s \in Slots /\ object[s] = o /\ pc[s] \in {"replacing", "writing", "flushing"}
  BY <1>1, <1>2 DEF UnderWay, StoreInv, Works, Typed, Stages
<1>3. ASSUME NEW s \in UnderWay(o)
      PROVE  /\ new[s] \in Files /\ new[s].of = o /\ seen[s] \in Files \union Marks
             /\ seen[s] \in Files => seen[s].of = o
             /\ pc[s] = "replacing" => seen[s] \in Files
  BY <1>2 DEF StoreInv, Works, FilesInv, Owned, Changing, TypeOK
<1>4. /\ row[o] \in Files \union Marks /\ (row[o] \in Files => row[o].of = o)
      /\ burst[o] \in 0 .. 3 /\ worst[o] \in 0 .. 3
      /\ OnDisk(o) \subseteq Files
      /\ \A f : f \in OnDisk(o) <=> f \in disk /\ f.of = o
  BY <1>1 DEF FilesInv, TypeOK, OnDisk
<1>. QED
  BY <1>1, <1>2, <1>3, <1>4

(* Steps that have to do with other objects.                               *)
LEMMA AvatarElsewhere ==
  ASSUME NEW o \in Owners, AvatarOk(o), UnderWay(o)' = UnderWay(o), OnDisk(o)' = OnDisk(o),
         row'[o] = row[o], burst'[o] = burst[o], worst'[o] = worst[o],
         interrupted \subseteq interrupted',
         \A s \in UnderWay(o) : pc'[s] = pc[s] /\ seen'[s] = seen[s] /\ new'[s] = new[s]
  PROVE  AvatarOk(o)'
<1>1. Kept(o)' => Kept(o)
  BY DEF Kept
<1>2. Few(o) => Few(o)'
  BY DEF Few
<1>3. Settled(o) => Settled(o)'
  BY DEF Settled, Still, First, Alone, Pair
<1>4. Writing(o)' = Writing(o)
  BY DEF Writing
<1>5. Bounded(o) => Bounded(o)'
  BY <1>4 DEF Bounded, Load
<1>. QED
  BY <1>1, <1>2, <1>3, <1>5 DEF AvatarOk

(* The numbers that are counted.                                           *)
LEMMA LoadFacts ==
  ASSUME NEW o, Few(o), IsFiniteSet(OnDisk(o))
  PROVE  /\ Cardinality(OnDisk(o)) \in Nat /\ Cardinality(Writing(o)) \in Nat
         /\ IsFiniteSet(Writing(o)) /\ Load(o) \in Nat
         /\ \A s : s \notin Writing(o) =>
              Cardinality(Writing(o) \union {s}) = Cardinality(Writing(o)) + 1
         /\ \A s \in Writing(o) :
              Cardinality(Writing(o) \ {s}) = Cardinality(Writing(o)) - 1
         /\ \A f \in OnDisk(o) :
              /\ IsFiniteSet(OnDisk(o) \ {f})
              /\ Cardinality(OnDisk(o) \ {f}) = Cardinality(OnDisk(o)) - 1
         /\ \A f : /\ IsFiniteSet(OnDisk(o) \union {f})
                   /\ Cardinality(OnDisk(o) \union {f}) <= Cardinality(OnDisk(o)) + 1
                   /\ Cardinality(OnDisk(o) \union {f}) \in Nat
<1>1. IsFiniteSet(Writing(o))
  <2>1. CASE UnderWay(o) = {}
    BY <2>1, FS_EmptySet DEF Writing
  <2>2. ASSUME NEW s \in UnderWay(o) PROVE IsFiniteSet(Writing(o))
    <3>1. PICK q \in UnderWay(o) : UnderWay(o) \subseteq {s, q}
      BY DEF Few
    <3>2. IsFiniteSet({s} \union {q})
      BY FS_Singleton, FS_AddElement
    <3>3. Writing(o) \subseteq {s} \union {q}
      BY <3>1 DEF Writing
    <3>. QED
      BY <3>2, <3>3, FS_Subset
  <2>. QED
    BY <2>1, <2>2
<1>2. Cardinality(OnDisk(o)) \in Nat /\ Cardinality(Writing(o)) \in Nat
  BY <1>1, FS_CardinalityType
<1>3. \A s : s \notin Writing(o) =>
        Cardinality(Writing(o) \union {s}) = Cardinality(Writing(o)) + 1
  BY <1>1, FS_AddElement
<1>4. \A s \in Writing(o) : Cardinality(Writing(o) \ {s}) = Cardinality(Writing(o)) - 1
  BY <1>1, FS_RemoveElement
<1>5. \A f \in OnDisk(o) : /\ IsFiniteSet(OnDisk(o) \ {f})
                          /\ Cardinality(OnDisk(o) \ {f}) = Cardinality(OnDisk(o)) - 1
  BY FS_RemoveElement
<1>6. ASSUME NEW f
      PROVE  /\ IsFiniteSet(OnDisk(o) \union {f})
             /\ Cardinality(OnDisk(o) \union {f}) <= Cardinality(OnDisk(o)) + 1
             /\ Cardinality(OnDisk(o) \union {f}) \in Nat
  <2>1. /\ IsFiniteSet(OnDisk(o) \union {f})
        /\ Cardinality(OnDisk(o) \union {f}) =
             IF f \in OnDisk(o) THEN Cardinality(OnDisk(o)) ELSE Cardinality(OnDisk(o)) + 1
    BY FS_AddElement
  <2>2. Cardinality(OnDisk(o)) \in Nat
    BY <1>2
  <2>. QED
    BY <2>1, <2>2
<1>7. Load(o) \in Nat
  BY <1>2 DEF Load
<1>. QED
  BY <1>1, <1>2, <1>3, <1>4, <1>5, <1>6, <1>7

LEMMA AvatarStarts ==
  ASSUME StoreInv, FilesInv, NEW o \in Owners, AvatarOk(o), NEW s \in Slots,
         NEW at \in {"writing", "replacing"}, NEW file,
         Starts(s, at, o, file), Counts(o), UNCHANGED <<row, disk>>,
         IF at = "replacing" THEN row[o] \in Files ELSE row[o] = NoFile \/ IsNew(o)
  PROVE  AvatarOk(o)'
<1>. SUFFICES ASSUME Kept(o)' PROVE Few(o)' /\ Settled(o)' /\ Bounded(o)'
  BY DEF AvatarOk
<1>1. /\ pc[s] = "idle" /\ pc'[s] = at /\ object'[s] = o /\ seen'[s] = row[o] /\ new'[s] = file
      /\ \A q \in Slots : q # s => /\ pc'[q] = pc[q] /\ object'[q] = object[q]
                                   /\ seen'[q] = seen[q] /\ new'[q] = new[q]
  BY DEF Starts, StoreInv, Typed
<1>2. s \notin UnderWay(o) /\ UnderWay(o)' = UnderWay(o) \union {s} /\ OnDisk(o)' = OnDisk(o)
  BY <1>1 DEF UnderWay, OnDisk
<1>3. /\ burst'[o] = IF UnderWay(o) = {} THEN 1 ELSE Least(burst[o] + 1, 3)
      /\ worst'[o] = Most(worst[o], burst'[o])
      /\ interrupted' = interrupted
  BY DEF Counts, FilesInv, TypeOK
<1>4. burst[o] \in 0 .. 3 /\ worst[o] \in 0 .. 3 /\ row[o] \in Files \union Marks
  BY OwnerFacts
<1>5. Kept(o)
  BY <1>3, <1>4 DEF Kept, Most, Least
<1>6. Few(o) /\ Settled(o) /\ Bounded(o) /\ IsFiniteSet(OnDisk(o))
  BY <1>5 DEF AvatarOk, Bounded
<1>7. burst'[o] <= 2 /\ burst'[o] <= worst'[o] /\ worst[o] <= worst'[o]
      /\ burst'[o] \in Nat /\ worst'[o] \in Nat
  BY <1>3, <1>4 DEF Kept, Most, Least
<1>10. ASSUME at = "replacing" PROVE Bounded(o)'
  <2>1. Writing(o)' = Writing(o)
    BY <1>1, <1>2, <1>10 DEF Writing, UnderWay
  <2>2. row[o] \in Files /\ Load(o)' = Load(o) /\ Load(o) \in Nat
    BY <1>2, <1>6, <1>10, <2>1, LoadFacts DEF Load
  <2>. QED
    BY <1>2, <1>4, <1>6, <1>7, <2>2 DEF Bounded
<1>11. ASSUME at = "writing" PROVE Bounded(o)'
  <2>1. Writing(o)' = Writing(o) \union {s} /\ s \notin Writing(o)
    BY <1>1, <1>2, <1>11 DEF Writing, UnderWay
  <2>2. Load(o)' = Load(o) + 1 /\ Load(o) \in Nat
    BY <1>2, <1>6, <2>1, LoadFacts DEF Load
  <2>3. row[o] \notin Files /\ (row[o] = NoFile \/ (row[o] = Unused /\ UnderWay(o) = {}))
    BY <1>11, FileFacts DEF IsNew
  <2>4. Load(o)' <= burst'[o]
    <3>1. CASE UnderWay(o) = {}
      <4>1. Writing(o) = {} /\ OnDisk(o) = {}
        BY <1>6, <1>11, <3>1 DEF Writing, Settled, Still, IsNew
      <4>. QED
        BY <1>3, <2>2, <3>1, <4>1, FS_EmptySet DEF Load
    <3>2. CASE UnderWay(o) # {}
      <4>1. Load(o) <= burst[o]
        BY <1>6, <2>3, <3>2 DEF Bounded
      <4>2. burst'[o] = burst[o] + 1
        BY <1>3, <1>4, <1>7, <3>2 DEF Least
      <4>. QED
        BY <1>4, <2>2, <4>1, <4>2
    <3>. QED
      BY <3>1, <3>2
  <2>. QED
    BY <1>2, <1>6, <1>7, <2>2, <2>4 DEF Bounded
<1>8. CASE UnderWay(o) = {}
  <2>1. UnderWay(o)' = {s} /\ burst'[o] = 1
    BY <1>2, <1>3, <1>8
  <2>2. Few(o)'
    BY <1>7, <2>1 DEF Few
  <2>3. Still(o)
    BY <1>6, <1>8 DEF Settled
  <2>4. First(o, s)' /\ Alone(o, s)'
    BY <1>1, <1>2, <1>4, <2>3, FileFacts DEF First, Alone, Still, Marks, IsNew
  <2>. QED
    BY <1>10, <1>11, <2>1, <2>2, <2>4 DEF Settled
<1>9. CASE UnderWay(o) # {}
  <2>1. burst[o] = 1 /\ burst'[o] = 2
    BY <1>3, <1>4, <1>6, <1>7, <1>9 DEF Few, Least
  <2>2. PICK q : UnderWay(o) = {q}
    BY <1>6, <1>9, <2>1 DEF Few
  <2>3. Few(o)'
    BY <1>2, <1>7, <2>1, <2>2 DEF Few
  <2>4. First(o, q) /\ Alone(o, q) /\ q \in Slots /\ q # s
    BY <1>2, <1>6, <2>1, <2>2 DEF Settled, UnderWay
  <2>5. UnderWay(o)' = {s, q} /\ pc'[q] = pc[q] /\ seen'[q] = seen[q] /\ new'[q] = new[q]
    BY <1>1, <1>2, <2>2, <2>4
  <2>6. /\ pc[q] = "replacing" => seen[q] \in Files
        /\ pc[q] \in {"replacing", "writing", "flushing"}
    BY <2>2, OwnerFacts
  <2>7. IF at = "replacing" THEN row[o] \in Files ELSE row[o] = NoFile /\ NoFile \notin Files
    BY <1>9, FileFacts DEF IsNew
  <2>8. Pair(o, s, q)' /\ Pair(o, q, s)'
    BY <1>1, <1>2, <2>4, <2>5, <2>6, <2>7 DEF Pair, First, Alone
  <2>. QED
    BY <1>2, <1>10, <1>11, <2>1, <2>3, <2>4, <2>5, <2>8 DEF Settled
<1>. QED
  BY <1>8, <1>9
(* A change goes on: those under way stay the same.                        *)
LEMMA AvatarGoes ==
  ASSUME StoreInv, FilesInv, NEW o \in Owners, NEW s \in UnderWay(o), NEW to, to # "idle",
         Goes(s, pc[s], to), UNCHANGED <<row, history>>
  PROVE  /\ pc'[s] = to /\ \A q \in Slots : q # s => pc'[q] = pc[q]
         /\ UnderWay(o)' = UnderWay(o)
         /\ Few(o) => Few(o)'
         /\ Kept(o)' <=> Kept(o)
<1>1. pc'[s] = to /\ \A q \in Slots : q # s => pc'[q] = pc[q]
  BY DEF Goes, UnderWay, StoreInv, Typed
<1>2. UnderWay(o)' = UnderWay(o)
  BY <1>1 DEF Goes, UnderWay
<1>. QED
  BY <1>1, <1>2 DEF Few, Kept, history

LEMMA AvatarUnlinks ==
  ASSUME StoreInv, FilesInv, NEW o \in Owners, AvatarOk(o), NEW s \in UnderWay(o),
         UnlinkAvatar(s)
  PROVE  AvatarOk(o)'
<1>1. /\ pc[s] = "replacing" /\ Goes(s, pc[s], "writing") /\ UNCHANGED <<row, history>>
      /\ seen[s] \in disk /\ disk' = disk \ {seen[s]} /\ UNCHANGED <<object, seen, new>>
  BY DEF UnlinkAvatar, Goes
<1>2. /\ pc'[s] = "writing" /\ \A q \in Slots : q # s => pc'[q] = pc[q]
      /\ UnderWay(o)' = UnderWay(o) /\ (Few(o) => Few(o)') /\ (Kept(o)' <=> Kept(o))
  BY <1>1, AvatarGoes
<1>3. /\ seen[s] \in Files /\ seen[s] \in OnDisk(o) /\ OnDisk(o)' = OnDisk(o) \ {seen[s]}
  BY <1>1, OwnerFacts DEF OnDisk
<1>. SUFFICES ASSUME Few(o), Settled(o), Bounded(o) PROVE Settled(o)' /\ Bounded(o)'
  BY <1>2 DEF AvatarOk
<1>8. Bounded(o)'
  <2>1. Writing(o)' = Writing(o) \union {s} /\ s \notin Writing(o)
    BY <1>1, <1>2 DEF Writing, UnderWay
  <2>2. IsFiniteSet(OnDisk(o)') /\ Load(o)' = Load(o)
    BY <1>3, <2>1, LoadFacts DEF Load, Bounded
  <2>. QED
    BY <1>1, <1>2, <2>2 DEF Bounded, history
<1>4. ASSUME UnderWay(o) = {s} PROVE Alone(o, s)'
  BY <1>1, <1>2, <1>3, <1>4 DEF Settled, Alone
<1>5. ASSUME burst[o] = 1, NEW q \in UnderWay(o) PROVE First(o, q)'
  <2>1. q = s
    BY <1>5 DEF Few
  <2>. QED
    BY <1>1, <1>2, <1>5, <2>1 DEF Settled, First, history
<1>6. ASSUME NEW q \in UnderWay(o), q # s PROVE Pair(o, s, q)' /\ Pair(o, q, s)'
  <2>1. Pair(o, s, q) /\ Pair(o, q, s)
    BY <1>6 DEF Settled
  <2>2. pc'[q] = pc[q] /\ pc[q] \in {"replacing", "writing", "flushing"} /\ row[o] = seen[s]
    BY <1>2, <1>6, <2>1, OwnerFacts DEF Pair
  <2>3. pc[q] # "writing" /\ (pc[q] = "flushing" => new[q] = row[o])
    BY <1>1, <1>3, <2>1, <2>2 DEF Pair
  <2>4. row[o] \in Files /\ row[o] # NoFile /\ row[o] \notin OnDisk(o)'
    BY <1>3, <2>2, FileFacts
  <2>5. seen'[s] = row'[o] /\ seen'[q] = row'[o] /\ row'[o] = row[o] /\ new' = new
    BY <1>1, <2>1 DEF Pair
  <2>6. Pair(o, s, q)'
    BY <1>2, <2>2, <2>3, <2>4, <2>5 DEF Pair
  <2>7. Pair(o, q, s)'
    BY <1>2, <2>2, <2>3, <2>4, <2>5 DEF Pair
  <2>. QED
    BY <2>6, <2>7
<1>7. ASSUME NEW q \in UnderWay(o), NEW r \in UnderWay(o), q # r PROVE Pair(o, q, r)'
  <2>1. q = s \/ r = s
    BY <1>7 DEF Few
  <2>. QED
    BY <1>6, <1>7, <2>1
<1>. QED
  BY <1>1, <1>2, <1>4, <1>5, <1>7, <1>8 DEF Settled, history

LEMMA AvatarWrites ==
  ASSUME StoreInv, FilesInv, NEW o \in Owners, AvatarOk(o), NEW s \in UnderWay(o),
         WriteAvatar(s)
  PROVE  AvatarOk(o)'
<1>1. /\ pc[s] = "writing" /\ Goes(s, pc[s], "flushing") /\ UNCHANGED <<row, history>>
      /\ disk' = disk \union {new[s]} /\ UNCHANGED <<object, seen, new>>
  BY DEF WriteAvatar, Goes
<1>2. /\ pc'[s] = "flushing" /\ \A q \in Slots : q # s => pc'[q] = pc[q]
      /\ UnderWay(o)' = UnderWay(o) /\ (Few(o) => Few(o)') /\ (Kept(o)' <=> Kept(o))
  BY <1>1, AvatarGoes
<1>3. /\ new[s] \in Files /\ OnDisk(o) \subseteq Files /\ OnDisk(o)' = OnDisk(o) \union {new[s]}
  BY <1>1, OwnerFacts DEF OnDisk
<1>. SUFFICES ASSUME Few(o), Settled(o), Bounded(o) PROVE Settled(o)' /\ Bounded(o)'
  BY <1>2 DEF AvatarOk
<1>8. Bounded(o)'
  <2>1. Writing(o)' = Writing(o) \ {s} /\ s \in Writing(o)
    BY <1>1, <1>2 DEF Writing, UnderWay
  <2>2. /\ IsFiniteSet(OnDisk(o)') /\ Load(o)' <= Load(o) /\ Load(o) \in Nat /\ Load(o)' \in Nat
    <3>1. IsFiniteSet(OnDisk(o))
      BY DEF Bounded
    <3>2. /\ Cardinality(Writing(o)') = Cardinality(Writing(o)) - 1
          /\ Cardinality(Writing(o)) \in Nat /\ Cardinality(OnDisk(o)) \in Nat
      BY <2>1, <3>1, LoadFacts
    <3>3. Cardinality(Writing(o)') \in Nat
      <4>1. Cardinality(Writing(o)) # 0
        BY <2>1, <3>1, LoadFacts, FS_EmptySet
      <4>. QED
        BY <3>2, <4>1
    <3>4. /\ IsFiniteSet(OnDisk(o)') /\ Cardinality(OnDisk(o)') \in Nat
          /\ Cardinality(OnDisk(o)') <= Cardinality(OnDisk(o)) + 1
      BY <1>3, <3>1, LoadFacts
    <3>. QED
      BY <3>2, <3>3, <3>4 DEF Load
  <2>3. burst[o] \in Nat /\ worst[o] \in Nat
    BY OwnerFacts
  <2>. QED
    BY <1>1, <1>2, <2>2, <2>3 DEF Bounded, history
<1>4. ASSUME UnderWay(o) = {s} PROVE Alone(o, s)'
  <2>1. IF seen[s] \in Files THEN row[o] = seen[s] ELSE TRUE
    BY <1>1, <1>4 DEF Settled, Alone
  <2>. QED
    BY <1>1, <1>2, <1>3, <2>1 DEF Alone
<1>5. ASSUME burst[o] = 1, NEW q \in UnderWay(o) PROVE First(o, q)'
  <2>1. q = s /\ UnderWay(o) = {s}
    BY <1>5 DEF Few
  <2>2. First(o, s) /\ Alone(o, s)
    BY <1>5, <2>1 DEF Settled
  <2>. QED
    BY <1>1, <1>2, <1>3, <2>1, <2>2 DEF First, Alone
<1>6. ASSUME NEW q \in UnderWay(o), q # s PROVE Pair(o, s, q)' /\ Pair(o, q, s)'
  <2>1. Pair(o, s, q) /\ Pair(o, q, s)
    BY <1>6 DEF Settled
  <2>2. pc'[q] = pc[q] /\ pc[q] \in {"replacing", "writing", "flushing"}
        /\ (pc[q] = "replacing" => row[o] \in Files)
    BY <1>2, <1>6, <2>1, OwnerFacts DEF Pair
  <2>3. /\ row[o] = NoFile => row[o] \notin Files
        /\ row'[o] \in Files \union {NoFile} /\ seen'[s] = row'[o] /\ seen'[q] = row'[o]
        /\ row'[o] = row[o] /\ new' = new
    BY <1>1, <2>1, FileFacts DEF Pair
  <2>4. CASE pc[q] = "replacing"
    <3>1. row[o] \in Files /\ row[o] \notin OnDisk(o)
      BY <1>1, <2>1, <2>2, <2>4 DEF Pair
    <3>. QED
      BY <1>2, <1>3, <2>2, <2>3, <2>4, <3>1 DEF Pair
  <2>5. CASE pc[q] = "writing"
    <3>1. row[o] \notin Files
      BY <1>1, <2>1, <2>5 DEF Pair
    <3>. QED
      BY <1>2, <1>3, <2>2, <2>3, <2>5, <3>1 DEF Pair
  <2>6. CASE pc[q] = "flushing"
    <3>1. IF row[o] \in Files THEN new[q] = row[o] ELSE new[q] \in OnDisk(o)
      BY <1>1, <2>1, <2>6 DEF Pair
    <3>. QED
      BY <1>2, <1>3, <2>2, <2>3, <2>6, <3>1 DEF Pair
  <2>. QED
    BY <2>2, <2>4, <2>5, <2>6
<1>7. ASSUME NEW q \in UnderWay(o), NEW r \in UnderWay(o), q # r PROVE Pair(o, q, r)'
  <2>1. q = s \/ r = s
    BY <1>7 DEF Few
  <2>. QED
    BY <1>6, <1>7, <2>1
<1>. QED
  BY <1>1, <1>2, <1>4, <1>5, <1>7, <1>8 DEF Settled, history

(* A change ends, with its flush or without; it may leave another one.     *)
LEMMA AvatarLeaves ==
  ASSUME StoreInv, FilesInv, NEW o \in Owners, AvatarOk(o), NEW s \in UnderWay(o),
         Ends(s), UNCHANGED <<disk, history>>,
         \/ pc[s] = "replacing" /\ seen[s] \notin disk /\ row'[o] = row[o]
         \/ /\ pc[s] = "flushing"
            /\ row'[o] = IF row[o] # Removed /\ new[s] # seen[s] THEN new[s] ELSE row[o]
  PROVE  AvatarOk(o)'
<1>. SUFFICES ASSUME Kept(o)' PROVE Few(o)' /\ Settled(o)' /\ Bounded(o)'
  BY DEF AvatarOk
<1>1. /\ pc'[s] = "idle" /\ s \in Slots
      /\ \A q \in Slots : q # s => /\ pc'[q] = pc[q] /\ object'[q] = object[q]
                                   /\ seen'[q] = seen[q] /\ new'[q] = new[q]
  BY DEF Ends, UnderWay, StoreInv, Typed
<1>2. UnderWay(o)' = UnderWay(o) \ {s} /\ OnDisk(o)' = OnDisk(o)
  BY <1>1 DEF UnderWay, OnDisk
<1>3. Kept(o)
  BY DEF Kept, history
<1>4. Few(o) /\ Settled(o) /\ Bounded(o) /\ Few(o)'
  BY <1>2, <1>3 DEF AvatarOk, Few, history
<1>5. /\ row'[o] = IF pc[s] = "flushing" /\ new[s] # seen[s] THEN new[s] ELSE row[o]
      /\ pc[s] = "replacing" => seen[s] \notin OnDisk(o)
      /\ pc[s] \in {"replacing", "flushing"}
      /\ new[s] \in Files /\ OnDisk(o) \subseteq Files
  BY <1>3, OwnerFacts DEF Kept
<1>8. Bounded(o)'
  <2>1. Writing(o)' = Writing(o)
    BY <1>1, <1>2, <1>5 DEF Writing, UnderWay
  <2>2. Load(o)' = Load(o)
    BY <1>2, <2>1 DEF Load
  <2>. QED
    BY <1>2, <1>4, <1>5, <2>2 DEF Bounded, history
<1>6. CASE UnderWay(o) = {s}
  <2>1. UnderWay(o)' = {} /\ Alone(o, s)
    BY <1>2, <1>4, <1>6 DEF Settled
  <2>2. row'[o] \in OnDisk(o)
    BY <1>5, <2>1 DEF Alone
  <2>. QED
    BY <1>2, <1>4, <1>5, <1>8, <2>1, <2>2, FileFacts DEF Settled, Still
<1>7. ASSUME NEW q \in UnderWay(o), q # s PROVE Settled(o)'
  <2>1. UnderWay(o)' = {q} /\ burst'[o] = 2 /\ Pair(o, s, q) /\ Pair(o, q, s)
    BY <1>2, <1>4, <1>7 DEF Few, Settled, history
  <2>2. pc'[q] = pc[q] /\ seen'[q] = seen[q] /\ new'[q] = new[q]
    BY <1>1, <1>7 DEF UnderWay
  <2>3. /\ pc[q] \in {"replacing", "writing", "flushing"}
        /\ pc[q] = "replacing" => seen[q] \in Files
        /\ pc[s] = "replacing" => seen[s] \in Files
        /\ seen[s] = row[o] /\ seen[q] = row[o] /\ row[o] \in Files \union Marks
    BY <1>7, <2>1, OwnerFacts DEF Pair
  <2>4. row[o] \in Files \/ row[o] \in {NoFile, Unused}
    BY <1>3, <2>3 DEF Kept, Marks
  <2>5. row[o] \in Files \union {NoFile} /\ NoFile \notin Files
    BY <2>1, FileFacts DEF Pair
  <2>6. ASSUME pc[s] = "replacing" PROVE Alone(o, q)'
    <3>1. row'[o] = row[o] /\ row[o] \in Files /\ row[o] \notin OnDisk(o)
      BY <1>5, <2>3, <2>6
    <3>2. CASE pc[q] = "replacing"
      BY <2>1, <2>6, <3>1, <3>2 DEF Pair
    <3>3. CASE pc[q] = "writing"
      BY <1>2, <2>2, <2>3, <3>1, <3>3 DEF Alone
    <3>4. CASE pc[q] = "flushing"
      <4>1. new[q] \in OnDisk(o)
        BY <2>1, <2>6, <3>4 DEF Pair
      <4>. QED
        BY <1>2, <2>2, <2>3, <3>1, <3>4, <4>1 DEF Alone
    <3>. QED
      BY <2>3, <3>2, <3>3, <3>4
  <2>7. ASSUME pc[s] = "flushing" PROVE Alone(o, q)'
    <3>1. row'[o] = new[s] \/ (row'[o] = row[o] /\ new[s] = row[o])
      BY <1>5, <2>3, <2>7
    <3>2. CASE pc[q] = "replacing"
      <4>1. new[s] \in OnDisk(o) /\ (row[o] \in OnDisk(o) => new[s] = row[o])
        BY <2>1, <2>7, <3>2 DEF Pair
      <4>. QED
        BY <1>2, <2>2, <2>3, <3>1, <3>2, <4>1 DEF Alone
    <3>3. CASE pc[q] = "writing"
      <4>1. IF row[o] \in Files THEN row[o] \notin OnDisk(o) /\ new[s] = row[o]
            ELSE new[s] \in OnDisk(o)
        BY <2>1, <2>5, <2>7, <3>3 DEF Pair
      <4>. QED
        BY <1>2, <2>2, <2>3, <3>1, <3>3, <4>1 DEF Alone
    <3>4. CASE pc[q] = "flushing"
      <4>1. /\ row[o] \in Files => row[o] \in {new[s], new[q]}
            /\ new[s] # row[o] \/ new[s] = new[q] => new[s] \in OnDisk(o)
            /\ new[q] # row[o] \/ new[s] = new[q] => new[q] \in OnDisk(o)
        BY <2>1, <2>7, <3>4 DEF Pair
      <4>2. IF new[q] # seen[q] THEN new[q] \in OnDisk(o) ELSE row'[o] \in OnDisk(o)
        BY <1>5, <2>3, <2>5, <2>7, <3>1, <4>1
      <4>. QED
        BY <1>2, <2>2, <3>4, <4>2 DEF Alone
    <3>. QED
      BY <2>3, <3>2, <3>3, <3>4
  <2>8. Alone(o, q)'
    BY <1>5, <2>6, <2>7
  <2>. QED
    BY <1>4, <2>1, <2>8 DEF Settled
<1>. QED
  BY <1>4, <1>6, <1>7, <1>8

(* One request goes on or begins, and leaves the files, the row and the    *)
(* requests of the owner o as they were.                                   *)
LEMMA AvatarBeside ==
  ASSUME StoreInv, FilesInv, NEW o \in Owners, AvatarOk(o), NEW s \in Slots,
         s \notin UnderWay(o), s \notin UnderWay(o)',
         \A q \in Slots : q # s => /\ pc'[q] = pc[q] /\ object'[q] = object[q]
                                   /\ seen'[q] = seen[q] /\ new'[q] = new[q],
         \A f : f.of = o => (f \in disk' <=> f \in disk),
         row'[o] = row[o], burst'[o] = burst[o], worst'[o] = worst[o],
         interrupted \subseteq interrupted'
  PROVE  AvatarOk(o)'
<1>1. UnderWay(o)' = UnderWay(o)
  BY DEF UnderWay
<1>2. OnDisk(o)' = OnDisk(o)
  BY DEF OnDisk
<1>3. \A q \in UnderWay(o) : pc'[q] = pc[q] /\ seen'[q] = seen[q] /\ new'[q] = new[q]
  BY DEF UnderWay
<1>. QED
  BY <1>1, <1>2, <1>3, AvatarElsewhere

LEMMA AvatarAsked ==
  ASSUME StoreInv, FilesInv, NEW o \in Owners, AvatarOk(o), NEW s \in Slots,
         \/ \E a \in Attachments : StoreUpload(s, a) \/ AskRemoval(s, a)
         \/ \E g \in Groups, e \in Exts : CreateWithAvatar(s, g, e)
         \/ \E x \in Owners, e \in Exts : AskChange(s, x, e)
  PROVE  AvatarOk(o)'
<1>1. ASSUME NEW x \in Objects, x # o, NEW at, NEW file, at # "idle", Starts(s, at, x, file),
             row' = row, interrupted' = interrupted, burst'[o] = burst[o], worst'[o] = worst[o],
             \A f : f.of = o => (f \in disk' <=> f \in disk)
      PROVE  AvatarOk(o)'
  <2>1. /\ pc[s] = "idle" /\ object'[s] = x
        /\ \A q \in Slots : q # s => /\ pc'[q] = pc[q] /\ object'[q] = object[q]
                                     /\ seen'[q] = seen[q] /\ new'[q] = new[q]
    BY <1>1 DEF Starts, StoreInv, Typed
  <2>2. s \notin UnderWay(o) /\ s \notin UnderWay(o)'
    BY <1>1, <2>1 DEF UnderWay
  <2>. QED
    BY <1>1, <2>1, <2>2, AvatarBeside
<1>2. ASSUME NEW a \in Attachments, StoreUpload(s, a) \/ AskRemoval(s, a) PROVE AvatarOk(o)'
  <2>1. a # o /\ a \in Objects /\ Upload(a).of # o
    BY UploadFacts
  <2>2. /\ row' = row /\ UNCHANGED history /\ \A f : f.of = o => (f \in disk' <=> f \in disk)
        /\ Starts(s, "storing", a, Upload(a)) \/ Starts(s, "unlinking", a, Unused)
    BY <1>2, <2>1 DEF StoreUpload, AskRemoval
  <2>. QED
    BY <1>1, <2>1, <2>2 DEF history
<1>3. ASSUME NEW x \in Owners, NEW e \in Exts, NEW at \in {"writing", "replacing"},
             Starts(s, at, x, Avatar(x, e)), Counts(x), UNCHANGED <<disk, row>>,
             IF at = "replacing" THEN row[x] \in Files ELSE row[x] = NoFile \/ IsNew(x)
      PROVE  AvatarOk(o)'
  <2>1. CASE x = o
    BY <1>3, <2>1, AvatarStarts
  <2>2. CASE x # o
    <3>1. interrupted' = interrupted /\ burst'[o] = burst[o] /\ worst'[o] = worst[o]
      BY <1>3, <2>2 DEF Counts, FilesInv, TypeOK
    <3>. QED
      BY <1>1, <1>3, <2>2, <3>1, FileFacts
  <2>. QED
    BY <2>1, <2>2
<1>4. ASSUME NEW g \in Groups, NEW e \in Exts, CreateWithAvatar(s, g, e) PROVE AvatarOk(o)'
  BY <1>3, <1>4, FileFacts DEF CreateWithAvatar
<1>5. ASSUME NEW x \in Owners, NEW e \in Exts, AskChange(s, x, e) PROVE AvatarOk(o)'
  <2>1. CASE row[x] = NoFile
    BY <1>3, <1>5, <2>1 DEF AskChange
  <2>2. CASE row[x] # NoFile
    <3>1. row[x] \in Files /\ Starts(s, "replacing", x, Avatar(x, e))
      BY <1>5, <2>2 DEF AskChange
    <3>. QED
      BY <1>3, <1>5, <3>1 DEF AskChange
  <2>. QED
    BY <2>1, <2>2
<1>. QED
  BY <1>2, <1>4, <1>5

LEMMA AvatarStep ==
  ASSUME StoreInv, FilesInv, NEW o \in Owners, AvatarOk(o), NEW s \in Slots, Step(s)
  PROVE  AvatarOk(o)'
<1>1. CASE s \in UnderWay(o)
  <2>1. pc[s] \in {"replacing", "writing", "flushing"} /\ object[s] = o /\ o \in Objects
    BY <1>1, OwnerFacts
  <2>2. CASE NothingToUnlink(s) \/ Flush(s)
    <3>1. Ends(s) /\ UNCHANGED <<disk, history>>
      BY <2>2 DEF NothingToUnlink, Flush
    <3>2. \/ pc[s] = "replacing" /\ seen[s] \notin disk /\ row'[o] = row[o]
          \/ /\ pc[s] = "flushing"
             /\ row'[o] = IF row[o] # Removed /\ new[s] # seen[s] THEN new[s] ELSE row[o]
      BY <2>1, <2>2 DEF NothingToUnlink, Flush, StoreInv, Typed
    <3>. QED
      BY <1>1, <3>1, <3>2, AvatarLeaves
  <2>3. CASE ChangeFails(s)
    <3>1. o \in interrupted'
      BY <2>1, <2>3 DEF ChangeFails, Fault, Touching
    <3>. QED
      BY <3>1 DEF AvatarOk, Kept
  <2>4. ~RefuseUpload(s) /\ ~CreateAttachment(s) /\ ~UnlinkUpload(s) /\ ~DropRow(s)
    BY <2>1 DEF RefuseUpload, CreateAttachment, UnlinkUpload, DropRow, Goes
  <2>. QED
    BY <1>1, <2>2, <2>3, <2>4, AvatarUnlinks, AvatarWrites DEF Step
<1>2. CASE s \notin UnderWay(o)
  <2>1. pc[s] # "idle" /\ object[s] # o
    BY <1>2 DEF Step, RefuseUpload, CreateAttachment, UnlinkUpload, DropRow, UnlinkAvatar,
                NothingToUnlink, WriteAvatar, Flush, ChangeFails, Goes, UnderWay
  <2>2. /\ pc[s] = "unlinking" => seen[s].of = object[s]
        /\ pc[s] = "replacing" => seen[s].of = object[s]
        /\ pc[s] = "writing" => new[s].of = object[s]
    BY UploadFacts DEF StoreInv, Works, FilesInv, Owned, Changing
  <2>3. \A f : f.of = o => (f \in disk' <=> f \in disk)
    BY <2>1, <2>2 DEF Step, RefuseUpload, CreateAttachment, UnlinkUpload, DropRow, UnlinkAvatar,
                      NothingToUnlink, WriteAvatar, Flush, ChangeFails, Fault, Goes
  <2>4. row'[o] = row[o]
    BY <2>1, OwnerFacts DEF Step, RefuseUpload, CreateAttachment, UnlinkUpload, DropRow,
                UnlinkAvatar, NothingToUnlink, WriteAvatar, Flush, ChangeFails, Fault, Goes,
                StoreInv, Typed
  <2>5. UNCHANGED <<burst, worst>> /\ interrupted \subseteq interrupted'
    BY DEF Step, RefuseUpload, CreateAttachment, UnlinkUpload, DropRow, UnlinkAvatar,
           NothingToUnlink, WriteAvatar, Flush, ChangeFails, Fault, Goes, history
  <2>6. Ends(s) \/ \E from, to : Goes(s, from, to)
    BY DEF Step, RefuseUpload, CreateAttachment, UnlinkUpload, DropRow, UnlinkAvatar,
           NothingToUnlink, WriteAvatar, Flush, ChangeFails
  <2>7. /\ pc'[s] = "idle" \/ object'[s] = object[s]
        /\ \A q \in Slots : q # s => /\ pc'[q] = pc[q] /\ object'[q] = object[q]
                                     /\ seen'[q] = seen[q] /\ new'[q] = new[q]
    BY <2>6 DEF Ends, Goes, StoreInv, Typed
  <2>8. s \notin UnderWay(o)'
    BY <2>1, <2>7 DEF UnderWay
  <2>. QED
    BY <1>2, <2>3, <2>4, <2>5, <2>7, <2>8, AvatarBeside
<1>. QED
  BY <1>1, <1>2

(* When the process ends, no change of the avatar has got as far as the    *)
(* disk, or the owner counts as interrupted.                               *)
LEMMA AvatarCrash ==
  ASSUME StoreInv, FilesInv, NEW o \in Owners, AvatarOk(o), Crash
  PROVE  AvatarOk(o)'
<1>. SUFFICES ASSUME Kept(o)' PROVE Few(o)' /\ Settled(o)' /\ Bounded(o)'
  BY DEF AvatarOk
<1>1. UnderWay(o)' = {} /\ UNCHANGED <<disk, row, burst, worst>> /\ interrupted \subseteq interrupted'
  BY DEF Crash, Fault, UnderWay
<1>2. \A s \in UnderWay(o) : pc[s] = "replacing"
  <2>1. \A s \in UnderWay(o) : s \notin Touching
    BY DEF Crash, Fault, Kept, UnderWay
  <2>. QED
    BY <2>1, OwnerFacts DEF Touching
<1>3. Few(o) /\ Settled(o) /\ Bounded(o)
  BY <1>1 DEF AvatarOk, Kept
<1>4. ASSUME NEW s \in UnderWay(o) PROVE row[o] \in OnDisk(o)
  <2>1. CASE UnderWay(o) = {s}
    BY <1>2, <1>3, <2>1 DEF Settled, Alone
  <2>2. CASE \E q \in UnderWay(o) : q # s
    BY <1>2, <1>3, <2>2 DEF Settled, Pair
  <2>. QED
    BY <2>1, <2>2
<1>5. Still(o)
  <2>1. CASE UnderWay(o) = {}
    BY <1>3, <2>1 DEF Settled
  <2>2. CASE UnderWay(o) # {}
    BY <1>4, <2>2, OwnerFacts, FileFacts DEF Still
  <2>. QED
    BY <2>1, <2>2
<1>6. Still(o)' /\ Few(o)'
  BY <1>1, <1>3, <1>5 DEF Still, OnDisk, Few
<1>7. Bounded(o)'
  <2>1. Writing(o)' = Writing(o) /\ OnDisk(o)' = OnDisk(o)
    BY <1>1, <1>2 DEF Writing, OnDisk
  <2>. QED
    BY <1>1, <1>3, <2>1 DEF Bounded, Load
<1>. QED
  BY <1>1, <1>6, <1>7 DEF Settled

LEMMA AvatarNext ==
  ASSUME StoreInv, FilesInv, NEW o \in Owners, AvatarOk(o), [Next]_vars
  PROVE  AvatarOk(o)'
<1>1. CASE UNCHANGED vars
  <2>1. UnderWay(o)' = UnderWay(o) /\ OnDisk(o)' = OnDisk(o)
    BY <1>1 DEF vars, request, UnderWay, OnDisk
  <2>. QED
    BY <1>1, <2>1, AvatarElsewhere DEF vars, request, history
<1>2. ASSUME NEW x \in Owners, Create(x) \/ RemoveOwner(x) PROVE AvatarOk(o)'
  <2>1. /\ UNCHANGED <<disk, request, history>> /\ o \in Objects
        /\ row' = [row EXCEPT ![x] = NoFile] \/ row' = [row EXCEPT ![x] = Removed]
    BY <1>2, OwnerFacts DEF Create, RemoveOwner
  <2>2. UnderWay(o)' = UnderWay(o) /\ OnDisk(o)' = OnDisk(o)
    BY <2>1 DEF request, UnderWay, OnDisk
  <2>3. CASE x # o
    <3>1. row'[o] = row[o]
      BY <2>1, <2>3 DEF StoreInv, Typed
    <3>. QED
      BY <2>1, <2>2, <3>1, AvatarElsewhere DEF request, history
  <2>4. CASE x = o /\ Create(x)
    <3>1. /\ row[o] = Unused /\ UnderWay(o) = {} /\ OnDisk(o) = {} /\ row'[o] = NoFile
          /\ Unused # Removed /\ NoFile \notin Files
      BY <2>1, <2>4, FileFacts, MarksAssumption DEF Create, IsNew, StoreInv, Typed
    <3>. SUFFICES ASSUME Kept(o)' PROVE Few(o)' /\ Settled(o)' /\ Bounded(o)'
      BY DEF AvatarOk
    <3>2. Few(o) /\ Bounded(o)
      BY <2>1, <3>1 DEF AvatarOk, Kept, history
    <3>3. Writing(o)' = {} /\ Writing(o) = {}
      BY <2>2, <3>1 DEF Writing
    <3>4. Bounded(o)'
      BY <2>1, <2>2, <3>1, <3>2, <3>3 DEF Bounded, Load, history
    <3>. QED
      BY <2>1, <2>2, <3>1, <3>2, <3>4 DEF Few, Settled, Still, history
  <2>5. CASE x = o /\ RemoveOwner(x)
    <3>1. row'[o] = Removed
      BY <2>1, <2>5 DEF RemoveOwner, StoreInv, Typed
    <3>. QED
      BY <3>1 DEF AvatarOk, Kept
  <2>. QED
    BY <1>2, <2>3, <2>4, <2>5
<1>. QED
  BY <1>1, <1>2, AvatarAsked, AvatarStep, AvatarCrash DEF Next, Quiet

AvatarsInv == \A o \in Owners : AvatarOk(o)

LEMMA UploadsHold == Spec => [](StoreInv /\ FilesInv /\ UploadsInv /\ AvatarsInv)
<1>1. Init => UploadsInv
  BY FileFacts DEF Init, UploadsInv, StoredFirst, UploadThere, Objects
<1>2. Init => AvatarsInv
  <2>. SUFFICES ASSUME Init, NEW o \in Owners PROVE Few(o) /\ Settled(o) /\ Bounded(o)
    BY DEF AvatarsInv, AvatarOk
  <2>1. UnderWay(o) = {} /\ OnDisk(o) = {} /\ row[o] = Unused /\ burst[o] = 0 /\ worst[o] = 0
    BY FileFacts DEF Init, UnderWay, OnDisk
  <2>2. Writing(o) = {} /\ Load(o) = 0
    BY <2>1, FS_EmptySet DEF Writing, Load
  <2>. QED
    BY <2>1, <2>2, FileFacts, MarksAssumption, FS_EmptySet DEF Few, Settled, Still, Bounded
<1>3. StoreInv /\ FilesInv /\ AvatarsInv /\ [Next]_vars => AvatarsInv'
  BY AvatarNext DEF AvatarsInv
<1>. QED
  BY <1>1, <1>2, <1>3, StoreInit, StoreNext, FilesInit, FilesNext, UploadsNext, PTL DEF Spec

(* A row names a file that is there unless a request is about to change    *)
(* that or one was cut off: for attachments however many requests overlap, *)
(* for avatars as long as no three changes overlap.                        *)
THEOREM NamedFileThere == Spec => []NamedFileExists
<1>1. ASSUME StoreInv, FilesInv, UploadsInv, AvatarsInv PROVE NamedFileExists
  <2>. SUFFICES ASSUME NEW x \in Objects, row[x] \in Files, x \notin interrupted,
                       x \in Owners => worst[x] <= 2,
                       \A s \in Touching : object[s] # x
                PROVE  row[x] \in disk
    BY DEF NamedFileExists
  <2>1. CASE x \in Attachments
    BY <1>1, <2>1 DEF UploadsInv, UploadThere, Touching
  <2>2. CASE x \in Owners
    <3>1. Few(x) /\ Settled(x)
      BY <1>1, <2>2, FileFacts DEF AvatarsInv, AvatarOk, Kept
    <3>2. \A s \in UnderWay(x) : pc[s] = "replacing"
      BY <1>1, <2>2, OwnerFacts DEF Touching
    <3>3. CASE UnderWay(x) = {}
      BY <3>1, <3>3 DEF Settled, Still, OnDisk
    <3>4. ASSUME NEW s \in UnderWay(x) PROVE row[x] \in disk
      <4>1. CASE UnderWay(x) = {s}
        BY <3>1, <3>2, <4>1 DEF Settled, Alone, OnDisk
      <4>2. CASE \E q \in UnderWay(x) : q # s
        BY <3>1, <3>2, <4>2 DEF Settled, Pair, OnDisk
      <4>. QED
        BY <4>1, <4>2
    <3>. QED
      BY <3>3, <3>4
  <2>. QED
    BY <2>1, <2>2 DEF Objects
<1>. QED
  BY <1>1, UploadsHold, PTL

(* The files of an owner who is not changing his avatar are no more than   *)
(* the changes that ever overlapped, as long as these were no more than    *)
(* two and none was cut off: one after the other, they leave nothing.      *)
THEOREM NothingLeftBehind == Spec => []NoFileLeftBehind
<1>1. ASSUME StoreInv, FilesInv, AvatarsInv PROVE NoFileLeftBehind
  <2>. SUFFICES ASSUME NEW o \in Owners, row[o] \in Files, o \notin interrupted,
                       UnderWay(o) = {}, worst[o] <= 2
                PROVE  Cardinality(OnDisk(o)) <= worst[o]
    BY DEF NoFileLeftBehind
  <2>1. Bounded(o) /\ Few(o)
    BY <1>1, FileFacts DEF AvatarsInv, AvatarOk, Kept
  <2>2. Writing(o) = {} /\ Cardinality(OnDisk(o)) \in Nat
    BY <2>1, LoadFacts DEF Writing, Bounded
  <2>. QED
    BY <2>1, <2>2, FS_EmptySet DEF Bounded, Load
<1>. QED
  BY <1>1, UploadsHold, PTL
=============================================================================
