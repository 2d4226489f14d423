------------------------------ MODULE FileStore ------------------------------
(***************************************************************************)
(* Rows that name files on the disk, in api/src: attachments (attachments/ *)
(* attachments.service.ts) and the avatars of users and groups (update()   *)
(* of users/users.service.ts and of groups/groups.service.ts).             *)
(*                                                                         *)
(* Disk and database have no transaction in common.  An upload is on the   *)
(* disk before its row is written; a removal unlinks the file, answers and *)
(* leaves the row to a flush that nobody awaits; a change of an avatar     *)
(* unlinks the file that the loaded row names, writes the new one and then *)
(* flushes.  Attachments are stored under a new uuid, an avatar under the  *)
(* id of its owner, so that only the extension tells one from the next.    *)
(***************************************************************************)
EXTENDS Naturals, FiniteSets

CONSTANTS
  Attachments,
  Owners,        \* users and groups, the groups being those that may be
  Groups,        \* created with an avatar
  Exts,          \* the image formats
  Slots,         \* how many requests may be under way at once
  MaxFaults,     \* bounds failed writes, failed flushes and crashes
  Unused,        \* a row that is not created yet, or nothing at all
  Removed,
  NoFile         \* avatarFilename is null

ASSUME GroupsAssumption == Groups \subseteq Owners /\ Attachments \intersect Owners = {}

VARIABLES
  disk,          \* the files that are there
  row,           \* the file that a row names, or one of the marks below
  pc,            \* how far each request has come
  object,        \* whose file it is about
  seen,          \* what the loaded row named
  new,           \* the avatar's new file
  answers,       \* history: how many removals of an attachment were answered 204
  faults,
  interrupted,   \* history: objects whose file was touched by a request that
                 \* did not get to write the row
  burst,         \* history: changes of an avatar since none was under way,
  worst          \* history: and the highest it has ever been (above 3 counts as 3)

request == <<pc, object, seen, new>>
history == <<answers, faults, interrupted, burst, worst>>
vars == <<disk, row, request, history>>

Objects == Attachments \union Owners
Marks == {Unused, Removed, NoFile}

(* attachments.module.ts: the extension of an upload is kept; it never     *)
(* matters, as no other file has the same id.                              *)
Upload(a) == [of |-> a, ext |-> "upload"]
Avatar(o, e) == [of |-> o, ext |-> e]
Files == {Upload(a) : a \in Attachments} \union {Avatar(o, e) : o \in Owners, e \in Exts}

ASSUME MarksAssumption ==
  /\ Marks \intersect Files = {} /\ Unused \notin Objects
  /\ Unused # Removed /\ Unused # NoFile /\ Removed # NoFile

TypeOK ==
  /\ disk \subseteq Files
  /\ row \in [Objects -> Files \union Marks]
  /\ pc \in [Slots -> {"idle", "storing", "unlinking", "removing", "replacing",
                       "writing", "flushing"}]
  /\ object \in [Slots -> Objects \union {Unused}]
  /\ seen \in [Slots -> Files \union Marks]
  /\ new \in [Slots -> Files \union Marks]
  /\ answers \in [Attachments -> Nat]
  /\ faults \in Nat
  /\ interrupted \subseteq Objects
  /\ burst \in [Owners -> 0 .. 3] /\ worst \in [Owners -> 0 .. 3]

Init ==
  /\ disk = {}
  /\ row = [x \in Objects |-> Unused]
  /\ pc = [s \in Slots |-> "idle"]
  /\ object = [s \in Slots |-> Unused]
  /\ seen = [s \in Slots |-> Unused]
  /\ new = [s \in Slots |-> Unused]
  /\ answers = [a \in Attachments |-> 0]
  /\ faults = 0
  /\ interrupted = {}
  /\ burst = [o \in Owners |-> 0] /\ worst = [o \in Owners |-> 0]

-----------------------------------------------------------------------------
Starts(s, at, x, file) ==
  /\ pc[s] = "idle"
  /\ pc' = [pc EXCEPT ![s] = at]
  /\ object' = [object EXCEPT ![s] = x]
  /\ seen' = [seen EXCEPT ![s] = row[x]]
  /\ new' = [new EXCEPT ![s] = file]

Goes(s, from, to) ==
  /\ pc[s] = from
  /\ pc' = [pc EXCEPT ![s] = to]
  /\ UNCHANGED <<object, seen, new>>

Ends(s) ==
  /\ pc' = [pc EXCEPT ![s] = "idle"]
  /\ object' = [object EXCEPT ![s] = Unused]
  /\ seen' = [seen EXCEPT ![s] = Unused]
  /\ new' = [new EXCEPT ![s] = Unused]

UnderWay(x) == {s \in Slots : pc[s] # "idle" /\ object[s] = x}
OnDisk(x) == {f \in disk : f.of = x}
IsNew(x) == row[x] = Unused /\ OnDisk(x) = {} /\ UnderWay(x) = {}

-----------------------------------------------------------------------------
(* multer (external) stores the file, before anything is checked.          *)
StoreUpload(s, a) ==
  /\ IsNew(a)
  /\ disk' = disk \union {Upload(a)}
  /\ Starts(s, "storing", a, Upload(a))
  /\ UNCHANGED <<row, history>>

(* The pipes refuse the request, its user is gone, or the row cannot be    *)
(* written: nobody removes the file.                                       *)
RefuseUpload(s) ==
  /\ pc[s] = "storing" /\ Ends(s)
  /\ UNCHANGED <<disk, row, history>>

CreateAttachment(s) ==
  /\ pc[s] = "storing" /\ Ends(s)
  /\ row' = [row EXCEPT ![object[s]] = new[s]]
  /\ UNCHANGED <<disk, history>>

-----------------------------------------------------------------------------
AskRemoval(s, a) ==
  /\ row[a] \in Files
  /\ Starts(s, "unlinking", a, Unused)
  /\ UNCHANGED <<disk, row, history>>

\* Mutant of UnlinkUpload: rm with the option "force".
UnlinkUploadForced(s) ==
  /\ Goes(s, "unlinking", "removing")
  /\ disk' = disk \ {seen[s]}
  /\ answers' = [answers EXCEPT ![object[s]] = @ + 1]
  /\ UNCHANGED <<row, faults, interrupted, burst, worst>>

(* The file is unlinked, and as removeAndFlush() is not awaited, the       *)
(* answer goes out.                                                        *)
UnlinkUpload(s) ==
  /\ Goes(s, "unlinking", "removing")
  /\ seen[s] \in disk
  /\ disk' = disk \ {seen[s]}
  /\ answers' = [answers EXCEPT ![object[s]] = @ + 1]
  /\ UNCHANGED <<row, faults, interrupted, burst, worst>>

\* Mutant of DropRow: the entity is removed, but nothing is flushed.
DropRowUnflushed(s) ==
  /\ pc[s] = "removing" /\ Ends(s)
  /\ UNCHANGED <<disk, row, history>>

DropRow(s) ==
  /\ pc[s] = "removing" /\ Ends(s)
  /\ row' = [row EXCEPT ![object[s]] = Removed]
  /\ UNCHANGED <<disk, history>>

-----------------------------------------------------------------------------
Least(m, n) == IF m < n THEN m ELSE n
Most(m, n) == IF m > n THEN m ELSE n

Counts(o) ==
  LET now == IF UnderWay(o) = {} THEN 1 ELSE Least(burst[o] + 1, 3)
  IN /\ burst' = [burst EXCEPT ![o] = now]
     /\ worst' = [worst EXCEPT ![o] = Most(@, now)]
     /\ UNCHANGED <<answers, faults, interrupted>>

(* A user, or a group without an avatar.                                   *)
Create(o) ==
  /\ IsNew(o)
  /\ row' = [row EXCEPT ![o] = NoFile]
  /\ UNCHANGED <<disk, request, history>>

(* create() of groups.service.ts, with an avatar.                          *)
CreateWithAvatar(s, g, e) ==
  /\ IsNew(g)
  /\ Starts(s, "writing", g, Avatar(g, e)) /\ Counts(g)
  /\ UNCHANGED <<disk, row>>

(* update(), up to the first access to the disk.  For users, what is asked *)
(* for besides is checked later; a refusal then comes after a flush.       *)
AskChange(s, o, e) ==
  /\ row[o] \in Files \union {NoFile}
  /\ Starts(s, IF row[o] = NoFile THEN "writing" ELSE "replacing", o, Avatar(o, e))
  /\ Counts(o)
  /\ UNCHANGED <<disk, row>>

\* Mutant of UnlinkAvatar: the old file is left to be overwritten.
UnlinkAvatarNot(s) ==
  /\ Goes(s, "replacing", "writing")
  /\ seen[s] \in disk
  /\ UNCHANGED <<disk, row, history>>

UnlinkAvatar(s) ==
  /\ Goes(s, "replacing", "writing")
  /\ seen[s] \in disk
  /\ disk' = disk \ {seen[s]}
  /\ UNCHANGED <<row, history>>

(* unlink() throws, and with it the request, if the file is not there.     *)
NothingToUnlink(s) ==
  /\ pc[s] \in {"unlinking", "replacing"} /\ seen[s] \notin disk
  /\ Ends(s)
  /\ UNCHANGED <<disk, row, history>>

\* Mutant of WriteAvatar: the old file is unlinked when the new one is there.
WriteAvatarFirst(s) ==
  /\ Goes(s, "writing", "flushing")
  /\ disk' = (disk \union {new[s]}) \ {seen[s]}
  /\ UNCHANGED <<row, history>>

WriteAvatar(s) ==
  /\ Goes(s, "writing", "flushing")
  /\ disk' = disk \union {new[s]}
  /\ UNCHANGED <<row, history>>

(* avatarFilename is written if it differs from what was loaded, and if    *)
(* the row is still there.                                                 *)
Flush(s) ==
  /\ pc[s] = "flushing" /\ Ends(s)
  /\ row' = IF row[object[s]] # Removed /\ new[s] # seen[s]
            THEN [row EXCEPT ![object[s]] = new[s]] ELSE row
  /\ UNCHANGED <<disk, history>>

(* remove() of users and of groups takes no notice of the avatar.          *)
RemoveOwner(o) ==
  /\ row[o] \in Files \union {NoFile}
  /\ row' = [row EXCEPT ![o] = Removed]
  /\ UNCHANGED <<disk, request, history>>

-----------------------------------------------------------------------------
Touching == {s \in Slots : pc[s] \in {"removing", "writing", "flushing"}}

Fault(slots) ==
  /\ faults < MaxFaults
  /\ faults' = faults + 1
  /\ interrupted' = interrupted \union {object[s] : s \in slots \intersect Touching}
  /\ UNCHANGED <<disk, row, answers, burst, worst>>

(* The disk is full; or the database refuses the row (the new name of the  *)
(* group or the new e-mail address is in use) or is out of reach.          *)
ChangeFails(s) ==
  /\ pc[s] \in {"writing", "flushing"} /\ Ends(s)
  /\ Fault({s})

(* The process ends, at any time; and it does so if a removal's flush      *)
(* fails, because nobody handles the rejection.                            *)
Crash ==
  /\ \E s \in Slots : pc[s] # "idle"
  /\ pc' = [s \in Slots |-> "idle"]
  /\ object' = [s \in Slots |-> Unused]
  /\ seen' = [s \in Slots |-> Unused]
  /\ new' = [s \in Slots |-> Unused]
  /\ Fault(Slots)

Step(s) ==
  \/ RefuseUpload(s) \/ CreateAttachment(s)
  \/ UnlinkUpload(s) \/ DropRow(s)
  \/ UnlinkAvatar(s) \/ NothingToUnlink(s)
  \/ WriteAvatar(s) \/ Flush(s) \/ ChangeFails(s)

(* Nobody asks for anything.                                               *)
Quiet == (\A s \in Slots : pc[s] = "idle") /\ UNCHANGED vars

Next ==
  \/ \E s \in Slots :
       \/ \E a \in Attachments : StoreUpload(s, a) \/ AskRemoval(s, a)
       \/ \E g \in Groups, e \in Exts : CreateWithAvatar(s, g, e)
       \/ \E o \in Owners, e \in Exts : AskChange(s, o, e)
       \/ Step(s)
  \/ \E o \in Owners : Create(o) \/ RemoveOwner(o)
  \/ Crash
  \/ Quiet

(* A request that has begun goes on: disk and database answer or fail.     *)
Fairness == \A s \in Slots : WF_vars(Step(s))

Spec == Init /\ [][Next]_vars /\ Fairness

-----------------------------------------------------------------------------
(* A row names a file that is there (or download() and getAvatar() have    *)
(* nothing to send, and every later change or removal throws at unlink()), *)
(* unless a request is about to change that, or one was cut off between    *)
(* disk and database.  Two changes of one avatar may overlap; three, each  *)
(* of which overlaps another, are too many.                                *)
NamedFileExists ==
  \A x \in Objects :
    /\ row[x] \in Files
    /\ x \notin interrupted
    /\ x \in Owners => worst[x] <= 2
    => row[x] \in disk \/ \E s \in Touching : object[s] = x

(* However many ask for it, and whatever fails, at most one of them is     *)
(* told that he has removed an attachment: the unlinking decides.          *)
RemovedOnce == \A a \in Attachments : answers[a] <= 1

(* An owner who is not changing his avatar has no more files on the disk   *)
(* than changes that ever overlapped: none is left behind if none did.     *)
NoFileLeftBehind ==
  \A o \in Owners :
    row[o] \in Files /\ o \notin interrupted /\ UnderWay(o) = {} /\ worst[o] <= 2
      => Cardinality(OnDisk(o)) <= worst[o]

(* Who is told that an attachment was removed will find it gone, although  *)
(* the answer does not wait for the database.                              *)
AnsweredIsGone ==
  \A a \in Attachments :
    answers[a] > 0 ~> (row[a] = Removed \/ a \in interrupted)

=============================================================================
