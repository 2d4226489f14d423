-------------------------- MODULE ProblemWorkflow --------------------------
(***************************************************************************)
(* The life of one problem: api/src/problems/problems.service.ts, update() *)
(* and remove(), from Draft through the approval flow to Archived.         *)
(*                                                                         *)
(* A request loads the row into an entity of its own, decides on what it   *)
(* has loaded, may await the compiler, which checks the solution against   *)
(* the testcases, and at its end flushes.  The ORM (external) then writes  *)
(* the columns that differ from what was loaded, and no others; there is   *)
(* no lock and no version column, so requests overlap freely.              *)
(*                                                                         *)
(* `content` stands for all that an edit may change: statement, testcases, *)
(* solution, limits.  Requests with unlockHint are not part of this module.*)
(***************************************************************************)
CONSTANTS
  Slots,         \* how many requests may be under way at once
  Users,         \* those who send requests
  Owner,         \* the problem's author
  Reviewers,     \* users with the role Reviewer
  SuperAdmins,   \* users with the role SuperAdmin
  Contents,      \* versions of the content
  Sound,         \* those whose solution passes their testcases
  Nobody, Nothing

ASSUME UsersAssumption ==
  /\ Owner \in Users /\ Reviewers \subseteq Users /\ SuperAdmins \subseteq Users
  /\ Nobody \notin Users
ASSUME ContentsAssumption == Sound \subseteq Contents /\ Nothing \notin Contents

VARIABLES
  row,        \* the problem in the database
  exists,     \* whether the row is still there
  pc,         \* how far each request has come
  user,       \* who sent it
  edit,       \* the new content it carries, or Nothing
  seen,       \* the row as it was loaded
  entity,     \* the loaded object with the changes made so far
  approval,   \* history: the last approval that was flushed
  standing,   \* history: an approval was flushed since the problem was last a draft
  override,   \* history: a SuperAdmin edited the problem after its submission
  overlapped, \* history: a request was received before another one had ended
  crossed     \* history: the problem became a draft with another request under way

request == <<pc, user, edit, seen, entity>>
history == <<approval, standing, override, overlapped, crossed>>
vars == <<row, exists, request, history>>

Statuses == {"Draft", "AwaitingApproval", "Approved", "Rejected", "Published", "Archived"}
Rows == [status : Statuses, content : Contents, reviewer : Users \union {Nobody}]

TypeOK ==
  /\ row \in Rows
  /\ exists \in BOOLEAN
  /\ pc \in [Slots -> {"idle", "verifying", "flushing"}]
  /\ user \in [Slots -> Users \union {Nobody}]
  /\ edit \in [Slots -> Contents \union {Nothing}]
  /\ seen \in [Slots -> Rows \union {Nothing}]
  /\ entity \in [Slots -> Rows \union {Nothing}]
  /\ approval \in [by : Users \union {Nobody}, content : Contents \union {Nothing}]
  /\ {standing, override, overlapped, crossed} \subseteq BOOLEAN

(* create(): a draft, not yet reviewed.                                    *)
Init ==
  /\ row \in [status : {"Draft"}, content : Contents, reviewer : {Nobody}]
  /\ exists = TRUE
  /\ pc = [s \in Slots |-> "idle"]
  /\ user = [s \in Slots |-> Nobody]
  /\ edit = [s \in Slots |-> Nothing]
  /\ seen = [s \in Slots |-> Nothing]
  /\ entity = [s \in Slots |-> Nothing]
  /\ approval = [by |-> Nobody, content |-> Nothing]
  /\ standing = FALSE /\ override = FALSE /\ overlapped = FALSE /\ crossed = FALSE

-----------------------------------------------------------------------------
IsSuper(u) == u \in SuperAdmins
Owns(u) == u = Owner \/ IsSuper(u)
Reviews(u) == IsSuper(u) \/ (u \in Reviewers /\ u # Owner)

\* Mutant of MayMove: a problem that was approved before can be published again.
MayMoveAgain(u, from, to) ==
  \/ from = "Draft" /\ to = "AwaitingApproval" /\ Owns(u)
  \/ from = "Draft" /\ to = "Published" /\ Owns(u) /\ row.reviewer # Nobody
  \/ from = "AwaitingApproval" /\ to = "Draft" /\ Owns(u)
  \/ from = "AwaitingApproval" /\ to \in {"Approved", "Rejected"} /\ Reviews(u)
  \/ from = "Approved" /\ to \in {"Draft", "Published", "Archived"} /\ Owns(u)
  \/ from = "Rejected" /\ to = "Draft" /\ Owns(u)
  \/ from = "Published" /\ to = "Archived" /\ Owns(u)

\* Mutant of MayMove: a submitted problem can be published right away.
MayMoveUnreviewed(u, from, to) ==
  \/ from = "Draft" /\ to = "AwaitingApproval" /\ Owns(u)
  \/ from = "AwaitingApproval" /\ to \in {"Draft", "Published"} /\ Owns(u)
  \/ from = "AwaitingApproval" /\ to \in {"Approved", "Rejected"} /\ Reviews(u)
  \/ from = "Approved" /\ to \in {"Draft", "Published", "Archived"} /\ Owns(u)
  \/ from = "Rejected" /\ to = "Draft" /\ Owns(u)
  \/ from = "Published" /\ to = "Archived" /\ Owns(u)

(* The switch over the loaded status (lines 492-633): who may ask for      *)
(* which status.  All else throws before anything is flushed.              *)
MayMove(u, from, to) ==
  \/ from = "Draft" /\ to = "AwaitingApproval" /\ Owns(u)
  \/ from = "AwaitingApproval" /\ to = "Draft" /\ Owns(u)
  \/ from = "AwaitingApproval" /\ to \in {"Approved", "Rejected"} /\ Reviews(u)
  \/ from = "Approved" /\ to \in {"Draft", "Published", "Archived"} /\ Owns(u)
  \/ from = "Rejected" /\ to = "Draft" /\ Owns(u)
  \/ from = "Published" /\ to = "Archived" /\ Owns(u)

(* The reviewer column after a move.                                       *)
ReviewerAfter(u, to, reviewer) ==
  CASE to = "AwaitingApproval" -> Nobody
    [] to \in {"Approved", "Rejected"} -> u
    [] OTHER -> reviewer

Moved(u, to) ==
  [status |-> to, content |-> row.content, reviewer |-> ReviewerAfter(u, to, row.reviewer)]

(* The request loads the row and decides about the status it asks for.     *)
Receive(s, u, to, c) ==
  /\ pc[s] = "idle" /\ exists
  /\ (to = "same" /\ c # Nothing) \/ MayMove(u, row.status, to)
  /\ pc' = [pc EXCEPT ![s] = IF to = "AwaitingApproval" THEN "verifying" ELSE "flushing"]
  /\ user' = [user EXCEPT ![s] = u]
  /\ edit' = [edit EXCEPT ![s] = c]
  /\ seen' = [seen EXCEPT ![s] = row]
  /\ entity' = [entity EXCEPT ![s] =
       IF to = "same" THEN row ELSE Moved(u, to)]
  /\ overlapped' = (overlapped \/ \E t \in Slots : pc[t] # "idle")
  /\ UNCHANGED <<row, exists, approval, standing, override, crossed>>

(* The request is over, and the objects it worked on are garbage.          *)
Ends(s) ==
  /\ pc' = [pc EXCEPT ![s] = "idle"]
  /\ user' = [user EXCEPT ![s] = Nobody]
  /\ edit' = [edit EXCEPT ![s] = Nothing]
  /\ seen' = [seen EXCEPT ![s] = Nothing]
  /\ entity' = [entity EXCEPT ![s] = Nothing]

\* Mutant of Verified: the answer of the compiler is not looked at.
VerifiedAnyhow(s) ==
  /\ pc[s] = "verifying"
  /\ pc' = [pc EXCEPT ![s] = "flushing"]
  /\ UNCHANGED <<row, exists, user, edit, seen, entity, history>>

(* verifyTestcases(), over the content that was loaded.                    *)
Verified(s) ==
  /\ pc[s] = "verifying"
  /\ seen[s].content \in Sound
  /\ pc' = [pc EXCEPT ![s] = "flushing"]
  /\ UNCHANGED <<row, exists, user, edit, seen, entity, history>>

(* The request throws without a flush: the check fails (which it may do    *)
(* for a sound problem, too, if the compiler service is out of reach), or  *)
(* an edit names an attachment or a tag that does not exist.               *)
Throws(s) ==
  /\ pc[s] = "verifying" \/ (pc[s] = "flushing" /\ edit[s] # Nothing)
  /\ Ends(s)
  /\ UNCHANGED <<row, exists, history>>

\* Mutant of MayEdit: the owner's edits are not confined to drafts.
MayEditAlways(s) == Owns(user[s])

(* Lines 642-663.  An edit that is refused is refused after a flush of the *)
(* new status.                                                             *)
MayEdit(s) == IsSuper(user[s]) \/ (user[s] = Owner /\ entity[s].status = "Draft")

(* What is written: the columns in which the entity differs from the row   *)
(* that was loaded.                                                        *)
Changed(s, column, value) == IF value # seen[s][column] THEN value ELSE row[column]

Flush(s) ==
  LET content == IF edit[s] # Nothing /\ MayEdit(s) THEN edit[s] ELSE entity[s].content
      written == [status |-> Changed(s, "status", entity[s].status),
                  content |-> Changed(s, "content", content),
                  reviewer |-> Changed(s, "reviewer", entity[s].reviewer)]
      moved == entity[s].status # seen[s].status
      reverted == exists /\ moved /\ entity[s].status = "Draft"
      submitted == exists /\ moved /\ entity[s].status = "AwaitingApproval"
      overruled == exists /\ content # seen[s].content /\ entity[s].status # "Draft"
                     /\ IsSuper(user[s])
  IN /\ pc[s] = "flushing"
     /\ Ends(s)
     /\ row' = IF exists THEN written ELSE row
     /\ approval' = IF exists /\ moved /\ entity[s].status = "Approved"
                    THEN [by |-> user[s], content |-> seen[s].content] ELSE approval
     /\ standing' = (~reverted /\ (standing \/ (exists /\ moved /\ entity[s].status = "Approved")))
     /\ crossed' = (crossed \/ (reverted /\ \E t \in Slots \ {s} : pc[t] # "idle"))
     /\ override' = (overruled \/ (override /\ ~submitted))
     /\ UNCHANGED <<exists, overlapped>>

(* remove() by the owner or a SuperAdmin.                                  *)
Remove ==
  /\ exists
  /\ exists' = FALSE
  /\ UNCHANGED <<row, request, history>>

(* The problem was deleted and every request has ended.                    *)
Gone == ~exists /\ (\A s \in Slots : pc[s] = "idle") /\ UNCHANGED vars

Next ==
  \/ \E s \in Slots :
       \/ \E u \in Users, to \in Statuses \union {"same"}, c \in Contents \union {Nothing} :
            Receive(s, u, to, c)
       \/ Verified(s) \/ Throws(s) \/ Flush(s)
  \/ Remove
  \/ Gone

(* A request that was started ends: the compiler service is given 150 s to *)
(* answer (api/src/compiler), the database answers or throws.              *)
Fairness == \A s \in Slots : WF_vars(Verified(s) \/ Throws(s) \/ Flush(s))

Spec == Init /\ [][Next]_vars /\ Fairness

-----------------------------------------------------------------------------
(* "doing this step will trigger the API server to check for correctness   *)
(* of the solution code against the testcases, failing this check will     *)
(* result in the problem not being submitted for review" (README.md):      *)
(* whatever has left the draft state passed its own testcases, unless a    *)
(* SuperAdmin edited it afterwards.                                        *)
SubmittedWasChecked ==
  exists /\ row.status # "Draft" /\ ~override => row.content \in Sound

(* That promise is kept as long as no two requests about the problem have  *)
(* overlapped, whoever sent them and however many there were.              *)
CheckedUnlessOverlapped == ~overlapped => SubmittedWasChecked

(* Under the same condition, what is approved or published is what the     *)
(* reviewer has approved, and not a version that slipped in later.         *)
ReviewedIsLive ==
  exists /\ row.status \in {"Approved", "Published"} /\ ~override /\ ~overlapped
    => row.content = approval.content

(* "if reverted to draft, it will have to go through the review process    *)
(* again" (README.md): an approval does not outlive the return to draft.   *)
(* The exception is a return to draft while another request about the      *)
(* problem was under way, which still acts on what it has loaded.          *)
ReviewedAgain ==
  row.status \in {"Approved", "Published", "Archived"} /\ ~crossed => standing

(* The problem approval flow of README.md, state by state: what it says    *)
(* may follow on each of them.  ("Awaiting Approval: ... no changes can be *)
(* made except to approve or reject the problem".)                         *)
DocumentedMoves ==
  {<<"Draft", "AwaitingApproval">>,
   <<"AwaitingApproval", "Approved">>, <<"AwaitingApproval", "Rejected">>,
   <<"Approved", "Published">>, <<"Approved", "Draft">>,
   <<"Rejected", "Draft">>, <<"Published", "Archived">>}

DocumentedFlow ==
  [][row'.status # row.status =>
       overlapped \/ <<row.status, row'.status>> \in DocumentedMoves]_vars

(* "Published: ... can only be archived or deleted" (README.md).           *)
PublishedStays ==
  [][row.status = "Published" => row'.status \in {"Published", "Archived"}]_vars

(* However requests overlap, nothing is published (or archived) that was   *)
(* not approved once by a reviewer other than its author, or a SuperAdmin. *)
OutOnlyReviewed ==
  row.status \in {"Approved", "Published", "Archived"} => Reviews(approval.by)

=============================================================================
