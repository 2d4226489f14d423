---------------------------- MODULE UniqueNames ----------------------------
(***************************************************************************)
(* Names that only one row may have: those of problem tags and of groups,  *)
(* and the e-mail addresses of users.  create() of each service counts the *)
(* rows with the name before it writes a row of its own; UsersService      *)
(* counts before a change of the address, too, while tags and groups are   *)
(* renamed without.  Between the count and the statement lie awaits (of    *)
(* a group, a picture, a hash).  The last word has the unique index of the *)
(* column, whose error nobody catches.  A name stands for all that the     *)
(* collation of the database takes for equal.                              *)
(***************************************************************************)
CONSTANTS
  RowIds,     \* rows that may exist at once
  Names,
  Writers,    \* how many requests may be under way at once
  NoName      \* the name of a row that is not there

ASSUME NoNameAssumption == NoName \notin Names

VARIABLES
  name,          \* the column
  countsFirst,   \* whether a rename counts first: users, not tags and groups
  writer,        \* requests under way: what they do and the name they want
  reply,         \* how the last one was answered
  beaten         \* another request has taken the wanted name meanwhile

namesVars == <<name, countsFirst, writer, reply, beaten>>

Resting == [step |-> "idle"]
Requests == [step : {"creating"}, wanted : Names]
              \union [step : {"renaming"}, wanted : Names, id : RowIds]
Replies == {"none", "done", "in_use", "gone", "error_creating", "error_renaming"}

NamesTypeOK ==
  /\ name \in [RowIds -> Names \union {NoName}]
  /\ countsFirst \in BOOLEAN
  /\ writer \in [Writers -> {Resting} \union Requests]
  /\ reply \in [Writers -> Replies]
  /\ beaten \in [Writers -> BOOLEAN]

NamesInit ==
  /\ name = [r \in RowIds |-> NoName]
  /\ countsFirst \in BOOLEAN
  /\ writer = [s \in Writers |-> Resting]
  /\ reply = [s \in Writers |-> "none"]
  /\ beaten = [s \in Writers |-> FALSE]

InUse(n, rows) == \E r \in rows : name[r] = n

Answers(s, a) ==
  /\ writer' = [writer EXCEPT ![s] = Resting]
  /\ reply' = [reply EXCEPT ![s] = a]

(* Either the name is refused or the request goes on.                      *)
Counted(s, request, refused) ==
  /\ writer[s] = Resting
  /\ \/ refused /\ Answers(s, "in_use")
     \/ /\ ~refused
        /\ writer' = [writer EXCEPT ![s] = request]
        /\ reply' = [reply EXCEPT ![s] = "none"]
  /\ beaten' = [beaten EXCEPT ![s] = FALSE]
  /\ UNCHANGED <<name, countsFirst>>

(* create() up to its flush.                                               *)
CountForCreate(s, n) ==
  Counted(s, [step |-> "creating", wanted |-> n], InUse(n, RowIds))

(* update() up to its flush.  A rename to the name that was loaded writes  *)
(* nothing and has no action.                                              *)
CountForRename(s, r, n) ==
  /\ name[r] \notin {n, NoName}
  /\ Counted(s, [step |-> "renaming", wanted |-> n, id |-> r],
             countsFirst /\ InUse(n, RowIds \ {r}))

\* Mutant of Write: the column has no unique index.
WriteNoIndex(s, r, error) ==
  /\ name' = [name EXCEPT ![r] = writer[s].wanted]
  /\ beaten' = [q \in Writers |->
                  beaten[q] \/ (q # s /\ writer[q] # Resting
                                /\ writer[q].wanted = writer[s].wanted)]
  /\ Answers(s, "done")

(* The statement that gives row r the wanted name, under the index.        *)
Write(s, r, error) ==
  LET n == writer[s].wanted
      taken == InUse(n, RowIds \ {r})
  IN /\ name' = IF taken THEN name ELSE [name EXCEPT ![r] = n]
     /\ beaten' = IF taken THEN beaten
                  ELSE [q \in Writers |->
                          beaten[q] \/ (q # s /\ writer[q] # Resting /\ writer[q].wanted = n)]
     /\ Answers(s, IF taken THEN error ELSE "done")

(* The INSERT of create(): r is a fresh id.                                *)
InsertName(s, r) ==
  /\ writer[s].step = "creating"
  /\ name[r] = NoName
  /\ \A q \in Writers : writer[q].step = "renaming" => writer[q].id # r
  /\ Write(s, r, "error_creating")
  /\ UNCHANGED countsFirst

(* The UPDATE of update(); it touches nothing if the row is gone.          *)
UpdateName(s) ==
  /\ writer[s].step = "renaming"
  /\ \/ name[writer[s].id] # NoName /\ Write(s, writer[s].id, "error_renaming")
     \/ name[writer[s].id] = NoName /\ Answers(s, "gone") /\ UNCHANGED <<name, beaten>>
  /\ UNCHANGED countsFirst

RemoveRow(r) ==
  /\ name[r] # NoName
  /\ name' = [name EXCEPT ![r] = NoName]
  /\ UNCHANGED <<countsFirst, writer, reply, beaten>>

NamesNext ==
  \/ \E s \in Writers :
       \/ \E n \in Names : CountForCreate(s, n) \/ \E r \in RowIds : CountForRename(s, r, n)
       \/ \E r \in RowIds : InsertName(s, r)
       \/ UpdateName(s)
  \/ \E r \in RowIds : RemoveRow(r)

NamesSpec == NamesInit /\ [][NamesNext]_namesVars

-----------------------------------------------------------------------------
(* However requests overlap, no two rows have one name; and whoever asks   *)
(* for a name in use is told so: the error of the database reaches only    *)
(* those who were beaten to the name between count and statement, and      *)
(* those who rename a tag or a group (problem-tags.service.ts:47, 217).    *)
NamesGuarded ==
  /\ \A r, q \in RowIds : name[r] = name[q] /\ name[r] # NoName => r = q
  /\ \A s \in Writers :
       /\ reply[s] = "error_creating" => beaten[s]
       /\ reply[s] = "error_renaming" => beaten[s] \/ ~countsFirst

=============================================================================
