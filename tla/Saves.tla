------------------------------- MODULE Saves -------------------------------
(***************************************************************************)
(* The saves of one user for one problem: api/src/saves/saves.service.ts.  *)
(* Every create makes a row of its own, and findForProblem gives the one   *)
(* with the latest updatedAt.  That time is taken when the row is made, or *)
(* when a change is flushed, reaches the database with the statement a     *)
(* while later, and is kept there in whole seconds.                        *)
(***************************************************************************)
EXTENDS Naturals

CONSTANTS
  SaveIds,   \* rows that may exist at once
  Codes,     \* programs
  Savers,    \* how many requests may be under way at once
  MaxTime,   \* bound: how far the clock goes, in seconds
  NoSave     \* the value of a row that is not there

ASSUME MaxTimeAssumption == MaxTime \in Nat
ASSUME NoSaveAssumption == NoSave \notin [code : Codes, updatedAt : 0 .. MaxTime]

VARIABLES
  save,        \* the rows
  clock,
  saver,       \* the requests under way
  later,       \* history: pairs of rows, the second was written after the first
  overlapped   \* history: whether two requests have ever overlapped

savesVars == <<save, clock, saver, later, overlapped>>

Saved == [code : Codes, updatedAt : 0 .. MaxTime]

(* What a request is about: the row, its code when it was loaded, the code *)
(* given, and the time taken.                                              *)
Idle == [step |-> "idle"]
Loaded == [step : {"loaded"}, id : SaveIds, seen : Codes, code : Codes, language : BOOLEAN]
Writing == [step : {"inserting", "updating"}, id : SaveIds, seen : Codes, code : Codes,
            time : 0 .. MaxTime]

SavesTypeOK ==
  /\ save \in [SaveIds -> Saved \union {NoSave}]
  /\ clock \in 0 .. MaxTime
  /\ saver \in [Savers -> {Idle} \union Loaded \union Writing]
  /\ later \subseteq SaveIds \X SaveIds
  /\ overlapped \in BOOLEAN

SavesInit ==
  /\ save = [i \in SaveIds |-> NoSave]
  /\ clock = 0
  /\ saver = [q \in Savers |-> Idle]
  /\ later = {}
  /\ overlapped = FALSE

Free(i) == save[i] = NoSave /\ \A q \in Savers : saver[q] # Idle => saver[q].id # i

BeginSave(q, request) ==
  /\ saver[q] = Idle
  /\ saver' = [saver EXCEPT ![q] = request]
  /\ overlapped' = (overlapped \/ \E s \in Savers : saver[s] # Idle)
  /\ UNCHANGED <<save, clock, later>>

(* create() up to the flush: new Save() takes the time.                    *)
CreateSave(q, i, c) ==
  /\ Free(i)
  /\ BeginSave(q, [step |-> "inserting", id |-> i, seen |-> c, code |-> c, time |-> clock])

(* update() up to the flush.                                               *)
LoadSave(q, i, c, language) ==
  /\ save[i] # NoSave
  /\ BeginSave(q, [step |-> "loaded", id |-> i, seen |-> save[i].code, code |-> c,
                   language |-> language])

\* Mutant of FlushSave: updatedAt is taken when the row is made only.
FlushSaveKeepsTime(q) ==
  /\ saver[q].step = "loaded"
  /\ saver' = [saver EXCEPT ![q] =
       IF @.code # @.seen \/ @.language
       THEN [step |-> "updating", id |-> @.id, seen |-> @.seen, code |-> @.code,
             time |-> IF save[@.id] = NoSave THEN clock ELSE save[@.id].updatedAt]
       ELSE Idle]
  /\ UNCHANGED <<save, clock, later, overlapped>>

(* The flush computes what has changed.  The language is not loaded, so    *)
(* one that is given counts as a change; onUpdate takes the time if        *)
(* anything has changed, and nothing is written otherwise.                 *)
FlushSave(q) ==
  /\ saver[q].step = "loaded"
  /\ saver' = [saver EXCEPT ![q] =
       IF @.code # @.seen \/ @.language
       THEN [step |-> "updating", id |-> @.id, seen |-> @.seen, code |-> @.code, time |-> clock]
       ELSE Idle]
  /\ UNCHANGED <<save, clock, later, overlapped>>

(* The statement is executed.  An UPDATE of a row that is gone does        *)
(* nothing, and it sets the code only if that has changed.                 *)
WriteSave(q) ==
  LET r == saver[q]
      i == r.id
      writes == r.step = "inserting" \/ save[i] # NoSave
      code == IF r.step = "inserting" \/ r.code # r.seen THEN r.code ELSE save[i].code
  IN /\ r.step \in {"inserting", "updating"}
     /\ saver' = [saver EXCEPT ![q] = Idle]
     /\ save' = IF writes THEN [save EXCEPT ![i] = [code |-> code, updatedAt |-> r.time]]
                ELSE save
     /\ later' = IF writes
                 THEN {p \in later : p[1] # i}
                        \union {<<j, i>> : j \in {k \in SaveIds : k # i /\ save[k] # NoSave}}
                 ELSE later
     /\ UNCHANGED <<clock, overlapped>>

(* The process crashes, or the database fails.                             *)
LoseSave(q) ==
  /\ saver[q] # Idle
  /\ saver' = [saver EXCEPT ![q] = Idle]
  /\ UNCHANGED <<save, clock, later, overlapped>>

RemoveSave(i) ==
  /\ save[i] # NoSave
  /\ save' = [save EXCEPT ![i] = NoSave]
  /\ later' = {p \in later : p[1] # i /\ p[2] # i}
  /\ UNCHANGED <<clock, saver, overlapped>>

TickSave ==
  /\ clock < MaxTime
  /\ clock' = clock + 1
  /\ UNCHANGED <<save, saver, later, overlapped>>

SavesNext ==
  \/ \E q \in Savers :
       \/ \E i \in SaveIds, c \in Codes :
            \/ CreateSave(q, i, c)
            \/ \E language \in BOOLEAN : LoadSave(q, i, c, language)
       \/ FlushSave(q) \/ WriteSave(q) \/ LoseSave(q)
  \/ \E i \in SaveIds : RemoveSave(i)
  \/ TickSave

SavesSpec == SavesInit /\ [][SavesNext]_savesVars

-----------------------------------------------------------------------------
(* findForProblem(): one of the rows with the latest time.                 *)
Found ==
  {i \in SaveIds :
     save[i] # NoSave /\ \A j \in SaveIds : save[j] # NoSave => save[j].updatedAt <= save[i].updatedAt}

(* The user gets back what he has saved last: no save was written after    *)
(* the one he is given, unless in the same second, as long as his requests *)
(* have not overlapped (saves.service.ts:57 and 184).                      *)
LatestFound ==
  ~overlapped => \A i \in Found, j \in SaveIds : <<i, j>> \in later => j \in Found

=============================================================================
