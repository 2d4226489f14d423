------------------------------- MODULE Scores -------------------------------
(***************************************************************************)
(* Scores and what users buy with them: the branch unlockHint of update()  *)
(* in api/src/problems/problems.service.ts, with the scores that           *)
(* user.entity.ts and group.entity.ts compute from problems, submissions   *)
(* and offsets.                                                            *)
(*                                                                         *)
(* Nobody stores a score.  A user has the scores of the published problems *)
(* he has solved plus an offset, from which hints are paid.  A request     *)
(* loads problem and user, then the users who have the hint, then writes   *)
(* the offset as computed from what it has loaded, then adds the user to   *)
(* those who have the hint.                                                *)
(***************************************************************************)
EXTENDS Integers, FiniteSetsExt

CONSTANTS
  Users, Problems, Groups,
  Buyers,         \* the users who ask for hints; those of different users touch
                  \* different rows, so that one is enough to see what overlaps do
  score,          \* of each problem
  group,          \* of each user: the scores read nothing but the current one
  Costs(_),       \* what the hint of a problem may cost: a PATCH with the price
                  \* alone is not checked, so that it may be negative
  Slots,          \* how many requests may be under way at once
  MaxAccepted,    \* bounds the accepted submissions, of all users together,
  MaxFailures     \* and the requests that fail when the hint has been paid

ASSUME CostsAssumption == \A p \in Problems : Costs(p) \subseteq Int
ASSUME BuyersAssumption == Buyers \subseteq Users

(* problem.entity.ts and create-problem.dto.ts: a score is not negative.   *)
ASSUME TablesAssumption ==
  IsFiniteSet(Users) /\ IsFiniteSet(Problems) /\ score \in [Problems -> Nat]

VARIABLES
  published,      \* the problems that are published
  hintCost,
  accepted,       \* how many accepted submissions a user has for a problem
  offset,         \* his totalScoreOffset
  unlocked,       \* usersUnlockedHint: the table user_unlocked_hints
  pc, req,        \* how far each request has come, and what it has loaded
  counted,        \* history: the solved problems that have ever counted
  spent,          \* history: what a user was charged in total, by prices above 0,
  credited,       \* and what he was given, by prices below 0
  charges,        \* history: how often he was charged a price (not 0) for a hint,
                  \* by a request that did not fail afterwards
  gratis,         \* history: the hints that were unlocked for the price 0
  failures,       \* history: how many requests did fail then
  overlapped      \* history: users two of whose requests have overlapped

requests == <<pc, req>>
history == <<counted, spent, credited, charges, gratis, failures, overlapped>>
ledger == <<spent, credited, charges, gratis, failures>>
vars == <<published, hintCost, accepted, offset, unlocked, requests, history>>

Hints == Users \X Problems
Idle == [cost |-> 0]
Prices == {c \in [Problems -> UNION {Costs(p) : p \in Problems}] :
             \A p \in Problems : c[p] \in Costs(p)}

TypeOK ==
  /\ published \subseteq Problems
  /\ hintCost \in Prices
  /\ accepted \in [Hints -> Nat]
  /\ offset \in [Users -> Int]
  /\ unlocked \subseteq Hints
  /\ pc \in [Slots -> {"idle", "loaded", "checked", "charged"}]
  /\ req \in [Slots -> {Idle} \union [user : Users, problem : Problems, cost : Int,
                                    total : Int, offset : Int]]
  /\ counted \subseteq Hints
  /\ {spent, credited} \subseteq [Users -> Nat]
  /\ charges \in [Hints -> Nat] /\ gratis \subseteq Hints /\ failures \in Nat
  /\ overlapped \subseteq Users

-----------------------------------------------------------------------------
(* The formulas of user.entity.ts ...                                      *)
Solved(u) == {p \in published : accepted[u, p] > 0}
totalScore(u) == MapThenSumSet(LAMBDA p : score[p], Solved(u)) + offset[u]

(* ... and of group.entity.ts, which goes by problems, not by members.     *)
Members(g) == {u \in Users : group[u] = g}
MemberOffsets(g) == MapThenSumSet(LAMBDA u : offset[u], Members(g))

\* Mutant of groupTotalScore: a member counts once per accepted submission.
groupTotalScoreNotDistinct(g) ==
  MapThenSumSet(LAMBDA p : score[p] * MapThenSumSet(LAMBDA u : accepted[u, p], Members(g)),
                published)
    + MemberOffsets(g)

groupTotalScore(g) ==
  MapThenSumSet(LAMBDA p : score[p] * Cardinality({u \in Members(g) : accepted[u, p] > 0}),
                published)
    + MemberOffsets(g)

Init ==
  /\ published = {}
  /\ hintCost \in Prices
  /\ accepted = [h \in Hints |-> 0]
  /\ offset = [u \in Users |-> 0]
  /\ unlocked = {}
  /\ pc = [s \in Slots |-> "idle"]
  /\ req = [s \in Slots |-> Idle]
  /\ counted = {}
  /\ spent = [u \in Users |-> 0] /\ credited = [u \in Users |-> 0]
  /\ charges = [h \in Hints |-> 0] /\ gratis = {} /\ failures = 0
  /\ overlapped = {}

-----------------------------------------------------------------------------
Counting(acc, pub) == {h \in Hints : acc[h] > 0 /\ h[2] \in pub}

(* An accepted submission is stored, whatever the status of the problem.   *)
Accept(u, p) ==
  /\ MapThenSumSet(LAMBDA h : accepted[h], Hints) < MaxAccepted
  /\ accepted' = [accepted EXCEPT ![<<u, p>>] = @ + 1]
  /\ counted' = counted \union Counting(accepted', published)
  /\ UNCHANGED <<published, hintCost, offset, unlocked, requests, ledger, overlapped>>

(* The approval flow publishes a problem and archives it, or, by requests  *)
(* that overlap (see ProblemWorkflow), makes it a draft that may be        *)
(* published again.                                                        *)
Publish(p) ==
  /\ p \notin published
  /\ published' = published \union {p}
  /\ counted' = counted \union Counting(accepted, published')
  /\ UNCHANGED <<hintCost, accepted, offset, unlocked, requests, ledger, overlapped>>

Withdraw(p) ==
  /\ p \in published
  /\ published' = published \ {p}
  /\ UNCHANGED <<hintCost, accepted, offset, unlocked, requests, history>>

(* An author edits his draft, or a SuperAdmin any problem.                 *)
Reprice(p, c) ==
  /\ hintCost[p] # c
  /\ hintCost' = [hintCost EXCEPT ![p] = c]
  /\ UNCHANGED <<published, accepted, offset, unlocked, requests, history>>

-----------------------------------------------------------------------------
Active(u) == {s \in Slots : pc[s] # "idle" /\ req[s].user = u}

Ends(s) ==
  /\ pc' = [pc EXCEPT ![s] = "idle"]
  /\ req' = [req EXCEPT ![s] = Idle]

(* update() with unlockHint loads the problem, and the user with his total *)
(* score and his offset in one query.                                      *)
Load(s, u, p) ==
  /\ pc[s] = "idle"
  /\ pc' = [pc EXCEPT ![s] = "loaded"]
  /\ req' = [req EXCEPT ![s] = [user |-> u, problem |-> p, cost |-> hintCost[p],
                                total |-> totalScore(u), offset |-> offset[u]]]
  /\ overlapped' = IF Active(u) = {} THEN overlapped ELSE overlapped \union {u}
  /\ UNCHANGED <<published, hintCost, accepted, offset, unlocked, counted, ledger>>

Hint(s) == <<req[s].user, req[s].problem>>

\* Mutant of MayUnlock: the score is not looked at.
MayUnlockOnCredit(s) == Hint(s) \notin unlocked

(* The collection is loaded; a user who cannot pay, or has the hint, gets  *)
(* an exception.                                                           *)
MayUnlock(s) == req[s].total >= req[s].cost /\ Hint(s) \notin unlocked

Check(s) ==
  /\ pc[s] = "loaded"
  /\ IF MayUnlock(s) THEN pc' = [pc EXCEPT ![s] = "checked"] /\ UNCHANGED req ELSE Ends(s)
  /\ UNCHANGED <<published, hintCost, accepted, offset, unlocked, history>>

\* Mutant of NewOffset: the reduction is applied to the total score.
NewOffsetOfTotal(s) == req[s].total - req[s].cost

NewOffset(s) == req[s].offset - req[s].cost

(* The part of a number above 0.                                           *)
Above(n) == IF n > 0 THEN n ELSE 0

(* updateInternal() flushes the new offset; a hint that costs nothing      *)
(* changes nothing, so that nothing is written.                            *)
Charge(s) ==
  /\ pc[s] = "checked"
  /\ pc' = [pc EXCEPT ![s] = "charged"]
  /\ offset' = IF req[s].cost = 0 THEN offset
               ELSE [offset EXCEPT ![req[s].user] = NewOffset(s)]
  /\ spent' = [spent EXCEPT ![req[s].user] = @ + Above(req[s].cost)]
  /\ credited' = [credited EXCEPT ![req[s].user] = @ + Above(-req[s].cost)]
  /\ charges' = IF req[s].cost = 0 THEN charges ELSE [charges EXCEPT ![Hint(s)] = @ + 1]
  /\ UNCHANGED <<published, hintCost, accepted, unlocked, req, counted, gratis, failures, overlapped>>

(* The flush at the end of update(), or before one of its exceptions.      *)
Link(s) ==
  /\ pc[s] = "charged"
  /\ Hint(s) \notin unlocked
  /\ unlocked' = unlocked \union {Hint(s)}
  /\ gratis' = IF req[s].cost = 0 THEN gratis \union {Hint(s)} ELSE gratis
  /\ Ends(s)
  /\ UNCHANGED <<published, hintCost, accepted, offset, counted, spent, credited, charges,
                 failures, overlapped>>

(* The row is there already: the database refuses it.                      *)
LinkRefused(s) ==
  /\ pc[s] = "charged"
  /\ Hint(s) \in unlocked
  /\ Ends(s)
  /\ UNCHANGED <<published, hintCost, accepted, offset, unlocked, history>>

(* A request ends early: by an error of the database or a crash, or, when  *)
(* the hint is paid, by one of the exceptions of update() that do not      *)
(* flush, if the request asks for something else besides the hint.         *)
Fails(s) ==
  /\ pc[s] # "idle"
  /\ IF pc[s] = "charged"
     THEN /\ failures < MaxFailures
          /\ failures' = failures + 1
          /\ charges' = IF req[s].cost = 0 THEN charges
                        ELSE [charges EXCEPT ![Hint(s)] = @ - 1]
     ELSE UNCHANGED <<charges, failures>>
  /\ Ends(s)
  /\ UNCHANGED <<published, hintCost, accepted, offset, unlocked, counted, spent, credited,
                 gratis, overlapped>>

\* Mutant of ShowsHint: the hint is there for those who could pay it.
ShowsHintAffordable(u, p) == totalScore(u) >= hintCost[p] \/ <<u, p>> \in unlocked

(* findOne(), with which update() answers, too: who is neither the author  *)
(* nor a reviewer gets the problem with or without its hint.               *)
ShowsHint(u, p) == hintCost[p] = 0 \/ <<u, p>> \in unlocked

Next ==
  \/ \E u \in Users, p \in Problems : Accept(u, p)
  \/ \E p \in Problems : Publish(p) \/ Withdraw(p)
  \/ \E p \in Problems : \E c \in Costs(p) : Reprice(p, c)
  \/ \E s \in Slots, u \in Buyers, p \in Problems : Load(s, u, p)
  \/ \E s \in Slots : Check(s) \/ Charge(s) \/ Link(s) \/ LinkRefused(s) \/ Fails(s)

Spec == Init /\ [][Next]_vars

-----------------------------------------------------------------------------
Earned(u) == MapThenSumSet(LAMBDA h : score[h[2]], {h \in counted : h[1] = u})

(* Nobody spends more than he has earned with problems that were published *)
(* when, or after, he had solved them, however his requests overlap and    *)
(* whatever the prices: an update that is lost is one that was computed    *)
(* from an older balance, so that the last one is covered in any case.     *)
SpendsOnlyEarned == \A u \in Users : offset[u] + Earned(u) >= 0

(* The offset never takes more from a user than he was charged for hints,  *)
(* nor gives him more than prices below 0 gave him, and is exactly the     *)
(* difference if his requests did not overlap.  Then, too, of the requests *)
(* that did not fail exactly one charged him for each hint that he has, or *)
(* that is about to be delivered, unless its price was 0 for that request, *)
(* and none for any other hint.                                            *)
HintsArePaidFor ==
  \A u \in Users :
    /\ offset[u] + spent[u] >= 0 /\ offset[u] <= credited[u]
    /\ u \notin overlapped =>
         /\ offset[u] = credited[u] - spent[u]
         /\ \A p \in Problems :
              charges[<<u, p>>] = Cardinality({h \in unlocked \ gratis : h = <<u, p>>}
                \union {s \in Active(u) : /\ pc[s] = "charged" /\ req[s].problem = p
                                         /\ req[s].cost # 0})

(* Who is shown a hint that has a price was charged a price for it, though *)
(* maybe another one, by a request that did not fail, or unlocked it when  *)
(* its price was 0: however his requests overlap, whichever of them fail,  *)
(* and however often the price is changed in between.                      *)
NoFreeHints ==
  \A u \in Users, p \in Problems :
    ShowsHint(u, p) =>
      hintCost[p] = 0 \/ charges[<<u, p>>] > 0 \/ <<u, p>> \in gratis

(* A group, computed by problems, scores what its members score together.  *)
GroupScoreIsSum ==
  \A g \in Groups : groupTotalScore(g) = MapThenSumSet(totalScore, Members(g))

=============================================================================
