--------------------------- MODULE ProblemProofs ---------------------------
(***************************************************************************)
(* What ProblemWorkflow guarantees for any users and contents: however     *)
(* many requests overlap, type correctness and that nothing gets out that  *)
(* nobody has approved, nor, after a return to draft, without another      *)
(* approval; as long as none overlap, that what gets out was checked and   *)
(* is what the reviewer has seen.                                          *)
(***************************************************************************)
EXTENDS ProblemWorkflow, TLAPS

Out == {"Approved", "Published", "Archived"}

(* A request that is about to write one of these states either approves    *)
(* itself, by a user who may, or has loaded a row that was approved before *)
(* (or is archiving, publishing or editing such a row).                    *)
RequestsReviewed ==
  \A s \in Slots : pc[s] # "idle" /\ entity[s].status \in Out =>
    IF entity[s].status = "Approved" /\ seen[s].status # "Approved"
    THEN Reviews(user[s])
    ELSE Reviews(approval.by)

UnderWay == \A s \in Slots : pc[s] # "idle" =>
  user[s] \in Users /\ seen[s] \in Rows /\ entity[s] \in Rows

IndInv == TypeOK /\ UnderWay /\ OutOnlyReviewed /\ RequestsReviewed

LEMMA MoveTypes ==
  ASSUME NEW u \in Users, NEW to \in Statuses \union {"same"}, row \in Rows,
         to = "same" \/ MayMove(u, row.status, to)
  PROVE  (IF to = "same" THEN row ELSE Moved(u, to)) \in Rows
<1>1. CASE to = "same"
  BY <1>1
<1>2. CASE to # "same"
  <2>1. to \in Statuses
    BY <1>2
  <2>2. ReviewerAfter(u, to, row.reviewer) \in Users \union {Nobody}
    BY <2>1 DEF ReviewerAfter, Rows, Statuses
  <2>. QED
    BY <1>2, <2>1, <2>2 DEF Rows, Moved
<1>. QED
  BY <1>1, <1>2

LEMMA IndInit == Init => IndInv
<1>. SUFFICES ASSUME Init PROVE IndInv
  OBVIOUS
<1>1. row \in Rows /\ row.status = "Draft"
  BY DEF Init, Rows, Statuses
<1>2. TypeOK
  BY <1>1 DEF Init, TypeOK
<1>3. UnderWay /\ RequestsReviewed
  BY DEF Init, UnderWay, RequestsReviewed
<1>4. OutOnlyReviewed
  BY <1>1 DEF OutOnlyReviewed
<1>. QED
  BY <1>2, <1>3, <1>4 DEF IndInv

LEMMA IndReceive ==
  ASSUME IndInv, NEW s \in Slots, NEW u \in Users, NEW to \in Statuses \union {"same"},
         NEW c \in Contents \union {Nothing}, Receive(s, u, to, c)
  PROVE  IndInv'
<1>. USE DEF IndInv
<1>. DEFINE new == IF to = "same" THEN row ELSE Moved(u, to)
<1>1. new \in Rows
  BY MoveTypes DEF Receive, TypeOK
<1>2. TypeOK'
  BY <1>1 DEF Receive, TypeOK
<1>3. UnderWay'
  BY <1>1 DEF Receive, TypeOK, UnderWay
<1>4. OutOnlyReviewed'
  BY DEF Receive, OutOnlyReviewed
<1>5. ASSUME new.status \in Out
      PROVE  IF new.status = "Approved" /\ row.status # "Approved"
             THEN Reviews(u) ELSE Reviews(approval.by)
  <2>1. CASE to = "same"
    BY <1>5, <2>1 DEF OutOnlyReviewed, Out
  <2>2. CASE to # "same"
    <3>1. MayMove(u, row.status, to) /\ new.status = to
      BY <2>2 DEF Receive, Moved
    <3>. QED
      BY <1>5, <3>1 DEF MayMove, OutOnlyReviewed, Out
  <2>. QED
    BY <2>1, <2>2
<1>6. RequestsReviewed'
  <2>. SUFFICES ASSUME NEW t \in Slots, pc'[t] # "idle", entity'[t].status \in Out
                PROVE  IF entity'[t].status = "Approved" /\ seen'[t].status # "Approved"
                       THEN Reviews(user'[t]) ELSE Reviews(approval'.by)
    BY DEF RequestsReviewed, Reviews, IsSuper
  <2>1. CASE t = s
    <3>1. entity'[t] = new /\ seen'[t] = row /\ user'[t] = u /\ approval' = approval
      BY <2>1 DEF Receive, TypeOK
    <3>. QED
      BY <1>5, <3>1
  <2>2. CASE t # s
    BY <2>2 DEF Receive, TypeOK, RequestsReviewed
  <2>. QED
    BY <2>1, <2>2
<1>. QED
  BY <1>2, <1>3, <1>4, <1>6

LEMMA IndEnds ==
  ASSUME IndInv, NEW s \in Slots, Ends(s)
  PROVE  /\ pc' \in [Slots -> {"idle", "verifying", "flushing"}]
         /\ user' \in [Slots -> Users \union {Nobody}]
         /\ edit' \in [Slots -> Contents \union {Nothing}]
         /\ seen' \in [Slots -> Rows \union {Nothing}]
         /\ entity' \in [Slots -> Rows \union {Nothing}]
         /\ \A t \in Slots : pc'[t] # "idle" =>
              t # s /\ pc[t] # "idle" /\ user'[t] = user[t] /\ seen'[t] = seen[t]
              /\ entity'[t] = entity[t]
BY DEF IndInv, TypeOK, Ends

LEMMA IndThrows ==
  ASSUME IndInv, NEW s \in Slots, Throws(s)
  PROVE  IndInv'
<1>1. Ends(s) /\ UNCHANGED <<row, exists, approval, standing, override, overlapped, crossed>>
  BY DEF Throws, history
<1>2. TypeOK' /\ UnderWay'
  BY <1>1, IndEnds DEF IndInv, TypeOK, UnderWay
<1>3. OutOnlyReviewed'
  BY <1>1 DEF IndInv, OutOnlyReviewed
<1>4. RequestsReviewed'
  BY <1>1, IndEnds DEF IndInv, RequestsReviewed, Reviews, IsSuper
<1>. QED
  BY <1>2, <1>3, <1>4 DEF IndInv

LEMMA IndVerified ==
  ASSUME IndInv, NEW s \in Slots, Verified(s)
  PROVE  IndInv'
<1>1. /\ pc' = [pc EXCEPT ![s] = "flushing"] /\ pc[s] # "idle"
      /\ UNCHANGED <<row, exists, user, edit, seen, entity, approval, standing, override, overlapped, crossed>>
  BY DEF Verified, history
<1>2. \A t \in Slots : pc'[t] # "idle" => pc[t] # "idle"
  BY <1>1 DEF IndInv, TypeOK
<1>3. TypeOK' /\ UnderWay'
  BY <1>1, <1>2 DEF IndInv, TypeOK, UnderWay
<1>4. OutOnlyReviewed' /\ RequestsReviewed'
  BY <1>1, <1>2 DEF IndInv, OutOnlyReviewed, RequestsReviewed, Reviews, IsSuper
<1>. QED
  BY <1>3, <1>4 DEF IndInv

(* The status that is written is that of the entity, or the row keeps its  *)
(* own; in both cases an approval precedes it.                             *)
LEMMA IndFlush ==
  ASSUME IndInv, NEW s \in Slots, Flush(s)
  PROVE  IndInv'
<1>. DEFINE content == IF edit[s] # Nothing /\ MayEdit(s) THEN edit[s] ELSE entity[s].content
            written == [status |-> Changed(s, "status", entity[s].status),
                        content |-> Changed(s, "content", content),
                        reviewer |-> Changed(s, "reviewer", entity[s].reviewer)]
            moved == entity[s].status # seen[s].status
            approved == exists /\ moved /\ entity[s].status = "Approved"
<1>1. /\ pc[s] = "flushing" /\ Ends(s) /\ UNCHANGED <<exists, overlapped>>
      /\ row' = IF exists THEN written ELSE row
      /\ approval' = IF approved
                     THEN [by |-> user[s], content |-> seen[s].content] ELSE approval
      /\ {standing', override', crossed'} \subseteq BOOLEAN
  BY DEF Flush, IndInv, TypeOK
<1>2. user[s] \in Users /\ seen[s] \in Rows /\ entity[s] \in Rows /\ row \in Rows
  BY <1>1 DEF IndInv, UnderWay, TypeOK
<1>3. written \in Rows
  <2>1. content \in Contents
    BY <1>2 DEF IndInv, TypeOK, Rows
  <2>2. /\ Changed(s, "status", entity[s].status) \in Statuses
        /\ Changed(s, "reviewer", entity[s].reviewer) \in Users \union {Nobody}
    BY <1>2 DEF Changed, Rows
  <2>3. Changed(s, "content", content) \in Contents
    BY <1>2, <2>1 DEF Changed, Rows
  <2>. QED
    BY <2>2, <2>3 DEF Rows
<1>4. TypeOK' /\ UnderWay'
  BY <1>1, <1>2, <1>3, IndEnds DEF IndInv, TypeOK, UnderWay, Rows
<1>5. approved => Reviews(user[s])
  BY <1>1, <1>2 DEF IndInv, RequestsReviewed, Out
<1>6. Reviews(approval.by) => Reviews(approval'.by)
  BY <1>1, <1>5
<1>7. OutOnlyReviewed'
  <2>. SUFFICES ASSUME row'.status \in Out PROVE Reviews(approval'.by)
    BY DEF OutOnlyReviewed, Out, Reviews, IsSuper
  <2>1. CASE row'.status = row.status
    BY <1>6, <2>1 DEF IndInv, OutOnlyReviewed, Out
  <2>2. CASE row'.status # row.status
    <3>1. exists /\ row'.status = entity[s].status /\ moved
      BY <1>1, <1>2, <2>2 DEF Changed, Rows
    <3>2. CASE entity[s].status = "Approved"
      BY <1>1, <1>5, <3>1, <3>2
    <3>3. CASE entity[s].status # "Approved"
      BY <1>1, <1>6, <3>1, <3>3 DEF IndInv, RequestsReviewed
    <3>. QED
      BY <3>2, <3>3
  <2>. QED
    BY <2>1, <2>2
<1>8. RequestsReviewed'
  BY <1>1, <1>6, IndEnds DEF IndInv, RequestsReviewed, Reviews, IsSuper
<1>. QED
  BY <1>4, <1>7, <1>8 DEF IndInv

LEMMA IndNext == IndInv /\ [Next]_vars => IndInv'
<1>. SUFFICES ASSUME IndInv, [Next]_vars PROVE IndInv'
  OBVIOUS
<1>1. CASE \E s \in Slots, u \in Users, to \in Statuses \union {"same"},
              c \in Contents \union {Nothing} : Receive(s, u, to, c)
  BY <1>1, IndReceive
<1>2. CASE \E s \in Slots : Verified(s) \/ Throws(s) \/ Flush(s)
  BY <1>2, IndVerified, IndThrows, IndFlush
<1>3. CASE Remove
  BY <1>3 DEF Remove, request, history, IndInv, TypeOK, UnderWay, OutOnlyReviewed,
     RequestsReviewed, Reviews, IsSuper
<1>4. CASE UNCHANGED vars
  BY <1>4 DEF vars, request, history, IndInv, TypeOK, UnderWay, OutOnlyReviewed,
     RequestsReviewed, Reviews, IsSuper
<1>. QED
  BY <1>1, <1>2, <1>3, <1>4 DEF Next, Gone

LEMMA IndHolds == Spec => []IndInv
  BY IndInit, IndNext, PTL DEF Spec

(* The row and the requests under way are well-formed, always.             *)
THEOREM TypeCorrect == Spec => []TypeOK
<1>1. IndInv => TypeOK
  BY DEF IndInv
<1>. QED
  BY <1>1, IndHolds, PTL

(* However many requests overlap (problems.service.ts, update()), whatever *)
(* is approved, published or archived was approved once by a reviewer who  *)
(* is not its author, or by a SuperAdmin.                                  *)
THEOREM NothingOutUnreviewed == Spec => []OutOnlyReviewed
<1>1. IndInv => OutOnlyReviewed
  BY DEF IndInv
<1>. QED
  BY <1>1, IndHolds, PTL

-----------------------------------------------------------------------------
(* As long as no two requests overlap, a request is alone and the row is   *)
(* still what it has loaded.                                               *)
Solo == ~overlapped =>
  \A s \in Slots : pc[s] # "idle" =>
    /\ \A t \in Slots : pc[t] # "idle" => t = s
    /\ exists => seen[s] = row

(* What a request may write: the loaded content, unless an edit replaces   *)
(* it; a status that its user may ask for; and, if it submits the problem, *)
(* a content that has passed its tests.                                    *)
Decided ==
  \A s \in Slots : pc[s] # "idle" =>
    /\ entity[s].content = seen[s].content
    /\ entity[s].status # seen[s].status =>
         MayMove(user[s], seen[s].status, entity[s].status)
    /\ pc[s] = "flushing" /\ entity[s].status = "AwaitingApproval"
         /\ seen[s].status # "AwaitingApproval" => seen[s].content \in Sound

FlowInv ==
  /\ IndInv /\ Solo /\ Decided
  /\ CheckedUnlessOverlapped /\ ReviewedIsLive

LEMMA FlowInit == Init => FlowInv
<1>. SUFFICES ASSUME Init PROVE FlowInv
  OBVIOUS
<1>1. Solo /\ Decided
  BY DEF Init, Solo, Decided
<1>2. row.status = "Draft"
  BY DEF Init
<1>3. CheckedUnlessOverlapped /\ ReviewedIsLive
  BY <1>2 DEF CheckedUnlessOverlapped, SubmittedWasChecked, ReviewedIsLive
<1>. QED
  BY IndInit, <1>1, <1>3 DEF FlowInv

LEMMA FlowReceive ==
  ASSUME FlowInv, NEW s \in Slots, NEW u \in Users, NEW to \in Statuses \union {"same"},
         NEW c \in Contents \union {Nothing}, Receive(s, u, to, c)
  PROVE  FlowInv'
<1>. DEFINE new == IF to = "same" THEN row ELSE Moved(u, to)
<1>1. IndInv'
  BY IndReceive DEF FlowInv
<1>2. /\ pc[s] = "idle"
      /\ pc' = [pc EXCEPT ![s] = IF to = "AwaitingApproval" THEN "verifying" ELSE "flushing"]
      /\ user' = [user EXCEPT ![s] = u]
      /\ seen' = [seen EXCEPT ![s] = row]
      /\ entity' = [entity EXCEPT ![s] = new]
      /\ overlapped' = (overlapped \/ \E t \in Slots : pc[t] # "idle")
      /\ UNCHANGED <<row, exists, approval, standing, override, crossed>>
      /\ to # "same" => MayMove(u, row.status, to)
  BY DEF Receive
<1>3. TypeOK
  BY DEF FlowInv, IndInv
<1>4. /\ pc'[s] = IF to = "AwaitingApproval" THEN "verifying" ELSE "flushing"
      /\ user'[s] = u /\ seen'[s] = row /\ entity'[s] = new
      /\ \A t \in Slots : t # s =>
           pc'[t] = pc[t] /\ user'[t] = user[t] /\ seen'[t] = seen[t] /\ entity'[t] = entity[t]
  BY <1>2, <1>3 DEF TypeOK
<1>5. Solo'
  BY <1>2, <1>4 DEF Solo
<1>6. Decided'
  <2>. SUFFICES ASSUME NEW t \in Slots, pc'[t] # "idle"
                PROVE  /\ entity'[t].content = seen'[t].content
                       /\ entity'[t].status # seen'[t].status =>
                            MayMove(user'[t], seen'[t].status, entity'[t].status)
                       /\ pc'[t] = "flushing" /\ entity'[t].status = "AwaitingApproval"
                            /\ seen'[t].status # "AwaitingApproval" =>
                              seen'[t].content \in Sound
    BY DEF Decided, MayMove, Owns, Reviews, IsSuper
  <2>1. CASE t # s
    BY <1>4, <2>1 DEF FlowInv, Decided
  <2>2. CASE t = s /\ to = "same"
    BY <1>4, <2>2
  <2>3. CASE t = s /\ to # "same"
    <3>1. new.content = row.content /\ new.status = to
      BY <2>3 DEF Moved
    <3>. QED
      BY <1>2, <1>4, <2>3, <3>1
  <2>. QED
    BY <2>1, <2>2, <2>3
<1>7. (CheckedUnlessOverlapped /\ ReviewedIsLive)'
  BY <1>2 DEF FlowInv, CheckedUnlessOverlapped, SubmittedWasChecked, ReviewedIsLive
<1>. QED
  BY <1>1, <1>5, <1>6, <1>7 DEF FlowInv

LEMMA FlowVerified ==
  ASSUME FlowInv, NEW s \in Slots, Verified(s)
  PROVE  FlowInv'
<1>1. IndInv'
  BY IndVerified DEF FlowInv
<1>2. /\ pc[s] = "verifying" /\ seen[s].content \in Sound
      /\ pc' = [pc EXCEPT ![s] = "flushing"]
      /\ UNCHANGED <<row, exists, user, edit, seen, entity, approval, standing, override, overlapped, crossed>>
  BY DEF Verified, history
<1>3. \A t \in Slots : t # s => pc'[t] = pc[t]
  BY <1>2 DEF FlowInv, IndInv, TypeOK
<1>4. Solo' /\ Decided'
  BY <1>2, <1>3 DEF FlowInv, Solo, Decided, MayMove, Owns, Reviews, IsSuper
<1>5. (CheckedUnlessOverlapped /\ ReviewedIsLive)'
  BY <1>2 DEF FlowInv, CheckedUnlessOverlapped, SubmittedWasChecked, ReviewedIsLive
<1>. QED
  BY <1>1, <1>4, <1>5 DEF FlowInv

LEMMA FlowThrows ==
  ASSUME FlowInv, NEW s \in Slots, Throws(s)
  PROVE  FlowInv'
<1>1. IndInv'
  BY IndThrows DEF FlowInv
<1>2. Ends(s) /\ UNCHANGED <<row, exists, approval, standing, override, overlapped, crossed>>
  BY DEF Throws, history
<1>3. Solo' /\ Decided'
  BY <1>2, IndEnds DEF FlowInv, Solo, Decided, MayMove, Owns, Reviews, IsSuper, Ends,
     IndInv, TypeOK
<1>4. (CheckedUnlessOverlapped /\ ReviewedIsLive)'
  BY <1>2 DEF FlowInv, CheckedUnlessOverlapped, SubmittedWasChecked, ReviewedIsLive
<1>. QED
  BY <1>1, <1>3, <1>4 DEF FlowInv

(* What a flush writes that no other request has disturbed.                *)
LEMMA FlushAlone ==
  ASSUME FlowInv, NEW s \in Slots, Flush(s), exists, ~overlapped
  PROVE  /\ seen[s] = row
         /\ row'.status = entity[s].status
         /\ row'.content = row.content \/ row'.status = "Draft" \/ override'
         /\ row'.status = row.status \/ MayMove(user[s], row.status, row'.status)
<1>. DEFINE content == IF edit[s] # Nothing /\ MayEdit(s) THEN edit[s] ELSE entity[s].content
            written == [status |-> Changed(s, "status", entity[s].status),
                        content |-> Changed(s, "content", content),
                        reviewer |-> Changed(s, "reviewer", entity[s].reviewer)]
<1>1. pc[s] = "flushing" /\ row' = written
  BY DEF Flush
<1>2. seen[s] = row
  BY <1>1 DEF FlowInv, Solo
<1>3. /\ row'.status = entity[s].status
      /\ row'.content = content
  BY <1>1, <1>2 DEF Changed
<1>4. ASSUME content # row.content PROVE entity[s].status = "Draft" \/ override'
  <2>1. entity[s].content = row.content
    BY <1>1, <1>2 DEF FlowInv, Decided
  <2>2. MayEdit(s)
    BY <1>4, <2>1
  <2>3. CASE entity[s].status # "Draft"
    <3>1. IsSuper(user[s])
      BY <2>2, <2>3 DEF MayEdit
    <3>2. content # seen[s].content
      BY <1>2, <1>4
    <3>. QED
      BY <2>3, <3>1, <3>2 DEF Flush
  <2>. QED
    BY <2>3
<1>5. row'.status = row.status \/ MayMove(user[s], row.status, row'.status)
  BY <1>1, <1>2, <1>3 DEF FlowInv, Decided
<1>. QED
  BY <1>2, <1>3, <1>4, <1>5

LEMMA FlowFlush ==
  ASSUME FlowInv, NEW s \in Slots, Flush(s)
  PROVE  FlowInv'
<1>. DEFINE moved == entity[s].status # seen[s].status
<1>1. IndInv'
  BY IndFlush DEF FlowInv
<1>2. pc[s] = "flushing" /\ Ends(s) /\ UNCHANGED <<exists, overlapped>>
      /\ (~exists => row' = row)
  BY DEF Flush
<1>3. Decided'
  BY <1>2, IndEnds DEF FlowInv, Decided, MayMove, Owns, Reviews, IsSuper, Ends,
     IndInv, TypeOK
<1>4. Solo'
  <2>1. ASSUME ~overlapped, NEW t \in Slots PROVE pc'[t] = "idle"
    BY <1>2, <2>1, IndEnds DEF FlowInv, Solo
  <2>. QED
    BY <1>2, <2>1 DEF Solo
<1>5. CASE ~exists \/ overlapped
  BY <1>1, <1>2, <1>3, <1>4, <1>5 DEF FlowInv, CheckedUnlessOverlapped, SubmittedWasChecked,
     ReviewedIsLive
<1>6. CASE exists /\ ~overlapped /\ ~override' /\ row'.status # "Draft"
  <2>1. /\ seen[s] = row
        /\ row'.status = entity[s].status
        /\ row'.content = row.content
        /\ row'.status = row.status \/ MayMove(user[s], row.status, row'.status)
    BY <1>6, FlushAlone
  <2>2. ~override \/ row'.status = "AwaitingApproval"
    BY <1>6, <2>1 DEF Flush
  <2>3. CheckedUnlessOverlapped'
    <3>1. CASE row'.status # row.status /\ row'.status = "AwaitingApproval"
      <4>1. seen[s].content \in Sound
        BY <1>2, <2>1, <3>1 DEF FlowInv, Decided
      <4>. QED
        BY <2>1, <4>1 DEF CheckedUnlessOverlapped, SubmittedWasChecked
    <3>2. CASE row'.status = row.status
      <4>1. ~override
        BY <1>6, <2>1, <3>2 DEF Flush
      <4>. QED
        BY <1>2, <1>6, <2>1, <3>2, <4>1 DEF FlowInv, CheckedUnlessOverlapped,
           SubmittedWasChecked
    <3>3. CASE row'.status # row.status /\ row'.status # "AwaitingApproval"
      <4>1. row.status # "Draft"
        BY <1>6, <2>1, <3>3 DEF MayMove
      <4>. QED
        BY <1>2, <1>6, <2>1, <2>2, <3>3, <4>1 DEF FlowInv, CheckedUnlessOverlapped,
           SubmittedWasChecked
    <3>. QED
      BY <3>1, <3>2, <3>3
  <2>4. ReviewedIsLive'
    <3>. SUFFICES ASSUME row'.status \in {"Approved", "Published"}
                  PROVE  row'.content = approval'.content
      BY DEF ReviewedIsLive
    <3>1. CASE row'.status # row.status /\ row'.status = "Approved"
      <4>1. approval' = [by |-> user[s], content |-> seen[s].content]
        BY <1>6, <2>1, <3>1 DEF Flush
      <4>. QED
        BY <2>1, <4>1
    <3>2. CASE row'.status = row.status \/ row'.status = "Published"
      <4>1. approval' = approval
        BY <1>6, <2>1, <3>2 DEF Flush
      <4>2. row.status \in {"Approved", "Published"}
        BY <2>1, <3>2 DEF MayMove
      <4>. QED
        BY <1>6, <2>1, <2>2, <4>1, <4>2 DEF FlowInv, ReviewedIsLive
    <3>. QED
      BY <3>1, <3>2
  <2>. QED
    BY <1>1, <1>3, <1>4, <2>3, <2>4 DEF FlowInv
<1>7. CASE override' \/ row'.status = "Draft"
  BY <1>1, <1>3, <1>4, <1>7 DEF FlowInv, CheckedUnlessOverlapped, SubmittedWasChecked,
     ReviewedIsLive
<1>. QED
  BY <1>5, <1>6, <1>7

LEMMA FlowNext == FlowInv /\ [Next]_vars => FlowInv'
<1>. SUFFICES ASSUME FlowInv, [Next]_vars PROVE FlowInv'
  OBVIOUS
<1>1. CASE \E s \in Slots, u \in Users, to \in Statuses \union {"same"},
              c \in Contents \union {Nothing} : Receive(s, u, to, c)
  BY <1>1, FlowReceive
<1>2. CASE \E s \in Slots : Verified(s) \/ Throws(s) \/ Flush(s)
  BY <1>2, FlowVerified, FlowThrows, FlowFlush
<1>3. CASE Remove
  <2>1. IndInv'
    BY IndNext, <1>3 DEF FlowInv, Next
  <2>. QED
    BY <1>3, <2>1 DEF Remove, request, history, FlowInv, Solo, Decided, MayMove, Owns,
       Reviews, IsSuper, CheckedUnlessOverlapped, SubmittedWasChecked, ReviewedIsLive
<1>4. CASE UNCHANGED vars
  <2>1. IndInv'
    BY IndNext, <1>4 DEF FlowInv
  <2>. QED
    BY <1>4, <2>1 DEF vars, request, history, FlowInv, Solo, Decided, MayMove, Owns,
       Reviews, IsSuper, CheckedUnlessOverlapped, SubmittedWasChecked, ReviewedIsLive
<1>. QED
  BY <1>1, <1>2, <1>3, <1>4 DEF Next, Gone

LEMMA FlowHolds == Spec => []FlowInv
  BY FlowInit, FlowNext, PTL DEF Spec

(* Unless requests have overlapped, what has left the draft state passed   *)
(* its own tests (verifyTestcases() before the flush), for any number of   *)
(* requests, users and contents.                                           *)
THEOREM CheckedWhenSerial == Spec => []CheckedUnlessOverlapped
<1>1. FlowInv => CheckedUnlessOverlapped
  BY DEF FlowInv
<1>. QED
  BY <1>1, FlowHolds, PTL

(* Under the same condition the approved or published content is the one   *)
(* that the reviewer had loaded when he approved it.                       *)
THEOREM LiveWhenSerial == Spec => []ReviewedIsLive
<1>1. FlowInv => ReviewedIsLive
  BY DEF FlowInv
<1>. QED
  BY <1>1, FlowHolds, PTL

-----------------------------------------------------------------------------
(* What stands behind a request that is about to write one of these states *)
(* without approving it: an approval that is still good, unless some       *)
(* request was under way when the problem became a draft.                  *)
StandingInv ==
  /\ ReviewedAgain
  /\ ~crossed => \A s \in Slots : pc[s] # "idle" /\ entity[s].status \in Out =>
       (entity[s].status = "Approved" /\ seen[s].status # "Approved") \/ standing

LEMMA StandingReceive ==
  ASSUME IndInv, StandingInv, NEW s \in Slots, NEW u \in Users,
         NEW to \in Statuses \union {"same"}, NEW c \in Contents \union {Nothing},
         Receive(s, u, to, c)
  PROVE  StandingInv'
<1>. DEFINE new == IF to = "same" THEN row ELSE Moved(u, to)
<1>1. /\ UNCHANGED <<row, standing, crossed>>
      /\ to # "same" => MayMove(u, row.status, to) /\ new.status = to
  BY DEF Receive, Moved
<1>2. /\ entity'[s] = new /\ seen'[s] = row
      /\ \A t \in Slots : t # s =>
           pc'[t] = pc[t] /\ seen'[t] = seen[t] /\ entity'[t] = entity[t]
  BY DEF Receive, IndInv, TypeOK
<1>3. ~crossed /\ new.status \in Out =>
        (new.status = "Approved" /\ row.status # "Approved") \/ standing
  BY <1>1 DEF StandingInv, ReviewedAgain, MayMove, Out
<1>. QED
  BY <1>1, <1>2, <1>3 DEF StandingInv, ReviewedAgain

LEMMA StandingFlush ==
  ASSUME IndInv, StandingInv, NEW s \in Slots, Flush(s)
  PROVE  StandingInv'
<1>. DEFINE moved == exists /\ entity[s].status # seen[s].status
            alone == \A t \in Slots \ {s} : pc[t] = "idle"
<1>1. /\ pc[s] = "flushing" /\ Ends(s)
      /\ row'.status = IF moved THEN entity[s].status ELSE row.status
      /\ standing' = (/\ ~(moved /\ entity[s].status = "Draft")
                      /\ standing \/ (moved /\ entity[s].status = "Approved"))
      /\ crossed' = (crossed \/ (moved /\ entity[s].status = "Draft" /\ ~alone))
  BY DEF Flush, Changed
<1>2. \A t \in Slots : pc'[t] # "idle" =>
        t # s /\ pc[t] # "idle" /\ seen'[t] = seen[t] /\ entity'[t] = entity[t]
  BY <1>1, IndEnds
<1>3. CASE moved /\ entity[s].status = "Draft"
  BY <1>1, <1>2, <1>3 DEF StandingInv, ReviewedAgain, Out
<1>4. CASE ~(moved /\ entity[s].status = "Draft")
  <2>1. (~crossed' => ~crossed) /\ (standing => standing')
    BY <1>1, <1>4
  <2>2. ~crossed /\ row'.status \in Out => standing'
    BY <1>1, <1>4 DEF StandingInv, ReviewedAgain, Out
  <2>. QED
    BY <1>2, <2>1, <2>2 DEF StandingInv, ReviewedAgain, Out
<1>. QED
  BY <1>3, <1>4

LEMMA StandingNext == IndInv /\ StandingInv /\ [Next]_vars => StandingInv'
<1>. SUFFICES ASSUME IndInv, StandingInv, [Next]_vars PROVE StandingInv'
  OBVIOUS
<1>1. CASE \E s \in Slots, u \in Users, to \in Statuses \union {"same"},
              c \in Contents \union {Nothing} : Receive(s, u, to, c)
  BY <1>1, StandingReceive
<1>2. ASSUME NEW s \in Slots, Verified(s) PROVE StandingInv'
  <2>1. \A t \in Slots : pc'[t] # "idle" => pc[t] # "idle"
    BY <1>2 DEF Verified, IndInv, TypeOK
  <2>. QED
    BY <1>2, <2>1 DEF Verified, history, StandingInv, ReviewedAgain
<1>3. ASSUME NEW s \in Slots, Throws(s) PROVE StandingInv'
  BY <1>3, IndEnds DEF Throws, history, StandingInv, ReviewedAgain
<1>4. ASSUME NEW s \in Slots, Flush(s) PROVE StandingInv'
  BY <1>4, StandingFlush
<1>5. CASE Remove \/ UNCHANGED vars
  BY <1>5 DEF Remove, vars, request, history, StandingInv, ReviewedAgain
<1>. QED
  BY <1>1, <1>2, <1>3, <1>4, <1>5 DEF Next, Gone

(* However many requests overlap, a problem that was returned to draft is  *)
(* approved, published or archived only after another approval; the        *)
(* exception are returns to draft with another request under way.          *)
THEOREM ReviewedAgainAlways == Spec => []ReviewedAgain
<1>1. Init => StandingInv
  BY DEF Init, StandingInv, ReviewedAgain
<1>2. StandingInv => ReviewedAgain
  BY DEF StandingInv
<1>. QED
  BY <1>1, <1>2, IndHolds, StandingNext, PTL DEF Spec

=============================================================================
