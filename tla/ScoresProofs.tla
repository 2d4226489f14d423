---------------------------- MODULE ScoresProofs ----------------------------
(* Proofs about Scores: what hints cost their users, that nobody spends    *)
(* more than he has earned, and that a group scores what its members       *)
(* score, for any users, problems, prices and number of overlapping        *)
(* requests.                                                               *)
(*                                                                         *)
(* The sums are folds over finite sets.  What such a fold computes is      *)
(* proved by taking a smallest set for which it would be wrong.            *)
EXTENDS Scores, FiniteSetTheorems, WellFoundedInduction, TLAPS

Reading == {s \in Slots : pc[s] \in {"loaded", "checked"}}
Delivering(u, p) ==
  \E s \in Active(u) : pc[s] = "charged" /\ req[s].problem = p /\ req[s].cost # 0
Bought == unlocked \ gratis

(* As much of the types as is needed.                                      *)
Typed ==
  /\ hintCost \in [Problems -> Int]
  /\ offset \in [Users -> Int]
  /\ unlocked \subseteq Hints /\ gratis \subseteq unlocked
  /\ pc \in [Slots -> {"idle", "loaded", "checked", "charged"}]
  /\ DOMAIN req = Slots
  /\ \A s \in Slots : pc[s] # "idle" =>
       req[s].user \in Users /\ req[s].problem \in Problems /\ req[s].cost \in Int
         /\ req[s].offset \in Int
  /\ spent \in [Users -> Nat] /\ credited \in [Users -> Nat]
  /\ charges \in [Hints -> Int]

(* No balance, loaded or stored, takes more than has been charged, or      *)
(* gives more than has been credited.                                      *)
Covered ==
  /\ \A u \in Users : offset[u] + spent[u] >= 0 /\ offset[u] <= credited[u]
  /\ \A s \in Reading : /\ req[s].offset + spent[req[s].user] >= 0
                        /\ req[s].offset <= credited[req[s].user]

(* A user whose requests have not overlapped has one at most, and what it  *)
(* has loaded is what is stored.                                           *)
Alone(u) ==
  /\ \A s, q \in Active(u) : s = q
  /\ \A s \in Active(u) \cap Reading : req[s].offset = offset[u]
  /\ \A s \in Active(u) : pc[s] # "loaded" => Hint(s) \notin unlocked

Exact(u) ==
  /\ offset[u] = credited[u] - spent[u]
  /\ \A p \in Problems :
       charges[<<u, p>>] = IF <<u, p>> \in Bought \/ Delivering(u, p) THEN 1 ELSE 0

LedgerInv ==
  /\ Typed
  /\ Covered
  /\ \A u \in Users \ overlapped : Alone(u) /\ Exact(u)

-----------------------------------------------------------------------------
LEMMA AboveParts ==
  ASSUME NEW n \in Int
  PROVE  /\ Above(n) \in Nat /\ Above(-n) \in Nat
         /\ Above(n) >= n /\ Above(-n) >= -n
         /\ Above(-n) - Above(n) = -n
         /\ n = 0 => Above(n) = 0 /\ Above(-n) = 0
BY DEF Above

(* The types are inductive by themselves.                                  *)
LEMMA TypedInvariant == Typed /\ [Next]_vars => Typed'
<1> SUFFICES ASSUME Typed, [Next]_vars PROVE Typed'
  OBVIOUS
<1> USE CostsAssumption, BuyersAssumption
<1>1. ASSUME NEW u \in Users, NEW p \in Problems, Accept(u, p) PROVE Typed'
  BY <1>1 DEF Typed, Accept, requests, ledger
<1>2. ASSUME NEW p \in Problems, Publish(p) \/ Withdraw(p) PROVE Typed'
  BY <1>2 DEF Typed, Publish, Withdraw, requests, ledger, history
<1>3. ASSUME NEW p \in Problems, NEW c \in Costs(p), Reprice(p, c) PROVE Typed'
  BY <1>3 DEF Typed, Reprice, requests, ledger, history
<1>4. ASSUME NEW s \in Slots, NEW u \in Buyers, NEW p \in Problems, Load(s, u, p) PROVE Typed'
  BY <1>4 DEF Typed, Load, ledger
<1>5. ASSUME NEW s \in Slots, Check(s) PROVE Typed'
  BY <1>5 DEF Typed, Check, Ends, history, ledger
<1>6. ASSUME NEW s \in Slots, Charge(s) PROVE Typed'
  <2>1. /\ req[s].user \in Users /\ req[s].cost \in Int /\ req[s].offset \in Int
        /\ Hint(s) \in Hints
    BY <1>6 DEF Typed, Charge, Hint, Hints
  <2>2. Above(req[s].cost) \in Nat /\ Above(-req[s].cost) \in Nat
    BY <2>1, AboveParts
  <2>3. /\ offset' \in [Users -> Int] /\ charges' \in [Hints -> Int]
        /\ spent' \in [Users -> Nat] /\ credited' \in [Users -> Nat]
    BY <1>6, <2>1, <2>2 DEF Typed, Charge, NewOffset
  <2> QED
    BY <1>6, <2>1, <2>3 DEF Typed, Charge
<1>7. ASSUME NEW s \in Slots, Link(s) PROVE Typed'
  <2>1. Hint(s) \in Hints
    BY <1>7 DEF Typed, Link, Hint, Hints
  <2> QED
    BY <1>7, <2>1 DEF Typed, Link, Ends, history, ledger
<1>8. ASSUME NEW s \in Slots, LinkRefused(s) PROVE Typed'
  BY <1>8 DEF Typed, LinkRefused, Ends, history, ledger
<1>9. ASSUME NEW s \in Slots, Fails(s) PROVE Typed'
  <2>1. Hint(s) \in Hints
    BY <1>9 DEF Typed, Fails, Hint, Hints
  <2>2. charges' \in [Hints -> Int]
    BY <1>9, <2>1 DEF Typed, Fails
  <2> QED
    BY <1>9, <2>2 DEF Typed, Fails, Ends
<1>10. CASE UNCHANGED vars
  BY <1>10 DEF Typed, vars, requests, history, ledger
<1> QED
  BY <1>1, <1>2, <1>3, <1>4, <1>5, <1>6, <1>7, <1>8, <1>9, <1>10 DEF Next

(* What a charge takes from the balance it adds to what was spent, and     *)
(* what it gives to what was credited.                                     *)
LEMMA ChargeParts ==
  ASSUME Typed, NEW s \in Slots, Charge(s)
  PROVE  /\ req[s].user \in Users /\ req[s].problem \in Problems
         /\ req[s].cost \in Int /\ req[s].offset \in Int
         /\ Hint(s) \in Hints
         /\ \A u \in Users : u # req[s].user =>
              offset'[u] = offset[u] /\ spent'[u] = spent[u] /\ credited'[u] = credited[u]
         /\ spent'[req[s].user] = spent[req[s].user] + Above(req[s].cost)
         /\ credited'[req[s].user] = credited[req[s].user] + Above(-req[s].cost)
         /\ req[s].cost # 0 => offset'[req[s].user] = req[s].offset - req[s].cost
         /\ req[s].cost = 0 => offset' = offset
BY DEF Typed, Charge, NewOffset, Hint, Hints

LEMMA CoveredInvariant == Typed /\ Covered /\ [Next]_vars => Covered'
<1> SUFFICES ASSUME Typed, Covered, [Next]_vars PROVE Covered'
  OBVIOUS
<1> USE DEF Covered, Reading
<1>1. ASSUME NEW u \in Users, NEW p \in Problems, Accept(u, p) PROVE Covered'
  BY <1>1 DEF Accept, requests, ledger
<1>2. ASSUME NEW p \in Problems, Publish(p) \/ Withdraw(p) PROVE Covered'
  BY <1>2 DEF Publish, Withdraw, requests, ledger, history
<1>3. ASSUME NEW p \in Problems, NEW c \in Costs(p), Reprice(p, c) PROVE Covered'
  BY <1>3 DEF Reprice, requests, ledger, history
<1>4. ASSUME NEW s \in Slots, NEW u \in Buyers, NEW p \in Problems, Load(s, u, p)
      PROVE Covered'
  BY <1>4, BuyersAssumption DEF Load, ledger, Typed
<1>5. ASSUME NEW s \in Slots, Check(s) PROVE Covered'
  BY <1>5 DEF Check, Ends, history, ledger, Typed
<1>6. ASSUME NEW s \in Slots, Charge(s) PROVE Covered'
  <2>1. pc[s] = "checked" /\ pc' = [pc EXCEPT ![s] = "charged"] /\ req' = req
    BY <1>6 DEF Charge
  <2>p. /\ req[s].user \in Users /\ req[s].cost \in Int /\ req[s].offset \in Int
        /\ Above(req[s].cost) \in Nat /\ Above(-req[s].cost) \in Nat
        /\ Above(req[s].cost) >= req[s].cost /\ Above(-req[s].cost) >= -req[s].cost
        /\ req[s].cost = 0 => Above(req[s].cost) = 0 /\ Above(-req[s].cost) = 0
    BY <1>6, ChargeParts, AboveParts
  <2>2. ASSUME NEW u \in Users
        PROVE  offset'[u] + spent'[u] >= 0 /\ offset'[u] <= credited'[u]
    <3>1. CASE u # req[s].user
      BY <1>6, <3>1, ChargeParts
    <3>2. CASE u = req[s].user /\ req[s].cost = 0
      BY <1>6, <2>p, <3>2, ChargeParts DEF Typed
    <3>3. CASE u = req[s].user /\ req[s].cost # 0
      <4>1. req[s].offset + spent[u] >= 0 /\ req[s].offset <= credited[u]
        BY <2>1, <3>3
      <4>2. /\ offset'[u] = req[s].offset - req[s].cost
            /\ spent'[u] = spent[u] + Above(req[s].cost)
            /\ credited'[u] = credited[u] + Above(-req[s].cost)
        BY <1>6, <3>3, ChargeParts
      <4>3. spent[u] \in Nat /\ credited[u] \in Nat
        BY DEF Typed
      <4> QED
        BY <2>p, <4>1, <4>2, <4>3
    <3> QED
      BY <3>1, <3>2, <3>3
  <2>3. ASSUME NEW q \in Reading'
        PROVE  /\ req'[q].offset + spent'[req'[q].user] >= 0
               /\ req'[q].offset <= credited'[req'[q].user]
    <3>1. q \in Reading /\ q # s
      BY <2>1, <2>3 DEF Typed
    <3>2. /\ req[q].user \in Users /\ req[q].offset \in Int
          /\ req[q].offset + spent[req[q].user] >= 0
          /\ req[q].offset <= credited[req[q].user]
      BY <3>1 DEF Typed
    <3>3. ASSUME NEW u \in Users
          PROVE  /\ spent'[u] >= spent[u] /\ spent'[u] \in Int /\ spent[u] \in Int
                 /\ credited'[u] >= credited[u] /\ credited'[u] \in Int /\ credited[u] \in Int
      <4>1. spent[u] \in Nat /\ credited[u] \in Nat
        BY DEF Typed
      <4>2. CASE u = req[s].user
        BY <1>6, <2>p, <4>1, <4>2, ChargeParts
      <4>3. CASE u # req[s].user
        BY <1>6, <4>1, <4>3, ChargeParts
      <4> QED
        BY <4>2, <4>3
    <3> QED
      BY <2>1, <3>2, <3>3
  <2> QED
    BY <2>2, <2>3
<1>7. ASSUME NEW s \in Slots, Link(s) \/ LinkRefused(s) PROVE Covered'
  BY <1>7 DEF Link, LinkRefused, Ends, history, ledger, Typed
<1>8. ASSUME NEW s \in Slots, Fails(s) PROVE Covered'
  BY <1>8 DEF Fails, Ends, Typed
<1>9. CASE UNCHANGED vars
  BY <1>9 DEF vars, requests, history, ledger
<1> QED
  BY <1>1, <1>2, <1>3, <1>4, <1>5, <1>6, <1>7, <1>8, <1>9 DEF Next

-----------------------------------------------------------------------------
(* Whoever is not the user of the request that moves is not concerned.     *)
LEMMA Bystander ==
  ASSUME NEW u \in Users, NEW s \in Slots, req[s].user # u,
         \A q \in Slots \ {s} : pc'[q] = pc[q] /\ req'[q] = req[q],
         pc'[s] = "idle" \/ req'[s].user # u,
         offset'[u] = offset[u], spent'[u] = spent[u], credited'[u] = credited[u],
         \A p \in Problems :
           /\ <<u, p>> \in unlocked' <=> <<u, p>> \in unlocked
           /\ <<u, p>> \in gratis' <=> <<u, p>> \in gratis
           /\ charges'[<<u, p>>] = charges[<<u, p>>],
         Typed, Alone(u), Exact(u)
  PROVE  Alone(u)' /\ Exact(u)'
<1>1. Active(u)' = Active(u)
  BY DEF Active
<1>2. \A q \in Active(u) : q # s /\ q \in Slots /\ req[q].problem \in Problems
  BY DEF Active, Typed
<1>3. Alone(u)'
  BY <1>1, <1>2 DEF Alone, Reading, Hint, Active
<1>4. \A p \in Problems : Delivering(u, p)' <=> Delivering(u, p)
  BY <1>1, <1>2 DEF Delivering
<1> QED
  BY <1>3, <1>4 DEF Exact, Bought

(* A request that ends without delivering, by itself or by a failure.      *)
LEMMA Leaves ==
  ASSUME NEW u \in Users, NEW s \in Active(u), Typed, Alone(u), Exact(u),
         Ends(s), UNCHANGED <<offset, spent, credited, unlocked, gratis>>,
         \A p \in Problems :
           charges'[<<u, p>>] = IF <<u, p>> \in Bought THEN 1 ELSE 0
  PROVE  Alone(u)' /\ Exact(u)'
<1>1. Active(u)' = {}
  BY DEF Active, Alone, Ends, Typed
<1> QED
  BY <1>1 DEF Alone, Exact, Delivering, Bought

LEMMA AloneInvariant == LedgerInv /\ [Next]_vars => \A u \in Users \ overlapped' : Alone(u)' /\ Exact(u)'
<1> SUFFICES ASSUME LedgerInv, [Next]_vars, NEW u \in Users \ overlapped'
             PROVE  Alone(u)' /\ Exact(u)'
  OBVIOUS
<1>1. u \in Users /\ u \notin overlapped /\ Typed
  BY DEF LedgerInv, Next, Accept, Publish, Withdraw, Reprice, Load, Check, Charge, Link, LinkRefused,
         Fails, vars, history, ledger
<1>2. Alone(u) /\ Exact(u)
  BY <1>1 DEF LedgerInv
<1>3. ASSUME UNCHANGED <<offset, unlocked, requests, ledger>>
      PROVE  Alone(u)' /\ Exact(u)'
  BY <1>2, <1>3 DEF Alone, Exact, Delivering, Bought, Active, Reading, Hint, requests, ledger
<1>4. ASSUME NEW s \in Slots, NEW v \in Buyers, NEW p \in Problems, Load(s, v, p)
      PROVE  Alone(u)' /\ Exact(u)'
  <2>1. /\ pc[s] = "idle" /\ pc'[s] = "loaded" /\ req'[s].user = v /\ req'[s].offset = offset[v]
        /\ \A q \in Slots \ {s} : pc'[q] = pc[q] /\ req'[q] = req[q]
        /\ UNCHANGED <<offset, unlocked, spent, credited, charges, gratis>>
    BY <1>1, <1>4 DEF Load, Typed, ledger
  <2>2. CASE v # u
    <3>1. Active(u)' = Active(u) /\ s \notin Active(u)
      BY <2>1, <2>2 DEF Active
    <3> QED
      BY <1>2, <2>1, <3>1 DEF Alone, Exact, Delivering, Bought, Active, Reading, Hint
  <2>3. CASE v = u
    <3>1. Active(u) = {}
      BY <1>4, <2>3 DEF Load
    <3>2. Active(u)' = {s}
      BY <2>1, <2>3, <3>1 DEF Active
    <3> QED
      BY <1>2, <2>1, <2>3, <3>1, <3>2 DEF Alone, Exact, Delivering, Bought
  <2> QED
    BY <2>2, <2>3
<1>5. ASSUME NEW s \in Slots, Check(s) PROVE Alone(u)' /\ Exact(u)'
  <2>1. /\ pc[s] = "loaded" /\ req[s].user \in Users
        /\ UNCHANGED <<offset, unlocked, spent, credited, charges, gratis>>
    BY <1>1, <1>5 DEF Check, Typed, history, ledger
  <2>2. CASE Ends(s) /\ s \in Active(u)
    <3>1. \A p \in Problems : ~Delivering(u, p)
      BY <1>2, <2>1, <2>2 DEF Delivering, Alone
    <3> QED
      BY <1>1, <1>2, <2>1, <2>2, <3>1, Leaves DEF Exact
  <2>3. CASE pc' = [pc EXCEPT ![s] = "checked"] /\ req' = req /\ Hint(s) \notin unlocked
             /\ s \in Active(u)
    <3>1. Active(u)' = Active(u)
      BY <1>1, <2>1, <2>3 DEF Active, Typed
    <3>2. Alone(u)'
      BY <1>1, <1>2, <2>1, <2>3, <3>1 DEF Alone, Reading, Hint, Typed
    <3>3. \A p \in Problems : Delivering(u, p)' <=> Delivering(u, p)
      BY <1>1, <2>1, <2>3, <3>1 DEF Delivering, Typed
    <3> QED
      BY <1>2, <2>1, <3>2, <3>3 DEF Exact, Bought
  <2>4. CASE s \notin Active(u)
    <3>1. req[s].user # u
      BY <2>1, <2>4 DEF Active
    <3>2. /\ \A q \in Slots \ {s} : pc'[q] = pc[q] /\ req'[q] = req[q]
          /\ pc'[s] = "idle" \/ req'[s].user # u
      BY <1>1, <1>5, <3>1 DEF Check, Ends, Typed
    <3> QED
      BY <1>1, <1>2, <2>1, <3>1, <3>2, Bystander
  <2> QED
    BY <1>5, <2>2, <2>3, <2>4 DEF Check, MayUnlock
<1>6. ASSUME NEW s \in Slots, Charge(s) PROVE Alone(u)' /\ Exact(u)'
  <2>1. /\ pc[s] = "checked" /\ pc' = [pc EXCEPT ![s] = "charged"]
        /\ charges' = IF req[s].cost = 0 THEN charges ELSE [charges EXCEPT ![Hint(s)] = @ + 1]
        /\ UNCHANGED <<unlocked, gratis, req>>
    BY <1>6 DEF Charge
  <2>2. CASE req[s].user # u
    <3>1. \A p \in Problems : charges'[<<u, p>>] = charges[<<u, p>>]
      BY <1>1, <2>1, <2>2 DEF Typed, Hint, Hints
    <3>2. offset'[u] = offset[u] /\ spent'[u] = spent[u] /\ credited'[u] = credited[u]
      BY <1>1, <1>6, <2>2, ChargeParts
    <3> QED
      BY <1>1, <1>2, <2>1, <2>2, <3>1, <3>2, Bystander DEF Typed
  <2>3. CASE req[s].user = u
    <3>1. Active(u) = {s} /\ Active(u)' = {s} /\ Hint(s) = <<u, req[s].problem>>
      BY <1>1, <1>2, <2>1, <2>3 DEF Active, Alone, Typed, Hint
    <3>2. req[s].offset = offset[u] /\ Hint(s) \notin unlocked /\ Hint(s) \notin Bought
      BY <1>2, <2>1, <3>1 DEF Alone, Reading, Bought
    <3>3. Alone(u)'
      BY <1>1, <2>1, <3>1, <3>2 DEF Alone, Reading, Hint, Typed
    <3>4. offset'[u] = credited'[u] - spent'[u]
      <4>1. /\ offset'[u] = offset[u] - req[s].cost
            /\ spent'[u] = spent[u] + Above(req[s].cost)
            /\ credited'[u] = credited[u] + Above(-req[s].cost)
            /\ req[s].cost \in Int /\ offset[u] \in Int
        BY <1>1, <1>6, <2>3, <3>2, ChargeParts DEF Typed
      <4>2. Above(-req[s].cost) - Above(req[s].cost) = -req[s].cost
            /\ Above(req[s].cost) \in Nat /\ Above(-req[s].cost) \in Nat
        BY <4>1, AboveParts
      <4>3. offset[u] = credited[u] - spent[u] /\ credited[u] \in Nat /\ spent[u] \in Nat
        BY <1>1, <1>2 DEF Exact, Typed
      <4> QED
        BY <4>1, <4>2, <4>3
    <3>5. ASSUME NEW p \in Problems
          PROVE  charges'[<<u, p>>] = IF <<u, p>> \in Bought' \/ Delivering(u, p)' THEN 1 ELSE 0
      <4>1. ~Delivering(u, p) /\ Bought' = Bought
        BY <2>1, <3>1 DEF Delivering, Bought
      <4>2. charges[<<u, p>>] = IF <<u, p>> \in Bought THEN 1 ELSE 0
        BY <1>2, <4>1 DEF Exact
      <4>3. Delivering(u, p)' <=> p = req[s].problem /\ req[s].cost # 0
        BY <1>1, <2>1, <3>1 DEF Delivering, Typed
      <4>4. CASE p = req[s].problem /\ req[s].cost # 0
        <5>1. charges'[<<u, p>>] = charges[<<u, p>>] + 1
          BY <1>1, <2>1, <3>1, <4>4 DEF Typed, Hints
        <5> QED
          BY <3>1, <3>2, <4>2, <4>3, <4>4, <5>1
      <4>5. CASE ~(p = req[s].problem /\ req[s].cost # 0)
        <5>1. charges'[<<u, p>>] = charges[<<u, p>>]
          BY <1>1, <2>1, <3>1, <4>5 DEF Typed, Hints
        <5> QED
          BY <4>1, <4>2, <4>3, <4>5, <5>1
      <4> QED
        BY <4>4, <4>5
    <3> QED
      BY <3>3, <3>4, <3>5 DEF Exact
  <2> QED
    BY <2>2, <2>3
<1>7. ASSUME NEW s \in Slots, Link(s) PROVE Alone(u)' /\ Exact(u)'
  <2>1. /\ pc[s] = "charged" /\ Hint(s) \notin unlocked /\ unlocked' = unlocked \union {Hint(s)}
        /\ gratis' = IF req[s].cost = 0 THEN gratis \union {Hint(s)} ELSE gratis
        /\ Ends(s) /\ UNCHANGED <<offset, spent, credited, charges>>
    BY <1>7 DEF Link
  <2>2. pc'[s] = "idle" /\ \A q \in Slots \ {s} : pc'[q] = pc[q] /\ req'[q] = req[q]
    BY <1>1, <2>1 DEF Ends, Typed
  <2>3. CASE req[s].user # u
    BY <1>1, <1>2, <2>1, <2>2, <2>3, Bystander DEF Hint
  <2>4. CASE req[s].user = u
    <3>1. Active(u) = {s} /\ Active(u)' = {} /\ Hint(s) = <<u, req[s].problem>>
      BY <1>2, <2>1, <2>2, <2>4 DEF Active, Alone, Hint
    <3>2. \A p \in Problems :
            /\ ~Delivering(u, p)'
            /\ Delivering(u, p) <=> p = req[s].problem /\ req[s].cost # 0
      BY <2>1, <3>1 DEF Delivering
    <3>3. \A p \in Problems :
            <<u, p>> \in Bought' <=> <<u, p>> \in Bought \/ (p = req[s].problem /\ req[s].cost # 0)
      BY <1>1, <2>1, <3>1 DEF Bought, Typed
    <3>4. Alone(u)'
      BY <3>1 DEF Alone
    <3> QED
      BY <1>2, <2>1, <3>2, <3>3, <3>4 DEF Exact
  <2> QED
    BY <2>3, <2>4
<1>8. ASSUME NEW s \in Slots, LinkRefused(s) PROVE Alone(u)' /\ Exact(u)'
  <2>1. /\ pc[s] = "charged" /\ Hint(s) \in unlocked
        /\ Ends(s) /\ UNCHANGED <<offset, spent, credited, charges, gratis, unlocked>>
    BY <1>8 DEF LinkRefused, history, ledger
  <2>2. req[s].user # u
    BY <1>2, <2>1 DEF Alone, Active
  <2> QED
    BY <1>1, <1>2, <2>1, <2>2, Bystander DEF Ends, Typed
<1>9. ASSUME NEW s \in Slots, Fails(s) PROVE Alone(u)' /\ Exact(u)'
  <2>1. /\ pc[s] # "idle" /\ Ends(s) /\ UNCHANGED <<offset, spent, credited, unlocked, gratis>>
        /\ charges' = IF pc[s] = "charged" /\ req[s].cost # 0
                      THEN [charges EXCEPT ![Hint(s)] = @ - 1] ELSE charges
        /\ Hint(s) = <<req[s].user, req[s].problem>> /\ Hint(s) \in Hints
    BY <1>1, <1>9 DEF Fails, Hint, Hints, Typed
  <2>2. CASE req[s].user # u
    <3>1. \A p \in Problems : charges'[<<u, p>>] = charges[<<u, p>>]
      BY <1>1, <2>1, <2>2 DEF Typed, Hints
    <3> QED
      BY <1>1, <1>2, <2>1, <2>2, <3>1, Bystander DEF Ends, Typed
  <2>3. CASE req[s].user = u
    <3>1. Active(u) = {s}
      BY <1>2, <2>1, <2>3 DEF Active, Alone
    <3>2. ASSUME NEW p \in Problems
          PROVE  charges'[<<u, p>>] = IF <<u, p>> \in Bought THEN 1 ELSE 0
      <4>1. Delivering(u, p) <=> pc[s] = "charged" /\ p = req[s].problem /\ req[s].cost # 0
        BY <3>1 DEF Delivering
      <4>2. pc[s] = "charged" => Hint(s) \notin Bought
        BY <1>2, <3>1 DEF Alone, Bought
      <4>3. CASE pc[s] = "charged" /\ p = req[s].problem /\ req[s].cost # 0
        BY <1>1, <1>2, <2>1, <2>3, <4>1, <4>2, <4>3 DEF Exact, Typed
      <4>4. CASE ~(pc[s] = "charged" /\ p = req[s].problem /\ req[s].cost # 0)
        <5>1. charges'[<<u, p>>] = charges[<<u, p>>]
          BY <1>1, <2>1, <2>3, <4>4 DEF Typed, Hints
        <5> QED
          BY <1>2, <4>1, <4>4, <5>1 DEF Exact
      <4> QED
        BY <4>3, <4>4
    <3> QED
      BY <1>1, <1>2, <2>1, <3>1, <3>2, Leaves
  <2> QED
    BY <2>2, <2>3
<1> QED
  BY <1>3, <1>4, <1>5, <1>6, <1>7, <1>8, <1>9
     DEF Next, Accept, Publish, Withdraw, Reprice, vars, history, ledger

-----------------------------------------------------------------------------
LEMMA LedgerInductive == Spec => []LedgerInv
<1>1. Init => LedgerInv
  <2> SUFFICES ASSUME Init PROVE LedgerInv
    OBVIOUS
  <2>1. Typed
    <3>1. hintCost \in [Problems -> Int]
      BY CostsAssumption DEF Init, Prices
    <3>2. /\ offset \in [Users -> Int] /\ charges \in [Hints -> Int]
          /\ spent \in [Users -> Nat] /\ credited \in [Users -> Nat]
      BY DEF Init
    <3>3. DOMAIN req = Slots /\ \A s \in Slots : pc[s] = "idle"
      BY DEF Init
    <3> QED
      BY <3>1, <3>2, <3>3 DEF Init, Typed
  <2>2. Reading = {} /\ \A u \in Users : Active(u) = {}
    BY DEF Init, Reading, Active
  <2>3. Covered
    BY <2>2 DEF Init, Covered
  <2>4. ASSUME NEW u \in Users PROVE Alone(u) /\ Exact(u)
    BY <2>2 DEF Init, Alone, Exact, Delivering, Bought, Hints
  <2> QED
    BY <2>1, <2>3, <2>4 DEF LedgerInv
<1>2. LedgerInv /\ [Next]_vars => LedgerInv'
  BY TypedInvariant, CoveredInvariant, AloneInvariant DEF LedgerInv
<1> QED
  BY <1>1, <1>2, PTL DEF Spec

(* The deliveries of a hint, had or to come, are as many as its charges.   *)
LEMMA CountsDeliveries ==
  ASSUME NEW u \in Users, Alone(u), Exact(u), NEW p \in Problems
  PROVE  charges[<<u, p>>] = Cardinality({h \in unlocked \ gratis : h = <<u, p>>}
           \union {s \in Active(u) : pc[s] = "charged" /\ req[s].problem = p /\ req[s].cost # 0})
<1> DEFINE had == {h \in unlocked \ gratis : h = <<u, p>>}
           due == {s \in Active(u) : pc[s] = "charged" /\ req[s].problem = p /\ req[s].cost # 0}
<1>1. due # {} <=> Delivering(u, p)
  BY DEF Delivering
<1>2. \A s \in due : Hint(s) = <<u, p>> /\ <<u, p>> \notin Bought /\ due = {s}
  BY DEF Alone, Active, Hint, Bought
<1>3. CASE <<u, p>> \in Bought
  <2>1. had \union due = {<<u, p>>}
    BY <1>2, <1>3 DEF Bought
  <2> QED
    BY <1>3, <2>1, FS_Singleton DEF Exact
<1>4. CASE Delivering(u, p)
  <2>1. PICK s \in due : had \union due = {s}
    BY <1>1, <1>2, <1>4 DEF Bought
  <2> QED
    BY <1>4, <2>1, FS_Singleton DEF Exact
<1>5. CASE <<u, p>> \notin Bought /\ ~Delivering(u, p)
  <2>1. had \union due = {}
    BY <1>1, <1>5 DEF Bought
  <2> QED
    BY <1>5, <2>1, FS_EmptySet DEF Exact
<1> QED
  BY <1>3, <1>4, <1>5

(* However the requests overlap, and whatever the prices, a user's offset  *)
(* takes no more from him than he was charged and gives him no more than   *)
(* prices below 0 gave; if his requests do not overlap, it is exactly the  *)
(* difference, for hints that he has or is about to get, each charged once *)
(* (problems.service.ts:466-489).                                          *)
THEOREM PaidExactly == Spec => []HintsArePaidFor
<1>1. LedgerInv => HintsArePaidFor
  <2> SUFFICES ASSUME LedgerInv, NEW u \in Users PROVE HintsArePaidFor!(u)
    BY DEF HintsArePaidFor
  <2>1. offset[u] + spent[u] >= 0 /\ offset[u] <= credited[u]
    BY DEF LedgerInv, Covered
  <2>2. ASSUME u \notin overlapped
        PROVE  Alone(u) /\ Exact(u)
    BY <2>2 DEF LedgerInv
  <2> QED
    BY <2>1, <2>2, CountsDeliveries DEF Exact
<1> QED
  BY <1>1, LedgerInductive, PTL

-----------------------------------------------------------------------------
(* The requests that have charged a price for a hint and not yet delivered *)
(* it.                                                                     *)
Due(h) == {s \in Slots : pc[s] = "charged" /\ Hint(s) = h /\ req[s].cost # 0}

(* Each of them, and the delivery of a hint that was not free then, was    *)
(* charged separately.                                                     *)
Paid ==
  \A h \in Hints :
    /\ IsFiniteSet(Due(h))
    /\ charges[h] >= Cardinality(Due(h)) + (IF h \in Bought THEN 1 ELSE 0)

(* A request that comes to its end is not due any longer.                  *)
LEMMA DueEnds ==
  ASSUME Typed, Paid, NEW s \in Slots, pc[s] = "charged", req[s].cost # 0, Ends(s)
  PROVE  /\ Hint(s) \in Hints
         /\ \A h \in Hints : h # Hint(s) => Due(h)' = Due(h)
         /\ IsFiniteSet(Due(Hint(s))) /\ IsFiniteSet(Due(Hint(s)) \ {s})
         /\ \A h \in Hints : h = Hint(s) => Due(h)' = Due(h) \ {s}
         /\ Cardinality(Due(Hint(s)) \ {s}) = Cardinality(Due(Hint(s))) - 1
         /\ Cardinality(Due(Hint(s))) \in Nat
<1>1. Hint(s) \in Hints /\ s \in Due(Hint(s))
  BY DEF Typed, Hint, Hints, Due
<1>2. \A h \in Hints : (h # Hint(s) => Due(h)' = Due(h)) /\ (h = Hint(s) => Due(h)' = Due(h) \ {s})
  BY DEF Due, Ends, Typed, Hint
<1>3. IsFiniteSet(Due(Hint(s)))
  BY <1>1 DEF Paid
<1>. QED
  BY <1>1, <1>2, <1>3, FS_RemoveElement, FS_CardinalityType

LEMMA PaidInvariant == Typed /\ Paid /\ [Next]_vars => Paid'
<1>. SUFFICES ASSUME Typed, Paid, [Next]_vars PROVE Paid'
  OBVIOUS
<1>1. ASSUME UNCHANGED <<Bought, charges>>, \A h \in Hints : Due(h)' = Due(h)
      PROVE  Paid'
  BY <1>1 DEF Paid
<1>2. ASSUME NEW s \in Slots, NEW u \in Buyers, NEW p \in Problems, Load(s, u, p)
      PROVE  Paid'
  <2>1. \A h \in Hints : Due(h)' = Due(h)
    BY <1>2 DEF Load, Due, Hint, Typed
  <2>. QED
    BY <1>1, <1>2, <2>1 DEF Load, ledger, Bought
<1>3. ASSUME NEW s \in Slots, Check(s) PROVE Paid'
  <2>1. \A h \in Hints : Due(h)' = Due(h)
    BY <1>3 DEF Check, Ends, Due, Hint, Typed
  <2>. QED
    BY <1>1, <1>3, <2>1 DEF Check, history, ledger, Bought
<1>4. ASSUME NEW s \in Slots, Charge(s) PROVE Paid'
  <2>1. /\ pc[s] = "checked" /\ pc' = [pc EXCEPT ![s] = "charged"] /\ req' = req
        /\ charges' = IF req[s].cost = 0 THEN charges ELSE [charges EXCEPT ![Hint(s)] = @ + 1]
        /\ Bought' = Bought
    BY <1>4 DEF Charge, Bought
  <2>2. Hint(s) \in Hints /\ \A h \in Hints : s \notin Due(h)
    BY <2>1 DEF Typed, Hint, Hints, Due
  <2>3. CASE req[s].cost = 0
    <3>1. \A h \in Hints : Due(h)' = Due(h)
      BY <2>1, <2>3 DEF Due, Hint, Typed
    <3>. QED
      BY <1>1, <2>1, <2>3, <3>1
  <2>4. ASSUME req[s].cost # 0, NEW h \in Hints
        PROVE  /\ IsFiniteSet(Due(h)')
               /\ charges'[h] >= Cardinality(Due(h)') + (IF h \in Bought' THEN 1 ELSE 0)
    <3>1. /\ IsFiniteSet(Due(h)) /\ Cardinality(Due(h)) \in Nat
          /\ charges[h] \in Int
          /\ charges[h] >= Cardinality(Due(h)) + (IF h \in Bought THEN 1 ELSE 0)
      BY FS_CardinalityType DEF Paid, Typed
    <3>0. Due(h)' = IF h = Hint(s) THEN Due(h) \union {s} ELSE Due(h)
      BY <2>1, <2>2, <2>4 DEF Due, Hint, Typed
    <3>2. CASE h = Hint(s)
      <4>1. /\ IsFiniteSet(Due(h) \union {s})
            /\ Cardinality(Due(h) \union {s}) = Cardinality(Due(h)) + 1
        BY <2>2, <3>1, FS_AddElement
      <4>2. charges'[h] = charges[h] + 1
        BY <2>1, <2>4, <3>2 DEF Typed
      <4>. QED
        BY <2>1, <3>0, <3>1, <3>2, <4>1, <4>2
    <3>3. CASE h # Hint(s)
      BY <2>1, <3>0, <3>1, <3>3 DEF Typed
    <3>. QED
      BY <3>2, <3>3
  <2>. QED
    BY <2>3, <2>4 DEF Paid
<1>5. ASSUME NEW s \in Slots, pc[s] = "charged", req[s].cost # 0,
             Link(s) \/ LinkRefused(s) \/ Fails(s)
      PROVE  Paid'
  <2>1. Ends(s)
    BY <1>5 DEF Link, LinkRefused, Fails
  <2>2. ASSUME NEW h \in Hints
        PROVE  /\ IsFiniteSet(Due(h)')
               /\ charges'[h] >= Cardinality(Due(h)') + (IF h \in Bought' THEN 1 ELSE 0)
    <3>1. /\ IsFiniteSet(Due(h)) /\ Cardinality(Due(h)) \in Nat /\ charges[h] \in Int
          /\ charges[h] >= Cardinality(Due(h)) + (IF h \in Bought THEN 1 ELSE 0)
      BY FS_CardinalityType DEF Paid, Typed
    <3>2. CASE h # Hint(s)
      <4>1. (h \in Bought' <=> h \in Bought) /\ charges'[h] = charges[h]
        BY <1>5, <3>2 DEF Link, LinkRefused, Fails, history, ledger, Typed, Bought
      <4>. QED
        BY <1>5, <2>1, <3>1, <3>2, <4>1, DueEnds
    <3>3. CASE h = Hint(s)
      <4>1. /\ IsFiniteSet(Due(h)') /\ Cardinality(Due(h)') = Cardinality(Due(h)) - 1
        BY <1>5, <2>1, <3>3, DueEnds
      <4>2. CASE Link(s)
        <5>1. h \notin Bought /\ charges' = charges
          BY <3>3, <4>2 DEF Link, Bought
        <5>. QED
          BY <3>1, <4>1, <5>1
      <4>3. CASE LinkRefused(s)
        <5>1. Bought' = Bought /\ charges' = charges
          BY <4>3 DEF LinkRefused, Bought, history
        <5>. QED
          BY <3>1, <4>1, <5>1
      <4>4. CASE Fails(s)
        <5>1. charges'[h] = charges[h] - 1 /\ Bought' = Bought
          BY <1>5, <3>3, <4>4 DEF Fails, Typed, Bought
        <5>. QED
          BY <3>1, <4>1, <5>1
      <4>. QED
        BY <1>5, <4>2, <4>3, <4>4
    <3>. QED
      BY <3>2, <3>3
  <2>. QED
    BY <2>2 DEF Paid
<1>6. ASSUME NEW s \in Slots, pc[s] # "charged" \/ req[s].cost = 0,
             Link(s) \/ LinkRefused(s) \/ Fails(s)
      PROVE  Paid'
  <2>1. Ends(s)
    BY <1>6 DEF Link, LinkRefused, Fails
  <2>2. \A h \in Hints : Due(h)' = Due(h)
    BY <1>6, <2>1 DEF Ends, Due, Hint, Typed
  <2>3. charges' = charges
    BY <1>6 DEF Link, LinkRefused, Fails, history
  <2>4. Bought' = Bought
    BY <1>6 DEF Link, LinkRefused, Fails, history, Bought
  <2>. QED
    BY <1>1, <2>2, <2>3, <2>4
<1>7. ASSUME UNCHANGED <<unlocked, gratis, charges, pc, req>> PROVE Paid'
  BY <1>1, <1>7 DEF Due, Hint, Bought
<1>. QED
  BY <1>2, <1>3, <1>4, <1>5, <1>6, <1>7
     DEF Next, Accept, Publish, Withdraw, Reprice, vars, requests, history, ledger

(* However requests overlap and fail, and however prices change, a hint    *)
(* that has a price is shown to those only who were charged a price for it *)
(* by a request that did not fail, or unlocked it when its price was 0     *)
(* (problems.service.ts:407).                                              *)
THEOREM ShownToPayers == Spec => []NoFreeHints
<1>1. Init => Paid
  <2>. SUFFICES ASSUME Init, NEW h \in Hints
                PROVE  IsFiniteSet(Due(h)) /\ charges[h] >= Cardinality(Due(h)) + (IF h \in Bought THEN 1 ELSE 0)
    BY DEF Paid
  <2>1. Due(h) = {}
    BY DEF Init, Due
  <2>. QED
    BY <2>1, FS_EmptySet DEF Init, Bought
<1>2. LedgerInv /\ Paid /\ [Next]_vars => Paid'
  BY PaidInvariant DEF LedgerInv
<1>3. LedgerInv /\ Paid => NoFreeHints
  <2>. SUFFICES ASSUME LedgerInv, Paid, NEW u \in Users, NEW p \in Problems, <<u, p>> \in Bought
                PROVE  charges[<<u, p>>] > 0
    BY DEF NoFreeHints, ShowsHint, Bought
  <2>1. <<u, p>> \in Hints /\ charges[<<u, p>>] \in Int
    BY DEF Hints, LedgerInv, Typed
  <2>2. Cardinality(Due(<<u, p>>)) \in Nat
    BY <2>1, FS_CardinalityType DEF Paid
  <2>. QED
    BY <2>1, <2>2 DEF Paid
<1>. QED
  BY <1>1, <1>2, <1>3, LedgerInductive, PTL DEF Spec

-----------------------------------------------------------------------------
(* Sums over finite sets.                                                  *)
(*                                                                         *)
(* The element that the fold takes next, ...                               *)
Chosen(s) == CHOOSE x \in s : TRUE

(* ... what it computes for every subset of S, as an equation ...          *)
Adds(g, f, S) ==
  g = [s \in SUBSET S |-> IF s = {} THEN 0 ELSE f[Chosen(s)] + g[s \ {Chosen(s)}]]

(* ... and as what the fold chooses; that there is something to choose     *)
(* remains to be shown.                                                    *)
Sums(f, S) ==
  CHOOSE g : g = [s \in SUBSET S |-> IF s = {} THEN 0 ELSE f[Chosen(s)] + g[s \ {Chosen(s)}]]

SumOf(f, S) == Sums(f, S)[S]

(* Of the subsets of a finite set, those with some property have a         *)
(* smallest one: the induction that the lemmas on sums use.                *)
LEMMA Smallest ==
  ASSUME NEW S, IsFiniteSet(S), NEW F, F \subseteq SUBSET S, F # {}
  PROVE  \E T \in F : \A U \in F : U \subseteq T => U = T
<1>1. IsWellFoundedOn(StrictSubsetOrdering(S), SUBSET S)
  BY FS_StrictSubsetOrderingWellFounded, FS_FiniteSubsetsOfFinite
<1>2. PICK T \in F : \A U \in F : <<U, T>> \notin StrictSubsetOrdering(S)
  BY <1>1, WFMin
<1>3. \A U \in F : U \subseteq T /\ U # T => <<U, T>> \in StrictSubsetOrdering(S)
  BY DEF StrictSubsetOrdering
<1>4. ASSUME NEW U \in F, U \subseteq T PROVE U = T
  BY <1>2, <1>3, <1>4
<1>. QED
  BY <1>4

(* The equation has at most one solution ...                               *)
LEMMA AddsAgree ==
  ASSUME NEW f, NEW S, NEW T, IsFiniteSet(S), NEW g, Adds(g, f, S), NEW h, Adds(h, f, T),
         NEW s, s \subseteq S, s \subseteq T
  PROVE  g[s] = h[s]
<1>. DEFINE F == {u \in SUBSET S : u \subseteq T /\ g[u] # h[u]}
<1>1. CASE F = {}
  BY <1>1
<1>2. CASE F # {}
  <2>1. PICK u \in F : \A v \in F : v \subseteq u => v = u
    <3>1. F \subseteq SUBSET S
      OBVIOUS
    <3>. HIDE DEF F
    <3>. QED
      BY <1>2, <3>1, Smallest
  <2>2. /\ g[u] = IF u = {} THEN 0 ELSE f[Chosen(u)] + g[u \ {Chosen(u)}]
        /\ h[u] = IF u = {} THEN 0 ELSE f[Chosen(u)] + h[u \ {Chosen(u)}]
    <3>1. u \in SUBSET S /\ u \in SUBSET T
      OBVIOUS
    <3>. QED
      BY <3>1 DEF Adds
  <2>3. u # {} => Chosen(u) \in u
    BY DEF Chosen
  <2>4. u # {} => g[u \ {Chosen(u)}] = h[u \ {Chosen(u)}]
    BY <2>1, <2>3
  <2>. QED
    BY <2>2, <2>4
<1>. QED
  BY <1>1, <1>2

(* ... and at least one: if a smallest set T had none, its subsets did, and *)
(* these make one for T.                                                   *)
LEMMA AddsExists ==
  ASSUME NEW f, NEW S, IsFiniteSet(S)
  PROVE  Adds(Sums(f, S), f, S)
<1>. DEFINE F == {T \in SUBSET S : ~ \E g : Adds(g, f, T)}
<1>1. CASE F = {}
  <2>1. \E g : Adds(g, f, S)
    BY <1>1
  <2>. QED
    BY <2>1 DEF Adds, Sums
<1>2. CASE F # {}
  <2>1. PICK T \in F : \A U \in F : U \subseteq T => U = T
    <3>1. F \subseteq SUBSET S
      OBVIOUS
    <3>. HIDE DEF F
    <3>. QED
      BY <1>2, <3>1, Smallest
  <2>. DEFINE Rest(s) == s \ {Chosen(s)}
              Of(U) == CHOOSE g : Adds(g, f, U)
              h == [s \in SUBSET T |-> IF s = {} THEN 0 ELSE f[Chosen(s)] + Of(Rest(s))[Rest(s)]]
  <2>2. \A s \in SUBSET T : s # {} => Rest(s) \subseteq s /\ Rest(s) # s
    BY DEF Chosen
  <2>3. \A U \in SUBSET T : U # T => Adds(Of(U), f, U) /\ IsFiniteSet(U)
    <3>1. \A U \in SUBSET T : U # T => (\E g : Adds(g, f, U)) /\ IsFiniteSet(U)
      BY <2>1, FS_Subset
    <3>. QED
      BY <3>1 DEF Adds
  <2>4. ASSUME NEW s \in SUBSET T, s # T PROVE h[s] = Of(s)[s]
    <3>1. Of(s)[s] = IF s = {} THEN 0 ELSE f[Chosen(s)] + Of(s)[Rest(s)]
      <4>1. Adds(Of(s), f, s)
        BY <2>3, <2>4
      <4>. HIDE DEF Of
      <4>. QED
        BY <4>1 DEF Adds
    <3>2. s # {} => Of(s)[Rest(s)] = Of(Rest(s))[Rest(s)]
      <4>. SUFFICES ASSUME s # {} PROVE Of(s)[Rest(s)] = Of(Rest(s))[Rest(s)]
        OBVIOUS
      <4>1. Rest(s) \subseteq s /\ Rest(s) \in SUBSET T /\ Rest(s) # T
        BY <2>2, <2>4
      <4>2. Adds(Of(s), f, s) /\ Adds(Of(Rest(s)), f, Rest(s)) /\ IsFiniteSet(s)
        BY <2>3, <2>4, <4>1
      <4>. HIDE DEF Of, Rest
      <4>. QED
        BY <4>1, <4>2, AddsAgree
    <3>. HIDE DEF Of
    <3>. QED
      BY <3>1, <3>2
  <2>5. \A s \in SUBSET T : h[s] = IF s = {} THEN 0 ELSE f[Chosen(s)] + h[Rest(s)]
    <3>1. \A s \in SUBSET T : s # {} => Rest(s) \in SUBSET T /\ Rest(s) # T
      BY <2>2
    <3>. HIDE DEF Of, Rest
    <3>. QED
      BY <2>4, <3>1
  <2>6. Adds(h, f, T)
    <3>. HIDE DEF Of
    <3>. QED
      BY <2>5 DEF Adds
  <2>. QED
    BY <2>1, <2>6
<1>. QED
  BY <1>1, <1>2

LEMMA SumRecursion ==
  ASSUME NEW f, NEW S, IsFiniteSet(S)
  PROVE  SumOf(f, S) = IF S = {} THEN 0 ELSE f[Chosen(S)] + SumOf(f, S \ {Chosen(S)})
<1>. DEFINE R == S \ {Chosen(S)}
<1>1. Adds(Sums(f, S), f, S)
  BY AddsExists
<1>2. Sums(f, S)[S] = IF S = {} THEN 0 ELSE f[Chosen(S)] + Sums(f, S)[R]
  BY <1>1 DEF Adds
<1>3. IsFiniteSet(R) /\ R \subseteq S
  BY FS_Subset
<1>4. Adds(Sums(f, R), f, R)
  BY <1>3, AddsExists
<1>5. Sums(f, S)[R] = Sums(f, R)[R]
  <2>. HIDE DEF R
  <2>. QED
    BY <1>1, <1>3, <1>4, AddsAgree
<1>. QED
  BY <1>2, <1>5 DEF SumOf

LEMMA SumIsInt ==
  ASSUME NEW f, NEW S, IsFiniteSet(S), \A x \in S : f[x] \in Int
  PROVE  SumOf(f, S) \in Int
<1>. DEFINE F == {T \in SUBSET S : SumOf(f, T) \notin Int}
<1>1. CASE F = {}
  BY <1>1
<1>2. CASE F # {}
  <2>1. PICK T \in F : \A U \in F : U \subseteq T => U = T
    <3>1. F \subseteq SUBSET S
      OBVIOUS
    <3>. HIDE DEF F
    <3>. QED
      BY <1>2, <3>1, Smallest
  <2>2. SumOf(f, T) = IF T = {} THEN 0 ELSE f[Chosen(T)] + SumOf(f, T \ {Chosen(T)})
    BY <2>1, SumRecursion, FS_Subset
  <2>3. T # {} => Chosen(T) \in T
    BY DEF Chosen
  <2>4. T # {} => SumOf(f, T \ {Chosen(T)}) \in Int /\ f[Chosen(T)] \in Int
    BY <2>1, <2>3
  <2>. QED
    BY <2>1, <2>2, <2>4
<1>. QED
  BY <1>1, <1>2

(* It does not matter which element is taken first.                        *)
LEMMA SumRemove ==
  ASSUME NEW f, NEW S, IsFiniteSet(S), \A x \in S : f[x] \in Int, NEW y \in S
  PROVE  SumOf(f, S) = f[y] + SumOf(f, S \ {y})
<1>. DEFINE F == {T \in SUBSET S : \E x \in T : SumOf(f, T) # f[x] + SumOf(f, T \ {x})}
<1>1. CASE F = {}
  BY <1>1
<1>2. CASE F # {}
  <2>1. PICK T \in F : \A U \in F : U \subseteq T => U = T
    <3>1. F \subseteq SUBSET S
      OBVIOUS
    <3>. HIDE DEF F
    <3>. QED
      BY <1>2, <3>1, Smallest
  <2>2. PICK x \in T : SumOf(f, T) # f[x] + SumOf(f, T \ {x})
    BY <2>1
  <2>. DEFINE c == Chosen(T)
  <2>3. c \in T /\ c # x /\ SumOf(f, T) = f[c] + SumOf(f, T \ {c})
    <3>1. c \in T
      BY <2>2 DEF Chosen
    <3>2. SumOf(f, T) = f[c] + SumOf(f, T \ {c})
      BY <2>2, SumRecursion, FS_Subset
    <3>. QED
      BY <2>2, <3>1, <3>2
  <2>. HIDE DEF c
  <2>4. SumOf(f, T \ {c}) = f[x] + SumOf(f, (T \ {c}) \ {x})
    <3>1. T \ {c} \notin F
      BY <2>1, <2>3
    <3>. QED
      BY <2>2, <2>3, <3>1
  <2>5. SumOf(f, T \ {x}) = f[c] + SumOf(f, (T \ {c}) \ {x})
    <3>1. T \ {x} \notin F
      BY <2>1, <2>2
    <3>2. (T \ {x}) \ {c} = (T \ {c}) \ {x}
      OBVIOUS
    <3>. QED
      BY <2>2, <2>3, <3>1, <3>2
  <2>6. f[c] \in Int /\ f[x] \in Int /\ SumOf(f, (T \ {c}) \ {x}) \in Int
    <3>1. IsFiniteSet((T \ {c}) \ {x}) /\ \A z \in (T \ {c}) \ {x} : f[z] \in Int
      BY FS_Subset
    <3>. QED
      BY <2>2, <2>3, <3>1, SumIsInt
  <2>. QED
    BY <2>2, <2>3, <2>4, <2>5, <2>6
<1>. QED
  BY <1>1, <1>2

(* More of what is not negative is not less.                               *)
LEMMA SumMonotone ==
  ASSUME NEW f, NEW S, IsFiniteSet(S), \A x \in S : f[x] \in Nat, NEW R, R \subseteq S
  PROVE  SumOf(f, R) <= SumOf(f, S)
<1>. DEFINE F == {T \in SUBSET S : R \subseteq T /\ ~ (SumOf(f, R) <= SumOf(f, T))}
<1>1. ASSUME NEW T \in SUBSET S PROVE IsFiniteSet(T) /\ SumOf(f, T) \in Int
  <2>1. IsFiniteSet(T) /\ \A x \in T : f[x] \in Int
    BY FS_Subset
  <2>. HIDE DEF F
  <2>. QED
    BY <2>1, SumIsInt
<1>2. CASE F = {}
  BY <1>2
<1>3. CASE F # {}
  <2>1. PICK T \in F : \A U \in F : U \subseteq T => U = T
    <3>1. F \subseteq SUBSET S
      OBVIOUS
    <3>. HIDE DEF F
    <3>. QED
      BY <1>3, <3>1, Smallest
  <2>2. SumOf(f, R) \in Int /\ SumOf(f, T) \in Int /\ R # T
    BY <1>1
  <2>3. PICK x \in T : x \notin R
    BY <2>2
  <2>4. SumOf(f, T) = f[x] + SumOf(f, T \ {x}) /\ f[x] \in Nat
    <3>1. IsFiniteSet(T) /\ (\A y \in T : f[y] \in Int) /\ f[x] \in Nat
      BY <1>1
    <3>. QED
      BY <3>1, SumRemove
  <2>5. SumOf(f, T \ {x}) \in Int
    BY <1>1
  <2>6. SumOf(f, R) <= SumOf(f, T \ {x})
    <3>1. T \ {x} \in SUBSET S /\ R \subseteq T \ {x} /\ T \ {x} \notin F
      BY <2>1, <2>3
    <3>. QED
      BY <3>1
  <2>7. ~ (SumOf(f, R) <= SumOf(f, T))
    OBVIOUS
  <2>. HIDE DEF F
  <2>. QED
    BY <2>2, <2>4, <2>5, <2>6, <2>7
<1>. QED
  BY <1>2, <1>3

LEMMA SumZero ==
  ASSUME NEW f, NEW S, IsFiniteSet(S), \A x \in S : f[x] = 0
  PROVE  SumOf(f, S) = 0
<1>. DEFINE F == {T \in SUBSET S : SumOf(f, T) # 0}
<1>1. CASE F = {}
  BY <1>1
<1>2. CASE F # {}
  <2>1. PICK T \in F : \A U \in F : U \subseteq T => U = T
    <3>1. F \subseteq SUBSET S
      OBVIOUS
    <3>. HIDE DEF F
    <3>. QED
      BY <1>2, <3>1, Smallest
  <2>2. SumOf(f, T) = IF T = {} THEN 0 ELSE f[Chosen(T)] + SumOf(f, T \ {Chosen(T)})
    BY <2>1, SumRecursion, FS_Subset
  <2>3. T # {} => Chosen(T) \in T
    BY DEF Chosen
  <2>4. T # {} => SumOf(f, T \ {Chosen(T)}) = 0
    BY <2>1, <2>3
  <2>. QED
    BY <2>1, <2>2, <2>3, <2>4
<1>. QED
  BY <1>1, <1>2

(* The sum of sums, term by term.                                          *)
LEMMA SumSplit ==
  ASSUME NEW S, IsFiniteSet(S), NEW f, NEW a, NEW b,
         \A x \in S : a[x] \in Int /\ b[x] \in Int /\ f[x] = a[x] + b[x]
  PROVE  SumOf(f, S) = SumOf(a, S) + SumOf(b, S)
<1>. DEFINE F == {T \in SUBSET S : SumOf(f, T) # SumOf(a, T) + SumOf(b, T)}
<1>1. CASE F = {}
  BY <1>1
<1>2. CASE F # {}
  <2>1. PICK T \in F : \A U \in F : U \subseteq T => U = T
    <3>1. F \subseteq SUBSET S
      OBVIOUS
    <3>. HIDE DEF F
    <3>. QED
      BY <1>2, <3>1, Smallest
  <2>. DEFINE c == Chosen(T)
              R == T \ {c}
  <2>2. IsFiniteSet(T) /\ IsFiniteSet(R)
    BY <2>1, FS_Subset
  <2>3. /\ SumOf(f, T) = IF T = {} THEN 0 ELSE f[c] + SumOf(f, R)
        /\ SumOf(a, T) = IF T = {} THEN 0 ELSE a[c] + SumOf(a, R)
        /\ SumOf(b, T) = IF T = {} THEN 0 ELSE b[c] + SumOf(b, R)
    BY <2>2, SumRecursion
  <2>4. T # {} => c \in T
    BY DEF Chosen
  <2>5. T # {} => SumOf(f, R) = SumOf(a, R) + SumOf(b, R)
    BY <2>1, <2>4
  <2>6. /\ R \subseteq S /\ (T # {} => a[c] \in Int /\ b[c] \in Int /\ f[c] = a[c] + b[c])
        /\ SumOf(f, T) # SumOf(a, T) + SumOf(b, T)
    BY <2>1, <2>4
  <2>. HIDE DEF R, c, F
  <2>7. SumOf(a, R) \in Int /\ SumOf(b, R) \in Int
    BY <2>2, <2>6, SumIsInt
  <2>. QED
    BY <2>3, <2>5, <2>6, <2>7
<1>. QED
  BY <1>1, <1>2

(* Terms that are left out might as well be zero.                          *)
LEMMA SumFiltered ==
  ASSUME NEW S, IsFiniteSet(S), NEW f, NEW h, NEW A,
         \A x \in S : f[x] \in Int /\ h[x] = IF x \in A THEN f[x] ELSE 0
  PROVE  SumOf(h, S) = SumOf(f, S \cap A)
<1>. DEFINE F == {T \in SUBSET S : SumOf(h, T) # SumOf(f, T \cap A)}
<1>1. CASE F = {}
  BY <1>1
<1>2. CASE F # {}
  <2>1. PICK T \in F : \A U \in F : U \subseteq T => U = T
    <3>1. F \subseteq SUBSET S
      OBVIOUS
    <3>. HIDE DEF F
    <3>. QED
      BY <1>2, <3>1, Smallest
  <2>2. IsFiniteSet(T) /\ IsFiniteSet(T \cap A) /\ T \subseteq S
        /\ SumOf(h, T) # SumOf(f, T \cap A)
    BY <2>1, FS_Subset
  <2>3. T # {}
    BY <2>2, SumRecursion
  <2>4. PICK x \in T : x \in S
    BY <2>2, <2>3
  <2>5. SumOf(h, T \ {x}) = SumOf(f, (T \ {x}) \cap A)
    BY <2>1
  <2>. HIDE DEF F
  <2>6. SumOf(h, T) = h[x] + SumOf(h, T \ {x}) /\ SumOf(h, T \ {x}) \in Int
    <3>1. IsFiniteSet(T \ {x}) /\ \A y \in T : h[y] \in Int
      BY <2>2, FS_Subset
    <3>. QED
      BY <2>2, <3>1, SumRemove, SumIsInt
  <2>7. CASE x \in A
    <3>1. x \in T \cap A /\ (T \ {x}) \cap A = (T \cap A) \ {x}
      BY <2>7
    <3>2. \A y \in T \cap A : f[y] \in Int
      BY <2>2
    <3>3. SumOf(f, T \cap A) = f[x] + SumOf(f, (T \cap A) \ {x})
      BY <2>2, <3>1, <3>2, SumRemove
    <3>4. h[x] = f[x] /\ SumOf(h, T \ {x}) = SumOf(f, (T \cap A) \ {x})
      BY <2>4, <2>5, <2>7, <3>1
    <3>. QED
      BY <2>2, <2>6, <3>3, <3>4
  <2>8. CASE x \notin A
    <3>1. (T \ {x}) \cap A = T \cap A
      BY <2>8
    <3>2. h[x] = 0
      BY <2>4, <2>8
    <3>. QED
      BY <2>2, <2>5, <2>6, <3>1, <3>2
  <2>. QED
    BY <2>7, <2>8
<1>. QED
  BY <1>1, <1>2

-----------------------------------------------------------------------------
(* What a user has earned.                                                 *)
HintScore == [h \in Hints |-> score[h[2]]]

(* The first part of a user's score.                                       *)
LEMMA SolvedIsSum ==
  ASSUME NEW u
  PROVE  totalScore(u) = SumOf(score, Solved(u)) + offset[u]
BY DEF totalScore, MapThenSumSet, MapThenFoldSet, SumOf, Sums, Chosen

(* The sums of the model are sums in the above sense.                      *)
LEMMA HintsAreSum ==
  ASSUME NEW S, IsFiniteSet(S), S \subseteq Hints
  PROVE  MapThenSumSet(LAMBDA h : score[h[2]], S) = SumOf(HintScore, S)
<1>. DEFINE G == CHOOSE g : g = [s \in SUBSET S |-> IF s = {} THEN 0
                                   ELSE score[Chosen(s)[2]] + g[s \ {Chosen(s)}]]
            k == Sums(HintScore, S)
<1>1. MapThenSumSet(LAMBDA h : score[h[2]], S) = G[S]
  BY DEF MapThenSumSet, MapThenFoldSet, Chosen
<1>2. Adds(k, HintScore, S)
  BY AddsExists
<1>3. \A s \in SUBSET S : s # {} => HintScore[Chosen(s)] = score[Chosen(s)[2]]
  BY DEF Chosen, HintScore
<1>. HIDE DEF k
<1>4. k = [s \in SUBSET S |-> IF s = {} THEN 0 ELSE score[Chosen(s)[2]] + k[s \ {Chosen(s)}]]
  BY <1>2, <1>3 DEF Adds
<1>5. G = [s \in SUBSET S |-> IF s = {} THEN 0 ELSE score[Chosen(s)[2]] + G[s \ {Chosen(s)}]]
  BY <1>4
<1>. HIDE DEF G
<1>6. Adds(G, HintScore, S)
  BY <1>3, <1>5 DEF Adds
<1>7. G[S] = k[S]
  BY <1>2, <1>6, AddsAgree
<1>. QED
  BY <1>1, <1>7 DEF SumOf, k

(* Problems may be counted with the user who has solved them.              *)
LEMMA Reindexed ==
  ASSUME NEW u \in Users, NEW S \in SUBSET Problems
  PROVE  SumOf(score, S) = SumOf(HintScore, {<<u, p>> : p \in S})
<1>. DEFINE H(T) == {<<u, p>> : p \in T}
            F == {T \in SUBSET S : SumOf(score, T) # SumOf(HintScore, H(T))}
<1>1. CASE F = {}
  BY <1>1
<1>2. CASE F # {}
  <2>1. PICK T \in F : \A U \in F : U \subseteq T => U = T
    <3>1. F \subseteq SUBSET S /\ IsFiniteSet(S)
      BY TablesAssumption, FS_Subset
    <3>. HIDE DEF F
    <3>. QED
      BY <1>2, <3>1, Smallest
  <2>2. IsFiniteSet(T) /\ H(T) \subseteq Hints /\ IsFiniteSet(H(T))
    <3>1. IsFiniteSet(T)
      BY TablesAssumption, FS_Subset
    <3>2. IsFiniteSet(Hints)
      BY TablesAssumption, FS_Product DEF Hints
    <3>3. H(T) \subseteq Hints
      BY DEF Hints
    <3>. QED
      BY <3>1, <3>2, <3>3, FS_Subset
  <2>3. /\ \A p \in T : score[p] \in Int
        /\ \A h \in H(T) : HintScore[h] \in Int
        /\ \A p \in T : HintScore[<<u, p>>] = score[p]
    BY <2>2, TablesAssumption DEF HintScore, Hints
  <2>4. CASE T = {}
    <3>1. H(T) = {}
      BY <2>4
    <3>2. SumOf(score, T) = 0 /\ SumOf(HintScore, H(T)) = 0
      BY <2>2, <2>4, <3>1, SumRecursion
    <3>. QED
      BY <3>2
  <2>5. CASE T # {}
    <3>1. PICK p \in T : TRUE
      BY <2>5
    <3>2. H(T \ {p}) = H(T) \ {<<u, p>>} /\ <<u, p>> \in H(T)
      OBVIOUS
    <3>3. SumOf(score, T \ {p}) = SumOf(HintScore, H(T \ {p}))
      BY <2>1, <3>1
    <3>. HIDE DEF H
    <3>4. SumOf(score, T) = score[p] + SumOf(score, T \ {p})
      BY <2>2, <2>3, SumRemove
    <3>5. SumOf(HintScore, H(T)) = HintScore[<<u, p>>] + SumOf(HintScore, H(T) \ {<<u, p>>})
      BY <2>2, <2>3, <3>2, SumRemove
    <3>. QED
      BY <2>3, <3>2, <3>3, <3>4, <3>5
  <2>. QED
    BY <2>4, <2>5
<1>. QED
  BY <1>1, <1>2

(* A user's part of what has counted.                                      *)
Own(C, u) == {h \in C : h[1] = u}

LEMMA OwnFacts ==
  ASSUME NEW C, C \subseteq Hints, NEW u
  PROVE  /\ Own(C, u) \subseteq Hints /\ IsFiniteSet(Own(C, u))
         /\ \A h \in Hints : HintScore[h] \in Nat
<1>1. IsFiniteSet(Hints) /\ \A h \in Hints : HintScore[h] \in Nat
  BY TablesAssumption, FS_Product DEF Hints, HintScore
<1>. QED
  BY <1>1, FS_Subset DEF Own

LEMMA EarnedIsSum ==
  ASSUME counted \subseteq Hints, NEW u
  PROVE  Earned(u) = SumOf(HintScore, Own(counted, u)) /\ Earned(u) \in Int
<1>1. Earned(u) = SumOf(HintScore, Own(counted, u))
  BY OwnFacts, HintsAreSum DEF Earned, Own
<1>. QED
  BY <1>1, OwnFacts, SumIsInt

EarnedSummed == counted \subseteq Hints => \A u : Earned(u) = SumOf(HintScore, Own(counted, u))

LEMMA EarnedAlways == EarnedSummed
BY EarnedIsSum DEF EarnedSummed

LEMMA EarnedGrows ==
  ASSUME counted \subseteq counted', counted' \subseteq Hints, NEW u
  PROVE  Earned(u) <= Earned(u)' /\ Earned(u) \in Int /\ Earned(u)' \in Int
<1>1. Earned(u) = SumOf(HintScore, Own(counted, u)) /\ Earned(u) \in Int
  BY EarnedIsSum
<1>2. Earned(u)' = SumOf(HintScore, Own(counted', u))
  <2>1. EarnedSummed'
    BY EarnedAlways, PTL
  <2>. QED
    BY <2>1 DEF EarnedSummed
<1>3. Own(counted, u) \subseteq Own(counted', u)
  BY DEF Own
<1>. QED
  BY <1>1, <1>2, <1>3, OwnFacts, SumMonotone, SumIsInt

(* What a user's score gives him without the offset he has earned.         *)
LEMMA SolvedIsEarned ==
  ASSUME published \subseteq Problems, counted \subseteq Hints,
         Counting(accepted, published) \subseteq counted, NEW u \in Users, offset[u] \in Int
  PROVE  totalScore(u) \in Int /\ totalScore(u) <= offset[u] + Earned(u)
<1>. DEFINE H == {<<u, p>> : p \in Solved(u)}
<1>1. Solved(u) \in SUBSET Problems /\ H \subseteq Own(counted, u)
  <2>1. Solved(u) \in SUBSET Problems
    BY DEF Solved
  <2>2. ASSUME NEW p \in Solved(u) PROVE <<u, p>> \in Own(counted, u)
    <3>1. p \in published /\ accepted[<<u, p>>] > 0 /\ <<u, p>> \in Hints
      BY <2>1 DEF Solved, Hints
    <3>2. <<u, p>> \in Counting(accepted, published)
      BY <3>1 DEF Counting
    <3>. QED
      BY <3>2 DEF Own
  <2>. QED
    BY <2>1, <2>2
<1>2. SumOf(score, Solved(u)) = SumOf(HintScore, H)
  BY <1>1, Reindexed
<1>3. SumOf(HintScore, H) <= SumOf(HintScore, Own(counted, u)) /\ SumOf(HintScore, H) \in Int
  <2>. HIDE DEF H
  <2>1. /\ IsFiniteSet(Own(counted, u)) /\ \A h \in Own(counted, u) : HintScore[h] \in Nat
        /\ IsFiniteSet(H)
    BY <1>1, OwnFacts, FS_Subset
  <2>. QED
    BY <1>1, <2>1, SumMonotone, SumIsInt
<1>. QED
  BY <1>2, <1>3, SolvedIsSum, EarnedIsSum

(* What requests have loaded was earned by then, and the rest of it is     *)
(* enough for what they are about to pay.                                  *)
Backed ==
  /\ published \subseteq Problems /\ counted \subseteq Hints
  /\ Counting(accepted, published) \subseteq counted
  /\ \A u \in Users : offset[u] + Earned(u) >= 0
  /\ \A s \in Reading :
       /\ req[s].total \in Int
       /\ \A u \in Users : req[s].user = u => req[s].total <= req[s].offset + Earned(u)
  /\ \A s \in Slots : pc[s] = "checked" => req[s].total >= req[s].cost

(* What counts as earned stays so.                                         *)
LEMMA CountedGrows ==
  ASSUME Typed, Backed, [Next]_vars
  PROVE  /\ published' \subseteq Problems /\ counted' \subseteq Hints
         /\ Counting(accepted', published') \subseteq counted'
         /\ \A u : Earned(u) <= Earned(u)' /\ Earned(u) \in Int /\ Earned(u)' \in Int
<1>. DEFINE Grown == /\ published' \subseteq Problems /\ counted \subseteq counted'
                     /\ counted' \subseteq Hints /\ Counting(accepted', published') \subseteq counted'
<1>1. ASSUME NEW u \in Users, NEW p \in Problems, Accept(u, p) PROVE Grown
  BY <1>1 DEF Accept, Backed, Counting
<1>2. ASSUME NEW p \in Problems, Publish(p) PROVE Grown
  BY <1>2 DEF Publish, Backed, Counting
<1>3. ASSUME NEW p \in Problems, Withdraw(p) PROVE Grown
  BY <1>3 DEF Withdraw, Backed, Counting, history
<1>4. ASSUME UNCHANGED <<published, accepted, counted>> PROVE Grown
  BY <1>4 DEF Backed
<1>5. Grown
  BY <1>1, <1>2, <1>3, <1>4 DEF Next, Reprice, Load, Check, Charge, Link, LinkRefused, Fails,
                                vars, history
<1>. QED
  BY <1>5, EarnedGrows DEF Backed

LEMMA BackedInvariant == Typed /\ Backed /\ [Next]_vars => Backed'
<1>. SUFFICES ASSUME Typed, Backed, [Next]_vars PROVE Backed'
  OBVIOUS
<1>1. /\ published' \subseteq Problems /\ counted' \subseteq Hints
      /\ Counting(accepted', published') \subseteq counted'
      /\ \A u : Earned(u) <= Earned(u)' /\ Earned(u) \in Int /\ Earned(u)' \in Int
  BY CountedGrows
<1>. DEFINE Enough == \A u \in Users : offset[u] + Earned(u) >= 0
            Read == \A s \in Reading :
              /\ req[s].total \in Int
              /\ \A u \in Users : req[s].user = u => req[s].total <= req[s].offset + Earned(u)
            Pays == \A s \in Slots : pc[s] = "checked" => req[s].total >= req[s].cost
<1>2. Enough /\ Read /\ Pays
  BY DEF Backed
<1>. SUFFICES Enough' /\ Read' /\ Pays'
  BY <1>1 DEF Backed
<1>3. ASSUME offset' = offset PROVE Enough'
  BY <1>1, <1>2, <1>3 DEF Typed
<1>4. ASSUME NEW s \in Slots, pc'[s] # "loaded",
             \A q \in Slots : q # s => pc'[q] = pc[q] /\ req'[q] = req[q],
             pc'[s] = "checked" =>
               pc[s] = "loaded" /\ req'[s] = req[s] /\ req[s].total >= req[s].cost
      PROVE  Read' /\ Pays'
  <2>1. ASSUME NEW q \in Reading', NEW u \in Users, req'[q].user = u
        PROVE  req'[q].total \in Int /\ req'[q].total <= req'[q].offset + Earned(u)'
    <3>1. q \in Slots /\ q \in Reading /\ req'[q] = req[q]
      BY <1>4, <2>1 DEF Reading, Typed
    <3>2. /\ req[q].total \in Int /\ req[q].total <= req[q].offset + Earned(u)
          /\ req[q].offset \in Int
      BY <1>2, <2>1, <3>1 DEF Reading, Typed
    <3>3. Earned(u) <= Earned(u)' /\ Earned(u) \in Int /\ Earned(u)' \in Int
      BY <1>1
    <3>. QED
      BY <3>1, <3>2, <3>3
  <2>2. Pays'
    BY <1>2, <1>4
  <2>3. \A q \in Reading' : q \in Slots /\ req'[q].user \in Users
    BY <1>4 DEF Reading, Typed
  <2>. QED
    BY <2>1, <2>2, <2>3
<1>5. ASSUME UNCHANGED requests PROVE Read' /\ Pays'
  BY <1>1, <1>2, <1>5 DEF requests, Reading, Typed
<1>6. ASSUME NEW s \in Slots, NEW u \in Buyers, NEW p \in Problems, Load(s, u, p)
      PROVE  Enough' /\ Read' /\ Pays'
  <2>1. u \in Users
    BY BuyersAssumption
  <2>2. totalScore(u) \in Int /\ totalScore(u) <= offset[u] + Earned(u)
    BY <2>1, SolvedIsEarned DEF Backed, Typed
  <2>3. /\ pc[s] = "idle" /\ pc'[s] = "loaded" /\ offset' = offset
        /\ req'[s].user = u /\ req'[s].total = totalScore(u) /\ req'[s].offset = offset[u]
        /\ \A q \in Slots : q # s => pc'[q] = pc[q] /\ req'[q] = req[q]
    BY <1>6 DEF Load, Typed
  <2>4. ASSUME NEW q \in Reading', NEW w \in Users, req'[q].user = w
        PROVE  req'[q].total \in Int /\ req'[q].total <= req'[q].offset + Earned(w)'
    <3>1. CASE q = s
      <4>1. Earned(u) <= Earned(u)' /\ Earned(u) \in Int /\ Earned(u)' \in Int /\ offset[u] \in Int
        BY <1>1, <2>1 DEF Typed
      <4>2. totalScore(u) <= offset[u] + Earned(u)'
        BY <2>2, <4>1
      <4>. QED
        BY <2>2, <2>3, <2>4, <3>1, <4>2
    <3>2. CASE q # s
      <4>1. q \in Reading /\ req'[q] = req[q]
        BY <2>3, <2>4, <3>2 DEF Reading
      <4>2. /\ req[q].total \in Int /\ req[q].total <= req[q].offset + Earned(w)
            /\ req[q].offset \in Int
        BY <1>2, <2>4, <4>1 DEF Reading, Typed
      <4>3. Earned(w) <= Earned(w)' /\ Earned(w) \in Int /\ Earned(w)' \in Int
        BY <1>1
      <4>. QED
        BY <4>1, <4>2, <4>3
    <3>. QED
      BY <3>1, <3>2
  <2>5. Pays'
    BY <1>2, <2>3
  <2>6. \A q \in Reading' : req'[q].user \in Users
    BY <2>1, <2>3 DEF Reading, Typed
  <2>. QED
    BY <1>3, <2>3, <2>4, <2>5, <2>6
<1>7. ASSUME NEW s \in Slots, Check(s) PROVE Enough' /\ Read' /\ Pays'
  <2>1. pc[s] = "loaded" /\ offset' = offset
    BY <1>7 DEF Check
  <2>2. /\ \A q \in Slots : q # s => pc'[q] = pc[q] /\ req'[q] = req[q]
        /\ \/ pc'[s] = "idle"
           \/ pc'[s] = "checked" /\ req'[s] = req[s] /\ req[s].total >= req[s].cost
    BY <1>7 DEF Check, Ends, MayUnlock, Typed
  <2>. QED
    BY <1>3, <1>4, <2>1, <2>2
<1>8. ASSUME NEW s \in Slots, Charge(s) PROVE Enough' /\ Read' /\ Pays'
  <2>1. pc[s] = "checked" /\ pc' = [pc EXCEPT ![s] = "charged"] /\ req' = req
    BY <1>8 DEF Charge
  <2>2. Read' /\ Pays'
    <3>1. pc'[s] = "charged" /\ \A q \in Slots : q # s => pc'[q] = pc[q] /\ req'[q] = req[q]
      BY <2>1 DEF Typed
    <3>. QED
      BY <1>4, <3>1
  <2>3. ASSUME NEW u \in Users PROVE offset'[u] + Earned(u)' >= 0
    <3>1. CASE offset'[u] = offset[u]
      BY <1>1, <1>2, <3>1 DEF Typed
    <3>2. CASE u = req[s].user /\ req[s].cost # 0
      <4>1. offset'[u] = req[s].offset - req[s].cost /\ req[s].offset \in Int /\ req[s].cost \in Int
        BY <1>8, <3>2, ChargeParts
      <4>2. /\ req[s].total \in Int /\ req[s].total <= req[s].offset + Earned(u)
            /\ req[s].total >= req[s].cost
        BY <1>2, <2>1, <3>2 DEF Reading
      <4>3. Earned(u) <= Earned(u)' /\ Earned(u) \in Int /\ Earned(u)' \in Int
        BY <1>1
      <4>. QED
        BY <4>1, <4>2, <4>3
    <3>. QED
      BY <1>8, <3>1, <3>2, ChargeParts
  <2>. QED
    BY <2>2, <2>3
<1>9. ASSUME NEW s \in Slots, Link(s) \/ LinkRefused(s) \/ Fails(s)
      PROVE  Enough' /\ Read' /\ Pays'
  <2>1. Ends(s) /\ offset' = offset
    BY <1>9 DEF Link, LinkRefused, Fails
  <2>2. pc'[s] = "idle" /\ \A q \in Slots : q # s => pc'[q] = pc[q] /\ req'[q] = req[q]
    BY <2>1 DEF Ends, Typed
  <2>. QED
    BY <1>3, <1>4, <2>1, <2>2
<1>10. ASSUME UNCHANGED <<offset, requests>> PROVE Enough' /\ Read' /\ Pays'
  BY <1>3, <1>5, <1>10
<1>. QED
  BY <1>6, <1>7, <1>8, <1>9, <1>10
     DEF Next, Accept, Publish, Withdraw, Reprice, vars, requests, history

(* However a user's requests overlap, and although problems come and go,   *)
(* he does not spend more than he has earned.                              *)
THEOREM SpendsEarned == Spec => []SpendsOnlyEarned
<1>1. Init => Backed
  <2>. SUFFICES ASSUME Init PROVE Backed
    OBVIOUS
  <2>1. published = {} /\ counted = {} /\ Reading = {} /\ \A s \in Slots : pc[s] = "idle"
    BY DEF Init, Reading
  <2>2. \A u \in Users : Own(counted, u) = {} /\ offset[u] = 0
    BY <2>1 DEF Init, Own
  <2>3. \A u \in Users : Earned(u) = 0
    BY <2>1, <2>2, EarnedIsSum, SumRecursion, FS_EmptySet
  <2>. QED
    BY <2>1, <2>2, <2>3 DEF Backed, Counting
<1>2. LedgerInv /\ Backed /\ [Next]_vars => Backed'
  BY BackedInvariant DEF LedgerInv
<1>3. Backed => SpendsOnlyEarned
  BY DEF Backed, SpendsOnlyEarned
<1>. QED
  BY <1>1, <1>2, <1>3, LedgerInductive, PTL DEF Spec

-----------------------------------------------------------------------------
(* Groups: the solvers of a problem among some users, what these make of   *)
(* it, and the users' own scores.                                          *)
Solvers(N, p) == {u \in N : accepted[u, p] > 0}
Worth(N) == [p \in Problems |-> score[p] * Cardinality(Solvers(N, p))]
Totals == [u \in Users |-> totalScore(u)]

LEMMA WorthIsSum ==
  ASSUME published \subseteq Problems, NEW g
  PROVE  groupTotalScore(g) = SumOf(Worth(Members(g)), published) + SumOf(offset, Members(g))
<1>. DEFINE M == Members(g)
            S == published
            G == CHOOSE h : h = [s \in SUBSET S |-> IF s = {} THEN 0
                   ELSE score[Chosen(s)] * Cardinality({u \in M : accepted[u, Chosen(s)] > 0})
                          + h[s \ {Chosen(s)}]]
            k == Sums(Worth(M), S)
<1>0. IsFiniteSet(S)
  BY TablesAssumption, FS_Subset
<1>1. groupTotalScore(g) = G[S] + SumOf(offset, M)
  BY DEF groupTotalScore, MemberOffsets, MapThenSumSet, MapThenFoldSet, Chosen, SumOf, Sums
<1>2. Adds(k, Worth(M), S)
  BY <1>0, AddsExists
<1>3. \A s \in SUBSET S : s # {} =>
        Worth(M)[Chosen(s)]
          = score[Chosen(s)] * Cardinality({u \in M : accepted[u, Chosen(s)] > 0})
  <2>1. \A s \in SUBSET S : s # {} => Chosen(s) \in Problems
    BY DEF Chosen
  <2>. QED
    BY <2>1 DEF Worth, Solvers
<1>. HIDE DEF k, M
<1>4. k = [s \in SUBSET S |-> IF s = {} THEN 0
             ELSE score[Chosen(s)] * Cardinality({u \in M : accepted[u, Chosen(s)] > 0})
                    + k[s \ {Chosen(s)}]]
  BY <1>2, <1>3 DEF Adds
<1>5. G = [s \in SUBSET S |-> IF s = {} THEN 0
             ELSE score[Chosen(s)] * Cardinality({u \in M : accepted[u, Chosen(s)] > 0})
                    + G[s \ {Chosen(s)}]]
  BY <1>4
<1>. HIDE DEF G
<1>6. Adds(G, Worth(M), S)
  BY <1>3, <1>5 DEF Adds
<1>7. G[S] = k[S]
  BY <1>0, <1>2, <1>6, AddsAgree
<1>. QED
  BY <1>1, <1>7 DEF SumOf, k, M

LEMMA TotalsAreSum ==
  ASSUME NEW S, S \subseteq Users
  PROVE  MapThenSumSet(totalScore, S) = SumOf(Totals, S)
<1>. DEFINE G == CHOOSE g : g = [s \in SUBSET S |-> IF s = {} THEN 0
                                   ELSE totalScore(Chosen(s)) + g[s \ {Chosen(s)}]]
            k == Sums(Totals, S)
<1>0. IsFiniteSet(S)
  BY TablesAssumption, FS_Subset
<1>1. MapThenSumSet(totalScore, S) = G[S]
  BY DEF MapThenSumSet, MapThenFoldSet, Chosen
<1>2. Adds(k, Totals, S)
  BY <1>0, AddsExists
<1>3. \A s \in SUBSET S : s # {} => Totals[Chosen(s)] = totalScore(Chosen(s))
  BY DEF Chosen, Totals
<1>. HIDE DEF k
<1>4. k = [s \in SUBSET S |-> IF s = {} THEN 0 ELSE totalScore(Chosen(s)) + k[s \ {Chosen(s)}]]
  BY <1>2, <1>3 DEF Adds
<1>5. G = [s \in SUBSET S |-> IF s = {} THEN 0 ELSE totalScore(Chosen(s)) + G[s \ {Chosen(s)}]]
  BY <1>4
<1>. HIDE DEF G
<1>6. Adds(G, Totals, S)
  BY <1>3, <1>5 DEF Adds
<1>7. G[S] = k[S]
  BY <1>0, <1>2, <1>6, AddsAgree
<1>. QED
  BY <1>1, <1>7 DEF SumOf, k

(* Summed by problems or by members, the result is the same: a smallest    *)
(* set of members for which it is not would have a member, without whom    *)
(* it is; but he adds the same to both.                                    *)
LEMMA GroupSums ==
  ASSUME published \subseteq Problems, offset \in [Users -> Int], NEW M, M \subseteq Users
  PROVE  SumOf(Worth(M), published) + SumOf(offset, M) = SumOf(Totals, M)
<1>0. published \subseteq Problems /\ \A p \in published : score[p] \in Nat
  BY TablesAssumption
<1>. DEFINE F == {N \in SUBSET M : SumOf(Worth(N), published) + SumOf(offset, N) # SumOf(Totals, N)}
<1>1. CASE F = {}
  BY <1>1
<1>2. CASE F # {}
  <2>1. PICK N \in F : \A U \in F : U \subseteq N => U = N
    <3>1. F \subseteq SUBSET M /\ IsFiniteSet(M)
      BY TablesAssumption, FS_Subset
    <3>. HIDE DEF F
    <3>. QED
      BY <1>2, <3>1, Smallest
  <2>2. /\ N \subseteq Users /\ IsFiniteSet(N) /\ IsFiniteSet(published)
        /\ SumOf(Worth(N), published) + SumOf(offset, N) # SumOf(Totals, N)
    BY TablesAssumption, FS_Subset
  <2>3. \A v \in N : SumOf(Worth(N \ {v}), published) + SumOf(offset, N \ {v}) = SumOf(Totals, N \ {v})
    BY <2>1
  <2>. HIDE DEF F
  <2>4. N # {}
    <3>. SUFFICES ASSUME N = {} PROVE FALSE
      OBVIOUS
    <3>1. \A p \in published : Worth(N)[p] = 0
      <4>1. \A p : Solvers(N, p) = {}
        BY DEF Solvers
      <4>2. \A p \in published : Worth(N)[p] = score[p] * 0
        BY <1>0, <4>1, FS_EmptySet DEF Worth
      <4>. QED
        BY <1>0, <4>2
    <3>2. SumOf(Worth(N), published) = 0
      BY <2>2, <3>1, SumZero
    <3>3. SumOf(offset, N) = 0 /\ SumOf(Totals, N) = 0
      BY <2>2, SumRecursion
    <3>. QED
      BY <2>2, <3>2, <3>3
  <2>5. PICK v \in N : v \in Users
    BY <2>2, <2>4
  <2>. DEFINE R == N \ {v}
              extra == [p \in Problems |-> IF p \in Solved(v) THEN score[p] ELSE 0]
  <2>6. IsFiniteSet(R) /\ R \subseteq Users
    BY <2>2, FS_Subset
  <2>7. ASSUME NEW p \in published
        PROVE  /\ Worth(R)[p] \in Int /\ extra[p] \in Int
               /\ Worth(N)[p] = Worth(R)[p] + extra[p]
    <3>1. p \in Problems /\ score[p] \in Nat
      BY TablesAssumption
    <3>2. IsFiniteSet(Solvers(R, p)) /\ Solvers(R, p) = Solvers(N, p) \ {v} /\ v \notin Solvers(R, p)
      BY <2>6, FS_Subset DEF Solvers
    <3>3. Cardinality(Solvers(R, p)) \in Nat
      BY <3>2, FS_CardinalityType
    <3>4. CASE accepted[v, p] > 0
      <4>1. Solvers(N, p) = Solvers(R, p) \union {v} /\ p \in Solved(v)
        BY <3>2, <3>4 DEF Solvers, Solved
      <4>2. Cardinality(Solvers(N, p)) = Cardinality(Solvers(R, p)) + 1
        BY <3>2, <4>1, FS_AddElement
      <4>3. extra[p] = score[p]
        BY <3>1, <4>1
      <4>. HIDE DEF R, extra
      <4>4. /\ Worth(N)[p] = score[p] * Cardinality(Solvers(N, p))
            /\ Worth(R)[p] = score[p] * Cardinality(Solvers(R, p))
        BY <3>1 DEF Worth
      <4>. DEFINE k == Cardinality(Solvers(R, p))
      <4>5. Worth(N)[p] = score[p] * (k + 1) /\ Worth(R)[p] = score[p] * k /\ k \in Nat
        BY <3>3, <4>2, <4>4
      <4>. HIDE DEF k
      <4>. QED
        BY <3>1, <4>3, <4>5
    <3>5. CASE ~ (accepted[v, p] > 0)
      <4>1. Solvers(N, p) = Solvers(R, p) /\ p \notin Solved(v)
        BY <3>2, <3>5 DEF Solvers, Solved
      <4>2. extra[p] = 0
        BY <3>1, <4>1
      <4>. HIDE DEF R, extra
      <4>3. /\ Worth(N)[p] = Worth(R)[p]
            /\ Worth(R)[p] = score[p] * Cardinality(Solvers(R, p))
        BY <3>1, <4>1 DEF Worth
      <4>. QED
        BY <3>1, <3>3, <4>2, <4>3
    <3>. QED
      BY <3>4, <3>5
  <2>8. SumOf(extra, published) = SumOf(score, Solved(v))
    <3>1. \A p \in published : score[p] \in Int /\ extra[p] = IF p \in Solved(v) THEN score[p] ELSE 0
      <4>1. \A p \in published : p \in Problems /\ score[p] \in Int
        BY <1>0
      <4>. QED
        BY <4>1
    <3>2. published \cap Solved(v) = Solved(v)
      BY DEF Solved
    <3>. HIDE DEF extra
    <3>3. ASSUME NEW A, A = Solved(v)
          PROVE  SumOf(extra, published) = SumOf(score, published \cap A)
      <4>1. \A p \in published : score[p] \in Int /\ extra[p] = IF p \in A THEN score[p] ELSE 0
        BY <3>1, <3>3
      <4>2. IsFiniteSet(published)
        BY <2>2
      <4>. QED
        BY <4>1, <4>2, SumFiltered
    <3>. QED
      BY <3>2, <3>3
  <2>. HIDE DEF extra
  <2>9. /\ SumOf(Worth(N), published) = SumOf(Worth(R), published) + SumOf(extra, published)
        /\ SumOf(Worth(R), published) \in Int /\ SumOf(extra, published) \in Int
    <3>. HIDE DEF R
    <3>. QED
      BY <2>2, <2>7, SumSplit, SumIsInt
  <2>10. \A u \in N : totalScore(u) \in Int /\ Totals[u] = totalScore(u)
    <3>1. ASSUME NEW u \in N PROVE totalScore(u) \in Int
      <4>1. IsFiniteSet(Solved(u)) /\ \A p \in Solved(u) : score[p] \in Int
        <5>1. Solved(u) \subseteq published
          BY DEF Solved
        <5>. QED
          BY <1>0, <2>2, <5>1, FS_Subset
      <4>. QED
        BY <2>2, <4>1, SumIsInt, SolvedIsSum
    <3>. QED
      BY <2>2, <3>1 DEF Totals
  <2>11. SumOf(offset, N) = offset[v] + SumOf(offset, R) /\ SumOf(offset, R) \in Int
    <3>1. \A u \in N : offset[u] \in Int
      BY <2>2
    <3>. QED
      BY <2>2, <2>6, <3>1, SumRemove, SumIsInt
  <2>12. SumOf(Totals, N) = totalScore(v) + SumOf(Totals, R) /\ SumOf(Totals, R) \in Int
    <3>1. \A u \in N : Totals[u] \in Int
      BY <2>10
    <3>. QED
      BY <2>2, <2>6, <2>10, <3>1, SumRemove, SumIsInt
  <2>13. totalScore(v) = SumOf(extra, published) + offset[v] /\ offset[v] \in Int
    BY <2>5, <2>8, SolvedIsSum
  <2>14. SumOf(Worth(R), published) + SumOf(offset, R) = SumOf(Totals, R)
    BY <2>3
  <2>. HIDE DEF R
  <2>. QED
    BY <2>2, <2>9, <2>11, <2>12, <2>13, <2>14
<1>. QED
  BY <1>1, <1>2

(* The score of a group, computed by problems, is what its members score.  *)
THEOREM GroupsSumUp == Spec => []GroupScoreIsSum
<1>1. ASSUME published \subseteq Problems, offset \in [Users -> Int] PROVE GroupScoreIsSum
  <2>. SUFFICES ASSUME NEW g \in Groups
                PROVE  groupTotalScore(g) = MapThenSumSet(totalScore, Members(g))
    BY DEF GroupScoreIsSum
  <2>1. Members(g) \subseteq Users
    BY DEF Members
  <2>. QED
    BY <1>1, <2>1, WorthIsSum, GroupSums, TotalsAreSum
<1>2. Init => published \subseteq Problems
  BY DEF Init
<1>3. published \subseteq Problems /\ [Next]_vars => (published \subseteq Problems)'
  BY DEF Next, Accept, Publish, Withdraw, Reprice, Load, Check, Charge, Link, LinkRefused, Fails,
         vars, history, ledger
<1>4. LedgerInv => offset \in [Users -> Int]
  BY DEF LedgerInv, Typed
<1>. QED
  BY <1>1, <1>2, <1>3, <1>4, LedgerInductive, PTL DEF Spec
=============================================================================
