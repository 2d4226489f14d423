--------------------------- MODULE AccountsProofs ---------------------------
(***************************************************************************)
(* Proofs about Accounts, for every cooldown and any number of requests    *)
(* that overlap: types, that valid links do not pile up, and that a hash   *)
(* which replaces another password comes from a request that was overtaken.*)
(***************************************************************************)
EXTENDS Accounts, TLAPS

(* The requests that have stamped the row in turn and whose mail, with a   *)
(* token that is still valid, is to come; and the tokens that were asked   *)
(* for in turn, have arrived and are still valid.                          *)
Pending == {s \in Slots : pc[s] = "mailing" /\ ~overtaken[s] /\ left[s] > 0}
Valid == {token \in Tokens : ~token[3] /\ live[token] > 0}

(* While the row exists, what was signed before the last stamp expires     *)
(* before the cooldown is over.                                            *)
ExpiresInTime ==
  exists => /\ \A s \in Pending : age + left[s] <= Cooldown
            /\ \A token \in Valid : age + token[2] <= Cooldown

(* A request that is about to stamp the row, and was not overtaken, was    *)
(* let in when everything signed earlier had expired.                      *)
NothingBefore ==
  (\E s \in Slots : pc[s] = "stamping" /\ ~overtaken[s]) => Pending = {} /\ Valid = {}

OneInTurn ==
  /\ \A s, q \in Pending : s = q
  /\ Pending # {} => Valid = {}
  /\ \A t, u \in Valid : t = u /\ live[t] = 1

(* A request that will send a mail is about one of the two kinds of mail.  *)
MailTyped == \A s \in Slots : pc[s] \in {"stamping", "mailing"} => type[s] \in MailTypes

TypeInv == TypeOK /\ MailTyped
TurnInv == ExpiresInTime /\ NothingBefore /\ OneInTurn

-----------------------------------------------------------------------------
(* A token that is not new was a tick ago a token with a tick more.        *)
Older(k) == <<k[1], k[2] + 1, k[3]>>

LEMMA OlderToken ==
  ASSUME NEW k \in Tokens, k[2] # TokenLife
  PROVE  /\ Older(k) \in Tokens
         /\ Older(k)[2] = k[2] + 1 /\ Older(k)[3] = k[3]
BY CooldownAssumption DEF Tokens, Older, TokenLife

LEMMA TokenParts ==
  /\ \A k \in Tokens : k[2] \in 1 .. TokenLife /\ k[3] \in BOOLEAN
  /\ \A k, l \in Tokens : k[1] = l[1] /\ k[2] = l[2] /\ k[3] = l[3] => k = l
BY DEF Tokens

(* The types, and what kind of request sends mails.                        *)
LEMMA TypesInvariant == Spec => []TypeInv
<1>. USE CooldownAssumption DEF TokenLife
<1>1. Init => TypeInv
  BY DEF Init, TypeInv, TypeOK, MailTyped, MailTypes, Tokens
<1>2. TypeInv /\ [Next]_vars => TypeInv'
  <2>. SUFFICES ASSUME TypeInv, [Next]_vars PROVE TypeInv'
    OBVIOUS
  <2>. USE DEF TypeInv, TypeOK, MailTyped
  <2>1. ASSUME NEW s \in Slots, NEW t \in MailTypes, RequestMail(s, t) PROVE TypeInv'
    BY <2>1 DEF RequestMail, Begin
  <2>2. ASSUME NEW s \in Slots, NEW t \in MailTypes, NEW v \in Passwords, UseToken(s, t, v)
       PROVE  TypeInv'
    BY <2>2 DEF UseToken, Begin
  <2>3. ASSUME NEW s \in Slots, Stamp(s) PROVE TypeInv'
    BY <2>3 DEF Stamp, Overtakes
  <2>4. ASSUME NEW s \in Slots, Mail(s) PROVE TypeInv'
    <3>1. live' \in [Tokens -> Nat]
      <4>. DEFINE token == <<type[s], left[s], overtaken[s]>>
      <4>1. left[s] > 0 => token \in Tokens
        BY <2>4 DEF Mail, Tokens
      <4>2. live' = IF left[s] > 0 THEN [live EXCEPT ![token] = @ + 1] ELSE live
        BY <2>4 DEF Mail
      <4>. HIDE DEF token
      <4>. QED
        BY <4>1, <4>2
    <3>. QED
      BY <2>4, <3>1 DEF Mail, End
  <2>5. ASSUME NEW s \in Slots, NEW b \in BOOLEAN, NEW v \in Passwords, ChangePassword(s, b, v)
       PROVE  TypeInv'
    BY <2>5 DEF ChangePassword, Begin
  <2>6. ASSUME NEW s \in Slots, NEW v \in Passwords, Login(s, v) PROVE TypeInv'
    BY <2>6 DEF Login, Begin
  <2>7. ASSUME NEW s \in Slots, SetPassword(s) PROVE TypeInv'
    BY <2>7 DEF SetPassword, End, Overtakes
  <2>8. ASSUME NEW s \in Slots, Aborts(s) PROVE TypeInv'
    BY <2>8 DEF Aborts, End
  <2>9. CASE Remove
    BY <2>9 DEF Remove, jobs
  <2>10. CASE Tick
    <3>1. live' \in [Tokens -> Nat]
      <4>1. live' = [k \in Tokens |-> IF k[2] = TokenLife THEN 0 ELSE live[Older(k)]]
        BY <2>10 DEF Tick, Older
      <4>2. \A k \in Tokens : k[2] # TokenLife => live[Older(k)] \in Nat
        BY OlderToken
      <4>. QED
        BY <4>1, <4>2
    <3>. QED
      BY <2>10, <3>1 DEF Tick
  <2>11. CASE UNCHANGED vars
    BY <2>11 DEF vars, jobs
  <2>. QED
    BY <2>1, <2>2, <2>3, <2>4, <2>5, <2>6, <2>7, <2>8, <2>9, <2>10, <2>11 DEF Next, Gone
<1>. QED
  BY <1>1, <1>2, PTL DEF Spec

(* The variables have their types, for any number of requests.             *)
THEOREM TypeCorrect == Spec => []TypeOK
<1>1. TypeInv => TypeOK
  BY DEF TypeInv
<1>. QED
  BY <1>1, TypesInvariant, PTL

-----------------------------------------------------------------------------
Fresh == {s \in Slots : pc[s] = "stamping" /\ ~overtaken[s]}

(* A step that neither lets a mail request in, nor stamps, sends or ages   *)
(* anything in turn, keeps the invariant.                                  *)
LEMMA Frame ==
  ASSUME TurnInv,
         Pending' \subseteq Pending, Fresh' \subseteq Fresh,
         \A s \in Pending' : left'[s] = left[s],
         Valid' = Valid, \A token \in Valid : live'[token] = live[token],
         age' = age, exists' => exists
  PROVE  TurnInv'
<1>1. ExpiresInTime'
  BY DEF TurnInv, ExpiresInTime
<1>2. NothingBefore'
  <2>1. Fresh # {} => Pending = {} /\ Valid = {}
    BY DEF TurnInv, NothingBefore, Fresh
  <2>2. Fresh' # {} => Pending' = {} /\ Valid' = {}
    BY <2>1
  <2>. QED
    BY <2>2 DEF NothingBefore, Fresh
<1>3. OneInTurn'
  BY DEF TurnInv, OneInTurn
<1>. QED
  BY <1>1, <1>2, <1>3 DEF TurnInv

(* A request for a mail is let in when nothing signed earlier is valid.    *)
LEMMA LetIn ==
  ASSUME TypeInv, TurnInv, NEW s \in Slots, NEW t \in MailTypes, RequestMail(s, t)
  PROVE  TurnInv'
<1>. USE CooldownAssumption DEF TypeInv, TypeOK
<1>1. exists /\ age = Cooldown /\ pc[s] = "idle"
  BY DEF RequestMail, Begin
<1>2. Pending = {} /\ Valid = {}
  BY <1>1, TokenParts DEF TurnInv, ExpiresInTime, Pending, Valid
<1>3. Valid' = {}
  BY <1>2 DEF RequestMail, Valid
<1>4. Pending' = {}
  BY <1>1, <1>2 DEF RequestMail, Begin, Pending
<1>. QED
  BY <1>3, <1>4 DEF TurnInv, ExpiresInTime, NothingBefore, OneInTurn

(* A stamp overtakes every other request that was about to set one.        *)
LEMMA Stamps ==
  ASSUME TypeInv, TurnInv, NEW s \in Slots, Stamp(s)
  PROVE  TurnInv'
<1>. USE CooldownAssumption DEF TypeInv, TypeOK
<1>1. /\ Valid' = Valid /\ live' = live /\ left' = left /\ exists' = exists
      /\ age' = IF exists THEN 0 ELSE age
      /\ pc[s] = "stamping" /\ overtaken'[s] = overtaken[s]
      /\ \A q \in Slots : q # s => pc'[q] = pc[q]
      /\ pc'[s] = "mailing"
      /\ \A q \in Slots : q # s /\ pc[q] = "stamping" => overtaken'[q]
      /\ \A q \in Slots : q # s /\ pc[q] # "stamping" => overtaken'[q] = overtaken[q]
  BY DEF Stamp, Overtakes, Valid
<1>2. ~\E q \in Slots : pc'[q] = "stamping" /\ ~overtaken'[q]
  BY <1>1
<1>3. NothingBefore'
  BY <1>2 DEF NothingBefore
<1>4. ExpiresInTime'
  BY <1>1, TokenParts DEF ExpiresInTime, Pending, Valid, TokenLife
<1>5. CASE overtaken[s]
  <2>1. Pending' = Pending
    BY <1>1, <1>5 DEF Pending
  <2>. QED
    BY <1>1, <1>3, <1>4, <2>1 DEF TurnInv, OneInTurn
<1>6. CASE ~overtaken[s]
  <2>1. Pending = {} /\ Valid = {}
    BY <1>1, <1>6 DEF TurnInv, NothingBefore
  <2>2. Pending' \subseteq {s}
    BY <1>1, <2>1 DEF Pending
  <2>. QED
    BY <1>1, <1>3, <1>4, <2>1, <2>2 DEF TurnInv, OneInTurn
<1>. QED
  BY <1>5, <1>6

(* A mail turns its request into a token.                                  *)
LEMMA Mails ==
  ASSUME TypeInv, TurnInv, NEW s \in Slots, Mail(s)
  PROVE  TurnInv'
<1>. USE CooldownAssumption DEF TypeInv, TypeOK
<1>. DEFINE token == <<type[s], left[s], overtaken[s]>>
<1>1. /\ age' = age /\ exists' = exists /\ overtaken' = overtaken
      /\ pc[s] = "mailing" /\ pc'[s] = "idle" /\ left'[s] = 0
      /\ \A q \in Slots : q # s => pc'[q] = pc[q] /\ left'[q] = left[q]
      /\ live' = IF left[s] > 0 THEN [live EXCEPT ![token] = @ + 1] ELSE live
  BY DEF Mail, End
<1>2. /\ left[s] > 0 => token \in Tokens
      /\ token[2] = left[s] /\ token[3] = overtaken[s]
  BY <1>1 DEF MailTyped, Tokens
<1>3. /\ Pending' = Pending \ {s}
      /\ Fresh' = Fresh
  BY <1>1 DEF Pending, Fresh
<1>4. CASE s \notin Pending
  <2>1. left[s] = 0 \/ overtaken[s]
    BY <1>1, <1>4 DEF Pending
  <2>2. \A k \in Tokens : ~k[3] => live'[k] = live[k]
    <3>. HIDE DEF token
    <3>. QED
      BY <1>1, <1>2, <2>1
  <2>3. Valid' = Valid /\ \A k \in Valid : live'[k] = live[k]
    BY <2>2 DEF Valid
  <2>. QED
    BY <1>1, <1>3, <2>3, Frame DEF Pending
<1>5. CASE s \in Pending
  <2>1. Valid = {} /\ Pending' = {}
    BY <1>3, <1>5 DEF TurnInv, OneInTurn
  <2>2. left[s] > 0 /\ ~overtaken[s] /\ token \in Tokens
    BY <1>2, <1>5 DEF Pending
  <2>3. live[token] = 0
    <3>. HIDE DEF token
    <3>. QED
      BY <1>2, <2>1, <2>2 DEF Valid
  <2>4. Valid' \subseteq {token} /\ live'[token] = 1
    <3>. HIDE DEF token
    <3>. QED
      BY <1>1, <2>1, <2>2, <2>3 DEF Valid
  <2>5. exists => age + left[s] <= Cooldown
    BY <1>5 DEF TurnInv, ExpiresInTime
  <2>6. Fresh' = {}
    BY <1>3, <1>5 DEF TurnInv, NothingBefore, Fresh
  <2>7. ExpiresInTime'
    BY <1>1, <1>2, <2>1, <2>4, <2>5 DEF ExpiresInTime
  <2>8. NothingBefore'
    BY <2>6 DEF NothingBefore, Fresh
  <2>9. OneInTurn'
    BY <2>1, <2>4 DEF OneInTurn
  <2>. QED
    BY <2>7, <2>8, <2>9 DEF TurnInv
<1>. QED
  BY <1>4, <1>5

(* Time brings what is valid as much nearer to its end as it brings the    *)
(* cooldown.                                                               *)
LEMMA Ticks ==
  ASSUME TypeInv, TurnInv, Tick
  PROVE  TurnInv'
<1>. USE CooldownAssumption DEF TypeInv, TypeOK
<1>1. /\ pc' = pc /\ overtaken' = overtaken /\ exists' = exists
      /\ age' = IF age < Cooldown THEN age + 1 ELSE age
      /\ \A s \in Slots : left'[s] = IF left[s] > 0 THEN left[s] - 1 ELSE 0
      /\ live' = [k \in Tokens |-> IF k[2] = TokenLife THEN 0 ELSE live[Older(k)]]
  BY DEF Tick, Older
<1>2. \A s \in Pending' : s \in Pending /\ left'[s] = left[s] - 1
  BY <1>1 DEF Pending
<1>3. \A k \in Valid' : /\ Older(k) \in Valid /\ k[2] # TokenLife
                        /\ Older(k)[2] = k[2] + 1 /\ live'[k] = live[Older(k)]
  BY <1>1, OlderToken DEF Valid
<1>4. \A k, l \in Valid' : Older(k) = Older(l) => k = l
  <2>. SUFFICES ASSUME NEW k \in Valid', NEW l \in Valid', Older(k) = Older(l) PROVE k = l
    OBVIOUS
  <2>1. k \in Tokens /\ l \in Tokens
    BY DEF Valid
  <2>2. k[1] = l[1] /\ k[2] + 1 = l[2] + 1 /\ k[3] = l[3]
    BY DEF Older
  <2>. QED
    BY <2>1, <2>2, TokenParts DEF TokenLife
<1>5. ExpiresInTime'
  <2>. SUFFICES ASSUME exists
                PROVE  /\ \A s \in Pending' : age' + left'[s] <= Cooldown
                       /\ \A k \in Valid' : age' + k[2] <= Cooldown
    BY <1>1 DEF ExpiresInTime
  <2>1. ASSUME NEW s \in Pending' PROVE age' + left'[s] <= Cooldown
    BY <1>1, <1>2, <2>1 DEF TurnInv, ExpiresInTime, Pending
  <2>2. ASSUME NEW k \in Valid' PROVE age' + k[2] <= Cooldown
    <3>1. age + k[2] + 1 <= Cooldown /\ k[2] \in Nat
      BY <1>3, <2>2, TokenParts DEF TurnInv, ExpiresInTime, Valid, TokenLife
    <3>. QED
      BY <1>1, <3>1
  <2>. QED
    BY <2>1, <2>2
<1>6. NothingBefore'
  <2>1. Fresh' = Fresh
    BY <1>1 DEF Fresh
  <2>2. Fresh # {} => Pending = {} /\ Valid = {}
    BY DEF TurnInv, NothingBefore, Fresh
  <2>3. Fresh' # {} => Pending' = {} /\ Valid' = {}
    BY <1>2, <1>3, <2>1, <2>2
  <2>. QED
    BY <2>3 DEF NothingBefore, Fresh
<1>7. OneInTurn'
  BY <1>2, <1>3, <1>4 DEF TurnInv, OneInTurn
<1>. QED
  BY <1>5, <1>6, <1>7 DEF TurnInv

(* However many requests overlap and however long the cooldown is: of the  *)
(* tokens still valid at most one was asked for in turn.                   *)
THEOREM LinksDoNotPileUp == Spec => []LiveInTurn
<1>1. Init => TurnInv
  BY DEF Init, TurnInv, ExpiresInTime, NothingBefore, OneInTurn, Pending, Valid, Tokens
<1>2. TypeInv /\ TurnInv /\ [Next]_vars => TurnInv'
  <2>. SUFFICES ASSUME TypeInv, TurnInv, [Next]_vars PROVE TurnInv'
    OBVIOUS
  <2>1. ASSUME NEW s \in Slots, NEW t \in MailTypes, NEW v \in Passwords, UseToken(s, t, v)
       PROVE  TurnInv'
    BY <2>1, Frame DEF UseToken, Begin, Pending, Fresh, Valid, TypeInv, TypeOK
  <2>2. ASSUME NEW s \in Slots, NEW b \in BOOLEAN, NEW v \in Passwords, ChangePassword(s, b, v)
       PROVE  TurnInv'
    BY <2>2, Frame DEF ChangePassword, Begin, Pending, Fresh, Valid, TypeInv, TypeOK
  <2>3. ASSUME NEW s \in Slots, NEW v \in Passwords, Login(s, v) PROVE TurnInv'
    BY <2>3, Frame DEF Login, Begin, Pending, Fresh, Valid, TypeInv, TypeOK
  <2>4. ASSUME NEW s \in Slots, SetPassword(s) PROVE TurnInv'
    BY <2>4, Frame DEF SetPassword, End, Overtakes, Pending, Fresh, Valid, TypeInv, TypeOK
  <2>5. ASSUME NEW s \in Slots, Aborts(s) PROVE TurnInv'
    BY <2>5, Frame DEF Aborts, End, Pending, Fresh, Valid, TypeInv, TypeOK
  <2>6. CASE Remove
    BY <2>6, Frame DEF Remove, jobs, Pending, Fresh, Valid
  <2>7. CASE UNCHANGED vars
    BY <2>7, Frame DEF vars, jobs, Pending, Fresh, Valid
  <2>. QED
    BY <2>1, <2>2, <2>3, <2>4, <2>5, <2>6, <2>7, LetIn, Stamps, Mails, Ticks DEF Next, Gone
<1>3. TurnInv => LiveInTurn
  BY DEF TurnInv, OneInTurn, LiveInTurn, Valid
<1>4. Spec => []TypeInv
  BY TypesInvariant
<1>. QED
  BY <1>1, <1>2, <1>3, <1>4, PTL DEF Spec

-----------------------------------------------------------------------------
(* A hash under way that nobody has overtaken will be written over the     *)
(* password its request has seen: none, or the one that was typed.         *)
SeenPassword ==
  \A s \in Slots :
    pc[s] = "hashing" /\ ~overtaken[s] =>
      /\ type[s] = "create_account" => password = NoPassword
      /\ type[s] = "rehash" => password = given[s]

LEMMA SeenPasswordHolds == Spec => []SeenPassword
<1>1. Init => SeenPassword
  BY DEF Init, SeenPassword
<1>2. TypeInv /\ SeenPassword /\ [Next]_vars => SeenPassword'
  <2>. SUFFICES ASSUME TypeInv, SeenPassword, [Next]_vars PROVE SeenPassword'
    OBVIOUS
  <2>. USE DEF TypeInv, TypeOK, SeenPassword
  <2>1. ASSUME NEW s \in Slots, NEW t \in MailTypes, RequestMail(s, t) PROVE SeenPassword'
    BY <2>1 DEF RequestMail, Begin
  <2>2. ASSUME NEW s \in Slots, NEW t \in MailTypes, NEW v \in Passwords, UseToken(s, t, v)
       PROVE  SeenPassword'
    BY <2>2 DEF UseToken, Begin, Suits, HasPassword, MailTypes
  <2>3. ASSUME NEW s \in Slots, Stamp(s) PROVE SeenPassword'
    BY <2>3 DEF Stamp, Overtakes
  <2>4. ASSUME NEW s \in Slots, Mail(s) PROVE SeenPassword'
    BY <2>4 DEF Mail, End
  <2>5. ASSUME NEW s \in Slots, NEW b \in BOOLEAN, NEW v \in Passwords, ChangePassword(s, b, v)
       PROVE  SeenPassword'
    BY <2>5 DEF ChangePassword, Begin
  <2>6. ASSUME NEW s \in Slots, NEW v \in Passwords, Login(s, v) PROVE SeenPassword'
    BY <2>6 DEF Login, Begin
  <2>7. ASSUME NEW s \in Slots, SetPassword(s) PROVE SeenPassword'
    BY <2>7 DEF SetPassword, End, Overtakes
  <2>8. ASSUME NEW s \in Slots, Aborts(s) PROVE SeenPassword'
    BY <2>8 DEF Aborts, End
  <2>9. CASE Remove
    BY <2>9 DEF Remove, jobs
  <2>10. CASE Tick
    BY <2>10 DEF Tick
  <2>11. CASE UNCHANGED vars
    BY <2>11 DEF vars, jobs
  <2>. QED
    BY <2>1, <2>2, <2>3, <2>4, <2>5, <2>6, <2>7, <2>8, <2>9, <2>10, <2>11 DEF Next, Gone
<1>. QED
  BY <1>1, <1>2, TypesInvariant, PTL DEF Spec

(* A link for account creation replaces a password only if a concurrent    *)
(* request has set that since the link was accepted.                       *)
THEOREM CreationSetsFirst == Spec => FirstPasswordOnly
<1>1. ASSUME SeenPassword, NEW s \in Slots, SetPassword(s), type[s] = "create_account", HasPassword
      PROVE  overtaken[s]
  BY <1>1 DEF SeenPassword, SetPassword, HasPassword
<1>2. SeenPassword => \A s \in Slots :
        SetPassword(s) /\ type[s] = "create_account" /\ HasPassword => overtaken[s]
  BY <1>1
<1>. QED
  BY <1>2, SeenPasswordHolds, PTL DEF FirstPasswordOnly

(* A renewed hash brings back another password than the present one only   *)
(* if that was set while the hash was being computed.                      *)
THEOREM RenewalKeepsPassword == Spec => RehashKeepsPassword
<1>1. ASSUME SeenPassword, NEW s \in Slots, SetPassword(s), type[s] = "rehash", exists,
             password # given[s]
      PROVE  overtaken[s]
  BY <1>1 DEF SeenPassword, SetPassword
<1>2. SeenPassword => \A s \in Slots :
        SetPassword(s) /\ type[s] = "rehash" /\ exists /\ password # given[s] => overtaken[s]
  BY <1>1
<1>. QED
  BY <1>2, SeenPasswordHolds, PTL DEF RehashKeepsPassword

=============================================================================
