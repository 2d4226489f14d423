------------------------------ MODULE Accounts ------------------------------
(***************************************************************************)
(* One user account, its password and the mails about it:                  *)
(* api/src/auth/auth.service.ts with the parts of                          *)
(* api/src/users/users.service.ts it relies on and mail.service.ts.        *)
(*                                                                         *)
(* An account is made by an admin, usually without a password.  A user     *)
(* asks for a mail with a token, and the token lets him set the password,  *)
(* for the first time (create_account) or anew (reset_password).  Tokens   *)
(* live as long as the cooldown between two mails.  Requests load the row, *)
(* await the signature, the hash or the mail server, and write later.      *)
(*                                                                         *)
(* Time is kept as ages, which stop at Cooldown: nothing asks for more.    *)
(***************************************************************************)
EXTENDS Integers

CONSTANTS
  Slots,      \* how many requests about the account may be under way at once
  Cooldown,   \* auth.mailRequestCooldown, in ticks of the clock
  Passwords,  \* the passwords somebody may choose
  NoPassword  \* the account has none

ASSUME CooldownAssumption == Cooldown \in Nat \ {0}
ASSUME PasswordAssumption == NoPassword \notin Passwords

VARIABLES
  exists,     \* the row is in the database
  password,   \* the password that its hashedPassword fits
  legacy,     \* the parameters of that hash are out of date
  age,        \* time since lastEmailRequestedAt
  live,       \* how many mailed tokens of a type live on for so long, by the
              \* way they were asked for (overtaken or not)
  pc,         \* how far each request has come
  type,       \* what it is about
  left,       \* how long the token it has signed will live on
  given,      \* the password it was given to hash
  overtaken   \* another request has written the column that this one is
              \* about to write since it loaded the row

jobs == <<pc, type, left, given, overtaken>>
vars == <<exists, password, legacy, age, live, jobs>>

MailTypes == {"create_account", "reset_password"}

\* Mutant of TokenLife: tokens live longer than the cooldown.
TokenLifeLonger == Cooldown + 1

(* expiresIn is the cooldown.                                              *)
TokenLife == Cooldown

Tokens == MailTypes \X (1 .. TokenLife) \X BOOLEAN

TypeOK ==
  /\ exists \in BOOLEAN
  /\ password \in Passwords \union {NoPassword}
  /\ legacy \in BOOLEAN
  /\ age \in 0 .. Cooldown
  /\ live \in [Tokens -> Nat]
  /\ pc \in [Slots -> {"idle", "stamping", "mailing", "hashing"}]
  /\ type \in [Slots -> MailTypes \union {"change", "rehash"}]
  /\ left \in [Slots -> 0 .. TokenLife]
  /\ given \in [Slots -> Passwords \union {NoPassword}]
  /\ overtaken \in [Slots -> BOOLEAN]

(* An admin has made the account, with or without a password.              *)
Init ==
  /\ exists = TRUE
  /\ password \in Passwords \union {NoPassword}
  /\ legacy \in BOOLEAN /\ (legacy => password # NoPassword)
  /\ age = Cooldown
  /\ live = [token \in Tokens |-> 0]
  /\ pc = [s \in Slots |-> "idle"]
  /\ type = [s \in Slots |-> "change"]
  /\ left = [s \in Slots |-> 0]
  /\ given = [s \in Slots |-> NoPassword]
  /\ overtaken = [s \in Slots |-> FALSE]

-----------------------------------------------------------------------------
Begin(s, step, t, life, value) ==
  /\ pc[s] = "idle" /\ exists
  /\ pc' = [pc EXCEPT ![s] = step]
  /\ type' = [type EXCEPT ![s] = t]
  /\ left' = [left EXCEPT ![s] = life]
  /\ given' = [given EXCEPT ![s] = value]
  /\ overtaken' = [overtaken EXCEPT ![s] = FALSE]

(* The request is over; what it worked on is garbage.                      *)
End(s) ==
  /\ pc' = [pc EXCEPT ![s] = "idle"]
  /\ type' = [type EXCEPT ![s] = "change"]
  /\ left' = [left EXCEPT ![s] = 0]
  /\ given' = [given EXCEPT ![s] = NoPassword]

(* The request s writes its column; those that are about to write the same *)
(* are overtaken.                                                          *)
Overtakes(s) ==
  overtaken' = [q \in Slots |-> overtaken[q] \/ (q # s /\ pc[q] = pc[s])]

(* An exception, or a crash of the process, ends a request where it is.    *)
Aborts(s) ==
  /\ pc[s] # "idle"
  /\ End(s)
  /\ UNCHANGED <<exists, password, legacy, age, live, overtaken>>

HasPassword == password # NoPassword
Suits(t) == IF t = "create_account" THEN ~HasPassword ELSE HasPassword

\* Mutant of RequestMail: the cooldown is not looked at.
RequestMailAnytime(s, t) ==
  /\ Suits(t)
  /\ Begin(s, "stamping", t, TokenLife, NoPassword)
  /\ UNCHANGED <<exists, password, legacy, age, live>>

(* requestAccountCreation() and requestPasswordReset() up to the signature:*)
(* the account exists, suits the request and is not in its cooldown.       *)
RequestMail(s, t) ==
  /\ Suits(t)
  /\ age = Cooldown
  /\ Begin(s, "stamping", t, TokenLife, NoPassword)
  /\ UNCHANGED <<exists, password, legacy, age, live>>

(* updateInternal() with the new lastEmailRequestedAt.                     *)
Stamp(s) ==
  /\ pc[s] = "stamping"
  /\ pc' = [pc EXCEPT ![s] = "mailing"]
  /\ age' = IF exists THEN 0 ELSE age
  /\ Overtakes(s)
  /\ UNCHANGED <<exists, password, legacy, live, type, left, given>>

(* The mail arrives with its token, unless that has expired by then.       *)
Mail(s) ==
  LET token == <<type[s], left[s], overtaken[s]>>
  IN /\ pc[s] = "mailing"
     /\ live' = IF left[s] > 0 THEN [live EXCEPT ![token] = @ + 1] ELSE live
     /\ End(s)
     /\ UNCHANGED <<exists, password, legacy, age, overtaken>>

TokenLives(t) == \E token \in Tokens : token[1] = t /\ live[token] > 0

\* Mutant of UseToken: a token is enough, whatever has become of the account.
UseTokenUnchecked(s, t, new) ==
  /\ TokenLives(t)
  /\ Begin(s, "hashing", t, 0, new)
  /\ UNCHANGED <<exists, password, legacy, age, live>>

(* createAccount() and resetPassword() up to the hash: the token is valid, *)
(* and the account (still) has no password, or has one.                    *)
UseToken(s, t, new) ==
  /\ TokenLives(t) /\ Suits(t)
  /\ Begin(s, "hashing", t, 0, new)
  /\ UNCHANGED <<exists, password, legacy, age, live>>

(* update() with a password: by a user who knows the old one, or by a      *)
(* SuperAdmin, who need not.                                               *)
ChangePassword(s, bySuperAdmin, new) ==
  /\ bySuperAdmin \/ HasPassword
  /\ Begin(s, "hashing", "change", 0, new)
  /\ UNCHANGED <<exists, password, legacy, age, live>>

\* Mutant of Login: the hash is renewed before the password is verified.
LoginUnverified(s, typed) ==
  /\ HasPassword /\ legacy
  /\ Begin(s, "hashing", "rehash", 0, typed)
  /\ UNCHANGED <<exists, password, legacy, age, live>>

(* login(): validatePassword() renews a hash with parameters out of date   *)
(* from the password that was typed, once that has been verified.  Any     *)
(* other login writes nothing.                                             *)
Login(s, typed) ==
  /\ HasPassword /\ legacy /\ typed = password
  /\ Begin(s, "hashing", "rehash", 0, typed)
  /\ UNCHANGED <<exists, password, legacy, age, live>>

(* The hash is there and is written.                                       *)
SetPassword(s) ==
  /\ pc[s] = "hashing"
  /\ password' = IF exists THEN given[s] ELSE password
  /\ legacy' = (legacy /\ ~exists)
  /\ End(s) /\ Overtakes(s)
  /\ UNCHANGED <<exists, age, live>>

(* An admin removes the account.                                           *)
Remove ==
  /\ exists
  /\ exists' = FALSE
  /\ UNCHANGED <<password, legacy, age, live, jobs>>

Tick ==
  /\ age' = IF age < Cooldown THEN age + 1 ELSE age
  /\ live' = [k \in Tokens |-> IF k[2] = TokenLife THEN 0 ELSE live[<<k[1], k[2] + 1, k[3]>>]]
  /\ left' = [s \in Slots |-> IF left[s] > 0 THEN left[s] - 1 ELSE 0]
  /\ UNCHANGED <<exists, password, legacy, pc, type, given, overtaken>>

(* The account is gone and no request is under way.                        *)
Gone == ~exists /\ (\A s \in Slots : pc[s] = "idle") /\ UNCHANGED vars

Next ==
  \/ \E s \in Slots :
       \/ \E t \in MailTypes :
            RequestMail(s, t) \/ \E new \in Passwords : UseToken(s, t, new)
       \/ Stamp(s) \/ Mail(s)
       \/ \E new \in Passwords :
            \/ \E bySuperAdmin \in BOOLEAN : ChangePassword(s, bySuperAdmin, new)
            \/ Login(s, new)
       \/ SetPassword(s) \/ Aborts(s)
  \/ Remove
  \/ Tick
  \/ Gone

(* Time passes; of the users, and of requests that hang, nothing is said.  *)
Spec == Init /\ [][Next]_vars /\ WF_vars(Tick)

-----------------------------------------------------------------------------
(* "The cooldown (wait period) before a user can request any action that   *)
(* require sending email again" (api/README.md): a request for a mail      *)
(* takes effect only when the previous one did so a cooldown ago.          *)
CooldownKept == [][\A s \in Slots : Stamp(s) => age = Cooldown]_vars

(* The cooldown is also what keeps old links from piling up: of the mailed *)
(* tokens that are still valid, for creation and reset together, at most   *)
(* one was asked for in turn; any other comes from a request that was      *)
(* overtaken by one under way at the same time.                            *)
LiveInTurn ==
  \A t, u \in {token \in Tokens : ~token[3] /\ live[token] > 0} : t = u /\ live[t] = 1

(* A link for account creation sets the first password only: it replaces   *)
(* one only if a concurrent request has set that in the meantime.          *)
FirstPasswordOnly ==
  [][\A s \in Slots :
       SetPassword(s) /\ type[s] = "create_account" /\ HasPassword
         => overtaken[s]]_vars

(* Renewing a hash leaves the password alone.  Only if the password was    *)
(* changed while login() was hashing the one it had verified does that one *)
(* come back (users.service.ts:547-552).                                   *)
RehashKeepsPassword ==
  [][\A s \in Slots :
       SetPassword(s) /\ type[s] = "rehash" /\ exists /\ password # given[s]
         => overtaken[s]]_vars

(* Whatever mails were asked for, lost or refused: the cooldown always     *)
(* runs out, and the user may ask again.                                   *)
AskAgain == []<>(age = Cooldown)

=============================================================================
