------------------------------ MODULE Accounts ------------------------------
(***************************************************************************)
(* Who has an account, and how one is entered without a password: the      *)
(* flows by phone (register, requestOtp, verifyOtp, forgotPassword,        *)
(* resetPassword), socialLogin and the renter's profile update, one SQL    *)
(* statement or transaction per step, beside the accounts that signing up  *)
(* by e-mail adds.  A handler looks for an account, goes on, and leaves it *)
(* to the unique indexes to refuse what others have done meanwhile.        *)
(*                                                                         *)
(* A request that is refused before it writes leaves no trace and is no    *)
(* action.  The password that resetPassword stores and the sessions it     *)
(* revokes are in Credentials, the throttle buckets in RateLimiter: here   *)
(* the limiter, like a failing statement, may end a request at any step.   *)
(***************************************************************************)
EXTENDS Naturals, FiniteSets

CONSTANTS Users, Challenges,          \* ids that may be given to rows
          Phones, Emails, Subjects,   \* what accounts are known by; a subject
                                      \* is one of a social provider
          Reqs,                       \* requests being handled at the same time
          MaxAttempts,                \* otp_challenges.max_attempts
          None

ASSUME AccountsAssumption ==
  /\ MaxAttempts \in 1 .. 10
  /\ None \notin Users \union Challenges \union Phones \union Emails \union Subjects

VARIABLES user,       \* user[u]: the row of users, with its social identity, or None
          challenge,  \* challenge[c]: the row of otp_challenges, or None
          expired,    \* challenges whose time is over
          delivered,  \* challenges whose code reached the phone
          pc,         \* pc[r]: the statement request r sends next
          req,        \* req[r]: the phone and purpose, or the e-mail and subject
          chal,       \* chal[r]: the challenge at hand
          who,        \* who[r]: the account at hand
          snap,       \* snap[r]: the challenges the replacing UPDATE saw
          lost,       \* history: challenges whose request died before it was sent
          opened      \* history: opened[c]: sessions opened with the code of c

codeVars == <<challenge, expired, delivered>>
reqVars == <<pc, req, chal, who, snap>>
history == <<lost, opened>>
vars == <<user, codeVars, reqVars, history>>

Purposes == {"registration", "login", "password_reset"}
Steps == {"idle", "insert", "issue", "replace", "create", "send", "cancel", "count", "consume",
          "load", "activate", "reload", "check", "redeem", "link", "session"}

UserRow == [phone : Phones \union {None}, login : BOOLEAN, email : Emails \union {None},
            subject : Subjects \union {None},
            status : {"pending", "active", "suspended"}]
ChallengeRow == [phone : Phones, purpose : Purposes, open : BOOLEAN, wrong : 0 .. MaxAttempts]
CodeRequest == [phone : Phones, purpose : Purposes]
SocialRequest == [email : Emails, subject : Subjects]

ASSUME NoneAssumption ==
  None \notin UserRow \union ChallengeRow \union CodeRequest \union SocialRequest

Init ==
  /\ user = [u \in Users |-> None]
  /\ challenge = [c \in Challenges |-> None]
  /\ expired = {} /\ delivered = {} /\ lost = {}
  /\ opened = [c \in Challenges |-> 0]
  /\ pc = [r \in Reqs |-> "idle"]
  /\ req = [r \in Reqs |-> None]
  /\ chal = [r \in Reqs |-> None]
  /\ who = [r \in Reqs |-> None]
  /\ snap = [r \in Reqs |-> {}]

Accounts == {u \in Users : user[u] # None}
Issued == {c \in Challenges : challenge[c] # None}

(* The phones that sign in; uq_users_legacy_phone_login is about the same. *)
FindByPhone(p) == {u \in Accounts : user[u].phone = p /\ user[u].login}

FindByEmail(e) == {u \in Accounts : user[u].email = e}
FindBySocialIdentity(s) == {u \in Accounts : user[u].subject = s}

(* findOtpChallenge.                                                       *)
OpenChallenges(p, purpose) ==
  {c \in Issued : challenge[c].phone = p /\ challenge[c].purpose = purpose /\ challenge[c].open}

Go(r, step) == pc' = [pc EXCEPT ![r] = step]
Keep(r, c, u, s) ==
  /\ chal' = [chal EXCEPT ![r] = c]
  /\ who' = [who EXCEPT ![r] = u]
  /\ snap' = [snap EXCEPT ![r] = s]

Begin(r, step, q, c, u) ==
  /\ pc[r] = "idle"
  /\ Go(r, step)
  /\ req' = [req EXCEPT ![r] = q]
  /\ Keep(r, c, u, {})
  /\ UNCHANGED <<user, codeVars, history>>

End(r) ==
  /\ Go(r, "idle")
  /\ req' = [req EXCEPT ![r] = None]
  /\ Keep(r, None, None, {})

On(p, purpose) == [phone |-> p, purpose |-> purpose]

-----------------------------------------------------------------------------
(* register: the phone is free, and its password is hashed.                *)
Register(r) ==
  \E p \in Phones : FindByPhone(p) = {} /\ Begin(r, "insert", On(p, "registration"), None, None)

NewUser(p, login, e, s, status) ==
  [phone |-> p, login |-> login, email |-> e, subject |-> s, status |-> status]

(* Insert with the role and the profile, in one transaction.               *)
Insert(row) == \E u \in Users \ Accounts : user' = [user EXCEPT ![u] = row]

(* Mutation: no index covers the phones that sign in.                      *)
CreatePhoneUserAnyhow(r) ==
  /\ pc[r] = "insert"
  /\ Insert(NewUser(req[r].phone, TRUE, None, None, "pending"))
  /\ Go(r, "issue")
  /\ UNCHANGED <<codeVars, req, chal, who, snap, history>>

(* createPhoneUser: taken meanwhile, the phone is answered with 409.       *)
CreatePhoneUser(r) ==
  /\ pc[r] = "insert"
  /\ IF FindByPhone(req[r].phone) # {}
       THEN End(r) /\ UNCHANGED user
       ELSE /\ Insert(NewUser(req[r].phone, TRUE, None, None, "pending"))
            /\ Go(r, "issue")
            /\ UNCHANGED <<req, chal, who, snap>>
  /\ UNCHANGED <<codeVars, history>>

(* issuePhoneOtp: a code to confirm a pending account, to enter an active  *)
(* one, or to reset its password.                                          *)
Eligible(p, purpose) ==
  {u \in FindByPhone(p) : user[u].status = IF purpose = "registration" THEN "pending" ELSE "active"}

(* requestOtp, forgotPassword.                                             *)
RequestOtp(r) ==
  \E p \in Phones, purpose \in Purposes :
    Eligible(p, purpose) # {} /\ Begin(r, "replace", On(p, purpose), None, None)

(* The code that register requests for the account it has made.            *)
Issue(r) ==
  /\ pc[r] = "issue"
  /\ IF Eligible(req[r].phone, req[r].purpose) = {}
       THEN End(r)
       ELSE Go(r, "replace") /\ UNCHANGED <<req, chal, who, snap>>
  /\ UNCHANGED <<user, codeVars, history>>

(* replaceOtpChallenge: the UPDATE.                                        *)
CloseOpen(r) ==
  /\ pc[r] = "replace"
  /\ Go(r, "create")
  /\ Keep(r, None, None, OpenChallenges(req[r].phone, req[r].purpose))
  /\ UNCHANGED <<user, codeVars, req, history>>

(* The challenges with those of C closed.                                  *)
Closed(C) == [c \in Challenges |-> IF c \in C THEN [challenge[c] EXCEPT !.open = FALSE]
                                              ELSE challenge[c]]

(* The INSERT and the commit: uq_otp_challenges_active refuses a challenge *)
(* beside one that the UPDATE did not see, and the request fails.          *)
CreateChallenge(r) ==
  /\ pc[r] = "create"
  /\ IF OpenChallenges(req[r].phone, req[r].purpose) \subseteq snap[r]
       THEN /\ \E c \in Challenges \ Issued :
                 /\ challenge' = [Closed(snap[r]) EXCEPT ![c] =
                      [phone |-> req[r].phone, purpose |-> req[r].purpose,
                       open |-> TRUE, wrong |-> 0]]
                 /\ Keep(r, c, None, {})
            /\ Go(r, "send")
            /\ UNCHANGED req
       ELSE End(r) /\ UNCHANGED challenge
  /\ UNCHANGED <<user, expired, delivered, history>>

(* otpDelivery.send; it may fail when the message is already on its way.   *)
Send(r) ==
  /\ pc[r] = "send"
  /\ delivered' = delivered \union {chal[r]}
  /\ End(r)
  /\ UNCHANGED <<user, challenge, expired, history>>

(* Mutation: a failed delivery is only reported.                           *)
SendFailsAndEnds(r) ==
  /\ pc[r] = "send"
  /\ End(r)
  /\ UNCHANGED <<user, codeVars, history>>

SendFails(r) ==
  /\ pc[r] = "send"
  /\ Go(r, "cancel")
  /\ delivered' \in {delivered, delivered \union {chal[r]}}
  /\ UNCHANGED <<user, challenge, expired, req, chal, who, snap, history>>

(* cancelOtp.                                                              *)
Cancel(r) ==
  /\ pc[r] = "cancel"
  /\ challenge' = Closed({chal[r]})
  /\ End(r)
  /\ UNCHANGED <<user, expired, delivered, history>>

-----------------------------------------------------------------------------
(* verifyOtp, resetPassword: the open challenge is read; a wrong code, or  *)
(* any code after its time, is counted.                                    *)
WrongCode(r) ==
  \E c \in Issued : challenge[c].open
    /\ Begin(r, "count", On(challenge[c].phone, challenge[c].purpose), c, None)

RightCode(r) ==
  \E c \in (Issued \intersect delivered) \ expired : challenge[c].open
    /\ Begin(r, IF challenge[c].purpose = "password_reset" THEN "check" ELSE "consume",
             On(challenge[c].phone, challenge[c].purpose), c, None)

(* Mutation: a challenge that was closed meanwhile is counted on.          *)
RecordOtpFailureAnyhow(r) ==
  /\ pc[r] = "count"
  /\ challenge' = [challenge EXCEPT ![chal[r]].wrong = @ + 1,
                                    ![chal[r]].open = @ /\ challenge[chal[r]].wrong + 1 < MaxAttempts]
  /\ End(r)
  /\ UNCHANGED <<user, expired, delivered, history>>

RecordOtpFailure(r) ==
  /\ pc[r] = "count"
  /\ challenge' = IF challenge[chal[r]].open
       THEN [challenge EXCEPT ![chal[r]].wrong = @ + 1,
                              ![chal[r]].open = challenge[chal[r]].wrong + 1 < MaxAttempts]
       ELSE challenge
  /\ End(r)
  /\ UNCHANGED <<user, expired, delivered, history>>

(* Mutation: whether the UPDATE has hit its row is not looked at.          *)
ConsumedAnyhow(r, next) ==
  /\ challenge' = Closed({chal[r]})
  /\ Go(r, next)
  /\ UNCHANGED <<user, expired, delivered, req, chal, who, snap, history>>

(* consumeOtp, with the time at which the code was compared.               *)
Consumed(r, next) ==
  /\ IF challenge[chal[r]].open
       THEN /\ challenge' = Closed({chal[r]})
            /\ Go(r, next)
            /\ UNCHANGED <<req, chal, who, snap>>
       ELSE End(r) /\ UNCHANGED challenge
  /\ UNCHANGED <<user, expired, delivered, history>>

ConsumeOtp(r) == pc[r] = "consume" /\ Consumed(r, "load")

(* The account the handler goes on with, if there is one of this status.   *)
With(r, us, status, next) ==
  /\ \/ \E u \in us : user[u].status = status /\ Keep(r, chal[r], u, {})
                        /\ Go(r, next) /\ UNCHANGED req
     \/ (\A u \in us : user[u].status # status) /\ End(r)
  /\ UNCHANGED <<user, codeVars, history>>

(* Mutation: the status is left to the guard of the access token.          *)
LoadAnyhow(r) ==
  /\ pc[r] = "load"
  /\ \E u \in FindByPhone(req[r].phone) : Keep(r, chal[r], u, {})
  /\ Go(r, IF req[r].purpose = "registration" THEN "activate" ELSE "session")
  /\ UNCHANGED <<user, codeVars, req, history>>

(* verifyOtp: who has the phone now.                                       *)
Load(r) ==
  /\ pc[r] = "load"
  /\ IF req[r].purpose = "registration"
       THEN With(r, FindByPhone(req[r].phone), "pending", "activate")
       ELSE With(r, FindByPhone(req[r].phone), "active", "session")

(* activatePhone.                                                          *)
Activate(r) ==
  /\ pc[r] = "activate"
  /\ user' = [user EXCEPT ![who[r]].status = IF @ = "pending" THEN "active" ELSE @]
  /\ Go(r, "reload")
  /\ UNCHANGED <<codeVars, req, chal, who, snap, history>>

(* requireUser, or the account a social sign-up has made.                  *)
Reload(r) == pc[r] = "reload" /\ With(r, {who[r]}, "active", "session")

(* resetPassword: the account is read before the code is consumed.         *)
CheckReset(r) == pc[r] = "check" /\ With(r, FindByPhone(req[r].phone), "active", "redeem")
RedeemReset(r) == pc[r] = "redeem" /\ Consumed(r, "session")

(* markLogin, sessions.create.                                             *)
OpenSession(r) ==
  /\ pc[r] = "session"
  /\ opened' = IF chal[r] = None THEN opened ELSE [opened EXCEPT ![chal[r]] = @ + 1]
  /\ End(r)
  /\ UNCHANGED <<user, codeVars, lost>>

-----------------------------------------------------------------------------
(* socialLogin: a known identity enters; a new one needs a free address.   *)
SocialLogin(r) ==
  \E s \in Subjects, e \in Emails : LET q == [email |-> e, subject |-> s] IN
    \/ \E u \in FindBySocialIdentity(s) :
         user[u].status = "active" /\ Begin(r, "session", q, None, u)
    \/ /\ FindBySocialIdentity(s) = {} /\ FindByEmail(e) = {}
       /\ Begin(r, "link", q, None, None)

(* createSocialUser: account, identity, role and profile in a transaction. *)
CreateSocialUser(r) ==
  /\ pc[r] = "link"
  /\ IF FindByEmail(req[r].email) # {} \/ FindBySocialIdentity(req[r].subject) # {}
       THEN End(r) /\ UNCHANGED user
       ELSE \E u \in Users \ Accounts :
              /\ user' = [user EXCEPT ![u] =
                   NewUser(None, FALSE, req[r].email, req[r].subject, "active")]
              /\ Keep(r, None, u, {})
              /\ Go(r, "reload")
              /\ UNCHANGED req
  /\ UNCHANGED <<codeVars, history>>

(* completeEmailSignup (see SignupChallenge): the phone is only a contact. *)
CompleteEmailSignup ==
  /\ \E e \in Emails, p \in Phones \union {None} :
       FindByEmail(e) = {} /\ Insert(NewUser(p, FALSE, e, None, "active"))
  /\ UNCHANGED <<codeVars, reqVars, history>>

(* updateRenterProfile, as the indexes and chk_users_identity let it; any  *)
(* account may be a renter's.                                              *)
UpdateRenterProfile ==
  /\ \E u \in Accounts, p \in Phones \union {None} :
       /\ user[u].status = "active"
       /\ p # None \/ user[u].email # None
       /\ user[u].login => FindByPhone(p) \subseteq {u}
       /\ user' = [user EXCEPT ![u].phone = p]
  /\ UNCHANGED <<codeVars, reqVars, history>>

-----------------------------------------------------------------------------
(* The process dies, a statement fails or the limiter refuses; what is not *)
(* committed is undone.                                                    *)
Die(r) ==
  /\ pc[r] # "idle"
  /\ lost' = lost \union (IF pc[r] \in {"send", "cancel"} THEN {chal[r]} ELSE {})
  /\ End(r)
  /\ UNCHANGED <<user, codeVars, opened>>

Expire ==
  /\ \E c \in Issued : challenge[c].open /\ expired' = expired \union {c}
  /\ UNCHANGED <<user, challenge, delivered, reqVars, history>>

(* An administrator suspends an account.                                   *)
Suspend ==
  /\ \E u \in Accounts : user[u].status = "active" /\ user' = [user EXCEPT ![u].status = "suspended"]
  /\ UNCHANGED <<codeVars, reqVars, history>>

Next ==
  \/ \E r \in Reqs :
       \/ Register(r) \/ CreatePhoneUser(r) \/ RequestOtp(r) \/ Issue(r) \/ CloseOpen(r)
       \/ CreateChallenge(r) \/ Send(r) \/ SendFails(r) \/ Cancel(r)
       \/ WrongCode(r) \/ RightCode(r) \/ RecordOtpFailure(r) \/ ConsumeOtp(r) \/ Load(r)
       \/ Activate(r) \/ Reload(r) \/ CheckReset(r) \/ RedeemReset(r) \/ OpenSession(r)
       \/ SocialLogin(r) \/ CreateSocialUser(r) \/ Die(r)
  \/ CompleteEmailSignup \/ UpdateRenterProfile \/ Expire \/ Suspend

Spec == Init /\ [][Next]_vars
-----------------------------------------------------------------------------
(* A challenge with all its attempts used is closed, and only an open one  *)
(* counts attempts; an account is known by an address or a phone.          *)
TypeOK ==
  /\ user \in [Users -> UserRow \union {None}]
  /\ challenge \in [Challenges -> ChallengeRow \union {None}]
  /\ expired \subseteq Issued /\ delivered \subseteq Issued
  /\ lost \subseteq Issued
  /\ pc \in [Reqs -> Steps]
  /\ req \in [Reqs -> CodeRequest \union SocialRequest \union {None}]
  /\ chal \in [Reqs -> Challenges \union {None}]
  /\ who \in [Reqs -> Users \union {None}]
  /\ snap \in [Reqs -> SUBSET Challenges]
  /\ opened \in [Challenges -> Nat]
  /\ \A c \in Issued : challenge[c].wrong = MaxAttempts => ~challenge[c].open
  /\ \A u \in Accounts : user[u].email # None \/ user[u].phone # None

(* Whoever looked for an account and found none: no two accounts are made, *)
(* or changed to be, known by one address, signing phone or identity.      *)
OneAccountPerIdentity ==
  /\ \A e \in Emails : Cardinality(FindByEmail(e)) <= 1
  /\ \A s \in Subjects : Cardinality(FindBySocialIdentity(s)) <= 1
  /\ \A p \in Phones : Cardinality(FindByPhone(p)) <= 1

(* A code opens one session, however many requests have found it right.    *)
CodeOpensOneSession == \A c \in Challenges : opened[c] <= 1

(* Nobody enters an account that is not confirmed, by a code one that only *)
(* keeps the phone as a contact, or by a stranger's identity: phones change *)
(* hands while codes are on their way.                                     *)
EntersProvenAccount ==
  \A r \in Reqs : pc[r] = "session" =>
    /\ user[who[r]].status # "pending"
    /\ IF chal[r] # None THEN user[who[r]].login ELSE user[who[r]].subject = req[r].subject

(* A code that has not reached its phone is not left open, once the        *)
(* request that made it has ended, unless it has died.                     *)
UndeliveredIsClosed ==
  \A c \in Issued : challenge[c].open =>
    c \in delivered \union lost \/ \E r \in Reqs : pc[r] \in {"send", "cancel"} /\ chal[r] = c

(* A phone account becomes active only by a registration code that was     *)
(* sent to its phone, was right, and was consumed by one request alone.    *)
(* (It need not have been sent for this account: the phone may have been   *)
(* given up and registered again between consumeOtp and findByPhone.)      *)
ActivatedByCode ==
  [][\A u \in Accounts : user[u].status = "pending" /\ user'[u].status # "pending" =>
       \E c \in delivered :
         /\ challenge[c].purpose = "registration" /\ challenge[c].phone = user[u].phone
         /\ ~challenge[c].open /\ opened[c] = 0
         /\ Cardinality({r \in Reqs : chal[r] = c /\ pc[r] \in {"load", "activate"}}) = 1]_vars
=============================================================================
