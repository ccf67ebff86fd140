--------------------------- MODULE SignupChallenge ---------------------------
(***************************************************************************)
(* Sign-up by e-mail: the rows of otp_challenges with purpose              *)
(* 'registration', the accounts, and the three handlers of AuthService     *)
(* (requestSignupOtp, verifySignupOtp, completeSignup) one SQL statement   *)
(* per step.  Each handler decides on a challenge it read before, and      *)
(* compares deadlines with a clock it read when it began, while other      *)
(* requests change the row.                                                *)
(*                                                                         *)
(* The transactions of replaceRegistrationChallenge and completeEmailSignup*)
(* lock every row they have looked at, so all they do happens at their     *)
(* commit; only the snapshot of the replacing UPDATE is older, and is a    *)
(* step of its own.                                                        *)
(***************************************************************************)
EXTENDS Naturals, FiniteSets

CONSTANTS Emails,       \* normalized addresses
          Attempts,     \* challenge identifiers (randomUUID)
          Reqs,         \* requests being handled at the same time
          MaxAttempts,  \* otp_challenges.max_attempts (5 in the code)
          Social,       \* an account made by a social login
          None

ASSUME SignupAssumption ==
  /\ MaxAttempts \in Nat \ {0}
  /\ None \notin Emails \cup Attempts \cup Reqs \cup {Social}
  /\ Social \notin Attempts

VARIABLES address,   \* address[a]: the row's e-mail, None when there is no row
          wrong,     \* wrong[a]: attempt_count
          verified,  \* rows with verified_at
          consumed,  \* rows with consumed_at
          account,   \* account[e]: the attempt that made the account of e
          expired,   \* rows whose expires_at has passed
          cooled,    \* rows created 60 seconds ago or more
          pc,        \* pc[r]: the statement request r sends next
          mail,      \* mail[r]: the address of the request
          att,       \* att[r]: attemptId or previousAttemptId, then the challenge at hand
          right,     \* right[r]: the code is that of att[r]
          past,      \* past[r]: challenges whose deadline had passed when r read the clock
          snap       \* snap[r]: the challenges the replacing UPDATE saw

rowVars == <<address, wrong, verified, consumed, account>>
clocks  == <<expired, cooled>>
reqVars == <<pc, mail, att, right, past, snap>>
vars    == <<rowVars, clocks, reqVars>>

Steps == {"idle", "current", "user", "begin", "replace", "lost",
          "verify", "count", "mark", "hash", "create"}

Rows == {a \in Attempts : address[a] # None}

(* findOtpChallenge: unconsumed, expired or not.                           *)
Active(e) == {a \in Rows : address[a] = e /\ a \notin consumed}

Init ==
  /\ address  = [a \in Attempts |-> None]
  /\ wrong    = [a \in Attempts |-> 0]
  /\ verified = {}
  /\ consumed = {}
  /\ account  = [e \in Emails |-> None]
  /\ expired  = {}
  /\ cooled   = {}
  /\ pc       = [r \in Reqs |-> "idle"]
  /\ mail     = [r \in Reqs |-> None]
  /\ att      = [r \in Reqs |-> None]
  /\ right    = [r \in Reqs |-> FALSE]
  /\ past     = [r \in Reqs |-> {}]
  /\ snap     = [r \in Reqs |-> {}]

Begin(r, e, a, code, deadlines, step) ==
  /\ pc[r] = "idle"
  /\ pc'    = [pc    EXCEPT ![r] = step]
  /\ mail'  = [mail  EXCEPT ![r] = e]
  /\ att'   = [att   EXCEPT ![r] = a]
  /\ right' = [right EXCEPT ![r] = code]
  /\ past'  = [past  EXCEPT ![r] = deadlines \cap Active(e)]
  /\ UNCHANGED <<rowVars, clocks, snap>>

(* The request goes on with challenge a; the code is not asked for again.  *)
GoOn(r, step, a, deadlines) ==
  /\ pc'    = [pc    EXCEPT ![r] = step]
  /\ att'   = [att   EXCEPT ![r] = a]
  /\ right' = [right EXCEPT ![r] = FALSE]
  /\ past'  = [past  EXCEPT ![r] = deadlines]
  /\ UNCHANGED <<mail, snap>>

(* The request is answered, with success or an error.                      *)
End(r) ==
  /\ pc'    = [pc    EXCEPT ![r] = "idle"]
  /\ mail'  = [mail  EXCEPT ![r] = None]
  /\ att'   = [att   EXCEPT ![r] = None]
  /\ right' = [right EXCEPT ![r] = FALSE]
  /\ past'  = [past  EXCEPT ![r] = {}]
  /\ snap'  = [snap  EXCEPT ![r] = {}]

-----------------------------------------------------------------------------
(* requestSignupOtp.  A client that changes the address names the attempt  *)
(* it was given before.                                                    *)
RequestSignupOtp(r) ==
  \E e \in Emails, previous \in Rows \cup {None} :
    Begin(r, e, previous, FALSE, cooled, "current")

(* A challenge younger than the cooldown answers the request.              *)
ReadCurrent(r) ==
  /\ pc[r] = "current"
  /\ IF Active(mail[r]) \subseteq past[r]
       THEN GoOn(r, "user", att[r], {})
       ELSE End(r)
  /\ UNCHANGED <<rowVars, clocks>>

(* An address with an account is answered with an attempt that is no row.  *)
ReadUser(r) ==
  /\ pc[r] = "user"
  /\ IF account[mail[r]] = None
       THEN GoOn(r, "begin", att[r], {})
       ELSE End(r)
  /\ UNCHANGED <<rowVars, clocks>>

(* The attempt given up is locked first, and another transaction that gives*)
(* it up as well has to wait for the row.                                  *)
Waits(r) ==
  \E q \in Reqs \ {r} :
    pc[q] = "replace" /\ att[q] = att[r] /\ att[r] \in Rows \ consumed

(* The UPDATE that consumes the address's challenge takes its snapshot.    *)
BeginReplace(r) ==
  /\ pc[r] = "begin"
  /\ ~Waits(r)
  /\ pc' = [pc EXCEPT ![r] = "replace"]
  /\ snap' = [snap EXCEPT ![r] = Active(mail[r])]
  /\ UNCHANGED <<rowVars, clocks, mail, att, right, past>>

Replaced(r) == {a \in Rows : a \in snap[r] \/ a = att[r]}

(* Mutation: the partial unique index is missing.                          *)
NoConflict(r) == FALSE

(* uq_otp_challenges_active_email: a challenge that was committed after    *)
(* the snapshot is still active when the new one is inserted.              *)
Conflict(r) == ~(Active(mail[r]) \subseteq Replaced(r))

CommitReplace(r) ==
  /\ pc[r] = "replace"
  /\ ~Conflict(r)
  /\ \E x \in Attempts \ Rows :
       /\ address' = [address EXCEPT ![x] = mail[r]]
       /\ consumed' = consumed \cup Replaced(r)
  /\ End(r)
  /\ UNCHANGED <<wrong, verified, account, clocks>>

(* The transaction is rolled back, and the handler looks again: it answers *)
(* with the winner's challenge or, if that is consumed by now, fails.      *)
LoseReplace(r) ==
  /\ pc[r] = "replace"
  /\ Conflict(r)
  /\ pc' = [pc EXCEPT ![r] = "lost"]
  /\ UNCHANGED <<rowVars, clocks, mail, att, right, past, snap>>

ReadConcurrent(r) ==
  /\ pc[r] = "lost"
  /\ End(r)
  /\ UNCHANGED <<rowVars, clocks>>

-----------------------------------------------------------------------------
(* verifySignupOtp.  An attempt of another address is refused like an old  *)
(* one of this address.                                                    *)
VerifySignupOtp(r) ==
  \E a \in Rows, code \in BOOLEAN :
    Begin(r, address[a], a, code, expired, "verify")

(* The checks made before the code is compared.                            *)
Comparable(r, a) ==
  /\ a = att[r]
  /\ a \notin verified \cup past[r]
  /\ wrong[a] < MaxAttempts

(* The challenge is read and the code compared; a refusal is counted       *)
(* against the address's challenge, whichever attempt the request named.   *)
ReadForVerify(r) ==
  /\ pc[r] = "verify"
  /\ \/ Active(mail[r]) = {} /\ End(r)
     \/ \E a \in Active(mail[r]) :
          \/ Comparable(r, a) /\ right[r] /\ GoOn(r, "mark", a, past[r])
          \/ /\ ~(Comparable(r, a) /\ right[r])
             /\ IF wrong[a] < MaxAttempts /\ a \notin verified
                  THEN GoOn(r, "count", a, {})
                  ELSE End(r)
  /\ UNCHANGED <<rowVars, clocks>>

(* Mutation: the last attempt is not the one that closes the challenge.    *)
ExhaustedLater(a) == wrong[a] + 1 > MaxAttempts

Exhausted(a) == wrong[a] + 1 >= MaxAttempts

(* recordOtpFailure.                                                       *)
CountFailure(r) ==
  /\ pc[r] = "count"
  /\ IF att[r] \in consumed
       THEN UNCHANGED <<wrong, consumed>>
       ELSE /\ wrong' = [wrong EXCEPT ![att[r]] = @ + 1]
            /\ consumed' = IF Exhausted(att[r]) THEN consumed \cup {att[r]} ELSE consumed
  /\ End(r)
  /\ UNCHANGED <<address, verified, account, clocks>>

(* markOtpVerified.                                                        *)
Markable(r) ==
  /\ att[r] \notin consumed \cup verified \cup past[r]
  /\ wrong[att[r]] < MaxAttempts

MarkVerified(r) ==
  /\ pc[r] = "mark"
  /\ verified' = IF Markable(r) THEN verified \cup {att[r]} ELSE verified
  /\ End(r)
  /\ UNCHANGED <<address, wrong, consumed, account, clocks>>

-----------------------------------------------------------------------------
(* completeSignup.  It reads no clock before the challenge, so arriving    *)
(* and reading are one step; a request refused here changes nothing.       *)
CompleteSignup(r) ==
  \E e \in Emails :
    \E a \in Active(e) \cap verified : Begin(r, e, a, FALSE, {}, "hash")

(* The password is hashed; completedAt is read after that.                 *)
HashPassword(r) ==
  /\ pc[r] = "hash"
  /\ GoOn(r, "create", att[r], expired \cap {att[r]})
  /\ UNCHANGED <<rowVars, clocks>>

(* Mutation: the transaction does not ask whether the challenge was        *)
(* consumed since the handler read it.                                     *)
CompletableOnce(r) == att[r] \in verified \ past[r]

Completable(r) == att[r] \in (verified \ consumed) \ past[r]

(* completeEmailSignup: the row is locked and checked, the account is      *)
(* inserted (uq_users_email_normalized) and the challenge consumed, or all *)
(* of it is rolled back.                                                   *)
CreateAccount(r) ==
  /\ pc[r] = "create"
  /\ IF Completable(r) /\ account[mail[r]] = None
       THEN /\ account'  = [account EXCEPT ![mail[r]] = att[r]]
            /\ consumed' = consumed \cup {att[r]}
       ELSE UNCHANGED <<account, consumed>>
  /\ End(r)
  /\ UNCHANGED <<address, wrong, verified, clocks>>

-----------------------------------------------------------------------------
(* A limit, a failed statement, a deadlock or the loss of the process ends *)
(* a request between two statements; its open transaction is rolled back.  *)
Fail(r) ==
  /\ pc[r] # "idle"
  /\ End(r)
  /\ UNCHANGED <<rowVars, clocks>>

(* createSocialUser: an account without a challenge.                       *)
SocialSignup(e) ==
  /\ account[e] = None
  /\ account' = [account EXCEPT ![e] = Social]
  /\ UNCHANGED <<address, wrong, verified, consumed, clocks, reqVars>>

(* One minute, then ten, pass since a challenge was created.  Nothing asks *)
(* for the age of a consumed one.                                          *)
Cool(a) ==
  /\ a \in Rows \ (cooled \cup consumed)
  /\ cooled' = cooled \cup {a}
  /\ UNCHANGED <<rowVars, expired, reqVars>>

Expire(a) ==
  /\ a \in cooled \ (expired \cup consumed)
  /\ expired' = expired \cup {a}
  /\ UNCHANGED <<rowVars, cooled, reqVars>>

Handle(r) ==
  \/ RequestSignupOtp(r) \/ ReadCurrent(r) \/ ReadUser(r) \/ BeginReplace(r)
  \/ CommitReplace(r) \/ LoseReplace(r) \/ ReadConcurrent(r)
  \/ VerifySignupOtp(r) \/ ReadForVerify(r) \/ CountFailure(r) \/ MarkVerified(r)
  \/ CompleteSignup(r) \/ HashPassword(r) \/ CreateAccount(r)
  \/ Fail(r)

Next ==
  \/ \E r \in Reqs : Handle(r)
  \/ \E e \in Emails : SocialSignup(e)
  \/ \E a \in Attempts : Cool(a) \/ Expire(a)

Spec == Init /\ [][Next]_vars

-----------------------------------------------------------------------------
TypeOK ==
  /\ address  \in [Attempts -> Emails \cup {None}]
  /\ wrong    \in [Attempts -> 0..MaxAttempts]
  /\ verified \in SUBSET Attempts
  /\ consumed \in SUBSET Attempts
  /\ account  \in [Emails -> Attempts \cup {None, Social}]
  /\ expired  \in SUBSET Attempts
  /\ cooled   \in SUBSET Attempts
  /\ pc       \in [Reqs -> Steps]
  /\ mail     \in [Reqs -> Emails \cup {None}]
  /\ att      \in [Reqs -> Attempts \cup {None}]
  /\ right    \in [Reqs -> BOOLEAN]
  /\ past     \in [Reqs -> SUBSET Attempts]
  /\ snap     \in [Reqs -> SUBSET Attempts]

(* However requests for an address race, it has one active challenge at    *)
(* most: the one whose code is in the latest e-mail.                       *)
OneActive ==
  \A a, b \in Rows \ consumed : address[a] = address[b] => a = b

(* The rows behave like the abstract attempts: a closed attempt stays      *)
(* closed, and each account comes from one confirmed attempt of its own    *)
(* address, however the handlers interleave.                               *)
SignupPhase(a) ==
  IF a \notin Rows THEN "unused"
  ELSE IF a \in consumed THEN IF account[address[a]] = a THEN "used" ELSE "closed"
  ELSE IF a \in verified THEN "confirmed" ELSE "open"

Signups == INSTANCE SignupAttempts WITH phase <- [a \in Attempts |-> SignupPhase(a)]

ImplementsSignupAttempts == Signups!Spec
=============================================================================
