------------------------------ MODULE Credentials ------------------------------
(***************************************************************************)
(* The password of one account, the sessions opened with it, and its       *)
(* recovery: login, changePassword, the legacy resetPassword, and the      *)
(* request, verify and reset steps of password recovery (AuthService), one *)
(* SQL statement or transaction per step.  Handlers go on with the account,*)
(* challenge and token they read while others commit.                      *)
(*                                                                         *)
(* One account, because every statement is keyed by its id or e-mail.  A   *)
(* request that is refused before it writes leaves no trace here and is no *)
(* action; the throttle buckets are the subject of RateLimiter, the family *)
(* of a session that of SessionStore, the e-mail that of EmailOutbox.  The *)
(* deadlines a handler compares are taken with one reading of the clock,   *)
(* so a code or token in time at the check is in time at the commit.  An   *)
(* insert that a revoking statement's snapshot misses is ordered after it. *)
(***************************************************************************)
EXTENDS Naturals, FiniteSets

CONSTANTS Passwords,
          Challenges,   \* challenge identifiers; a token is named by its challenge
          Reqs,         \* requests being handled at the same time
          MaxAttempts,  \* otp_challenges.max_attempts (OTP_MAX_ATTEMPTS)
          MaxWrites,    \* bound: how often the password is written
          None

ASSUME CredentialsAssumption ==
  /\ MaxAttempts \in 1 .. 10
  /\ MaxWrites \in Nat
  /\ IsFiniteSet(Challenges)
  /\ Passwords # {}
  /\ None \notin Passwords \cup Challenges

VARIABLES active,    \* status 'active' with a password: what the code calls eligible
          password,  \* the password users.password_hash was made from
          writes,    \* how often users.password_hash was written
          live,      \* challenges with consumed_at NULL
          closed,    \* challenges with consumed_at set
          wrong,     \* wrong[c]: attempt_count
          token,     \* token[c]: the reset token of c: "none", "valid" or "used"
          expired,   \* challenges whose code, then whose token, has expired
          sessions,  \* unrevoked sessions: <<writes when compared, writes when inserted>>
          audit,     \* rows of audit_logs written inside a transaction
          pc,        \* pc[r]: the statement request r sends next
          chal,      \* chal[r]: the challenge, or that of the token, at hand
          new,       \* new[r]: the password to store
          ver,       \* ver[r]: writes when r compared a password
          snap,      \* snap[r]: the challenges the replacing UPDATE saw
          resetAt,   \* history: writes at the last reset by token
          cut        \* history: a request died with the password stored, sessions not revoked

accountVars == <<active, password, writes, sessions, resetAt, cut>>
recoveryVars == <<live, closed, wrong, token, expired, audit>>
reqVars == <<pc, chal, new, ver, snap>>
vars == <<accountVars, recoveryVars, reqVars>>

Steps == {"idle", "open", "store", "revoke", "replace", "issue", "count", "reset"}

(* insertRecoveryAudit with a transaction's manager.                       *)
Events == {"verified", "reset", "sessions_revoked"}

Init ==
  /\ active = TRUE
  /\ password \in Passwords
  /\ writes = 0
  /\ live = {} /\ closed = {} /\ expired = {} /\ sessions = {}
  /\ wrong = [c \in Challenges |-> 0]
  /\ token = [c \in Challenges |-> "none"]
  /\ audit = [e \in Events |-> 0]
  /\ pc = [r \in Reqs |-> "idle"]
  /\ chal = [r \in Reqs |-> None]
  /\ new = [r \in Reqs |-> None]
  /\ ver = [r \in Reqs |-> 0]
  /\ snap = [r \in Reqs |-> {}]
  /\ resetAt = 0
  /\ cut = FALSE

Go(r, step, c, p, v, s) ==
  /\ pc'   = [pc   EXCEPT ![r] = step]
  /\ chal' = [chal EXCEPT ![r] = c]
  /\ new'  = [new  EXCEPT ![r] = p]
  /\ ver'  = [ver  EXCEPT ![r] = v]
  /\ snap' = [snap EXCEPT ![r] = s]

End(r) == Go(r, "idle", None, None, 0, {})

Begin(r, step, c, p, s) ==
  /\ pc[r] = "idle"
  /\ Go(r, step, c, p, IF step = "open" THEN writes ELSE 0, s)
  /\ UNCHANGED <<accountVars, recoveryVars>>

-----------------------------------------------------------------------------
(* login: the account is read once and its hash compared; what follows the *)
(* comparison does not look at the account again.                          *)
Login(r) == active /\ Begin(r, "open", None, None, {})

(* sessions.create: an unconditional INSERT.                               *)
OpenSession(r) ==
  /\ pc[r] = "open"
  /\ sessions' = sessions \cup {<<ver[r], writes>>}
  /\ End(r)
  /\ UNCHANGED <<active, password, writes, resetAt, cut, recoveryVars>>

(* changePassword of an actor the access-token guard let pass: the current *)
(* password was given, and the new one differs from it.                    *)
ChangePassword(r) ==
  /\ active
  /\ sessions # {}
  /\ \E p \in Passwords \ {password} : Begin(r, "store", None, p, {})

(* resetPassword: the phone code is consumed (see Accounts); the new       *)
(* password is not compared with the old one.                              *)
PhoneReset(r) ==
  /\ active
  /\ \E p \in Passwords : Begin(r, "store", None, p, {})

(* updatePassword: by id, whatever the row holds by now.                   *)
StorePassword(r) ==
  /\ pc[r] = "store"
  /\ writes < MaxWrites
  /\ password' = new[r]
  /\ writes' = writes + 1
  /\ Go(r, "revoke", None, None, writes + 1, {})
  /\ UNCHANGED <<active, sessions, resetAt, cut, recoveryVars>>

RevokeSessions(r) ==
  /\ pc[r] = "revoke"
  /\ sessions' = {}
  /\ cut' = FALSE
  /\ Go(r, "open", None, None, ver[r], {})
  /\ UNCHANGED <<active, password, writes, resetAt, recoveryVars>>

(* logoutAll is that statement alone.                                      *)
LogoutAll ==
  /\ sessions # {}
  /\ sessions' = {}
  /\ cut' = FALSE
  /\ UNCHANGED <<active, password, writes, resetAt, recoveryVars, reqVars>>
-----------------------------------------------------------------------------
(* requestPasswordRecovery outside the cooldown of a challenge it found;   *)
(* the UPDATE that consumes the address's challenge takes its snapshot.    *)
RequestRecovery(r) == Begin(r, "replace", None, None, live)

(* Mutation: the partial unique index is missing.                          *)
NoConflict(r) == FALSE

(* uq_otp_challenges_active_email: the challenge of a request that         *)
(* committed after the snapshot is active when the new one is inserted.    *)
Conflict(r) == ~(live \subseteq snap[r])

(* replacePasswordRecoveryChallenge; its unique violation is not handled.  *)
ReplaceChallenge(r) ==
  /\ pc[r] = "replace"
  /\ \/ /\ Conflict(r)
        /\ UNCHANGED <<live, closed>>
     \/ /\ ~Conflict(r)
        /\ \E c \in Challenges \ (live \cup closed) :
             /\ live' = (live \ snap[r]) \cup {c}
             /\ closed' = closed \cup (live \cap snap[r])
  /\ End(r)
  /\ UNCHANGED <<accountVars, wrong, token, expired, audit>>

(* verifyPasswordRecovery with the code of the challenge.                  *)
VerifyCode(r) ==
  /\ active
  /\ \E c \in live \ expired :
       /\ wrong[c] < MaxAttempts
       /\ Begin(r, "issue", c, None, {})

(* issuePasswordResetToken looks at the locked rows again.                 *)
MayIssue(r) == chal[r] \in live /\ wrong[chal[r]] < MaxAttempts /\ active

IssueToken(r) ==
  /\ pc[r] = "issue"
  /\ IF MayIssue(r)
       THEN /\ live' = live \ {chal[r]}
            /\ closed' = closed \cup {chal[r]}
            /\ token' = [token EXCEPT ![chal[r]] = "valid"]
            /\ expired' = expired \ {chal[r]}
            /\ audit' = [audit EXCEPT !["verified"] = @ + 1]
       ELSE UNCHANGED <<live, closed, token, expired, audit>>
  /\ End(r)
  /\ UNCHANGED <<accountVars, wrong>>

(* A wrong code, or any code while the account is not eligible.            *)
MissCode(r) ==
  \E c \in live :
    /\ wrong[c] < MaxAttempts
    /\ Begin(r, "count", c, None, {})

(* Mutation: failures are counted on a consumed challenge too.             *)
CountAlways(r) ==
  /\ pc[r] = "count"
  /\ wrong' = [wrong EXCEPT ![chal[r]] = @ + 1]
  /\ live' = IF wrong[chal[r]] + 1 >= MaxAttempts THEN live \ {chal[r]} ELSE live
  /\ closed' = IF wrong[chal[r]] + 1 >= MaxAttempts THEN closed \cup {chal[r]} ELSE closed
  /\ End(r)
  /\ UNCHANGED <<accountVars, token, expired, audit>>

(* recordOtpFailure: the last permitted failure consumes the challenge.    *)
CountFailure(r) ==
  /\ pc[r] = "count"
  /\ IF chal[r] \in live
       THEN LET last == wrong[chal[r]] + 1 >= MaxAttempts IN
            /\ wrong' = [wrong EXCEPT ![chal[r]] = @ + 1]
            /\ live' = IF last THEN live \ {chal[r]} ELSE live
            /\ closed' = IF last THEN closed \cup {chal[r]} ELSE closed
       ELSE UNCHANGED <<wrong, live, closed>>
  /\ End(r)
  /\ UNCHANGED <<accountVars, token, expired, audit>>
-----------------------------------------------------------------------------
(* completePasswordRecovery from the device the token was issued to, with  *)
(* a password that is not the current one.                                 *)
CheckToken(r) ==
  /\ active
  /\ \E c \in closed \ expired, p \in Passwords \ {password} :
       /\ token[c] = "valid"
       /\ Begin(r, "reset", c, p, {})

(* Mutation: the locked token is not looked at again.                      *)
ResetUnchecked(r) == active

(* resetPasswordWithToken looks at the locked token and the account again. *)
MayReset(r) == token[chal[r]] = "valid" /\ active

(* Mutation: sessions are left alone by the reset.                         *)
ResetKeepsSessions(r) ==
  /\ pc[r] = "reset"
  /\ IF MayReset(r)
       THEN /\ writes < MaxWrites
            /\ password' = new[r]
            /\ writes' = writes + 1
            /\ token' = [token EXCEPT ![chal[r]] = "used"]
            /\ resetAt' = writes + 1
            /\ audit' = [audit EXCEPT !["reset"] = @ + 1, !["sessions_revoked"] = @ + 1]
            /\ UNCHANGED <<sessions, cut>>
       ELSE UNCHANGED <<password, writes, token, sessions, resetAt, cut, audit>>
  /\ End(r)
  /\ UNCHANGED <<active, live, closed, wrong, expired>>

ResetPassword(r) ==
  /\ pc[r] = "reset"
  /\ IF MayReset(r)
       THEN /\ writes < MaxWrites
            /\ password' = new[r]
            /\ writes' = writes + 1
            /\ token' = [token EXCEPT ![chal[r]] = "used"]
            /\ sessions' = {}
            /\ cut' = FALSE
            /\ resetAt' = writes + 1
            /\ audit' = [audit EXCEPT !["reset"] = @ + 1, !["sessions_revoked"] = @ + 1]
       ELSE UNCHANGED <<password, writes, token, sessions, resetAt, cut, audit>>
  /\ End(r)
  /\ UNCHANGED <<active, live, closed, wrong, expired>>
-----------------------------------------------------------------------------
(* The account is suspended or restored by an administrator; no code for   *)
(* that is in the repository yet.                                          *)
SetStatus ==
  /\ active' = ~active
  /\ UNCHANGED <<password, writes, sessions, resetAt, cut, recoveryVars, reqVars>>

(* expires_at of a code or of a token passes.                              *)
Expire ==
  /\ \E c \in (live \cup {d \in closed : token[d] = "valid"}) \ expired :
       expired' = expired \cup {c}
  /\ UNCHANGED <<accountVars, live, closed, wrong, token, audit, reqVars>>

(* The process dies or a statement fails: no later statement is sent, and  *)
(* an open transaction is undone.                                          *)
Abort(r) ==
  /\ pc[r] # "idle"
  /\ cut' = (cut \/ pc[r] = "revoke")
  /\ End(r)
  /\ UNCHANGED <<active, password, writes, sessions, resetAt, recoveryVars>>

SessionStep(r) == Login(r) \/ OpenSession(r) \/ ChangePassword(r) \/ PhoneReset(r)
                    \/ StorePassword(r) \/ RevokeSessions(r)

RecoveryStep(r) == RequestRecovery(r) \/ ReplaceChallenge(r) \/ VerifyCode(r)
                     \/ IssueToken(r) \/ MissCode(r) \/ CountFailure(r)
                     \/ CheckToken(r) \/ ResetPassword(r)

Next ==
  \/ \E r \in Reqs : SessionStep(r) \/ RecoveryStep(r) \/ Abort(r)
  \/ LogoutAll \/ SetStatus \/ Expire

Spec == Init /\ [][Next]_vars
-----------------------------------------------------------------------------
TypeOK ==
  /\ active \in BOOLEAN /\ cut \in BOOLEAN
  /\ password \in Passwords
  /\ writes \in Nat /\ resetAt \in 0 .. writes
  /\ live \subseteq Challenges /\ closed \subseteq Challenges /\ expired \subseteq Challenges
  /\ wrong \in [Challenges -> 0 .. MaxAttempts]
  /\ token \in [Challenges -> {"none", "valid", "used"}]
  /\ sessions \subseteq (0 .. writes) \X (0 .. writes)
  /\ audit \in [Events -> Nat]
  /\ pc \in [Reqs -> Steps]
  /\ chal \in [Reqs -> Challenges \cup {None}]
  /\ new \in [Reqs -> Passwords \cup {None}]
  /\ ver \in [Reqs -> 0 .. writes]
  /\ snap \in [Reqs -> SUBSET Challenges]

(* The audit trail tells how recovery was used: as many "verified" rows as *)
(* tokens, and one "reset" and one "sessions_revoked" row for every token  *)
(* used, so that no token resets twice however its requests interleave.    *)
AuditMatchesTokens ==
  /\ audit["verified"] = Cardinality({c \in Challenges : token[c] # "none"})
  /\ audit["reset"] = Cardinality({c \in Challenges : token[c] = "used"})
  /\ audit["sessions_revoked"] = audit["reset"]

(* Sessions inserted before the password they were opened with was changed *)
(* are revoked: by a reset in the same transaction, by the other two ways  *)
(* unless the request is still at its second statement or died before it.  *)
(* A session of a login in flight is inserted after the change, and stays. *)
SessionsEndWithPassword ==
  /\ \A s \in sessions : s[2] >= resetAt
  /\ (\E s \in sessions : s[2] < writes) => cut \/ \E r \in Reqs : pc[r] = "revoke"

(* A challenge of the recovery, with its token, is one ticket.             *)
Ticket(c) ==
  IF token[c] = "used" THEN "spent"
  ELSE IF token[c] = "valid" THEN "granted"
  ELSE IF c \in live THEN "open"
  ELSE IF c \in closed THEN "shut"
  ELSE "unused"

Promise == INSTANCE RecoveryTickets WITH
  Tickets <- Challenges, MaxMisses <- MaxAttempts,
  Sessions <- (0 .. MaxWrites) \X (0 .. MaxWrites),
  ticket <- [c \in Challenges |-> Ticket(c)], misses <- wrong

(* Requests, wrong and right codes, and resets that interleave never give  *)
(* an address two open challenges, a challenge that was shut a token, or a *)
(* token a second use.                                                     *)
ImplementsRecoveryTickets == Promise!Spec
=============================================================================
