-------------------------- MODULE CredentialsProofs --------------------------
(***************************************************************************)
(* Proofs about Credentials, for any number of challenges and requests.    *)
(* The invariant adds to the stated properties that a challenge is not     *)
(* both live and closed, that only a closed one has a token or has used up *)
(* its attempts, and that a request holds what its step needs.             *)
(***************************************************************************)
EXTENDS Credentials, FiniteSetTheorems, TLAPS

ChallengesOK ==
  /\ live \cap closed = {}
  /\ \A c \in Challenges \ closed : wrong[c] < MaxAttempts
  /\ \A c \in Challenges : token[c] # "none" => c \in closed

RequestsOK ==
  /\ \A r \in Reqs : pc[r] \in {"issue", "count", "reset"} => chal[r] \in Challenges
  /\ \A r \in Reqs : pc[r] \in {"store", "reset"} => new[r] \in Passwords

Inv == TypeOK /\ writes <= MaxWrites /\ ChallengesOK /\ RequestsOK

USE CredentialsAssumption

-----------------------------------------------------------------------------
(* The control variables of a request after Go.                            *)
LEMMA GoTypes ==
  ASSUME TypeOK, RequestsOK, NEW r \in Reqs, NEW step \in Steps,
         NEW c \in Challenges \cup {None}, NEW p \in Passwords \cup {None},
         NEW v \in Nat, NEW s \in SUBSET Challenges,
         step \in {"issue", "count", "reset"} => c \in Challenges,
         step \in {"store", "reset"} => p \in Passwords,
         writes' \in Nat, writes <= writes', v <= writes',
         Go(r, step, c, p, v, s)
  PROVE  /\ pc' \in [Reqs -> Steps]
         /\ chal' \in [Reqs -> Challenges \cup {None}]
         /\ new' \in [Reqs -> Passwords \cup {None}]
         /\ ver' \in [Reqs -> 0 .. writes']
         /\ snap' \in [Reqs -> SUBSET Challenges]
         /\ RequestsOK'
<1>1. pc' \in [Reqs -> Steps] /\ chal' \in [Reqs -> Challenges \cup {None}]
  BY DEF Go, TypeOK
<1>2. new' \in [Reqs -> Passwords \cup {None}] /\ snap' \in [Reqs -> SUBSET Challenges]
  BY DEF Go, TypeOK
<1>3. ver' \in [Reqs -> 0 .. writes']
  <2>1. ver \in [Reqs -> 0 .. writes']
    BY DEF TypeOK
  <2>2. v \in 0 .. writes'
    OBVIOUS
  <2> QED BY <2>1, <2>2 DEF Go
<1>4. RequestsOK'
  BY DEF Go, TypeOK, RequestsOK
<1> QED BY <1>1, <1>2, <1>3, <1>4

(* The same for a request that ends.                                       *)
LEMMA EndTypes ==
  ASSUME TypeOK, RequestsOK, NEW r \in Reqs, writes' \in Nat, writes <= writes', End(r)
  PROVE  /\ pc' \in [Reqs -> Steps]
         /\ chal' \in [Reqs -> Challenges \cup {None}]
         /\ new' \in [Reqs -> Passwords \cup {None}]
         /\ ver' \in [Reqs -> 0 .. writes']
         /\ snap' \in [Reqs -> SUBSET Challenges]
         /\ RequestsOK'
<1>1. "idle" \in Steps /\ None \in Challenges \cup {None} /\ None \in Passwords \cup {None}
  BY DEF Steps
<1>2. 0 \in Nat /\ {} \in SUBSET Challenges /\ 0 <= writes'
  OBVIOUS
<1> QED BY <1>1, <1>2, GoTypes DEF End

(* A request that arrives keeps the invariant.                             *)
LEMMA BeginInv ==
  ASSUME Inv, NEW r \in Reqs, NEW step \in Steps,
         NEW c \in Challenges \cup {None}, NEW p \in Passwords \cup {None},
         NEW s \in SUBSET Challenges,
         step \in {"issue", "count", "reset"} => c \in Challenges,
         step \in {"store", "reset"} => p \in Passwords,
         Begin(r, step, c, p, s)
  PROVE  Inv'
<1> DEFINE v == IF step = "open" THEN writes ELSE 0
<1>1. v \in Nat /\ v <= writes /\ writes' = writes
  BY DEF Begin, Inv, TypeOK, accountVars
<1>2. Go(r, step, c, p, v, s)
  BY DEF Begin
<1> HIDE DEF v
<1>3. /\ pc' \in [Reqs -> Steps]
      /\ chal' \in [Reqs -> Challenges \cup {None}]
      /\ new' \in [Reqs -> Passwords \cup {None}]
      /\ ver' \in [Reqs -> 0 .. writes']
      /\ snap' \in [Reqs -> SUBSET Challenges]
      /\ RequestsOK'
  BY <1>1, <1>2, GoTypes DEF Inv, TypeOK
<1>4. UNCHANGED <<accountVars, recoveryVars>>
  BY DEF Begin
<1> QED BY <1>3, <1>4 DEF Inv, TypeOK, ChallengesOK, accountVars, recoveryVars

LEMMA InitInv == Init => Inv
<1> SUFFICES ASSUME Init PROVE Inv
  OBVIOUS
<1>1. writes = 0 /\ resetAt = 0 /\ writes <= MaxWrites
  BY DEF Init
<1>2. wrong \in [Challenges -> 0 .. MaxAttempts] /\ ver \in [Reqs -> 0 .. writes]
  BY DEF Init
<1>3. /\ audit \in [Events -> Nat] /\ token \in [Challenges -> {"none", "valid", "used"}]
      /\ pc \in [Reqs -> Steps] /\ snap \in [Reqs -> SUBSET Challenges]
      /\ chal \in [Reqs -> Challenges \cup {None}] /\ new \in [Reqs -> Passwords \cup {None}]
  BY DEF Init, Steps
<1>4. TypeOK
  <2>1. /\ active \in BOOLEAN /\ cut \in BOOLEAN /\ password \in Passwords
        /\ live \subseteq Challenges /\ closed \subseteq Challenges /\ expired \subseteq Challenges
        /\ sessions = {}
    BY DEF Init
  <2> QED BY <1>1, <1>2, <1>3, <2>1 DEF TypeOK
<1>5. ChallengesOK
  BY DEF Init, ChallengesOK
<1>6. RequestsOK
  BY DEF Init, RequestsOK
<1> QED BY <1>1, <1>4, <1>5, <1>6 DEF Inv

-----------------------------------------------------------------------------
(* One lemma per operation that writes.                                    *)
LEMMA OpenSessionInv ==
  ASSUME Inv, NEW r \in Reqs, OpenSession(r)
  PROVE  Inv'
<1>1. writes' = writes /\ writes \in Nat
  BY DEF OpenSession, Inv, TypeOK
<1>2. /\ pc' \in [Reqs -> Steps]
      /\ chal' \in [Reqs -> Challenges \cup {None}]
      /\ new' \in [Reqs -> Passwords \cup {None}]
      /\ ver' \in [Reqs -> 0 .. writes']
      /\ snap' \in [Reqs -> SUBSET Challenges]
      /\ RequestsOK'
  BY <1>1, EndTypes DEF OpenSession, Inv
<1>3. sessions' \subseteq (0 .. writes') \X (0 .. writes')
  <2>1. ver[r] \in 0 .. writes /\ writes \in 0 .. writes
    BY <1>1 DEF Inv, TypeOK
  <2> QED BY <1>1, <2>1 DEF OpenSession, Inv, TypeOK
<1>4. UNCHANGED <<active, password, resetAt, cut, recoveryVars>>
  BY DEF OpenSession
<1> QED BY <1>1, <1>2, <1>3, <1>4 DEF Inv, TypeOK, ChallengesOK, recoveryVars

LEMMA StorePasswordInv ==
  ASSUME Inv, NEW r \in Reqs, StorePassword(r)
  PROVE  Inv'
<1>1. writes' = writes + 1 /\ writes \in Nat /\ writes' \in Nat /\ writes' <= MaxWrites
  BY DEF StorePassword, Inv, TypeOK
<1>2. Go(r, "revoke", None, None, writes', {})
  BY <1>1 DEF StorePassword
<1>3. /\ pc' \in [Reqs -> Steps]
      /\ chal' \in [Reqs -> Challenges \cup {None}]
      /\ new' \in [Reqs -> Passwords \cup {None}]
      /\ ver' \in [Reqs -> 0 .. writes']
      /\ snap' \in [Reqs -> SUBSET Challenges]
      /\ RequestsOK'
  BY <1>1, <1>2, GoTypes DEF Inv, Steps
<1>4. password' \in Passwords
  BY DEF StorePassword, Inv, RequestsOK
<1>5. resetAt' \in 0 .. writes' /\ sessions' \subseteq (0 .. writes') \X (0 .. writes')
  <2>1. resetAt' = resetAt /\ sessions' = sessions
    BY DEF StorePassword
  <2>2. resetAt \in 0 .. writes /\ 0 .. writes \subseteq 0 .. writes'
    BY <1>1 DEF Inv, TypeOK
  <2> QED BY <2>1, <2>2 DEF Inv, TypeOK
<1>6. UNCHANGED <<active, cut, recoveryVars>>
  BY DEF StorePassword
<1> QED BY <1>1, <1>3, <1>4, <1>5, <1>6 DEF Inv, TypeOK, ChallengesOK, recoveryVars

LEMMA RevokeSessionsInv ==
  ASSUME Inv, NEW r \in Reqs, RevokeSessions(r)
  PROVE  Inv'
<1>1. writes' = writes /\ writes \in Nat /\ ver[r] \in Nat /\ ver[r] <= writes
  BY DEF RevokeSessions, Inv, TypeOK
<1>2. /\ pc' \in [Reqs -> Steps]
      /\ chal' \in [Reqs -> Challenges \cup {None}]
      /\ new' \in [Reqs -> Passwords \cup {None}]
      /\ ver' \in [Reqs -> 0 .. writes']
      /\ snap' \in [Reqs -> SUBSET Challenges]
      /\ RequestsOK'
  BY <1>1, GoTypes DEF RevokeSessions, Inv, Steps
<1>3. UNCHANGED <<active, password, resetAt, recoveryVars>> /\ sessions' = {} /\ cut' = FALSE
  BY DEF RevokeSessions
<1> QED BY <1>1, <1>2, <1>3 DEF Inv, TypeOK, ChallengesOK, recoveryVars

LEMMA ReplaceChallengeInv ==
  ASSUME Inv, NEW r \in Reqs, ReplaceChallenge(r)
  PROVE  Inv'
<1>1. UNCHANGED <<accountVars, wrong, token, expired, audit>>
  BY DEF ReplaceChallenge
<1>2. /\ pc' \in [Reqs -> Steps]
      /\ chal' \in [Reqs -> Challenges \cup {None}]
      /\ new' \in [Reqs -> Passwords \cup {None}]
      /\ ver' \in [Reqs -> 0 .. writes']
      /\ snap' \in [Reqs -> SUBSET Challenges]
      /\ RequestsOK'
  BY <1>1, EndTypes DEF ReplaceChallenge, Inv, TypeOK, accountVars
<1>3. /\ live' \subseteq Challenges /\ closed' \subseteq Challenges
      /\ ChallengesOK'
  <2>1. CASE UNCHANGED <<live, closed>>
    BY <1>1, <2>1 DEF Inv, TypeOK, ChallengesOK
  <2>2. CASE ~Conflict(r) /\ \E c \in Challenges \ (live \cup closed) :
                /\ live' = (live \ snap[r]) \cup {c}
                /\ closed' = closed \cup (live \cap snap[r])
    <3>1. PICK c \in Challenges \ (live \cup closed) :
                /\ live' = {c}
                /\ closed' = closed \cup live
      BY <2>2 DEF Conflict
    <3> QED
      <4>1. live' \subseteq Challenges /\ closed' \subseteq Challenges /\ live' \cap closed' = {}
        BY <3>1 DEF Inv, TypeOK, ChallengesOK
      <4>2. \A d \in Challenges : token'[d] # "none" => d \in closed'
        BY <1>1, <3>1 DEF Inv, ChallengesOK
      <4>3. \A d \in Challenges \ closed' : wrong'[d] < MaxAttempts
        BY <1>1, <3>1 DEF Inv, ChallengesOK
      <4> QED BY <3>1, <4>1, <4>2, <4>3 DEF ChallengesOK
  <2> QED BY <2>1, <2>2 DEF ReplaceChallenge
<1> QED BY <1>1, <1>2, <1>3 DEF Inv, TypeOK, accountVars

LEMMA IssueTokenInv ==
  ASSUME Inv, NEW r \in Reqs, IssueToken(r)
  PROVE  Inv'
<1>1. UNCHANGED <<accountVars, wrong>>
  BY DEF IssueToken
<1>2. /\ pc' \in [Reqs -> Steps]
      /\ chal' \in [Reqs -> Challenges \cup {None}]
      /\ new' \in [Reqs -> Passwords \cup {None}]
      /\ ver' \in [Reqs -> 0 .. writes']
      /\ snap' \in [Reqs -> SUBSET Challenges]
      /\ RequestsOK'
  BY <1>1, EndTypes DEF IssueToken, Inv, TypeOK, accountVars
<1>3. CASE ~MayIssue(r)
  <2>1. UNCHANGED recoveryVars
    BY <1>1, <1>3 DEF IssueToken, recoveryVars
  <2> QED BY <1>1, <1>2, <2>1 DEF Inv, TypeOK, ChallengesOK, accountVars, recoveryVars
<1>4. CASE MayIssue(r)
  <2> DEFINE c == chal[r]
  <2>1. c \in live /\ c \in Challenges
    BY <1>4 DEF MayIssue, Inv, TypeOK
  <2>2. live' = live \ {c} /\ closed' = closed \cup {c} /\ expired' = expired \ {c}
    BY <1>4 DEF IssueToken
  <2>3. token' = [token EXCEPT ![c] = "valid"]
    BY <1>4 DEF IssueToken
  <2>4. audit' = [audit EXCEPT !["verified"] = @ + 1]
    BY <1>4 DEF IssueToken
  <2> HIDE DEF c
  <2>5. token' \in [Challenges -> {"none", "valid", "used"}]
    BY <2>1, <2>3 DEF Inv, TypeOK
  <2>6. audit' \in [Events -> Nat]
    BY <2>4 DEF Inv, TypeOK, Events
  <2>7. ChallengesOK'
    BY <1>1, <2>1, <2>2, <2>3 DEF Inv, TypeOK, ChallengesOK
  <2> QED BY <1>1, <1>2, <2>1, <2>2, <2>5, <2>6, <2>7 DEF Inv, TypeOK, accountVars
<1> QED BY <1>3, <1>4

LEMMA CountFailureInv ==
  ASSUME Inv, NEW r \in Reqs, CountFailure(r)
  PROVE  Inv'
<1>1. UNCHANGED <<accountVars, token, expired, audit>>
  BY DEF CountFailure
<1>2. /\ pc' \in [Reqs -> Steps]
      /\ chal' \in [Reqs -> Challenges \cup {None}]
      /\ new' \in [Reqs -> Passwords \cup {None}]
      /\ ver' \in [Reqs -> 0 .. writes']
      /\ snap' \in [Reqs -> SUBSET Challenges]
      /\ RequestsOK'
  BY <1>1, EndTypes DEF CountFailure, Inv, TypeOK, accountVars
<1>3. CASE chal[r] \notin live
  <2>1. UNCHANGED <<wrong, live, closed>>
    BY <1>3 DEF CountFailure
  <2> QED BY <1>1, <1>2, <2>1 DEF Inv, TypeOK, ChallengesOK, accountVars
<1>4. CASE chal[r] \in live
  <2> DEFINE c == chal[r]
             last == wrong[c] + 1 >= MaxAttempts
  <2>1. c \in live /\ c \in Challenges /\ c \notin closed
    BY <1>4 DEF Inv, TypeOK, ChallengesOK
  <2>2. /\ wrong' = [wrong EXCEPT ![c] = @ + 1]
        /\ live' = IF last THEN live \ {c} ELSE live
        /\ closed' = IF last THEN closed \cup {c} ELSE closed
    BY <1>4 DEF CountFailure
  <2> HIDE DEF c
  <2>3. wrong[c] \in 0 .. MaxAttempts /\ wrong[c] < MaxAttempts
    BY <2>1 DEF Inv, TypeOK, ChallengesOK
  <2>4. wrong[c] + 1 \in 0 .. MaxAttempts
    BY <2>3
  <2>5. wrong' \in [Challenges -> 0 .. MaxAttempts]
    BY <2>1, <2>2, <2>4 DEF Inv, TypeOK
  <2>6. live' \subseteq Challenges /\ closed' \subseteq Challenges /\ live' \cap closed' = {}
    BY <2>1, <2>2 DEF Inv, TypeOK, ChallengesOK
  <2>7. \A d \in Challenges \ closed' : wrong'[d] < MaxAttempts
    <3> SUFFICES ASSUME NEW d \in Challenges \ closed' PROVE wrong'[d] < MaxAttempts
      OBVIOUS
    <3>1. d \notin closed
      BY <2>2
    <3>2. CASE d = c
      <4>1. ~last
        BY <2>2, <3>2
      <4> QED BY <2>1, <2>2, <2>3, <3>2, <4>1 DEF Inv, TypeOK
    <3>3. CASE d # c
      BY <2>2, <3>1, <3>3 DEF Inv, TypeOK, ChallengesOK
    <3> QED BY <3>2, <3>3
  <2>8. \A d \in Challenges : token'[d] # "none" => d \in closed'
    BY <1>1, <2>2 DEF Inv, ChallengesOK
  <2> QED BY <1>1, <1>2, <2>5, <2>6, <2>7, <2>8 DEF Inv, TypeOK, ChallengesOK, accountVars
<1> QED BY <1>3, <1>4

LEMMA ResetPasswordInv ==
  ASSUME Inv, NEW r \in Reqs, ResetPassword(r)
  PROVE  Inv'
<1>1. UNCHANGED <<active, live, closed, wrong, expired>>
  BY DEF ResetPassword
<1>2. End(r) /\ pc[r] = "reset"
  BY DEF ResetPassword
<1>3. CASE ~MayReset(r)
  <2>1. UNCHANGED <<password, writes, token, sessions, resetAt, cut, audit>>
    BY <1>3 DEF ResetPassword
  <2>2. writes \in Nat
    BY DEF Inv, TypeOK
  <2>3. /\ pc' \in [Reqs -> Steps]
        /\ chal' \in [Reqs -> Challenges \cup {None}]
        /\ new' \in [Reqs -> Passwords \cup {None}]
        /\ ver' \in [Reqs -> 0 .. writes']
        /\ snap' \in [Reqs -> SUBSET Challenges]
        /\ RequestsOK'
    BY <1>2, <2>1, <2>2, EndTypes DEF Inv
  <2> QED BY <1>1, <2>1, <2>3 DEF Inv, TypeOK, ChallengesOK
<1>4. CASE MayReset(r)
  <2> DEFINE c == chal[r]
  <2>1. c \in Challenges /\ token[c] = "valid" /\ new[r] \in Passwords
    BY <1>2, <1>4 DEF MayReset, Inv, RequestsOK
  <2>2. /\ writes < MaxWrites
        /\ password' = new[r]
        /\ writes' = writes + 1
        /\ token' = [token EXCEPT ![c] = "used"]
        /\ sessions' = {} /\ cut' = FALSE /\ resetAt' = writes + 1
        /\ audit' = [audit EXCEPT !["reset"] = @ + 1, !["sessions_revoked"] = @ + 1]
    BY <1>4 DEF ResetPassword
  <2> HIDE DEF c
  <2>3. writes \in Nat /\ writes' \in Nat /\ writes <= writes' /\ writes' <= MaxWrites
    BY <2>2 DEF Inv, TypeOK
  <2>4. /\ pc' \in [Reqs -> Steps]
        /\ chal' \in [Reqs -> Challenges \cup {None}]
        /\ new' \in [Reqs -> Passwords \cup {None}]
        /\ ver' \in [Reqs -> 0 .. writes']
        /\ snap' \in [Reqs -> SUBSET Challenges]
        /\ RequestsOK'
    BY <1>2, <2>3, EndTypes DEF Inv
  <2>5. token' \in [Challenges -> {"none", "valid", "used"}]
    BY <2>1, <2>2 DEF Inv, TypeOK
  <2>6. audit' \in [Events -> Nat]
    BY <2>2 DEF Inv, TypeOK, Events
  <2>7. resetAt' \in 0 .. writes'
    BY <2>2, <2>3
  <2>8. ChallengesOK'
    BY <1>1, <2>1, <2>2 DEF Inv, TypeOK, ChallengesOK
  <2> QED BY <1>1, <2>1, <2>2, <2>3, <2>4, <2>5, <2>6, <2>7, <2>8 DEF Inv, TypeOK
<1> QED BY <1>3, <1>4

LEMMA AbortInv ==
  ASSUME Inv, NEW r \in Reqs, Abort(r)
  PROVE  Inv'
<1>1. UNCHANGED <<active, password, writes, sessions, resetAt, recoveryVars>>
  BY DEF Abort
<1>2. /\ pc' \in [Reqs -> Steps]
      /\ chal' \in [Reqs -> Challenges \cup {None}]
      /\ new' \in [Reqs -> Passwords \cup {None}]
      /\ ver' \in [Reqs -> 0 .. writes']
      /\ snap' \in [Reqs -> SUBSET Challenges]
      /\ RequestsOK'
  BY <1>1, EndTypes DEF Abort, Inv, TypeOK
<1>3. cut' \in BOOLEAN
  BY DEF Abort, Inv, TypeOK
<1> QED BY <1>1, <1>2, <1>3 DEF Inv, TypeOK, ChallengesOK, recoveryVars

LEMMA OtherInv ==
  ASSUME Inv, LogoutAll \/ SetStatus \/ Expire
  PROVE  Inv'
<1>1. CASE LogoutAll
  BY <1>1 DEF LogoutAll, Inv, TypeOK, ChallengesOK, RequestsOK, recoveryVars, reqVars
<1>2. CASE SetStatus
  BY <1>2 DEF SetStatus, Inv, TypeOK, ChallengesOK, RequestsOK, recoveryVars, reqVars
<1>3. CASE Expire
  <2>1. expired' \subseteq Challenges
    BY <1>3 DEF Expire, Inv, TypeOK
  <2> QED BY <1>3, <2>1 DEF Expire, Inv, TypeOK, ChallengesOK, RequestsOK, accountVars, reqVars
<1> QED BY <1>1, <1>2, <1>3
-----------------------------------------------------------------------------
(* The operations that only read, then start their write.                  *)
LEMMA ArrivalInv ==
  ASSUME Inv, NEW r \in Reqs,
         \/ Login(r) \/ ChangePassword(r) \/ PhoneReset(r) \/ RequestRecovery(r)
         \/ VerifyCode(r) \/ MissCode(r) \/ CheckToken(r)
  PROVE  /\ Inv'
         /\ UNCHANGED <<accountVars, recoveryVars>>
         /\ pc[r] = "idle"
         /\ \A q \in Reqs \ {r} : pc'[q] = pc[q]
<1>1. ASSUME NEW step \in Steps, NEW c \in Challenges \cup {None},
             NEW p \in Passwords \cup {None}, NEW s \in SUBSET Challenges,
             step \in {"issue", "count", "reset"} => c \in Challenges,
             step \in {"store", "reset"} => p \in Passwords,
             Begin(r, step, c, p, s)
      PROVE  /\ Inv'
             /\ UNCHANGED <<accountVars, recoveryVars>>
             /\ pc[r] = "idle"
             /\ \A q \in Reqs \ {r} : pc'[q] = pc[q]
  <2>1. Inv'
    BY <1>1, BeginInv
  <2> QED BY <1>1, <2>1 DEF Begin, Go, Inv, TypeOK
<1>2. live \subseteq Challenges /\ closed \subseteq Challenges /\ {} \in SUBSET Challenges
  BY DEF Inv, TypeOK
<1>3. CASE Login(r)
  BY <1>1, <1>2, <1>3 DEF Login, Steps
<1>4. CASE ChangePassword(r)
  <2> PICK p \in Passwords : Begin(r, "store", None, p, {})
    BY <1>4 DEF ChangePassword
  <2> QED BY <1>1, <1>2 DEF Steps
<1>5. CASE PhoneReset(r)
  <2> PICK p \in Passwords : Begin(r, "store", None, p, {})
    BY <1>5 DEF PhoneReset
  <2> QED BY <1>1, <1>2 DEF Steps
<1>6. CASE RequestRecovery(r)
  BY <1>1, <1>2, <1>6 DEF RequestRecovery, Steps
<1>7. CASE VerifyCode(r)
  <2> PICK c \in live \ expired : Begin(r, "issue", c, None, {})
    BY <1>7 DEF VerifyCode
  <2> QED BY <1>1, <1>2 DEF Steps
<1>8. CASE MissCode(r)
  <2> PICK c \in live : Begin(r, "count", c, None, {})
    BY <1>8 DEF MissCode
  <2> QED BY <1>1, <1>2 DEF Steps
<1>9. CASE CheckToken(r)
  <2> PICK c \in closed \ expired, p \in Passwords : Begin(r, "reset", c, p, {})
    BY <1>9 DEF CheckToken
  <2> QED BY <1>1, <1>2 DEF Steps
<1> QED BY <1>3, <1>4, <1>5, <1>6, <1>7, <1>8, <1>9

LEMMA StepInv == Inv /\ [Next]_vars => Inv'
<1> SUFFICES ASSUME Inv, [Next]_vars PROVE Inv'
  OBVIOUS
<1>1. CASE UNCHANGED vars
  BY <1>1 DEF Inv, TypeOK, ChallengesOK, RequestsOK, vars, accountVars, recoveryVars, reqVars
<1>2. CASE \E r \in Reqs : SessionStep(r) \/ RecoveryStep(r) \/ Abort(r)
  <2> PICK r \in Reqs : SessionStep(r) \/ RecoveryStep(r) \/ Abort(r)
    BY <1>2
  <2>1. CASE SessionStep(r)
    BY <2>1, ArrivalInv, OpenSessionInv, StorePasswordInv, RevokeSessionsInv DEF SessionStep
  <2>2. CASE RecoveryStep(r)
    BY <2>2, ArrivalInv, ReplaceChallengeInv, IssueTokenInv, CountFailureInv, ResetPasswordInv
       DEF RecoveryStep
  <2> QED BY <2>1, <2>2, AbortInv
<1>3. CASE LogoutAll \/ SetStatus \/ Expire
  BY <1>3, OtherInv
<1> QED BY <1>1, <1>2, <1>3 DEF Next

LEMMA Invariance == Spec => []Inv
BY InitInv, StepInv, PTL DEF Spec

(* The types hold of any number of interleaved requests.                   *)
THEOREM TypeCorrect == Spec => []TypeOK
<1>1. Inv => TypeOK
  BY DEF Inv
<1> QED BY <1>1, Invariance, PTL
-----------------------------------------------------------------------------
(* Sessions and the password: the invariant is inductive given Inv.        *)
LEMMA InitEnds == Init => SessionsEndWithPassword
BY DEF Init, SessionsEndWithPassword

LEMMA StepEnds == Inv /\ SessionsEndWithPassword /\ [Next]_vars => SessionsEndWithPassword'
<1> SUFFICES ASSUME Inv, SessionsEndWithPassword, [Next]_vars PROVE SessionsEndWithPassword'
  OBVIOUS
<1> DEFINE Midway == cut \/ \E r \in Reqs : pc[r] = "revoke"
<1>0. (\E s \in sessions : s[2] < writes) => Midway
  BY DEF SessionsEndWithPassword
<1>1. ASSUME UNCHANGED <<sessions, writes, resetAt>>, Midway => Midway'
      PROVE  SessionsEndWithPassword'
  BY <1>0, <1>1 DEF SessionsEndWithPassword
<1>2. ASSUME sessions' = {}
      PROVE  SessionsEndWithPassword'
  BY <1>2 DEF SessionsEndWithPassword
<1>3. ASSUME NEW r \in Reqs, UNCHANGED <<sessions, writes, resetAt, cut>>,
             pc[r] # "revoke", \A q \in Reqs \ {r} : pc'[q] = pc[q]
      PROVE  SessionsEndWithPassword'
  BY <1>1, <1>3
<1>4. CASE UNCHANGED vars
  BY <1>1, <1>4 DEF vars, accountVars, reqVars
<1>5. CASE \E r \in Reqs : SessionStep(r) \/ RecoveryStep(r) \/ Abort(r)
  <2> PICK r \in Reqs : SessionStep(r) \/ RecoveryStep(r) \/ Abort(r)
    BY <1>5
  <2>1. \A q \in Reqs \ {r}, step \in Steps :
          pc' = [pc EXCEPT ![r] = step] => pc'[q] = pc[q]
    BY DEF Inv, TypeOK
  <2>2. ASSUME End(r) PROVE \A q \in Reqs \ {r} : pc'[q] = pc[q]
    BY <2>1, <2>2 DEF End, Go, Steps
  <2>3. CASE \/ Login(r) \/ ChangePassword(r) \/ PhoneReset(r) \/ RequestRecovery(r)
             \/ VerifyCode(r) \/ MissCode(r) \/ CheckToken(r)
    BY <2>3, <1>3, ArrivalInv DEF accountVars
  <2>4. CASE OpenSession(r)
    <3>1. /\ UNCHANGED <<writes, resetAt, cut>> /\ pc[r] # "revoke"
          /\ sessions' = sessions \cup {<<ver[r], writes>>}
      BY <2>4 DEF OpenSession
    <3>2. \A q \in Reqs \ {r} : pc'[q] = pc[q]
      BY <2>4, <2>2 DEF OpenSession
    <3>3. Midway => Midway'
      BY <3>1, <3>2
    <3>4. writes \in Nat /\ resetAt \in 0 .. writes
      BY DEF Inv, TypeOK
    <3>5. \A s \in sessions' : s[2] >= resetAt'
      BY <3>1, <3>4 DEF SessionsEndWithPassword
    <3>6. (\E s \in sessions' : s[2] < writes') => \E s \in sessions : s[2] < writes
      BY <3>1, <3>4
    <3> QED BY <1>0, <3>3, <3>5, <3>6 DEF SessionsEndWithPassword
  <2>5. CASE StorePassword(r)
    <3>1. pc'[r] = "revoke" /\ UNCHANGED <<sessions, resetAt>>
      BY <2>5 DEF StorePassword, Go, Inv, TypeOK
    <3> QED BY <3>1 DEF SessionsEndWithPassword
  <2>6. CASE RevokeSessions(r)
    BY <2>6, <1>2 DEF RevokeSessions
  <2>7. CASE ReplaceChallenge(r)
    BY <2>7, <2>2, <1>3 DEF ReplaceChallenge, accountVars
  <2>8. CASE IssueToken(r)
    BY <2>8, <2>2, <1>3 DEF IssueToken, accountVars
  <2>9. CASE CountFailure(r)
    BY <2>9, <2>2, <1>3 DEF CountFailure, accountVars
  <2>10. CASE ResetPassword(r)
    <3>1. CASE MayReset(r)
      BY <2>10, <3>1, <1>2 DEF ResetPassword
    <3>2. CASE ~MayReset(r)
      BY <2>10, <3>2, <2>2, <1>3 DEF ResetPassword
    <3> QED BY <3>1, <3>2
  <2>11. CASE Abort(r)
    <3>1. UNCHANGED <<sessions, writes, resetAt>> /\ cut' = (cut \/ pc[r] = "revoke")
      BY <2>11 DEF Abort
    <3>2. \A q \in Reqs \ {r} : pc'[q] = pc[q]
      BY <2>11, <2>2 DEF Abort
    <3>3. Midway => Midway'
      BY <3>1, <3>2
    <3> QED BY <1>1, <3>1, <3>3
  <2> QED BY <2>3, <2>4, <2>5, <2>6, <2>7, <2>8, <2>9, <2>10, <2>11 DEF SessionStep, RecoveryStep
<1>6. CASE LogoutAll
  BY <1>6, <1>2 DEF LogoutAll
<1>7. CASE SetStatus \/ Expire
  BY <1>7, <1>1 DEF SetStatus, Expire, accountVars, reqVars
<1> QED BY <1>4, <1>5, <1>6, <1>7 DEF Next

(* However logins, changes, resets and crashes interleave, a session that  *)
(* outlives a password belongs to a login that was in flight, to a request *)
(* between its two statements, or to one that died there.                  *)
THEOREM SessionsEnd == Spec => []SessionsEndWithPassword
BY InitEnds, StepEnds, Invariance, PTL DEF Spec
-----------------------------------------------------------------------------
(* The audit trail: what a change of one token does to the two counts.     *)
Issued == {c \in Challenges : token[c] # "none"}
Used == {c \in Challenges : token[c] = "used"}

LEMMA OneMore ==
  ASSUME NEW c \in Challenges, NEW S \in SUBSET Challenges, c \notin S
  PROVE  Cardinality(S \cup {c}) = Cardinality(S) + 1 /\ Cardinality(S) \in Nat
<1>1. IsFiniteSet(S)
  BY FS_Subset
<1> QED BY <1>1, FS_AddElement, FS_CardinalityType

LEMMA InitAudit == Init => AuditMatchesTokens
<1> SUFFICES ASSUME Init PROVE AuditMatchesTokens
  OBVIOUS
<1>1. Issued = {} /\ Used = {}
  BY DEF Init, Issued, Used
<1>2. audit["verified"] = 0 /\ audit["reset"] = 0 /\ audit["sessions_revoked"] = 0
  BY DEF Init, Events
<1> QED BY <1>1, <1>2, FS_EmptySet DEF AuditMatchesTokens, Issued, Used

LEMMA StepAudit == Inv /\ AuditMatchesTokens /\ [Next]_vars => AuditMatchesTokens'
<1> SUFFICES ASSUME Inv, AuditMatchesTokens, [Next]_vars PROVE AuditMatchesTokens'
  OBVIOUS
<1>1. ASSUME UNCHANGED <<token, audit>>
      PROVE  AuditMatchesTokens'
  BY <1>1 DEF AuditMatchesTokens
<1>2. ASSUME NEW r \in Reqs, IssueToken(r), MayIssue(r)
      PROVE  AuditMatchesTokens'
  <2> DEFINE c == chal[r]
  <2>1. c \in Challenges /\ token[c] = "none"
    BY <1>2 DEF MayIssue, Inv, TypeOK, ChallengesOK
  <2>2. token' = [token EXCEPT ![c] = "valid"] /\ audit' = [audit EXCEPT !["verified"] = @ + 1]
    BY <1>2 DEF IssueToken
  <2> HIDE DEF c
  <2>3. Issued' = Issued \cup {c} /\ c \notin Issued /\ Used' = Used
    BY <2>1, <2>2 DEF Issued, Used, Inv, TypeOK
  <2>4. Cardinality(Issued') = Cardinality(Issued) + 1
    BY <2>1, <2>3, OneMore DEF Issued
  <2>5. /\ audit'["verified"] = audit["verified"] + 1
        /\ audit'["reset"] = audit["reset"]
        /\ audit'["sessions_revoked"] = audit["sessions_revoked"]
    BY <2>2 DEF Inv, TypeOK, Events
  <2> QED BY <2>3, <2>4, <2>5 DEF AuditMatchesTokens, Issued, Used
<1>3. ASSUME NEW r \in Reqs, ResetPassword(r), MayReset(r)
      PROVE  AuditMatchesTokens'
  <2> DEFINE c == chal[r]
  <2>1. c \in Challenges /\ token[c] = "valid"
    BY <1>3 DEF ResetPassword, MayReset, Inv, RequestsOK
  <2>2. /\ token' = [token EXCEPT ![c] = "used"]
        /\ audit' = [audit EXCEPT !["reset"] = @ + 1, !["sessions_revoked"] = @ + 1]
    BY <1>3 DEF ResetPassword
  <2> HIDE DEF c
  <2>3. Used' = Used \cup {c} /\ c \notin Used /\ Issued' = Issued
    BY <2>1, <2>2 DEF Issued, Used, Inv, TypeOK
  <2>4. Cardinality(Used') = Cardinality(Used) + 1
    BY <2>1, <2>3, OneMore DEF Used
  <2>5. /\ audit'["verified"] = audit["verified"]
        /\ audit'["reset"] = audit["reset"] + 1
        /\ audit'["sessions_revoked"] = audit["sessions_revoked"] + 1
    BY <2>2 DEF Inv, TypeOK, Events
  <2> QED BY <2>3, <2>4, <2>5 DEF AuditMatchesTokens, Issued, Used
<1>4. CASE UNCHANGED vars
  BY <1>4, <1>1 DEF vars, recoveryVars
<1>5. CASE \E r \in Reqs : SessionStep(r) \/ RecoveryStep(r) \/ Abort(r)
  <2> PICK r \in Reqs : SessionStep(r) \/ RecoveryStep(r) \/ Abort(r)
    BY <1>5
  <2>1. CASE IssueToken(r)
    BY <2>1, <1>1, <1>2 DEF IssueToken
  <2>2. CASE ResetPassword(r)
    BY <2>2, <1>1, <1>3 DEF ResetPassword
  <2>3. CASE \/ Login(r) \/ ChangePassword(r) \/ PhoneReset(r) \/ RequestRecovery(r)
             \/ VerifyCode(r) \/ MissCode(r) \/ CheckToken(r)
    BY <2>3, <1>1, ArrivalInv DEF recoveryVars
  <2>4. CASE OpenSession(r) \/ StorePassword(r) \/ RevokeSessions(r) \/ Abort(r)
    BY <2>4, <1>1 DEF OpenSession, StorePassword, RevokeSessions, Abort, recoveryVars
  <2>5. CASE ReplaceChallenge(r) \/ CountFailure(r)
    BY <2>5, <1>1 DEF ReplaceChallenge, CountFailure
  <2> QED BY <2>1, <2>2, <2>3, <2>4, <2>5 DEF SessionStep, RecoveryStep
<1>6. CASE LogoutAll \/ SetStatus \/ Expire
  BY <1>6, <1>1 DEF LogoutAll, SetStatus, Expire, recoveryVars
<1> QED BY <1>4, <1>5, <1>6 DEF Next

(* The rows of audit_logs that are written inside a transaction agree with *)
(* the tokens for ever: no token is issued or used twice.                  *)
THEOREM AuditAgrees == Spec => []AuditMatchesTokens
BY InitAudit, StepAudit, Invariance, PTL DEF Spec
-----------------------------------------------------------------------------
(* Refinement: every step is one step of the tickets, or none.             *)
tickets == [c \in Challenges |-> Ticket(c)]

LEMMA SameTickets ==
  ASSUME UNCHANGED <<live, closed, wrong, token, sessions>>
  PROVE  UNCHANGED <<tickets, wrong, sessions>>
BY DEF tickets, Ticket

(* The tickets after a step, when all but one keep theirs.                 *)
LEMMA OneTicket ==
  ASSUME NEW c \in Challenges, NEW how,
         Ticket(c)' = how, \A d \in Challenges \ {c} : Ticket(d)' = Ticket(d)
  PROVE  tickets' = [tickets EXCEPT ![c] = how]
BY DEF tickets

LEMMA InitTickets == Init => Promise!Init
BY DEF Init, Promise!Init, Ticket

LEMMA OpenStep ==
  ASSUME Inv, NEW r \in Reqs, ReplaceChallenge(r), ~UNCHANGED <<live, closed>>
  PROVE  Promise!Next
<1>1. UNCHANGED <<wrong, token, sessions>>
  BY DEF ReplaceChallenge, accountVars
<1>2. PICK c \in Challenges \ (live \cup closed) : live' = {c} /\ closed' = closed \cup live
  BY DEF ReplaceChallenge, Conflict
<1>3. Ticket(c) = "unused" /\ Ticket(c)' = "open"
  BY <1>1, <1>2 DEF Ticket, Inv, ChallengesOK
<1>4. ASSUME NEW d \in Challenges, d # c
      PROVE  Ticket(d)' = IF Ticket(d) = "open" THEN "shut" ELSE Ticket(d)
  BY <1>1, <1>2, <1>4 DEF Ticket, Inv, ChallengesOK
<1>5. tickets[c] = "unused" /\ UNCHANGED <<wrong, sessions>>
  BY <1>1, <1>3 DEF tickets
<1>6. tickets' = [u \in Challenges |-> IF u = c THEN "open"
                                       ELSE IF tickets[u] = "open" THEN "shut"
                                       ELSE tickets[u]]
  BY <1>3, <1>4 DEF tickets
<1>7. Promise!Open(c)
  BY <1>5, <1>6 DEF Promise!Open, tickets
<1> QED BY <1>7 DEF Promise!Next

LEMMA GrantStep ==
  ASSUME Inv, NEW r \in Reqs, IssueToken(r), MayIssue(r)
  PROVE  Promise!Next
<1>0. PICK c \in Challenges : c = chal[r]
  BY DEF MayIssue, Inv, TypeOK
<1>1. c \in Challenges /\ c \in live /\ token[c] = "none" /\ wrong[c] < MaxAttempts
  BY <1>0 DEF MayIssue, Inv, TypeOK, ChallengesOK
<1>2. UNCHANGED <<wrong, sessions>>
  BY DEF IssueToken, accountVars
<1>3. live' = live \ {c} /\ closed' = closed \cup {c} /\ token' = [token EXCEPT ![c] = "valid"]
  BY <1>0 DEF IssueToken
<1>4. Ticket(c) = "open" /\ Ticket(c)' = "granted"
  BY <1>1, <1>3 DEF Ticket, Inv, TypeOK
<1>5. \A d \in Challenges \ {c} : Ticket(d)' = Ticket(d)
  BY <1>1, <1>3 DEF Ticket, Inv, TypeOK
<1>6. tickets' = [tickets EXCEPT ![c] = "granted"] /\ tickets[c] = "open"
  BY <1>1, <1>4, <1>5, OneTicket DEF tickets
<1>7. Promise!Grant(c)
  BY <1>1, <1>2, <1>6 DEF Promise!Grant, tickets
<1> QED BY <1>1, <1>7 DEF Promise!Next

LEMMA MissStep ==
  ASSUME Inv, NEW r \in Reqs, CountFailure(r), chal[r] \in live
  PROVE  Promise!Next
<1>0. PICK c \in Challenges : c = chal[r]
  BY DEF Inv, TypeOK
<1> DEFINE last == wrong[c] + 1 >= MaxAttempts
<1>1. c \in Challenges /\ c \in live /\ token[c] = "none" /\ wrong[c] \in Nat
  BY <1>0 DEF Inv, TypeOK, ChallengesOK
<1>2. UNCHANGED <<token, sessions>>
  BY DEF CountFailure, accountVars
<1>3. /\ wrong' = [wrong EXCEPT ![c] = @ + 1]
      /\ live' = IF last THEN live \ {c} ELSE live
      /\ closed' = IF last THEN closed \cup {c} ELSE closed
  BY <1>0 DEF CountFailure
<1>4. c \notin closed /\ MaxAttempts \in Nat
  BY <1>1 DEF Inv, ChallengesOK
<1>5. Ticket(c) = "open" /\ Ticket(c)' = IF last THEN "shut" ELSE "open"
  BY <1>1, <1>2, <1>3, <1>4 DEF Ticket
<1>6. \A d \in Challenges \ {c} : Ticket(d)' = Ticket(d)
  BY <1>1, <1>2, <1>3 DEF Ticket
<1>7. tickets[c] = "open" /\ wrong'[c] = wrong[c] + 1
  BY <1>1, <1>3, <1>5 DEF tickets, Inv, TypeOK
<1>8. last = ~(wrong'[c] < MaxAttempts)
  BY <1>1, <1>4, <1>7
<1>9. tickets' = IF wrong'[c] < MaxAttempts THEN tickets ELSE [tickets EXCEPT ![c] = "shut"]
  BY <1>1, <1>5, <1>6, <1>8, OneTicket DEF tickets
<1>10. Promise!Miss(c)
  BY <1>2, <1>3, <1>7, <1>9 DEF Promise!Miss, tickets
<1> QED BY <1>1, <1>10 DEF Promise!Next

LEMMA SpendStep ==
  ASSUME Inv, NEW r \in Reqs, ResetPassword(r), MayReset(r)
  PROVE  Promise!Next
<1>0. PICK c \in Challenges : c = chal[r]
  BY DEF ResetPassword, Inv, RequestsOK
<1>1. c \in Challenges /\ token[c] = "valid"
  BY <1>0 DEF ResetPassword, MayReset, Inv, RequestsOK
<1>2. UNCHANGED <<wrong, live, closed>> /\ sessions' = {} /\ token' = [token EXCEPT ![c] = "used"]
  BY <1>0 DEF ResetPassword
<1>3. Ticket(c) = "granted" /\ Ticket(c)' = "spent"
  BY <1>1, <1>2 DEF Ticket, Inv, TypeOK
<1>4. \A d \in Challenges \ {c} : Ticket(d)' = Ticket(d)
  BY <1>1, <1>2 DEF Ticket, Inv, TypeOK
<1>5. tickets' = [tickets EXCEPT ![c] = "spent"] /\ tickets[c] = "granted"
  BY <1>1, <1>3, <1>4, OneTicket DEF tickets
<1>6. Promise!Spend(c)
  BY <1>2, <1>5 DEF Promise!Spend, tickets
<1> QED BY <1>1, <1>6 DEF Promise!Next

(* Steps that touch the sessions alone.                                    *)
LEMMA SignStep ==
  ASSUME Inv, UNCHANGED <<live, closed, wrong, token>>,
         \/ sessions' = {}
         \/ \E r \in Reqs : sessions' = sessions \cup {<<ver[r], writes>>}
  PROVE  Promise!Next
<1>1. UNCHANGED <<tickets, wrong>>
  BY DEF tickets, Ticket
<1>2. CASE sessions' = {}
  BY <1>1, <1>2 DEF Promise!Next, Promise!SignOut, tickets
<1>3. CASE \E r \in Reqs : sessions' = sessions \cup {<<ver[r], writes>>}
  <2> PICK r \in Reqs : sessions' = sessions \cup {<<ver[r], writes>>}
    BY <1>3
  <2>1. ver[r] \in 0 .. MaxWrites /\ writes \in 0 .. MaxWrites
    BY DEF Inv, TypeOK
  <2>2. <<ver[r], writes>> \in (0 .. MaxWrites) \X (0 .. MaxWrites)
    BY <2>1
  <2> QED BY <1>1, <2>2 DEF Promise!Next, Promise!SignIn, tickets
<1> QED BY <1>2, <1>3

LEMMA StepTickets ==
  Inv /\ [Next]_vars => [Promise!Next]_(Promise!ticketVars)
<1> SUFFICES ASSUME Inv, [Next]_vars PROVE [Promise!Next]_(Promise!ticketVars)
  OBVIOUS
<1>1. ASSUME UNCHANGED <<live, closed, wrong, token, sessions>>
      PROVE  UNCHANGED Promise!ticketVars
  BY <1>1, SameTickets DEF Promise!ticketVars, tickets
<1>2. CASE UNCHANGED vars
  BY <1>1, <1>2 DEF vars, accountVars, recoveryVars
<1>3. CASE \E r \in Reqs : SessionStep(r) \/ RecoveryStep(r) \/ Abort(r)
  <2> PICK r \in Reqs : SessionStep(r) \/ RecoveryStep(r) \/ Abort(r)
    BY <1>3
  <2>1. CASE \/ Login(r) \/ ChangePassword(r) \/ PhoneReset(r) \/ RequestRecovery(r)
             \/ VerifyCode(r) \/ MissCode(r) \/ CheckToken(r)
    BY <2>1, <1>1, ArrivalInv DEF accountVars, recoveryVars
  <2>2. CASE OpenSession(r) \/ RevokeSessions(r)
    BY <2>2, SignStep DEF OpenSession, RevokeSessions, recoveryVars
  <2>3. CASE StorePassword(r) \/ Abort(r)
    BY <2>3, <1>1 DEF StorePassword, Abort, recoveryVars
  <2>4. CASE ReplaceChallenge(r)
    BY <2>4, <1>1, OpenStep DEF ReplaceChallenge, accountVars
  <2>5. CASE IssueToken(r)
    <3>1. CASE ~MayIssue(r)
      BY <2>5, <3>1, <1>1 DEF IssueToken, accountVars
    <3> QED BY <2>5, <3>1, GrantStep
  <2>6. CASE CountFailure(r)
    <3>1. CASE chal[r] \notin live
      BY <2>6, <3>1, <1>1 DEF CountFailure, accountVars
    <3> QED BY <2>6, <3>1, MissStep
  <2>7. CASE ResetPassword(r)
    <3>1. CASE ~MayReset(r)
      BY <2>7, <3>1, <1>1 DEF ResetPassword
    <3> QED BY <2>7, <3>1, SpendStep
  <2> QED BY <2>1, <2>2, <2>3, <2>4, <2>5, <2>6, <2>7 DEF SessionStep, RecoveryStep
<1>4. CASE LogoutAll
  BY <1>4, SignStep DEF LogoutAll, recoveryVars
<1>5. CASE SetStatus \/ Expire
  BY <1>5, <1>1 DEF SetStatus, Expire, accountVars, recoveryVars
<1> QED BY <1>2, <1>3, <1>4, <1>5 DEF Next

(* Recovery implements its tickets: one open at a time, no token for one   *)
(* that was shut, and no token spent twice.                                *)
THEOREM Refinement == Spec => ImplementsRecoveryTickets
BY InitTickets, StepTickets, Invariance, PTL DEF Spec, ImplementsRecoveryTickets, Promise!Spec
=============================================================================
