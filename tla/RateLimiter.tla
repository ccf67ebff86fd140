----------------------------- MODULE RateLimiter -----------------------------
(***************************************************************************)
(* One row of auth_throttle_buckets and the requests that ask it, count    *)
(* into it and clear it: RateLimiterService over the statements of the     *)
(* repository.  A request has several buckets (an address, an IP, a        *)
(* device); they are separate rows in separate transactions, so one of     *)
(* them is followed and the others may refuse the request at any time.     *)
(*                                                                         *)
(* Times are kept relative to the clock: the age of the window, what is    *)
(* left of the block, and for each request how long ago it took the        *)
(* reading `now` that all its statements use.  The clock may wait for a    *)
(* request, so that none is older than MaxDelay.                           *)
(***************************************************************************)
EXTENDS Integers, FiniteSets

CONSTANTS Reqs,         \* requests being handled at the same time
          Env,          \* the limits and durations of configuration()
          QuarterHour,  \* fifteen minutes in units of the clock
          MaxDelay,     \* bound: the longest a request runs
          Watched       \* the scopes of which the bucket may be one

-----------------------------------------------------------------------------
(* The keys of each kind of request: scope -> policy.                      *)
Policy(limit, window, block) == [limit |-> limit, window |-> window, block |-> block]

LoginKeys ==
  LET P(limit) == Policy(limit, Env.loginWindow, Env.loginLock) IN
  [login_email  |-> P(Env.loginFailureLimit),
   login_ip     |-> P(Env.loginAbuseLimit),
   login_device |-> P(Env.loginAbuseLimit)]

OtpRequestKeys ==
  LET P(limit) == Policy(limit, 4 * QuarterHour, 4 * QuarterHour) IN
  [otp_request_email  |-> P(Env.otpRequestLimitPerHour),
   otp_request_ip     |-> P(Env.otpIpLimitPerHour),
   otp_request_device |-> P(Env.otpDeviceLimitPerHour)]

PasswordRecoveryRequestKeys ==
  LET P(limit) == Policy(limit, Env.recoveryIpWindow, Env.recoveryIpWindow) IN
  [password_recovery_email  |-> Policy(Env.recoveryEmailLimit, Env.recoveryEmailWindow,
                                       Env.recoveryEmailWindow),
   password_recovery_ip     |-> P(Env.recoveryIpLimit),
   password_recovery_device |-> P(Env.recoveryDeviceLimit)]

OtpVerifyKeys ==
  [s \in {"otp_verify_email", "otp_verify_ip", "otp_verify_device"} |->
     Policy(10, QuarterHour, QuarterHour)]

LegacyOtpRequestKeys ==
  [otp_request_phone |-> Policy(3, QuarterHour, QuarterHour),
   otp_request_ip    |-> Policy(20, 4 * QuarterHour, 4 * QuarterHour)]

LegacyOtpVerifyKeys ==
  [s \in {"otp_verify_phone", "otp_verify_ip"} |-> Policy(10, QuarterHour, QuarterHour)]

Keys == [login        |-> LoginKeys,
         signup       |-> OtpRequestKeys,
         recovery     |-> PasswordRecoveryRequestKeys,
         verify       |-> OtpVerifyKeys,
         phone        |-> LegacyOtpRequestKeys,
         phone_verify |-> LegacyOtpVerifyKeys]

Kinds(s) == {k \in DOMAIN Keys : s \in DOMAIN Keys[k]}

(* Kinds that count wrong answers and clear the bucket for a right one;    *)
(* the others count every request.                                         *)
Guesses == {"login", "verify", "phone_verify"}

(* A request runs for no more than half the time of a block (60 s or more).*)
ASSUME RateLimiterAssumption ==
  /\ IsFiniteSet(Reqs)
  /\ MaxDelay \in Nat
  /\ \A s \in Watched : Kinds(s) # {}
  /\ \A s \in Watched : \A k \in Kinds(s) :
       /\ Keys[k][s].limit \in Nat \ {0}
       /\ Keys[k][s].window \in Nat \ {0}
       /\ Keys[k][s].block \in Nat
       /\ Keys[k][s].block >= 2 * MaxDelay /\ Keys[k][s].block > 0

VARIABLES scope,    \* the scope of the bucket
          present,  \* the row exists
          age,      \* now - window_started_at
          count,    \* attempt_count
          block,    \* blocked_until - now, Past when NULL
          pc,       \* pc[r]: the statement request r sends next
          kind,     \* kind[r]: what r asks for
          late      \* late[r]: now - the reading of the clock r works with

bucketVars == <<present, age, count, block>>
reqVars == <<pc, kind, late>>
vars == <<scope, bucketVars, reqVars>>

Past == -MaxDelay

(* No request tells older windows apart, or earlier blocks.                *)
MaxAge ==
  LET windows == {Keys[k][scope].window : k \in Kinds(scope)}
  IN  MaxDelay + (CHOOSE w \in windows : \A v \in windows : v <= w)

(* The highest limit of a request that counts into the bucket.             *)
MaxLimit ==
  LET limits == {Keys[k][scope].limit : k \in Kinds(scope)}
  IN  CHOOSE n \in limits : \A m \in limits : m <= n

Mine(r) == Keys[kind[r]][scope]

Init ==
  /\ scope \in Watched
  /\ present = FALSE /\ age = 0 /\ count = 0 /\ block = Past
  /\ pc = [r \in Reqs |-> "idle"]
  /\ kind = [r \in Reqs |-> "login"]
  /\ late = [r \in Reqs |-> 0]

Go(r, step) == pc' = [pc EXCEPT ![r] = step] /\ UNCHANGED <<kind, late>>

End(r) ==
  /\ pc' = [pc EXCEPT ![r] = "idle"]
  /\ kind' = [kind EXCEPT ![r] = "login"]
  /\ late' = [late EXCEPT ![r] = 0]

(* A handler reads the clock once.                                         *)
Arrive(r) ==
  /\ pc[r] = "idle"
  /\ \E k \in Kinds(scope) : kind' = [kind EXCEPT ![r] = k]
  /\ pc' = [pc EXCEPT ![r] = "ask"]
  /\ UNCHANGED <<scope, bucketVars, late>>

(* Mutation: what is left of a block is not looked at.                     *)
AlwaysAllowed(r) == FALSE

(* blocked_until > at.                                                     *)
Refused(r) == present /\ block + late[r] > 0

(* Mutation: a refused attempt renews the block.                           *)
RenewBlock(r) ==
  /\ pc[r] = "ask"
  /\ IF Refused(r) THEN End(r) ELSE Go(r, "work")
  /\ block' = IF Refused(r) THEN Mine(r).block - late[r] ELSE block
  /\ UNCHANGED <<scope, present, age, count>>

(* assertAllowed: a refusal leaves no trace.                               *)
Ask(r) ==
  /\ pc[r] = "ask"
  /\ IF Refused(r) THEN End(r) ELSE Go(r, "work")
  /\ UNCHANGED <<scope, bucketVars>>

(* Another bucket refuses, the answer is neither right nor wrong (the code *)
(* was used meanwhile), or the request fails.                              *)
Leave(r) ==
  /\ pc[r] # "idle"
  /\ End(r)
  /\ UNCHANGED <<scope, bucketVars>>

(* Mutation: only the failure that reaches the limit blocks.               *)
BlockAtLimit(r, n) == IF n = Mine(r).limit THEN Mine(r).block - late[r] ELSE Past

BlockFor(r, n) == IF n >= Mine(r).limit THEN Mine(r).block - late[r] ELSE Past

(* Mutation: the row is inserted in a transaction of its own.              *)
InsertAlone(r) ==
  /\ pc[r] = "work"
  /\ ~present
  /\ present' = TRUE
  /\ age' = late[r]
  /\ Go(r, "count")
  /\ UNCHANGED <<scope, count, block>>

(* recordThrottleFailure finds no row: it is inserted and counted in one   *)
(* transaction.                                                            *)
Insert(r) ==
  /\ pc[r] = "work"
  /\ ~present
  /\ present' = TRUE
  /\ age' = late[r]
  /\ count' = 1
  /\ block' = BlockFor(r, 1)
  /\ End(r)
  /\ UNCHANGED scope

(* INSERT ... ON CONFLICT DO NOTHING leaves the row as it is, unlocked.    *)
Ensure(r) ==
  /\ pc[r] = "work"
  /\ present
  /\ Go(r, "count")
  /\ UNCHANGED <<scope, bucketVars>>

WindowExpired(r) == age - late[r] >= Mine(r).window

(* SELECT ... FOR UPDATE and the UPDATE; the request fails when the row    *)
(* was deleted in between.                                                 *)
CountFailure(r) ==
  /\ pc[r] = "count"
  /\ IF present
       THEN LET n == IF WindowExpired(r) THEN 1 ELSE count + 1 IN
            /\ count' = n
            /\ age' = IF WindowExpired(r) THEN late[r] ELSE age
            /\ block' = BlockFor(r, n)
       ELSE UNCHANGED <<age, count, block>>
  /\ End(r)
  /\ UNCHANGED <<scope, present>>

(* clear: a right answer deletes the row, whatever it holds by now.        *)
Clear(r) ==
  /\ pc[r] = "work"
  /\ kind[r] \in Guesses
  /\ present' = FALSE /\ age' = 0 /\ count' = 0 /\ block' = Past
  /\ End(r)
  /\ UNCHANGED scope

Tick ==
  /\ \A r \in Reqs : pc[r] # "idle" => late[r] < MaxDelay
  /\ late' = [r \in Reqs |-> IF pc[r] = "idle" THEN 0 ELSE late[r] + 1]
  /\ age' = IF present /\ age < MaxAge THEN age + 1 ELSE age
  /\ block' = IF present /\ block > Past THEN block - 1 ELSE block
  /\ UNCHANGED <<scope, present, count, pc, kind>>

Finish(r) == Insert(r) \/ Ensure(r) \/ CountFailure(r) \/ Clear(r)

Next ==
  \/ Tick
  \/ \E r \in Reqs : Arrive(r) \/ Ask(r) \/ Leave(r) \/ Finish(r)

Spec == Init /\ [][Next]_vars

(* Time passes, and statements and handlers end: PostgreSQL and the event  *)
(* loop give every waiting request its turn.                               *)
Fairness == WF_vars(Tick) /\ \A r \in Reqs : WF_vars(Ask(r)) /\ WF_vars(Finish(r))

FairSpec == Spec /\ Fairness
-----------------------------------------------------------------------------
TypeOK ==
  /\ scope \in Watched
  /\ present \in BOOLEAN
  /\ age \in Nat /\ block \in Int
  /\ IF present THEN count \in Nat \ {0} ELSE count = 0
  /\ pc \in [Reqs -> {"idle", "ask", "work", "count"}]
  /\ kind \in [Reqs -> DOMAIN Keys]
  /\ \A r \in Reqs : pc[r] # "idle" => kind[r] \in Kinds(scope)
  /\ late \in [Reqs -> 0 .. MaxDelay]

Blocked == present /\ block > 0

(* Requests that are allowed together count together, and the one that     *)
(* began first ends the block early, so that a second group is allowed in  *)
(* the same window: where no block is shorter than a window (login can be  *)
(* configured otherwise), no third group is.                               *)
BlocksOutlastWindows ==
  \A k, l \in Kinds(scope) : Keys[k][scope].window <= Keys[l][scope].block

ExcessBounded ==
  BlocksOutlastWindows => count <= MaxLimit - 1 + 2 * Cardinality(Reqs)

(* A block ends with its time or a right answer.  A failure recorded late  *)
(* ends it only by beginning a new window, or when its own limit for the   *)
(* bucket is higher than what was counted.                                 *)
BlockKept ==
  [][Blocked /\ ~Blocked' =>
       \/ block' = block - 1
       \/ ~present'
       \/ count' = 1
       \/ \E k \in Kinds(scope) : count' < Keys[k][scope].limit]_vars

(* Refused attempts do not prolong a block: however often they are made,   *)
(* it ends.                                                                *)
LockEnds == Blocked ~> ~Blocked
=============================================================================
