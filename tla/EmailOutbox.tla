----------------------------- MODULE EmailOutbox -----------------------------
(***************************************************************************)
(* The rows of outbox_events that carry one-time codes, and the instances  *)
(* of PasswordRecoveryOutboxService that deliver them.  Every challenge    *)
(* has exactly one job, so a job's number stands for both; jobs are        *)
(* numbered in the order of created_at.                                    *)
(*                                                                         *)
(* A worker claims due jobs with a lease: locked_at and a random           *)
(* lock_token.  It then looks at the challenge, calls the e-mail provider  *)
(* and records the result in the row only if its token is still there.     *)
(* Nothing of this is one transaction: a worker may die, stall beyond the  *)
(* two minutes of its lease, or be overtaken by the request that           *)
(* supersedes the job, between any two steps.                              *)
(***************************************************************************)
EXTENDS Naturals, FiniteSets

CONSTANTS MaxJob,       \* bound: jobs ever posted
          Workers,      \* processes with the consumer enabled
          Tokens,       \* lock tokens (randomUUID), one per drain in flight
          Batch,        \* LIMIT of the claiming query (10 in the code)
          MaxFailures,  \* bound: crashes and failed statements
          None

Jobs == 1..MaxJob

ASSUME OutboxAssumption ==
  /\ MaxJob \in Nat /\ Batch \in Nat \ {0} /\ MaxFailures \in Nat
  /\ None \notin Workers \cup Tokens

VARIABLES posted,      \* posted[j]: the row and its challenge exist
          open,        \* open[j]: challenge unconsumed, unverified, unexpired
          published,   \* published[j]: "no", or last_error with published_at set
          superseded,  \* superseded[j]: superseded_at IS NOT NULL
          due,         \* due[j]: next_attempt_at <= now()
          holder,      \* holder[j]: lock_token
          lapsed,      \* lapsed[j]: locked_at is more than two minutes ago
          drainer,     \* drainer[t]: the worker whose drain drew token t
          stage,       \* stage[t][j]: how far that drain is with job j
          awaiting,    \* awaiting[w]: the drain w's running flag stands for
          mails,       \* mails[j]: e-mails the provider took: 0, 1, or 2 for more
          mishap,      \* mishap[j]: a failure that may cost a second e-mail (history)
          failures     \* crashes and failed statements so far

rowVars    == <<posted, open, published, superseded, due, holder, lapsed>>
workerVars == <<drainer, stage, awaiting>>
histVars   == <<mails, mishap, failures>>
vars       == <<rowVars, workerVars, histVars>>

Stages == {"none", "check", "send", "sent", "stale", "failed"}

Idle == [j \in Jobs |-> "none"]

Init ==
  /\ posted     = [j \in Jobs |-> FALSE]
  /\ open       = [j \in Jobs |-> FALSE]
  /\ published  = [j \in Jobs |-> "no"]
  /\ superseded = [j \in Jobs |-> FALSE]
  /\ due        = [j \in Jobs |-> FALSE]
  /\ holder     = [j \in Jobs |-> None]
  /\ lapsed     = [j \in Jobs |-> FALSE]
  /\ drainer    = [t \in Tokens |-> None]
  /\ stage      = [t \in Tokens |-> Idle]
  /\ awaiting   = [w \in Workers |-> None]
  /\ mails      = [j \in Jobs |-> 0]
  /\ mishap     = [j \in Jobs |-> FALSE]
  /\ failures   = 0

-----------------------------------------------------------------------------
(* Requests write the table.                                               *)

NextJob(j) == ~posted[j] /\ \A i \in Jobs : i < j => posted[i]

(* Mutation: published jobs are superseded as well.                        *)
Unsuperseded(i) == ~superseded[i]

Unpublished(i) == published[i] = "no" /\ ~superseded[i]

(* A challenge and its job are inserted in one transaction, which also     *)
(* consumes the address's challenge (replaced, at most one by the unique   *)
(* index) and, when a sign-up names the attempt it gives up (previous),    *)
(* that attempt: its challenge is consumed and its unpublished job taken   *)
(* away, from a worker that holds it too.  next_attempt_at is the time of  *)
(* the request.                                                            *)
Post(j, replaced, previous) ==
  LET gone == {i \in previous : Unpublished(i)} IN
  /\ NextJob(j)
  /\ posted' = [posted EXCEPT ![j] = TRUE]
  /\ due'    = [due    EXCEPT ![j] = TRUE]
  /\ open'   = [i \in Jobs |-> i = j \/ (open[i] /\ i \notin replaced \cup previous)]
  /\ superseded' = [i \in Jobs |-> superseded[i] \/ i \in gone]
  /\ holder' = [i \in Jobs |-> IF i \in gone THEN None ELSE holder[i]]
  /\ lapsed' = [i \in Jobs |-> lapsed[i] /\ i \notin gone]
  /\ UNCHANGED <<published, workerVars, histVars>>

AtMostOneOf(S) == {{}} \cup {{i} : i \in S}

PostAny(j) ==
  \E replaced \in AtMostOneOf({i \in Jobs : open[i]}) :
    \E previous \in AtMostOneOf({i \in Jobs : posted[i]}) :
      Post(j, replaced, previous)

(* The challenge is verified or consumed, or it expires.                   *)
Close(j) ==
  /\ open[j]
  /\ open' = [open EXCEPT ![j] = FALSE]
  /\ UNCHANGED <<posted, published, superseded, due, holder, lapsed, workerVars, histVars>>

-----------------------------------------------------------------------------
(* A worker.                                                               *)

(* Mutation: the lease is forgotten in the WHERE clause.                   *)
ClaimableByAnyone(j) ==
  posted[j] /\ published[j] = "no" /\ ~superseded[j] /\ due[j]

(* Mutation: only unlocked jobs are claimed, leases never run out.         *)
ClaimableUnlocked(j) ==
  posted[j] /\ published[j] = "no" /\ ~superseded[j] /\ due[j] /\ holder[j] = None

Claimable(j) ==
  /\ posted[j]
  /\ published[j] = "no"
  /\ ~superseded[j]
  /\ due[j]
  /\ holder[j] = None \/ lapsed[j]

Oldest(S) == {j \in S : Cardinality({i \in S : i < j}) < Batch}

InFlight(t) == \E j \in Jobs : stage[t][j] # "none"

FreshToken(t) == ~InFlight(t) /\ \A j \in Jobs : holder[j] # t

(* drain: nothing to do while the worker's last drain is running.  The     *)
(* claim is one statement.                                                 *)
Drain(w, t) ==
  LET claimed == Oldest({j \in Jobs : Claimable(j)}) IN
  /\ awaiting[w] = None
  /\ FreshToken(t)
  /\ claimed # {}
  /\ holder'   = [j \in Jobs |-> IF j \in claimed THEN t ELSE holder[j]]
  /\ lapsed'   = [j \in Jobs |-> IF j \in claimed THEN FALSE ELSE lapsed[j]]
  /\ drainer'  = [drainer EXCEPT ![t] = w]
  /\ stage'    = [stage EXCEPT ![t] =
                    [j \in Jobs |-> IF j \in claimed THEN "check" ELSE "none"]]
  /\ awaiting' = [awaiting EXCEPT ![w] = t]
  /\ UNCHANGED <<posted, open, published, superseded, due, histVars>>

(* The timer ticks, and no job is claimable.                               *)
DrainNothing(w) ==
  /\ awaiting[w] = None
  /\ ~ \E j \in Jobs : Claimable(j)
  /\ UNCHANGED vars

Move(t, j, s) == stage' = [stage EXCEPT ![t][j] = s]

(* process: a challenge that is no longer open makes the job stale.        *)
CheckChallenge(t, j) ==
  /\ stage[t][j] = "check"
  /\ Move(t, j, IF open[j] THEN "send" ELSE "stale")
  /\ UNCHANGED <<rowVars, drainer, awaiting, histVars>>

(* The provider takes the e-mail, refuses it, or takes it and fails to say *)
(* so within the ten seconds it is given.                                  *)
SendOtp(t, j) ==
  /\ stage[t][j] = "send"
  /\ \/ /\ mails' = [mails EXCEPT ![j] = IF @ = 2 THEN 2 ELSE @ + 1]
        /\ \/ Move(t, j, "sent") /\ UNCHANGED mishap
           \/ Move(t, j, "failed") /\ mishap' = [mishap EXCEPT ![j] = TRUE]
     \/ Move(t, j, "failed") /\ UNCHANGED <<mails, mishap>>
  /\ UNCHANGED <<rowVars, drainer, awaiting, failures>>

(* Mutation: the result is recorded whoever holds the job by now.          *)
AnyHolder(t, j) == TRUE

StillHolds(t, j) == holder[j] = t

(* Mutation: the catch block completes the job instead of retrying it.     *)
ResultsAndFailure == {"sent", "stale", "failed"}

Results == {"sent", "stale"}

Complete(t, j) ==
  /\ stage[t][j] \in Results
  /\ IF StillHolds(t, j)
       THEN /\ published' = [published EXCEPT ![j] = stage[t][j]]
            /\ holder'    = [holder EXCEPT ![j] = None]
            /\ lapsed'    = [lapsed EXCEPT ![j] = FALSE]
       ELSE UNCHANGED <<published, holder, lapsed>>
  /\ Move(t, j, "none")
  /\ UNCHANGED <<posted, open, superseded, due, drainer, awaiting, histVars>>

(* The catch block: the next attempt waits, and the job is anyone's again. *)
ScheduleRetry(t, j) ==
  /\ stage[t][j] = "failed"
  /\ IF StillHolds(t, j)
       THEN /\ due'    = [due    EXCEPT ![j] = FALSE]
            /\ holder' = [holder EXCEPT ![j] = None]
            /\ lapsed' = [lapsed EXCEPT ![j] = FALSE]
       ELSE UNCHANGED <<due, holder, lapsed>>
  /\ Move(t, j, "none")
  /\ UNCHANGED <<posted, open, published, superseded, drainer, awaiting, histVars>>

(* Promise.all has settled: the finally block clears running.              *)
Finish(w) ==
  /\ awaiting[w] # None
  /\ ~InFlight(awaiting[w])
  /\ awaiting' = [awaiting EXCEPT ![w] = None]
  /\ UNCHANGED <<rowVars, drainer, stage, histVars>>
-----------------------------------------------------------------------------
(* Failures and time.                                                      *)

(* The first rejected job settles Promise.all: running is cleared although *)
(* the other jobs of the drain may still be in flight.                     *)
NotRunning(t) ==
  IF awaiting[drainer[t]] = t
    THEN [awaiting EXCEPT ![drainer[t]] = None]
    ELSE awaiting

(* A statement fails.  If it records a delivery, the catch block treats    *)
(* the failure as one of the delivery; any other rejects process.          *)
StatementFails(t, j) ==
  /\ failures < MaxFailures
  /\ failures' = failures + 1
  /\ \/ /\ stage[t][j] = "sent"
        /\ Move(t, j, "failed")
        /\ mishap' = [mishap EXCEPT ![j] = TRUE]
        /\ UNCHANGED awaiting
     \/ /\ stage[t][j] \in {"check", "stale", "failed"}
        /\ Move(t, j, "none")
        /\ awaiting' = NotRunning(t)
        /\ UNCHANGED mishap
  /\ UNCHANGED <<rowVars, drainer, mails>>

(* The process dies and is started again; the leases of its jobs stay.     *)
Crash(w) ==
  /\ failures < MaxFailures
  /\ failures' = failures + 1
  /\ \E t \in Tokens : drainer[t] = w /\ InFlight(t)
  /\ stage' = [t \in Tokens |-> IF drainer[t] = w THEN Idle ELSE stage[t]]
  /\ mishap' = [j \in Jobs |-> mishap[j] \/
                   \E t \in Tokens : drainer[t] = w /\ stage[t][j] = "sent"]
  /\ awaiting' = [awaiting EXCEPT ![w] = None]
  /\ UNCHANGED <<rowVars, drainer, mails>>

HeldInFlight(j) == holder[j] # None /\ stage[holder[j]][j] # "none"

(* Two minutes pass since the claim.  A worker that is still at the job    *)
(* counts as a failure: it has stalled, the provider is given ten seconds. *)
LeaseEnds(j) ==
  /\ holder[j] # None
  /\ ~lapsed[j]
  /\ lapsed' = [lapsed EXCEPT ![j] = TRUE]
  /\ IF HeldInFlight(j)
       THEN /\ failures < MaxFailures
            /\ failures' = failures + 1
            /\ mishap' = [mishap EXCEPT ![j] = TRUE]
       ELSE UNCHANGED <<failures, mishap>>
  /\ UNCHANGED <<posted, open, published, superseded, due, holder, workerVars, mails>>

(* The delay of a retry, 300 seconds at the most, is over.                 *)
BecomesDue(j) ==
  /\ posted[j]
  /\ ~due[j]
  /\ due' = [due EXCEPT ![j] = TRUE]
  /\ UNCHANGED <<posted, open, published, superseded, holder, lapsed, workerVars, histVars>>

-----------------------------------------------------------------------------
JobStep(t, j) ==
  CheckChallenge(t, j) \/ SendOtp(t, j) \/ Complete(t, j) \/ ScheduleRetry(t, j)

Next ==
  \/ \E j \in Jobs : PostAny(j) \/ Close(j) \/ LeaseEnds(j) \/ BecomesDue(j)
  \/ \E w \in Workers : Finish(w) \/ Crash(w) \/ DrainNothing(w)
  \/ \E w \in Workers, t \in Tokens : Drain(w, t)
  \/ \E t \in Tokens, j \in Jobs : JobStep(t, j) \/ StatementFails(t, j)

Spec == Init /\ [][Next]_vars

(* Statements and the provider's ten-second timeout return; the timer      *)
(* ticks every second; a lease, a delay and a challenge run out by the     *)
(* clock.  No request has to come, and no delivery has to succeed.         *)
Fairness ==
  /\ \A t \in Tokens, j \in Jobs : WF_vars(JobStep(t, j))
  /\ \A w \in Workers : WF_vars(Finish(w)) /\ WF_vars(\E t \in Tokens : Drain(w, t))
  /\ \A j \in Jobs : WF_vars(LeaseEnds(j) /\ ~HeldInFlight(j))
                   /\ WF_vars(BecomesDue(j)) /\ WF_vars(Close(j))

FairSpec == Spec /\ Fairness

-----------------------------------------------------------------------------
TypeOK ==
  /\ posted     \in [Jobs -> BOOLEAN]
  /\ open       \in [Jobs -> BOOLEAN]
  /\ published  \in [Jobs -> {"no", "sent", "stale"}]
  /\ superseded \in [Jobs -> BOOLEAN]
  /\ due        \in [Jobs -> BOOLEAN]
  /\ holder     \in [Jobs -> Tokens \cup {None}]
  /\ lapsed     \in [Jobs -> BOOLEAN]
  /\ drainer    \in [Tokens -> Workers \cup {None}]
  /\ stage      \in [Tokens -> [Jobs -> Stages]]
  /\ awaiting   \in [Workers -> Tokens \cup {None}]
  /\ mails      \in [Jobs -> 0..2]
  /\ mishap     \in [Jobs -> BOOLEAN]
  /\ failures   \in 0..MaxFailures

(* A challenge's code is e-mailed twice only after a delivery whose result *)
(* was lost, or a worker that stalled beyond its lease: workers that poll  *)
(* the same table never duplicate one another's work.                      *)
NoDuplicateWithoutMishap == \A j \in Jobs : mails[j] > 1 => mishap[j]

(* As long as its lease runs, a worker is not robbed of a job in flight:   *)
(* only a request that supersedes the job may take it away, never a worker *)
(* whose own lease on the job is over.                                     *)
LeaseIsRespected ==
  [][\A j \in Jobs :
       HeldInFlight(j) /\ ~lapsed[j] /\ holder'[j] # holder[j]
         => superseded'[j] \/ stage'[holder[j]][j] = "none"]_vars

(* Every job is settled in the end, by an e-mail, by its challenge closing *)
(* or by a request that supersedes it, whatever crashes, statements and    *)
(* deliveries failed in between.                                           *)
EveryJobSettles ==
  \A j \in Jobs : posted[j] ~> (published[j] # "no" \/ superseded[j])

-----------------------------------------------------------------------------
(* The abstract specification, and what the rows are to it.                *)
JobOf(j) ==
  IF superseded[j] THEN "withdrawn"
  ELSE IF published[j] # "no" THEN published[j]
  ELSE IF posted[j] THEN "waiting" ELSE "none"

Deliveries == INSTANCE CodeDeliveries
  WITH job    <- [j \in Jobs |-> JobOf(j)],
       valid  <- {j \in Jobs : open[j]},
       mailed <- {j \in Jobs : mails[j] > 0}

(* However workers crash, stall and overtake one another, a job is settled *)
(* once: as sent only when its code was e-mailed, as stale only when the   *)
(* code was of no use any more, and never after a request withdrew it.     *)
ImplementsCodeDeliveries == Deliveries!Spec

-----------------------------------------------------------------------------
(* The inductive invariant behind OneOutcome and NoDuplicateWithoutMishap. *)

(* A row that a request superseded is not published.                       *)
OneOutcome == \A j \in Jobs : superseded[j] => published[j] = "no"

(* A job that has its outcome is nobody's.                                 *)
SettledInv ==
  \A j \in Jobs : superseded[j] \/ published[j] # "no" => holder[j] = None

(* Without a mishap, the one drain a job is in flight with holds it, unless*)
(* a request took the job away, and its lease runs.                        *)
LeaseInv ==
  \A j \in Jobs : ~mishap[j] =>
    \A t \in Tokens : stage[t][j] # "none" =>
      /\ superseded[j] \/ (holder[j] = t /\ ~lapsed[j])
      /\ \A u \in Tokens : stage[u][j] # "none" => u = t

(* Without a mishap, an e-mail was sent only if the drain is about to say  *)
(* so, or the job has its outcome.                                         *)
MailInv ==
  \A j \in Jobs : ~mishap[j] =>
    /\ mails[j] <= 1
    /\ \A t \in Tokens : stage[t][j] \notin {"none", "sent"} => mails[j] = 0
    /\ \/ superseded[j] \/ published[j] # "no" \/ mails[j] = 0
       \/ \E t \in Tokens : stage[t][j] = "sent"

(* What a drain is about to record is true of the job.                     *)
ResultInv ==
  \A t \in Tokens, j \in Jobs :
    /\ stage[t][j] # "none" => posted[j]
    /\ stage[t][j] = "sent" => mails[j] > 0
    /\ stage[t][j] = "stale" => ~open[j]

(* Only rows have outcomes.                                                *)
PostedInv ==
  \A j \in Jobs : ~posted[j] => published[j] = "no" /\ ~superseded[j] /\ mails[j] = 0

RInv == ResultInv /\ PostedInv

IInv == TypeOK /\ OneOutcome /\ SettledInv /\ LeaseInv /\ MailInv
=============================================================================
