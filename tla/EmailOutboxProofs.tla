--------------------------- MODULE EmailOutboxProofs ---------------------------
(***************************************************************************)
(* Machine-checked theorems about EmailOutbox, for any number of jobs,     *)
(* workers, tokens and failures: the types, that no code is e-mailed twice *)
(* without a mishap, that leases are respected, and that the outbox        *)
(* implements CodeDeliveries.                                              *)
(***************************************************************************)
EXTENDS EmailOutbox, TLAPS

(* Moving one job of one drain changes that stage only.                    *)
LEMMA MoveEffect ==
  ASSUME TypeOK, NEW t \in Tokens, NEW j \in Jobs, NEW s \in Stages, Move(t, j, s)
  PROVE  /\ stage' \in [Tokens -> [Jobs -> Stages]]
         /\ \A u \in Tokens, i \in Jobs :
              stage'[u][i] = IF u = t /\ i = j THEN s ELSE stage[u][i]
<1>1. stage \in [Tokens -> [Jobs -> Stages]]
  BY DEF TypeOK
<1>2. stage' = [stage EXCEPT ![t][j] = s]
  BY DEF Move
<1> QED
  BY <1>1, <1>2

(* A drain that is not the running one of its worker leaves running alone. *)
LEMMA NotRunningType ==
  ASSUME TypeOK, NEW t \in Tokens
  PROVE  NotRunning(t) \in [Workers -> Tokens \cup {None}]
BY DEF TypeOK, NotRunning

(* The invariant holds of an empty table.                                  *)
LEMMA InitInv == Init => IInv
<1> SUFFICES ASSUME Init PROVE IInv
  OBVIOUS
<1> USE OutboxAssumption DEF Init
<1>1. TypeOK
  BY DEF TypeOK, Idle, Stages
<1>2. OneOutcome /\ SettledInv
  BY DEF OneOutcome, SettledInv
<1>3. LeaseInv
  BY DEF LeaseInv, Idle
<1>4. MailInv
  BY DEF MailInv, Idle
<1> QED
  BY <1>1, <1>2, <1>3, <1>4 DEF IInv

(* A challenge closes.                                                     *)
LEMMA CloseInv ==
  ASSUME IInv, NEW j \in Jobs, Close(j)
  PROVE  IInv'
<1> USE OutboxAssumption
<1>t. TypeOK /\ OneOutcome /\ SettledInv /\ LeaseInv /\ MailInv
  BY DEF IInv
<1>u. Close(j)
  OBVIOUS
<1>1. TypeOK'
  BY <1>t, <1>u DEF TypeOK, Close, workerVars, histVars, rowVars
<1>2. OneOutcome' /\ SettledInv'
  BY <1>t, <1>u DEF TypeOK, OneOutcome, SettledInv, Close
<1>3. LeaseInv'
  BY <1>t, <1>u DEF TypeOK, LeaseInv, SettledInv, Close, workerVars, histVars, rowVars
<1>4. MailInv'
  BY <1>t, <1>u DEF TypeOK, MailInv, Close, workerVars, histVars, rowVars
<1> QED
  BY <1>1, <1>2, <1>3, <1>4 DEF IInv

(* A job becomes due.                                                      *)
LEMMA DueInv ==
  ASSUME IInv, NEW j \in Jobs, BecomesDue(j)
  PROVE  IInv'
<1> USE OutboxAssumption
<1>t. TypeOK /\ OneOutcome /\ SettledInv /\ LeaseInv /\ MailInv
  BY DEF IInv
<1>u. BecomesDue(j)
  OBVIOUS
<1>1. TypeOK'
  BY <1>t, <1>u DEF TypeOK, BecomesDue, workerVars, histVars, rowVars
<1>2. OneOutcome' /\ SettledInv'
  BY <1>t, <1>u DEF TypeOK, OneOutcome, SettledInv, BecomesDue
<1>3. LeaseInv'
  BY <1>t, <1>u DEF TypeOK, LeaseInv, SettledInv, BecomesDue, workerVars, histVars, rowVars
<1>4. MailInv'
  BY <1>t, <1>u DEF TypeOK, MailInv, BecomesDue, workerVars, histVars, rowVars
<1> QED
  BY <1>1, <1>2, <1>3, <1>4 DEF IInv

(* A lease ends; the worker at the job, if there is one, has stalled.      *)
LEMMA LeaseEndsInv ==
  ASSUME IInv, NEW j \in Jobs, LeaseEnds(j)
  PROVE  IInv'
<1> USE OutboxAssumption
<1>t. TypeOK /\ OneOutcome /\ SettledInv /\ LeaseInv /\ MailInv
  BY DEF IInv
<1>u. LeaseEnds(j)
  OBVIOUS
<1>1. TypeOK'
  <2>1. /\ failures' \in 0..MaxFailures
        /\ mishap' \in [Jobs -> BOOLEAN]
    <3>1. CASE HeldInFlight(j)
      <4>1. /\ failures < MaxFailures /\ failures' = failures + 1
            /\ mishap' = [mishap EXCEPT ![j] = TRUE]
        BY <1>u, <3>1 DEF LeaseEnds
      <4> QED
        BY <1>t, <4>1 DEF TypeOK
    <3>2. CASE ~HeldInFlight(j)
      BY <1>t, <1>u, <3>2 DEF TypeOK, LeaseEnds
    <3> QED
      BY <3>1, <3>2
  <2>2. /\ lapsed' = [lapsed EXCEPT ![j] = TRUE]
        /\ UNCHANGED <<posted, open, published, superseded, due, holder>>
        /\ UNCHANGED <<drainer, stage, awaiting, mails>>
    BY <1>u DEF LeaseEnds, workerVars
  <2>3. lapsed' \in [Jobs -> BOOLEAN]
    BY <1>t, <2>2 DEF TypeOK
  <2> QED
    BY <1>t, <2>1, <2>2, <2>3 DEF TypeOK
<1>2. OneOutcome' /\ SettledInv'
  BY <1>t, <1>u DEF TypeOK, OneOutcome, SettledInv, LeaseEnds, HeldInFlight
<1>3. LeaseInv'
  BY <1>t, <1>u DEF TypeOK, LeaseInv, SettledInv, LeaseEnds, HeldInFlight, workerVars, histVars, rowVars
<1>4. MailInv'
  BY <1>t, <1>u DEF TypeOK, MailInv, LeaseEnds, HeldInFlight, workerVars, histVars, rowVars
<1> QED
  BY <1>1, <1>2, <1>3, <1>4 DEF IInv

(* A request posts a job and may supersede another.                        *)
LEMMA PostInv ==
  ASSUME IInv, NEW j \in Jobs, NEW replaced, NEW previous, Post(j, replaced, previous)
  PROVE  IInv'
<1> USE OutboxAssumption
<1>t. TypeOK /\ OneOutcome /\ SettledInv /\ LeaseInv /\ MailInv
  BY DEF IInv
<1>u. Post(j, replaced, previous)
  OBVIOUS
<1>1. TypeOK'
  BY <1>t, <1>u DEF TypeOK, Post, Unpublished, workerVars, histVars, rowVars
<1>2. OneOutcome' /\ SettledInv'
  BY <1>t, <1>u DEF TypeOK, OneOutcome, SettledInv, Post, Unpublished
<1>3. LeaseInv'
  <2> DEFINE gone == {i \in previous : Unpublished(i)}
  <2>1. /\ superseded' = [i \in Jobs |-> superseded[i] \/ i \in gone]
        /\ holder' = [i \in Jobs |-> IF i \in gone THEN None ELSE holder[i]]
        /\ lapsed' = [i \in Jobs |-> lapsed[i] /\ i \notin gone]
        /\ UNCHANGED <<stage, mishap>>
    BY <1>u DEF Post, workerVars, histVars
  <2> HIDE DEF gone
  <2>2. \A i \in Jobs : superseded[i] => superseded'[i]
    BY <2>1
  <2>3. \A i \in Jobs : ~superseded'[i] =>
          ~superseded[i] /\ holder'[i] = holder[i] /\ lapsed'[i] = lapsed[i]
    BY <1>t, <2>1 DEF TypeOK
  <2> QED
    BY <1>t, <2>1, <2>2, <2>3 DEF LeaseInv
<1>4. MailInv'
  BY <1>t, <1>u DEF TypeOK, MailInv, Post, Unpublished, workerVars, histVars, rowVars
<1> QED
  BY <1>1, <1>2, <1>3, <1>4 DEF IInv

(* A worker finishes its drain.                                            *)
LEMMA FinishInv ==
  ASSUME IInv, NEW w \in Workers, Finish(w)
  PROVE  IInv'
<1> USE OutboxAssumption
<1>t. TypeOK /\ OneOutcome /\ SettledInv /\ LeaseInv /\ MailInv
  BY DEF IInv
<1>u. Finish(w)
  OBVIOUS
<1>1. TypeOK'
  BY <1>t, <1>u DEF TypeOK, Finish, workerVars, histVars, rowVars
<1>2. OneOutcome' /\ SettledInv'
  BY <1>t, <1>u DEF TypeOK, OneOutcome, SettledInv, Finish, rowVars
<1>3. LeaseInv'
  BY <1>t, <1>u DEF TypeOK, LeaseInv, SettledInv, Finish, workerVars, histVars, rowVars
<1>4. MailInv'
  BY <1>t, <1>u DEF TypeOK, MailInv, Finish, workerVars, histVars, rowVars
<1> QED
  BY <1>1, <1>2, <1>3, <1>4 DEF IInv

(* A drain takes jobs that are nobody's, or whose lease is over.           *)
LEMMA DrainInv ==
  ASSUME IInv, NEW w \in Workers, NEW t \in Tokens, Drain(w, t)
  PROVE  IInv'
<1> USE OutboxAssumption
<1>t. TypeOK /\ OneOutcome /\ SettledInv /\ LeaseInv /\ MailInv
  BY DEF IInv
<1> DEFINE claimed == Oldest({j \in Jobs : Claimable(j)})
<1>c. \A j \in claimed : j \in Jobs /\ Claimable(j)
  BY DEF Oldest
<1>u. /\ UNCHANGED <<posted, open, published, superseded, due, mails, mishap, failures>>
      /\ holder' = [j \in Jobs |-> IF j \in claimed THEN t ELSE holder[j]]
      /\ lapsed' = [j \in Jobs |-> IF j \in claimed THEN FALSE ELSE lapsed[j]]
      /\ drainer' = [drainer EXCEPT ![t] = w]
      /\ awaiting' = [awaiting EXCEPT ![w] = t]
  BY DEF Drain, histVars
<1>f. \A j \in Jobs : stage[t][j] = "none" /\ holder[j] # t
  BY <1>t DEF Drain, FreshToken, InFlight, TypeOK
<1>m. /\ stage' \in [Tokens -> [Jobs -> Stages]]
      /\ \A u \in Tokens, i \in Jobs :
           stage'[u][i] = IF u = t /\ i \in claimed THEN "check" ELSE stage[u][i]
  <2>1. stage' = [stage EXCEPT ![t] = [j \in Jobs |-> IF j \in claimed THEN "check" ELSE "none"]]
    BY DEF Drain
  <2> HIDE DEF claimed
  <2>2. [j \in Jobs |-> IF j \in claimed THEN "check" ELSE "none"] \in [Jobs -> Stages]
    BY DEF Stages
  <2> QED
    BY <1>t, <1>f, <2>1, <2>2 DEF TypeOK
<1>n. \A i \in claimed : ~mishap[i] => \A u \in Tokens : stage[u][i] = "none"
  BY <1>t, <1>c DEF LeaseInv, Claimable, TypeOK
<1>e. \A i \in claimed : published[i] = "no" /\ ~superseded[i]
  BY <1>c DEF Claimable
<1> HIDE DEF claimed
<1>1. TypeOK'
  BY <1>t, <1>u, <1>m DEF TypeOK
<1>2. OneOutcome' /\ SettledInv'
  BY <1>t, <1>u, <1>c, <1>e DEF OneOutcome, SettledInv
<1>3. LeaseInv'
  BY <1>t, <1>u, <1>m, <1>n, <1>c, <1>f DEF LeaseInv, TypeOK
<1>4. MailInv'
  <2> SUFFICES ASSUME NEW i \in Jobs, ~mishap[i]
               PROVE  /\ mails[i] <= 1
                      /\ \A u \in Tokens : stage'[u][i] \notin {"none", "sent"} => mails[i] = 0
                      /\ \/ superseded[i] \/ published[i] # "no" \/ mails[i] = 0
                         \/ \E u \in Tokens : stage'[u][i] = "sent"
    BY <1>u DEF MailInv
  <2>1. CASE i \in claimed
    <3>1. mails[i] = 0
      BY <1>t, <1>n, <1>e, <2>1 DEF MailInv
    <3> QED
      BY <3>1
  <2>2. CASE i \notin claimed
    <3>1. \A u \in Tokens : stage'[u][i] = stage[u][i]
      BY <1>m, <2>2
    <3> QED
      BY <1>t, <3>1 DEF MailInv
  <2> QED
    BY <2>1, <2>2
<1> QED
  BY <1>1, <1>2, <1>3, <1>4 DEF IInv

(* The worker looks at the challenge.                                      *)
LEMMA CheckInv ==
  ASSUME IInv, NEW t \in Tokens, NEW j \in Jobs, CheckChallenge(t, j)
  PROVE  IInv'
<1> USE OutboxAssumption
<1>t. TypeOK /\ OneOutcome /\ SettledInv /\ LeaseInv /\ MailInv
  BY DEF IInv
<1>s. (IF open[j] THEN "send" ELSE "stale") \in Stages
  BY <1>t DEF TypeOK, Stages
<1>m. /\ stage' \in [Tokens -> [Jobs -> Stages]]
      /\ \A u \in Tokens, i \in Jobs :
           stage'[u][i] = IF u = t /\ i = j THEN (IF open[j] THEN "send" ELSE "stale") ELSE stage[u][i]
  BY <1>t, <1>s, MoveEffect DEF CheckChallenge
<1>u. /\ UNCHANGED <<posted, open, published, superseded, due, holder, lapsed>>
      /\ UNCHANGED <<drainer, awaiting, mails, mishap, failures>>
      /\ stage[t][j] = "check"
  BY DEF CheckChallenge, rowVars, histVars
<1>1. TypeOK'
  BY <1>t, <1>m, <1>u DEF TypeOK, Results
<1>2. OneOutcome' /\ SettledInv'
  BY <1>t, <1>u DEF TypeOK, OneOutcome, SettledInv
<1>3. LeaseInv'
  BY <1>t, <1>m, <1>u DEF TypeOK, LeaseInv, SettledInv, Results
<1>4. MailInv'
  BY <1>t, <1>m, <1>u DEF TypeOK, LeaseInv, MailInv, Results
<1> QED
  BY <1>1, <1>2, <1>3, <1>4 DEF IInv

(* A failed delivery gives the job back, if the lease is still its own.    *)
LEMMA RetryInv ==
  ASSUME IInv, NEW t \in Tokens, NEW j \in Jobs, ScheduleRetry(t, j)
  PROVE  IInv'
<1> USE OutboxAssumption
<1>t. TypeOK /\ OneOutcome /\ SettledInv /\ LeaseInv /\ MailInv
  BY DEF IInv
<1>s. "none" \in Stages
  BY <1>t DEF TypeOK, Stages
<1>m. /\ stage' \in [Tokens -> [Jobs -> Stages]]
      /\ \A u \in Tokens, i \in Jobs :
           stage'[u][i] = IF u = t /\ i = j THEN "none" ELSE stage[u][i]
  BY <1>t, <1>s, MoveEffect DEF ScheduleRetry
<1>u. /\ UNCHANGED <<posted, open, published, superseded>>
      /\ UNCHANGED <<drainer, awaiting, mails, mishap, failures>>
      /\ stage[t][j] = "failed"
      /\ \/ /\ holder[j] = t
            /\ due'    = [due    EXCEPT ![j] = FALSE]
            /\ holder' = [holder EXCEPT ![j] = None]
            /\ lapsed' = [lapsed EXCEPT ![j] = FALSE]
         \/ UNCHANGED <<due, holder, lapsed>>
  BY DEF ScheduleRetry, rowVars, histVars, StillHolds
<1>1. TypeOK'
  BY <1>t, <1>m, <1>u DEF TypeOK, Results
<1>2. OneOutcome' /\ SettledInv'
  BY <1>t, <1>u DEF TypeOK, OneOutcome, SettledInv
<1>3. LeaseInv'
  BY <1>t, <1>m, <1>u DEF TypeOK, LeaseInv, SettledInv, Results
<1>4. MailInv'
  BY <1>t, <1>m, <1>u DEF TypeOK, LeaseInv, MailInv, Results
<1> QED
  BY <1>1, <1>2, <1>3, <1>4 DEF IInv

(* The result is recorded, if the lease is still the worker's.             *)
LEMMA CompleteInv ==
  ASSUME IInv, NEW t \in Tokens, NEW j \in Jobs, Complete(t, j)
  PROVE  IInv'
<1> USE OutboxAssumption
<1>t. TypeOK /\ OneOutcome /\ SettledInv /\ LeaseInv /\ MailInv
  BY DEF IInv
<1>s. "none" \in Stages
  BY <1>t DEF TypeOK, Stages
<1>m. /\ stage' \in [Tokens -> [Jobs -> Stages]]
      /\ \A u \in Tokens, i \in Jobs :
           stage'[u][i] = IF u = t /\ i = j THEN "none" ELSE stage[u][i]
  BY <1>t, <1>s, MoveEffect DEF Complete
<1>u. /\ UNCHANGED <<posted, open, superseded, due>>
      /\ UNCHANGED <<drainer, awaiting, mails, mishap, failures>>
      /\ stage[t][j] \in Results
      /\ \/ /\ holder[j] = t
            /\ published' = [published EXCEPT ![j] = stage[t][j]]
            /\ holder'    = [holder EXCEPT ![j] = None]
            /\ lapsed'    = [lapsed EXCEPT ![j] = FALSE]
         \/ holder[j] # t /\ UNCHANGED <<published, holder, lapsed>>
  BY DEF Complete, rowVars, histVars, StillHolds
<1>1. TypeOK'
  <2>1. published' \in [Jobs -> {"no", "sent", "stale"}]
    BY <1>t, <1>u DEF TypeOK, Results
  <2>2. holder' \in [Jobs -> Tokens \cup {None}] /\ lapsed' \in [Jobs -> BOOLEAN]
    BY <1>t, <1>u DEF TypeOK
  <2> QED
    BY <1>t, <1>m, <1>u, <2>1, <2>2 DEF TypeOK
<1>2. OneOutcome' /\ SettledInv'
  BY <1>t, <1>u DEF TypeOK, OneOutcome, SettledInv
<1>3. LeaseInv'
  BY <1>t, <1>m, <1>u DEF TypeOK, LeaseInv, SettledInv, Results
<1>4. MailInv'
  BY <1>t, <1>m, <1>u DEF TypeOK, LeaseInv, MailInv, Results
<1> QED
  BY <1>1, <1>2, <1>3, <1>4 DEF IInv

(* The provider is called.                                                 *)
LEMMA SendInv ==
  ASSUME IInv, NEW t \in Tokens, NEW j \in Jobs, SendOtp(t, j)
  PROVE  IInv'
<1> USE OutboxAssumption
<1>t. TypeOK /\ OneOutcome /\ SettledInv /\ LeaseInv /\ MailInv
  BY DEF IInv
<1>u. /\ UNCHANGED <<posted, open, published, superseded, due, holder, lapsed>>
      /\ UNCHANGED <<drainer, awaiting, failures>>
      /\ stage[t][j] = "send"
  BY DEF SendOtp, rowVars
<1>o. PICK s \in {"sent", "failed"} :
        /\ Move(t, j, s)
        /\ \/ /\ mails' = [mails EXCEPT ![j] = IF @ = 2 THEN 2 ELSE @ + 1]
              /\ \/ s = "sent" /\ UNCHANGED mishap
                 \/ mishap' = [mishap EXCEPT ![j] = TRUE]
           \/ s = "failed" /\ UNCHANGED <<mails, mishap>>
  BY DEF SendOtp
<1>m. /\ stage' \in [Tokens -> [Jobs -> Stages]]
      /\ \A u \in Tokens, i \in Jobs :
           stage'[u][i] = IF u = t /\ i = j THEN s ELSE stage[u][i]
  BY <1>t, <1>o, MoveEffect DEF Stages
<1>1. TypeOK'
  <2>1. mails' \in [Jobs -> 0..2]
    BY <1>t, <1>o DEF TypeOK
  <2>2. mishap' \in [Jobs -> BOOLEAN]
    BY <1>t, <1>o DEF TypeOK
  <2> QED
    BY <1>t, <1>u, <1>m, <2>1, <2>2 DEF TypeOK
<1>2. OneOutcome' /\ SettledInv'
  BY <1>t, <1>u DEF OneOutcome, SettledInv
<1>3. LeaseInv'
  <2>1. \A i \in Jobs : ~mishap'[i] => ~mishap[i]
    BY <1>t, <1>o DEF TypeOK
  <2>2. \A u \in Tokens, i \in Jobs : stage'[u][i] # "none" => stage[u][i] # "none"
    BY <1>u, <1>m
  <2> QED
    BY <1>t, <1>u, <2>1, <2>2 DEF LeaseInv
<1>4. MailInv'
  BY <1>t, <1>u, <1>o, <1>m DEF LeaseInv, MailInv, TypeOK
<1> QED
  BY <1>1, <1>2, <1>3, <1>4 DEF IInv

(* A statement of a drain fails.                                           *)
LEMMA StatementFailsInv ==
  ASSUME IInv, NEW t \in Tokens, NEW j \in Jobs, StatementFails(t, j)
  PROVE  IInv'
<1> USE OutboxAssumption
<1>t. TypeOK /\ OneOutcome /\ SettledInv /\ LeaseInv /\ MailInv
  BY DEF IInv
<1>u. /\ UNCHANGED <<posted, open, published, superseded, due, holder, lapsed>>
      /\ UNCHANGED <<drainer, mails>>
      /\ failures < MaxFailures /\ failures' = failures + 1
      /\ awaiting' = awaiting \/ awaiting' = NotRunning(t)
  BY DEF StatementFails, rowVars
<1>o. PICK s \in {"none", "failed"} :
        /\ Move(t, j, s)
        /\ \/ /\ s = "failed" /\ stage[t][j] = "sent"
              /\ mishap' = [mishap EXCEPT ![j] = TRUE]
           \/ /\ s = "none" /\ stage[t][j] \in {"check", "stale", "failed"}
              /\ UNCHANGED mishap
  BY DEF StatementFails
<1>m. /\ stage' \in [Tokens -> [Jobs -> Stages]]
      /\ \A u \in Tokens, i \in Jobs :
           stage'[u][i] = IF u = t /\ i = j THEN s ELSE stage[u][i]
  BY <1>t, <1>o, MoveEffect DEF Stages
<1>1. TypeOK'
  <2>1. awaiting' \in [Workers -> Tokens \cup {None}]
    BY <1>t, <1>u, NotRunningType DEF TypeOK
  <2>2. failures' \in 0..MaxFailures
    BY <1>t, <1>u DEF TypeOK
  <2> QED
    BY <1>t, <1>u, <1>o, <1>m, <2>1, <2>2 DEF TypeOK
<1>2. OneOutcome' /\ SettledInv'
  BY <1>t, <1>u DEF OneOutcome, SettledInv
<1>3. LeaseInv'
  BY <1>t, <1>u, <1>o, <1>m DEF LeaseInv, TypeOK
<1>4. MailInv'
  BY <1>t, <1>u, <1>o, <1>m DEF LeaseInv, MailInv, TypeOK
<1> QED
  BY <1>1, <1>2, <1>3, <1>4 DEF IInv

(* A worker dies: its drains vanish, its leases stay.                      *)
LEMMA CrashInv ==
  ASSUME IInv, NEW w \in Workers, Crash(w)
  PROVE  IInv'
<1> USE OutboxAssumption
<1>t. TypeOK /\ OneOutcome /\ SettledInv /\ LeaseInv /\ MailInv
  BY DEF IInv
<1>u. /\ UNCHANGED <<posted, open, published, superseded, due, holder, lapsed>>
      /\ UNCHANGED <<drainer, mails>>
      /\ failures < MaxFailures /\ failures' = failures + 1
      /\ awaiting' = [awaiting EXCEPT ![w] = None]
  BY DEF Crash, rowVars
<1>o. mishap' = [j \in Jobs |-> mishap[j] \/
                   \E t \in Tokens : drainer[t] = w /\ stage[t][j] = "sent"]
  BY DEF Crash
<1>m. /\ stage' \in [Tokens -> [Jobs -> Stages]]
      /\ \A u \in Tokens, i \in Jobs :
           stage'[u][i] = IF drainer[u] = w THEN "none" ELSE stage[u][i]
  <2>1. stage' = [t \in Tokens |-> IF drainer[t] = w THEN Idle ELSE stage[t]]
    BY DEF Crash
  <2>2. Idle \in [Jobs -> Stages] /\ \A i \in Jobs : Idle[i] = "none"
    BY DEF Idle, Stages
  <2> QED
    BY <1>t, <2>1, <2>2 DEF TypeOK
<1>1. TypeOK'
  <2>1. mishap' \in [Jobs -> BOOLEAN]
    BY <1>t, <1>o DEF TypeOK
  <2>2. failures' \in 0..MaxFailures
    BY <1>t, <1>u DEF TypeOK
  <2> QED
    BY <1>t, <1>u, <1>m, <2>1, <2>2 DEF TypeOK
<1>2. OneOutcome' /\ SettledInv'
  BY <1>t, <1>u DEF OneOutcome, SettledInv
<1>3. LeaseInv'
  BY <1>t, <1>u, <1>o, <1>m DEF LeaseInv, TypeOK
<1>4. MailInv'
  <2> SUFFICES ASSUME NEW i \in Jobs, ~mishap'[i]
               PROVE  /\ mails'[i] <= 1
                      /\ \A u \in Tokens : stage'[u][i] \notin {"none", "sent"} => mails'[i] = 0
                      /\ \/ superseded'[i] \/ published'[i] # "no" \/ mails'[i] = 0
                         \/ \E u \in Tokens : stage'[u][i] = "sent"
    BY DEF MailInv
  <2>1. ~mishap[i] /\ \A u \in Tokens : stage[u][i] = "sent" => drainer[u] # w
    BY <1>t, <1>o DEF TypeOK
  <2>2. \A u \in Tokens : stage'[u][i] = stage[u][i] \/ (stage'[u][i] = "none" /\ drainer[u] = w)
    BY <1>m
  <2> QED
    BY <1>t, <1>u, <2>1, <2>2 DEF MailInv
<1> QED
  BY <1>1, <1>2, <1>3, <1>4 DEF IInv

(* The invariant is inductive: one case for each action.                   *)
THEOREM Invariance == Spec => []IInv
<1>1. IInv /\ [Next]_vars => IInv'
  <2> SUFFICES ASSUME IInv, [Next]_vars PROVE IInv'
    OBVIOUS
  <2>1. CASE UNCHANGED vars
    BY <2>1 DEF IInv, TypeOK, OneOutcome, SettledInv, LeaseInv, MailInv,
                vars, rowVars, workerVars, histVars
  <2>2. CASE \E j \in Jobs : PostAny(j) \/ Close(j) \/ LeaseEnds(j) \/ BecomesDue(j)
    BY <2>2, PostInv, CloseInv, LeaseEndsInv, DueInv DEF PostAny
  <2>3. CASE \E w \in Workers : Finish(w) \/ Crash(w) \/ DrainNothing(w)
    BY <2>1, <2>3, FinishInv, CrashInv DEF DrainNothing
  <2>4. CASE \E w \in Workers, t \in Tokens : Drain(w, t)
    BY <2>4, DrainInv
  <2>5. CASE \E t \in Tokens, j \in Jobs : JobStep(t, j) \/ StatementFails(t, j)
    BY <2>5, CheckInv, SendInv, CompleteInv, RetryInv, StatementFailsInv DEF JobStep
  <2> QED
    BY <2>1, <2>2, <2>3, <2>4, <2>5 DEF Next
<1> QED
  BY InitInv, <1>1, PTL DEF Spec

(* The variables keep their types.                                         *)
THEOREM TypeCorrect == Spec => []TypeOK
<1>1. IInv => TypeOK
  BY DEF IInv
<1> QED
  BY Invariance, <1>1, PTL

(* No code is e-mailed twice unless a result was lost or a worker stalled. *)
THEOREM DeliveredOnce == Spec => []NoDuplicateWithoutMishap
<1>1. IInv => NoDuplicateWithoutMishap
  BY DEF IInv, TypeOK, MailInv, NoDuplicateWithoutMishap
<1> QED
  BY Invariance, <1>1, PTL

(* A worker keeps a job in flight while its lease runs, unless a request   *)
(* supersedes the job.                                                     *)
THEOREM LeasesRespected == Spec => LeaseIsRespected
<1> DEFINE Kept(j) ==
      HeldInFlight(j) /\ ~lapsed[j] /\ holder'[j] # holder[j]
        => superseded'[j] \/ stage'[holder[j]][j] = "none"
<1>1. IInv /\ [Next]_vars => [\A j \in Jobs : Kept(j)]_vars
  <2> SUFFICES ASSUME IInv, Next, NEW j \in Jobs PROVE Kept(j)
    OBVIOUS
  <2>t. TypeOK
    BY DEF IInv
  <2>1. ASSUME UNCHANGED holder PROVE Kept(j)
    BY <2>1
  <2>2. ASSUME NEW i \in Jobs, NEW replaced, NEW previous, Post(i, replaced, previous)
        PROVE  Kept(j)
    BY <2>2 DEF Post
  <2>3. ASSUME NEW w \in Workers, NEW t \in Tokens, Drain(w, t) PROVE Kept(j)
    BY <2>3 DEF Drain, Oldest, Claimable, HeldInFlight
  <2>4. ASSUME NEW t \in Tokens, NEW i \in Jobs, Complete(t, i) \/ ScheduleRetry(t, i)
        PROVE  Kept(j)
    <3>1. /\ Move(t, i, "none")
          /\ \/ holder' = [holder EXCEPT ![i] = None] /\ holder[i] = t
             \/ UNCHANGED holder
      BY <2>4 DEF Complete, ScheduleRetry, StillHolds
    <3>2. \A u \in Tokens, k \in Jobs :
            stage'[u][k] = IF u = t /\ k = i THEN "none" ELSE stage[u][k]
      BY <2>t, <3>1, MoveEffect DEF Stages
    <3> QED
      BY <2>t, <3>1, <3>2 DEF TypeOK
  <2> QED
    BY <2>1, <2>2, <2>3, <2>4 DEF Next, PostAny, JobStep, Close, LeaseEnds, BecomesDue,
      Finish, Crash, DrainNothing, CheckChallenge, SendOtp, StatementFails, vars, rowVars
<1> QED
  BY Invariance, <1>1, PTL DEF Spec, LeaseIsRespected
-----------------------------------------------------------------------------
(* What is recorded is true: a second invariant, on top of IInv.           *)

(* Posting: only rows are withdrawn, and the new row is nobody's yet.      *)
LEMMA PostResults ==
  ASSUME IInv, RInv, NEW j \in Jobs, NEW replaced, NEW previous,
         \A i \in previous : i \in Jobs /\ posted[i],
         Post(j, replaced, previous)
  PROVE  RInv'
<1>1. /\ ~posted[j]
      /\ posted' = [posted EXCEPT ![j] = TRUE]
      /\ open' = [i \in Jobs |-> i = j \/ (open[i] /\ i \notin replaced \cup previous)]
      /\ \A i \in Jobs : superseded'[i] => superseded[i] \/ i \in previous
      /\ UNCHANGED <<published, stage, mails>>
  BY DEF Post, NextJob, workerVars, histVars
<1>2. TypeOK
  BY DEF IInv
<1>3. ResultInv'
  <2>1. \A t \in Tokens : stage[t][j] = "none"
    BY <1>1 DEF RInv, ResultInv
  <2> QED BY <1>1, <1>2, <2>1 DEF RInv, ResultInv, TypeOK
<1>4. PostedInv'
  BY <1>1, <1>2 DEF RInv, PostedInv, TypeOK
<1> QED BY <1>3, <1>4 DEF RInv

LEMMA DrainResults ==
  ASSUME IInv, RInv, NEW w \in Workers, NEW t \in Tokens, Drain(w, t)
  PROVE  RInv'
<1> DEFINE claimed == Oldest({j \in Jobs : Claimable(j)})
<1>1. \A j \in claimed : posted[j]
  BY DEF Oldest, Claimable
<1>2. /\ stage' = [stage EXCEPT ![t] = [j \in Jobs |-> IF j \in claimed THEN "check" ELSE "none"]]
      /\ UNCHANGED <<posted, open, published, superseded, mails>>
  BY DEF Drain, histVars
<1> HIDE DEF claimed
<1>3. \A u \in Tokens, i \in Jobs :
        stage'[u][i] = stage[u][i] \/ stage'[u][i] = "none" \/ (stage'[u][i] = "check" /\ i \in claimed)
  BY <1>2 DEF IInv, TypeOK
<1> QED BY <1>1, <1>2, <1>3 DEF RInv, ResultInv, PostedInv

(* A step of one drain on one job.                                         *)
LEMMA JobResults ==
  ASSUME IInv, RInv, NEW t \in Tokens, NEW j \in Jobs,
         JobStep(t, j) \/ StatementFails(t, j)
  PROVE  RInv'
<1>1. TypeOK
  BY DEF IInv
<1>2. /\ UNCHANGED <<posted, open, superseded>>
      /\ stage[t][j] # "none"
  BY DEF JobStep, CheckChallenge, SendOtp, Complete, ScheduleRetry, StatementFails,
         rowVars, Results
<1>3. PICK s \in Stages : /\ Move(t, j, s)
                          /\ s = "sent" => mails'[j] > 0
                          /\ s = "stale" => ~open[j]
  <2>1. CASE CheckChallenge(t, j)
    BY <1>1, <2>1 DEF CheckChallenge, Stages, TypeOK
  <2>2. CASE SendOtp(t, j)
    BY <1>1, <2>2 DEF SendOtp, Stages, TypeOK
  <2>3. CASE Complete(t, j) \/ ScheduleRetry(t, j) \/ StatementFails(t, j)
    BY <2>3 DEF Complete, ScheduleRetry, StatementFails, Stages
  <2> QED BY <2>1, <2>2, <2>3 DEF JobStep
<1>4. /\ \A i \in Jobs : mails[i] > 0 => mails'[i] > 0
      /\ \A i \in Jobs \ {j} : mails'[i] = mails[i] /\ published'[i] = published[i]
  BY <1>1 DEF JobStep, CheckChallenge, SendOtp, Complete, ScheduleRetry, StatementFails,
              rowVars, histVars, TypeOK
<1>5. \A u \in Tokens, i \in Jobs :
        stage'[u][i] = IF u = t /\ i = j THEN s ELSE stage[u][i]
  BY <1>1, <1>3, MoveEffect
<1>6. ResultInv'
  BY <1>2, <1>3, <1>4, <1>5 DEF RInv, ResultInv
<1>7. PostedInv'
  BY <1>2, <1>4 DEF RInv, ResultInv, PostedInv
<1> QED BY <1>6, <1>7 DEF RInv

LEMMA StepResults == IInv /\ RInv /\ [Next]_vars => RInv'
<1> SUFFICES ASSUME IInv, RInv, [Next]_vars PROVE RInv'
  OBVIOUS
<1> USE DEF RInv, ResultInv, PostedInv
<1>1. CASE UNCHANGED vars
  BY <1>1 DEF vars, rowVars, workerVars, histVars
<1>2. CASE \E j \in Jobs : PostAny(j)
  <2>1. PICK j \in Jobs, replaced \in AtMostOneOf({i \in Jobs : open[i]}),
             previous \in AtMostOneOf({i \in Jobs : posted[i]}) : Post(j, replaced, previous)
    BY <1>2 DEF PostAny
  <2>2. \A i \in previous : i \in Jobs /\ posted[i]
    BY DEF AtMostOneOf
  <2> QED BY <2>1, <2>2, PostResults
<1>3. CASE \E j \in Jobs : Close(j)
  BY <1>3 DEF Close, IInv, TypeOK, workerVars, histVars
<1>4. CASE \E j \in Jobs : LeaseEnds(j) \/ BecomesDue(j)
  BY <1>4 DEF LeaseEnds, BecomesDue, workerVars, histVars
<1>5. CASE \E w \in Workers : Finish(w) \/ DrainNothing(w)
  BY <1>1, <1>5 DEF Finish, DrainNothing, rowVars, histVars
<1>6. CASE \E w \in Workers : Crash(w)
  <2>1. /\ UNCHANGED <<posted, open, published, superseded, mails>>
        /\ \A u \in Tokens, i \in Jobs : stage'[u][i] = stage[u][i] \/ stage'[u][i] = "none"
    BY <1>6 DEF Crash, rowVars, Idle
  <2> QED BY <2>1
<1>7. CASE \E w \in Workers, t \in Tokens : Drain(w, t)
  BY <1>7, DrainResults
<1>8. CASE \E t \in Tokens, j \in Jobs : JobStep(t, j) \/ StatementFails(t, j)
  BY <1>8, JobResults
<1> QED BY <1>1, <1>2, <1>3, <1>4, <1>5, <1>6, <1>7, <1>8 DEF Next

-----------------------------------------------------------------------------
(* A step that does not change rows in what CodeDeliveries sees of them.   *)
LEMMA SameJobs ==
  ASSUME UNCHANGED <<posted, published, superseded>>
  PROVE  UNCHANGED [j \in Jobs |-> JobOf(j)]
BY DEF JobOf

LEMMA PostRefines ==
  ASSUME IInv, RInv, NEW j \in Jobs, NEW replaced, NEW previous,
         \A i \in previous : i \in Jobs /\ posted[i],
         Post(j, replaced, previous)
  PROVE  \E withdrawn \in SUBSET Jobs : Deliveries!Offer(j, withdrawn)
<1> DEFINE gone == {i \in previous : Unpublished(i)}
<1>1. /\ ~posted[j]
      /\ posted' = [posted EXCEPT ![j] = TRUE]
      /\ open' = [i \in Jobs |-> i = j \/ (open[i] /\ i \notin replaced \cup previous)]
      /\ superseded' = [i \in Jobs |-> superseded[i] \/ i \in gone]
      /\ UNCHANGED <<published, mails>>
  BY DEF Post, NextJob, histVars
<1>2. TypeOK /\ PostedInv /\ OneOutcome
  BY DEF IInv, RInv
<1>3. \A i \in gone : i \in Jobs /\ posted[i] /\ published[i] = "no" /\ ~superseded[i]
  BY DEF Unpublished
<1> HIDE DEF gone
<1>4. JobOf(j) = "none"
  BY <1>1, <1>2 DEF JobOf, PostedInv
<1>5. \A i \in gone : JobOf(i) = "waiting"
  BY <1>3 DEF JobOf
<1>6. \A i \in Jobs : JobOf(i)' = IF i = j THEN "waiting"
                                  ELSE IF i \in gone THEN "withdrawn" ELSE JobOf(i)
  BY <1>1, <1>2, <1>3 DEF JobOf, PostedInv, TypeOK
<1>7. Deliveries!Offer(j, gone)
  BY <1>1, <1>3, <1>4, <1>5, <1>6 DEF Deliveries!Offer
<1>8. gone \in SUBSET Jobs
  BY <1>3
<1> QED BY <1>7, <1>8 DEF Deliveries!Offer

LEMMA CompleteRefines ==
  ASSUME IInv, RInv, NEW t \in Tokens, NEW j \in Jobs, Complete(t, j)
  PROVE  \/ UNCHANGED Deliveries!jobVars
         \/ \E result \in {"sent", "stale"} : Deliveries!Settle(j, result)
<1>1. UNCHANGED <<posted, open, superseded, mails>>
  BY DEF Complete, histVars
<1>2. CASE ~StillHolds(t, j)
  <2>1. UNCHANGED <<posted, published, superseded>>
    BY <1>1, <1>2 DEF Complete
  <2> QED BY <1>1, <2>1, SameJobs DEF Deliveries!jobVars
<1>3. CASE StillHolds(t, j)
  <2> DEFINE result == stage[t][j]
  <2>1. result \in {"sent", "stale"} /\ published' = [published EXCEPT ![j] = result]
    BY <1>3 DEF Complete, Results
  <2>2. ~superseded[j] /\ published[j] = "no"
    <3>1. t # None
      BY OutboxAssumption
    <3> QED BY <1>3, <3>1 DEF StillHolds, IInv, SettledInv
  <2>3. /\ posted[j]
        /\ result = "sent" => mails[j] > 0
        /\ result = "stale" => ~open[j]
    BY <2>1 DEF RInv, ResultInv
  <2>4. TypeOK
    BY DEF IInv
  <2> HIDE DEF result
  <2>5. JobOf(j) = "waiting"
    BY <2>2, <2>3 DEF JobOf
  <2>6. \A i \in Jobs : JobOf(i)' = IF i = j THEN result ELSE JobOf(i)
    BY <1>1, <2>1, <2>2, <2>4 DEF JobOf, TypeOK
  <2>7. Deliveries!Settle(j, result)
    BY <1>1, <2>3, <2>5, <2>6 DEF Deliveries!Settle
  <2> QED BY <2>1, <2>7
<1> QED BY <1>2, <1>3

LEMMA SendRefines ==
  ASSUME IInv, RInv, NEW t \in Tokens, NEW j \in Jobs, SendOtp(t, j)
  PROVE  UNCHANGED Deliveries!jobVars \/ Deliveries!Mail(j)
<1>1. /\ UNCHANGED <<posted, open, published, superseded>>
      /\ stage[t][j] = "send"
      /\ mails' = mails \/ mails' = [mails EXCEPT ![j] = IF @ = 2 THEN 2 ELSE @ + 1]
  BY DEF SendOtp, rowVars
<1>2. TypeOK /\ PostedInv /\ posted[j]
  BY <1>1 DEF IInv, RInv, ResultInv
<1>3. UNCHANGED [i \in Jobs |-> JobOf(i)]
  BY <1>1, SameJobs
<1>4. JobOf(j) # "none"
  BY <1>2 DEF JobOf, TypeOK
<1>5. CASE mails' = mails
  BY <1>1, <1>3, <1>5 DEF Deliveries!jobVars
<1>6. CASE mails' = [mails EXCEPT ![j] = IF @ = 2 THEN 2 ELSE @ + 1]
  <2>1. \A i \in Jobs : mails'[i] > 0 <=> mails[i] > 0 \/ i = j
    BY <1>2, <1>6 DEF TypeOK
  <2>2. {i \in Jobs : mails'[i] > 0} = {i \in Jobs : mails[i] > 0} \cup {j}
    BY <2>1
  <2> QED BY <1>1, <1>3, <1>4, <2>2 DEF Deliveries!Mail
<1> QED BY <1>1, <1>5, <1>6

LEMMA StepRefines == IInv /\ RInv /\ [Next]_vars => [Deliveries!Next]_(Deliveries!jobVars)
<1> SUFFICES ASSUME IInv, RInv, [Next]_vars
             PROVE  Deliveries!Next \/ UNCHANGED Deliveries!jobVars
  OBVIOUS
<1>1. ASSUME UNCHANGED <<posted, open, published, superseded, mails>>
      PROVE  UNCHANGED Deliveries!jobVars
  BY <1>1, SameJobs DEF Deliveries!jobVars
<1>2. CASE \E j \in Jobs : PostAny(j)
  <2>1. PICK j \in Jobs, replaced \in AtMostOneOf({i \in Jobs : open[i]}),
             previous \in AtMostOneOf({i \in Jobs : posted[i]}) : Post(j, replaced, previous)
    BY <1>2 DEF PostAny
  <2>2. \A i \in previous : i \in Jobs /\ posted[i]
    BY DEF AtMostOneOf
  <2> QED BY <2>1, <2>2, PostRefines DEF Deliveries!Next
<1>3. CASE \E j \in Jobs : Close(j)
  <2>1. PICK j \in Jobs : Close(j)
    BY <1>3
  <2>2. {i \in Jobs : open'[i]} = {i \in Jobs : open[i]} \ {j}
    BY <2>1 DEF Close, IInv, TypeOK
  <2>3. Deliveries!Lapse(j)
    BY <2>1, <2>2, SameJobs DEF Close, histVars, Deliveries!Lapse
  <2> QED BY <2>3 DEF Deliveries!Next
<1>4. CASE \E t \in Tokens, j \in Jobs : Complete(t, j)
  BY <1>4, CompleteRefines DEF Deliveries!Next
<1>5. CASE \E t \in Tokens, j \in Jobs : SendOtp(t, j)
  BY <1>5, SendRefines DEF Deliveries!Next
<1>6. CASE \/ UNCHANGED vars
           \/ \E j \in Jobs : LeaseEnds(j) \/ BecomesDue(j)
           \/ \E w \in Workers : Finish(w) \/ Crash(w) \/ DrainNothing(w)
           \/ \E w \in Workers, t \in Tokens : Drain(w, t)
           \/ \E t \in Tokens, j \in Jobs :
                CheckChallenge(t, j) \/ ScheduleRetry(t, j) \/ StatementFails(t, j)
  <2>1. UNCHANGED <<posted, open, published, superseded, mails>>
    BY <1>6 DEF LeaseEnds, BecomesDue, Finish, Crash, DrainNothing, Drain, CheckChallenge,
       ScheduleRetry, StatementFails, vars, rowVars, workerVars, histVars
  <2> QED BY <1>1, <2>1
<1> QED BY <1>2, <1>3, <1>4, <1>5, <1>6 DEF Next, JobStep

(* Whatever workers and requests do at the same time, a job is settled     *)
(* once, and as what it is: e-mailed, of no use any more, or withdrawn.    *)
THEOREM Refinement == Spec => ImplementsCodeDeliveries
<1>1. Init => RInv
  BY DEF Init, RInv, ResultInv, PostedInv, Idle
<1>2. Init => Deliveries!Init
  BY DEF Init, JobOf, Deliveries!Init
<1>3. Spec => []RInv
  BY <1>1, StepResults, Invariance, PTL DEF Spec
<1> QED BY <1>2, <1>3, StepRefines, Invariance, PTL
        DEF Spec, ImplementsCodeDeliveries, Deliveries!Spec
=============================================================================
