---------------------------- MODULE CodeDeliveries ----------------------------
(***************************************************************************)
(* What the e-mail outbox promises, without leases, workers and retries: a *)
(* job waits until it is settled, once and for good.  It is settled as     *)
(* sent only after its code was e-mailed, as stale only after its code has *)
(* ceased to be valid, or withdrawn by a later request.                    *)
(***************************************************************************)

CONSTANT Jobs

VARIABLES job,     \* job[j]: how far j has come
          valid,   \* jobs whose code is still of use
          mailed   \* jobs whose code was e-mailed, once or more often

jobVars == <<job, valid, mailed>>

Init ==
  /\ job = [j \in Jobs |-> "none"]
  /\ valid = {}
  /\ mailed = {}

(* A new code may end the use of others and withdraw jobs that wait.       *)
Offer(j, withdrawn) ==
  /\ job[j] = "none"
  /\ \A i \in withdrawn : job[i] = "waiting"
  /\ job' = [i \in Jobs |-> IF i = j THEN "waiting"
                            ELSE IF i \in withdrawn THEN "withdrawn"
                            ELSE job[i]]
  /\ valid' \subseteq valid \cup {j}
  /\ UNCHANGED mailed

Lapse(j) ==
  /\ valid' = valid \ {j}
  /\ UNCHANGED <<job, mailed>>

(* An e-mail that was on its way may arrive after the job was settled.     *)
Mail(j) ==
  /\ job[j] # "none"
  /\ mailed' = mailed \cup {j}
  /\ UNCHANGED <<job, valid>>

Settle(j, result) ==
  /\ job[j] = "waiting"
  /\ result = "sent" => j \in mailed
  /\ result = "stale" => j \notin valid
  /\ job' = [job EXCEPT ![j] = result]
  /\ UNCHANGED <<valid, mailed>>

Next ==
  \E j \in Jobs :
    \/ \E withdrawn \in SUBSET Jobs : Offer(j, withdrawn)
    \/ Lapse(j)
    \/ Mail(j)
    \/ \E result \in {"sent", "stale"} : Settle(j, result)

Spec == Init /\ [][Next]_jobVars
===============================================================================
