------------------------ MODULE SignupChallengeProofs ------------------------
(***************************************************************************)
(* TLAPS proofs about SignupChallenge, for any number of addresses,        *)
(* attempts, requests and wrong codes: the types, the one active challenge *)
(* of an address, and the refinement of SignupAttempts.                    *)
(***************************************************************************)
EXTENDS SignupChallenge, TLAPS

(* A request at one of these statements holds the challenge it has read or *)
(* was given.                                                              *)
Holding == {"verify", "count", "mark", "hash", "create"}

(* What a request knows about the challenge it goes on with.               *)
StepInv ==
  \A r \in Reqs :
    /\ pc[r] # "idle" => mail[r] \in Emails
    /\ pc[r] \in Holding => att[r] \in Rows
    /\ pc[r] \in {"hash", "create"} => address[att[r]] = mail[r]

(* Only rows are verified or consumed; a challenge that may still be tried *)
(* is not exhausted; the challenge that made an account is consumed.       *)
RowInv ==
  /\ verified \cup consumed \subseteq Rows
  /\ \A a \in Attempts \ consumed : wrong[a] < MaxAttempts
  /\ \A e \in Emails : account[e] \in Attempts => account[e] \in consumed

IInv == TypeOK /\ StepInv /\ RowInv /\ OneActive

-----------------------------------------------------------------------------
(* The empty table satisfies the invariant.                                *)
LEMMA InitInv == Init => IInv
  BY SignupAssumption, SMT
  DEF Init, IInv, TypeOK, StepInv, RowInv, OneActive, Rows, Steps, Holding

(* A step that leaves the rows, the accounts and the clocks alone keeps    *)
(* what is said of them.                                                   *)
LEMMA RowsKept ==
  ASSUME IInv, UNCHANGED <<rowVars, clocks>>
  PROVE  /\ RowInv' /\ OneActive' /\ Rows' = Rows
         /\ address' = address
  BY DEF IInv, RowInv, OneActive, Rows, rowVars, clocks

(* A request that arrives.                                                 *)
LEMMA BeginInv ==
  ASSUME IInv, NEW r \in Reqs, NEW e \in Emails, NEW a \in Rows \cup {None},
         NEW code \in BOOLEAN, NEW deadlines \in SUBSET Attempts, NEW step \in Steps,
         step \in Holding => a \in Rows,
         step \in {"hash", "create"} => address[a] = e,
         Begin(r, e, a, code, deadlines, step)
  PROVE  IInv'
<1>1. RowInv' /\ OneActive' /\ Rows' = Rows /\ address' = address
  BY RowsKept DEF Begin
<1>2. TypeOK'
  <2>1. address' = address /\ wrong' = wrong /\ verified' = verified
        /\ consumed' = consumed /\ account' = account /\ expired' = expired
        /\ cooled' = cooled /\ snap' = snap
    BY DEF Begin, rowVars, clocks
  <2>2. a \in Attempts \cup {None} /\ deadlines \cap Active(e) \in SUBSET Attempts
    BY DEF Rows
  <2>3. /\ pc'    \in [Reqs -> Steps]
        /\ mail'  \in [Reqs -> Emails \cup {None}]
        /\ att'   \in [Reqs -> Attempts \cup {None}]
        /\ right' \in [Reqs -> BOOLEAN]
        /\ past'  \in [Reqs -> SUBSET Attempts]
    BY <2>2 DEF Begin, IInv, TypeOK
  <2> QED
    BY <2>1, <2>3 DEF IInv, TypeOK
<1>3. StepInv'
  <2> SUFFICES ASSUME NEW q \in Reqs
               PROVE  /\ pc'[q] # "idle" => mail'[q] \in Emails
                      /\ pc'[q] \in Holding => att'[q] \in Rows
                      /\ pc'[q] \in {"hash", "create"} => address[att'[q]] = mail'[q]
    BY <1>1 DEF StepInv
  <2>1. CASE q = r
    <3>1. pc'[r] = step /\ mail'[r] = e /\ att'[r] = a
      BY DEF Begin, IInv, TypeOK
    <3> QED
      BY <2>1, <3>1
  <2>2. CASE q # r
    <3>1. pc'[q] = pc[q] /\ mail'[q] = mail[q] /\ att'[q] = att[q]
      BY <2>2 DEF Begin, IInv, TypeOK
    <3> QED
      BY <3>1 DEF IInv, StepInv
  <2> QED
    BY <2>1, <2>2
<1> QED
  BY <1>1, <1>2, <1>3 DEF IInv

(* The end of a request leaves its own variables typed and the others'     *)
(* claims about their challenges in place.                                 *)
LEMMA EndStep ==
  ASSUME TypeOK, StepInv, NEW r \in Reqs, End(r),
         Rows \subseteq Rows', \A a \in Rows : address'[a] = address[a]
  PROVE  /\ StepInv'
         /\ pc'    \in [Reqs -> Steps]
         /\ mail'  \in [Reqs -> Emails \cup {None}]
         /\ att'   \in [Reqs -> Attempts \cup {None}]
         /\ right' \in [Reqs -> BOOLEAN]
         /\ past'  \in [Reqs -> SUBSET Attempts]
         /\ snap'  \in [Reqs -> SUBSET Attempts]
<1>1. /\ pc'    \in [Reqs -> Steps]
      /\ mail'  \in [Reqs -> Emails \cup {None}]
      /\ att'   \in [Reqs -> Attempts \cup {None}]
      /\ right' \in [Reqs -> BOOLEAN]
      /\ past'  \in [Reqs -> SUBSET Attempts]
      /\ snap'  \in [Reqs -> SUBSET Attempts]
  BY DEF End, TypeOK, Steps
<1>2. StepInv'
  <2> SUFFICES ASSUME NEW q \in Reqs
               PROVE  /\ pc'[q] # "idle" => mail'[q] \in Emails
                      /\ pc'[q] \in Holding => att'[q] \in Rows'
                      /\ pc'[q] \in {"hash", "create"} => address'[att'[q]] = mail'[q]
    BY DEF StepInv
  <2>1. CASE q = r
    <3>1. pc'[r] = "idle"
      BY DEF End, TypeOK
    <3> QED
      BY <2>1, <3>1 DEF Holding
  <2>2. CASE q # r
    <3>1. pc'[q] = pc[q] /\ mail'[q] = mail[q] /\ att'[q] = att[q]
      BY <2>2 DEF End, TypeOK
    <3>2. CASE pc[q] \in Holding
      BY <3>1, <3>2 DEF StepInv
    <3>3. CASE pc[q] \notin Holding
      BY <3>1, <3>3 DEF StepInv, Holding
    <3> QED
      BY <3>2, <3>3
  <2> QED
    BY <2>1, <2>2
<1> QED
  BY <1>1, <1>2

(* A request that is answered without changing a row.                      *)
LEMMA EndInv ==
  ASSUME IInv, NEW r \in Reqs, End(r), UNCHANGED <<rowVars, clocks>>
  PROVE  IInv'
<1>1. RowInv' /\ OneActive' /\ Rows' = Rows /\ address' = address
  BY RowsKept
<1>2. /\ StepInv'
      /\ pc'    \in [Reqs -> Steps]
      /\ mail'  \in [Reqs -> Emails \cup {None}]
      /\ att'   \in [Reqs -> Attempts \cup {None}]
      /\ right' \in [Reqs -> BOOLEAN]
      /\ past'  \in [Reqs -> SUBSET Attempts]
      /\ snap'  \in [Reqs -> SUBSET Attempts]
  BY <1>1, EndStep DEF IInv
<1>3. TypeOK'
  BY <1>2 DEF TypeOK, IInv, rowVars, clocks
<1> QED
  BY <1>1, <1>2, <1>3 DEF IInv

(* A request that goes on to its next statement.                           *)
LEMMA GoOnInv ==
  ASSUME IInv, NEW r \in Reqs, NEW step \in Steps, NEW a \in Attempts \cup {None},
         NEW deadlines \in SUBSET Attempts,
         pc[r] # "idle",
         step \in Holding => a \in Rows,
         step \in {"hash", "create"} => address[a] = mail[r],
         GoOn(r, step, a, deadlines), UNCHANGED <<rowVars, clocks>>
  PROVE  IInv'
<1>1. RowInv' /\ OneActive' /\ Rows' = Rows /\ address' = address
  BY RowsKept
<1>2. TypeOK'
  <2>1. address' = address /\ wrong' = wrong /\ verified' = verified
        /\ consumed' = consumed /\ account' = account /\ expired' = expired
        /\ cooled' = cooled /\ snap' = snap /\ mail' = mail
    BY DEF GoOn, rowVars, clocks
  <2>2. /\ pc'    \in [Reqs -> Steps]
        /\ att'   \in [Reqs -> Attempts \cup {None}]
        /\ right' \in [Reqs -> BOOLEAN]
        /\ past'  \in [Reqs -> SUBSET Attempts]
    BY DEF GoOn, IInv, TypeOK
  <2> QED
    BY <2>1, <2>2 DEF IInv, TypeOK
<1>3. StepInv'
  <2> SUFFICES ASSUME NEW q \in Reqs
               PROVE  /\ pc'[q] # "idle" => mail'[q] \in Emails
                      /\ pc'[q] \in Holding => att'[q] \in Rows
                      /\ pc'[q] \in {"hash", "create"} => address[att'[q]] = mail'[q]
    BY <1>1 DEF StepInv
  <2>1. CASE q = r
    <3>1. pc'[r] = step /\ mail'[r] = mail[r] /\ att'[r] = a
      BY DEF GoOn, IInv, TypeOK
    <3>2. mail[r] \in Emails
      BY DEF IInv, StepInv
    <3> QED
      BY <2>1, <3>1, <3>2
  <2>2. CASE q # r
    <3>1. pc'[q] = pc[q] /\ mail'[q] = mail[q] /\ att'[q] = att[q]
      BY <2>2 DEF GoOn, IInv, TypeOK
    <3> QED
      BY <3>1 DEF IInv, StepInv
  <2> QED
    BY <2>1, <2>2
<1> QED
  BY <1>1, <1>2, <1>3 DEF IInv

-----------------------------------------------------------------------------
(* A replacement: the new challenge takes the place of the address's one,  *)
(* and what was committed after the snapshot makes the insert fail.        *)
LEMMA CommitReplaceInv ==
  ASSUME IInv, NEW r \in Reqs, CommitReplace(r)
  PROVE  IInv'
<1>1. mail[r] \in Emails /\ mail[r] # None
  BY SignupAssumption DEF CommitReplace, IInv, StepInv
<1>2. PICK x \in Attempts \ Rows :
        /\ address' = [address EXCEPT ![x] = mail[r]]
        /\ consumed' = consumed \cup Replaced(r)
  BY DEF CommitReplace
<1>3. UNCHANGED <<wrong, verified, account, expired, cooled>>
  BY DEF CommitReplace, clocks
<1>4. /\ address' \in [Attempts -> Emails \cup {None}]
      /\ address'[x] = mail[r]
      /\ \A a \in Attempts \ {x} : address'[a] = address[a]
  BY <1>1, <1>2 DEF IInv, TypeOK
<1>5. Rows' = Rows \cup {x}
  BY <1>1, <1>4 DEF Rows
<1>6. \A a \in Rows : address'[a] = address[a]
  BY <1>4 DEF Rows
<1>7. /\ StepInv'
      /\ pc'    \in [Reqs -> Steps]
      /\ mail'  \in [Reqs -> Emails \cup {None}]
      /\ att'   \in [Reqs -> Attempts \cup {None}]
      /\ right' \in [Reqs -> BOOLEAN]
      /\ past'  \in [Reqs -> SUBSET Attempts]
      /\ snap'  \in [Reqs -> SUBSET Attempts]
  BY <1>5, <1>6, EndStep DEF IInv, CommitReplace
<1>8. Replaced(r) \subseteq Rows /\ Rows \subseteq Attempts
  BY DEF Replaced, Rows
<1>9. TypeOK'
  BY <1>2, <1>3, <1>4, <1>7, <1>8 DEF TypeOK, IInv
<1>10. RowInv'
  BY <1>2, <1>3, <1>5, <1>8 DEF RowInv, IInv
<1>11. OneActive'
  <2>1. \A a \in Rows \ consumed' : address[a] # mail[r]
    <3> SUFFICES ASSUME NEW a \in Rows \ consumed', address[a] = mail[r]
                 PROVE  FALSE
      OBVIOUS
    <3>1. a \in Active(mail[r]) /\ a \notin Replaced(r)
      BY <1>2 DEF Active
    <3> QED
      BY <3>1 DEF CommitReplace, Conflict
  <2> SUFFICES ASSUME NEW a \in Rows' \ consumed', NEW b \in Rows' \ consumed',
                      address'[a] = address'[b]
               PROVE  a = b
    BY DEF OneActive
  <2>2. CASE a \in Rows /\ b \in Rows
    <3>1. a \notin consumed /\ b \notin consumed /\ address[a] = address[b]
      BY <2>2, <1>2, <1>6
    <3> QED
      BY <2>2, <3>1 DEF IInv, OneActive
  <2>3. CASE a = x /\ b \in Rows
    BY <2>1, <2>3, <1>4, <1>6
  <2>4. CASE b = x /\ a \in Rows
    BY <2>1, <2>4, <1>4, <1>6
  <2> QED
    BY <2>2, <2>3, <2>4, <1>5
<1> QED
  BY <1>7, <1>9, <1>10, <1>11 DEF IInv

(* A step that only counts, verifies, consumes or makes an account, and    *)
(* ends the request: the rows stay, and no challenge becomes active again. *)
LEMMA FinishInv ==
  ASSUME IInv, NEW r \in Reqs, End(r),
         address' = address, UNCHANGED clocks,
         wrong' \in [Attempts -> 0..MaxAttempts],
         verified' \in SUBSET Attempts, consumed' \in SUBSET Attempts,
         account' \in [Emails -> Attempts \cup {None, Social}],
         consumed \subseteq consumed', RowInv'
  PROVE  IInv'
<1>1. Rows' = Rows
  BY DEF Rows
<1>2. /\ StepInv'
      /\ pc'    \in [Reqs -> Steps]
      /\ mail'  \in [Reqs -> Emails \cup {None}]
      /\ att'   \in [Reqs -> Attempts \cup {None}]
      /\ right' \in [Reqs -> BOOLEAN]
      /\ past'  \in [Reqs -> SUBSET Attempts]
      /\ snap'  \in [Reqs -> SUBSET Attempts]
  BY <1>1, EndStep DEF IInv
<1>3. TypeOK'
  BY <1>2 DEF TypeOK, IInv, clocks
<1>4. OneActive'
  BY <1>1 DEF OneActive, IInv
<1> QED
  BY <1>2, <1>3, <1>4 DEF IInv

(* The failure that reaches the limit consumes the challenge.              *)
LEMMA CountFailureInv ==
  ASSUME IInv, NEW r \in Reqs, CountFailure(r)
  PROVE  IInv'
<1> DEFINE a == att[r]
<1>1. a \in Rows /\ a \in Attempts
  BY DEF CountFailure, IInv, StepInv, Rows, Holding
<1>2. End(r) /\ UNCHANGED <<address, verified, account, clocks>>
  BY DEF CountFailure
<1>3. CASE a \in consumed
  <2>1. UNCHANGED <<wrong, consumed>>
    BY <1>3 DEF CountFailure
  <2> QED
    BY <1>2, <2>1, EndInv DEF rowVars
<1>4. CASE a \notin consumed
  <2>1. /\ wrong' = [wrong EXCEPT ![a] = @ + 1]
        /\ consumed' = IF Exhausted(a) THEN consumed \cup {a} ELSE consumed
    BY <1>4 DEF CountFailure
  <2>2. wrong[a] \in Nat /\ wrong[a] < MaxAttempts /\ MaxAttempts \in Nat
    BY <1>1, <1>4, SignupAssumption DEF IInv, TypeOK, RowInv
  <2>3. wrong' \in [Attempts -> 0..MaxAttempts]
    <3>1. wrong[a] + 1 \in 0..MaxAttempts
      BY <2>2
    <3>2. wrong \in [Attempts -> 0..MaxAttempts]
      BY DEF IInv, TypeOK
    <3>3. wrong' = [wrong EXCEPT ![a] = wrong[a] + 1]
      BY <2>1
    <3> HIDE DEF a
    <3> QED
      BY <3>1, <3>2, <3>3
  <2>4. \A b \in Attempts \ consumed' : wrong'[b] < MaxAttempts
    <3> SUFFICES ASSUME NEW b \in Attempts \ consumed'
                 PROVE  wrong'[b] < MaxAttempts
      OBVIOUS
    <3>1. CASE b = a
      BY <2>1, <2>2, <3>1 DEF Exhausted, IInv, TypeOK
    <3>2. CASE b # a
      BY <2>1, <3>2 DEF IInv, TypeOK, RowInv
    <3> QED
      BY <3>1, <3>2
  <2>5. consumed' \in SUBSET Attempts /\ consumed \subseteq consumed'
        /\ consumed' \subseteq Rows
    BY <1>1, <2>1 DEF IInv, TypeOK, RowInv
  <2>6. Rows' = Rows
    BY <1>2 DEF Rows
  <2>7. RowInv'
    BY <1>2, <2>4, <2>5, <2>6 DEF RowInv, IInv
  <2>8. verified' \in SUBSET Attempts
        /\ account' \in [Emails -> Attempts \cup {None, Social}]
    BY <1>2 DEF IInv, TypeOK
  <2> QED
    BY <1>2, <2>3, <2>5, <2>7, <2>8, FinishInv
<1> QED
  BY <1>3, <1>4

(* The mark is put on a row.                                               *)
LEMMA MarkVerifiedInv ==
  ASSUME IInv, NEW r \in Reqs, MarkVerified(r)
  PROVE  IInv'
<1>1. att[r] \in Rows /\ att[r] \in Attempts
  BY DEF MarkVerified, IInv, StepInv, Rows, Holding
<1>2. End(r) /\ UNCHANGED <<address, wrong, consumed, account, clocks>>
  BY DEF MarkVerified
<1>3. verified' \subseteq Rows /\ verified' \in SUBSET Attempts
  BY <1>1 DEF MarkVerified, IInv, RowInv, TypeOK
<1>4. Rows' = Rows
  BY <1>2 DEF Rows
<1>5. RowInv'
  BY <1>2, <1>3, <1>4 DEF RowInv, IInv
<1>6. /\ wrong' \in [Attempts -> 0..MaxAttempts]
      /\ consumed' \in SUBSET Attempts
      /\ account' \in [Emails -> Attempts \cup {None, Social}]
  BY <1>2 DEF IInv, TypeOK
<1> QED
  BY <1>2, <1>3, <1>5, <1>6, FinishInv

(* The account and the consumed challenge are one transaction.             *)
LEMMA CreateAccountInv ==
  ASSUME IInv, NEW r \in Reqs, CreateAccount(r)
  PROVE  IInv'
<1>1. att[r] \in Rows /\ att[r] \in Attempts /\ mail[r] \in Emails
  BY DEF CreateAccount, IInv, StepInv, Rows, Holding
<1>2. End(r) /\ UNCHANGED <<address, wrong, verified, clocks>>
  BY DEF CreateAccount
<1>3. CASE ~(Completable(r) /\ account[mail[r]] = None)
  <2>1. UNCHANGED <<account, consumed>>
    BY <1>3 DEF CreateAccount
  <2> QED
    BY <1>2, <2>1, EndInv DEF rowVars
<1>4. CASE Completable(r) /\ account[mail[r]] = None
  <2>1. /\ account'  = [account EXCEPT ![mail[r]] = att[r]]
        /\ consumed' = consumed \cup {att[r]}
    BY <1>4 DEF CreateAccount
  <2>2. account' \in [Emails -> Attempts \cup {None, Social}]
    BY <1>1, <2>1 DEF IInv, TypeOK
  <2>3. consumed' \in SUBSET Attempts /\ consumed \subseteq consumed'
        /\ consumed' \subseteq Rows
    BY <1>1, <2>1 DEF IInv, TypeOK, RowInv
  <2>4. \A e \in Emails : account'[e] \in Attempts => account'[e] \in consumed'
    BY <1>1, <2>1 DEF IInv, TypeOK, RowInv
  <2>5. Rows' = Rows
    BY <1>2 DEF Rows
  <2>6. RowInv'
    BY <1>2, <2>3, <2>4, <2>5 DEF RowInv, IInv
  <2>7. wrong' \in [Attempts -> 0..MaxAttempts] /\ verified' \in SUBSET Attempts
    BY <1>2 DEF IInv, TypeOK
  <2> QED
    BY <1>2, <2>2, <2>3, <2>6, <2>7, FinishInv
<1> QED
  BY <1>3, <1>4

-----------------------------------------------------------------------------
(* The invariant is inductive: one step per action.                        *)
LEMMA NextInv == IInv /\ [Next]_vars => IInv'
<1> SUFFICES ASSUME IInv, [Next]_vars PROVE IInv'
  OBVIOUS
<1>1. CASE UNCHANGED vars
  BY <1>1 DEF vars, rowVars, clocks, reqVars, IInv, TypeOK, StepInv, RowInv,
              OneActive, Rows
<1>2. ASSUME NEW r \in Reqs, Handle(r) PROVE IInv'
  <2>1. ASSUME RequestSignupOtp(r) PROVE IInv'
    <3>1. PICK e \in Emails, previous \in Rows \cup {None} :
            Begin(r, e, previous, FALSE, cooled, "current")
      BY <2>1 DEF RequestSignupOtp
    <3>2. cooled \in SUBSET Attempts /\ "current" \in Steps /\ "current" \notin Holding
      BY DEF IInv, TypeOK, Steps, Holding
    <3> QED
      BY <3>1, <3>2, BeginInv
  <2>2. ASSUME ReadCurrent(r) PROVE IInv'
    <3>1. /\ pc[r] # "idle" /\ "user" \in Steps /\ "user" \notin Holding
          /\ att[r] \in Attempts \cup {None}
      BY <2>2 DEF ReadCurrent, Steps, Holding, IInv, TypeOK
    <3>2. UNCHANGED <<rowVars, clocks>> /\ (GoOn(r, "user", att[r], {}) \/ End(r))
      BY <2>2 DEF ReadCurrent
    <3>3. CASE GoOn(r, "user", att[r], {})
      BY <3>1, <3>2, <3>3, GoOnInv
    <3> QED
      BY <3>2, <3>3, EndInv
  <2>3. ASSUME ReadUser(r) PROVE IInv'
    <3>1. /\ pc[r] # "idle" /\ "begin" \in Steps /\ "begin" \notin Holding
          /\ att[r] \in Attempts \cup {None}
      BY <2>3 DEF ReadUser, Steps, Holding, IInv, TypeOK
    <3>2. UNCHANGED <<rowVars, clocks>> /\ (GoOn(r, "begin", att[r], {}) \/ End(r))
      BY <2>3 DEF ReadUser
    <3>3. CASE GoOn(r, "begin", att[r], {})
      BY <3>1, <3>2, <3>3, GoOnInv
    <3> QED
      BY <3>2, <3>3, EndInv
  <2>4. ASSUME BeginReplace(r) PROVE IInv'
    <3>1. RowInv' /\ OneActive' /\ Rows' = Rows /\ address' = address
      BY <2>4, RowsKept DEF BeginReplace
    <3>2. Active(mail[r]) \in SUBSET Attempts /\ "replace" \in Steps
      BY DEF Active, Rows, Steps
    <3>3. /\ pc'   \in [Reqs -> Steps]
          /\ snap' \in [Reqs -> SUBSET Attempts]
      BY <2>4, <3>2 DEF BeginReplace, IInv, TypeOK
    <3>4. TypeOK'
      BY <2>4, <3>3 DEF BeginReplace, rowVars, clocks, IInv, TypeOK
    <3>5. StepInv'
      BY <2>4, <3>1 DEF BeginReplace, IInv, TypeOK, StepInv, Holding
    <3> QED
      BY <3>1, <3>4, <3>5 DEF IInv
  <2>5. ASSUME CommitReplace(r) PROVE IInv'
    BY <2>5, CommitReplaceInv
  <2>6. ASSUME LoseReplace(r) PROVE IInv'
    <3>1. RowInv' /\ OneActive' /\ Rows' = Rows /\ address' = address
      BY <2>6, RowsKept DEF LoseReplace
    <3>2. pc' \in [Reqs -> Steps]
      BY <2>6 DEF LoseReplace, IInv, TypeOK, Steps
    <3>3. TypeOK'
      BY <2>6, <3>2 DEF LoseReplace, rowVars, clocks, IInv, TypeOK
    <3>4. StepInv'
      BY <2>6, <3>1 DEF LoseReplace, IInv, TypeOK, StepInv, Holding
    <3> QED
      BY <3>1, <3>3, <3>4 DEF IInv
  <2>7. ASSUME ReadConcurrent(r) \/ Fail(r) PROVE IInv'
    BY <2>7, EndInv DEF ReadConcurrent, Fail
  <2>8. ASSUME VerifySignupOtp(r) PROVE IInv'
    <3>1. PICK a \in Rows, code \in BOOLEAN :
            Begin(r, address[a], a, code, expired, "verify")
      BY <2>8 DEF VerifySignupOtp
    <3>2. /\ address[a] \in Emails /\ expired \in SUBSET Attempts
          /\ "verify" \in Steps /\ "verify" \notin {"hash", "create"}
      BY DEF IInv, TypeOK, Steps, Rows
    <3> QED
      BY <3>1, <3>2, BeginInv
  <2>9. ASSUME ReadForVerify(r) PROVE IInv'
    <3>1. pc[r] # "idle" /\ UNCHANGED <<rowVars, clocks>>
      BY <2>9 DEF ReadForVerify
    <3>2. CASE End(r)
      BY <3>1, <3>2, EndInv
    <3>3. CASE \E a \in Active(mail[r]) :
                 GoOn(r, "mark", a, past[r]) \/ GoOn(r, "count", a, {})
      <4>1. PICK a \in Active(mail[r]) :
              GoOn(r, "mark", a, past[r]) \/ GoOn(r, "count", a, {})
        BY <3>3
      <4>2. /\ a \in Rows /\ a \in Attempts \cup {None} /\ past[r] \in SUBSET Attempts
            /\ "mark" \in Steps /\ "count" \in Steps
            /\ "mark" \notin {"hash", "create"} /\ "count" \notin {"hash", "create"}
        BY DEF Active, Rows, Steps, IInv, TypeOK
      <4>3. CASE GoOn(r, "mark", a, past[r])
        BY <3>1, <4>2, <4>3, GoOnInv
      <4>4. CASE GoOn(r, "count", a, {})
        BY <3>1, <4>2, <4>4, GoOnInv
      <4> QED
        BY <4>1, <4>3, <4>4
    <3> QED
      BY <2>9, <3>2, <3>3 DEF ReadForVerify
  <2>10. ASSUME CountFailure(r) PROVE IInv'
    BY <2>10, CountFailureInv
  <2>11. ASSUME MarkVerified(r) PROVE IInv'
    BY <2>11, MarkVerifiedInv
  <2>12. ASSUME CompleteSignup(r) PROVE IInv'
    <3>1. PICK e \in Emails : \E a \in Active(e) \cap verified : Begin(r, e, a, FALSE, {}, "hash")
      BY <2>12 DEF CompleteSignup
    <3>2. PICK a \in Active(e) \cap verified : Begin(r, e, a, FALSE, {}, "hash")
      BY <3>1
    <3>3. a \in Rows /\ address[a] = e /\ "hash" \in Steps
      BY DEF Active, Steps
    <3> QED
      BY <3>2, <3>3, BeginInv
  <2>13. ASSUME HashPassword(r) PROVE IInv'
    <3>1. /\ att[r] \in Rows /\ att[r] \in Attempts \cup {None}
          /\ address[att[r]] = mail[r] /\ pc[r] # "idle" /\ "create" \in Steps
          /\ expired \cap {att[r]} \in SUBSET Attempts
      BY <2>13 DEF HashPassword, IInv, TypeOK, StepInv, Rows, Steps, Holding
    <3> QED
      BY <2>13, <3>1, GoOnInv DEF HashPassword
  <2>14. ASSUME CreateAccount(r) PROVE IInv'
    BY <2>14, CreateAccountInv
  <2> QED
    BY <1>2, <2>1, <2>2, <2>3, <2>4, <2>5, <2>6, <2>7, <2>8, <2>9, <2>10, <2>11,
       <2>12, <2>13, <2>14 DEF Handle
<1>3. ASSUME NEW e \in Emails, SocialSignup(e) PROVE IInv'
  <2>1. account' \in [Emails -> Attempts \cup {None, Social}]
    BY <1>3 DEF SocialSignup, IInv, TypeOK
  <2>2. \A f \in Emails : account'[f] \in Attempts => account'[f] \in consumed
    BY <1>3, SignupAssumption DEF SocialSignup, IInv, TypeOK, RowInv
  <2>3. Rows' = Rows
    BY <1>3 DEF SocialSignup, Rows
  <2>4. TypeOK'
    BY <1>3, <2>1 DEF SocialSignup, clocks, reqVars, IInv, TypeOK
  <2>5. StepInv' /\ OneActive'
    BY <1>3, <2>3 DEF SocialSignup, reqVars, IInv, StepInv, OneActive
  <2>6. RowInv'
    BY <1>3, <2>2, <2>3 DEF SocialSignup, IInv, RowInv
  <2> QED
    BY <2>4, <2>5, <2>6 DEF IInv
<1>4. ASSUME NEW a \in Attempts, Cool(a) \/ Expire(a) PROVE IInv'
  <2>1. UNCHANGED <<rowVars, reqVars>>
        /\ expired' \in SUBSET Attempts /\ cooled' \in SUBSET Attempts
    BY <1>4 DEF Cool, Expire, IInv, TypeOK
  <2>2. Rows' = Rows
    BY <2>1 DEF Rows, rowVars
  <2>3. TypeOK'
    BY <2>1 DEF rowVars, reqVars, IInv, TypeOK
  <2>4. StepInv' /\ RowInv' /\ OneActive'
    BY <2>1, <2>2 DEF rowVars, reqVars, IInv, StepInv, RowInv, OneActive
  <2> QED
    BY <2>3, <2>4 DEF IInv
<1> QED
  BY <1>1, <1>2, <1>3, <1>4 DEF Next

(* In every reachable state.                                               *)
THEOREM Invariance == Spec => []IInv
<1> QED
  BY InitInv, NextInv, PTL DEF Spec

(* Rows and requests keep their types; above all, attempt_count never      *)
(* passes max_attempts, although it is compared long before it is raised.  *)
THEOREM TypeCorrect == Spec => []TypeOK
<1>1. IInv => TypeOK
  BY DEF IInv
<1> QED
  BY <1>1, Invariance, PTL

(* However many requests for an address race, it has one active challenge. *)
THEOREM OneActiveForEver == Spec => []OneActive
<1>1. IInv => OneActive
  BY DEF IInv
<1> QED
  BY <1>1, Invariance, PTL

-----------------------------------------------------------------------------
(* Pending attempts of SignupAttempts are the active challenges.           *)
LEMMA PendingIsActive ==
  \A a \in Attempts :
    SignupPhase(a) \in {"open", "confirmed"} <=> a \in Rows \ consumed
BY DEF SignupPhase

(* A replacement is an offer that closes what it takes the place of.       *)
LEMMA CommitReplaceOffers ==
  ASSUME IInv, NEW r \in Reqs, CommitReplace(r)
  PROVE  Signups!Next
<1>1. mail[r] \in Emails /\ mail[r] # None
  BY SignupAssumption DEF CommitReplace, IInv, StepInv
<1>2. PICK x \in Attempts \ Rows :
        /\ address' = [address EXCEPT ![x] = mail[r]]
        /\ consumed' = consumed \cup Replaced(r)
  BY DEF CommitReplace
<1>3. PICK S \in SUBSET Attempts : S = Replaced(r) \ consumed
  BY DEF Replaced, Rows
<1>4. verified' = verified /\ account' = account
  BY DEF CommitReplace
<1>5. /\ address'[x] = mail[r]
      /\ \A a \in Attempts \ {x} : address'[a] = address[a]
  BY <1>1, <1>2 DEF IInv, TypeOK
<1>6. Rows' = Rows \cup {x} /\ x \notin Rows /\ x \notin consumed' /\ x \notin verified
  BY <1>1, <1>2, <1>5 DEF Rows, Replaced, IInv, RowInv
<1>7. \A a \in S : account[address[a]] # a
  <2> SUFFICES ASSUME NEW a \in S, account[address[a]] = a PROVE FALSE
    OBVIOUS
  <2>1. a \in Attempts /\ a \notin consumed /\ address[a] \in Emails
    BY <1>3 DEF Replaced, Rows, IInv, TypeOK
  <2> QED
    BY <2>1 DEF IInv, RowInv
<1>8. PICK P : P = [a \in Attempts |-> SignupPhase(a)]
  OBVIOUS
<1>9. PICK Q : Q = [a \in Attempts |-> SignupPhase(a)']
  OBVIOUS
<1>10. \A a \in Attempts :
         Q[a] = IF a = x THEN "open" ELSE IF a \in S THEN "closed" ELSE P[a]
  <2> SUFFICES ASSUME NEW a \in Attempts
               PROVE  Q[a] = IF a = x THEN "open" ELSE IF a \in S THEN "closed" ELSE P[a]
    OBVIOUS
  <2>1. CASE a = x
    BY <2>1, <1>4, <1>6, <1>9 DEF SignupPhase
  <2>2. CASE a # x /\ a \in S
    <3>1. a \in Rows /\ a \in Rows' /\ a \in consumed' /\ address'[a] = address[a]
      BY <2>2, <1>2, <1>3, <1>5, <1>6 DEF Replaced
    <3> QED
      BY <2>2, <3>1, <1>4, <1>7, <1>9 DEF SignupPhase
  <2>3. CASE a # x /\ a \notin S
    <3>1. /\ a \in Rows' <=> a \in Rows
          /\ a \in consumed' <=> a \in consumed
          /\ address'[a] = address[a]
      BY <2>3, <1>2, <1>3, <1>5, <1>6
    <3> QED
      BY <2>3, <3>1, <1>4, <1>8, <1>9 DEF SignupPhase
  <2> QED
    BY <2>1, <2>2, <2>3
<1>11. P[x] = "unused"
  BY <1>6, <1>8 DEF SignupPhase
<1>12. S \subseteq {a \in Attempts : P[a] \in {"open", "confirmed"}}
  BY <1>3, <1>8, PendingIsActive DEF Replaced
<1>13. \A a \in Attempts : P[a] \in {"open", "confirmed"} /\ address[a] = mail[r] => a \in S
  <2> SUFFICES ASSUME NEW a \in Attempts, P[a] \in {"open", "confirmed"},
                      address[a] = mail[r], a \notin S
               PROVE  FALSE
    OBVIOUS
  <2>1. a \in Active(mail[r])
    BY <1>8, PendingIsActive DEF Active
  <2>2. a \notin Replaced(r)
    BY <1>3, <2>1 DEF Active
  <2> QED
    BY <2>1, <2>2 DEF CommitReplace, Conflict
<1>14. Q = [[a \in Attempts |-> IF a \in S THEN "closed" ELSE P[a]] EXCEPT ![x] = "open"]
  BY <1>9, <1>10
<1>15. Signups!Offer(x, mail[r], S)
  BY <1>2, <1>4, <1>8, <1>9, <1>11, <1>12, <1>13, <1>14
  DEF Signups!Offer, Signups!Pending, Signups!Closing
<1> QED
  BY <1>1, <1>15 DEF Signups!Next

(* The failure that reaches the limit closes the attempt; any other        *)
(* changes nothing that is promised.                                       *)
LEMMA CountFailureCloses ==
  ASSUME IInv, NEW r \in Reqs, CountFailure(r)
  PROVE  [Signups!Next]_(Signups!attemptVars)
<1>1. att[r] \in Rows /\ att[r] \in Attempts
  BY DEF CountFailure, IInv, StepInv, Rows, Holding
<1>2. UNCHANGED <<address, verified, account>> /\ Rows' = Rows
  BY DEF CountFailure, Rows
<1>3. CASE consumed' = consumed
  <2>1. \A a \in Attempts : SignupPhase(a)' = SignupPhase(a)
    BY <1>2, <1>3 DEF SignupPhase
  <2> QED
    BY <1>2, <2>1 DEF Signups!attemptVars
<1>4. CASE att[r] \notin consumed /\ consumed' = consumed \cup {att[r]}
  <2>1. account[address[att[r]]] # att[r]
    BY <1>1, <1>4 DEF IInv, RowInv, TypeOK, Rows
  <2>2. PICK P : P = [a \in Attempts |-> SignupPhase(a)]
    OBVIOUS
  <2>3. PICK Q : Q = [a \in Attempts |-> SignupPhase(a)']
    OBVIOUS
  <2>4. \A a \in Attempts : Q[a] = IF a = att[r] THEN "closed" ELSE P[a]
    BY <1>1, <1>2, <1>4, <2>1, <2>2, <2>3 DEF SignupPhase
  <2>5. P[att[r]] \in {"open", "confirmed"}
    BY <1>1, <1>4, <2>2 DEF SignupPhase
  <2>6. Q = [a \in Attempts |-> IF a \in {att[r]} THEN "closed" ELSE P[a]]
    BY <2>3, <2>4
  <2>7. Signups!Close(att[r])
    BY <1>1, <1>2, <2>2, <2>3, <2>5, <2>6
    DEF Signups!Close, Signups!Pending, Signups!Closing
  <2> QED
    BY <1>1, <2>7 DEF Signups!Next
<1> QED
  BY <1>3, <1>4 DEF CountFailure

(* A mark confirms an open attempt, or finds nothing to mark.              *)
LEMMA MarkVerifiedConfirms ==
  ASSUME IInv, NEW r \in Reqs, MarkVerified(r)
  PROVE  [Signups!Next]_(Signups!attemptVars)
<1>1. att[r] \in Rows /\ att[r] \in Attempts
  BY DEF MarkVerified, IInv, StepInv, Rows, Holding
<1>2. UNCHANGED <<address, consumed, account>> /\ Rows' = Rows
  BY DEF MarkVerified, Rows
<1>3. CASE ~Markable(r)
  <2>1. \A a \in Attempts : SignupPhase(a)' = SignupPhase(a)
    BY <1>2, <1>3 DEF SignupPhase, MarkVerified
  <2> QED
    BY <1>2, <2>1 DEF Signups!attemptVars
<1>4. CASE Markable(r)
  <2>1. /\ verified' = verified \cup {att[r]}
        /\ att[r] \notin consumed /\ att[r] \notin verified
    BY <1>4 DEF MarkVerified, Markable
  <2>2. PICK P : P = [a \in Attempts |-> SignupPhase(a)]
    OBVIOUS
  <2>3. PICK Q : Q = [a \in Attempts |-> SignupPhase(a)']
    OBVIOUS
  <2>4. \A a \in Attempts : Q[a] = IF a = att[r] THEN "confirmed" ELSE P[a]
    BY <1>1, <1>2, <2>1, <2>2, <2>3 DEF SignupPhase
  <2>5. P[att[r]] = "open"
    BY <1>1, <2>1, <2>2 DEF SignupPhase
  <2>6. Q = [P EXCEPT ![att[r]] = "confirmed"]
    BY <2>2, <2>3, <2>4
  <2>7. Signups!Confirm(att[r])
    BY <1>2, <2>2, <2>3, <2>5, <2>6 DEF Signups!Confirm
  <2> QED
    BY <1>1, <2>7 DEF Signups!Next
<1> QED
  BY <1>3, <1>4

(* An account is made by a confirmed attempt of its own address.           *)
LEMMA CreateAccountCompletes ==
  ASSUME IInv, NEW r \in Reqs, CreateAccount(r)
  PROVE  [Signups!Next]_(Signups!attemptVars)
<1>1. /\ att[r] \in Rows /\ att[r] \in Attempts
      /\ mail[r] \in Emails /\ address[att[r]] = mail[r]
  BY DEF CreateAccount, IInv, StepInv, Rows, Holding
<1>2. UNCHANGED <<address, verified>> /\ Rows' = Rows
  BY DEF CreateAccount, Rows
<1>3. CASE ~(Completable(r) /\ account[mail[r]] = None)
  <2>1. \A a \in Attempts : SignupPhase(a)' = SignupPhase(a)
    BY <1>2, <1>3 DEF SignupPhase, CreateAccount
  <2> QED
    BY <1>2, <1>3, <2>1 DEF Signups!attemptVars, CreateAccount
<1>4. CASE Completable(r) /\ account[mail[r]] = None
  <2>1. /\ account'  = [account EXCEPT ![mail[r]] = att[r]]
        /\ consumed' = consumed \cup {att[r]}
        /\ att[r] \in verified /\ att[r] \notin consumed
    BY <1>4 DEF CreateAccount, Completable
  <2>2. /\ account'[mail[r]] = att[r]
        /\ \A e \in Emails \ {mail[r]} : account'[e] = account[e]
    BY <1>1, <2>1 DEF IInv, TypeOK
  <2>3. PICK P : P = [a \in Attempts |-> SignupPhase(a)]
    OBVIOUS
  <2>4. PICK Q : Q = [a \in Attempts |-> SignupPhase(a)']
    OBVIOUS
  <2>5. \A a \in Attempts : Q[a] = IF a = att[r] THEN "used" ELSE P[a]
    <3> SUFFICES ASSUME NEW a \in Attempts
                 PROVE  Q[a] = IF a = att[r] THEN "used" ELSE P[a]
      OBVIOUS
    <3>1. CASE a = att[r]
      BY <3>1, <1>1, <1>2, <2>1, <2>2, <2>4 DEF SignupPhase
    <3>2. CASE a # att[r]
      <4>1. a \in consumed' <=> a \in consumed
        BY <3>2, <2>1
      <4>2. a \in Rows => (account'[address[a]] = a <=> account[address[a]] = a)
        <5>1. a # None
          BY SignupAssumption
        <5> QED
          BY <3>2, <5>1, <1>4, <2>2 DEF Rows, IInv, TypeOK
      <4> QED
        BY <3>2, <4>1, <4>2, <1>2, <2>3, <2>4 DEF SignupPhase
    <3> QED
      BY <3>1, <3>2
  <2>6. P[att[r]] = "confirmed"
    BY <1>1, <2>1, <2>3 DEF SignupPhase
  <2>7. Q = [P EXCEPT ![att[r]] = "used"]
    BY <2>3, <2>4, <2>5
  <2>8. Signups!Complete(att[r])
    BY <1>1, <1>2, <1>4, <2>1, <2>3, <2>4, <2>6, <2>7 DEF Signups!Complete
  <2> QED
    BY <1>1, <2>8 DEF Signups!Next
<1> QED
  BY <1>3, <1>4

(* A social login takes an address that has no account.                    *)
LEMMA SocialSignupJoins ==
  ASSUME IInv, NEW e \in Emails, SocialSignup(e)
  PROVE  [Signups!Next]_(Signups!attemptVars)
<1>1. UNCHANGED <<address, consumed, verified>> /\ Rows' = Rows
  BY DEF SocialSignup, Rows
<1>2. /\ account[e] = None /\ account' = [account EXCEPT ![e] = Social]
      /\ account'[e] = Social
      /\ \A f \in Emails \ {e} : account'[f] = account[f]
  BY DEF SocialSignup, IInv, TypeOK
<1>3. \A a \in Attempts : SignupPhase(a)' = SignupPhase(a)
  <2> SUFFICES ASSUME NEW a \in Attempts PROVE SignupPhase(a)' = SignupPhase(a)
    OBVIOUS
  <2>1. a # None /\ a # Social
    BY SignupAssumption
  <2>2. a \in Rows => (account'[address[a]] = a <=> account[address[a]] = a)
    BY <1>2, <2>1 DEF Rows, IInv, TypeOK
  <2> QED
    BY <1>1, <2>2 DEF SignupPhase
<1>4. Signups!JoinElsewhere(e)
  BY <1>1, <1>2, <1>3 DEF Signups!JoinElsewhere
<1> QED
  BY <1>4 DEF Signups!Next

(* A step that leaves the rows alone is a stutter.                         *)
LEMMA RowsStutter ==
  ASSUME UNCHANGED rowVars
  PROVE  UNCHANGED Signups!attemptVars
<1>1. \A a \in Attempts : SignupPhase(a)' = SignupPhase(a)
  BY DEF SignupPhase, Rows, rowVars
<1> QED
  BY <1>1 DEF Signups!attemptVars, rowVars

(* Every step is a step of SignupAttempts or a stutter.                    *)
LEMMA AbstractStep ==
  ASSUME IInv, [Next]_vars
  PROVE  [Signups!Next]_(Signups!attemptVars)
<1>1. CASE UNCHANGED vars
  BY <1>1, RowsStutter DEF vars
<1>2. ASSUME NEW r \in Reqs, Handle(r) PROVE [Signups!Next]_(Signups!attemptVars)
  <2>1. CASE \/ RequestSignupOtp(r) \/ ReadCurrent(r) \/ ReadUser(r)
             \/ BeginReplace(r) \/ LoseReplace(r) \/ ReadConcurrent(r)
             \/ VerifySignupOtp(r) \/ ReadForVerify(r) \/ CompleteSignup(r)
             \/ HashPassword(r) \/ Fail(r)
    <3>1. UNCHANGED rowVars
      BY <2>1 DEF RequestSignupOtp, Begin, ReadCurrent, ReadUser, BeginReplace,
         LoseReplace, ReadConcurrent, VerifySignupOtp, ReadForVerify,
         CompleteSignup, HashPassword, Fail
    <3> QED
      BY <3>1, RowsStutter
  <2>2. CASE CommitReplace(r)
    BY <2>2, CommitReplaceOffers
  <2>3. CASE CountFailure(r)
    BY <2>3, CountFailureCloses
  <2>4. CASE MarkVerified(r)
    BY <2>4, MarkVerifiedConfirms
  <2>5. CASE CreateAccount(r)
    BY <2>5, CreateAccountCompletes
  <2> QED
    BY <1>2, <2>1, <2>2, <2>3, <2>4, <2>5 DEF Handle
<1>3. ASSUME NEW a \in Attempts, Cool(a) \/ Expire(a)
      PROVE  [Signups!Next]_(Signups!attemptVars)
  BY <1>3, RowsStutter DEF Cool, Expire
<1> QED
  BY <1>1, <1>2, <1>3, SocialSignupJoins DEF Next

(* Whatever statements interleave, an attempt is offered, confirmed, used  *)
(* or closed in one step each, a closed one stays closed, and an account   *)
(* comes from one confirmed attempt of its own address.                    *)
THEOREM Refinement == Spec => ImplementsSignupAttempts
<1>1. Init => Signups!Init
  BY DEF Init, Signups!Init, SignupPhase, Rows
<1>2. IInv /\ [Next]_vars => [Signups!Next]_(Signups!attemptVars)
  BY AbstractStep
<1> QED
  BY <1>1, <1>2, Invariance, PTL DEF Spec, ImplementsSignupAttempts, Signups!Spec
=============================================================================
