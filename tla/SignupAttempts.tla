--------------------------- MODULE SignupAttempts ---------------------------
(***************************************************************************)
(* What sign-up by e-mail promises, with no requests in it.  An attempt is *)
(* offered to an address, may be confirmed with its code, and then makes   *)
(* one account, or is closed before that for good.  Every transition is    *)
(* one atomic step; SignupChallenge shows that the handlers of AuthService *)
(* implement it.                                                           *)
(***************************************************************************)
CONSTANTS Emails, Attempts, None,
          Social     \* an account made by a social login

VARIABLES phase,     \* phase[a]: "unused", "open", "confirmed", "used" or "closed"
          address,   \* address[a]: the e-mail address attempt a was offered to
          account    \* account[e]: what made the account of e, or None

attemptVars == <<phase, address, account>>

Init ==
  /\ phase   = [a \in Attempts |-> "unused"]
  /\ address = [a \in Attempts |-> None]
  /\ account = [e \in Emails |-> None]

Pending == {a \in Attempts : phase[a] \in {"open", "confirmed"}}

Closing(S) == [a \in Attempts |-> IF a \in S THEN "closed" ELSE phase[a]]

(* A new attempt closes whatever is pending for its address, so that an    *)
(* address has one pending attempt at most.                                *)
Offer(a, e, S) ==
  /\ phase[a] = "unused"
  /\ S \subseteq Pending
  /\ {b \in Pending : address[b] = e} \subseteq S
  /\ phase'   = [Closing(S) EXCEPT ![a] = "open"]
  /\ address' = [address EXCEPT ![a] = e]
  /\ UNCHANGED account

Confirm(a) ==
  /\ phase[a] = "open"
  /\ phase' = [phase EXCEPT ![a] = "confirmed"]
  /\ UNCHANGED <<address, account>>

Close(a) ==
  /\ a \in Pending
  /\ phase' = Closing({a})
  /\ UNCHANGED <<address, account>>

(* Only a confirmed attempt makes an account, once, for its own address.   *)
Complete(a) ==
  /\ phase[a] = "confirmed"
  /\ account[address[a]] = None
  /\ phase'   = [phase   EXCEPT ![a] = "used"]
  /\ account' = [account EXCEPT ![address[a]] = a]
  /\ UNCHANGED address

JoinElsewhere(e) ==
  /\ account[e] = None
  /\ account' = [account EXCEPT ![e] = Social]
  /\ UNCHANGED <<phase, address>>

Next ==
  \/ \E a \in Attempts, e \in Emails, S \in SUBSET Attempts : Offer(a, e, S)
  \/ \E a \in Attempts : Confirm(a) \/ Close(a) \/ Complete(a)
  \/ \E e \in Emails : JoinElsewhere(e)

Spec == Init /\ [][Next]_attemptVars
=============================================================================
