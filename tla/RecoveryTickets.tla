--------------------------- MODULE RecoveryTickets ---------------------------
(***************************************************************************)
(* What password recovery promises, without its rows, reads and            *)
(* transactions: a ticket is opened, shut or granted for a right code, and *)
(* a granted ticket is spent once, which ends every session of the account.*)
(***************************************************************************)
EXTENDS Naturals

CONSTANTS Tickets, MaxMisses, Sessions

VARIABLES ticket,   \* ticket[t]: how far t has come
          misses,   \* misses[t]: wrong codes answered for t
          sessions  \* the sessions that may be used

ticketVars == <<ticket, misses, sessions>>

Init ==
  /\ ticket   = [t \in Tickets |-> "unused"]
  /\ misses   = [t \in Tickets |-> 0]
  /\ sessions = {}

(* The ticket of a new request is the only open one.                       *)
Open(t) ==
  /\ ticket[t] = "unused"
  /\ ticket' = [u \in Tickets |-> IF u = t THEN "open"
                                  ELSE IF ticket[u] = "open" THEN "shut"
                                  ELSE ticket[u]]
  /\ UNCHANGED <<misses, sessions>>

(* MaxMisses wrong codes shut a ticket.                                    *)
Miss(t) ==
  /\ ticket[t] = "open"
  /\ misses' = [misses EXCEPT ![t] = @ + 1]
  /\ ticket' = IF misses'[t] < MaxMisses THEN ticket
                                         ELSE [ticket EXCEPT ![t] = "shut"]
  /\ UNCHANGED sessions

(* The right code is answered with a reset token.                          *)
Grant(t) ==
  /\ ticket[t] = "open"
  /\ misses[t] < MaxMisses
  /\ ticket' = [ticket EXCEPT ![t] = "granted"]
  /\ UNCHANGED <<misses, sessions>>

(* The token sets a new password.                                          *)
Spend(t) ==
  /\ ticket[t] = "granted"
  /\ ticket' = [ticket EXCEPT ![t] = "spent"]
  /\ sessions' = {}
  /\ UNCHANGED misses

SignIn == \E s \in Sessions : sessions' = sessions \cup {s}
SignOut == sessions' = {}

Next ==
  \/ \E t \in Tickets : Open(t) \/ Miss(t) \/ Grant(t) \/ Spend(t)
  \/ (SignIn \/ SignOut) /\ UNCHANGED <<ticket, misses>>

Spec == Init /\ [][Next]_ticketVars
=============================================================================
