---------------------------- MODULE TokenFamilies ----------------------------
(***************************************************************************)
(* What the refresh-token store promises, with no database in it.          *)
(* A family of tokens starts with a sign-in, moves its one usable token    *)
(* forward by rotation, and ends by revocation.  Every transition is one   *)
(* atomic step; SessionStore shows that the SQL transactions of            *)
(* PostgresIdentityRepository implement it.                                *)
(***************************************************************************)
CONSTANTS Sessions,  \* session identifiers, one per refresh token
          None       \* the absence of a session

VARIABLES phase,     \* phase[x]: a token is unused, usable, or spent for ever
          family,    \* family[x]: the first session of x's family
          successor  \* successor[x]: the session that replaced x

tokenVars == <<phase, family, successor>>

Init ==
  /\ phase     = [x \in Sessions |-> "unused"]
  /\ family    = [x \in Sessions |-> None]
  /\ successor = [x \in Sessions |-> None]

(* A sign-in opens a family of its own.                                    *)
Open(x) ==
  /\ phase[x] = "unused"
  /\ phase'  = [phase  EXCEPT ![x] = "usable"]
  /\ family' = [family EXCEPT ![x] = x]
  /\ UNCHANGED successor

(* A refresh spends the usable token x and makes y usable in its place.    *)
Rotate(x, y) ==
  /\ phase[x] = "usable"
  /\ phase[y] = "unused"
  /\ phase'     = [phase     EXCEPT ![x] = "spent", ![y] = "usable"]
  /\ family'    = [family    EXCEPT ![y] = family[x]]
  /\ successor' = [successor EXCEPT ![x] = y]

(* Logout, logout of all devices, a reset or a detected reuse spends       *)
(* usable tokens without replacing them.                                   *)
Revoke(S) ==
  /\ \A x \in S : phase[x] = "usable"
  /\ phase' = [x \in Sessions |-> IF x \in S THEN "spent" ELSE phase[x]]
  /\ UNCHANGED <<family, successor>>

Next ==
  \/ \E x \in Sessions : Open(x)
  \/ \E x, y \in Sessions : Rotate(x, y)
  \/ \E S \in SUBSET Sessions : Revoke(S)

Spec == Init /\ [][Next]_tokenVars
=============================================================================
