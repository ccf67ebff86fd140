-------------------------- MODULE MCSignupChallenge --------------------------
(* Small instances of SignupChallenge for TLC.                             *)
EXTENDS SignupChallenge, TLC

(* Addresses, challenge ids and requests are not told apart.               *)
Symmetry ==
  Permutations(Emails) \cup Permutations(Attempts) \cup Permutations(Reqs)

(* Wrong codes are tried on one challenge, one challenge expires and one   *)
(* address gets an account: no statement combines two of a kind.           *)
OneOfAKind ==
  /\ Cardinality({a \in Attempts : wrong[a] > 0}) <= 1
  /\ Cardinality({e \in Emails : account[e] # None}) <= 1
  /\ Cardinality(expired) <= 1
=============================================================================
