---------------------------- MODULE MCCredentials ----------------------------
(* A small instance of Credentials for TLC.                                *)
EXTENDS Credentials, TLC

(* Identifiers are interchangeable: no definition orders or names them.    *)
Symmetry ==
  Permutations(Challenges) \cup Permutations(Reqs) \cup Permutations(Passwords)
=============================================================================
