---------------------------- MODULE MCEmailOutbox ----------------------------
(***************************************************************************)
(* Instances of EmailOutbox for TLC.  Workers and lock tokens are not told *)
(* apart, so both may be permuted where no liveness is checked.            *)
(***************************************************************************)
EXTENDS EmailOutbox, TLC

Symmetry == Permutations(Workers) \cup Permutations(Tokens)
=============================================================================
