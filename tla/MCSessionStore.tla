--------------------------- MODULE MCSessionStore ---------------------------
(* Small instances of SessionStore for TLC.                                *)
EXTENDS SessionStore, Naturals, TLC

(* Identifiers are interchangeable: no definition orders or names them.    *)
Symmetry == Permutations(Sessions) \cup Permutations(Reqs)

(* Bound: one sign-in and an account that stays active, so that all        *)
(* sessions belong to one family and its rotations go deeper.              *)
OneFamily ==
  /\ Cardinality({x \in Sessions : row[x].family = x}) <= 1
  /\ \A u \in Users : active[u]
=============================================================================
