----------------------------- MODULE MCAccounts -----------------------------
(* A small instance of Accounts for TLC.                                   *)
EXTENDS Accounts, TLC

(* Ids are interchangeable, and so are phones and requests.                *)
Symmetric ==
  Permutations(Users) \union Permutations(Challenges) \union Permutations(Phones)
    \union Permutations(Reqs)

(* A bound: one account is suspended, or one challenge expires, loses its  *)
(* request or is tried with wrong codes.                                   *)
OneMishap ==
  Cardinality({u \in Accounts : user[u].status = "suspended"}) + Cardinality(expired)
    + Cardinality(lost) + Cardinality({c \in Issued : challenge[c].wrong > 0}) <= 1
=============================================================================
