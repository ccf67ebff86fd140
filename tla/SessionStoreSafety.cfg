\* Two requests race over the sessions of one account; with three sessions a
\* family can be rotated twice, or be joined by a second and a third sign-in.
CONSTANTS
  Sessions = {s1, s2, s3}
  Reqs = {r1, r2}
  Users = {u1}
  None = None
SPECIFICATION Spec
SYMMETRY Symmetry
INVARIANTS
  TypeOK
  AtMostOneLive
  RotationChain
PROPERTIES
  RevocationIsFinal
  RevokesItsSnapshot
  ImplementsTokenFamilies
