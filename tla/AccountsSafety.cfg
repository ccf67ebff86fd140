\* Two requests at a time on two phones, one address and one identity, up to
\* two accounts and two challenges, with one mishap at most.
SPECIFICATION Spec
CONSTANTS
  Users = {u1, u2}
  Challenges = {c1, c2}
  Phones = {p1, p2}
  Emails = {e1}
  Subjects = {s1}
  Reqs = {r1, r2}
  MaxAttempts = 2
  None = None
SYMMETRY Symmetric
CONSTRAINT OneMishap
INVARIANTS
  TypeOK
  OneAccountPerIdentity
  CodeOpensOneSession
  EntersProvenAccount
  UndeliveredIsClosed
PROPERTIES
  ActivatedByCode
CHECK_DEADLOCK FALSE
