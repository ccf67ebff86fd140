\* A revocation of a family's sessions against a rotation in flight.
CONSTANTS
  Sessions = {s1, s2, s3}
  Reqs = {r1, r2}
  Users = {u1}
  None = None
SPECIFICATION Spec
SYMMETRY Symmetry
PROPERTY ReuseRevokesFamily
