\* Two requests on one family: enough for two revocations of the family to
\* lock its rows in opposite orders.
CONSTANTS
  Sessions = {s1, s2, s3}
  Reqs = {r1, r2}
  Users = {u1}
  None = None
SPECIFICATION FairSpec
CONSTRAINT OneFamily
PROPERTY RequestEnds
