\* Two requests, two challenges and two writes of the password: a reset can
\* race with a login, a change, another reset or a newer challenge.
SPECIFICATION Spec
CONSTANTS
  Passwords = {p1, p2}
  Challenges = {c1, c2}
  Reqs = {r1, r2}
  MaxAttempts = 2
  MaxWrites = 2
  None = None
SYMMETRY Symmetry
INVARIANTS
  TypeOK
  AuditMatchesTokens
  SessionsEndWithPassword
PROPERTIES
  ImplementsRecoveryTickets
