SPECIFICATION Spec
CONSTANTS
  Emails = {e1, e2}
  Attempts = {a1, a2}
  Reqs = {r1, r2}
  MaxAttempts = 2
  Social = Social
  None = None
SYMMETRY Symmetry
CONSTRAINT OneOfAKind
INVARIANTS
  TypeOK
  OneActive
PROPERTIES
  ImplementsSignupAttempts
