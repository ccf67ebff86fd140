SPECIFICATION Spec
CONSTANTS
  MaxJob = 2
  Workers = {w1, w2}
  Tokens = {t1, t2, t3}
  Batch = 2
  MaxFailures = 2
  None = None
SYMMETRY Symmetry
INVARIANTS
  TypeOK
  NoDuplicateWithoutMishap
PROPERTIES
  LeaseIsRespected
  ImplementsCodeDeliveries
