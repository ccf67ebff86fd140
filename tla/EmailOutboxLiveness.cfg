SPECIFICATION FairSpec
CONSTANTS
  MaxJob = 2
  Workers = {w1}
  Tokens = {t1, t2, t3}
  Batch = 1
  MaxFailures = 2
  None = None
PROPERTIES
  EveryJobSettles
