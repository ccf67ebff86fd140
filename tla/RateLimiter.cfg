\* Two requests at one login bucket, or at an IP bucket with two policies.
SPECIFICATION FairSpec
CONSTANTS
  Reqs = {r1, r2}
  Env <- MCEnv
  QuarterHour = 1
  MaxDelay = 1
  Watched = {"login_email", "otp_request_ip"}
INVARIANTS
  TypeOK
  ExcessBounded
PROPERTIES
  BlockKept
  LockEnds
