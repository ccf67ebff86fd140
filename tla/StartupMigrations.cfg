\* Two instances that migrate, of builds that know two, five or all of the
\* migrations, three reverts and a crash.
SPECIFICATION FairSpec
CONSTANTS
  Instances = {i1, i2}
  Migrating = {i1, i2}
  Builds = {2, 5, 7}
  MaxReverts = 3
  MaxCrashes = 1
INVARIANTS
  TypeOK
  SchemaMatchesLedger
  LatestCanBeReverted
  VerificationFindsGaps
PROPERTIES
  ServesAfterMigrating
  EventuallyServes
CHECK_DEADLOCK FALSE
