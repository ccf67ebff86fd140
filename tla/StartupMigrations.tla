-------------------------- MODULE StartupMigrations --------------------------
(***************************************************************************)
(* Instances of an API that bring the schema up to date before they serve  *)
(* (runStartupMigrations), of builds that know more or fewer migrations,   *)
(* while an operator reverts migrations and seeds roles from the command   *)
(* line.  A transaction holds all the migrations an instance has found     *)
(* pending: it is one step, taken when its locks are granted, because the  *)
(* first statement of two such transactions is never compatible.           *)
(***************************************************************************)
EXTENDS SchemaMigrations, FiniteSets

CONSTANTS Instances,
          Migrating,    \* those with DATABASE_RUN_MIGRATIONS_ON_STARTUP
          Builds,       \* numbers of migrations that the builds know
          MaxReverts,   \* bound: migration:revert
          MaxCrashes    \* bound: processes that die, deployments

ASSUME StartupAssumption ==
  /\ Migrating \subseteq Instances
  /\ Builds \subseteq Versions /\ Builds # {}
  /\ MaxReverts \in Nat /\ MaxCrashes \in Nat

VARIABLES schema,    \* the objects in the database
          ledger,    \* platform_migrations: versions in the order of their ids
          roles,     \* the three roles are in the table
          clashes,   \* data that clash with a constraint
          pc,        \* pc[i]: what instance i does next
          build,     \* build[i]: the migrations it knows are 1 .. build[i]
          pending,   \* pending[i]: what runMigrations has found pending
          stale,     \* stale[i]: a revert came after it looked (history)
          reverts, crashes

databaseVars == <<schema, ledger, roles, clashes>>
instanceVars == <<pc, build, pending, stale>>
vars == <<databaseVars, instanceVars, reverts, crashes>>

Applied == ToSet(ledger)

Init ==
  /\ schema = {} /\ ledger = <<>> /\ roles = FALSE
  /\ clashes \in SUBSET {"emails", "contracts"}
  /\ pc = [i \in Instances |-> "off"]
  /\ build = [i \in Instances |-> CHOOSE n \in Builds : TRUE]
  /\ pending = [i \in Instances |-> <<>>]
  /\ stale = [i \in Instances |-> FALSE]
  /\ reverts = 0 /\ crashes = 0

Go(i, step) == pc' = [pc EXCEPT ![i] = step]

(* bootstrapApi up to the migrations.                                      *)
Start(i) ==
  /\ pc[i] = "off"
  /\ Go(i, IF i \in Migrating THEN "show" ELSE "serving")
  /\ \E n \in Builds : build' = [build EXCEPT ![i] = n]
  /\ stale' = [stale EXCEPT ![i] = FALSE]
  /\ UNCHANGED <<databaseVars, pending, reverts, crashes>>

Known(i) == 1 .. build[i]

(* Mutation: nothing is pending before the last migration applied.         *)
PendingAfterLast(i) == InOrder({v \in Known(i) : \A a \in Applied : a < v})

Pending(i) == InOrder(Known(i) \ Applied)

(* showMigrations                                                          *)
Show(i) ==
  /\ pc[i] = "show"
  /\ Go(i, IF Pending(i) = <<>> THEN "serving" ELSE "load")
  /\ UNCHANGED <<databaseVars, build, pending, stale, reverts, crashes>>

(* runMigrations reads the ledger before it begins the transaction.        *)
Load(i) ==
  /\ pc[i] = "load"
  /\ pending' = [pending EXCEPT ![i] = Pending(i)]
  /\ stale' = [stale EXCEPT ![i] = FALSE]
  /\ Go(i, "run")
  /\ UNCHANGED <<databaseVars, build, reverts, crashes>>

(* Mutation: a failure is logged, and the instance serves.                 *)
RunOrServe(i) ==
  /\ pc[i] = "run"
  /\ LET s == ExecuteAll(pending[i], schema, clashes) IN
     /\ Go(i, "serving")
     /\ IF s = Failed THEN UNCHANGED <<schema, ledger>>
                      ELSE schema' = s /\ ledger' = ledger \o pending[i]
  /\ pending' = [pending EXCEPT ![i] = <<>>]
  /\ UNCHANGED <<roles, clashes, build, stale, reverts, crashes>>

(* The transaction: all that was pending, or a rollback and the end of the *)
(* process; the platform starts it again.                                  *)
Run(i) ==
  /\ pc[i] = "run"
  /\ LET s == ExecuteAll(pending[i], schema, clashes) IN
     IF s = Failed
       THEN Go(i, "off") /\ UNCHANGED <<schema, ledger>>
       ELSE Go(i, "serving") /\ schema' = s /\ ledger' = ledger \o pending[i]
  /\ pending' = [pending EXCEPT ![i] = <<>>]
  /\ UNCHANGED <<roles, clashes, build, stale, reverts, crashes>>

(* The process dies, or a deployment replaces it.                          *)
Crash(i) ==
  /\ pc[i] # "off"
  /\ crashes < MaxCrashes
  /\ crashes' = crashes + 1
  /\ Go(i, "off")
  /\ pending' = [pending EXCEPT ![i] = <<>>]
  /\ UNCHANGED <<databaseVars, build, stale, reverts>>

(* migration:revert undoes the latest row of the ledger, or nothing.       *)
Revert ==
  /\ ledger # <<>>
  /\ reverts < MaxReverts
  /\ reverts' = reverts + 1
  /\ LET s == Execute(Migrations[Last(ledger)].down, schema, clashes) IN
     IF s = Failed
       THEN UNCHANGED <<schema, ledger, roles, stale>>
       ELSE /\ schema' = s
            /\ ledger' = Front(ledger)
            /\ roles' = (roles /\ "roles" \in Names(s))
            /\ stale' = [i \in Instances |-> TRUE]
  /\ UNCHANGED <<clashes, pc, build, pending, crashes>>

(* seedRoles: an upsert, so that it may run again.                         *)
Seed ==
  /\ "roles" \in Names(schema) /\ ~roles
  /\ roles' = TRUE
  /\ UNCHANGED <<schema, ledger, clashes, instanceVars, reverts, crashes>>

(* Two accounts give the same phone to be contacted.                       *)
SharePhone ==
  /\ "users.phone_login_enabled" \in Names(schema) /\ "phones" \notin clashes
  /\ \E i \in Instances : pc[i] = "serving"
  /\ clashes' = clashes \union {"phones"}
  /\ UNCHANGED <<schema, ledger, roles, instanceVars, reverts, crashes>>

Next ==
  \/ \E i \in Instances : Start(i) \/ Show(i) \/ Load(i) \/ Run(i) \/ Crash(i)
  \/ Revert \/ Seed \/ SharePhone

Spec == Init /\ [][Next]_vars

(* The platform starts what has ended, and a process goes on.              *)
FairSpec ==
  Spec /\ \A i \in Instances : WF_vars(Start(i)) /\ WF_vars(Show(i) \/ Load(i) \/ Run(i))
-----------------------------------------------------------------------------
(* No part is left in the schema without the table it belongs to.          *)
TypeOK ==
  /\ \A x \in schema : {x.owner} \union x.refs \subseteq Names(schema)
  /\ Applied \subseteq Versions
  /\ roles \in BOOLEAN
  /\ clashes \subseteq {"emails", "contracts", "phones"}
  /\ pc \in [Instances -> {"off", "show", "load", "run", "serving"}]
  /\ build \in [Instances -> Builds]
  /\ \A i \in Instances : ToSet(pending[i]) \subseteq Known(i)
  /\ reverts \in 0 .. MaxReverts /\ crashes \in 0 .. MaxCrashes

(* Whatever was applied, reverted and applied again, by whichever of the   *)
(* instances that found the same migrations pending, none is recorded      *)
(* twice, and the schema is the one that the recorded migrations make of   *)
(* an empty one in the order of their versions.                            *)
SchemaMatchesLedger ==
  IsInjective(ledger) /\ schema = ExecuteAll(InOrder(Applied), {}, {})

(* A migration can be undone, but for the phones that accounts now share.  *)
LatestCanBeReverted ==
  ledger # <<>> =>
    \/ Execute(Migrations[Last(ledger)].down, schema, clashes) # Failed
    \/ "phones" \in clashes

(* README.md: a failure ends the start "instead of serving traffic against *)
(* an old schema": an instance begins to serve with all the migrations it  *)
(* knows, unless one was reverted after it looked.                         *)
ServesAfterMigrating ==
  [][\A i \in Migrating : pc[i] # "serving" /\ pc'[i] = "serving" =>
       \/ \A v \in Known(i) : \E n \in DOMAIN ledger' : ledger'[n] = v
       \/ stale[i]]_vars

(* db:verify finds what the first four migrations made, and passes a       *)
(* complete schema once the roles are there.                               *)
VerificationFindsGaps ==
  /\ Verified(schema, roles) => 1 .. 4 \subseteq Applied
  /\ Versions \subseteq Applied => (Verified(schema, roles) <=> roles)

(* Instances that start together, and fail on each other's work, all serve *)
(* in the end, unless the addresses in the table cannot be normalized.     *)
EventuallyServes ==
  "emails" \notin clashes => <>[](\A i \in Instances : pc[i] = "serving")
=============================================================================
