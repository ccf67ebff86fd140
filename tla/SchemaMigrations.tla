--------------------------- MODULE SchemaMigrations ---------------------------
(***************************************************************************)
(* The migrations of src/database/migrations as sequences of statements on *)
(* a schema: the tables, and the columns, indexes, constraints, triggers   *)
(* and functions that some statement names again.  What is declared inside *)
(* a table and lives as long as it is left out, and so are the data, but   *)
(* for what makes a statement fail: rows that clash with a new constraint. *)
(***************************************************************************)
EXTENDS Naturals, Sequences, SequencesExt

(* An object of a schema belongs to another, with which it is dropped, and *)
(* refers to others, which cannot be dropped before it.                    *)
Object(name, owner, refs) == [name |-> name, owner |-> owner, refs |-> refs]

Create(object) == [does |-> "create", object |-> object, unless |-> "nothing"]
Table(name, refs) == Create(Object(name, "public", refs))
Part(name, owner) == Create(Object(name, owner, {}))
UniqueOver(name, owner, clash) ==
  [does |-> "create", object |-> Object(name, owner, {}), unless |-> clash]
Replace(object) == [does |-> "replace", object |-> object]
Update(clash) == [does |-> "update", unless |-> clash]
Drop(name) == [does |-> "drop", name |-> name]
DropIfExists(name) == [does |-> "drop_if_exists", name |-> name]
DropAll(names) == [i \in DOMAIN names |-> DropIfExists(names[i])]

-----------------------------------------------------------------------------
(* 1700000000000-initial-platform-schema                                   *)
IdentityTables == <<
  Table("roles", {}),
  Table("users", {}),
  Part("uq_users_phone", "users"),
  Part("users.display_name.not_null", "users"),
  Table("user_roles", {"users", "roles"}),
  Table("owner_profiles", {"users"}),
  Table("renter_profiles", {"users"}) >>

ListingTables == <<
  Table("properties", {"users"}),
  Table("rooms", {"properties"}),
  Table("bookings", {"rooms", "users"}),
  Table("contracts", {"bookings", "rooms", "users"}) >>

BillingTables == <<
  Table("invoices", {"contracts", "users"}),
  Table("invoice_items", {"invoices"}),
  Table("payments", {"invoices", "users"}),
  Table("payment_events", {"payments"}),
  Table("payment_allocations", {"invoices", "payments"}) >>

OperationTables == <<
  Table("maintenance_reports", {"properties", "rooms", "users"}),
  Table("notifications", {"users"}),
  Table("media_files", {"users"}),
  Table("audit_logs", {}),
  Create(Object("trg_audit_logs_append_only", "audit_logs", {"prevent_audit_mutation"})),
  Table("outbox_events", {}) >>

UpdatedAtTriggers ==
  LET On(name, table) == Create(Object(name, table, {"set_updated_at"})) IN
  << On("trg_users_updated_at", "users"),
     On("trg_owner_profiles_updated_at", "owner_profiles"),
     On("trg_renter_profiles_updated_at", "renter_profiles"),
     On("trg_properties_updated_at", "properties"),
     On("trg_rooms_updated_at", "rooms"),
     On("trg_bookings_updated_at", "bookings"),
     On("trg_contracts_updated_at", "contracts"),
     On("trg_invoices_updated_at", "invoices"),
     On("trg_payments_updated_at", "payments"),
     On("trg_maintenance_updated_at", "maintenance_reports"),
     On("trg_notifications_updated_at", "notifications"),
     On("trg_media_updated_at", "media_files") >>

InitialUp ==
  << Replace(Object("set_updated_at", "public", {})),
     Replace(Object("prevent_audit_mutation", "public", {})) >>
    \o IdentityTables \o ListingTables \o BillingTables \o OperationTables \o UpdatedAtTriggers

(* Mutation: users go before the tables that refer to them.                *)
InitialDownUsersFirst == DropAll(<<
  "outbox_events", "audit_logs", "media_files", "notifications", "maintenance_reports",
  "payment_allocations", "payment_events", "payments", "invoice_items", "invoices", "contracts",
  "bookings", "rooms", "properties", "users", "renter_profiles", "owner_profiles",
  "user_roles", "roles", "prevent_audit_mutation", "set_updated_at" >>)

InitialDown == DropAll(<<
  "outbox_events", "audit_logs", "media_files", "notifications", "maintenance_reports",
  "payment_allocations", "payment_events", "payments", "invoice_items", "invoices", "contracts",
  "bookings", "rooms", "properties", "renter_profiles", "owner_profiles",
  "user_roles", "users", "roles", "prevent_audit_mutation", "set_updated_at" >>)

-----------------------------------------------------------------------------
(* 1700000001000-identity-auth-schema                                      *)
IdentityAuthUp == <<
  Table("social_identities", {"users"}),
  Table("otp_challenges", {}),
  Part("otp_challenges.phone.not_null", "otp_challenges"),
  Table("auth_sessions", {"users"}),
  Table("auth_throttle_buckets", {}),
  Create(Object("trg_social_identities_updated_at", "social_identities", {"set_updated_at"})) >>

IdentityAuthDown ==
  DropAll(<<"auth_throttle_buckets", "auth_sessions", "otp_challenges", "social_identities">>)

(* 1700000002000-email-identity-auth: normalizing the addresses can make   *)
(* two of them equal; phones of accounts with an address are no longer     *)
(* unique, so that the old index can be impossible to build again.         *)
EmailIdentityUp == <<
  Part("users.phone_login_enabled", "users"),
  DropIfExists("users.display_name.not_null"),
  Update("emails"),
  Drop("uq_users_phone"),
  Part("uq_users_legacy_phone_login", "users.phone_login_enabled"),
  Part("idx_users_phone_contact", "users"),
  Part("chk_users_email_normalized", "users"),
  DropIfExists("otp_challenges.phone.not_null"),
  Part("otp_challenges.email", "otp_challenges"),
  Part("otp_challenges.verified_at", "otp_challenges"),
  Part("chk_otp_challenges_recipient", "otp_challenges.email"),
  Part("chk_otp_challenges_email_normalized", "otp_challenges.email"),
  Part("uq_otp_challenges_active_email", "otp_challenges.email"),
  Part("idx_otp_challenges_email_created", "otp_challenges.email") >>

EmailIdentityDown ==
  DropAll(<<"idx_otp_challenges_email_created", "uq_otp_challenges_active_email",
            "chk_otp_challenges_email_normalized", "chk_otp_challenges_recipient",
            "otp_challenges.verified_at", "otp_challenges.email">>)
  \o << Part("otp_challenges.phone.not_null", "otp_challenges") >>
  \o DropAll(<<"idx_users_phone_contact", "uq_users_legacy_phone_login",
               "chk_users_email_normalized", "users.phone_login_enabled">>)
  \o << Part("users.display_name.not_null", "users"),
        UniqueOver("uq_users_phone", "users", "phones") >>

(* 1700000003000-password-recovery                                         *)
PasswordRecoveryUp == <<
  Table("password_reset_tokens", {"users", "otp_challenges"}),
  Part("idx_password_reset_tokens_active_user", "password_reset_tokens"),
  Part("idx_password_reset_tokens_cleanup", "password_reset_tokens") >>

PasswordRecoveryDown == << DropIfExists("password_reset_tokens") >>

(* 1700000004000-password-recovery-outbox                                  *)
RecoveryOutboxUp == <<
  Part("outbox_events.locked_at", "outbox_events"),
  Part("outbox_events.lock_token", "outbox_events"),
  Part("idx_outbox_recovery_claim", "outbox_events") >>

(* Mutation: the index is forgotten.                                       *)
RecoveryOutboxDownColumns ==
  DropAll(<<"outbox_events.lock_token", "outbox_events.locked_at">>)

RecoveryOutboxDown ==
  DropAll(<<"idx_outbox_recovery_claim", "outbox_events.lock_token", "outbox_events.locked_at">>)

(* Mutation: the contracts there are must satisfy the constraint.          *)
ActiveLifecycleUpValid ==
  << UniqueOver("chk_contracts_active_lifecycle", "contracts", "contracts") >>

(* 1700000005000-contract-active-lifecycle: NOT VALID.                     *)
ActiveLifecycleUp == << Part("chk_contracts_active_lifecycle", "contracts") >>

ActiveLifecycleDown == << DropIfExists("chk_contracts_active_lifecycle") >>

(* 1700000006000-signup-challenge-supersession                             *)
SupersessionUp == <<
  Part("outbox_events.superseded_at", "outbox_events"),
  Part("idx_outbox_registration_unsuperseded", "outbox_events.superseded_at") >>

SupersessionDown ==
  DropAll(<<"idx_outbox_registration_unsuperseded", "outbox_events.superseded_at">>)

-----------------------------------------------------------------------------
Migration(up, down) == [up |-> up, down |-> down]

(* platformMigrations                                                      *)
Migrations == <<
  Migration(InitialUp, InitialDown),
  Migration(IdentityAuthUp, IdentityAuthDown),
  Migration(EmailIdentityUp, EmailIdentityDown),
  Migration(PasswordRecoveryUp, PasswordRecoveryDown),
  Migration(RecoveryOutboxUp, RecoveryOutboxDown),
  Migration(ActiveLifecycleUp, ActiveLifecycleDown),
  Migration(SupersessionUp, SupersessionDown) >>

Versions == 1 .. Len(Migrations)

(* By name: in the order of the timestamps.                                *)
InOrder(versions) ==
  LET so[n \in 0 .. Len(Migrations)] ==
        IF n = 0 THEN <<>> ELSE IF n \in versions THEN Append(so[n - 1], n) ELSE so[n - 1]
  IN  so[Len(Migrations)]

-----------------------------------------------------------------------------
(* PostgreSQL: a schema is a set of objects; Failed is no schema.          *)
Failed == {Object("failed", "nothing", {})}

Names(schema) == {x.name : x \in schema} \union {"public"}

(* Mutation: what belongs to an object stays when it is dropped.           *)
FamilyAlone(schema, name) == {name}

(* An object with the objects that belong to it, directly or not.          *)
Family(schema, name) ==
  LET own(names) == names \union {x.name : x \in {y \in schema : y.owner \in names}}
  IN  own(own({name}))

Created(schema, step, clashes) ==
  IF /\ step.object.name \notin Names(schema)
     /\ step.object.owner \in Names(schema) /\ step.object.refs \subseteq Names(schema)
     /\ step.unless \notin clashes
    THEN schema \union {step.object} ELSE Failed

(* Foreign keys and triggers keep what they refer to.                      *)
WithoutFamily(schema, family) ==
  IF \E x \in schema : x.name \notin family /\ x.refs \intersect family # {}
    THEN Failed ELSE {x \in schema : x.name \notin family}

Dropped(schema, name) ==
  UNION {WithoutFamily(schema, family) : family \in {Family(schema, name)}}

(* The schema after one statement, where the data have some clashes.       *)
After(schema, step, clashes) ==
  IF schema = Failed THEN Failed
  ELSE IF step.does = "create" THEN Created(schema, step, clashes)
  ELSE IF step.does = "replace" THEN schema \union {step.object}
  ELSE IF step.does = "update" THEN IF step.unless \in clashes THEN Failed ELSE schema
  ELSE IF step.name \in Names(schema) THEN Dropped(schema, step.name)
  ELSE IF step.does = "drop" THEN Failed ELSE schema

Execute(steps, schema, clashes) ==
  LET so[n \in 0 .. Len(steps)] ==
        IF n = 0 THEN schema ELSE UNION {After(s, steps[n], clashes) : s \in {so[n - 1]}}
  IN  so[Len(steps)]

(* All the migrations in order, in one transaction.                        *)
ExecuteAll(versions, schema, clashes) ==
  LET so[n \in 0 .. Len(versions)] ==
        IF n = 0 THEN schema
        ELSE UNION {Execute(Migrations[versions[n]].up, s, clashes) : s \in {so[n - 1]}}
  IN  so[Len(versions)]

(* verify-schema: REQUIRED_TABLES                                          *)
RequiredPlatformTables == {
  "properties", "rooms", "bookings", "contracts", "invoices", "invoice_items", "payments",
  "payment_events", "payment_allocations", "maintenance_reports", "notifications",
  "media_files", "audit_logs", "outbox_events"}

(* Mutation: the table of the latest migration is not required.            *)
RequiredIdentityTablesEarlier == {
  "roles", "users", "user_roles", "owner_profiles", "renter_profiles", "social_identities",
  "otp_challenges", "auth_sessions", "auth_throttle_buckets"}

RequiredIdentityTables == {
  "roles", "users", "user_roles", "owner_profiles", "renter_profiles", "social_identities",
  "otp_challenges", "auth_sessions", "auth_throttle_buckets", "password_reset_tokens"}

Verified(schema, seeded) ==
  seeded /\ RequiredIdentityTables \union RequiredPlatformTables
    \union {"trg_audit_logs_append_only", "users.phone_login_enabled",
            "otp_challenges.email", "otp_challenges.verified_at"}
    \subseteq Names(schema)
=============================================================================
