# Verification project: smart-platform-services

TLA+ models of the platform's stateful core, TLC configurations that check them
on small instances, and TLAPS proofs that hold for every instance. Everything is
translated from the TypeScript sources under `libs/`, `apps/` and `database/`;
where a comment names PostgreSQL, the behaviour is that of the server the SQL of
those sources runs on.

## 1. The system

A NestJS monorepo: three HTTP APIs (`renter-api`, `owner-api`, `admin-api`) and a
`worker`, all stateless processes over one PostgreSQL database. There are no
in-process queues and no ORM entities: services call repositories, repositories
send SQL, one connection pool per process. Any number of requests run at the same
time, in one process (interleaved at every `await`) or in several. So the shared
state is the database, an atomic step is a SQL statement or a commit, and the
isolation level is PostgreSQL's default, READ COMMITTED
(`libs/common/src/database/database-options.ts` sets no other).

| Component | State | Operations | What makes it correct |
|---|---|---|---|
| Sessions (`jwt-session.service.ts`, `auth_sessions`) | a row per refresh token: family, user, `revoked_at`/`revoke_reason`, `replaced_by_session_id`, `expires_at` | create, refresh (rotation, reuse detection), logout, logout of all devices, revocation at password change/reset or deactivation | a family never has two usable tokens; revocation is final; a refused token ends its family; every request ends |
| E-mail outbox (`password-recovery-outbox.service.ts`, `outbox_events`) | a row per one-time code: `published_at`, `superseded_at`, `next_attempt_at`, `locked_at`, `lock_token`; per process the flag `running` | drain (claim with a lease), process, complete, retry; supersession by a request | workers do not duplicate each other's deliveries; a job has one outcome; every job is settled in the end |
| Sign-up (`auth.service.ts` 142-261, `otp_challenges`) | a challenge per attempt: `verified_at`, `consumed_at`, `attempt_count`, `expires_at` | requestSignupOtp, verifySignupOtp, completeSignup | one active challenge per address; at most `max_attempts` wrong codes; a closed attempt stays closed; one account per confirmed attempt, for its own address |
| Password recovery and change (`auth.service.ts` 292-468, 560-618, `password_reset_tokens`, `users`) | challenge, reset token, password hash | request, verify, complete, change | a token resets once; after a reset no session and no login with the old password survives |
| Login (`auth.service.ts` 263-290) | none of its own | compare, check status, create a session | as above |
| Rate limiter (`rate-limiter.service.ts`, `auth_throttle_buckets`) | a bucket per scope and key: window start, count, `blocked_until` | assertAllowed, recordFailure, clear | what is counted past the limit is bounded by the requests that run together; a block ends with its time, a right answer or a new window, and refused attempts do not prolong it |
| Legacy phone flow (`auth.service.ts` 474-594, 670-708) | phone challenges, pending users | register, requestOtp, verifyOtp, forgot/resetPassword | a code opens one session; a pending account is confirmed only by a code of its phone; a code that was not delivered is closed |
| Social login (`auth.service.ts` 628-668) | `social_identities` | find or create | one account per identity and per address |
| Properties and rooms (`property.service.ts`) | `properties`, `rooms`, active `contracts` | create, update, set status, delete, bookable checks | a write changes what it was asked to change, unless requests overlap; what may be booked is what is listed; a room with an active contract does not become available |
| Contract and profile reads (`contract-query.service.ts`, `profile-*.service.ts`) | none | list active rentals, read and update the profile | complete, active contracts are shown, also when the room or property is deleted |
| Listing assets (`media.contracts.ts`) | an asset row | beginUpload, publish | an asset belongs to a row of its uploader; publishing changes nothing else |
| Startup migrations (`startup-migrations.ts`, `database/migrations`) | the ledger `platform_migrations`, the schema | show and run pending migrations, revert, seed, verify | the schema is the one of the ledger; nobody serves behind the migrations it knows; all serve in the end |
| Configuration, logging, HTTP, health, hashing | none | parsing, formatting, I/O, cryptography | not modelled |
| booking, billing, payment, audit, maintenance, notification | none | interfaces without an implementation | not modelled |

How they interact. Sign-up and recovery requests insert a challenge and its
outbox job in one transaction; the outbox worker reads the challenge again before
it delivers. Verification and completion work on the challenge and, at the end,
insert a user, or store a password and revoke that user's sessions in the same
transaction. Login and the last step of the phone flow insert a session. Every
authenticated request reads session and user (`authenticateAccess`). The rate
limiter is asked before and told after each of these. Room status reads
`contracts`; the profile reads contracts joined with rooms and properties.

Hard behaviours, each listed at its line under `hazards` in `PROJECT.json`:
statements of two requests in any order, values read before an `await` and used
after it, transactions that wait for each other, snapshots that miss a concurrent
insert, crashes between two statements, leases that run out under a slow worker,
deliveries whose answer is lost, and whole rows written back from a stale copy.

## 2. Modules

| Module | Models | Depends on |
|---|---|---|
| `TokenFamilies` | abstract: a family opens, its one usable token moves, it is revoked | |
| `SessionStore` | `auth_sessions` and the requests on it, statement by statement | `TokenFamilies` (refinement) |
| `CodeDeliveries` | abstract: a job waits and is settled once, as sent, as stale or withdrawn | |
| `EmailOutbox` | the outbox rows, the posting requests and the workers | `CodeDeliveries` (refinement) |
| `SignupAttempts` | abstract: an attempt is offered, confirmed, used or closed | |
| `SignupChallenge` | the sign-up handlers, `otp_challenges` and the accounts, statement by statement | `SignupAttempts` (refinement) |
| `RecoveryTickets` | abstract: a ticket is opened, missed, shut, granted and spent once | |
| `Credentials` | one account: login, the three ways to a new password, recovery challenges and reset tokens | `RecoveryTickets` (refinement) |
| `RateLimiter` | one throttle bucket, the keys of all handlers, the clock | |
| `Accounts` | who has an account: phone flows, social login, profile update, beside sign-up by e-mail | |
| `PropertyInventory` | properties, rooms, assets, the read-check-write requests on them, and what others read | |
| `SchemaMigrations` | the migrations as statements on a schema: `up`, `down`, `db:verify` | |
| `StartupMigrations` | instances that migrate before they serve, revert, seed | `SchemaMigrations` (extended) |
| `*Proofs` | theorems about `SessionStore`, `EmailOutbox`, `SignupChallenge`, `Credentials`, `RateLimiter`, `Accounts`, `PropertyInventory`, `StartupMigrations` | the module, TLAPS |
| `MC*` | symmetry, bounds and constant definitions for TLC, one per module that runs check | the module |

How they fit together. Each module keeps the shared state that its handlers race
on and leaves the rest to its neighbour: `Credentials` and `Accounts` insert and
revoke sessions without their families, which are `SessionStore`'s; the job that
a challenge posts is `EmailOutbox`'s; the limiter that surrounds every handler is
`RateLimiter`, and in the others a request may be refused at any step; accounts
made by e-mail are an action of `Accounts` and in full in `SignupChallenge`. In
all of them a request has a program counter at the statement it sends next, and a
request that dies (`Die`, `Abort`, `Leave`, `Fail`, `Crash`) sends no more.

### 2.1 SessionStore

A session identifier stands for the row, for the refresh token whose hash it
holds and for the access tokens that name it; ids are drawn with `randomUUID`, so
a fresh one is any unused one, and a family is named by its first session.
`row[x]` is the committed version, `pend[x]` the version a transaction has
written and not committed, `lock[x]` the transaction that has locked it. Each
request has a program counter `pc[r]` at the statement it sends next.

| Action | Code |
|---|---|
| `Create` | `JwtSessionService.create` (one autocommitted INSERT) |
| `Refresh`, `Logout`, `LogoutAll` | arrival, with the checks made before the first statement |
| `SelectForUpdate` | `rotateSession` 661-697: the locking read and its branches (reuse, expired, rotate) |
| `InsertReplacement`, `Supersede`, `CommitRotation` | `rotateSession` 698-711 and its COMMIT |
| `TakeSnapshot`, `UpdateRow`, `CommitRevocation` | any of the revoking UPDATEs: its snapshot, its visit of one row (wait for the lock, re-check, write), its commit |
| `CheckUser` | `refresh` 100-109: the user is read again |
| `DeadlockVictim`, `Crash` | error 40P01; loss of the process or connection: ROLLBACK |
| `Expire`, `Suspend` | the clock; an account deactivated from outside (no code in the repository does it) |

The five revoking UPDATEs differ in their WHERE clause and SET expression
(`Matches`, `Revoked`). The sweep of `changePassword` and of the password reset is
that of `revokeSessionsForUser`; `LogoutAll` stands for it. The two `'missing'`
results of `rotateSession` cannot occur: rows are never deleted and the token's
claims are signed. `refresh` reads the clock twice (token verification, then
`usedAt`), so a token may expire in between: `Refresh` draws both outcomes.

Abstractions: token and hash formats, IP and user agent; `expires_at` is the set
`expired`; a transaction that reads or writes no further row is not split further.

### 2.2 EmailOutbox

A job has exactly one challenge, so a number stands for both, in `created_at`
order. `Post` is the transaction of `replacePasswordRecoveryChallenge` and
`replaceRegistrationChallenge`: it consumes the open challenge of the address
(`replaced`) and, when a sign-up gives up an earlier attempt (`previous`),
consumes that one and supersedes its unpublished job. Recovery requests never
name a previous attempt and their jobs are never superseded; the model allows it
for all jobs and so includes them. `Drain` is the claiming statement together with
`running = true`; every job of the batch then moves through `stage[t][j]` on its
own, as in `Promise.all`: `CheckChallenge`, `SendOtp`, `Complete` or
`ScheduleRetry`. `StatementFails` follows the exceptions: a failure to record
`sent` lands in the catch block as if the delivery had failed; any other rejects
`process`, so `Promise.all` settles and `finally` clears `running` while other
jobs are still in flight. `Crash` loses the in-memory state and leaves the
leases. `awaiting[w]` is the `running` flag with the drain it stands for.

`mails` counts e-mails the provider took (2 means two or more); `mishap` records
that a result was lost or that a lease ended under a worker. Both are history
variables: no guard reads them.

Abstractions: the payload is always well formed (the repository writes it), so
`invalid_payload` has no action; the back-off delay is "not due" followed by
"due"; the two minutes of a lease are `lapsed`.

### 2.3 SignupChallenge

A challenge row is named by its id, which the client knows as the attempt id. Its
columns are `address`, `wrong` (`attempt_count`), `verified` and `consumed`;
`account` is the unique e-mail of `users`. `pc[r]` is the statement that request
`r` sends next, `att[r]` the challenge it works on, `past[r]` the deadlines that
had passed when it read the clock: the handlers take `new Date()` when they begin
and compare with it later.

| Action | Code |
|---|---|
| `RequestSignupOtp`, `ReadCurrent`, `ReadUser` | `requestSignupOtp` 142-169: arrival, the cooldown, the existing account |
| `BeginReplace`, `CommitReplace` | `replaceRegistrationChallenge`: the snapshot of its second UPDATE, then everything else at the commit |
| `LoseReplace`, `ReadConcurrent` | the violated unique index, the rollback and the second look |
| `VerifySignupOtp`, `ReadForVerify` | `verifySignupOtp` 197-220: arrival, the challenge and the comparison |
| `CountFailure`, `MarkVerified` | `recordOtpFailure`, `markOtpVerified` |
| `CompleteSignup`, `HashPassword`, `CreateAccount` | `completeSignup`: the read, the hash and `completedAt`, the transaction |
| `SocialSignup` | the account that `createSocialUser` inserts |
| `Fail`, `Cool`, `Expire` | a refusal by the limiter, a failed statement or a lost process; the clock |

Two transactions hold row locks over several statements. All rows they looked at
are locked, so what they do is the same as if done at the commit; what is not is
the snapshot of the UPDATE by e-mail, which may be older than a challenge that
another request commits (`Conflict`), and the wait of two requests that give up
the same attempt (`Waits`). `CompleteSignup` reads no clock before the challenge,
so arrival and read are one step.

Abstractions: codes are right or wrong; an attempt of another address in a
verification is refused like an old one of the same address, so only attempts of
the address are tried; ages of consumed challenges are not recorded, since no
statement asks for them; the outbox job of a challenge is `EmailOutbox`'s.

### 2.4 Credentials

One account, since every statement is keyed by its id or e-mail. `password` is
the password behind `users.password_hash` and `writes` how often it was written;
a session is a pair: `writes` when its password was compared and `writes` when it
was inserted. A recovery challenge is `live`, `closed` or not yet made, and names
its reset token, `token[c]`.

| Action | Code |
|---|---|
| `Login`, `OpenSession` | `login` 263-290: the read and comparison; the INSERT, which looks at nothing |
| `ChangePassword`, `PhoneReset`, `StorePassword`, `RevokeSessions` | `changePassword` 597-618 and the end of `resetPassword` 586-594: two statements, then a session |
| `LogoutAll` | the revoking UPDATE alone |
| `RequestRecovery`, `ReplaceChallenge` | `replacePasswordRecoveryChallenge`: snapshot, then the rest at the commit, or the violated index |
| `VerifyCode`, `MissCode`, `CountFailure`, `IssueToken` | `verifyPasswordRecoveryOtp`, `recordOtpFailure`, `issuePasswordResetToken`, with the second look at the locked rows |
| `CheckToken`, `ResetPassword` | `completePasswordRecovery`, `resetPasswordWithToken` |
| `SetStatus`, `Expire`, `Abort` | an administrator, the clock, a lost request |

`audit` counts the rows that the transactions write themselves; `resetAt` and
`cut` are history. Bounds: `MaxWrites` password writes.

### 2.5 RateLimiter

A request has several buckets, separate rows in separate transactions; one of
them is followed, of any scope in `Watched`. All times are relative to the clock
(`age` of the window, what is left of the `block`, `late[r]`: how old the one
reading of `now` is that request `r` works with), so that the state stays finite.
`Keys` is every policy in the code, scope by scope: sign-up and the phone flow
share the scope `otp_request_ip` with different limits. `Arrive` and `Ask` are
`assertAllowed`; `Insert`, `Ensure` and `CountFailure` are `recordThrottleFailure`
(INSERT ... ON CONFLICT DO NOTHING, then the locked row); `Clear` is `clear`.

### 2.6 Accounts

`user[u]` is a row of `users` with its social identity, `challenge[c]` one of
`otp_challenges` for a phone. Handlers look for an account, go on, and leave the
rest to the unique indexes, which are the guards of the inserting actions.

| Action | Code |
|---|---|
| `Register`, `CreatePhoneUser` | `register` 474-489, `createPhoneUser` |
| `RequestOtp`, `Issue`, `CloseOpen`, `CreateChallenge`, `Send`, `SendFails`, `Cancel` | `requestOtp`, `forgotPassword`, `issuePhoneOtp`, `replaceOtpChallenge`, `cancelOtp` |
| `WrongCode`, `RightCode`, `RecordOtpFailure`, `ConsumeOtp`, `Load`, `Activate`, `Reload` | `verifyOtp` 505-550 and its statements |
| `CheckReset`, `RedeemReset`, `OpenSession` | `resetPassword` 560-594 (the password is in `Credentials`), the session |
| `SocialLogin`, `CreateSocialUser` | `socialLogin`, `createSocialUser` |
| `CompleteEmailSignup`, `UpdateRenterProfile` | the account of a sign-up; the profile UPDATE with its indexes and check |
| `Die`, `Expire`, `Suspend` | the environment |

### 2.7 PropertyInventory

`row[k]` is the row of a property, room or asset, and an operation is a record of
the fields it sets (`set`). Every operation reads a row (`Read`), checks it in
further statements (`CheckOwner`, `CheckContract`) and writes the whole copy back
(`Save`), so `Written` is the copy with the fields of the operation over it.
`CheckParent` and `Insert` create; `Accept` is the second statement of
`assertRoomBookable`. Contracts, the administrator, the scanner of assets and
`markRoom...FromContract` are the environment. `moved[r]` is history: the fields
others have changed in the row `r` holds. What other components read is written
as operators: `ListPublicRooms`, `ViewingRooms`, the snapshots for contracts and
bills, `ActiveRentals`. Replies are not modelled.

### 2.8 SchemaMigrations, StartupMigrations

A schema is a set of objects (tables, columns, indexes, constraints, triggers,
functions), each with an owner it is dropped with and objects it refers to. A
migration is the sequence of its statements; a statement gives the next schema or
`Failed`. Objects that no later statement names are left out, and of the data only
what makes a constraint fail is kept (`clashes`). A version is the place of a
migration in `platformMigrations`, and `InOrder` lists versions as TypeORM runs
them, by timestamp. `StartupMigrations` runs instances of different builds:
`Start`, `Show` (showMigrations), `Load` (the ledger is read before the transaction)
and `Run` (one transaction for all that is pending: two such transactions conflict
at their first statement, so each is a step), beside `Revert`, `Seed`, `SharePhone` and `Crash`.

## 3. Runs

| Run | Question | Bounds |
|---|---|---|
| `session_safety` | `TypeOK`, `AtMostOneLive`, `RotationChain`, `RevocationIsFinal`, `RevokesItsSnapshot`, `ImplementsTokenFamilies` | 3 sessions, 2 requests, 1 account |
| `session_liveness` | `RequestEnds` | 3 sessions of one family, 2 requests |
| `reuse_revokes_family` | violated: a family revoked for reuse keeps a usable token | 3 sessions, 2 requests |
| `outbox_safety` | `TypeOK`, `NoDuplicateWithoutMishap`, `LeaseIsRespected`, `ImplementsCodeDeliveries` | 2 jobs, 2 workers, 3 tokens, batch 2, 2 failures |
| `outbox_liveness` | `EveryJobSettles` | 2 jobs, 1 worker, 3 tokens, batch 1, 2 failures |
| `signup_safety` | `TypeOK`, `OneActive`, `ImplementsSignupAttempts` | 2 addresses, 2 attempts, 2 requests, 2 wrong codes, `OneOfAKind` |
| `credentials_safety` | `TypeOK`, `AuditMatchesTokens`, `SessionsEndWithPassword`, `ImplementsRecoveryTickets` | 2 passwords, 2 challenges, 2 requests, 2 wrong codes, 2 password writes |
| `limiter` | `TypeOK`, `ExcessBounded`, `BlockKept`, `LockEnds` | 2 requests, 2 scopes, limits 2, windows 2 or 4, requests up to 1 unit old |
| `accounts` | `TypeOK`, `OneAccountPerIdentity`, `CodeOpensOneSession`, `EntersProvenAccount`, `UndeliveredIsClosed`, `ActivatedByCode` | 2 accounts, 2 challenges, 2 phones, 1 address, 1 identity, 2 requests, 2 wrong codes, `OneMishap` |
| `inventory` | `TypeOK`, `BookableAgrees`, `RentalsSurviveDeletion`, `LostUpdatesOverlap`, `AcceptedIsPublic` | 1 property, 2 rooms, 1 asset, 2 requests, 4 operations |
| `active_contract_rejects_available` | violated: a room becomes available beside an active contract | 1 property, 2 rooms, 2 requests, 4 operations |
| `migrations` | `TypeOK`, `SchemaMatchesLedger`, `LatestCanBeReverted`, `VerificationFindsGaps`, `ServesAfterMigrating`, `EventuallyServes` | 2 instances, builds of 2, 5 and 7 migrations, 3 reverts, 1 crash |

What they show. *Sessions*: no interleaving of statements forks a family, breaks
its chain of replacements or changes a revoked row, and every commit is one
abstract step; what a sweep does not promise is what its snapshot missed.
*Outbox*: each job is settled once, and as what happened to it; a second e-mail only after a lost result or a
worker that outlived its lease. *Sign-up* and *credentials*: the handlers behave
like atomic attempts and tickets although they compare with rows read earlier; a
session that outlives its password is one whose login was in flight, or whose
request died between its two statements. *Limiter*: requests that are allowed
together are all counted, so that a window can hold `limit - 1` failures and two
groups of concurrent requests more. *Accounts*: the indexes and the conditional
UPDATEs carry the flows whose checks are stale. *Inventory*: a write loses only
what another request wrote after the row was read, but then anything: a deletion,
a suspension, a quarantine. *Migrations*: instances that start together collide,
the losers roll back, and the schema is always the one the ledger describes.

Why the bounds are enough. *Sessions*: every hazard needs two requests and at
most the presented session, its replacement and one more row; three sessions give
a second rotation of a family or a second and third sign-in, and with two
requests two sweeps can lock two rows in opposite orders, so that the deadlock
victim is taken. Three requests would add waiting lines, but no statement tells
one holder from several. The theorems of section 4 cover any number. The
liveness run keeps to one family (`OneFamily`, a state constraint that stops
further sign-ins and deactivation): there the rows of a sweep are many. *Outbox*: two jobs are needed for a supersession
and for a batch whose first failure settles `Promise.all`; three tokens let a
dead worker's token hold a lease while both workers drain; two failures combine a
crash with a failed statement or with a lapsed lease. The liveness run has one
worker, since a second would hide a worker that never drains again; its two
failures are enough to settle `Promise.all` early and to lose a lease.
*Sign-up*: each hazard is a race of two requests over a challenge and at most its
replacement, so two attempts and two requests meet all of them; two addresses add
the foreign attempt that is given up and the account of another address; with two
wrong codes a challenge counts one without being closed. `OneOfAKind`, a state
constraint, has wrong codes on one challenge, one expired challenge and one
account: no statement combines two of these. Without it and with one address, or
with one wrong code, the same properties hold in complete searches, and the
theorems cover every instance.
*Credentials*: a reset races with a login, a change, another reset or a newer
challenge, each a pair of requests; two challenges are an old and a new one, two
password writes a change after a reset or before it. *Limiter*: with limit 2 the
first failure does not block and the second does; two requests are the smallest
group that is allowed together, a request one unit old meets a window, a block
and a row that began after it; the two scopes are a bucket of wrong guesses,
which is cleared, and one shared by two policies. *Accounts*: two phones let one
change hands while a code for it is out; two accounts and two requests meet every
index. `OneMishap`, a state constraint, has one suspended account, expired,
lost or wrongly tried challenge at a time: no statement combines two of these.
*Inventory*: each hazard is two requests, or one and the environment, on one row;
the second room is the one a code or a batch collides with; four operations
create, edit, delete and book. *Migrations*: two instances are enough to collide;
the builds fall on both sides of the migrations that can clash with data, and
three reverts with later starts apply again what was undone.
The outbox never deadlocks, since the timer's empty drain (`DrainNothing`) is a
step; in `SessionStore` the deactivation of an account is always possible, as a
stuttering step once it is inactive. The runs `accounts` and `migrations` switch
the deadlock check off, since the system may stop there: when all ids are used up
and nothing is under way, and when all instances serve and the bounded reverts
and crashes are spent.

Fairness. *Sessions*: a request that has begun goes on (WF of `Work`); PostgreSQL
queues waiters for a row lock and grants it in turn, so a waiter whose row becomes
free again and again gets it (SF of `SelectForUpdate` and `UpdateRow`); the
deadlock detector runs (`deadlock_timeout`, WF of `DeadlockVictim`). Arrivals,
crashes and the clock have no fairness. *Outbox*: every statement and the
provider call (ten-second timeout) returns (WF of `JobStep`), the timer ticks
every second (WF of `Drain`), leases, delays and challenges run out by the clock.
No delivery has to succeed: a job whose deliveries fail for ever is settled as
`stale` when its challenge has expired. Crashes, failed statements and leases that
end under a live worker are bounded by `MaxFailures`; with endless ones a job may
be taken over for ever and the property is false, in the code as in the model.
*Limiter*: the clock moves (WF of `Tick`), and a request that has begun goes on
(WF of `Ask` and `Finish`, per request); nobody is obliged to ask. *Migrations*:
the platform starts a process that has ended (WF of `Start`), and a process goes
on (WF of its next step); crashes and reverts are bounded.

### What the violated runs show

- `reuse_revokes_family`. `docs/authentication.md` line 33: "Reusing a rotated token
  revokes the token family." A rotation holds the row of the family's usable
  token; a reuse of an older token starts its UPDATE, whose snapshot does not
  contain the replacement; the rotation commits; the UPDATE revokes what it saw.
  The replacement stays usable.
- `active_contract_rejects_available`. `docs/property-room-api.md` line 5: "An active
  contract rejects transition to `available` with `ROOM_ACTIVE_CONTRACT`."
  `setRoomStatus` asks `hasActiveContract` in one statement and writes the status in
  a later one, outside a transaction; a contract that becomes active in between
  does not reject the transition.

Further observations, met while modelling and not run here:

- The race of the first run also exists in `revokeSessionsForUser`: after a logout
  of all devices a session that was being refreshed is still usable.
  `RevokesItsSnapshot` states what the statements do guarantee.
- The UPDATE that supersedes a sign-up's outbox job does not look at `locked_at`
  (`docs/authentication.md` lines 13-14 speak of *unclaimed* work): a job that a
  worker has claimed may be superseded, its e-mail goes out and the result is
  recorded nowhere. `ImplementsCodeDeliveries` shows that the row stays consistent.
- Two sign-ups that change the address and name the same earlier attempt: the
  second finds nothing left to consume, which nothing asks about, and supersedes
  the challenge of the first (`docs/signup-g2-test-matrix.md` line 10 has only the
  transaction that locks the live predecessor replace it).
- A sign-up request that looks at the cooldown before another one commits replaces
  its challenge instead of reusing it (`docs/authentication.md` lines 14-15).
- Verifications that run together read the same `attempt_count`, so more than five
  wrong codes may be compared (`docs/authentication.md` line 43). The counter
  itself never passes the limit and the challenge is then closed for good
  (`TypeOK`, `ImplementsSignupAttempts`).
- Rate limiter: a failure recorded late counts the block from its older `now` and
  so can bring its end forward; it ends it at once only as `BlockKept` allows, in a
  new window or through the higher limit of the other policy of the scope
  `otp_request_ip`, which sign-up and the phone flow share. Requests that are
  allowed together all count, so that a bucket holds up to `limit - 1` failures and
  two groups of concurrent requests more (`ExcessBounded`).
- `setPropertyStatus` and `updateProperty` write a whole row that they read before:
  an owner's edit undoes a suspension that was made in between. `LostUpdatesOverlap`
  says that this needs the overlap.
- `saveProperty` and `saveRoom` take the result of an `UPDATE ... RETURNING` as the
  row, where TypeORM answers the rows with their number; replies are not modelled.
- A profile update of an account without an e-mail commits and is then answered
  401, and one of a phone account can change the phone it signs in with, without a
  code for the new one.
- The account that a registration code activates is looked up by phone when the
  code has been consumed: when the account it was sent for has changed its phone
  and another has registered that phone meanwhile, the other one is activated. So
  `ActivatedByCode` speaks of a code of the *phone*.

What a document promises and the runs confirm: the repository's `README.md`, lines
47-48, has a failed migration end the deploy "instead of serving traffic against an
old schema"; `ServesAfterMigrating` is that claim.

## 4. Theorems

Checked by TLAPS for all values of the constants. The assumptions are the named
ones of the modules: `NoneAssumption` (of `SessionStore`, `PropertyInventory` and
`Accounts`: the value `None` is no id), `OutboxAssumption`, `SignupAssumption`,
`CredentialsAssumption`, `AccountsAssumption` and `InventoryAssumption` (bounds are
naturals, sets of ids do not overlap, `max_attempts` is 1 to 10 as the column's CHECK
demands), `StartupAssumption` (a build knows the first migrations of the list, and there
is a build) and `RateLimiterAssumption` (limits and durations are positive, and a
request takes no more than half the time of a block, which is 60 seconds or more).

| Theorem | States |
|---|---|
| `SessionStoreProofs!TypeCorrect` | `Spec => []TypeOK` |
| `SessionStoreProofs!NeverForked` | `Spec => []AtMostOneLive` |
| `SessionStoreProofs!RevokedForEver` | `Spec => RevocationIsFinal` |
| `SessionStoreProofs!Refinement` | `Spec => ImplementsTokenFamilies` |
| `SessionStoreProofs!FamiliesAreChains` | `Spec => []RotationChain` |
| `SessionStoreProofs!SnapshotRevoked` | `Spec => RevokesItsSnapshot` |
| `EmailOutboxProofs!TypeCorrect` | `Spec => []TypeOK` |
| `EmailOutboxProofs!DeliveredOnce` | `Spec => []NoDuplicateWithoutMishap` |
| `EmailOutboxProofs!LeasesRespected` | `Spec => LeaseIsRespected` |
| `EmailOutboxProofs!Refinement` | `Spec => ImplementsCodeDeliveries` |
| `SignupChallengeProofs!TypeCorrect` | `Spec => []TypeOK` |
| `SignupChallengeProofs!OneActiveForEver` | `Spec => []OneActive` |
| `SignupChallengeProofs!Refinement` | `Spec => ImplementsSignupAttempts` |
| `CredentialsProofs!TypeCorrect` | `Spec => []TypeOK` |
| `CredentialsProofs!SessionsEnd` | `Spec => []SessionsEndWithPassword` |
| `CredentialsProofs!AuditAgrees` | `Spec => []AuditMatchesTokens` |
| `CredentialsProofs!Refinement` | `Spec => ImplementsRecoveryTickets` |
| `RateLimiterProofs!TypeCorrect` | `Spec => []TypeOK` |
| `RateLimiterProofs!BlockNeverCutShort` | `Spec => BlockKept` |
| `RateLimiterProofs!ExcessIsBounded` | `Spec => []ExcessBounded` |
| `AccountsProofs!TypeCorrect` | `Spec => []TypeOK` |
| `AccountsProofs!IdentitiesDistinct` | `Spec => []OneAccountPerIdentity` |
| `AccountsProofs!CodesUsedOnce` | `Spec => []CodeOpensOneSession` |
| `AccountsProofs!EntriesProven` | `Spec => []EntersProvenAccount` |
| `AccountsProofs!UndeliveredClosed` | `Spec => []UndeliveredIsClosed` |
| `AccountsProofs!ActivationNeedsCode` | `Spec => ActivatedByCode` |
| `PropertyInventoryProofs!TypeCorrect` | `Spec => []TypeOK` |
| `PropertyInventoryProofs!LostOnlyToOverlap` | `Spec => LostUpdatesOverlap` |
| `PropertyInventoryProofs!BookedIsPublic` | `Spec => AcceptedIsPublic` |
| `PropertyInventoryProofs!RentalsStay` | `Spec => []RentalsSurviveDeletion` |
| `PropertyInventoryProofs!RulesAgree` | `Spec => []BookableAgrees` |
| `StartupMigrationsProofs!TypeCorrect` | `Spec => []TypeOK` |
| `StartupMigrationsProofs!LedgerRight` | `Spec => []SchemaMatchesLedger` |
| `StartupMigrationsProofs!RevertPossible` | `Spec => []LatestCanBeReverted` |
| `StartupMigrationsProofs!VerificationSound` | `Spec => []VerificationFindsGaps` |
| `StartupMigrationsProofs!ServesMigrated` | `Spec => ServesAfterMigrating` |

**Sessions.** `AtMostOneLive` is not inductive: that a commit publishes a second
usable token is excluded only by what the transaction did several steps earlier.
`IInv` adds: rows are complete (`RowInv`); a request's replacement id is its own
and unused until its commit (`RequestInv`); locks belong to requests at the
statements that take them (`LockInv`); the session a rotation has read FOR UPDATE
is still live and still locked (`HoldInv`); what a rotation has written so far
(`RotationInv`); every other pending version revokes a committed row and changes
nothing that is revoked already (`PendInv`). The commit of a rotation then moves
the one usable token, and the commit of a sweep only removes usable tokens. A
second invariant, `CInv`, is proved on top of it: no UPDATE gives the reason
`rotated` (`WhyInv`), so a session is about to be marked rotated only by the
transaction that has inserted its replacement (`RotatedInv`), and each commit keeps
the families chains (`ChainInv`); a row that a sweep has visited is revoked or has a
pending revocation of that sweep (`ScanInv`), so that its commit leaves none of its
snapshot usable. The refinement theorem uses the same invariant, one lemma per kind of commit; all
other steps are stutters of `TokenFamilies`.

**Outbox.** The argument for `NoDuplicateWithoutMishap`: while nothing has gone
wrong with a job, the single drain it is in flight with holds its running lease,
unless a request took the job away for good (`LeaseInv`), so nobody else can claim
it; and a mail has been sent only if the drain is about to record it or the job
has its outcome (`MailInv`). `SettledInv` makes the outcome unique: a settled job
has no holder, and only a holder records. The refinement adds that what a drain is
about to record is true (`ResultInv`): an e-mail was taken, or the challenge is
closed, and a closed challenge does not open again; and that only rows have outcomes
(`PostedInv`).

**Sign-up.** That `attempt_count` stays within its limit needs that an unconsumed
challenge is below it (`RowInv`): the failure that reaches the limit consumes the
challenge in the same statement. `OneActive` is kept by the commit of a
replacement because every active challenge of the address is either among those
it consumes or makes its insert fail. The refinement needs that the challenge a
request goes on with is a row of the request's address (`StepInv`) and that the
challenge behind an account is consumed.

**Credentials.** `Inv` adds to the types that open and closed challenges are
disjoint, that only a closed one has a token and only a closed one has all its
attempts used up (`ChallengesOK`), and that a request at a statement on a challenge
has one (`RequestsOK`). With it every commit of a recovery is one step of
`RecoveryTickets`: a code is missed only while the ticket is open, and a token is
spent once although it is looked up in an earlier statement.

**Rate limiter.** The type invariant is enough once a lemma on policies says that
the block a request sets, counted from its own older clock, still ends in the
future: the new block then starts from what is left of the old one or replaces it
in one of the cases that `BlockKept` names. For `ExcessBounded`, `ExcessInv` tells
three situations of a bucket that has reached its limit apart. `FirstGroup`: what
is counted and who was let through before, together, are below the bound, and the
block outlasts them. `BetweenGroups`: the block has ended early, because the request
that set it was late; the window is then older than every request under way.
`SecondGroup`: somebody let through since has counted, so the block now reaches to the
end of the window, and whoever comes later begins a new one.

**Accounts.** What a request knows at its next statement (`At`) is what earlier
statements looked up and no other request can take back: accounts stay, keep the
way they sign in, and do not become pending again (`UsersStay`); issued challenges
stay and do not open again (`ChallengesStay`). A consumed code is held by one
request, was used once or is lost (`HolderInv`, `SpentInv`): this is what the
conditional UPDATE of `consumeOtp` gives. `Distinct` is kept by the guards that
stand for the unique indexes.

**Properties and rooms.** `Held`: a request that works on a row holds a version of
that row. `Tracks`: that version differs from what is stored only in fields that
others have moved since, which is the theorem's "overlap". `Creating`: a row that is
being made is nobody else's; `ContractInv`: a contract's room exists, so a deleted
room is still a row with its contract. `RulesAgree` needs no invariant: two definitions of
the same rule, in two statements of the repository, agree on any rows.

**Migrations.** The inductive invariant is `Migrated`. `LedgerFine`: the ledger has no
version twice, and each version after those that it needs. The schema is
`SchemaOf(Applied)`, the objects that the recorded migrations make together, less the
three that the third migration drops. `Looked`: at its transaction an instance has
pending whatever it knows and the ledger lacks, unless a migration was reverted since
it looked. The ledger need not be in order: an instance may still run what it found
pending before another migration was reverted, and its transaction fails only when a
statement does.

What the steps of that invariant rest on is proved from the statements themselves.
`Execute` is a recursive function of a sequence of statements. The induction it needs
is over a *set* of numbers (`SetInduction`, from the library's theorem on minimal
elements of well-founded relations), so it is in the prover's reach. `Edits` says what a
sequence of creating statements makes of a schema, `Drops` what a sequence of dropping
ones takes. The creating statements of the seven migrations are cut into twelve batches, of
which each requires some others; `BatchesPlaced` and `BatchesKinds` check
every statement of every batch once. From these follow the two lemmas that the invariant
uses. `Up`: a migration succeeds exactly on a schema that has those it needs and not
itself, unless it is the third and addresses clash; and it leaves the schema of both.
`Down`: when no applied migration needs it, it can be undone, unless it is the third and
phones are shared; and it leaves the schema of the others. `AllUp` carries `Up` over the
transaction of an instance. `LedgerRight` needs `AllInOrder` besides: the recorded
migrations, executed in the order of their versions on an empty schema, give
`SchemaOf(Applied)` too, although the database has met them in another order, among
reverts.

Model-checked only: `RequestEnds`, `EveryJobSettles`, `LockEnds` and
`EventuallyServes`. They are liveness properties: fairness and ENABLED are beyond the
prover. The two violated runs check claims that do not hold.

## 5. Plan

Done, in this order: sessions, the outbox and sign-up, which carry the most
concurrency; credentials, the rate limiter, properties and rooms with the reads on
them, accounts, migrations; proofs for all of them.

Left: the composition of `Credentials` with `SessionStore`'s sweep in one instance,
which today meet only in what each assumes of the other.

Not modelled, and why:

- Configuration parsing, logging, HTTP filters, guards of roles, health checks: no
  state, or I/O only.
- Hashing, signatures and code derivation: pure cryptography. A code is right or
  wrong, a password is equal or not, a token names its row.
- `booking`, `billing`, `payment`, `audit`, `maintenance`, `notification`: interfaces
  without an implementation.
- Replies and their wording, DTO validation of formats, paging and sorting.
- The columns of the DDL that no later statement names.

## 6. Running

    tlc -config SessionStoreSafety.cfg MCSessionStore.tla
    tlc -config SessionStoreLiveness.cfg MCSessionStore.tla
    tlc -config ReuseRevokesFamily.cfg MCSessionStore.tla
    tlc -config EmailOutboxSafety.cfg MCEmailOutbox.tla
    tlc -config EmailOutboxLiveness.cfg MCEmailOutbox.tla
    tlc -config SignupSafety.cfg MCSignupChallenge.tla
    tlc -config CredentialsSafety.cfg MCCredentials.tla
    tlc -config RateLimiter.cfg MCRateLimiter.tla
    tlc -config AccountsSafety.cfg MCAccounts.tla
    tlc -config InventorySafety.cfg MCPropertyInventory.tla
    tlc -config ActiveContractRejectsAvailable.cfg MCPropertyInventory.tla
    tlc -config StartupMigrations.cfg MCStartupMigrations.tla

    tlapm M.tla     for M = SessionStoreProofs, EmailOutboxProofs,
                    SignupChallengeProofs, CredentialsProofs, RateLimiterProofs,
                    AccountsProofs, PropertyInventoryProofs,
                    StartupMigrationsProofs

`PROJECT.json` lists every run with its properties, the source lines behind every
definition, and for every property the mutated definition that breaks it.
