---------------------------- MODULE SessionStore ----------------------------
(***************************************************************************)
(* The table auth_sessions and the requests that work on it, one SQL       *)
(* statement per step, as PostgreSQL runs them at its default isolation    *)
(* level READ COMMITTED (database-options.ts sets no other):               *)
(*   - a statement sees the rows committed when it starts;                 *)
(*   - an UPDATE takes its rows one at a time, waits for a row another     *)
(*     transaction has locked, and then looks at the row's newest          *)
(*     committed version before it writes;                                 *)
(*   - locks are held, and writes invisible, until the commit.             *)
(*                                                                         *)
(* A session id stands for the row, for the refresh token whose hash the   *)
(* row holds, and for the access tokens that name it.  A family is named   *)
(* by its first session.                                                   *)
(***************************************************************************)
EXTENDS FiniteSets

CONSTANTS Sessions,  \* session identifiers (randomUUID)
          Reqs,      \* requests being handled at the same time
          Users,     \* account identifiers
          None       \* no session, no user, no owner

ASSUME NoneAssumption == None \notin Sessions \cup Reqs \cup Users

VARIABLES row,       \* row[x]: the committed version of session x
          pend,      \* pend[x]: the version written by the transaction that holds x's lock
          lock,      \* lock[x]: the request whose transaction has locked row x
          pc,        \* pc[r]: the statement request r runs next
          tok,       \* tok[r]: the session of the token request r presented
          why,       \* why[r]: the revoke_reason request r is about to write
          new,       \* new[r]: the replacement session of a rotation
          todo,      \* todo[r]: rows the running UPDATE has still to visit
          seen,      \* seen[r]: rows in the snapshot of the running UPDATE (history)
          expired,   \* sessions whose expires_at has passed
          issued,    \* sessions whose tokens have reached a client
          active     \* active[u]: users.status = 'active'

tableVars == <<row, pend, lock>>
reqVars   == <<pc, tok, why, new, todo, seen>>
envVars   == <<expired, issued, active>>
vars      == <<tableVars, reqVars, envVars>>

-----------------------------------------------------------------------------
(* revoke_reason when revoked_at IS NOT NULL, "live" when it IS NULL.      *)
Reasons == {"rotated", "refresh_reuse", "expired", "logout", "logout_all",
            "account_inactive"}
UserWide == {"logout_all", "account_inactive"}

Row == [family : Sessions \cup {None}, user : Users \cup {None},
        state : Reasons \cup {"live", "absent"}, next : Sessions \cup {None}]

NoRow == [family |-> None, user |-> None, state |-> "absent", next |-> None]

(* Mutation: familyId and userId swapped in the positional parameters.     *)
NewSessionSwapped(f, u) == [family |-> u, user |-> f, state |-> "live", next |-> None]

NewSession(f, u) == [family |-> f, user |-> u, state |-> "live", next |-> None]

Steps == {"idle", "select", "insert", "supersede", "update", "scan", "commit", "check"}

IsSessionActive(x) == row[x].state = "live" /\ x \notin expired

(* Identifiers randomUUID may still return.                                *)
Fresh == {x \in Sessions : row[x] = NoRow /\ \A r \in Reqs : new[r] # x}

Init ==
  /\ row     = [x \in Sessions |-> NoRow]
  /\ pend    = [x \in Sessions |-> NoRow]
  /\ lock    = [x \in Sessions |-> None]
  /\ pc      = [r \in Reqs |-> "idle"]
  /\ tok     = [r \in Reqs |-> None]
  /\ why     = [r \in Reqs |-> "live"]
  /\ new     = [r \in Reqs |-> None]
  /\ todo    = [r \in Reqs |-> {}]
  /\ seen    = [r \in Reqs |-> {}]
  /\ expired = {}
  /\ issued  = {}
  /\ active  = [u \in Users |-> TRUE]

-----------------------------------------------------------------------------
(* Requests arrive.                                                        *)

(* JwtSessionService.create inserts the first session of a new family in a *)
(* statement of its own.  The status was checked earlier in the handler,   *)
(* so it may have changed since.                                           *)
Create(u) ==
  \E x \in Fresh :
    /\ row' = [row EXCEPT ![x] = NewSession(x, u)]
    /\ issued' = issued \cup {x}
    /\ UNCHANGED <<pend, lock, reqVars, expired, active>>

Begin(r, x, y, step, reason) ==
  /\ pc[r] = "idle"
  /\ pc'  = [pc  EXCEPT ![r] = step]
  /\ tok' = [tok EXCEPT ![r] = x]
  /\ why' = [why EXCEPT ![r] = reason]
  /\ new' = [new EXCEPT ![r] = y]
  /\ UNCHANGED <<tableVars, todo, seen>>

(* refresh verifies the signed token against one reading of the clock and  *)
(* stamps usedAt with the next one: the deadline may fall between them.    *)
(* The replacement's id is drawn before the transaction begins.            *)
Refresh(r) ==
  \E x \in issued \ expired, y \in Fresh :
    /\ expired' \in {expired, expired \cup {x}}
    /\ Begin(r, x, y, "select", IF x \in expired' THEN "expired" ELSE "rotated")
    /\ UNCHANGED <<issued, active>>

(* logout takes any string, verifies nothing and updates by token hash.    *)
Logout(r) ==
  \E x \in issued :
    /\ Begin(r, x, None, "update", "logout")
    /\ UNCHANGED envVars

(* logoutAll runs behind JwtAuthGuard.                                     *)
LogoutAll(r) ==
  \E x \in issued :
    /\ IsSessionActive(x)
    /\ active[row[x].user]
    /\ Begin(r, x, None, "update", "logout_all")
    /\ UNCHANGED envVars

-----------------------------------------------------------------------------
(* The transaction of rotateSession.                                       *)

(* Mutation: the SELECT without FOR UPDATE waits for nobody.               *)
RowIgnored(x) == TRUE

RowFree(x) == lock[x] = None

(* SELECT ... FOR UPDATE waits for the row's lock, then branches on what   *)
(* it read.  A row is never deleted and the claims are signed, so the two  *)
(* 'missing' results cannot occur here.                                    *)
SelectForUpdate(r) ==
  LET current == row[tok[r]] IN
  /\ pc[r] = "select"
  /\ RowFree(tok[r])
  /\ lock' = [lock EXCEPT ![tok[r]] = r]
  /\ \/ /\ current.state # "live"
        /\ pc'  = [pc  EXCEPT ![r] = "update"]
        /\ why' = [why EXCEPT ![r] = "refresh_reuse"]
        /\ new' = [new EXCEPT ![r] = None]
     \/ /\ current.state = "live"
        /\ why[r] = "expired"
        /\ pc'  = [pc  EXCEPT ![r] = "update"]
        /\ new' = [new EXCEPT ![r] = None]
        /\ UNCHANGED why
     \/ /\ current.state = "live"
        /\ why[r] = "rotated"
        /\ pc'  = [pc EXCEPT ![r] = "insert"]
        /\ UNCHANGED <<why, new>>
  /\ UNCHANGED <<row, pend, tok, todo, seen, envVars>>

(* Mutation: the insert runs on the data source, outside the transaction.  *)
InsertOutsideTransaction(r) ==
  /\ pc[r] = "insert"
  /\ row' = [row EXCEPT ![new[r]] = NewSession(row[tok[r]].family, row[tok[r]].user)]
  /\ pc' = [pc EXCEPT ![r] = "supersede"]
  /\ UNCHANGED <<pend, lock, tok, why, new, todo, seen, envVars>>

InsertReplacement(r) ==
  /\ pc[r] = "insert"
  /\ pend' = [pend EXCEPT ![new[r]] = NewSession(row[tok[r]].family, row[tok[r]].user)]
  /\ lock' = [lock EXCEPT ![new[r]] = r]
  /\ pc' = [pc EXCEPT ![r] = "supersede"]
  /\ UNCHANGED <<row, tok, why, new, todo, seen, envVars>>

(* Mutation: replaced_by_session_id is forgotten.                          *)
SupersededByNone(r) == [row[tok[r]] EXCEPT !.state = "rotated"]

Superseded(r) == [row[tok[r]] EXCEPT !.state = "rotated", !.next = new[r]]

Supersede(r) ==
  /\ pc[r] = "supersede"
  /\ pend' = [pend EXCEPT ![tok[r]] = Superseded(r)]
  /\ pc' = [pc EXCEPT ![r] = "commit"]
  /\ UNCHANGED <<row, lock, tok, why, new, todo, seen, envVars>>

-----------------------------------------------------------------------------
(* The revoking UPDATE statements.  They differ in their WHERE clause and  *)
(* in what they do with a row that is revoked already.                     *)

Matches(r, x) ==
  /\ row[x] # NoRow
  /\ \/ why[r] = "refresh_reuse" /\ row[x].family = row[tok[r]].family
     \/ why[r] = "expired" /\ x = tok[r]
     \/ why[r] = "logout" /\ x = tok[r] /\ row[x].state = "live"
     \/ why[r] \in UserWide /\ row[x].user = row[tok[r]].user /\ row[x].state = "live"

(* Mutation: the UPDATE of the family assigns instead of coalescing.       *)
RevokedAgain(r, x) == [row[x] EXCEPT !.state = why[r]]

(* COALESCE keeps the earlier reason; the other statements assign.         *)
Revoked(r, x) ==
  [row[x] EXCEPT !.state =
     IF why[r] = "refresh_reuse" /\ @ # "live" THEN @ ELSE why[r]]

TakeSnapshot(r) ==
  /\ pc[r] = "update"
  /\ pc'   = [pc   EXCEPT ![r] = "scan"]
  /\ todo' = [todo EXCEPT ![r] = {x \in Sessions : Matches(r, x)}]
  /\ seen' = [seen EXCEPT ![r] = {x \in Sessions : Matches(r, x)}]
  /\ UNCHANGED <<tableVars, tok, why, new, envVars>>

(* Mutation: the UPDATE is sent on a second connection, for which even the *)
(* handler's own transaction is another one.                               *)
GrantedElsewhere(r, x) == lock[x] = None

Granted(r, x) == lock[x] \in {None, r}

(* The rows of the snapshot are visited in no fixed order.  A row changed  *)
(* since the snapshot is written only if its newest version still matches; *)
(* its lock is kept either way.                                            *)
UpdateRow(r, x) ==
  /\ pc[r] = "scan"
  /\ x \in todo[r]
  /\ Granted(r, x)
  /\ lock' = [lock EXCEPT ![x] = r]
  /\ pend' = [pend EXCEPT ![x] = IF Matches(r, x) THEN Revoked(r, x) ELSE @]
  /\ todo' = [todo EXCEPT ![r] = @ \ {x}]
  /\ UNCHANGED <<row, pc, tok, why, new, seen, envVars>>

-----------------------------------------------------------------------------
(* Ends of transactions.                                                   *)

Held(r) == {x \in Sessions : lock[x] = r}

ReleaseLocks(r) ==
  /\ lock' = [x \in Sessions |-> IF x \in Held(r) THEN None  ELSE lock[x]]
  /\ pend' = [x \in Sessions |-> IF x \in Held(r) THEN NoRow ELSE pend[x]]

Publish(r) ==
  row' = [x \in Sessions |-> IF x \in Held(r) /\ pend[x] # NoRow THEN pend[x] ELSE row[x]]

BackToIdle(r) ==
  /\ pc'   = [pc   EXCEPT ![r] = "idle"]
  /\ tok'  = [tok  EXCEPT ![r] = None]
  /\ why'  = [why  EXCEPT ![r] = "live"]
  /\ new'  = [new  EXCEPT ![r] = None]
  /\ todo' = [todo EXCEPT ![r] = {}]
  /\ seen' = [seen EXCEPT ![r] = {}]

(* Mutation: the UPDATE is not awaited before the transaction commits.     *)
NotAwaited(r) == TRUE

UpdateDone(r) == todo[r] = {}

CommitRotation(r) ==
  /\ pc[r] = "commit"
  /\ Publish(r)
  /\ ReleaseLocks(r)
  /\ pc' = [pc EXCEPT ![r] = "check"]
  /\ UNCHANGED <<tok, why, new, todo, seen, envVars>>

CommitRevocation(r) ==
  /\ pc[r] = "scan"
  /\ UpdateDone(r)
  /\ Publish(r)
  /\ ReleaseLocks(r)
  /\ BackToIdle(r)
  /\ UNCHANGED envVars

(* After a rotation refresh reads the user again: an active one gets the   *)
(* new tokens, any other has every session revoked.                        *)
CheckUser(r) ==
  /\ pc[r] = "check"
  /\ \/ /\ active[row[tok[r]].user]
        /\ issued' = issued \cup {new[r]}
        /\ BackToIdle(r)
     \/ /\ ~active[row[tok[r]].user]
        /\ pc'  = [pc  EXCEPT ![r] = "update"]
        /\ why' = [why EXCEPT ![r] = "account_inactive"]
        /\ UNCHANGED <<tok, new, todo, seen, issued>>
  /\ UNCHANGED <<tableVars, expired, active>>

(* The process or its connection dies: PostgreSQL rolls back what is open, *)
(* and nothing more is sent to the client.                                 *)
Crash(r) ==
  /\ pc[r] # "idle"
  /\ ReleaseLocks(r)
  /\ BackToIdle(r)
  /\ UNCHANGED <<row, envVars>>

(* Requests that wait for each other's locks.  A request that may take     *)
(* several rows is stuck once every one of them is locked by another.      *)
Needs(r) == IF pc[r] = "select" THEN {tok[r]} ELSE todo[r]
Stuck(r) == Needs(r) # {} /\ \A x \in Needs(r) : lock[x] \notin {None, r}
Deadlocked(D) ==
  /\ D # {}
  /\ \A r \in D : /\ Stuck(r)
                  /\ \E x \in Needs(r) : lock[x] \in D
                  /\ \E d \in D : \E x \in Needs(d) : lock[x] = r

(* deadlock_timeout: PostgreSQL fails one of the statements with 40P01,    *)
(* which nothing retries: the handler answers with an error.               *)
DeadlockVictim(r) ==
  /\ \E D \in SUBSET Reqs : r \in D /\ Deadlocked(D)
  /\ ReleaseLocks(r)
  /\ BackToIdle(r)
  /\ UNCHANGED <<row, envVars>>

-----------------------------------------------------------------------------
(* The world outside the requests.                                         *)

Expire(x) ==
  /\ row[x].state = "live"
  /\ expired' = expired \cup {x}
  /\ UNCHANGED <<tableVars, reqVars, issued, active>>

(* An administrator blocks the account (no code of the repository does).   *)
Suspend(u) ==
  /\ active' = [active EXCEPT ![u] = FALSE]
  /\ UNCHANGED <<tableVars, reqVars, expired, issued>>

Work(r) ==
  \/ SelectForUpdate(r)
  \/ InsertReplacement(r)
  \/ Supersede(r)
  \/ TakeSnapshot(r)
  \/ \E x \in Sessions : UpdateRow(r, x)
  \/ CommitRotation(r)
  \/ CommitRevocation(r)
  \/ CheckUser(r)

Next ==
  \/ \E u \in Users : Create(u) \/ Suspend(u)
  \/ \E x \in Sessions : Expire(x)
  \/ \E r \in Reqs : \/ Refresh(r) \/ Logout(r) \/ LogoutAll(r)
                     \/ Work(r)
                     \/ DeadlockVictim(r) \/ Crash(r)

Spec == Init /\ [][Next]_vars

(* A request that has begun goes on, rows are granted to waiting           *)
(* transactions in turn (hence strong fairness), and the deadlock detector *)
(* runs.  Nothing obliges clients to send requests or processes to die.    *)
Fairness ==
  \A r \in Reqs :
    /\ SF_vars(SelectForUpdate(r))
    /\ SF_vars(\E x \in Sessions : UpdateRow(r, x))
    /\ WF_vars(Work(r))
    /\ WF_vars(DeadlockVictim(r))

FairSpec == Spec /\ Fairness

-----------------------------------------------------------------------------
(* Correctness.                                                            *)

(* The variables stay in their types: the reader of a property may rely on *)
(* the shapes the declarations above describe.                             *)
TypeOK ==
  /\ row     \in [Sessions -> Row]
  /\ pend    \in [Sessions -> Row]
  /\ lock    \in [Sessions -> Reqs \cup {None}]
  /\ pc      \in [Reqs -> Steps]
  /\ tok     \in [Reqs -> Sessions \cup {None}]
  /\ why     \in [Reqs -> Reasons \cup {"live"}]
  /\ new     \in [Reqs -> Sessions \cup {None}]
  /\ todo    \in [Reqs -> SUBSET Sessions]
  /\ seen    \in [Reqs -> SUBSET Sessions]
  /\ expired \in SUBSET Sessions
  /\ issued  \in SUBSET Sessions
  /\ active  \in [Users -> BOOLEAN]

(* However refreshes of one family interleave, at most one refresh token   *)
(* of the family is usable: rotateSession never forks a family.            *)
AtMostOneLive ==
  \A x, y \in Sessions :
    /\ row[x].state = "live"
    /\ row[y].state = "live"
    /\ row[x].family = row[y].family
    => x = y

(* replaced_by_session_id draws a chain through each family: a session is  *)
(* marked rotated exactly when it names its successor, the successor is a  *)
(* row of the same family and account, and every session that no sign-in   *)
(* created has exactly one predecessor.                                    *)
RotationChain ==
  /\ \A x \in Sessions :
       row[x].state = "rotated" <=> row[x].next # None
  /\ \A x, y \in Sessions :
       row[x].next = y => /\ row[y].family = row[x].family
                          /\ row[y].user = row[x].user
                          /\ y # row[y].family
  /\ \A y \in {z \in Sessions : row[z] # NoRow /\ z # row[z].family} :
       Cardinality({x \in Sessions : row[x].next = y}) = 1

(* A revoked session is never usable again, and the reason first recorded  *)
(* is never overwritten, whichever statements race for the row.            *)
RevocationIsFinal ==
  [][\A x \in Sessions :
       row[x].state \in Reasons => row'[x] = row[x]]_vars

(* When a revoking UPDATE commits, every session that was in its snapshot  *)
(* is revoked, by it or by the transaction it waited for.                  *)
RevokesItsSnapshot ==
  [][\A r \in Reqs :
       CommitRevocation(r) => \A x \in seen[r] : row'[x].state # "live"]_vars

(* Every request that begins is answered or fails: no lock is waited for   *)
(* for ever, deadlocks of revoking statements included.                    *)
RequestEnds ==
  \A r \in Reqs : pc[r] # "idle" ~> pc[r] = "idle"

(* The committed rows behave like the abstract families: every commit is   *)
(* one sign-in, one rotation or one revocation, whatever its statements    *)
(* interleave with.                                                        *)
Families == INSTANCE TokenFamilies WITH
  phase     <- [x \in Sessions |-> CASE row[x].state = "absent" -> "unused"
                                     [] row[x].state = "live"   -> "usable"
                                     [] OTHER                   -> "spent"],
  family    <- [x \in Sessions |-> row[x].family],
  successor <- [x \in Sessions |-> row[x].next]

ImplementsTokenFamilies == Families!Spec

(* What holds between any two steps of any interleaving, strong enough to  *)
(* be preserved by every step (SessionStoreProofs).                        *)

Rotating == {"insert", "supersede", "commit"}

(* Rows are complete, and a family's first session is always a row.        *)
RowInv ==
  \A x \in Sessions :
    row[x] # NoRow => /\ row[x].state # "absent"
                      /\ row[x].family \in Sessions
                      /\ row[row[x].family] # NoRow

(* Requests hold tokens of committed sessions and replacement ids that no  *)
(* one else has drawn.                                                     *)
RequestInv ==
  /\ \A x \in issued : row[x] # NoRow
  /\ \A r \in Reqs :
       /\ pc[r] # "idle" => tok[r] \in Sessions /\ row[tok[r]] # NoRow
       /\ pc[r] \in Rotating \cup {"select"} => why[r] \in {"rotated", "expired"}
       /\ pc[r] \in Rotating \cup {"select"} =>
            new[r] \in Sessions /\ row[new[r]] = NoRow
       /\ pc[r] = "check" => new[r] \in Sessions /\ row[new[r]] # NoRow
  /\ \A r, q \in Reqs : new[r] = new[q] /\ new[r] # None => r = q

(* Who may hold which lock.                                                *)
LockInv ==
  /\ \A x \in Sessions : lock[x] = None => pend[x] = NoRow
  /\ \A x \in Sessions, r \in Reqs :
       lock[x] = r => \/ pc[r] \in {"update", "scan"}
                      \/ pc[r] \in Rotating /\ x = tok[r]
                      \/ pc[r] \in {"supersede", "commit"} /\ x = new[r]

(* The session a transaction read FOR UPDATE stays as it was read.         *)
HoldInv ==
  \A r \in Reqs :
    \/ pc[r] \in Rotating
    \/ pc[r] \in {"update", "scan"} /\ why[r] = "expired"
    => lock[tok[r]] = r /\ row[tok[r]].state = "live"

(* What a rotation has written by which step.                              *)
RotationInv ==
  \A r \in Reqs :
    /\ pc[r] \in {"supersede", "commit"} =>
         /\ lock[new[r]] = r
         /\ pend[new[r]] = NewSession(row[tok[r]].family, row[tok[r]].user)
    /\ pc[r] = "commit" =>
         pend[tok[r]] = [row[tok[r]] EXCEPT !.state = "rotated", !.next = new[r]]

(* A pending version is a rotation's, or revokes the committed version     *)
(* without touching anything that is revoked already.                      *)
PendInv ==
  \A x \in Sessions :
    pend[x] # NoRow =>
      \/ \E r \in Reqs : /\ lock[x] = r
                         /\ pc[r] \in {"supersede", "commit"}
                         /\ x \in {tok[r], new[r]}
      \/ /\ row[x] # NoRow
         /\ \E reason \in Reasons : pend[x] = [row[x] EXCEPT !.state = reason]
         /\ row[x].state # "live" => pend[x] = row[x]

IInv == /\ TypeOK /\ RowInv /\ RequestInv
        /\ LockInv /\ HoldInv /\ RotationInv /\ PendInv
        /\ AtMostOneLive

(* docs/authentication.md: "Reusing a rotated token revokes the token      *)
(* family": once a detected reuse commits, no session of it is usable.     *)
ReuseRevokesFamily ==
  [][\A r \in Reqs :
       why[r] = "refresh_reuse" /\ CommitRevocation(r) =>
         \A x \in Sessions :
           row'[x].family = row[tok[r]].family => row'[x].state # "live"]_vars
=============================================================================
