------------------------- MODULE SessionStoreProofs -------------------------
(***************************************************************************)
(* Proofs about SessionStore for any sets of sessions, requests and users. *)
(***************************************************************************)
EXTENDS SessionStore, FiniteSetTheorems, TLAPS

USE NoneAssumption

(* The absent row is a row whose state says so.                            *)
LEMMA NoRowType == NoRow \in Row /\ NoRow.state = "absent"
  BY DEF NoRow, Row

(* A new session has the type of a row.                                    *)
LEMMA NewSessionType ==
  ASSUME NEW f \in Sessions, NEW u \in Users \cup {None}
  PROVE  /\ NewSession(f, u) \in Row
         /\ NewSession(f, u).state = "live"
         /\ NewSession(f, u).family = f
         /\ NewSession(f, u) # NoRow
  BY DEF NewSession, Row, NoRow

(* A rotation whose rows nobody touches keeps what it has written.         *)
LEMMA RotationFrame ==
  ASSUME RotationInv,
         \A q \in Reqs : pc'[q] \in {"supersede", "commit"} =>
           /\ pc'[q] = pc[q] /\ tok'[q] = tok[q] /\ new'[q] = new[q]
           /\ lock'[new[q]] = lock[new[q]]
           /\ pend'[new[q]] = pend[new[q]]
           /\ pc[q] = "commit" => pend'[tok[q]] = pend[tok[q]]
           /\ row'[tok[q]] = row[tok[q]]
  PROVE  RotationInv'
<1> SUFFICES ASSUME NEW q \in Reqs, pc'[q] \in {"supersede", "commit"}
             PROVE  /\ lock'[new'[q]] = q
                    /\ pend'[new'[q]] = NewSession(row'[tok'[q]].family, row'[tok'[q]].user)
                    /\ pc'[q] = "commit" => pend'[tok'[q]] =
                         [row'[tok'[q]] EXCEPT !.state = "rotated", !.next = new'[q]]
  BY DEF RotationInv, NewSession
<1>1. /\ pc'[q] = pc[q] /\ tok'[q] = tok[q] /\ new'[q] = new[q]
      /\ lock'[new[q]] = lock[new[q]]
      /\ pend'[new[q]] = pend[new[q]]
      /\ pc[q] = "commit" => pend'[tok[q]] = pend[tok[q]]
      /\ row'[tok[q]] = row[tok[q]]
  OBVIOUS
<1>2. /\ lock[new[q]] = q
      /\ pend[new[q]] = NewSession(row[tok[q]].family, row[tok[q]].user)
      /\ pc[q] = "commit" => pend[tok[q]] =
           [row[tok[q]] EXCEPT !.state = "rotated", !.next = new[q]]
  BY <1>1 DEF RotationInv
<1> QED BY <1>1, <1>2

(* The empty store satisfies the invariant.                                *)
LEMMA InitInv == Init => IInv
<1> SUFFICES ASSUME Init PROVE IInv
  OBVIOUS
<1>1. TypeOK
  BY NoRowType DEF Init, TypeOK, Steps
<1>2. RowInv /\ PendInv
  BY DEF Init, RowInv, PendInv
<1>3. RequestInv
  BY DEF Init, RequestInv, Rotating
<1>4. LockInv /\ HoldInv /\ RotationInv
  BY DEF Init, LockInv, HoldInv, RotationInv, Rotating
<1>5. AtMostOneLive
  BY NoRowType DEF Init, AtMostOneLive
<1> QED BY <1>1, <1>2, <1>3, <1>4, <1>5 DEF IInv

(* A sign-in opens a family of its own next to the others.                 *)
LEMMA CreateInv ==
  ASSUME IInv, NEW u \in Users, Create(u)
  PROVE  IInv'
<1> USE DEF IInv
<1>0. PICK x \in Fresh :
        /\ row' = [row EXCEPT ![x] = NewSession(x, u)]
        /\ issued' = issued \cup {x}
        /\ UNCHANGED <<pend, lock, reqVars, expired, active>>
  BY DEF Create
<1>a. /\ x \in Sessions
      /\ row[x] = NoRow
      /\ \A r \in Reqs : new[r] # x
      /\ row' = [row EXCEPT ![x] = NewSession(x, u)]
      /\ issued' = issued \cup {x}
      /\ UNCHANGED <<pend, lock, pc, tok, why, new, todo, seen, expired, active>>
  BY <1>0 DEF Fresh, reqVars
<1>b. /\ row'[x] = NewSession(x, u) /\ row'[x] \in Row /\ row'[x].state = "live"
      /\ row'[x].family = x /\ row'[x] # NoRow
      /\ \A y \in Sessions \ {x} : row'[y] = row[y]
  BY <1>a, NewSessionType DEF TypeOK
<1>1. TypeOK'
  BY <1>a, <1>b DEF TypeOK
<1>2. RowInv'
  BY <1>a, <1>b DEF RowInv
<1>3. RequestInv'
  BY <1>a, <1>b DEF RequestInv, TypeOK
<1>4. \A r \in Reqs : pc[r] # "idle" => tok[r] # x
  BY <1>a DEF RequestInv
<1>5. LockInv'
  BY <1>a DEF LockInv
<1>8. \A r \in Reqs : pc[r] \in Rotating \cup {"update", "scan"} =>
                        row'[tok[r]] = row[tok[r]]
  BY <1>b, <1>4 DEF RequestInv, Rotating
<1>9. HoldInv'
  BY <1>a, <1>8 DEF HoldInv
<1>10. RotationInv'
  BY <1>a, <1>8, RotationFrame DEF Rotating
<1>6. PendInv'
  BY <1>a, <1>b DEF PendInv
<1>7. AtMostOneLive'
  <2> SUFFICES ASSUME NEW y \in Sessions, NEW z \in Sessions,
                      row'[y].state = "live", row'[z].state = "live",
                      row'[y].family = row'[z].family
               PROVE  y = z
    BY DEF AtMostOneLive
  <2>1. \A w \in Sessions \ {x} : row[w].state = "live" => row[w].family # x
    BY <1>a, NoRowType DEF RowInv
  <2> QED BY <1>a, <1>b, <2>1 DEF AtMostOneLive
<1> QED BY <1>1, <1>2, <1>3, <1>5, <1>6, <1>7, <1>9, <1>10

(* Steps that only change what surrounds the requests.                     *)
LEMMA EnvironmentInv ==
  ASSUME IInv,
         \/ \E x \in Sessions : Expire(x)
         \/ \E u \in Users : Suspend(u)
  PROVE  IInv'
<1> USE DEF IInv
<1>1. UNCHANGED <<row, pend, lock, pc, tok, why, new, todo, seen, issued>>
  BY DEF Expire, Suspend, tableVars, reqVars
<1>2. expired' \in SUBSET Sessions /\ active' \in [Users -> BOOLEAN]
  BY DEF Expire, Suspend, TypeOK
<1>3. TypeOK'
  BY <1>1, <1>2 DEF TypeOK
<1>4. RowInv' /\ RequestInv' /\ AtMostOneLive'
  BY <1>1 DEF RowInv, RequestInv, AtMostOneLive
<1>5. LockInv' /\ HoldInv'
  BY <1>1 DEF LockInv, HoldInv
<1>6. RotationInv' /\ PendInv'
  BY <1>1 DEF RotationInv, PendInv, NewSession
<1> QED BY <1>3, <1>4, <1>5, <1>6

(* A request arrives with a token a client has, and, when it is a refresh, *)
(* with an identifier nobody has drawn.                                    *)
LEMMA BeginInv ==
  ASSUME IInv, NEW r \in Reqs, NEW x \in issued, NEW y, NEW step, NEW reason,
         Begin(r, x, y, step, reason),
         \/ y \in Fresh /\ step = "select" /\ reason \in {"rotated", "expired"}
         \/ y = None /\ step = "update" /\ reason \in {"logout", "logout_all"},
         expired' \in SUBSET Sessions, UNCHANGED <<issued, active>>
  PROVE  IInv'
<1> USE DEF IInv
<1>1. /\ pc[r] = "idle"
      /\ pc'  = [pc  EXCEPT ![r] = step]
      /\ tok' = [tok EXCEPT ![r] = x]
      /\ why' = [why EXCEPT ![r] = reason]
      /\ new' = [new EXCEPT ![r] = y]
  BY DEF Begin
<1>2. UNCHANGED <<row, pend, lock, todo, seen, issued, active>>
  BY DEF Begin, tableVars
<1>3. x \in Sessions /\ row[x] # NoRow
  BY DEF TypeOK, RequestInv
<1>4. /\ y # None => y \in Sessions /\ row[y] = NoRow /\ \A q \in Reqs : new[q] # y
      /\ step = "select" => y # None
      /\ y \in Sessions \cup {None}
  BY DEF Fresh
<1>5. TypeOK'
  BY <1>1, <1>2, <1>3, <1>4 DEF TypeOK, Steps, Reasons
<1>6. RowInv' /\ AtMostOneLive'
  BY <1>2 DEF RowInv, AtMostOneLive
<1>7. RequestInv'
  BY <1>1, <1>2, <1>3, <1>4 DEF TypeOK, RequestInv, Rotating
<1>8. /\ \A q \in Reqs \ {r} : pc'[q] = pc[q] /\ tok'[q] = tok[q]
                               /\ why'[q] = why[q] /\ new'[q] = new[q]
      /\ pc'[r] \in {"select", "update"}
      /\ pc'[r] = "update" => why'[r] # "expired"
      /\ pc[r] = "idle"
  BY <1>1 DEF TypeOK
<1>9. LockInv' /\ HoldInv'
  BY <1>2, <1>8 DEF LockInv, HoldInv, Rotating
<1>10. RotationInv'
  BY <1>2, <1>8, RotationFrame
<1>11. PendInv'
  BY <1>2, <1>8 DEF PendInv
<1> QED BY <1>5, <1>6, <1>7, <1>9, <1>10, <1>11

(* A request arrives.                                                      *)
LEMMA ArrivalInv ==
  ASSUME IInv, NEW r \in Reqs, Refresh(r) \/ Logout(r) \/ LogoutAll(r)
  PROVE  IInv'
<1> USE DEF IInv
<1>1. CASE Refresh(r)
  <2>1. PICK x \in issued \ expired, y \in Fresh :
          /\ expired' \in {expired, expired \cup {x}}
          /\ Begin(r, x, y, "select", IF x \in expired' THEN "expired" ELSE "rotated")
          /\ UNCHANGED <<issued, active>>
    BY <1>1 DEF Refresh
  <2>2. expired' \in SUBSET Sessions
    BY <2>1 DEF TypeOK
  <2> QED BY <2>1, <2>2, BeginInv
<1>2. CASE Logout(r) \/ LogoutAll(r)
  <2>1. PICK x \in issued, reason \in {"logout", "logout_all"} :
          Begin(r, x, None, "update", reason) /\ UNCHANGED envVars
    BY <1>2 DEF Logout, LogoutAll
  <2>2. expired' \in SUBSET Sessions /\ UNCHANGED <<issued, active>>
    BY <2>1 DEF TypeOK, envVars
  <2> QED BY <2>1, <2>2, BeginInv
<1> QED BY <1>1, <1>2

(* SELECT FOR UPDATE locks the row and branches on what it read.           *)
LEMMA SelectInv ==
  ASSUME IInv, NEW r \in Reqs, SelectForUpdate(r)
  PROVE  IInv'
<1> USE DEF IInv
<1>1. /\ pc[r] = "select"
      /\ lock[tok[r]] = None
      /\ lock' = [lock EXCEPT ![tok[r]] = r]
  BY DEF SelectForUpdate, RowFree
<1>2. UNCHANGED <<row, pend, tok, todo, seen, expired, issued, active>>
  BY DEF SelectForUpdate, envVars
<1>3. \/ /\ pc'  = [pc  EXCEPT ![r] = "update"]
         /\ why' = [why EXCEPT ![r] = "refresh_reuse"]
         /\ new' = [new EXCEPT ![r] = None]
      \/ /\ row[tok[r]].state = "live"
         /\ pc'  = [pc  EXCEPT ![r] = "update"]
         /\ new' = [new EXCEPT ![r] = None]
         /\ why' = why
      \/ /\ row[tok[r]].state = "live"
         /\ why[r] = "rotated"
         /\ pc'  = [pc EXCEPT ![r] = "insert"]
         /\ why' = why /\ new' = new
  BY DEF SelectForUpdate
<1>4. tok[r] \in Sessions /\ row[tok[r]] # NoRow /\ why[r] \in {"rotated", "expired"}
  BY <1>1 DEF RequestInv
<1>5. TypeOK'
  BY <1>1, <1>2, <1>3, <1>4 DEF TypeOK, Steps, Reasons
<1>6. RowInv' /\ AtMostOneLive'
  BY <1>2 DEF RowInv, AtMostOneLive
<1>7. RequestInv'
  BY <1>1, <1>2, <1>3 DEF TypeOK, RequestInv, Rotating
<1>8. /\ \A q \in Reqs \ {r} : pc'[q] = pc[q] /\ why'[q] = why[q] /\ new'[q] = new[q]
      /\ pc'[r] \in {"update", "insert"}
      /\ pc'[r] = "insert" \/ why'[r] = "expired" => row[tok[r]].state = "live"
  BY <1>3 DEF TypeOK
<1>9. /\ lock'[tok[r]] = r
      /\ \A z \in Sessions \ {tok[r]} : lock'[z] = lock[z]
  BY <1>1, <1>4 DEF TypeOK
<1>10. \A z \in Sessions : lock[z] # r
  BY <1>1 DEF LockInv, Rotating
<1>11. LockInv'
  BY <1>1, <1>2, <1>8, <1>9, <1>10 DEF LockInv, Rotating
<1>12. \A q \in Reqs \ {r} : \A z \in Sessions : lock[z] = q => lock'[z] = q
  BY <1>1, <1>9
<1>13. HoldInv'
  BY <1>2, <1>8, <1>9, <1>12 DEF HoldInv, RequestInv, Rotating
<1>14. RotationInv'
  <2>1. \A q \in Reqs : pc'[q] \in {"supersede", "commit"} =>
                           q # r /\ new[q] \in Sessions /\ lock[new[q]] = q
    BY <1>8 DEF RequestInv, RotationInv, Rotating
  <2>2. \A q \in Reqs : pc'[q] \in {"supersede", "commit"} =>
                           lock'[new[q]] = lock[new[q]]
    BY <1>12, <2>1
  <2> QED BY <1>2, <1>8, <2>1, <2>2, RotationFrame
<1>15. PendInv'
  BY <1>1, <1>2, <1>8, <1>12 DEF PendInv
<1> QED BY <1>5, <1>6, <1>7, <1>11, <1>13, <1>14, <1>15

(* The replacement is written, visible to its transaction only.            *)
LEMMA InsertInv ==
  ASSUME IInv, NEW r \in Reqs, InsertReplacement(r)
  PROVE  IInv'
<1> USE DEF IInv
<1> DEFINE x == new[r]
<1> DEFINE version == NewSession(row[tok[r]].family, row[tok[r]].user)
<1>1. /\ pc[r] = "insert"
      /\ pend' = [pend EXCEPT ![x] = version]
      /\ lock' = [lock EXCEPT ![x] = r]
      /\ pc' = [pc EXCEPT ![r] = "supersede"]
  BY DEF InsertReplacement
<1>2. UNCHANGED <<row, tok, why, new, todo, seen, expired, issued, active>>
  BY DEF InsertReplacement, envVars
<1>3. /\ x \in Sessions /\ row[x] = NoRow
      /\ tok[r] \in Sessions /\ row[tok[r]] # NoRow
      /\ x # tok[r]
      /\ row[tok[r]].family \in Sessions
      /\ row[tok[r]].user \in Users \cup {None}
  BY <1>1 DEF RequestInv, Rotating, RowInv, TypeOK, Row
<1>4. version \in Row /\ version # NoRow
  BY <1>3, NewSessionType
<1>5. TypeOK'
  BY <1>1, <1>2, <1>3, <1>4 DEF TypeOK, Steps
<1>6. RowInv' /\ AtMostOneLive'
  BY <1>2 DEF RowInv, AtMostOneLive
<1>7. RequestInv'
  BY <1>1, <1>2 DEF TypeOK, RequestInv, Rotating
<1>8. /\ pc'[r] = "supersede"
      /\ \A q \in Reqs \ {r} : pc'[q] = pc[q] /\ new[q] # x
  BY <1>1, <1>3 DEF TypeOK, RequestInv
<1>9. /\ lock'[x] = r /\ pend'[x] = version
      /\ \A z \in Sessions \ {x} : lock'[z] = lock[z] /\ pend'[z] = pend[z]
  BY <1>1, <1>3 DEF TypeOK
<1>10. \A q \in Reqs : pc[q] # "idle" => tok[q] \in Sessions /\ tok[q] # x
  BY <1>3 DEF RequestInv
<1>11. LockInv'
  BY <1>1, <1>2, <1>8, <1>9 DEF LockInv, Rotating
<1>12. HoldInv'
  BY <1>1, <1>2, <1>8, <1>9, <1>10 DEF HoldInv, Rotating
<1>13. RotationInv'
  <2> SUFFICES ASSUME NEW q \in Reqs
               PROVE  /\ pc'[q] \in {"supersede", "commit"} =>
                           /\ lock'[new[q]] = q
                           /\ pend'[new[q]] = NewSession(row[tok[q]].family, row[tok[q]].user)
                      /\ pc'[q] = "commit" => pend'[tok[q]] =
                           [row[tok[q]] EXCEPT !.state = "rotated", !.next = new[q]]
    BY <1>2 DEF RotationInv, NewSession
  <2>1. CASE q = r
    BY <1>8, <1>9, <2>1
  <2>2. CASE q # r
    <3>1. /\ pc'[q] = pc[q] /\ new[q] # x
          /\ pc[q] \in {"supersede", "commit"} =>
                new[q] \in Sessions /\ tok[q] \in Sessions /\ tok[q] # x
      BY <1>8, <1>10, <2>2 DEF RequestInv, Rotating
    <3>2. pc[q] \in {"supersede", "commit"} =>
            /\ lock'[new[q]] = lock[new[q]]
            /\ pend'[new[q]] = pend[new[q]]
            /\ pend'[tok[q]] = pend[tok[q]]
      BY <1>9, <3>1
    <3> QED BY <3>1, <3>2 DEF RotationInv
  <2> QED BY <2>1, <2>2
<1>14. PendInv'
  BY <1>1, <1>2, <1>8, <1>9 DEF PendInv
<1> QED BY <1>5, <1>6, <1>7, <1>11, <1>12, <1>13, <1>14

(* The current session is superseded in the same transaction.              *)
LEMMA SupersedeInv ==
  ASSUME IInv, NEW r \in Reqs, Supersede(r)
  PROVE  IInv'
<1> USE DEF IInv
<1> DEFINE x == tok[r]
<1> DEFINE version == [row[x] EXCEPT !.state = "rotated", !.next = new[r]]
<1>1. /\ pc[r] = "supersede"
      /\ pend' = [pend EXCEPT ![x] = version]
      /\ pc' = [pc EXCEPT ![r] = "commit"]
  BY DEF Supersede, Superseded
<1>2. UNCHANGED <<row, lock, tok, why, new, todo, seen, expired, issued, active>>
  BY DEF Supersede, envVars
<1>3. /\ x \in Sessions /\ row[x] # NoRow /\ row[x].state = "live" /\ lock[x] = r
      /\ new[r] \in Sessions /\ row[new[r]] = NoRow /\ new[r] # x
  BY <1>1 DEF RequestInv, HoldInv, Rotating
<1>4. version \in Row /\ version # NoRow
  <2>1. row[x] \in Row
    BY <1>3 DEF TypeOK
  <2>2. version \in Row /\ version.state = "rotated"
    BY <1>3, <2>1 DEF Row, Reasons
  <2> QED BY <2>2, NoRowType
<1>5. TypeOK'
  BY <1>1, <1>2, <1>3, <1>4 DEF TypeOK, Steps
<1>6. RowInv' /\ AtMostOneLive'
  BY <1>2 DEF RowInv, AtMostOneLive
<1>7. RequestInv'
  BY <1>1, <1>2 DEF TypeOK, RequestInv, Rotating
<1>8. /\ pc'[r] = "commit"
      /\ \A q \in Reqs \ {r} : pc'[q] = pc[q]
  BY <1>1 DEF TypeOK
<1>9. /\ pend'[x] = version
      /\ \A z \in Sessions \ {x} : pend'[z] = pend[z]
  BY <1>1, <1>3 DEF TypeOK
<1>10. LockInv'
  BY <1>1, <1>2, <1>3, <1>8, <1>9 DEF LockInv, Rotating
<1>11. HoldInv'
  BY <1>1, <1>2, <1>8 DEF HoldInv, Rotating
<1>12. RotationInv'
  <2> SUFFICES ASSUME NEW q \in Reqs
               PROVE  /\ pc'[q] \in {"supersede", "commit"} =>
                           /\ lock[new[q]] = q
                           /\ pend'[new[q]] = NewSession(row[tok[q]].family, row[tok[q]].user)
                      /\ pc'[q] = "commit" => pend'[tok[q]] =
                           [row[tok[q]] EXCEPT !.state = "rotated", !.next = new[q]]
    BY <1>2 DEF RotationInv, NewSession
  <2>1. CASE q = r
    <3>1. pend'[new[r]] = pend[new[r]]
      BY <1>3, <1>9
    <3> QED BY <1>1, <1>9, <2>1, <3>1 DEF RotationInv
  <2>2. CASE q # r
    <3>1. /\ pc'[q] = pc[q]
          /\ pc[q] \in {"supersede", "commit"} =>
                /\ new[q] \in Sessions /\ tok[q] \in Sessions
                /\ lock[new[q]] = q /\ lock[tok[q]] = q
      BY <1>8, <2>2 DEF RequestInv, RotationInv, HoldInv, Rotating
    <3>2. pc[q] \in {"supersede", "commit"} =>
            /\ pend'[new[q]] = pend[new[q]]
            /\ pend'[tok[q]] = pend[tok[q]]
      BY <1>3, <1>9, <2>2, <3>1
    <3> QED BY <3>1, <3>2 DEF RotationInv
  <2> QED BY <2>1, <2>2
<1>13. PendInv'
  <2> SUFFICES ASSUME NEW z \in Sessions, pend'[z] # NoRow
               PROVE  \/ \E q \in Reqs : /\ lock[z] = q
                                        /\ pc'[q] \in {"supersede", "commit"}
                                        /\ z \in {tok[q], new[q]}
                      \/ /\ row[z] # NoRow
                         /\ \E s \in Reasons : pend'[z] = [row[z] EXCEPT !.state = s]
                         /\ row[z].state # "live" => pend'[z] = row[z]
    BY <1>2 DEF PendInv
  <2>1. CASE z = x
    BY <1>3, <1>8, <2>1
  <2>2. CASE z # x
    <3>1. pend'[z] = pend[z]
      BY <1>9, <2>2
    <3>2. \A q \in Reqs : pc[q] \in {"supersede", "commit"} =>
                           pc'[q] \in {"supersede", "commit"}
      BY <1>8
    <3> QED BY <3>1, <3>2 DEF PendInv
  <2> QED BY <2>1, <2>2
<1> QED BY <1>5, <1>6, <1>7, <1>10, <1>11, <1>12, <1>13

(* A revoking UPDATE takes its snapshot.                                   *)
LEMMA SnapshotInv ==
  ASSUME IInv, NEW r \in Reqs, TakeSnapshot(r)
  PROVE  IInv'
<1> USE DEF IInv
<1>1. /\ pc[r] = "update" /\ pc' = [pc EXCEPT ![r] = "scan"]
      /\ todo' = [todo EXCEPT ![r] = {x \in Sessions : Matches(r, x)}]
      /\ seen' = [seen EXCEPT ![r] = {x \in Sessions : Matches(r, x)}]
  BY DEF TakeSnapshot
<1>2. UNCHANGED <<row, pend, lock, tok, why, new, expired, issued, active>>
  BY DEF TakeSnapshot, tableVars, envVars
<1>3. TypeOK'
  <2>1. todo' \in [Reqs -> SUBSET Sessions] /\ seen' \in [Reqs -> SUBSET Sessions]
    BY <1>1 DEF TypeOK
  <2>2. pc' \in [Reqs -> Steps]
    BY <1>1 DEF TypeOK, Steps
  <2> QED BY <1>2, <2>1, <2>2 DEF TypeOK
<1>4. /\ pc'[r] = "scan"
      /\ \A q \in Reqs \ {r} : pc'[q] = pc[q]
  BY <1>1 DEF TypeOK
<1>5. RowInv' /\ AtMostOneLive'
  BY <1>2 DEF RowInv, AtMostOneLive
<1>6. RequestInv'
  BY <1>1, <1>2, <1>4 DEF RequestInv, Rotating
<1>7. LockInv' /\ HoldInv'
  BY <1>1, <1>2, <1>4 DEF LockInv, HoldInv, Rotating
<1>8. RotationInv'
  BY <1>2, <1>4, RotationFrame
<1>9. PendInv'
  BY <1>1, <1>2, <1>4 DEF PendInv
<1> QED BY <1>3, <1>5, <1>6, <1>7, <1>8, <1>9

(* A revoking UPDATE writes a complete row, a reason into a usable one,    *)
(* and nothing new into one that is revoked already.                       *)
LEMMA RevokedVersion ==
  ASSUME IInv, NEW r \in Reqs, NEW x \in Sessions, pc[r] = "scan", Matches(r, x)
  PROVE  /\ row[x] # NoRow
         /\ Revoked(r, x) \in Row
         /\ \E reason \in Reasons : Revoked(r, x) = [row[x] EXCEPT !.state = reason]
         /\ row[x].state # "live" => Revoked(r, x) = row[x]
<1> DEFINE reason == IF why[r] = "refresh_reuse" /\ row[x].state # "live"
                       THEN row[x].state ELSE why[r]
<1>1. row[x] # NoRow /\ row[x] \in Row /\ row[x].state \in Reasons \cup {"live"}
  BY DEF Matches, IInv, TypeOK, RowInv, Row
<1>2. why[r] \in Reasons
  BY DEF Matches, Reasons, UserWide
<1>3. reason \in Reasons
  BY <1>1, <1>2
<1>4. Revoked(r, x) = [row[x] EXCEPT !.state = reason]
  BY <1>1 DEF Revoked
<1>5. Revoked(r, x) \in Row
  BY <1>1, <1>3, <1>4 DEF Row
<1>6. ASSUME row[x].state # "live" PROVE reason = row[x].state
  <2>1. why[r] # "expired" \/ x # tok[r]
    BY <1>6 DEF IInv, HoldInv
  <2> QED BY <1>6, <2>1 DEF Matches
<1>7. row[x].state # "live" => Revoked(r, x) = row[x]
  BY <1>1, <1>4, <1>6 DEF Row
<1> HIDE DEF reason
<1> QED BY <1>1, <1>3, <1>4, <1>5, <1>7

(* A revoking UPDATE writes one row whose lock it was granted.             *)
LEMMA UpdateRowInv ==
  ASSUME IInv, NEW r \in Reqs, NEW x \in Sessions, UpdateRow(r, x)
  PROVE  IInv'
<1> USE DEF IInv
<1> DEFINE version == IF Matches(r, x) THEN Revoked(r, x) ELSE pend[x]
<1>1. /\ pc[r] = "scan" /\ lock[x] \in {None, r}
      /\ lock' = [lock EXCEPT ![x] = r]
      /\ pend' = [pend EXCEPT ![x] = version]
      /\ todo' = [todo EXCEPT ![r] = @ \ {x}]
  BY DEF UpdateRow, Granted
<1>2. UNCHANGED <<row, pc, tok, why, new, seen, expired, issued, active>>
  BY DEF UpdateRow, envVars
<1>3. version \in Row
  BY <1>1, RevokedVersion DEF TypeOK
<1> HIDE DEF version
<1>4. TypeOK'
  BY <1>1, <1>2, <1>3 DEF TypeOK
<1>5. RowInv' /\ AtMostOneLive'
  BY <1>2 DEF RowInv, AtMostOneLive
<1>6. RequestInv'
  BY <1>2 DEF RequestInv
<1>7. /\ lock'[x] = r /\ pend'[x] = version
      /\ \A z \in Sessions \ {x} : lock'[z] = lock[z] /\ pend'[z] = pend[z]
  BY <1>1 DEF TypeOK
<1>8. \A q \in Reqs : \A z \in Sessions :
        lock[z] = q => lock'[z] = q /\ (q # r => pend'[z] = pend[z])
  BY <1>1, <1>7
<1>9. LockInv'
  BY <1>1, <1>2, <1>7 DEF LockInv
<1>10. HoldInv'
  <2>1. \A q \in Reqs : pc[q] \in Rotating \cup {"update", "scan"} => tok[q] \in Sessions
    BY DEF RequestInv, Rotating
  <2> QED BY <1>2, <1>8, <2>1 DEF HoldInv
<1>11. RotationInv'
  <2> SUFFICES \A q \in Reqs : pc[q] \in {"supersede", "commit"} =>
           /\ lock'[new[q]] = lock[new[q]]
           /\ pend'[new[q]] = pend[new[q]]
           /\ pc[q] = "commit" => pend'[tok[q]] = pend[tok[q]]
    BY <1>2, RotationFrame
  <2> TAKE q \in Reqs
  <2>1. pc[q] \in {"supersede", "commit"} =>
          /\ q # r
          /\ new[q] \in Sessions /\ lock[new[q]] = q
          /\ tok[q] \in Sessions /\ lock[tok[q]] = q
    BY <1>1 DEF RequestInv, HoldInv, RotationInv, Rotating
  <2> QED BY <1>8, <2>1
<1>12. PendInv'
  <2> SUFFICES ASSUME NEW z \in Sessions, pend'[z] # NoRow
               PROVE  \/ \E q \in Reqs : /\ lock'[z] = q
                                        /\ pc[q] \in {"supersede", "commit"}
                                        /\ z \in {tok[q], new[q]}
                      \/ /\ row[z] # NoRow
                         /\ \E s \in Reasons : pend'[z] = [row[z] EXCEPT !.state = s]
                         /\ row[z].state # "live" => pend'[z] = row[z]
    BY <1>2 DEF PendInv
  <2>1. CASE z = x /\ Matches(r, x)
    <3>1. pend'[z] = Revoked(r, z)
      BY <1>7, <2>1 DEF version
    <3> QED BY <1>1, <2>1, <3>1, RevokedVersion
  <2>2. CASE z = x /\ ~Matches(r, x)
    <3>1. pend'[z] = pend[z]
      BY <1>7, <2>2 DEF version
    <3>2. \A q \in Reqs : lock[z] = q => pc[q] = "scan"
      BY <1>1, <2>2
    <3> QED BY <3>1, <3>2 DEF PendInv
  <2>3. CASE z # x
    <3>1. lock'[z] = lock[z] /\ pend'[z] = pend[z]
      BY <1>7, <2>3
    <3> QED BY <3>1 DEF PendInv
  <2> QED BY <2>1, <2>2, <2>3
<1> QED BY <1>4, <1>5, <1>6, <1>9, <1>10, <1>11, <1>12

-----------------------------------------------------------------------------
(* The ends of transactions.                                               *)

(* A request that ends its transaction holds no lock.                      *)
LEMMA Released ==
  ASSUME TypeOK, NEW r \in Reqs, ReleaseLocks(r)
  PROVE  /\ lock' \in [Sessions -> Reqs \cup {None}]
         /\ pend' \in [Sessions -> Row]
         /\ \A x \in Sessions :
              /\ lock[x] = r => lock'[x] = None /\ pend'[x] = NoRow
              /\ lock[x] # r => lock'[x] = lock[x] /\ pend'[x] = pend[x]
  BY NoRowType DEF TypeOK, ReleaseLocks, Held

(* A request that is done forgets its local state.                         *)
LEMMA Idled ==
  ASSUME TypeOK, NEW r \in Reqs, BackToIdle(r)
  PROVE  /\ pc' \in [Reqs -> Steps] /\ tok' \in [Reqs -> Sessions \cup {None}]
         /\ why' \in [Reqs -> Reasons \cup {"live"}]
         /\ new' \in [Reqs -> Sessions \cup {None}]
         /\ todo' \in [Reqs -> SUBSET Sessions] /\ seen' \in [Reqs -> SUBSET Sessions]
         /\ pc'[r] = "idle" /\ new'[r] = None
         /\ \A q \in Reqs \ {r} : /\ pc'[q] = pc[q] /\ tok'[q] = tok[q]
                                  /\ why'[q] = why[q] /\ new'[q] = new[q]
<1>1. pc' \in [Reqs -> Steps] /\ pc'[r] = "idle"
  BY DEF BackToIdle, TypeOK, Steps
<1>2. /\ tok' \in [Reqs -> Sessions \cup {None}]
      /\ why' \in [Reqs -> Reasons \cup {"live"}]
      /\ new' \in [Reqs -> Sessions \cup {None}] /\ new'[r] = None
  BY DEF BackToIdle, TypeOK
<1>3. todo' \in [Reqs -> SUBSET Sessions] /\ seen' \in [Reqs -> SUBSET Sessions]
  BY DEF BackToIdle, TypeOK
<1>4. \A q \in Reqs \ {r} : /\ pc'[q] = pc[q] /\ tok'[q] = tok[q]
                           /\ why'[q] = why[q] /\ new'[q] = new[q]
  BY DEF BackToIdle, TypeOK
<1> QED BY <1>1, <1>2, <1>3, <1>4

(* Letting go of r's locks leaves every other transaction's rows alone, as *)
(* long as r is not left in the middle of one and the rows the others hold *)
(* do not change.                                                          *)
LEMMA ReleaseFrame ==
  ASSUME IInv, NEW r \in Reqs, ReleaseLocks(r),
         pc'[r] \in {"idle", "check"},
         \A q \in Reqs \ {r} : /\ pc'[q] = pc[q] /\ tok'[q] = tok[q]
                              /\ why'[q] = why[q] /\ new'[q] = new[q],
         \A x \in Sessions : lock[x] # r /\ row[x] # NoRow => row'[x] = row[x]
  PROVE  LockInv' /\ HoldInv' /\ RotationInv' /\ PendInv'
<1> USE DEF IInv
<1>1. \A x \in Sessions :
        /\ lock[x] = r => lock'[x] = None /\ pend'[x] = NoRow
        /\ lock[x] # r => lock'[x] = lock[x] /\ pend'[x] = pend[x]
  BY Released
<1>2. LockInv'
  BY <1>1 DEF LockInv, Rotating
<1>3. \A q \in Reqs : pc[q] \in Rotating \cup {"update", "scan"} =>
                        tok[q] \in Sessions /\ row[tok[q]] # NoRow
  BY DEF RequestInv, Rotating
<1>4. HoldInv'
  BY <1>1, <1>3 DEF HoldInv, Rotating
<1>5. RotationInv'
  <2> SUFFICES \A q \in Reqs : pc'[q] \in {"supersede", "commit"} =>
           /\ pc'[q] = pc[q] /\ tok'[q] = tok[q] /\ new'[q] = new[q]
           /\ lock'[new[q]] = lock[new[q]]
           /\ pend'[new[q]] = pend[new[q]]
           /\ pc[q] = "commit" => pend'[tok[q]] = pend[tok[q]]
           /\ row'[tok[q]] = row[tok[q]]
    BY RotationFrame
  <2> SUFFICES ASSUME NEW q \in Reqs \ {r}, pc[q] \in {"supersede", "commit"}
               PROVE  /\ lock'[new[q]] = lock[new[q]]
                      /\ pend'[new[q]] = pend[new[q]]
                      /\ pend'[tok[q]] = pend[tok[q]]
                      /\ row'[tok[q]] = row[tok[q]]
    OBVIOUS
  <2>1. /\ new[q] \in Sessions /\ lock[new[q]] = q
        /\ tok[q] \in Sessions /\ lock[tok[q]] = q /\ row[tok[q]] # NoRow
    BY DEF RequestInv, HoldInv, RotationInv, Rotating
  <2> QED BY <1>1, <2>1
<1>6. PendInv'
  <2> SUFFICES ASSUME NEW z \in Sessions, pend'[z] # NoRow
               PROVE  \/ \E q \in Reqs : /\ lock'[z] = q
                                        /\ pc'[q] \in {"supersede", "commit"}
                                        /\ z \in {tok'[q], new'[q]}
                      \/ /\ row'[z] # NoRow
                         /\ \E s \in Reasons : pend'[z] = [row'[z] EXCEPT !.state = s]
                         /\ row'[z].state # "live" => pend'[z] = row'[z]
    BY DEF PendInv
  <2>1. lock[z] # r /\ lock'[z] = lock[z] /\ pend'[z] = pend[z]
    BY <1>1
  <2>2. CASE \E q \in Reqs : /\ lock[z] = q
                            /\ pc[q] \in {"supersede", "commit"}
                            /\ z \in {tok[q], new[q]}
    BY <2>1, <2>2
  <2>3. CASE /\ row[z] # NoRow
             /\ \E s \in Reasons : pend[z] = [row[z] EXCEPT !.state = s]
             /\ row[z].state # "live" => pend[z] = row[z]
    <3>1. row'[z] = row[z]
      BY <2>1, <2>3
    <3> QED BY <2>1, <2>3, <3>1
  <2> QED BY <2>1, <2>2, <2>3 DEF PendInv
<1> QED BY <1>2, <1>4, <1>5, <1>6

(* A rollback, of a crash or of a deadlock victim, loses pending versions. *)
LEMMA AbortInv ==
  ASSUME IInv, NEW r \in Reqs, Crash(r) \/ DeadlockVictim(r)
  PROVE  IInv'
<1> USE DEF IInv
<1>1. /\ ReleaseLocks(r) /\ BackToIdle(r)
      /\ UNCHANGED <<row, expired, issued, active>>
  BY DEF Crash, DeadlockVictim, envVars
<1>2. TypeOK'
  BY <1>1, Released, Idled DEF TypeOK
<1>3. RowInv' /\ AtMostOneLive'
  BY <1>1 DEF RowInv, AtMostOneLive
<1>4. RequestInv'
  BY <1>1, Idled DEF RequestInv, Rotating
<1>5. LockInv' /\ HoldInv' /\ RotationInv' /\ PendInv'
  BY <1>1, Idled, ReleaseFrame
<1> QED BY <1>2, <1>3, <1>4, <1>5

(* After its rotation a refresh answers or goes on to revoke.              *)
LEMMA CheckUserInv ==
  ASSUME IInv, NEW r \in Reqs, CheckUser(r)
  PROVE  IInv'
<1> USE DEF IInv
<1>1. /\ pc[r] = "check"
      /\ UNCHANGED <<row, pend, lock, expired, active>>
  BY DEF CheckUser, tableVars
<1>2. new[r] \in Sessions /\ row[new[r]] # NoRow
  BY <1>1 DEF RequestInv
<1>3. RowInv' /\ AtMostOneLive'
  BY <1>1 DEF RowInv, AtMostOneLive
<1>4. /\ TypeOK' /\ RequestInv'
      /\ \A q \in Reqs \ {r} : /\ pc'[q] = pc[q] /\ tok'[q] = tok[q]
                               /\ why'[q] = why[q] /\ new'[q] = new[q]
      /\ pc'[r] \in {"idle", "update"} /\ why'[r] # "expired"
  <2>1. CASE active[row[tok[r]].user] /\ issued' = issued \cup {new[r]} /\ BackToIdle(r)
    <3>1. TypeOK'
      BY <1>1, <1>2, <2>1, Idled DEF TypeOK
    <3>2. RequestInv'
      BY <1>1, <1>2, <2>1, Idled DEF RequestInv, Rotating
    <3>3. why'[r] # "expired"
      BY <2>1 DEF BackToIdle, TypeOK
    <3> QED BY <2>1, <3>1, <3>2, <3>3, Idled
  <2>2. CASE /\ pc'  = [pc  EXCEPT ![r] = "update"]
             /\ why' = [why EXCEPT ![r] = "account_inactive"]
             /\ UNCHANGED <<tok, new, todo, seen, issued>>
    <3>1. TypeOK'
      BY <1>1, <2>2 DEF TypeOK, Steps, Reasons
    <3>2. RequestInv'
      BY <1>1, <2>2 DEF TypeOK, RequestInv, Rotating
    <3> QED BY <2>2, <3>1, <3>2 DEF TypeOK
  <2> QED BY <2>1, <2>2 DEF CheckUser
<1>5. LockInv'
  BY <1>1, <1>4 DEF LockInv, Rotating
<1>6. HoldInv'
  BY <1>1, <1>4 DEF HoldInv, Rotating
<1>7. RotationInv'
  BY <1>1, <1>4, RotationFrame
<1>8. PendInv'
  BY <1>1, <1>4 DEF PendInv
<1> QED BY <1>3, <1>4, <1>5, <1>6, <1>7, <1>8

(* What the commit of a rotation makes visible: the presented session      *)
(* superseded, its replacement, and nothing else.                          *)
LEMMA RotationCommitted ==
  ASSUME IInv, NEW r \in Reqs, CommitRotation(r)
  PROVE  /\ tok[r] \in Sessions /\ row[tok[r]].state = "live"
         /\ row[tok[r]] # NoRow /\ row[tok[r]] \in Row
         /\ row[tok[r]].family \in Sessions /\ row[tok[r]].user \in Users \cup {None}
         /\ new[r] \in Sessions /\ row[new[r]] = NoRow
         /\ row' = [z \in Sessions |->
                      IF z = tok[r]
                        THEN [row[tok[r]] EXCEPT !.state = "rotated", !.next = new[r]]
                        ELSE IF z = new[r]
                          THEN NewSession(row[tok[r]].family, row[tok[r]].user)
                          ELSE row[z]]
<1> USE DEF IInv
<1>1. pc[r] = "commit" /\ Publish(r)
  BY DEF CommitRotation
<1>2. /\ tok[r] \in Sessions /\ row[tok[r]].state = "live" /\ lock[tok[r]] = r
      /\ row[tok[r]] # NoRow
      /\ new[r] \in Sessions /\ row[new[r]] = NoRow /\ lock[new[r]] = r
  BY <1>1 DEF RequestInv, HoldInv, RotationInv, Rotating
<1>3. row[tok[r]] \in Row /\ row[tok[r]].family \in Sessions
      /\ row[tok[r]].user \in Users \cup {None}
  BY <1>2 DEF TypeOK, RowInv, Row
<1>4. Held(r) = {tok[r], new[r]}
  BY <1>1, <1>2 DEF Held, LockInv, Rotating
<1>5. /\ pend[new[r]] = NewSession(row[tok[r]].family, row[tok[r]].user)
      /\ pend[tok[r]] = [row[tok[r]] EXCEPT !.state = "rotated", !.next = new[r]]
  BY <1>1 DEF RotationInv
<1>6. pend[new[r]] # NoRow
  BY <1>3, <1>5, NewSessionType
<1>7. pend[tok[r]] # NoRow
  <2>1. pend[tok[r]].state = "rotated"
    BY <1>3, <1>5 DEF Row
  <2> QED BY <2>1, NoRowType
<1>8. row' = [z \in Sessions |-> IF z \in Held(r) /\ pend[z] # NoRow THEN pend[z] ELSE row[z]]
  BY <1>1 DEF Publish
<1>9. row' = [z \in Sessions |-> IF z = tok[r] THEN pend[tok[r]]
                                 ELSE IF z = new[r] THEN pend[new[r]] ELSE row[z]]
  BY <1>4, <1>6, <1>7, <1>8
<1>10. row' = [z \in Sessions |->
                      IF z = tok[r]
                        THEN [row[tok[r]] EXCEPT !.state = "rotated", !.next = new[r]]
                        ELSE IF z = new[r]
                          THEN NewSession(row[tok[r]].family, row[tok[r]].user)
                          ELSE row[z]]
  BY ONLY <1>5, <1>9
<1> QED BY <1>2, <1>3, <1>10

(* The commit of a rotation moves the family's one usable token.           *)
LEMMA CommitRotationInv ==
  ASSUME IInv, NEW r \in Reqs, CommitRotation(r)
  PROVE  IInv'
<1> USE DEF IInv
<1> DEFINE x == tok[r]
<1> DEFINE y == new[r]
<1>1. /\ pc[r] = "commit" /\ ReleaseLocks(r)
      /\ pc' = [pc EXCEPT ![r] = "check"]
      /\ UNCHANGED <<tok, why, new, todo, seen, expired, issued, active>>
  BY DEF CommitRotation, envVars
<1>2. /\ x \in Sessions /\ row[x].state = "live" /\ row[x] # NoRow /\ row[x] \in Row
      /\ y \in Sessions /\ row[y] = NoRow /\ x # y
      /\ row[x].family \in Sessions /\ row[x].user \in Users \cup {None}
  BY RotationCommitted
<1>3. /\ DOMAIN row' = Sessions /\ row' = [z \in Sessions |-> row'[z]]
      /\ row'[x] = [row[x] EXCEPT !.state = "rotated", !.next = y]
      /\ row'[y] = NewSession(row[x].family, row[x].user)
      /\ \A z \in Sessions \ {x, y} : row'[z] = row[z]
  BY <1>2, RotationCommitted
<1>4. /\ row'[x] \in Row /\ row'[x] # NoRow
      /\ row'[x].state = "rotated" /\ row'[x].family = row[x].family
  <2>1. row'[x] \in Row /\ row'[x].state = "rotated" /\ row'[x].family = row[x].family
    BY <1>2, <1>3 DEF Row, Reasons
  <2> QED BY <2>1, NoRowType
<1>5. /\ row'[y] \in Row /\ row'[y] # NoRow
      /\ row'[y].state = "live" /\ row'[y].family = row[x].family
  BY <1>2, <1>3, NewSessionType
<1>6. /\ \A q \in Reqs \ {r} : pc'[q] = pc[q] /\ tok'[q] = tok[q]
                               /\ why'[q] = why[q] /\ new'[q] = new[q]
      /\ pc'[r] = "check"
  BY <1>1 DEF TypeOK
<1>7. TypeOK'
  <2>1. row' \in [Sessions -> Row]
    BY <1>3, <1>4, <1>5 DEF TypeOK
  <2>2. pc' \in [Reqs -> Steps]
    BY <1>1 DEF TypeOK, Steps
  <2> QED BY <1>1, <2>1, <2>2, Released DEF TypeOK
<1>8. RowInv'
  <2> SUFFICES ASSUME NEW z \in Sessions, row'[z] # NoRow
               PROVE  /\ row'[z].state # "absent"
                      /\ row'[z].family \in Sessions
                      /\ row'[row'[z].family] # NoRow
    BY DEF RowInv
  <2>1. \A w \in Sessions : row[w] # NoRow => row'[w] # NoRow
    BY <1>3, <1>4, <1>5
  <2>2. row[row[x].family] # NoRow
    BY <1>2 DEF RowInv
  <2>3. CASE z \in {x, y}
    BY <1>2, <1>4, <1>5, <2>1, <2>2, <2>3
  <2>4. CASE z \notin {x, y}
    BY <1>3, <2>1, <2>4 DEF RowInv
  <2> QED BY <2>3, <2>4
<1>9. RequestInv'
  <2>1. \A w \in Sessions : row[w] # NoRow => row'[w] # NoRow
    BY <1>3, <1>4, <1>5
  <2>2. \A q \in Reqs \ {r} : new[q] # y
    BY <1>2 DEF RequestInv
  <2>3. \A w \in Sessions \ {y} : row[w] = NoRow => row'[w] = NoRow
    BY <1>2, <1>3
  <2>4. \A z \in issued' : row'[z] # NoRow
    BY <1>1, <2>1 DEF RequestInv, TypeOK
  <2>5. \A q, p \in Reqs : new'[q] = new'[p] /\ new'[q] # None => q = p
    BY <1>1 DEF RequestInv
  <2>6. ASSUME NEW q \in Reqs
        PROVE  /\ pc'[q] # "idle" => tok'[q] \in Sessions /\ row'[tok'[q]] # NoRow
               /\ pc'[q] \in Rotating \cup {"select"} => why'[q] \in {"rotated", "expired"}
               /\ pc'[q] \in Rotating \cup {"select"} =>
                     new'[q] \in Sessions /\ row'[new'[q]] = NoRow
               /\ pc'[q] = "check" => new'[q] \in Sessions /\ row'[new'[q]] # NoRow
    <3>1. CASE q = r
      BY <1>1, <1>2, <1>4, <1>5, <1>6, <3>1 DEF Rotating
    <3>2. CASE q # r
      BY <1>1, <1>6, <2>1, <2>2, <2>3, <3>2 DEF RequestInv
    <3> QED BY <3>1, <3>2
  <2> QED BY <2>4, <2>5, <2>6 DEF RequestInv
<1>10. LockInv' /\ HoldInv' /\ RotationInv' /\ PendInv'
  <2>1. lock[x] = r
    BY <1>1 DEF HoldInv, Rotating
  <2> QED BY <1>1, <1>2, <1>3, <1>6, <2>1, ReleaseFrame
<1>11. AtMostOneLive'
  <2> SUFFICES ASSUME NEW z \in Sessions, row'[z].state = "live",
                      row'[z].family = row[x].family
               PROVE  z = y
    <3>1. \A z, w \in Sessions \ {x, y} : row'[z].state = "live" /\ row'[w].state = "live"
                                         /\ row'[z].family = row'[w].family => z = w
      BY <1>3 DEF AtMostOneLive
    <3> QED BY <1>4, <1>5, <3>1 DEF AtMostOneLive
  <2>1. z # x
    BY <1>4
  <2>2. z # y => row[z].state = "live" /\ row[z].family = row[x].family
    BY <1>3, <2>1
  <2> QED BY <1>2, <2>1, <2>2 DEF AtMostOneLive
<1> QED BY <1>7, <1>8, <1>9, <1>10, <1>11

(* What the commit of a revoking UPDATE makes visible: a reason on usable  *)
(* sessions, and nothing else.                                             *)
LEMMA RevocationCommitted ==
  ASSUME IInv, NEW r \in Reqs, CommitRevocation(r)
  PROVE  /\ row' = [z \in Sessions |-> row'[z]]
         /\ \A z \in Sessions :
              \/ row'[z] = row[z]
              \/ /\ row[z] # NoRow /\ row[z].state = "live"
                 /\ \E s \in Reasons : row'[z] = [row[z] EXCEPT !.state = s]
<1> USE DEF IInv
<1>1. row' = [z \in Sessions |-> IF z \in Held(r) /\ pend[z] # NoRow THEN pend[z] ELSE row[z]]
  BY DEF CommitRevocation, Publish
<1>2. ASSUME NEW z \in Sessions, z \in Held(r), pend[z] # NoRow
      PROVE  /\ row[z] # NoRow
             /\ \E s \in Reasons : pend[z] = [row[z] EXCEPT !.state = s]
             /\ row[z].state # "live" => pend[z] = row[z]
  <2>1. pc[r] = "scan" /\ lock[z] = r
    BY <1>2 DEF CommitRevocation, Held
  <2>2. ~ \E q \in Reqs : lock[z] = q /\ pc[q] \in {"supersede", "commit"}
    BY <2>1
  <2> QED BY <1>2, <2>2 DEF PendInv
<1>3. ASSUME NEW z \in Sessions
      PROVE  \/ row'[z] = row[z]
             \/ /\ row[z] # NoRow /\ row[z].state = "live"
                /\ \E s \in Reasons : row'[z] = [row[z] EXCEPT !.state = s]
  <2>1. CASE z \in Held(r) /\ pend[z] # NoRow
    <3>1. row'[z] = pend[z]
      BY <1>1, <2>1
    <3> QED BY <1>2, <2>1, <3>1
  <2>2. CASE ~(z \in Held(r) /\ pend[z] # NoRow)
    BY <1>1, <2>2
  <2> QED BY <2>1, <2>2
<1>4. row' = [z \in Sessions |-> row'[z]]
  BY <1>1
<1> QED BY <1>3, <1>4

(* The commit of a revocation only takes usable tokens away.               *)
LEMMA CommitRevocationInv ==
  ASSUME IInv, NEW r \in Reqs, CommitRevocation(r)
  PROVE  IInv'
<1> USE DEF IInv
<1>1. /\ pc[r] = "scan" /\ ReleaseLocks(r) /\ BackToIdle(r)
      /\ UNCHANGED <<expired, issued, active>>
  BY DEF CommitRevocation, envVars
<1>2. /\ row' = [z \in Sessions |-> row'[z]]
      /\ \A z \in Sessions :
           /\ row'[z] \in Row
           /\ row'[z] # NoRow <=> row[z] # NoRow
           /\ row'[z] # NoRow => row'[z].state # "absent"
           /\ row'[z].family = row[z].family
           /\ row'[z].state = "live" => row[z].state = "live"
           /\ row[z] = NoRow => row'[z] = row[z]
  <2>1. row' = [z \in Sessions |-> row'[z]]
    BY RevocationCommitted
  <2>2. ASSUME NEW z \in Sessions
        PROVE  /\ row'[z] \in Row
               /\ row'[z] # NoRow <=> row[z] # NoRow
               /\ row'[z] # NoRow => row'[z].state # "absent"
               /\ row'[z].family = row[z].family
               /\ row'[z].state = "live" => row[z].state = "live"
               /\ row[z] = NoRow => row'[z] = row[z]
    <3>1. row[z] \in Row
      BY DEF TypeOK
    <3>2. CASE row'[z] = row[z]
      BY <3>1, <3>2 DEF RowInv
    <3>3. CASE row[z] # NoRow /\ row[z].state = "live" /\ row'[z] # row[z]
      <4>1. PICK s \in Reasons : row'[z] = [row[z] EXCEPT !.state = s]
        BY <3>3, RevocationCommitted
      <4>2. row'[z] \in Row /\ row'[z].state = s /\ row'[z].family = row[z].family
        BY <3>1, <4>1 DEF Row
      <4>3. s # "live" /\ s # "absent"
        BY DEF Reasons
      <4> QED BY <3>3, <4>2, <4>3, NoRowType
    <3> QED BY <3>2, <3>3, RevocationCommitted
  <2> QED BY <2>1, <2>2
<1>3. TypeOK'
  <2>1. row' \in [Sessions -> Row]
    BY <1>2
  <2> QED BY <1>1, <2>1, Released, Idled DEF TypeOK
<1>4. RowInv'
  BY <1>2 DEF RowInv
<1>5. RequestInv'
  BY <1>1, <1>2, Idled DEF RequestInv, Rotating, TypeOK
<1>6. AtMostOneLive'
  BY <1>2 DEF AtMostOneLive
<1>7. LockInv' /\ HoldInv' /\ RotationInv' /\ PendInv'
  <2>1. \A z \in Sessions : lock[z] # r => row'[z] = row[z]
    BY DEF CommitRevocation, Publish, Held
  <2> QED BY <1>1, <2>1, Idled, ReleaseFrame
<1> QED BY <1>3, <1>4, <1>5, <1>6, <1>7

-----------------------------------------------------------------------------
(* The results.                                                            *)

(* Every statement of every request, crash and deadlock preserves IInv.    *)
LEMMA StepInv == IInv /\ [Next]_vars => IInv'
<1> SUFFICES ASSUME IInv, [Next]_vars PROVE IInv'
  OBVIOUS
<1>1. CASE \E u \in Users : Create(u)
  BY <1>1, CreateInv
<1>2. CASE \/ \E u \in Users : Suspend(u)
           \/ \E x \in Sessions : Expire(x)
  BY <1>2, EnvironmentInv
<1>3. ASSUME NEW r \in Reqs, Refresh(r) \/ Logout(r) \/ LogoutAll(r)
      PROVE  IInv'
  BY <1>3, ArrivalInv
<1>4. ASSUME NEW r \in Reqs, Work(r)
      PROVE  IInv'
  BY <1>4, SelectInv, InsertInv, SupersedeInv, SnapshotInv, UpdateRowInv,
     CommitRotationInv, CommitRevocationInv, CheckUserInv DEF Work
<1>5. ASSUME NEW r \in Reqs, DeadlockVictim(r) \/ Crash(r)
      PROVE  IInv'
  BY <1>5, AbortInv
<1>6. CASE UNCHANGED vars
  <2>1. UNCHANGED <<row, pend, lock, pc, tok, why, new, todo, seen, expired, issued, active>>
    BY <1>6 DEF vars, tableVars, reqVars, envVars
  <2>2. TypeOK' /\ RowInv' /\ RequestInv' /\ AtMostOneLive'
    BY <2>1 DEF IInv, TypeOK, RowInv, RequestInv, AtMostOneLive
  <2>3. LockInv' /\ HoldInv' /\ PendInv'
    BY <2>1 DEF IInv, LockInv, HoldInv, PendInv
  <2>4. RotationInv'
    BY <2>1, RotationFrame DEF IInv
  <2> QED BY <2>2, <2>3, <2>4 DEF IInv
<1> QED BY <1>1, <1>2, <1>3, <1>4, <1>5, <1>6 DEF Next

(* The inductive invariant holds in every reachable state.                 *)
THEOREM Invariance == Spec => []IInv
  BY InitInv, StepInv, PTL DEF Spec

(* The state of the store and of its requests keeps its types.             *)
THEOREM TypeCorrect == Spec => []TypeOK
<1>1. IInv => TypeOK
  BY DEF IInv
<1> QED BY <1>1, Invariance, PTL

(* For any number of concurrent refreshes, logouts, revocations, crashes   *)
(* and deadlocks: no family of rotateSession ever has two usable tokens.   *)
THEOREM NeverForked == Spec => []AtMostOneLive
<1>1. IInv => AtMostOneLive
  BY DEF IInv
<1> QED BY <1>1, Invariance, PTL

(* A step changes a revoked row in no way: not its reason, not its         *)
(* successor, and not back to a usable one.                                *)
LEMMA StepFinal ==
  ASSUME IInv, Next
  PROVE  \A x \in Sessions : row[x].state \in Reasons => row'[x] = row[x]
<1> SUFFICES ASSUME NEW x \in Sessions, row[x].state \in Reasons
             PROVE  row'[x] = row[x]
  OBVIOUS
<1>1. row[x].state # "live" /\ row[x] # NoRow
  BY NoRowType DEF Reasons
<1>2. CASE \E u \in Users : Create(u)
  BY <1>1, <1>2 DEF Create, Fresh
<1>3. ASSUME NEW r \in Reqs, CommitRotation(r)
      PROVE  row'[x] = row[x]
  <2>1. x # tok[r] /\ x # new[r]
    BY <1>1, <1>3, RotationCommitted
  <2> QED BY <1>3, <2>1, RotationCommitted
<1>4. ASSUME NEW r \in Reqs, CommitRevocation(r)
      PROVE  row'[x] = row[x]
  BY <1>1, <1>4, RevocationCommitted
<1>5. CASE row' = row
  BY <1>5
<1>6. ASSUME NEW r \in Reqs,
             \/ Refresh(r) \/ Logout(r) \/ LogoutAll(r)
             \/ SelectForUpdate(r) \/ InsertReplacement(r) \/ Supersede(r)
             \/ TakeSnapshot(r) \/ (\E z \in Sessions : UpdateRow(r, z))
             \/ CheckUser(r) \/ DeadlockVictim(r) \/ Crash(r)
      PROVE  row' = row
  BY <1>6 DEF Refresh, Logout, LogoutAll, Begin, SelectForUpdate, InsertReplacement,
     Supersede, TakeSnapshot, UpdateRow, CheckUser, DeadlockVictim, Crash, tableVars
<1>7. ASSUME \/ \E u \in Users : Suspend(u)
             \/ \E z \in Sessions : Expire(z)
      PROVE  row' = row
  BY <1>7 DEF Suspend, Expire, tableVars
<1> QED BY <1>2, <1>3, <1>4, <1>5, <1>6, <1>7 DEF Next, Work

(* Revocation is for ever, and the first recorded reason stays.            *)
THEOREM RevokedForEver == Spec => RevocationIsFinal
<1>1. IInv /\ [Next]_vars =>
        [\A x \in Sessions : row[x].state \in Reasons => row'[x] = row[x]]_vars
  BY StepFinal
<1> QED BY <1>1, Invariance, PTL DEF Spec, RevocationIsFinal

-----------------------------------------------------------------------------
(* The committed rows implement the abstract families.                     *)

(* Every step of the statements is an abstract step or a stutter.          *)
LEMMA AbstractStep ==
  ASSUME IInv, Next
  PROVE  [Families!Next]_(Families!tokenVars)
<1>1. CASE \E u \in Users : Create(u)
  <2>1. PICK u \in Users, x \in Sessions : /\ row[x] = NoRow
                                         /\ row' = [row EXCEPT ![x] = NewSession(x, u)]
    BY <1>1 DEF Create, Fresh
  <2>2. /\ row'[x].state = "live" /\ row'[x].family = x /\ row'[x].next = None
        /\ \A z \in Sessions \ {x} : row'[z] = row[z]
        /\ row[x].state = "absent" /\ row[x].next = None
    BY <2>1 DEF NewSession, NoRow, IInv, TypeOK
  <2>3. Families!Open(x)
    BY <2>2 DEF Families!Open
  <2> QED BY <2>3 DEF Families!Next
<1>2. ASSUME NEW r \in Reqs, CommitRotation(r)
      PROVE  Families!Next
  <2>0. PICK x \in Sessions, y \in Sessions : x = tok[r] /\ y = new[r]
    BY <1>2, RotationCommitted
  <2>1. /\ row[x].state = "live" /\ row[x] \in Row
        /\ row[y] = NoRow /\ x # y
        /\ row'[x] = [row[x] EXCEPT !.state = "rotated", !.next = y]
        /\ row'[y] = NewSession(row[x].family, row[x].user)
        /\ \A z \in Sessions \ {x, y} : row'[z] = row[z]
    BY <1>2, <2>0, RotationCommitted, NoRowType
  <2>2. /\ row'[x].state = "rotated" /\ row'[x].next = y
        /\ row'[x].family = row[x].family
    BY <2>1 DEF Row
  <2>3. /\ row'[y].state = "live" /\ row'[y].next = None
        /\ row'[y].family = row[x].family
        /\ row[y].state = "absent" /\ row[y].next = None
    BY <2>1 DEF NewSession, NoRow
  <2>4. /\ row[x].state = "live" /\ x # y
        /\ \A z \in Sessions \ {x, y} : row'[z] = row[z]
    BY <2>1
  <2>5. Families!Rotate(x, y)
    BY <2>2, <2>3, <2>4 DEF Families!Rotate
  <2> QED BY <2>5 DEF Families!Next
<1>3. ASSUME NEW r \in Reqs, CommitRevocation(r)
      PROVE  Families!Next
  <2>0. PICK S \in SUBSET Sessions :
          S = {z \in Sessions : row[z].state = "live" /\ row'[z].state # "live"}
    OBVIOUS
  <2>1. ASSUME NEW z \in Sessions
        PROVE  /\ row'[z].family = row[z].family /\ row'[z].next = row[z].next
               /\ z \notin S => row'[z].state = row[z].state
               /\ z \in S => row[z].state = "live" /\ row'[z].state \in Reasons
    <3>1. row[z] \in Row
      BY DEF IInv, TypeOK
    <3>2. CASE row'[z] = row[z]
      BY <2>0, <3>2
    <3>3. CASE row[z].state = "live" /\ \E s \in Reasons : row'[z] = [row[z] EXCEPT !.state = s]
      <4>1. PICK s \in Reasons : row'[z] = [row[z] EXCEPT !.state = s]
        BY <3>3
      <4>2. row'[z].state = s /\ row'[z].family = row[z].family /\ row'[z].next = row[z].next
        BY <3>1, <4>1 DEF Row
      <4>3. s # "live"
        BY DEF Reasons
      <4> QED BY <2>0, <3>3, <4>2, <4>3
    <3> QED BY <1>3, <2>0, <3>2, <3>3, RevocationCommitted
  <2>2. Families!Revoke(S)
    BY <2>1 DEF Families!Revoke, Reasons
  <2> QED BY <2>2 DEF Families!Next
<1>4. ASSUME row' = row
      PROVE  UNCHANGED Families!tokenVars
  BY <1>4 DEF Families!tokenVars
<1>5. CASE \/ \E r \in Reqs :
                \/ Refresh(r) \/ Logout(r) \/ LogoutAll(r)
                \/ SelectForUpdate(r) \/ InsertReplacement(r) \/ Supersede(r)
                \/ TakeSnapshot(r) \/ (\E z \in Sessions : UpdateRow(r, z))
                \/ CheckUser(r) \/ DeadlockVictim(r) \/ Crash(r)
           \/ \E u \in Users : Suspend(u)
           \/ \E z \in Sessions : Expire(z)
  <2>1. row' = row
    BY <1>5 DEF Refresh, Logout, LogoutAll, Begin, SelectForUpdate, InsertReplacement,
       Supersede, TakeSnapshot, UpdateRow, CheckUser, DeadlockVictim, Crash,
       Suspend, Expire, tableVars
  <2> QED BY <1>4, <2>1
<1> QED BY <1>1, <1>2, <1>3, <1>5 DEF Next, Work

(* Sign-ins, rotations and revocations are atomic: whatever statements     *)
(* interleave, each commit is one step of TokenFamilies.                   *)
THEOREM Refinement == Spec => ImplementsTokenFamilies
<1>1. Init => Families!Init
  BY DEF Init, Families!Init, NoRow
<1>2. UNCHANGED vars => UNCHANGED Families!tokenVars
  BY DEF vars, tableVars, Families!tokenVars
<1>3. IInv /\ [Next]_vars => [Families!Next]_(Families!tokenVars)
  BY <1>2, AbstractStep
<1> QED BY <1>1, <1>3, Invariance, PTL DEF Spec, ImplementsTokenFamilies, Families!Spec

-----------------------------------------------------------------------------
(* What the revoking statements are about, and the chain of replacements:  *)
(* a second invariant, on top of IInv.                                     *)

(* The part of an UPDATE's condition that no step changes.                 *)
Concerns(r, x) ==
  /\ row[x] # NoRow
  /\ \/ why[r] = "refresh_reuse" /\ row[x].family = row[tok[r]].family
     \/ why[r] \in {"expired", "logout"} /\ x = tok[r]
     \/ why[r] \in UserWide /\ row[x].user = row[tok[r]].user

(* No UPDATE writes 'rotated'.                                             *)
WhyInv == \A r \in Reqs : pc[r] \in {"update", "scan"} => why[r] \in Reasons \ {"rotated"}

(* Only the transaction of a rotation is about to mark a session rotated.  *)
RotatedInv ==
  \A x \in Sessions :
    pend[x].state = "rotated" /\ row[x].state = "live" =>
      \E r \in Reqs : lock[x] = r /\ pc[r] = "commit"

(* A visited row of the snapshot is revoked, or will be by the commit.     *)
ScanInv ==
  \A r \in Reqs : pc[r] = "scan" =>
    \A x \in seen[r] :
      /\ Concerns(r, x)
      /\ \/ x \in todo[r]
         \/ row[x].state # "live"
         \/ lock[x] = r /\ pend[x] # NoRow /\ pend[x].state # "live"

ChainInv ==
  /\ \A x \in Sessions : row[x].state = "rotated" <=> row[x].next # None
  /\ \A x, y \in Sessions :
       row[x].next = y => /\ row[y] # NoRow
                          /\ row[y].family = row[x].family
                          /\ row[y].user = row[x].user
                          /\ y # row[y].family
  /\ \A x, z, y \in Sessions : row[x].next = y /\ row[z].next = y => x = z
  /\ \A y \in Sessions :
       row[y] # NoRow /\ y # row[y].family => \E x \in Sessions : row[x].next = y

CInv == WhyInv /\ RotatedInv /\ ScanInv /\ ChainInv

Step(r) ==
  Refresh(r) \/ Logout(r) \/ LogoutAll(r) \/ Work(r) \/ DeadlockVictim(r) \/ Crash(r)

(* Who writes the committed table.                                         *)
LEMMA RowSteps ==
  ASSUME Next
  PROVE  \/ \E u \in Users : Create(u)
         \/ \E r \in Reqs : CommitRotation(r) \/ CommitRevocation(r)
         \/ row' = row
<1>1. ASSUME NEW r \in Reqs,
             \/ Refresh(r) \/ Logout(r) \/ LogoutAll(r)
             \/ SelectForUpdate(r) \/ InsertReplacement(r) \/ Supersede(r)
             \/ TakeSnapshot(r) \/ (\E z \in Sessions : UpdateRow(r, z))
             \/ CheckUser(r) \/ DeadlockVictim(r) \/ Crash(r)
      PROVE  row' = row
  BY <1>1 DEF Refresh, Logout, LogoutAll, Begin, SelectForUpdate, InsertReplacement,
     Supersede, TakeSnapshot, UpdateRow, CheckUser, DeadlockVictim, Crash, tableVars
<1>2. ASSUME \/ \E u \in Users : Suspend(u)
             \/ \E z \in Sessions : Expire(z)
      PROVE  row' = row
  BY <1>2 DEF Suspend, Expire, tableVars
<1> QED BY <1>1, <1>2 DEF Next, Work

(* Sessions stay, with their family and account, and end for good.         *)
LEMMA RowsStay ==
  ASSUME IInv, Next, NEW x \in Sessions, row[x] # NoRow
  PROVE  /\ row'[x] # NoRow
         /\ row'[x].family = row[x].family /\ row'[x].user = row[x].user
         /\ row[x].state # "live" => row'[x].state # "live"
<1>1. row[x] \in Row /\ row[x].state # "absent"
  BY DEF IInv, TypeOK, RowInv
<1>2. CASE row[x].state # "live"
  <2>1. row[x].state \in Reasons
    BY <1>1, <1>2 DEF Row
  <2> QED BY <2>1, StepFinal
<1>3. CASE row[x].state = "live"
  <2>1. CASE \E u \in Users : Create(u)
    <3>1. PICK u \in Users, z \in Fresh : row' = [row EXCEPT ![z] = NewSession(z, u)]
      BY <2>1 DEF Create
    <3>2. z \in Sessions /\ z # x
      BY DEF Fresh
    <3>3. row'[x] = row[x]
      BY <3>1, <3>2 DEF IInv, TypeOK
    <3> QED BY <1>3, <3>3
  <2>2. ASSUME NEW r \in Reqs, CommitRotation(r)
        PROVE  row'[x] # NoRow /\ row'[x].family = row[x].family /\ row'[x].user = row[x].user
    <3>1. \/ row'[x] = row[x]
          \/ row'[x] = [row[x] EXCEPT !.state = "rotated", !.next = new[r]]
      <4>1. x # new[r]
        BY <2>2, RotationCommitted
      <4>2. row' = [z \in Sessions |->
                      IF z = tok[r]
                        THEN [row[tok[r]] EXCEPT !.state = "rotated", !.next = new[r]]
                        ELSE IF z = new[r]
                          THEN NewSession(row[tok[r]].family, row[tok[r]].user)
                          ELSE row[z]]
        BY <2>2, RotationCommitted
      <4>3. CASE x = tok[r]
        <5>1. row'[x] = [row[tok[r]] EXCEPT !.state = "rotated", !.next = new[r]]
          BY ONLY x \in Sessions, <4>2, <4>3
        <5> QED BY <4>3, <5>1
      <4>4. CASE x # tok[r]
        BY <4>1, <4>2, <4>4
      <4> QED BY <4>3, <4>4
    <3>2. CASE row'[x] = [row[x] EXCEPT !.state = "rotated", !.next = new[r]]
      <4>1. row'[x].state = "rotated" /\ row'[x].family = row[x].family
            /\ row'[x].user = row[x].user
        BY <1>1, <3>2 DEF Row
      <4> QED BY <4>1, NoRowType
    <3> QED BY <3>1, <3>2
  <2>3. ASSUME NEW r \in Reqs, CommitRevocation(r)
        PROVE  row'[x] # NoRow /\ row'[x].family = row[x].family /\ row'[x].user = row[x].user
    <3>1. \/ row'[x] = row[x]
          \/ \E s \in Reasons : row'[x] = [row[x] EXCEPT !.state = s]
      BY <2>3, RevocationCommitted
    <3>2. ASSUME NEW s \in Reasons, row'[x] = [row[x] EXCEPT !.state = s]
          PROVE  row'[x] # NoRow /\ row'[x].family = row[x].family
                 /\ row'[x].user = row[x].user
      <4>1. row'[x].state = s /\ row'[x].family = row[x].family /\ row'[x].user = row[x].user
        BY <1>1, <3>2 DEF Row
      <4> QED BY <4>1, NoRowType DEF Reasons
    <3> QED BY <3>1, <3>2
  <2> QED BY <1>3, <2>1, <2>2, <2>3, RowSteps
<1> QED BY <1>2, <1>3

(* A request's step leaves the others alone, and the rows they hold.       *)
LEMMA OthersStay ==
  ASSUME IInv, NEW r \in Reqs, Step(r), NEW q \in Reqs \ {r}
  PROVE  /\ pc'[q] = pc[q] /\ tok'[q] = tok[q] /\ why'[q] = why[q]
         /\ todo'[q] = todo[q] /\ seen'[q] = seen[q]
         /\ \A x \in Sessions : row[x] # NoRow /\ lock[x] = q =>
              lock'[x] = q /\ pend'[x] = pend[x]
<1> USE DEF IInv
<1> DEFINE Others == /\ pc'[q] = pc[q] /\ tok'[q] = tok[q] /\ why'[q] = why[q]
                     /\ todo'[q] = todo[q] /\ seen'[q] = seen[q]
<1> DEFINE Rows == \A x \in Sessions : row[x] # NoRow /\ lock[x] = q =>
                     lock'[x] = q /\ pend'[x] = pend[x]
<1>1. ASSUME NEW x, NEW y, NEW step, NEW reason, Begin(r, x, y, step, reason)
      PROVE  Others /\ Rows
  BY <1>1 DEF Begin, tableVars, TypeOK
<1>2. CASE Refresh(r) \/ Logout(r) \/ LogoutAll(r)
  <2>1. PICK x, y, step, reason : Begin(r, x, y, step, reason)
    BY <1>2 DEF Refresh, Logout, LogoutAll
  <2> QED BY <1>1, <2>1
<1>3. CASE SelectForUpdate(r)
  <2>1. Others
    BY <1>3 DEF SelectForUpdate, TypeOK
  <2>2. Rows
    BY <1>3 DEF SelectForUpdate, RowFree, TypeOK
  <2> QED BY <2>1, <2>2
<1>4. CASE InsertReplacement(r)
  <2>1. Others
    BY <1>4 DEF InsertReplacement, TypeOK
  <2>2. new[r] \in Sessions /\ row[new[r]] = NoRow
    BY <1>4 DEF InsertReplacement, RequestInv, Rotating
  <2>3. Rows
    BY <1>4, <2>2 DEF InsertReplacement, TypeOK
  <2> QED BY <2>1, <2>3
<1>5. CASE Supersede(r)
  <2>1. Others
    BY <1>5 DEF Supersede, TypeOK
  <2>2. lock[tok[r]] = r
    BY <1>5 DEF Supersede, HoldInv, Rotating
  <2>3. Rows
    BY <1>5, <2>2 DEF Supersede, TypeOK
  <2> QED BY <2>1, <2>3
<1>6. CASE TakeSnapshot(r)
  BY <1>6 DEF TakeSnapshot, tableVars, TypeOK
<1>7. ASSUME NEW z \in Sessions, UpdateRow(r, z)
      PROVE  Others /\ Rows
  <2>1. Others
    BY <1>7 DEF UpdateRow, TypeOK
  <2>2. lock[z] # q
    BY <1>7 DEF UpdateRow, Granted
  <2>3. Rows
    BY <1>7, <2>2 DEF UpdateRow, TypeOK
  <2> QED BY <2>1, <2>3
<1>8. ASSUME ReleaseLocks(r) PROVE Rows
  BY <1>8 DEF ReleaseLocks, Held
<1>9. ASSUME BackToIdle(r) PROVE Others
  BY <1>9 DEF BackToIdle, TypeOK
<1>10. CASE CommitRotation(r)
  <2>1. Others
    BY <1>10 DEF CommitRotation, TypeOK
  <2> QED BY <1>8, <1>10, <2>1 DEF CommitRotation
<1>11. CASE CommitRevocation(r) \/ DeadlockVictim(r) \/ Crash(r)
  BY <1>8, <1>9, <1>11 DEF CommitRevocation, DeadlockVictim, Crash
<1>12. CASE CheckUser(r)
  <2>1. Rows
    BY <1>12 DEF CheckUser, tableVars
  <2>2. Others
    BY <1>9, <1>12 DEF CheckUser, TypeOK
  <2> QED BY <2>1, <2>2
<1> QED
  BY <1>2, <1>3, <1>4, <1>5, <1>6, <1>7, <1>10, <1>11, <1>12 DEF Step, Work

LEMMA WhyStep ==
  ASSUME IInv, WhyInv, NEW r \in Reqs, Step(r)
  PROVE  WhyInv'
<1>1. ASSUME NEW q \in Reqs \ {r}, pc'[q] \in {"update", "scan"}
      PROVE  why'[q] \in Reasons \ {"rotated"}
  BY <1>1, OthersStay DEF WhyInv
<1>2. pc'[r] \in {"update", "scan"} => why'[r] \in Reasons \ {"rotated"}
  <2> USE DEF IInv, TypeOK
  <2>1. CASE Refresh(r)
    BY <2>1 DEF Refresh, Begin
  <2>2. CASE Logout(r) \/ LogoutAll(r)
    BY <2>2 DEF Logout, LogoutAll, Begin, Reasons
  <2>3. CASE SelectForUpdate(r)
    <3>1. why[r] \in {"rotated", "expired"}
      BY <2>3 DEF SelectForUpdate, RequestInv
    <3> QED BY <2>3, <3>1 DEF SelectForUpdate, Reasons
  <2>4. CASE InsertReplacement(r) \/ Supersede(r) \/ CommitRotation(r)
    BY <2>4 DEF InsertReplacement, Supersede, CommitRotation
  <2>5. CASE TakeSnapshot(r) \/ \E x \in Sessions : UpdateRow(r, x)
    BY <2>5 DEF TakeSnapshot, UpdateRow, WhyInv
  <2>6. CASE CommitRevocation(r) \/ DeadlockVictim(r) \/ Crash(r)
    BY <2>6 DEF CommitRevocation, DeadlockVictim, Crash, BackToIdle
  <2>7. CASE CheckUser(r)
    BY <2>7 DEF CheckUser, BackToIdle, Reasons
  <2> QED BY <2>1, <2>2, <2>3, <2>4, <2>5, <2>6, <2>7 DEF Step, Work
<1> QED BY <1>1, <1>2 DEF WhyInv


LEMMA RotatedStep ==
  ASSUME IInv, Next, WhyInv, RotatedInv, NEW r \in Reqs, Step(r)
  PROVE  RotatedInv'
<1> USE DEF IInv
<1> SUFFICES ASSUME NEW x \in Sessions, pend'[x].state = "rotated", row'[x].state = "live"
             PROVE  \E q \in Reqs : lock'[x] = q /\ pc'[q] = "commit"
  BY DEF RotatedInv
<1>1. CASE pend'[x] = pend[x] /\ row[x].state = "live"
  <2>1. PICK q \in Reqs : lock[x] = q /\ pc[q] = "commit"
    BY <1>1 DEF RotatedInv
  <2>2. row[x] # NoRow
    BY <1>1, NoRowType
  <2>3. CASE q # r
    BY <2>1, <2>2, <2>3, OthersStay
  <2>4. CASE q = r
    <3>1. CommitRotation(r) \/ DeadlockVictim(r) \/ Crash(r)
      BY <2>1, <2>4 DEF Step, Work, Refresh, Logout, LogoutAll, Begin, SelectForUpdate,
         InsertReplacement, Supersede, TakeSnapshot, UpdateRow, CommitRevocation, CheckUser
    <3>2. pend'[x] = NoRow
      BY <2>1, <2>4, <3>1 DEF CommitRotation, DeadlockVictim, Crash, ReleaseLocks, Held
    <3> QED BY <3>2, NoRowType
  <2> QED BY <2>3, <2>4
<1>2. CASE pend'[x] = pend[x] /\ row[x].state # "live"
  <2>1. row[x] = NoRow
    BY <1>2, RowsStay
  <2>2. CommitRotation(r)
    <3>1. row' # row
      BY <1>2
    <3>2. CommitRotation(r) \/ CommitRevocation(r)
      BY <3>1 DEF Step, Work, Refresh, Logout, LogoutAll, Begin, SelectForUpdate,
         InsertReplacement, Supersede, TakeSnapshot, UpdateRow, CheckUser, DeadlockVictim,
         Crash, tableVars
    <3>3. CASE CommitRevocation(r)
      BY <1>2, <2>1, <3>3, RevocationCommitted
    <3> QED BY <3>2, <3>3
  <2>3. x = new[r]
    <3>1. x # tok[r]
      BY <2>1, <2>2, RotationCommitted
    <3> QED BY <1>2, <2>2, <3>1, RotationCommitted
  <2>4. lock[x] = r
    BY <2>2, <2>3 DEF CommitRotation, RotationInv
  <2>5. pend'[x] = NoRow
    BY <2>2, <2>4 DEF CommitRotation, ReleaseLocks, Held
  <2> QED BY <2>5, NoRowType
<1>3. CASE pend'[x] # pend[x]
  <2>1. CASE InsertReplacement(r)
    <3>1. x = new[r]
      BY <1>3, <2>1 DEF InsertReplacement, TypeOK
    <3>2. row[x] = NoRow /\ row' = row
      BY <2>1, <3>1 DEF InsertReplacement, RequestInv, Rotating
    <3> QED BY <3>2, NoRowType
  <2>2. CASE Supersede(r)
    <3>1. x = tok[r]
      BY <1>3, <2>2 DEF Supersede, TypeOK
    <3>2. lock[x] = r
      BY <2>2, <3>1 DEF Supersede, HoldInv, Rotating
    <3> QED BY <2>2, <3>2 DEF Supersede, TypeOK
  <2>3. ASSUME NEW z \in Sessions, UpdateRow(r, z) PROVE FALSE
    <3>1. x = z /\ Matches(r, x) /\ pend'[x] = Revoked(r, x) /\ row' = row
      BY <1>3, <2>3 DEF UpdateRow, TypeOK
    <3>2. why[r] # "rotated"
      BY <2>3 DEF UpdateRow, WhyInv
    <3>3. row[x] \in Row /\ row[x].state = "live"
      BY <3>1 DEF TypeOK
    <3>4. pend'[x].state = why[r]
      BY <3>1, <3>3 DEF Revoked, Row
    <3> QED BY <3>2, <3>4
  <2>4. CASE ReleaseLocks(r)
    <3>1. pend'[x] = NoRow
      BY <1>3, <2>4 DEF ReleaseLocks
    <3> QED BY <3>1, NoRowType
  <2>5. \/ InsertReplacement(r) \/ Supersede(r) \/ (\E z \in Sessions : UpdateRow(r, z))
        \/ ReleaseLocks(r)
    BY <1>3 DEF Step, Work, Refresh, Logout, LogoutAll, Begin, SelectForUpdate, TakeSnapshot,
       CheckUser, CommitRotation, CommitRevocation, DeadlockVictim, Crash, tableVars
  <2> QED BY <2>1, <2>2, <2>3, <2>4, <2>5
<1> QED BY <1>1, <1>2, <1>3

LEMMA ConcernsStays ==
  ASSUME IInv, Next, NEW r \in Reqs, NEW x \in Sessions, Concerns(r, x), pc[r] # "idle",
         tok'[r] = tok[r], why'[r] = why[r]
  PROVE  Concerns(r, x)'
<1>1. tok[r] \in Sessions /\ row[tok[r]] # NoRow
  BY DEF IInv, RequestInv
<1>2. /\ row'[tok[r]].family = row[tok[r]].family /\ row'[tok[r]].user = row[tok[r]].user
  BY <1>1, RowsStay
<1>3. /\ row'[x] # NoRow
      /\ row'[x].family = row[x].family /\ row'[x].user = row[x].user
  BY RowsStay DEF Concerns
<1> QED BY <1>2, <1>3 DEF Concerns

LEMMA ScanStep ==
  ASSUME IInv, Next, WhyInv, ScanInv, NEW r \in Reqs, Step(r)
  PROVE  ScanInv'
<1> USE DEF IInv
<1>1. ASSUME NEW q \in Reqs, pc[q] = "scan", tok'[q] = tok[q], why'[q] = why[q],
             NEW x \in seen[q],
             \/ x \in todo'[q]
             \/ row[x].state # "live"
             \/ lock'[x] = q /\ pend'[x] # NoRow /\ pend'[x].state # "live"
      PROVE  /\ Concerns(q, x)'
             /\ \/ x \in todo'[q]
                \/ row'[x].state # "live"
                \/ lock'[x] = q /\ pend'[x] # NoRow /\ pend'[x].state # "live"
  <2>1. x \in Sessions /\ Concerns(q, x)
    BY <1>1 DEF ScanInv, TypeOK
  <2>2. Concerns(q, x)'
    BY <1>1, <2>1, ConcernsStays
  <2>3. row[x].state # "live" => row'[x].state # "live"
    BY <2>1, RowsStay DEF Concerns
  <2> QED BY <1>1, <2>2, <2>3
<1>2. ASSUME NEW q \in Reqs \ {r}, pc'[q] = "scan", NEW x \in seen'[q]
      PROVE  /\ Concerns(q, x)'
             /\ \/ x \in todo'[q]
                \/ row'[x].state # "live"
                \/ lock'[x] = q /\ pend'[x] # NoRow /\ pend'[x].state # "live"
  <2>1. /\ pc[q] = "scan" /\ tok'[q] = tok[q] /\ why'[q] = why[q]
        /\ todo'[q] = todo[q] /\ x \in seen[q]
    BY <1>2, OthersStay
  <2>2. x \in Sessions /\ row[x] # NoRow
    BY <2>1 DEF ScanInv, Concerns, TypeOK
  <2>3. lock[x] = q => lock'[x] = q /\ pend'[x] = pend[x]
    BY <2>2, OthersStay
  <2>4. \/ x \in todo'[q]
        \/ row[x].state # "live"
        \/ lock'[x] = q /\ pend'[x] # NoRow /\ pend'[x].state # "live"
    BY <2>1, <2>3 DEF ScanInv
  <2> QED BY <1>1, <2>1, <2>4
<1>3. ASSUME pc'[r] = "scan", NEW x \in seen'[r]
      PROVE  /\ Concerns(r, x)'
             /\ \/ x \in todo'[r]
                \/ row'[x].state # "live"
                \/ lock'[x] = r /\ pend'[x] # NoRow /\ pend'[x].state # "live"
  <2>1. TakeSnapshot(r) \/ \E z \in Sessions : UpdateRow(r, z)
    BY <1>3 DEF Step, Work, Refresh, Logout, LogoutAll, Begin, SelectForUpdate,
       InsertReplacement, Supersede, CommitRotation, CommitRevocation, CheckUser,
       DeadlockVictim, Crash, BackToIdle, TypeOK
  <2>2. CASE TakeSnapshot(r)
    <3>1. /\ x \in todo'[r] /\ Matches(r, x)
          /\ row' = row /\ tok' = tok /\ why' = why
      BY <1>3, <2>2 DEF TakeSnapshot, tableVars, TypeOK
    <3>2. Concerns(r, x)'
      BY <3>1 DEF Matches, Concerns
    <3> QED BY <3>1, <3>2
  <2>3. ASSUME NEW z \in Sessions, UpdateRow(r, z)
        PROVE  /\ Concerns(r, x)'
               /\ \/ x \in todo'[r]
                  \/ row'[x].state # "live"
                  \/ lock'[x] = r /\ pend'[x] # NoRow /\ pend'[x].state # "live"
    <3>1. pc[r] = "scan" /\ tok'[r] = tok[r] /\ why'[r] = why[r] /\ x \in seen[r]
          /\ todo'[r] = todo[r] \ {z}
      BY <1>3, <2>3 DEF UpdateRow, TypeOK
    <3>2. Concerns(r, x) /\ x \in Sessions
      BY <3>1 DEF ScanInv, TypeOK
    <3>3. CASE x # z
      <4>1. lock'[x] = lock[x] /\ pend'[x] = pend[x]
        BY <2>3, <3>2, <3>3 DEF UpdateRow, TypeOK
      <4> QED BY <1>1, <3>1, <3>3, <4>1 DEF ScanInv
    <3>4. CASE x = z /\ ~Matches(r, x)
      <4>1. row[x].state # "live"
        BY <3>2, <3>4 DEF Concerns, Matches
      <4> QED BY <1>1, <3>1, <4>1
    <3>5. CASE x = z /\ Matches(r, x)
      <4>1. lock'[x] = r /\ pend'[x] = Revoked(r, x)
        BY <2>3, <3>5 DEF UpdateRow, TypeOK
      <4>2. row[x] \in Row /\ row[x].state # "absent" /\ why[r] \in Reasons
        BY <3>1, <3>2 DEF Concerns, TypeOK, RowInv, WhyInv
      <4>3. /\ pend'[x].state = IF why[r] = "refresh_reuse" /\ row[x].state # "live"
                                  THEN row[x].state ELSE why[r]
        BY <4>1, <4>2 DEF Revoked, Row
      <4>4. pend'[x].state # "live" /\ pend'[x].state # "absent"
        BY <4>2, <4>3 DEF Reasons
      <4>5. pend'[x] # NoRow
        BY <4>4, NoRowType
      <4> QED BY <1>1, <3>1, <4>1, <4>4, <4>5
    <3> QED BY <3>3, <3>4, <3>5
  <2> QED BY <2>1, <2>2, <2>3
<1> QED BY <1>2, <1>3 DEF ScanInv

LEMMA ChainStep ==
  ASSUME IInv, Next, RotatedInv, ChainInv
  PROVE  ChainInv'
<1>1. ASSUME row' = row PROVE ChainInv'
  BY <1>1 DEF ChainInv
<1>2. CASE \E u \in Users : Create(u)
  <2>1. PICK u \in Users, w \in Fresh : row' = [row EXCEPT ![w] = NewSession(w, u)]
    BY <1>2 DEF Create
  <2>2. w \in Sessions /\ row[w] = NoRow /\ row[w].next = None /\ row[w].state # "rotated"
    BY DEF Fresh, NoRow
  <2>3. /\ row'[w] # NoRow /\ row'[w].family = w /\ row'[w].next = None
        /\ row'[w].state # "rotated"
        /\ \A z \in Sessions \ {w} : row'[z] = row[z]
    BY <2>1, <2>2, NewSessionType DEF IInv, TypeOK, NewSession
  <2>4. \A z \in Sessions : row[z].next # w
    BY <2>2 DEF ChainInv
  <2>5. \A z \in Sessions :
          row'[z].next = row[z].next /\ (row'[z].state = "rotated" <=> row[z].state = "rotated")
    BY <2>2, <2>3
  <2> QED BY <2>2, <2>3, <2>4, <2>5 DEF ChainInv
<1>3. ASSUME NEW r \in Reqs, CommitRotation(r) PROVE ChainInv'
  <2>1. PICK x \in Sessions, y \in Sessions : x = tok[r] /\ y = new[r]
    BY <1>3, RotationCommitted
  <2>2. /\ row[x] \in Row /\ row[x] # NoRow /\ row[x].state = "live"
        /\ row[x].family \in Sessions /\ row[x].user \in Users \union {None}
        /\ row[y] = NoRow /\ x # y
        /\ row'[x] = [row[x] EXCEPT !.state = "rotated", !.next = y]
        /\ row'[y] = NewSession(row[x].family, row[x].user)
        /\ \A z \in Sessions \ {x, y} : row'[z] = row[z]
    BY <1>3, <2>1, RotationCommitted
  <2>3. /\ row'[x].state = "rotated" /\ row'[x].next = y
        /\ row'[x].family = row[x].family /\ row'[x].user = row[x].user
    BY <2>2 DEF Row
  <2>4. row'[x] # NoRow
    BY <2>3, NoRowType
  <2>5. /\ row'[y] # NoRow /\ row'[y].state # "rotated" /\ row'[y].next = None
        /\ row'[y].family = row[x].family /\ row'[y].user = row[x].user
    BY <2>2, NewSessionType DEF NewSession
  <2>6. row[x].next = None /\ row[y].next = None
    BY <2>2 DEF ChainInv, NoRow
  <2>7. y # row[x].family
    BY <2>2 DEF IInv, RowInv
  <2>8. \A z \in Sessions : row[z].next # y
    BY <2>2 DEF ChainInv
  <2>9. \A z \in Sessions : row'[z].state = "rotated" <=> row'[z].next # None
    <3>1. (row'[x].state = "rotated" <=> row'[x].next # None)
          /\ (row'[y].state = "rotated" <=> row'[y].next # None)
      BY <2>3, <2>5
    <3>2. \A z \in Sessions \ {x, y} : row'[z].state = "rotated" <=> row'[z].next # None
      BY <2>2 DEF ChainInv
    <3> QED BY <3>1, <3>2
  <2>10. ASSUME NEW a \in Sessions, NEW b \in Sessions, row'[a].next = b
         PROVE  /\ row'[b] # NoRow
                /\ row'[b].family = row'[a].family /\ row'[b].user = row'[a].user
                /\ b # row'[b].family
    <3>1. CASE a = x
      BY <2>3, <2>5, <2>7, <2>10, <3>1
    <3>2. CASE a = y
      BY <2>5, <2>10, <3>2
    <3>3. CASE a \notin {x, y}
      <4>1. row[a].next = b /\ b # y /\ row'[a] = row[a]
        BY <2>2, <2>8, <2>10, <3>3
      <4>2. /\ row[b] # NoRow /\ row[b].family = row[a].family /\ row[b].user = row[a].user
            /\ b # row[b].family
        BY <4>1 DEF ChainInv
      <4> QED BY <2>2, <2>3, <2>4, <4>1, <4>2
    <3> QED BY <3>1, <3>2, <3>3
  <2>11. \A a, c, b \in Sessions : row'[a].next = b /\ row'[c].next = b => a = c
    <3> SUFFICES ASSUME NEW a \in Sessions, NEW c \in Sessions, NEW b \in Sessions,
                        row'[a].next = b, row'[c].next = b
                 PROVE  a = c
      OBVIOUS
    <3>1. a # y /\ c # y
      BY <2>5
    <3>2. \A z \in Sessions \ {x, y} : row'[z].next # y
      BY <2>2, <2>8
    <3>3. CASE b = y
      BY <3>1, <3>2, <3>3
    <3>4. CASE b # y
      <4>1. row[a].next = b /\ row[c].next = b
        BY <2>2, <2>3, <3>1, <3>4
      <4> QED BY <4>1 DEF ChainInv
    <3> QED BY <3>3, <3>4
  <2>12. ASSUME NEW b \in Sessions, row'[b] # NoRow, b # row'[b].family
         PROVE  \E a \in Sessions : row'[a].next = b
    <3>1. CASE b = y
      BY <2>3, <3>1
    <3>2. CASE b # y
      <4>1. row[b] # NoRow /\ b # row[b].family
        BY <2>2, <2>3, <2>12, <3>2
      <4>2. PICK a \in Sessions : row[a].next = b
        BY <4>1 DEF ChainInv
      <4>3. row'[a] = row[a]
        BY <2>2, <2>6, <4>2
      <4> QED BY <4>2, <4>3
    <3> QED BY <3>1, <3>2
  <2> QED BY <2>9, <2>10, <2>11, <2>12 DEF ChainInv
<1>4. ASSUME NEW r \in Reqs, CommitRevocation(r) PROVE ChainInv'
  <2>1. ASSUME NEW z \in Sessions
        PROVE  /\ row'[z].next = row[z].next
               /\ row'[z].family = row[z].family /\ row'[z].user = row[z].user
               /\ row'[z].state = "rotated" <=> row[z].state = "rotated"
               /\ row'[z] = NoRow <=> row[z] = NoRow
    <3>1. CASE row'[z] = row[z]
      BY <3>1
    <3>2. CASE row'[z] # row[z]
      <4>1. row[z] # NoRow /\ row[z].state = "live" /\ row[z] \in Row
        BY <1>4, <3>2, RevocationCommitted DEF IInv, TypeOK
      <4>2. PICK s \in Reasons : row'[z] = [row[z] EXCEPT !.state = s]
        BY <1>4, <3>2, RevocationCommitted
      <4>3. /\ row'[z].next = row[z].next /\ row'[z].family = row[z].family
            /\ row'[z].user = row[z].user /\ row'[z].state = s
        BY <4>1, <4>2 DEF Row
      <4>4. row'[z] = pend[z] /\ lock[z] = r /\ pc[r] = "scan"
        BY <1>4, <3>2 DEF CommitRevocation, Publish, Held
      <4>5. s # "rotated"
        BY <4>1, <4>3, <4>4 DEF RotatedInv
      <4>6. row'[z] # NoRow
        BY <4>3, NoRowType DEF Reasons
      <4> QED BY <4>1, <4>3, <4>5, <4>6
    <3> QED BY <3>1, <3>2
  <2> QED BY <2>1 DEF ChainInv
<1> QED BY <1>1, <1>2, <1>3, <1>4, RowSteps

LEMMA CInvariance == Spec => []CInv
<1>1. Init => CInv
  <2> SUFFICES ASSUME Init PROVE CInv
    OBVIOUS
  <2>1. \A x \in Sessions : row[x] = NoRow /\ row[x].next = None /\ row[x].state # "rotated"
    BY DEF Init, NoRow
  <2>2. \A x \in Sessions : pend[x].state # "rotated"
    BY DEF Init, NoRow
  <2>3. \A r \in Reqs : pc[r] = "idle"
    BY DEF Init
  <2> QED BY <2>1, <2>2, <2>3 DEF CInv, WhyInv, RotatedInv, ScanInv, ChainInv
<1>2. ASSUME IInv, CInv, [Next]_vars PROVE CInv'
  <2>1. CASE UNCHANGED vars
    <3>1. UNCHANGED <<row, pend, lock, pc, tok, why, todo, seen>>
      BY <2>1 DEF vars, tableVars, reqVars
    <3>2. WhyInv' /\ RotatedInv' /\ ChainInv'
      BY <1>2, <3>1 DEF CInv, WhyInv, RotatedInv, ChainInv
    <3>3. ScanInv'
      BY <1>2, <3>1 DEF CInv, ScanInv, Concerns
    <3> QED BY <3>2, <3>3 DEF CInv
  <2>2. ASSUME NEW r \in Reqs, Next, Step(r) PROVE CInv'
    BY <1>2, <2>2, WhyStep, RotatedStep, ScanStep, ChainStep DEF CInv
  <2>3. ASSUME Next, \/ \E u \in Users : Create(u) \/ Suspend(u)
                     \/ \E x \in Sessions : Expire(x)
        PROVE  CInv'
    <3>1. UNCHANGED <<pend, lock, pc, tok, why, todo, seen>>
      BY <2>3 DEF Create, Suspend, Expire, tableVars, reqVars
    <3>2. WhyInv' /\ ChainInv'
      BY <1>2, <2>3, <3>1, ChainStep DEF CInv, WhyInv
    <3>3. RotatedInv'
      <4> SUFFICES ASSUME NEW x \in Sessions, pend[x].state = "rotated", row'[x].state = "live"
                   PROVE  \E r \in Reqs : lock[x] = r /\ pc[r] = "commit"
        BY <3>1 DEF RotatedInv
      <4>1. CASE row[x] # NoRow
        BY <1>2, <2>3, <4>1, RowsStay DEF CInv, RotatedInv
      <4>2. CASE row[x] = NoRow
        <5>1. pend[x] # NoRow
          BY NoRowType
        <5>2. PICK r \in Reqs : lock[x] = r /\ pc[r] \in {"supersede", "commit"}
                                  /\ x \in {tok[r], new[r]}
          BY <1>2, <4>2, <5>1 DEF IInv, PendInv
        <5>3. x # tok[r]
          BY <1>2, <4>2, <5>2 DEF IInv, RequestInv
        <5>4. pend[x] = NewSession(row[tok[r]].family, row[tok[r]].user)
          BY <1>2, <5>2, <5>3 DEF IInv, RotationInv
        <5>5. pend[x].state = "live"
          BY <5>4 DEF NewSession
        <5> QED BY <5>5
      <4> QED BY <4>1, <4>2
    <3>4. ScanInv'
      <4> SUFFICES ASSUME NEW r \in Reqs, pc[r] = "scan", NEW x \in seen[r]
                   PROVE  /\ Concerns(r, x)'
                          /\ \/ x \in todo[r]
                             \/ row'[x].state # "live"
                             \/ lock[x] = r /\ pend[x] # NoRow /\ pend[x].state # "live"
        BY <3>1 DEF ScanInv
      <4>1. x \in Sessions /\ Concerns(r, x)
        BY <1>2 DEF CInv, ScanInv, IInv, TypeOK
      <4>2. Concerns(r, x)'
        BY <1>2, <2>3, <3>1, <4>1, ConcernsStays
      <4>3. row[x].state # "live" => row'[x].state # "live"
        BY <1>2, <2>3, <4>1, RowsStay DEF Concerns
      <4> QED BY <1>2, <4>2, <4>3 DEF CInv, ScanInv
    <3> QED BY <3>2, <3>3, <3>4 DEF CInv
  <2> QED BY <1>2, <2>1, <2>2, <2>3 DEF Next, Step
<1> QED BY <1>1, <1>2, Invariance, PTL DEF Spec

(* replaced_by_session_id chains each family of rotations, whatever        *)
(* interleaves, is rolled back or revoked in between.                      *)
THEOREM FamiliesAreChains == Spec => []RotationChain
<1>1. ASSUME CInv PROVE RotationChain
  <2>1. ASSUME NEW y \in Sessions, row[y] # NoRow, y # row[y].family
        PROVE  Cardinality({x \in Sessions : row[x].next = y}) = 1
    <3>1. PICK x \in Sessions : row[x].next = y
      BY <1>1, <2>1 DEF CInv, ChainInv
    <3>2. {z \in Sessions : row[z].next = y} = {x}
      BY <1>1, <3>1 DEF CInv, ChainInv
    <3> QED BY <3>2, FS_Singleton
  <2> QED BY <1>1, <2>1 DEF CInv, ChainInv, RotationChain
<1> QED BY <1>1, CInvariance, PTL

(* A revoking UPDATE leaves no session of its snapshot usable, also those  *)
(* that other transactions held when it came to them.                      *)
THEOREM SnapshotRevoked == Spec => RevokesItsSnapshot
<1>1. ASSUME IInv, CInv, NEW r \in Reqs, CommitRevocation(r), NEW x \in seen[r]
      PROVE  row'[x].state # "live"
  <2>1. /\ pc[r] = "scan" /\ todo[r] = {} /\ x \in Sessions
        /\ row' = [z \in Sessions |->
                     IF z \in Held(r) /\ pend[z] # NoRow THEN pend[z] ELSE row[z]]
    BY <1>1 DEF CommitRevocation, UpdateDone, Publish, IInv, TypeOK
  <2>2. CASE lock[x] = r /\ pend[x] # NoRow /\ pend[x].state # "live"
    BY <2>1, <2>2 DEF Held
  <2>3. CASE row[x].state # "live"
    <3>1. row'[x] = row[x] \/ row[x].state = "live"
      BY <1>1, <2>1, RevocationCommitted
    <3> QED BY <2>3, <3>1
  <2> QED BY <1>1, <2>1, <2>2, <2>3 DEF CInv, ScanInv
<1>2. IInv /\ CInv /\ [Next]_vars =>
        [\A r \in Reqs : CommitRevocation(r) => \A x \in seen[r] : row'[x].state # "live"]_vars
  BY <1>1
<1> QED BY <1>2, Invariance, CInvariance, PTL DEF Spec, RevokesItsSnapshot
=============================================================================
