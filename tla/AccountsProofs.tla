---------------------------- MODULE AccountsProofs ----------------------------
(***************************************************************************)
(* Proofs about Accounts, for any accounts, challenges and requests.       *)
(***************************************************************************)
EXTENDS Accounts, FiniteSetTheorems, TLAPS

USE AccountsAssumption, NoneAssumption

(* The account or the challenge at hand, at the statements that need it.   *)
WithCode == {"send", "cancel", "count", "consume", "load", "activate", "check", "redeem"}
WithAccount == {"activate", "redeem", "reload", "session"}

(* What request r knows at its next statement.                             *)
At(r) ==
  /\ pc[r] \in {"insert", "issue", "replace", "create"} => req[r] \in CodeRequest
  /\ pc[r] = "link" => req[r] \in SocialRequest
  /\ chal[r] # None => chal[r] \in Issued
  /\ snap[r] \subseteq Issued
  /\ pc[r] \in WithCode =>
       /\ chal[r] # None
       /\ req[r] \in CodeRequest
       /\ req[r].phone = challenge[chal[r]].phone
       /\ req[r].purpose = challenge[chal[r]].purpose
  /\ pc[r] \in {"consume", "load", "activate", "check", "redeem"} => chal[r] \in delivered
  /\ pc[r] \in WithAccount =>
       /\ who[r] \in Accounts
       /\ IF chal[r] # None THEN user[who[r]].login
          ELSE req[r] \in SocialRequest /\ user[who[r]].subject = req[r].subject
  /\ pc[r] \in {"redeem", "session"} => user[who[r]].status # "pending"
  /\ pc[r] = "activate" =>
       /\ challenge[chal[r]].purpose = "registration"
       /\ user[who[r]].status = "pending" => user[who[r]].phone = challenge[chal[r]].phone

(* Requests that have consumed a code and not yet opened a session.        *)
Holding(r) == pc[r] \in {"load", "activate", "reload", "session"} /\ chal[r] # None

(* A consumed code is in the hands of one request, or was used, or lost.   *)
HolderInv ==
  \A r \in Reqs : Holding(r) =>
    /\ ~challenge[chal[r]].open
    /\ opened[chal[r]] = 0
    /\ \A s \in Reqs : Holding(s) /\ chal[s] = chal[r] => s = r

SpentInv ==
  \A c \in Challenges : opened[c] # 0 => opened[c] = 1 /\ c \in Issued /\ ~challenge[c].open

(* No two accounts are known by one address, identity or signing phone.    *)
Distinct ==
  \A u, v \in Accounts :
    \/ u = v
    \/ /\ user[u].email # None => user[u].email # user[v].email
       /\ user[u].subject # None => user[u].subject # user[v].subject
       /\ user[u].login /\ user[v].login /\ user[u].phone # None => user[u].phone # user[v].phone

IInv ==
  /\ TypeOK
  /\ \A r \in Reqs : At(r)
  /\ HolderInv
  /\ SpentInv
  /\ Distinct
  /\ UndeliveredIsClosed

(* Accounts stay, and what codes and identities prove about them; nobody   *)
(* becomes pending again, and who is pending keeps the phone.              *)
UsersStay ==
  \A u \in Accounts :
    /\ user'[u] # None
    /\ user'[u].login = user[u].login /\ user'[u].subject = user[u].subject
    /\ user'[u].status = "pending" => user[u].status = "pending" /\ user'[u].phone = user[u].phone

(* Challenges stay what they are, and are closed for good.                 *)
ChallengesStay ==
  /\ delivered \subseteq delivered'
  /\ \A c \in Issued :
       /\ challenge'[c] # None
       /\ challenge'[c].phone = challenge[c].phone
       /\ challenge'[c].purpose = challenge[c].purpose
       /\ challenge'[c].open => challenge[c].open

(* A request other than r sees nothing but that.                           *)
Idle(s) ==
  /\ pc'[s] = pc[s] /\ req'[s] = req[s]
  /\ chal'[s] = chal[s] /\ who'[s] = who[s] /\ snap'[s] = snap[s]

ReqTypes ==
  /\ pc \in [Reqs -> Steps]
  /\ req \in [Reqs -> CodeRequest \union SocialRequest \union {None}]
  /\ chal \in [Reqs -> Challenges \union {None}]
  /\ who \in [Reqs -> Users \union {None}]
  /\ snap \in [Reqs -> SUBSET Challenges]

-----------------------------------------------------------------------------
LEMMA OtherAt ==
  ASSUME TypeOK, NEW s \in Reqs, At(s), Idle(s), UsersStay, ChallengesStay
  PROVE  At(s)'
<1>1. (chal[s] # None => chal'[s] \in Issued') /\ snap'[s] \subseteq Issued'
  BY DEF At, Idle, ChallengesStay, Issued
<1>2. pc[s] \in WithAccount => who'[s] \in Accounts'
  BY DEF At, Idle, UsersStay, Accounts, TypeOK
<1>3. pc[s] \in WithCode =>
        /\ req'[s].phone = challenge'[chal'[s]].phone
        /\ req'[s].purpose = challenge'[chal'[s]].purpose
  BY DEF At, Idle, ChallengesStay
<1>4. pc[s] \in {"consume", "load", "activate", "check", "redeem"} => chal'[s] \in delivered'
  BY DEF At, Idle, ChallengesStay
<1>5. pc[s] \in WithAccount =>
        IF chal[s] # None THEN user'[who[s]].login
        ELSE req[s] \in SocialRequest /\ user'[who[s]].subject = req[s].subject
  BY DEF At, UsersStay
<1>6. pc[s] \in {"redeem", "session"} => user'[who[s]].status # "pending"
  BY DEF At, UsersStay, WithAccount
<1>7. pc[s] = "activate" =>
        /\ challenge'[chal[s]].purpose = "registration"
        /\ user'[who[s]].status = "pending" => user'[who[s]].phone = challenge'[chal[s]].phone
  BY DEF At, UsersStay, ChallengesStay, WithAccount, WithCode
<1> QED BY <1>1, <1>2, <1>3, <1>4, <1>5, <1>6, <1>7 DEF At, Idle

(* One row written: what that does to the whole.                           *)
LEMMA UserWritten ==
  ASSUME TypeOK, NEW u \in Users, NEW x \in UserRow, user' = [user EXCEPT ![u] = x]
  PROVE  /\ user' \in [Users -> UserRow \union {None}]
         /\ user'[u] = x /\ \A v \in Users \ {u} : user'[v] = user[v]
         /\ Accounts' = Accounts \union {u}
BY DEF TypeOK, Accounts

LEMMA AccountRows == ASSUME TypeOK PROVE \A u \in Accounts : user[u] \in UserRow
BY DEF TypeOK, Accounts

LEMMA IssuedRows == ASSUME TypeOK PROVE \A c \in Issued : challenge[c] \in ChallengeRow
BY DEF TypeOK, Issued

(* The variables of r after a step of r.                                   *)
LEMMA GoTypes ==
  ASSUME TypeOK, NEW r \in Reqs, NEW step \in Steps, Go(r, step), UNCHANGED <<req, chal, who, snap>>
  PROVE  /\ ReqTypes'
         /\ pc'[r] = step /\ snap'[r] = snap[r]
         /\ \A s \in Reqs \ {r} : Idle(s)
BY DEF TypeOK, ReqTypes, Go, Idle

LEMMA KeepTypes ==
  ASSUME TypeOK, NEW r \in Reqs, NEW step \in Steps, NEW c \in Challenges \union {None},
         NEW u \in Users \union {None}, NEW C \in SUBSET Challenges,
         Go(r, step), Keep(r, c, u, C), UNCHANGED req
  PROVE  /\ ReqTypes'
         /\ pc'[r] = step /\ chal'[r] = c /\ who'[r] = u /\ snap'[r] = C
         /\ \A s \in Reqs \ {r} : Idle(s)
BY DEF TypeOK, ReqTypes, Go, Keep, Idle

LEMMA BeginTypes ==
  ASSUME TypeOK, NEW r \in Reqs, NEW step \in Steps, NEW q \in CodeRequest \union SocialRequest,
         NEW c \in Challenges \union {None}, NEW u \in Users \union {None}, Begin(r, step, q, c, u)
  PROVE  /\ ReqTypes'
         /\ pc'[r] = step /\ req'[r] = q /\ chal'[r] = c /\ who'[r] = u /\ snap'[r] = {}
         /\ \A s \in Reqs \ {r} : Idle(s)
BY DEF TypeOK, ReqTypes, Begin, Go, Keep, Idle

LEMMA EndTypes ==
  ASSUME TypeOK, NEW r \in Reqs, End(r)
  PROVE  /\ ReqTypes'
         /\ pc'[r] = "idle" /\ chal'[r] = None /\ snap'[r] = {}
         /\ \A s \in Reqs \ {r} : Idle(s)
BY DEF TypeOK, ReqTypes, End, Go, Keep, Idle, Steps

-----------------------------------------------------------------------------
(* What remains to be shown of a step of r: its own place, the indexes and *)
(* the deliveries.                                                         *)
LEMMA RequestStep ==
  ASSUME IInv, NEW r \in Reqs, TypeOK', \A s \in Reqs \ {r} : Idle(s),
         UsersStay, ChallengesStay, opened' = opened, At(r)',
         Holding(r)' => Holding(r) /\ chal'[r] = chal[r],
         Distinct', UndeliveredIsClosed'
  PROVE  IInv'
<1>1. \A s \in Reqs : At(s)'
  BY OtherAt DEF IInv
<1>2. \A s \in Reqs : Holding(s)' => Holding(s) /\ chal'[s] = chal[s]
  BY DEF Holding, Idle
<1>3. \A s \in Reqs : Holding(s) => chal[s] \in Issued
  BY DEF IInv, At, Holding
<1>4. \A c \in Issued : ~challenge[c].open => c \in Issued' /\ ~challenge'[c].open
  BY DEF ChallengesStay, Issued
<1>5. HolderInv'
  <2> SUFFICES ASSUME NEW s \in Reqs, Holding(s)'
               PROVE  /\ ~challenge'[chal'[s]].open
                      /\ opened'[chal'[s]] = 0
                      /\ \A t \in Reqs : Holding(t)' /\ chal'[t] = chal'[s] => t = s
    BY DEF HolderInv
  <2>1. Holding(s) /\ chal'[s] = chal[s] /\ chal[s] \in Issued
    BY <1>2, <1>3
  <2>2. /\ ~challenge[chal[s]].open /\ opened[chal[s]] = 0
        /\ \A t \in Reqs : Holding(t) /\ chal[t] = chal[s] => t = s
    BY <2>1 DEF IInv, HolderInv
  <2> QED BY <1>2, <1>4, <2>1, <2>2
<1>6. SpentInv'
  BY <1>4 DEF IInv, SpentInv
<1> QED BY <1>1, <1>5, <1>6 DEF IInv

(* A step of a request that writes nothing.                                *)
LEMMA QuietStep ==
  ASSUME IInv, NEW r \in Reqs, UNCHANGED <<user, codeVars, history>>, ReqTypes',
         \A s \in Reqs \ {r} : Idle(s), At(r)', pc[r] \notin {"send", "cancel"},
         Holding(r)' => Holding(r) /\ chal'[r] = chal[r]
  PROVE  IInv'
<1>1. TypeOK'
  BY DEF IInv, TypeOK, ReqTypes, codeVars, history, Issued, Accounts
<1>2. UsersStay /\ ChallengesStay /\ opened' = opened
  BY DEF UsersStay, ChallengesStay, Accounts, Issued, codeVars, history
<1>3. Distinct'
  BY DEF IInv, Distinct, Accounts
<1>4. UndeliveredIsClosed'
  BY DEF IInv, UndeliveredIsClosed, Idle, Issued, codeVars, history
<1> QED BY <1>1, <1>2, <1>3, <1>4, RequestStep

(* What the others do to accounts and to the time of challenges.           *)
LEMMA OutsideStep ==
  ASSUME IInv, TypeOK', UNCHANGED <<challenge, delivered, reqVars, history>>, UsersStay, Distinct'
  PROVE  IInv'
<1>1. ChallengesStay /\ opened' = opened /\ \A s \in Reqs : Idle(s)
  BY DEF ChallengesStay, Issued, reqVars, history, Idle
<1>2. \A s \in Reqs : At(s)'
  BY <1>1, OtherAt DEF IInv
<1>3. HolderInv' /\ SpentInv'
  BY DEF IInv, HolderInv, SpentInv, Holding, Issued, reqVars, history
<1>4. UndeliveredIsClosed'
  BY DEF IInv, UndeliveredIsClosed, Issued, reqVars, history
<1> QED BY <1>2, <1>3, <1>4 DEF IInv

(* A request that ends, or begins, is nowhere in particular.               *)
LEMMA EndStep ==
  ASSUME IInv, NEW r \in Reqs, pc[r] \notin {"send", "cancel"}, End(r),
         UNCHANGED <<user, codeVars, history>>
  PROVE  IInv'
<1>1. /\ ReqTypes'
      /\ pc'[r] = "idle" /\ chal'[r] = None /\ snap'[r] = {}
      /\ \A s \in Reqs \ {r} : Idle(s)
  BY EndTypes DEF IInv
<1>2. At(r)' /\ ~Holding(r)'
  BY <1>1 DEF At, Holding, WithCode, WithAccount
<1> QED BY <1>1, <1>2, QuietStep

LEMMA BeginStep ==
  ASSUME IInv, NEW r \in Reqs, NEW step \in Steps, NEW q \in CodeRequest \union SocialRequest,
         NEW c \in Challenges \union {None}, NEW u \in Users \union {None},
         Begin(r, step, q, c, u),
         \/ step \in {"insert", "replace"} /\ q \in CodeRequest /\ c = None
         \/ step = "link" /\ q \in SocialRequest /\ c = None
         \/ /\ step \in {"count", "check", "consume"} /\ c \in Issued
            /\ q = On(challenge[c].phone, challenge[c].purpose)
            /\ step # "count" => c \in delivered
         \/ /\ step = "session" /\ c = None /\ u \in FindBySocialIdentity(q.subject)
            /\ q \in SocialRequest /\ user[u].status = "active"
  PROVE  IInv'
<1>1. /\ ReqTypes'
      /\ pc'[r] = step /\ req'[r] = q /\ chal'[r] = c /\ who'[r] = u /\ snap'[r] = {}
      /\ \A s \in Reqs \ {r} : Idle(s)
  BY BeginTypes DEF IInv
<1>2. pc[r] = "idle" /\ UNCHANGED <<user, codeVars, history>>
  BY DEF Begin
<1>3. Issued' = Issued /\ Accounts' = Accounts
  BY <1>2 DEF Issued, Accounts, codeVars
<1>4. ~Holding(r)'
  BY <1>1 DEF Holding
<1>5. At(r)'
  <2>1. CASE step \in {"insert", "replace", "link"}
    BY <1>1, <2>1 DEF At, WithCode, WithAccount
  <2>2. CASE step \in {"count", "check", "consume"}
    <3>1. challenge[c] \in ChallengeRow /\ c # None
      BY <2>2, IssuedRows DEF IInv, Issued
    <3>2. q \in CodeRequest /\ q.phone = challenge[c].phone /\ q.purpose = challenge[c].purpose
      BY <2>2, <3>1 DEF On, ChallengeRow, CodeRequest
    <3> QED BY <1>1, <1>2, <1>3, <2>2, <3>1, <3>2 DEF At, WithCode, WithAccount, codeVars
  <2>3. CASE step = "session"
    BY <1>1, <1>2, <1>3, <2>3 DEF At, WithCode, WithAccount, FindBySocialIdentity
  <2> QED BY <2>1, <2>2, <2>3
<1> QED BY <1>1, <1>2, <1>4, <1>5, QuietStep

-----------------------------------------------------------------------------
(* The statements.                                                         *)
LEMMA AccountMade ==
  ASSUME IInv, NEW x \in UserRow, Insert(x), x.email # None \/ x.phone # None,
         x.email # None => FindByEmail(x.email) = {},
         x.subject # None => FindBySocialIdentity(x.subject) = {},
         x.login => x.phone # None /\ FindByPhone(x.phone) = {}
  PROVE  /\ UsersStay /\ Distinct'
         /\ user' \in [Users -> UserRow \union {None}]
         /\ \A u \in Accounts' : user'[u].email # None \/ user'[u].phone # None
<1>1. PICK u \in Users \ Accounts : user' = [user EXCEPT ![u] = x]
  BY DEF Insert
<1>2. /\ user' \in [Users -> UserRow \union {None}]
      /\ user'[u] = x /\ \A v \in Users \ {u} : user'[v] = user[v]
      /\ Accounts' = Accounts \union {u}
  BY <1>1, UserWritten DEF IInv
<1>3. \A v \in Accounts : v # u /\ v \in Users
  BY <1>1 DEF Accounts
<1>4. UsersStay
  BY <1>2, <1>3 DEF UsersStay, Accounts
<1>5. \A v \in Accounts :
        /\ x.email # None => user[v].email # x.email
        /\ x.subject # None => user[v].subject # x.subject
        /\ x.login /\ user[v].login => user[v].phone # x.phone
  BY DEF FindByEmail, FindBySocialIdentity, FindByPhone
<1>6. Distinct'
  <2> SUFFICES ASSUME NEW v \in Accounts', NEW w \in Accounts', v # w
               PROVE  /\ user'[v].email # None => user'[v].email # user'[w].email
                      /\ user'[v].subject # None => user'[v].subject # user'[w].subject
                      /\ user'[v].login /\ user'[w].login /\ user'[v].phone # None
                           => user'[v].phone # user'[w].phone
    BY DEF Distinct
  <2>1. CASE v = u
    BY <1>2, <1>3, <1>5, <2>1
  <2>2. CASE w = u
    BY <1>2, <1>3, <1>5, <2>2
  <2>3. CASE v # u /\ w # u
    BY <1>2, <1>3, <2>3 DEF IInv, Distinct
  <2> QED BY <2>1, <2>2, <2>3
<1>7. \A v \in Accounts' : user'[v].email # None \/ user'[v].phone # None
  BY <1>2, <1>3 DEF IInv, TypeOK
<1> QED BY <1>2, <1>4, <1>6, <1>7

LEMMA ChallengesUnchanged ==
  ASSUME UNCHANGED <<codeVars, history>>
  PROVE  ChallengesStay /\ opened' = opened /\ Issued' = Issued
BY DEF ChallengesStay, Issued, codeVars, history

LEMMA DeliveriesKept ==
  ASSUME IInv, NEW r \in Reqs, UNCHANGED <<codeVars, history>>, \A s \in Reqs \ {r} : Idle(s),
         pc[r] \notin {"send", "cancel"}
  PROVE  UndeliveredIsClosed'
BY DEF IInv, UndeliveredIsClosed, Idle, Issued, codeVars, history

(* A row of users is written, and r goes on.                               *)
LEMMA UserStep ==
  ASSUME IInv, NEW r \in Reqs, UNCHANGED <<codeVars, history>>, ReqTypes',
         \A s \in Reqs \ {r} : Idle(s), pc[r] \notin {"send", "cancel"},
         UsersStay, Distinct',
         user' \in [Users -> UserRow \union {None}],
         \A u \in Accounts' : user'[u].email # None \/ user'[u].phone # None,
         At(r)', Holding(r)' => Holding(r) /\ chal'[r] = chal[r]
  PROVE  IInv'
<1>1. TypeOK'
  BY DEF IInv, TypeOK, ReqTypes, codeVars, history, Issued
<1> QED BY <1>1, ChallengesUnchanged, DeliveriesKept, RequestStep

LEMMA CreatePhoneUserKeeps ==
  ASSUME IInv, NEW r \in Reqs, CreatePhoneUser(r)
  PROVE  IInv'
<1>1. pc[r] = "insert" /\ req[r] \in CodeRequest /\ UNCHANGED <<codeVars, history>>
  BY DEF CreatePhoneUser, IInv, At
<1>2. CASE FindByPhone(req[r].phone) # {}
  BY <1>1, <1>2, EndStep DEF CreatePhoneUser
<1>3. CASE FindByPhone(req[r].phone) = {}
  <2> DEFINE x == NewUser(req[r].phone, TRUE, None, None, "pending")
  <2>1. Insert(x) /\ Go(r, "issue") /\ UNCHANGED <<req, chal, who, snap>>
    BY <1>3 DEF CreatePhoneUser
  <2>2. req[r].phone \in Phones
    BY <1>1 DEF CodeRequest
  <2>3. /\ x \in UserRow /\ x.email = None /\ x.subject = None /\ x.login
        /\ x.phone = req[r].phone /\ x.phone # None
    BY <2>2 DEF NewUser, UserRow
  <2> HIDE DEF x
  <2>4. /\ UsersStay /\ Distinct'
        /\ user' \in [Users -> UserRow \union {None}]
        /\ \A u \in Accounts' : user'[u].email # None \/ user'[u].phone # None
    BY <1>3, <2>1, <2>3, AccountMade
  <2>5. ReqTypes' /\ pc'[r] = "issue" /\ \A s \in Reqs \ {r} : Idle(s)
    BY <2>1, GoTypes DEF IInv, Steps
  <2>6. At(r)'
    BY <1>1, <2>1, <2>5, ChallengesUnchanged DEF IInv, At, WithCode, WithAccount
  <2> QED BY <1>1, <2>4, <2>5, <2>6, UserStep DEF Holding
<1> QED BY <1>2, <1>3

LEMMA CreateSocialUserKeeps ==
  ASSUME IInv, NEW r \in Reqs, CreateSocialUser(r)
  PROVE  IInv'
<1>1. pc[r] = "link" /\ req[r] \in SocialRequest /\ UNCHANGED <<codeVars, history>>
  BY DEF CreateSocialUser, IInv, At
<1>2. CASE FindByEmail(req[r].email) # {} \/ FindBySocialIdentity(req[r].subject) # {}
  BY <1>1, <1>2, EndStep DEF CreateSocialUser
<1>3. CASE FindByEmail(req[r].email) = {} /\ FindBySocialIdentity(req[r].subject) = {}
  <2> DEFINE x == NewUser(None, FALSE, req[r].email, req[r].subject, "active")
  <2>1. PICK u \in Users \ Accounts :
          /\ user' = [user EXCEPT ![u] = x]
          /\ Keep(r, None, u, {}) /\ Go(r, "reload") /\ UNCHANGED req
    BY <1>3 DEF CreateSocialUser
  <2>2. req[r].email \in Emails /\ req[r].subject \in Subjects
    BY <1>1 DEF SocialRequest
  <2>3. /\ x \in UserRow /\ x.email = req[r].email /\ x.subject = req[r].subject /\ ~x.login
        /\ x.email # None
    BY <2>2 DEF NewUser, UserRow
  <2> HIDE DEF x
  <2>4. Insert(x)
    BY <2>1 DEF Insert
  <2>5. /\ UsersStay /\ Distinct'
        /\ user' \in [Users -> UserRow \union {None}]
        /\ \A v \in Accounts' : user'[v].email # None \/ user'[v].phone # None
    BY <1>3, <2>3, <2>4, AccountMade
  <2>6. /\ ReqTypes' /\ pc'[r] = "reload" /\ chal'[r] = None /\ who'[r] = u /\ snap'[r] = {}
        /\ \A s \in Reqs \ {r} : Idle(s)
    BY <2>1, KeepTypes DEF IInv, Steps
  <2>7. user'[u] = x /\ u \in Accounts'
    BY <2>1, <2>3 DEF IInv, TypeOK, Accounts
  <2>8. At(r)'
    BY <1>1, <2>1, <2>3, <2>6, <2>7 DEF At, WithCode, WithAccount
  <2> QED BY <1>1, <2>5, <2>6, <2>8, UserStep DEF Holding
<1> QED BY <1>2, <1>3

LEMMA ActivateKeeps ==
  ASSUME IInv, NEW r \in Reqs, Activate(r)
  PROVE  IInv'
<1> DEFINE u == who[r]
           x == [user[u] EXCEPT !.status = IF @ = "pending" THEN "active" ELSE @]
<1>1. /\ pc[r] = "activate" /\ user' = [user EXCEPT ![u] = x] /\ Go(r, "reload")
      /\ UNCHANGED <<codeVars, req, chal, who, snap, history>>
  BY DEF Activate
<1>2. /\ u \in Accounts /\ u \in Users /\ user[u] \in UserRow
      /\ chal[r] # None /\ user[u].login
  BY <1>1, AccountRows DEF IInv, At, Accounts, WithAccount, WithCode
<1>3. /\ x \in UserRow /\ x.login = user[u].login /\ x.email = user[u].email
      /\ x.subject = user[u].subject /\ x.phone = user[u].phone /\ x.status # "pending"
  BY <1>2 DEF UserRow
<1> HIDE DEF x
<1>4. /\ user' \in [Users -> UserRow \union {None}]
      /\ user'[u] = x /\ \A v \in Users \ {u} : user'[v] = user[v]
      /\ Accounts' = Accounts \union {u}
  BY <1>1, <1>2, <1>3, UserWritten DEF IInv
<1>5. Accounts' = Accounts /\ \A v \in Accounts : v \in Users
  BY <1>2, <1>4 DEF Accounts
<1>6. UsersStay
  BY <1>2, <1>3, <1>4, <1>5 DEF UsersStay, Accounts
<1>7. \A v \in Accounts : /\ user'[v].email = user[v].email /\ user'[v].subject = user[v].subject
                          /\ user'[v].login = user[v].login /\ user'[v].phone = user[v].phone
  BY <1>3, <1>4, <1>5
<1>8. Distinct'
  BY <1>5, <1>7 DEF IInv, Distinct
<1>9. \A v \in Accounts' : user'[v].email # None \/ user'[v].phone # None
  BY <1>5, <1>7 DEF IInv, TypeOK
<1>10. ReqTypes' /\ pc'[r] = "reload" /\ \A s \in Reqs \ {r} : Idle(s)
  BY <1>1, GoTypes DEF IInv, Steps
<1>11. At(r)'
  BY <1>1, <1>2, <1>3, <1>4, <1>10, ChallengesUnchanged DEF IInv, At, WithCode, WithAccount
<1> QED BY <1>1, <1>4, <1>6, <1>8, <1>9, <1>10, <1>11, UserStep DEF Holding

LEMMA CompleteEmailSignupKeeps ==
  ASSUME IInv, CompleteEmailSignup
  PROVE  IInv'
<1>1. PICK e \in Emails, p \in Phones \union {None} :
        FindByEmail(e) = {} /\ Insert(NewUser(p, FALSE, e, None, "active"))
  BY DEF CompleteEmailSignup
<1>2. UNCHANGED <<codeVars, reqVars, history>>
  BY DEF CompleteEmailSignup
<1> DEFINE x == NewUser(p, FALSE, e, None, "active")
<1>3. /\ x \in UserRow /\ x.email = e /\ x.email # None /\ x.subject = None /\ ~x.login
      /\ Insert(x)
  BY <1>1 DEF NewUser, UserRow
<1> HIDE DEF x
<1>4. /\ UsersStay /\ Distinct'
      /\ user' \in [Users -> UserRow \union {None}]
      /\ \A u \in Accounts' : user'[u].email # None \/ user'[u].phone # None
  BY <1>1, <1>3, AccountMade
<1>5. TypeOK'
  BY <1>2, <1>4 DEF IInv, TypeOK, Issued, codeVars, reqVars, history
<1> QED BY <1>2, <1>4, <1>5, OutsideStep DEF codeVars

(* A row of users changes its phone or its status.                         *)
LEMMA UserChanged ==
  ASSUME IInv, NEW u \in Accounts, NEW p \in Phones \union {None},
         NEW status \in {"active", "suspended"}, user[u].status = "active",
         p # None \/ user[u].email # None,
         user[u].login => p = user[u].phone \/ FindByPhone(p) \subseteq {u},
         user' = [user EXCEPT ![u] = [user[u] EXCEPT !.phone = p, !.status = status]],
         UNCHANGED <<codeVars, reqVars, history>>
  PROVE  IInv'
<1> DEFINE x == [user[u] EXCEPT !.phone = p, !.status = status]
<1>1. u \in Users /\ user[u] \in UserRow
  BY AccountRows DEF IInv, Accounts
<1>2. /\ x \in UserRow /\ x.login = user[u].login /\ x.email = user[u].email
      /\ x.subject = user[u].subject /\ x.phone = p /\ x.status # "pending"
  BY <1>1 DEF UserRow
<1> HIDE DEF x
<1>3. /\ user' \in [Users -> UserRow \union {None}]
      /\ user'[u] = x /\ \A v \in Users \ {u} : user'[v] = user[v]
      /\ Accounts' = Accounts \union {u}
  BY <1>1, <1>2, UserWritten DEF IInv, x
<1>4. Accounts' = Accounts /\ \A v \in Accounts : v \in Users
  BY <1>3 DEF Accounts
<1>5. UsersStay
  BY <1>2, <1>3, <1>4 DEF UsersStay, Accounts
<1>6. Distinct'
  <2> SUFFICES ASSUME NEW v \in Accounts, NEW w \in Accounts, v # w
               PROVE  /\ user'[v].email # None => user'[v].email # user'[w].email
                      /\ user'[v].subject # None => user'[v].subject # user'[w].subject
                      /\ user'[v].login /\ user'[w].login /\ user'[v].phone # None
                           => user'[v].phone # user'[w].phone
    BY <1>4 DEF Distinct
  <2>1. /\ user[v].email # None => user[v].email # user[w].email
        /\ user[v].subject # None => user[v].subject # user[w].subject
        /\ user[v].login /\ user[w].login /\ user[v].phone # None => user[v].phone # user[w].phone
        /\ user[w].login /\ user[v].login /\ user[w].phone # None => user[w].phone # user[v].phone
    BY DEF IInv, Distinct
  <2>2. CASE v = u
    BY <1>2, <1>3, <1>4, <2>1, <2>2 DEF FindByPhone
  <2>3. CASE w = u
    BY <1>2, <1>3, <1>4, <2>1, <2>3 DEF FindByPhone
  <2>4. CASE v # u /\ w # u
    BY <1>3, <1>4, <2>1, <2>4
  <2> QED BY <2>2, <2>3, <2>4
<1>7. \A v \in Accounts' : user'[v].email # None \/ user'[v].phone # None
  BY <1>2, <1>3, <1>4 DEF IInv, TypeOK
<1>8. TypeOK'
  BY <1>3, <1>7 DEF IInv, TypeOK, Issued, codeVars, reqVars, history
<1> QED BY <1>5, <1>6, <1>8, OutsideStep DEF codeVars

LEMMA UpdateRenterProfileKeeps ==
  ASSUME IInv, UpdateRenterProfile
  PROVE  IInv'
<1>1. PICK u \in Accounts, p \in Phones \union {None} :
        /\ user[u].status = "active" /\ (p # None \/ user[u].email # None)
        /\ user[u].login => FindByPhone(p) \subseteq {u}
        /\ user' = [user EXCEPT ![u].phone = p]
        /\ UNCHANGED <<codeVars, reqVars, history>>
  BY DEF UpdateRenterProfile
<1>2. user[u] \in UserRow
  BY AccountRows DEF IInv
<1>3. [user[u] EXCEPT !.phone = p] = [user[u] EXCEPT !.phone = p, !.status = "active"]
  BY <1>1, <1>2 DEF UserRow
<1>4. user' = [user EXCEPT ![u] = [user[u] EXCEPT !.phone = p, !.status = "active"]]
  BY <1>1, <1>3
<1> QED BY <1>1, <1>4, UserChanged

LEMMA SuspendKeeps ==
  ASSUME IInv, Suspend
  PROVE  IInv'
<1>1. PICK u \in Accounts :
        /\ user[u].status = "active"
        /\ user' = [user EXCEPT ![u].status = "suspended"]
        /\ UNCHANGED <<codeVars, reqVars, history>>
  BY DEF Suspend
<1>2. user[u] \in UserRow
  BY AccountRows DEF IInv
<1>3. /\ user[u].phone \in Phones \union {None}
      /\ user[u].phone # None \/ user[u].email # None
  BY <1>2 DEF IInv, TypeOK, UserRow
<1>4. [user[u] EXCEPT !.status = "suspended"]
        = [user[u] EXCEPT !.phone = user[u].phone, !.status = "suspended"]
  BY <1>2 DEF UserRow
<1>5. user' = [user EXCEPT ![u] = [user[u] EXCEPT !.phone = user[u].phone, !.status = "suspended"]]
  BY <1>1, <1>4
<1> QED BY <1>1, <1>3, <1>5, UserChanged

LEMMA ExpireKeeps ==
  ASSUME IInv, Expire
  PROVE  IInv'
<1>1. UNCHANGED <<user, challenge, delivered, reqVars, history>> /\ expired' \subseteq Issued
  BY DEF Expire, IInv, TypeOK
<1>2. TypeOK'
  BY <1>1 DEF IInv, TypeOK, Issued, Accounts, reqVars, history
<1>3. UsersStay /\ Distinct'
  BY <1>1 DEF IInv, UsersStay, Distinct, Accounts
<1> QED BY <1>1, <1>2, <1>3, OutsideStep

-----------------------------------------------------------------------------
(* Challenges with some of them closed.                                    *)
LEMMA ClosedRows ==
  ASSUME TypeOK, NEW C \in SUBSET Issued
  PROVE  /\ Closed(C) \in [Challenges -> ChallengeRow \union {None}]
         /\ \A c \in Challenges : Closed(C)[c] # None <=> c \in Issued
         /\ \A c \in Issued : /\ Closed(C)[c].phone = challenge[c].phone
                              /\ Closed(C)[c].purpose = challenge[c].purpose
                              /\ Closed(C)[c].wrong = challenge[c].wrong
                              /\ (Closed(C)[c].open <=> challenge[c].open /\ c \notin C)
<1>1. \A c \in Issued : challenge[c] \in ChallengeRow
  BY IssuedRows
<1>2. \A c \in C : /\ [challenge[c] EXCEPT !.open = FALSE] \in ChallengeRow
                   /\ [challenge[c] EXCEPT !.open = FALSE].phone = challenge[c].phone
                   /\ [challenge[c] EXCEPT !.open = FALSE].purpose = challenge[c].purpose
                   /\ [challenge[c] EXCEPT !.open = FALSE].wrong = challenge[c].wrong
                   /\ ~[challenge[c] EXCEPT !.open = FALSE].open
  BY <1>1 DEF ChallengeRow
<1>3. \A c \in Challenges : Closed(C)[c] = IF c \in C THEN [challenge[c] EXCEPT !.open = FALSE]
                                                     ELSE challenge[c]
  BY DEF Closed
<1>4. \A c \in Challenges : challenge[c] # None <=> c \in Issued
  BY DEF Issued
<1>5. \A c \in Issued : challenge[c].open \in BOOLEAN /\ c \in Challenges
  BY <1>1 DEF ChallengeRow, Issued
<1>6. Closed(C) \in [Challenges -> ChallengeRow \union {None}]
  BY <1>1, <1>2, <1>4 DEF Closed
<1>7. \A c \in Challenges : Closed(C)[c] # None <=> c \in Issued
  BY <1>2, <1>3, <1>4
<1>8. \A c \in Issued : (Closed(C)[c].open <=> challenge[c].open /\ c \notin C)
  BY <1>2, <1>3, <1>5
<1> QED BY <1>2, <1>3, <1>5, <1>6, <1>7, <1>8

(* A request closes challenges, and goes on or ends.                       *)
LEMMA CloseStep ==
  ASSUME IInv, NEW r \in Reqs, NEW C \in SUBSET Issued, challenge' = Closed(C),
         UNCHANGED <<user, expired, delivered, history>>, ReqTypes',
         \A s \in Reqs \ {r} : Idle(s)
  PROVE  /\ TypeOK' /\ UsersStay /\ ChallengesStay /\ Distinct'
         /\ Issued' = Issued /\ Accounts' = Accounts
         /\ \A c \in C : ~challenge'[c].open
         /\ pc[r] \notin {"send", "cancel"} \/ chal[r] \in C => UndeliveredIsClosed'
<1>1. /\ challenge' \in [Challenges -> ChallengeRow \union {None}]
      /\ Issued' = Issued
      /\ \A c \in Issued : /\ challenge'[c].phone = challenge[c].phone
                           /\ challenge'[c].purpose = challenge[c].purpose
                           /\ challenge'[c].wrong = challenge[c].wrong
                           /\ (challenge'[c].open <=> challenge[c].open /\ c \notin C)
  BY ClosedRows DEF IInv, Issued
<1>2. Accounts' = Accounts /\ UsersStay /\ Distinct'
  BY DEF Accounts, UsersStay, IInv, Distinct
<1>3. ChallengesStay
  BY <1>1 DEF ChallengesStay, Issued
<1>4. TypeOK'
  BY <1>1, <1>2 DEF IInv, TypeOK, ReqTypes, history
<1>5. \A c \in C : ~challenge'[c].open
  BY <1>1
<1>6. ASSUME pc[r] \notin {"send", "cancel"} \/ chal[r] \in C PROVE UndeliveredIsClosed'
  <2> SUFFICES ASSUME NEW c \in Issued, challenge'[c].open, c \notin delivered \union lost
               PROVE  \E s \in Reqs : pc'[s] \in {"send", "cancel"} /\ chal'[s] = c
    BY <1>1 DEF UndeliveredIsClosed, history
  <2>1. challenge[c].open /\ c \notin C
    BY <1>1
  <2>2. PICK s \in Reqs : pc[s] \in {"send", "cancel"} /\ chal[s] = c
    BY <2>1 DEF IInv, UndeliveredIsClosed
  <2>3. Idle(s)
    BY <1>6, <2>1, <2>2
  <2> QED BY <2>2, <2>3 DEF Idle
<1> QED BY <1>1, <1>2, <1>3, <1>4, <1>5, <1>6

LEMMA CancelKeeps ==
  ASSUME IInv, NEW r \in Reqs, Cancel(r)
  PROVE  IInv'
<1>1. chal[r] \in Issued
  BY DEF Cancel, IInv, At, WithCode
<1>2. /\ ReqTypes'
      /\ pc'[r] = "idle" /\ chal'[r] = None /\ snap'[r] = {}
      /\ \A s \in Reqs \ {r} : Idle(s)
  BY EndTypes DEF Cancel, IInv
<1>3. /\ TypeOK' /\ UsersStay /\ ChallengesStay /\ Distinct' /\ UndeliveredIsClosed'
  BY <1>1, <1>2, CloseStep DEF Cancel
<1>4. At(r)' /\ ~Holding(r)'
  BY <1>2 DEF At, Holding, WithCode, WithAccount
<1> QED BY <1>2, <1>3, <1>4, RequestStep DEF Cancel, history

(* consumeOtp: whoever closes the challenge holds its code alone.          *)
LEMMA ConsumedKeeps ==
  ASSUME IInv, NEW r \in Reqs, NEW next \in {"load", "session"}, Consumed(r, next),
         \/ pc[r] = "consume" /\ next = "load"
         \/ pc[r] = "redeem" /\ next = "session"
  PROVE  IInv'
<1> DEFINE c == chal[r]
<1>1. /\ c \in Issued /\ c # None /\ c \in Challenges /\ c \in delivered
      /\ At(r) /\ snap[r] \subseteq Issued
  BY DEF IInv, At, WithCode, Issued
<1>2. UNCHANGED <<user, expired, delivered, history>>
  BY DEF Consumed
<1>3. CASE ~challenge[c].open
  <2>1. End(r) /\ UNCHANGED <<user, codeVars, history>>
    BY <1>2, <1>3 DEF Consumed, codeVars
  <2> QED BY <2>1, EndStep
<1>4. CASE challenge[c].open
  <2>1. challenge' = Closed({c}) /\ Go(r, next) /\ UNCHANGED <<req, chal, who, snap>>
    BY <1>4 DEF Consumed
  <2>2. ReqTypes' /\ pc'[r] = next /\ snap'[r] = snap[r] /\ \A s \in Reqs \ {r} : Idle(s)
    BY <2>1, GoTypes DEF IInv, Steps
  <2>3. /\ TypeOK' /\ UsersStay /\ ChallengesStay /\ Distinct' /\ UndeliveredIsClosed'
        /\ Issued' = Issued /\ Accounts' = Accounts /\ ~challenge'[c].open
    BY <1>1, <1>2, <2>1, <2>2, CloseStep
  <2>4. challenge'[c].phone = challenge[c].phone /\ challenge'[c].purpose = challenge[c].purpose
    BY <1>1, <2>3 DEF ChallengesStay
  <2>5. At(r)'
    BY <1>1, <1>2, <2>1, <2>2, <2>3, <2>4 DEF At, WithCode, WithAccount
  <2>6. \A s \in Reqs : At(s)'
    BY <2>2, <2>3, <2>5, OtherAt DEF IInv
  <2>7. opened[c] = 0 /\ \A s \in Reqs : Holding(s) => chal[s] # c
    BY <1>1, <1>4 DEF IInv, SpentInv, HolderInv
  <2>8. \A s \in Reqs \ {r} : (Holding(s)' <=> Holding(s)) /\ chal'[s] = chal[s]
    BY <2>2 DEF Holding, Idle
  <2>9. \A s \in Reqs : Holding(s) => ~challenge'[chal[s]].open
    BY <2>3 DEF IInv, HolderInv, ChallengesStay, At, Holding
  <2>10. opened' = opened /\ chal' = chal
    BY <1>2, <2>1 DEF history
  <2>11. HolderInv'
    <3> SUFFICES ASSUME NEW s \in Reqs, Holding(s)'
                 PROVE  /\ ~challenge'[chal[s]].open /\ opened[chal[s]] = 0
                        /\ \A t \in Reqs : Holding(t)' /\ chal[t] = chal[s] => t = s
      BY <2>10 DEF HolderInv
    <3>1. CASE s = r
      BY <2>3, <2>7, <2>8, <3>1
    <3>2. CASE s # r
      BY <2>7, <2>8, <2>9, <3>2 DEF IInv, HolderInv
    <3> QED BY <3>1, <3>2
  <2>12. SpentInv'
    BY <2>3, <2>10 DEF IInv, SpentInv, ChallengesStay
  <2> QED BY <2>3, <2>6, <2>11, <2>12 DEF IInv
<1> QED BY <1>3, <1>4

(* markLogin, sessions.create: the code is used up.                        *)
LEMMA OpenSessionKeeps ==
  ASSUME IInv, NEW r \in Reqs, OpenSession(r)
  PROVE  IInv'
<1> DEFINE c == chal[r]
<1>1. pc[r] = "session" /\ UNCHANGED <<user, codeVars, lost>>
  BY DEF OpenSession
<1>2. /\ ReqTypes'
      /\ pc'[r] = "idle" /\ chal'[r] = None /\ snap'[r] = {}
      /\ \A s \in Reqs \ {r} : Idle(s)
  BY EndTypes DEF OpenSession, IInv
<1>3. At(r)' /\ ~Holding(r)'
  BY <1>2 DEF At, Holding, WithCode, WithAccount
<1>4. CASE c = None
  <2>1. UNCHANGED <<user, codeVars, history>>
    BY <1>1, <1>4 DEF OpenSession, history
  <2> QED BY <1>1, <1>2, <1>3, <2>1, QuietStep
<1>5. CASE c # None
  <2>1. opened' = [opened EXCEPT ![c] = @ + 1]
    BY <1>5 DEF OpenSession
  <2>2. /\ Holding(r) /\ c \in Challenges /\ c \in Issued
        /\ opened[c] = 0 /\ ~challenge[c].open
        /\ \A s \in Reqs \ {r} : Holding(s) => chal[s] # c
    BY <1>1, <1>5 DEF Holding, IInv, HolderInv, At, Issued
  <2>3. opened'[c] = 1 /\ \A d \in Challenges \ {c} : opened'[d] = opened[d]
    BY <2>1, <2>2 DEF IInv, TypeOK
  <2>4. opened' \in [Challenges -> Nat]
    BY <2>1, <2>2, <2>3 DEF IInv, TypeOK
  <2>5. TypeOK'
    BY <1>1, <1>2, <2>4 DEF IInv, TypeOK, ReqTypes, codeVars, Issued, Accounts
  <2>6. /\ UsersStay /\ ChallengesStay /\ Distinct'
    BY <1>1 DEF UsersStay, ChallengesStay, Accounts, Issued, codeVars, IInv, Distinct
  <2>7. \A s \in Reqs : At(s)'
    BY <1>2, <1>3, <2>6, OtherAt DEF IInv
  <2>8. \A s \in Reqs \ {r} : (Holding(s)' <=> Holding(s)) /\ chal'[s] = chal[s]
    BY <1>2 DEF Holding, Idle
  <2>9. \A s \in Reqs \ {r} : Holding(s) => chal[s] \in Challenges \ {c}
    BY <2>2 DEF IInv, TypeOK, Holding
  <2>10. challenge' = challenge /\ Issued' = Issued
    BY <1>1 DEF codeVars, Issued
  <2>11. HolderInv'
    BY <1>3, <2>3, <2>8, <2>9, <2>10 DEF IInv, HolderInv
  <2>12. SpentInv'
    BY <2>2, <2>3, <2>10 DEF IInv, SpentInv
  <2>13. UndeliveredIsClosed'
    BY <1>1, <1>2, <2>10 DEF IInv, UndeliveredIsClosed, Idle, codeVars
  <2> QED BY <2>5, <2>6, <2>7, <2>11, <2>12, <2>13 DEF IInv
<1> QED BY <1>4, <1>5

LEMMA IssueKeeps ==
  ASSUME IInv, NEW r \in Reqs, Issue(r)
  PROVE  IInv'
<1>1. pc[r] = "issue" /\ UNCHANGED <<user, codeVars, history>> /\ At(r)
  BY DEF Issue, IInv
<1>2. CASE End(r)
  BY <1>1, <1>2, EndStep
<1>3. CASE Go(r, "replace") /\ UNCHANGED <<req, chal, who, snap>>
  <2>1. ReqTypes' /\ pc'[r] = "replace" /\ snap'[r] = snap[r] /\ \A s \in Reqs \ {r} : Idle(s)
    BY <1>3, GoTypes DEF IInv, Steps
  <2>2. At(r)' /\ ~Holding(r)'
    BY <1>1, <1>3, <2>1, ChallengesUnchanged DEF At, Holding, WithCode, WithAccount
  <2> QED BY <1>1, <2>1, <2>2, QuietStep
<1> QED BY <1>2, <1>3 DEF Issue

LEMMA CloseOpenKeeps ==
  ASSUME IInv, NEW r \in Reqs, CloseOpen(r)
  PROVE  IInv'
<1> DEFINE C == OpenChallenges(req[r].phone, req[r].purpose)
<1>1. /\ pc[r] = "replace" /\ req[r] \in CodeRequest /\ UNCHANGED <<user, codeVars, req, history>>
      /\ Go(r, "create") /\ Keep(r, None, None, C)
  BY DEF CloseOpen, IInv, At
<1>2. C \subseteq Issued /\ C \in SUBSET Challenges
  BY DEF OpenChallenges, Issued
<1> HIDE DEF C
<1>3. /\ ReqTypes' /\ pc'[r] = "create" /\ chal'[r] = None /\ snap'[r] = C
      /\ \A s \in Reqs \ {r} : Idle(s)
  BY <1>1, <1>2, KeepTypes DEF IInv, Steps
<1>4. At(r)' /\ ~Holding(r)'
  BY <1>1, <1>2, <1>3, ChallengesUnchanged DEF At, Holding, WithCode, WithAccount
<1> QED BY <1>1, <1>3, <1>4, QuietStep

(* A challenge is issued; it is of nobody's yet.                           *)
LEMMA CreateChallengeKeeps ==
  ASSUME IInv, NEW r \in Reqs, CreateChallenge(r)
  PROVE  IInv'
<1>1. /\ pc[r] = "create" /\ req[r] \in CodeRequest /\ snap[r] \in SUBSET Issued
      /\ UNCHANGED <<user, expired, delivered, history>>
  BY DEF CreateChallenge, IInv, At
<1>2. CASE End(r) /\ UNCHANGED challenge
  BY <1>1, <1>2, EndStep DEF codeVars
<1>3. ASSUME NEW c \in Challenges \ Issued,
             challenge' = [Closed(snap[r]) EXCEPT ![c] =
               [phone |-> req[r].phone, purpose |-> req[r].purpose, open |-> TRUE, wrong |-> 0]],
             Keep(r, c, None, {}), Go(r, "send"), UNCHANGED req
      PROVE  IInv'
  <2> DEFINE x == [phone |-> req[r].phone, purpose |-> req[r].purpose, open |-> TRUE, wrong |-> 0]
  <2>1. x \in ChallengeRow
    BY <1>1 DEF CodeRequest, ChallengeRow
  <2>2. x.phone = req[r].phone /\ x.purpose = req[r].purpose /\ x.open /\ x.wrong = 0 /\ x # None
    BY <2>1
  <2>3. challenge' = [Closed(snap[r]) EXCEPT ![c] = x]
    BY <1>3
  <2> HIDE DEF x
  <2>4. /\ ReqTypes' /\ pc'[r] = "send" /\ chal'[r] = c /\ who'[r] = None /\ snap'[r] = {}
        /\ req'[r] = req[r]
        /\ \A s \in Reqs \ {r} : Idle(s)
    BY <1>3, KeepTypes DEF IInv, Steps
  <2>5. /\ Closed(snap[r]) \in [Challenges -> ChallengeRow \union {None}]
        /\ \A d \in Challenges : Closed(snap[r])[d] # None <=> d \in Issued
        /\ \A d \in Issued : /\ Closed(snap[r])[d].phone = challenge[d].phone
                             /\ Closed(snap[r])[d].purpose = challenge[d].purpose
                             /\ Closed(snap[r])[d].wrong = challenge[d].wrong
                             /\ Closed(snap[r])[d].open <=> challenge[d].open /\ d \notin snap[r]
    BY <1>1, ClosedRows DEF IInv
  <2>6. /\ challenge' \in [Challenges -> ChallengeRow \union {None}]
        /\ challenge'[c] = x
        /\ \A d \in Challenges \ {c} : challenge'[d] = Closed(snap[r])[d]
    BY <2>1, <2>3, <2>5
  <2>7. Issued' = Issued \union {c}
    BY <2>2, <2>5, <2>6 DEF Issued
  <2>8. \A d \in Issued : d \in Challenges \ {c} /\ challenge'[d] = Closed(snap[r])[d]
    BY <2>6 DEF Issued
  <2>9. \A d \in Issued : /\ challenge'[d].phone = challenge[d].phone
                          /\ challenge'[d].purpose = challenge[d].purpose
                          /\ challenge'[d].wrong = challenge[d].wrong
                          /\ challenge'[d].open <=> challenge[d].open /\ d \notin snap[r]
    BY <2>5, <2>8
  <2>10. ChallengesStay
    BY <1>1, <2>5, <2>6, <2>8, <2>9 DEF ChallengesStay
  <2>11. Accounts' = Accounts /\ UsersStay /\ Distinct'
    BY <1>1 DEF Accounts, UsersStay, IInv, Distinct
  <2>12. TypeOK'
    <3>1. \A d \in Issued' : challenge'[d].wrong = MaxAttempts => ~challenge'[d].open
      BY <2>2, <2>6, <2>7, <2>9 DEF IInv, TypeOK
    <3>2. expired' \subseteq Issued' /\ delivered' \subseteq Issued' /\ lost' \subseteq Issued'
      BY <1>1, <2>7 DEF IInv, TypeOK, history
    <3> QED BY <1>1, <2>4, <2>6, <2>11, <3>1, <3>2 DEF IInv, TypeOK, ReqTypes, history
  <2>13. UndeliveredIsClosed'
    <3> SUFFICES ASSUME NEW d \in Issued', challenge'[d].open, d \notin delivered \union lost
                 PROVE  \E s \in Reqs : pc'[s] \in {"send", "cancel"} /\ chal'[s] = d
      BY <1>1 DEF UndeliveredIsClosed, history
    <3>1. CASE d = c
      BY <2>4, <3>1
    <3>2. CASE d # c
      <4>1. d \in Issued /\ challenge[d].open
        BY <2>7, <2>9, <3>2
      <4>2. PICK s \in Reqs : pc[s] \in {"send", "cancel"} /\ chal[s] = d
        BY <4>1 DEF IInv, UndeliveredIsClosed
      <4>3. Idle(s)
        BY <1>1, <2>4, <4>2
      <4> QED BY <4>2, <4>3 DEF Idle
    <3> QED BY <3>1, <3>2
  <2>14. At(r)'
    BY <1>1, <2>2, <2>4, <2>6, <2>7 DEF At, WithCode, WithAccount
  <2>15. ~Holding(r)' /\ opened' = opened
    BY <1>1, <2>4 DEF Holding, history
  <2> QED BY <2>4, <2>10, <2>11, <2>12, <2>13, <2>14, <2>15, RequestStep
<1> QED BY <1>2, <1>3 DEF CreateChallenge

(* What the delivery brings about.                                         *)
LEMMA SendKeeps ==
  ASSUME IInv, NEW r \in Reqs, Send(r) \/ SendFails(r)
  PROVE  IInv'
<1>1. /\ pc[r] = "send" /\ chal[r] \in Issued /\ At(r)
      /\ UNCHANGED <<user, challenge, expired, history>>
      /\ delivered' \in {delivered, delivered \union {chal[r]}}
  BY DEF Send, SendFails, IInv, At, WithCode
<1>2. Issued' = Issued /\ Accounts' = Accounts
  BY <1>1 DEF Issued, Accounts
<1>3. /\ ReqTypes' /\ pc'[r] \in {"idle", "cancel"} /\ \A s \in Reqs \ {r} : Idle(s)
      /\ pc'[r] = "idle" => snap'[r] = {} /\ chal'[r] = None /\ delivered' = delivered \union {chal[r]}
      /\ pc'[r] = "cancel" => chal'[r] = chal[r] /\ req'[r] = req[r] /\ snap'[r] = snap[r]
  <2>1. CASE Send(r)
    BY <2>1, EndTypes DEF Send, IInv
  <2>2. CASE SendFails(r)
    BY <2>2, GoTypes DEF SendFails, IInv, Steps
  <2> QED BY <2>1, <2>2
<1>4. At(r)'
  BY <1>1, <1>2, <1>3 DEF At, WithCode, WithAccount
<1>5. ~Holding(r)' /\ opened' = opened
  BY <1>1, <1>3 DEF Holding, history
<1>6. UsersStay /\ ChallengesStay /\ Distinct'
  BY <1>1 DEF UsersStay, ChallengesStay, Accounts, Issued, IInv, Distinct
<1>7. TypeOK'
  BY <1>1, <1>2, <1>3 DEF IInv, TypeOK, ReqTypes, history
<1>8. UndeliveredIsClosed'
  <2> SUFFICES ASSUME NEW c \in Issued, challenge[c].open, c \notin delivered' \union lost
               PROVE  \E s \in Reqs : pc'[s] \in {"send", "cancel"} /\ chal'[s] = c
    BY <1>1, <1>2 DEF UndeliveredIsClosed, history
  <2>1. PICK s \in Reqs : pc[s] \in {"send", "cancel"} /\ chal[s] = c
    BY <1>1 DEF IInv, UndeliveredIsClosed
  <2>2. CASE s = r
    BY <1>3, <2>1, <2>2
  <2>3. CASE s # r
    BY <1>3, <2>1, <2>3 DEF Idle
  <2> QED BY <2>2, <2>3
<1> QED BY <1>3, <1>4, <1>5, <1>6, <1>7, <1>8, RequestStep

LEMMA RecordOtpFailureKeeps ==
  ASSUME IInv, NEW r \in Reqs, RecordOtpFailure(r)
  PROVE  IInv'
<1> DEFINE c == chal[r]
           x == [challenge[c] EXCEPT !.wrong = challenge[c].wrong + 1,
                                     !.open = challenge[c].wrong + 1 < MaxAttempts]
<1>1. /\ pc[r] = "count" /\ c \in Issued /\ c \in Challenges /\ challenge[c] \in ChallengeRow
      /\ End(r) /\ UNCHANGED <<user, expired, delivered, history>>
  BY IssuedRows DEF RecordOtpFailure, IInv, At, WithCode, Issued
<1>2. CASE ~challenge[c].open
  <2>1. UNCHANGED <<user, codeVars, history>>
    BY <1>1, <1>2 DEF RecordOtpFailure, codeVars
  <2> QED BY <1>1, <2>1, EndStep
<1>3. CASE challenge[c].open
  <2>1. challenge' = [challenge EXCEPT ![c] = x]
    BY <1>1, <1>3 DEF RecordOtpFailure, IInv, TypeOK
  <2>2. challenge[c].wrong \in 0 .. MaxAttempts /\ challenge[c].wrong # MaxAttempts
    BY <1>1, <1>3 DEF IInv, TypeOK, ChallengeRow
  <2>3. challenge[c].wrong + 1 \in 0 .. MaxAttempts
    BY <2>2
  <2>4. /\ x \in ChallengeRow /\ x.phone = challenge[c].phone /\ x.purpose = challenge[c].purpose
        /\ x.wrong = challenge[c].wrong + 1 /\ (x.open <=> challenge[c].wrong + 1 < MaxAttempts)
    <3>1. PICK n \in 0 .. MaxAttempts : n = challenge[c].wrong + 1
      BY <2>3
    <3>2. CASE n < MaxAttempts
      <4>1. x = [challenge[c] EXCEPT !.wrong = n, !.open = TRUE]
        BY <3>1, <3>2
      <4> HIDE DEF x
      <4>2. /\ x \in ChallengeRow /\ x.phone = challenge[c].phone
            /\ x.purpose = challenge[c].purpose /\ x.wrong = n /\ x.open
        BY <1>1, <4>1 DEF ChallengeRow
      <4> QED BY <3>1, <3>2, <4>2
    <3>3. CASE ~(n < MaxAttempts)
      <4>0. (challenge[c].wrong + 1 < MaxAttempts) = FALSE
        BY <3>1, <3>3
      <4>1. x = [challenge[c] EXCEPT !.wrong = n, !.open = FALSE]
        BY <3>1, <4>0, Zenon
      <4> HIDE DEF x
      <4>2. /\ x \in ChallengeRow /\ x.phone = challenge[c].phone
            /\ x.purpose = challenge[c].purpose /\ x.wrong = n /\ ~x.open
        BY <1>1, <4>1 DEF ChallengeRow
      <4> QED BY <3>1, <3>3, <4>2
    <3> QED BY <3>2, <3>3
  <2>5. x.wrong = MaxAttempts => ~x.open
    BY <2>2, <2>4
  <2> HIDE DEF x
  <2>6. /\ challenge' \in [Challenges -> ChallengeRow \union {None}]
        /\ challenge'[c] = x /\ \A d \in Challenges \ {c} : challenge'[d] = challenge[d]
    BY <1>1, <2>1, <2>4 DEF IInv, TypeOK
  <2>7. Issued' = Issued
    BY <1>1, <2>4, <2>6 DEF Issued
  <2>8. ChallengesStay
    BY <1>1, <1>3, <2>4, <2>6 DEF ChallengesStay, Issued
  <2>9. Accounts' = Accounts /\ UsersStay /\ Distinct'
    BY <1>1 DEF Accounts, UsersStay, IInv, Distinct
  <2>10. /\ ReqTypes' /\ pc'[r] = "idle" /\ chal'[r] = None /\ snap'[r] = {}
         /\ \A s \in Reqs \ {r} : Idle(s)
    BY <1>1, EndTypes DEF IInv
  <2>11. TypeOK'
    <3>1. \A d \in Issued' : challenge'[d].wrong = MaxAttempts => ~challenge'[d].open
      BY <2>5, <2>6, <2>7 DEF IInv, TypeOK, Issued
    <3> QED BY <1>1, <2>6, <2>7, <2>9, <2>10, <3>1 DEF IInv, TypeOK, ReqTypes, history
  <2>12. UndeliveredIsClosed'
    <3> SUFFICES ASSUME NEW d \in Issued, challenge'[d].open, d \notin delivered \union lost
                 PROVE  \E s \in Reqs : pc'[s] \in {"send", "cancel"} /\ chal'[s] = d
      BY <1>1, <2>7 DEF UndeliveredIsClosed, history
    <3>1. challenge[d].open
      BY <2>8 DEF ChallengesStay
    <3>2. PICK s \in Reqs : pc[s] \in {"send", "cancel"} /\ chal[s] = d
      BY <3>1 DEF IInv, UndeliveredIsClosed
    <3>3. Idle(s)
      BY <1>1, <2>10, <3>2
    <3> QED BY <3>2, <3>3 DEF Idle
  <2>13. At(r)' /\ ~Holding(r)' /\ opened' = opened
    BY <1>1, <2>10 DEF At, Holding, WithCode, WithAccount, history
  <2> QED BY <2>8, <2>9, <2>10, <2>11, <2>12, <2>13, RequestStep
<1> QED BY <1>2, <1>3

(* The account at hand is found, and has the status that is asked for.     *)
LEMMA WithStep ==
  ASSUME IInv, NEW r \in Reqs, NEW us, NEW status, NEW next \in {"activate", "session", "redeem"},
         With(r, us, status, next), pc[r] \in {"load", "reload", "check"},
         \A u \in us : /\ u \in Accounts
                       /\ IF chal[r] # None THEN user[u].login
                          ELSE req[r] \in SocialRequest /\ user[u].subject = req[r].subject,
         next = "activate" =>
           /\ pc[r] = "load" /\ req[r].purpose = "registration"
           /\ \A u \in us : user[u].phone = req[r].phone,
         next = "redeem" => pc[r] = "check",
         next = "session" => pc[r] \in {"load", "reload"},
         next # "activate" => status = "active"
  PROVE  IInv'
<1>1. UNCHANGED <<user, codeVars, history>> /\ At(r)
  BY DEF With, IInv
<1>2. CASE End(r)
  BY <1>1, <1>2, EndStep
<1>3. ASSUME NEW u \in us, user[u].status = status, Keep(r, chal[r], u, {}), Go(r, next),
             UNCHANGED req
      PROVE  IInv'
  <2>1. u \in Users /\ chal[r] \in Challenges \union {None} /\ {} \in SUBSET Challenges
    BY DEF Accounts, IInv, TypeOK
  <2>2. /\ ReqTypes' /\ pc'[r] = next /\ chal'[r] = chal[r] /\ who'[r] = u /\ snap'[r] = {}
        /\ \A s \in Reqs \ {r} : Idle(s)
    BY <1>3, <2>1, KeepTypes DEF IInv, Steps
  <2>3. Issued' = Issued /\ Accounts' = Accounts
    BY <1>1 DEF Issued, Accounts, codeVars
  <2>4. At(r)'
    <3>1. CASE next = "activate"
      BY <1>1, <1>3, <2>2, <2>3, <3>1 DEF At, WithCode, WithAccount, codeVars
    <3>2. CASE next = "redeem"
      BY <1>1, <1>3, <2>2, <2>3, <3>2 DEF At, WithCode, WithAccount, codeVars
    <3>3. CASE next = "session"
      BY <1>1, <1>3, <2>2, <2>3, <3>3 DEF At, WithCode, WithAccount, codeVars
    <3> QED BY <3>1, <3>2, <3>3
  <2>5. Holding(r)' => Holding(r) /\ chal'[r] = chal[r]
    BY <2>2 DEF Holding
  <2> QED BY <1>1, <2>2, <2>4, <2>5, QuietStep
<1> QED BY <1>2, <1>3 DEF With

LEMMA FoundByPhone ==
  ASSUME NEW p, NEW u \in FindByPhone(p)
  PROVE  u \in Accounts /\ user[u].login /\ user[u].phone = p
BY DEF FindByPhone

LEMMA LookupKeeps ==
  ASSUME IInv, NEW r \in Reqs, Load(r) \/ Reload(r) \/ CheckReset(r)
  PROVE  IInv'
<1> DEFINE us == FindByPhone(req[r].phone)
<1>1. At(r)
  BY DEF IInv
<1>2. CASE Load(r)
  <2>1. pc[r] = "load" /\ chal[r] # None
    BY <1>1, <1>2 DEF Load, At, WithCode
  <2>2. CASE req[r].purpose = "registration"
    <3>1. With(r, us, "pending", "activate")
      BY <1>2, <2>2 DEF Load
    <3> QED BY <2>1, <2>2, <3>1, FoundByPhone, WithStep
  <2>3. CASE req[r].purpose # "registration"
    <3>1. With(r, us, "active", "session")
      BY <1>2, <2>3 DEF Load
    <3> QED BY <2>1, <3>1, FoundByPhone, WithStep
  <2> QED BY <2>2, <2>3
<1>3. CASE Reload(r)
  <2>1. pc[r] = "reload" /\ With(r, {who[r]}, "active", "session")
    BY <1>3 DEF Reload
  <2>2. /\ who[r] \in Accounts
        /\ IF chal[r] # None THEN user[who[r]].login
           ELSE req[r] \in SocialRequest /\ user[who[r]].subject = req[r].subject
    BY <1>1, <2>1 DEF At, WithAccount
  <2> QED BY <2>1, <2>2, WithStep
<1>4. CASE CheckReset(r)
  <2>1. pc[r] = "check" /\ chal[r] # None /\ With(r, us, "active", "redeem")
    BY <1>1, <1>4 DEF CheckReset, At, WithCode
  <2> QED BY <2>1, FoundByPhone, WithStep
<1> QED BY <1>2, <1>3, <1>4

(* Nothing is left open by a request that dies, but what is recorded.      *)
LEMMA DieKeeps ==
  ASSUME IInv, NEW r \in Reqs, Die(r)
  PROVE  IInv'
<1>1. /\ UNCHANGED <<user, codeVars, opened>> /\ At(r)
      /\ lost' = lost \union (IF pc[r] \in {"send", "cancel"} THEN {chal[r]} ELSE {})
  BY DEF Die, IInv
<1>2. /\ ReqTypes' /\ pc'[r] = "idle" /\ chal'[r] = None /\ snap'[r] = {}
      /\ \A s \in Reqs \ {r} : Idle(s)
  BY EndTypes DEF Die, IInv
<1>3. Issued' = Issued /\ Accounts' = Accounts
  BY <1>1 DEF Issued, Accounts, codeVars
<1>4. lost' \subseteq Issued
  BY <1>1 DEF At, WithCode, IInv, TypeOK
<1>5. TypeOK'
  BY <1>1, <1>2, <1>3, <1>4 DEF IInv, TypeOK, ReqTypes, codeVars
<1>6. UsersStay /\ ChallengesStay /\ Distinct'
  BY <1>1 DEF UsersStay, ChallengesStay, Accounts, Issued, codeVars, IInv, Distinct
<1>7. At(r)' /\ ~Holding(r)'
  BY <1>2 DEF At, Holding, WithCode, WithAccount
<1>8. UndeliveredIsClosed'
  <2> SUFFICES ASSUME NEW c \in Issued, challenge[c].open, c \notin delivered \union lost'
               PROVE  \E s \in Reqs : pc'[s] \in {"send", "cancel"} /\ chal'[s] = c
    BY <1>1, <1>3 DEF UndeliveredIsClosed, codeVars
  <2>1. c \notin lost
    BY <1>1
  <2>2. PICK s \in Reqs : pc[s] \in {"send", "cancel"} /\ chal[s] = c
    BY <2>1 DEF IInv, UndeliveredIsClosed
  <2>3. s # r
    BY <1>1, <2>2
  <2> QED BY <1>2, <2>2, <2>3 DEF Idle
<1> QED BY <1>1, <1>2, <1>5, <1>6, <1>7, <1>8, RequestStep

(* The requests that arrive.                                               *)
LEMMA ArrivalKeeps ==
  ASSUME IInv, NEW r \in Reqs,
         Register(r) \/ RequestOtp(r) \/ WrongCode(r) \/ RightCode(r) \/ SocialLogin(r)
  PROVE  IInv'
<1>1. \A p \in Phones, purpose \in Purposes : On(p, purpose) \in CodeRequest
  BY DEF On, CodeRequest
<1>2. \A c \in Issued : /\ c \in Challenges
                        /\ challenge[c].phone \in Phones /\ challenge[c].purpose \in Purposes
  BY IssuedRows DEF IInv, ChallengeRow, Issued
<1>3. CASE Register(r)
  <2>1. "registration" \in Purposes
    BY DEF Purposes
  <2>2. PICK p \in Phones : Begin(r, "insert", On(p, "registration"), None, None)
    BY <1>3 DEF Register
  <2> QED BY <1>1, <2>1, <2>2, BeginStep DEF Steps
<1>4. CASE RequestOtp(r)
  <2>1. PICK p \in Phones, purpose \in Purposes : Begin(r, "replace", On(p, purpose), None, None)
    BY <1>4 DEF RequestOtp
  <2> QED BY <1>1, <2>1, BeginStep DEF Steps
<1>5. CASE WrongCode(r)
  <2>1. PICK c \in Issued : Begin(r, "count", On(challenge[c].phone, challenge[c].purpose), c, None)
    BY <1>5 DEF WrongCode
  <2> QED BY <1>1, <1>2, <2>1, BeginStep DEF Steps
<1>6. CASE RightCode(r)
  <2>1. PICK c \in Issued \intersect delivered, step \in {"check", "consume"} :
          Begin(r, step, On(challenge[c].phone, challenge[c].purpose), c, None)
    BY <1>6 DEF RightCode
  <2> QED BY <1>1, <1>2, <2>1, BeginStep DEF Steps
<1>7. CASE SocialLogin(r)
  <2>1. PICK s \in Subjects, e \in Emails :
          \/ \E u \in FindBySocialIdentity(s) :
               user[u].status = "active" /\ Begin(r, "session", [email |-> e, subject |-> s], None, u)
          \/ Begin(r, "link", [email |-> e, subject |-> s], None, None)
    BY <1>7 DEF SocialLogin
  <2> DEFINE q == [email |-> e, subject |-> s]
  <2>2. q \in SocialRequest /\ q.subject = s
    BY DEF SocialRequest
  <2> HIDE DEF q
  <2>3. CASE Begin(r, "link", q, None, None)
    BY <2>2, <2>3, BeginStep DEF Steps
  <2>4. ASSUME NEW u \in FindBySocialIdentity(s), user[u].status = "active",
               Begin(r, "session", q, None, u)
        PROVE  IInv'
    <3>1. u \in Users
      BY DEF FindBySocialIdentity, Accounts
    <3> QED BY <2>2, <2>4, <3>1, BeginStep DEF Steps
  <2> QED BY <2>1, <2>3, <2>4 DEF q
<1> QED BY <1>3, <1>4, <1>5, <1>6, <1>7

-----------------------------------------------------------------------------
LEMMA InitKeeps == Init => IInv
<1> SUFFICES ASSUME Init PROVE IInv
  OBVIOUS
<1>1. Accounts = {} /\ Issued = {}
  BY DEF Init, Accounts, Issued
<1>2. TypeOK
  BY <1>1 DEF Init, TypeOK, Steps
<1>3. \A r \in Reqs : At(r)
  BY <1>1 DEF Init, At, WithCode, WithAccount
<1>4. HolderInv /\ SpentInv /\ Distinct /\ UndeliveredIsClosed
  BY <1>1 DEF Init, HolderInv, Holding, SpentInv, Distinct, UndeliveredIsClosed
<1> QED BY <1>2, <1>3, <1>4 DEF IInv

LEMMA StepKeeps == IInv /\ [Next]_vars => IInv'
<1> SUFFICES ASSUME IInv, [Next]_vars PROVE IInv'
  OBVIOUS
<1>1. CASE UNCHANGED vars
  <2>1. /\ TypeOK' /\ UsersStay /\ Distinct'
        /\ UNCHANGED <<challenge, delivered, reqVars, history>>
    BY <1>1 DEF vars, codeVars, reqVars, history, IInv, TypeOK, UsersStay, Distinct, Accounts, Issued
  <2> QED BY <2>1, OutsideStep
<1>2. ASSUME NEW r \in Reqs,
             Register(r) \/ RequestOtp(r) \/ WrongCode(r) \/ RightCode(r) \/ SocialLogin(r)
      PROVE  IInv'
  BY <1>2, ArrivalKeeps
<1>3. ASSUME NEW r \in Reqs,
             CreatePhoneUser(r) \/ CreateSocialUser(r) \/ Activate(r) \/ Issue(r) \/ CloseOpen(r)
      PROVE  IInv'
  BY <1>3, CreatePhoneUserKeeps, CreateSocialUserKeeps, ActivateKeeps, IssueKeeps, CloseOpenKeeps
<1>4. ASSUME NEW r \in Reqs,
             CreateChallenge(r) \/ Send(r) \/ SendFails(r) \/ Cancel(r) \/ RecordOtpFailure(r)
      PROVE  IInv'
  BY <1>4, CreateChallengeKeeps, SendKeeps, CancelKeeps, RecordOtpFailureKeeps
<1>5. ASSUME NEW r \in Reqs, ConsumeOtp(r) \/ RedeemReset(r) PROVE IInv'
  BY <1>5, ConsumedKeeps DEF ConsumeOtp, RedeemReset
<1>6. ASSUME NEW r \in Reqs, Load(r) \/ Reload(r) \/ CheckReset(r) PROVE IInv'
  BY <1>6, LookupKeeps
<1>7. ASSUME NEW r \in Reqs, OpenSession(r) \/ Die(r) PROVE IInv'
  BY <1>7, OpenSessionKeeps, DieKeeps
<1>8. CASE CompleteEmailSignup \/ UpdateRenterProfile \/ Expire \/ Suspend
  BY <1>8, CompleteEmailSignupKeeps, UpdateRenterProfileKeeps, ExpireKeeps, SuspendKeeps
<1> QED BY <1>1, <1>2, <1>3, <1>4, <1>5, <1>6, <1>7, <1>8 DEF Next

LEMMA Invariance == Spec => []IInv
<1>1. Init => IInv
  BY InitKeeps
<1>2. IInv /\ [Next]_vars => IInv'
  BY StepKeeps
<1> QED BY <1>1, <1>2, PTL DEF Spec

-----------------------------------------------------------------------------
(* The rows, the requests and what they hold keep their shape; a challenge *)
(* with all its attempts used is closed.                                   *)
THEOREM TypeCorrect == Spec => []TypeOK
<1>1. IInv => TypeOK
  BY DEF IInv
<1> QED BY <1>1, Invariance, PTL

LEMMA AtMostOne ==
  ASSUME NEW S, \A x, y \in S : x = y
  PROVE  Cardinality(S) <= 1
<1>1. CASE S = {}
  BY <1>1, FS_EmptySet
<1>2. CASE S # {}
  <2>1. PICK x \in S : S = {x}
    BY <1>2
  <2>2. Cardinality({x}) = 1
    BY FS_Singleton
  <2> QED BY <2>1, <2>2
<1> QED BY <1>1, <1>2

(* The unique indexes, of addresses, social identities and the phones that *)
(* sign in, hold against every lookup that was done before its write.      *)
THEOREM IdentitiesDistinct == Spec => []OneAccountPerIdentity
<1>1. ASSUME IInv PROVE OneAccountPerIdentity
  <2>1. ASSUME NEW e \in Emails PROVE Cardinality(FindByEmail(e)) <= 1
    <3>1. \A u, v \in FindByEmail(e) : u = v
      BY <1>1 DEF IInv, Distinct, FindByEmail
    <3> QED BY <3>1, AtMostOne
  <2>2. ASSUME NEW s \in Subjects PROVE Cardinality(FindBySocialIdentity(s)) <= 1
    <3>1. \A u, v \in FindBySocialIdentity(s) : u = v
      BY <1>1 DEF IInv, Distinct, FindBySocialIdentity
    <3> QED BY <3>1, AtMostOne
  <2>3. ASSUME NEW p \in Phones PROVE Cardinality(FindByPhone(p)) <= 1
    <3>1. \A u, v \in FindByPhone(p) : u = v
      BY <1>1 DEF IInv, Distinct, FindByPhone
    <3> QED BY <3>1, AtMostOne
  <2> QED BY <2>1, <2>2, <2>3 DEF OneAccountPerIdentity
<1> QED BY <1>1, Invariance, PTL

(* consumeOtp lets one of the requests that compared a code go on.         *)
THEOREM CodesUsedOnce == Spec => []CodeOpensOneSession
<1>1. IInv => CodeOpensOneSession
  <2> SUFFICES ASSUME IInv, NEW c \in Challenges PROVE opened[c] <= 1
    BY DEF CodeOpensOneSession
  <2>1. opened[c] \in Nat /\ (opened[c] # 0 => opened[c] = 1)
    BY DEF IInv, TypeOK, SpentInv
  <2> QED BY <2>1
<1> QED BY <1>1, Invariance, PTL

(* verifyOtp, resetPassword and socialLogin open sessions only for who is  *)
(* confirmed and signs in by that phone or identity.                       *)
THEOREM EntriesProven == Spec => []EntersProvenAccount
<1>1. IInv => EntersProvenAccount
  BY DEF IInv, At, EntersProvenAccount, WithAccount
<1> QED BY <1>1, Invariance, PTL

(* issuePhoneOtp closes the challenge whose message it could not send.     *)
THEOREM UndeliveredClosed == Spec => []UndeliveredIsClosed
<1>1. IInv => UndeliveredIsClosed
  BY DEF IInv
<1> QED BY <1>1, Invariance, PTL

(* Only activatePhone confirms an account.                                 *)
LEMMA OnlyActivate ==
  ASSUME TypeOK, Next, NEW u \in Accounts,
         user[u].status = "pending", user'[u].status # "pending"
  PROVE  \E r \in Reqs : Activate(r) /\ who[r] = u
<1>1. user'[u] # user[u]
  OBVIOUS
<1>2. \A row : ~Insert(row)
  BY <1>1 DEF Insert, TypeOK, Accounts
<1>3. ASSUME NEW r \in Reqs, CreateSocialUser(r) PROVE FALSE
  BY <1>1, <1>3 DEF CreateSocialUser, TypeOK, Accounts
<1>4. ASSUME NEW r \in Reqs, CreatePhoneUser(r) PROVE FALSE
  BY <1>1, <1>2, <1>4 DEF CreatePhoneUser
<1>5. ~CompleteEmailSignup
  BY <1>2 DEF CompleteEmailSignup
<1>6. ~UpdateRenterProfile /\ ~Suspend
  BY DEF UpdateRenterProfile, Suspend, TypeOK, Accounts
<1>7. ~Expire
  BY <1>1 DEF Expire
<1>8. ASSUME NEW r \in Reqs,
             Register(r) \/ RequestOtp(r) \/ WrongCode(r) \/ RightCode(r) \/ SocialLogin(r)
      PROVE  FALSE
  BY <1>1, <1>8 DEF Register, RequestOtp, WrongCode, RightCode, SocialLogin, Begin
<1>9. ASSUME NEW r \in Reqs,
             Issue(r) \/ CloseOpen(r) \/ CreateChallenge(r) \/ Send(r) \/ SendFails(r)
               \/ Cancel(r) \/ RecordOtpFailure(r)
      PROVE  FALSE
  BY <1>1, <1>9 DEF Issue, CloseOpen, CreateChallenge, Send, SendFails, Cancel, RecordOtpFailure
<1>10. ASSUME NEW r \in Reqs,
              ConsumeOtp(r) \/ Load(r) \/ Reload(r) \/ CheckReset(r) \/ RedeemReset(r)
                \/ OpenSession(r) \/ Die(r)
       PROVE  FALSE
  BY <1>1, <1>10
     DEF ConsumeOtp, Load, Reload, CheckReset, RedeemReset, OpenSession, Die, Consumed, With
<1>11. PICK r \in Reqs : Activate(r)
  BY <1>3, <1>4, <1>5, <1>6, <1>7, <1>8, <1>9, <1>10 DEF Next
<1>12. who[r] = u
  BY <1>1, <1>11 DEF Activate, TypeOK
<1> QED BY <1>11, <1>12

(* A pending account is activated by a code of its phone that one request  *)
(* has consumed, whatever has happened to the phone since.                 *)
THEOREM ActivationNeedsCode == Spec => ActivatedByCode
<1>1. ASSUME IInv, Next, NEW u \in Accounts,
             user[u].status = "pending", user'[u].status # "pending"
      PROVE  \E c \in delivered :
               /\ challenge[c].purpose = "registration" /\ challenge[c].phone = user[u].phone
               /\ ~challenge[c].open /\ opened[c] = 0
               /\ Cardinality({r \in Reqs : chal[r] = c /\ pc[r] \in {"load", "activate"}}) = 1
  <2>1. PICK r \in Reqs : Activate(r) /\ who[r] = u
    BY <1>1, OnlyActivate DEF IInv
  <2>2. pc[r] = "activate" /\ At(r)
    BY <1>1, <2>1 DEF IInv, Activate
  <2>3. /\ chal[r] \in delivered /\ chal[r] # None
        /\ challenge[chal[r]].purpose = "registration"
        /\ challenge[chal[r]].phone = user[u].phone
    BY <1>1, <2>1, <2>2 DEF At, WithCode
  <2>4. Holding(r)
    BY <2>2, <2>3 DEF Holding
  <2>5. ~challenge[chal[r]].open /\ opened[chal[r]] = 0
    BY <1>1, <2>4 DEF IInv, HolderInv
  <2>6. {s \in Reqs : chal[s] = chal[r] /\ pc[s] \in {"load", "activate"}} = {r}
    <3>1. ASSUME NEW s \in Reqs, chal[s] = chal[r], pc[s] \in {"load", "activate"} PROVE s = r
      BY <1>1, <2>3, <2>4, <3>1 DEF IInv, HolderInv, Holding
    <3> QED BY <2>2, <3>1
  <2>7. Cardinality({s \in Reqs : chal[s] = chal[r] /\ pc[s] \in {"load", "activate"}}) = 1
    BY <2>6, FS_Singleton
  <2> QED BY <2>3, <2>5, <2>7
<1>2. ASSUME IInv, [Next]_vars
      PROVE  [\A u \in Accounts : user[u].status = "pending" /\ user'[u].status # "pending" =>
                \E c \in delivered :
                  /\ challenge[c].purpose = "registration" /\ challenge[c].phone = user[u].phone
                  /\ ~challenge[c].open /\ opened[c] = 0
                  /\ Cardinality({r \in Reqs : chal[r] = c
                                                 /\ pc[r] \in {"load", "activate"}}) = 1]_vars
  BY <1>1, <1>2
<1> QED BY <1>2, Invariance, PTL DEF Spec, ActivatedByCode
=============================================================================
