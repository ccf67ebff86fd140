----------------------- MODULE PropertyInventoryProofs -----------------------
(***************************************************************************)
(* Proofs about PropertyInventory, for any owners, rows and requests.      *)
(***************************************************************************)
EXTENDS PropertyInventory, TLAPS

USE InventoryAssumption, NoneAssumption

(* Row x fits key k.                                                       *)
Fits(k, x) ==
  /\ k \in Properties => x \in PropertyRow
  /\ k \in Rooms => x \in RoomRow
  /\ k \in Assets => x \in AssetRow

(* What no operation changes: where a room or an asset belongs.            *)
SamePlace(k, x, y) ==
  /\ k \in Rooms => x.property = y.property
  /\ k \in Assets => x.subject = y.subject

Placed(k, x) ==
  /\ k \in Rooms => Exists(x.property)
  /\ k \in Assets => Exists(x.subject)

(* A request that works on a row holds a version of that row.              *)
Held(r) ==
  IF pc[r] # "idle" /\ req[r].op # "create"
    THEN /\ Exists(req[r].key)
         /\ Fits(req[r].key, snap[r])
         /\ SamePlace(req[r].key, snap[r], row[req[r].key])
    ELSE snap[r] = None

(* A request that makes a row has its key for itself.                      *)
Creating(r) ==
  pc[r] # "idle" /\ req[r].op = "create" =>
    /\ ~Exists(req[r].key)
    /\ Exists(req[r].under)
    /\ \A s \in Reqs \ {r} : pc[s] # "idle" => req[s].key # req[r].key

(* What a request holds is what is stored, but for the fields moved.       *)
Tracks(r) ==
  snap[r] # None =>
    \A f \in DOMAIN row[req[r].key] :
      f \in moved[r] \/ row[req[r].key][f] = snap[r][f]

(* Only a booking gets to the statement that reads the property.           *)
BookInv == \A r \in Reqs : pc[r] = "property" => req[r].op = "book"

ContractInv == \A m \in Rooms : contract[m] # "none" => Exists(m)

IInv ==
  /\ TypeOK
  /\ \A r \in Reqs : Held(r) /\ Creating(r) /\ Tracks(r)
  /\ DOMAIN moved = Reqs
  /\ BookInv
  /\ ContractInv

(* The two parts of the types.                                             *)
RowTypes ==
  /\ row \in [Keys -> PropertyRow \union RoomRow \union AssetRow \union {None}]
  /\ \A p \in Properties : Exists(p) => row[p] \in PropertyRow
  /\ \A m \in Rooms : Exists(m) => row[m] \in RoomRow /\ Exists(row[m].property)
  /\ \A a \in Assets : Exists(a) => row[a] \in AssetRow /\ Exists(row[a].subject)

ReqTypes ==
  /\ pc \in [Reqs -> {"idle", "owner", "contract", "property", "save"}]
  /\ req \in [Reqs -> Requests \union {None}]
  /\ \A r \in Reqs : pc[r] = "idle" <=> req[r] = None
  /\ snap \in [Reqs -> PropertyRow \union RoomRow \union AssetRow \union {None}]
  /\ ops \in 0 .. MaxOps

-----------------------------------------------------------------------------
(* What the requests look like.                                            *)
LEMMA RequestShapes ==
  ASSUME NEW q \in Requests
  PROVE  /\ q.key \in Keys
         /\ q.op \in {"write", "create", "book"}
         /\ q.op = "write" => q \in Writes
         /\ q.op = "book" => q.key \in Rooms
         /\ q.op = "create" => q \in CreateRoom \union BeginUpload
BY DEF Requests, Writes, CreateRoom, BeginUpload, AssertRoomBookable, Keys

LEMMA CreateShapes ==
  ASSUME NEW q \in CreateRoom \union BeginUpload
  PROVE  /\ q \in Requests /\ q.op = "create" /\ q.by \in Owners
         /\ \/ q.key \in Rooms /\ q.under \in Properties /\ q.code \in Codes
            \/ q.key \in Assets /\ q.under \in Properties \union Rooms
BY DEF Requests, CreateRoom, BeginUpload

(* A row with the fields of an operation written over it fits the same     *)
(* key, in the same place.                                                 *)
LEMMA Overwritten ==
  ASSUME NEW q \in Writes, NEW x, Fits(q.key, x)
  PROVE  LET w == [f \in DOMAIN x |-> IF f \in DOMAIN q.set THEN q.set[f] ELSE x[f]]
         IN  Fits(q.key, w) /\ SamePlace(q.key, w, x)
<1> DEFINE w == [f \in DOMAIN x |-> IF f \in DOMAIN q.set THEN q.set[f] ELSE x[f]]
<1>1. CASE q.key \in Properties
  <2>1. q.set \in UpdateProperty \union SetPropertyStatus \union DeleteProperty
    BY <1>1 DEF Writes
  <2>2. x \in PropertyRow
    BY <1>1 DEF Fits
  <2>3. q.set \in UpdateProperty => w \in PropertyRow
    BY <2>2 DEF PropertyRow, UpdateProperty
  <2>4. q.set \in SetPropertyStatus => w \in PropertyRow
    BY <2>2 DEF PropertyRow, SetPropertyStatus
  <2>5. q.set \in DeleteProperty => w \in PropertyRow
    BY <2>2 DEF PropertyRow, DeleteProperty
  <2> QED BY <1>1, <2>1, <2>3, <2>4, <2>5 DEF Fits, SamePlace
<1>2. CASE q.key \in Rooms
  <2>1. q.set \in UpdateRoom \union SetRoomStatus \union DeleteRoom
    BY <1>2 DEF Writes
  <2>2. x \in RoomRow
    BY <1>2 DEF Fits
  <2>3. q.set \in UpdateRoom => w \in RoomRow /\ w.property = x.property
    BY <2>2 DEF RoomRow, UpdateRoom
  <2>4. q.set \in SetRoomStatus => w \in RoomRow /\ w.property = x.property
    BY <2>2 DEF RoomRow, SetRoomStatus
  <2>5. q.set \in DeleteRoom => w \in RoomRow /\ w.property = x.property
    BY <2>2 DEF RoomRow, DeleteRoom
  <2> QED BY <1>2, <2>1, <2>3, <2>4, <2>5 DEF Fits, SamePlace
<1>3. CASE q.key \in Assets
  <2>1. q.set \in Publish
    BY <1>3 DEF Writes
  <2>2. x \in AssetRow
    BY <1>3 DEF Fits
  <2>3. w \in AssetRow /\ w.subject = x.subject
    BY <2>1, <2>2 DEF AssetRow, Publish
  <2> QED BY <1>3, <2>3 DEF Fits, SamePlace
<1> QED BY <1>1, <1>2, <1>3 DEF Writes

(* What a key has is a row, which is not None.                             *)
LEMMA RowIsSomething ==
  ASSUME NEW k \in Keys, NEW x, Fits(k, x)
  PROVE  x # None
BY DEF Fits, Keys

LEMMA StoredFits ==
  ASSUME TypeOK, NEW k \in Keys, Exists(k)
  PROVE  Fits(k, row[k]) /\ Placed(k, row[k])
BY DEF TypeOK, Fits, Placed, Exists, Keys

(* Rows that fit one key have the same fields.                             *)
LEMMA SameFields ==
  ASSUME NEW k \in Keys, NEW x, NEW y, Fits(k, x), Fits(k, y)
  PROVE  DOMAIN x = DOMAIN y
<1>1. CASE k \in Properties
  BY <1>1 DEF Fits, PropertyRow
<1>2. CASE k \in Rooms
  BY <1>2 DEF Fits, RoomRow
<1>3. CASE k \in Assets
  BY <1>3 DEF Fits, AssetRow
<1> QED BY <1>1, <1>2, <1>3 DEF Keys

-----------------------------------------------------------------------------
(* A row written where it belongs keeps the types of all rows, and no row  *)
(* disappears.                                                             *)
LEMMA RowStep ==
  ASSUME TypeOK, NEW k \in Keys, NEW new, Fits(k, new), Placed(k, new),
         row' = [row EXCEPT ![k] = new]
  PROVE  /\ RowTypes'
         /\ \A j \in Keys : Exists(j) => Exists(j)'
         /\ row'[k] = new
         /\ \A j \in Keys \ {k} : row'[j] = row[j]
<1>1. row'[k] = new /\ \A j \in Keys \ {k} : row'[j] = row[j]
  BY DEF TypeOK
<1>2. new # None
  BY RowIsSomething
<1>3. \A j \in Keys : Exists(j) => Exists(j)'
  BY <1>1, <1>2 DEF Exists
<1>4. row' \in [Keys -> PropertyRow \union RoomRow \union AssetRow \union {None}]
  BY DEF TypeOK, Fits, Keys
<1>5. \A j \in Keys : Exists(j)' => Fits(j, row'[j]) /\ Placed(j, row[j])'
  <2> SUFFICES ASSUME NEW j \in Keys, Exists(j)' PROVE Fits(j, row'[j]) /\ Placed(j, row[j])'
    OBVIOUS
  <2>1. Fits(j, row'[j]) /\ Placed(j, row'[j])
    BY <1>1, StoredFits DEF Exists
  <2>2. /\ j \in Rooms => row'[j].property \in Keys
        /\ j \in Assets => row'[j].subject \in Keys
    BY <2>1 DEF Fits, RoomRow, AssetRow, Keys
  <2> QED BY <2>1, <2>2, <1>3 DEF Placed
<1> QED BY <1>1, <1>3, <1>4, <1>5 DEF RowTypes, Fits, Placed, Keys

(* Such a step, seen by a request that does nothing itself.                *)
LEMMA OtherRequest ==
  ASSUME IInv, NEW k \in Keys, NEW new, Fits(k, new), Placed(k, new),
         Exists(k) => SamePlace(k, new, row[k]),
         row' = [row EXCEPT ![k] = new],
         NEW r \in Reqs, pc'[r] = pc[r], req'[r] = req[r], snap'[r] = snap[r],
         moved'[r] = Missed(k, new)[r]
  PROVE  Held(r)' /\ Tracks(r)'
<1>1. /\ TypeOK /\ Held(r) /\ Tracks(r)
  BY DEF IInv
<1>2. /\ \A j \in Keys : Exists(j) => Exists(j)'
      /\ row'[k] = new
      /\ \A j \in Keys \ {k} : row'[j] = row[j]
  BY <1>1, RowStep
<1>3. CASE ~(pc[r] # "idle" /\ req[r].op # "create")
  BY <1>1, <1>3 DEF Held, Tracks
<1>4. CASE pc[r] # "idle" /\ req[r].op # "create"
  <2> DEFINE j == req[r].key
  <2>1. j \in Keys /\ Exists(j) /\ Fits(j, snap[r]) /\ SamePlace(j, snap[r], row[j])
    BY <1>1, <1>4, RequestShapes DEF Held, TypeOK
  <2>2. snap[r] # None
    BY <2>1, RowIsSomething
  <2>3. SamePlace(j, snap[r], row'[j])
    BY <1>2, <2>1 DEF SamePlace
  <2>4. Held(r)'
    BY <1>2, <1>4, <2>1, <2>3 DEF Held
  <2>5. CASE j # k
    <3>1. moved'[r] = moved[r]
      BY <2>5 DEF Missed
    <3>2. row'[j] = row[j]
      BY <1>2, <2>1, <2>5
    <3>3. \A f \in DOMAIN row[j] : f \in moved[r] \/ row[j][f] = snap[r][f]
      BY <1>1, <2>2 DEF Tracks
    <3>4. \A f \in DOMAIN row'[j] : f \in moved'[r] \/ row'[j][f] = snap[r][f]
      BY <3>1, <3>2, <3>3
    <3> QED BY <2>4, <3>4 DEF Tracks
  <2>6. CASE j = k
    <3>1. moved'[r] = moved[r] \union {f \in DOMAIN new : new[f] # row[k][f]}
      BY <2>2, <2>6 DEF Missed
    <3>2. DOMAIN new = DOMAIN row[k]
      BY <1>1, <2>1, <2>6, SameFields, StoredFits
    <3>3. \A f \in DOMAIN row[k] : f \in moved[r] \/ row[k][f] = snap[r][f]
      BY <1>1, <2>2, <2>6 DEF Tracks
    <3>4. \A f \in DOMAIN row'[k] : f \in moved'[r] \/ row'[k][f] = snap[r][f]
      BY <1>2, <3>1, <3>2, <3>3
    <3> QED BY <2>4, <2>6, <3>4 DEF Tracks
  <2> QED BY <2>4, <2>5, <2>6
<1> QED BY <1>3, <1>4

(* It leaves requests that make rows alone, unless it makes one itself.    *)
LEMMA OtherCreation ==
  ASSUME IInv, NEW k \in Keys, \A j \in Keys : Exists(j) => Exists(j)',
         \A j \in Keys \ {k} : row'[j] = row[j],
         NEW r \in Reqs, pc'[r] = pc[r], req'[r] = req[r],
         \A s \in Reqs : pc'[s] # "idle" => pc[s] # "idle" /\ req'[s] = req[s],
         \/ Exists(k)
         \/ k \in Properties
         \/ \E s \in Reqs \ {r} : pc[s] # "idle" /\ req[s].key = k
  PROVE  Creating(r)'
<1> SUFFICES ASSUME pc[r] # "idle", req[r].op = "create" PROVE Creating(r)'
  BY DEF Creating
<1>1. Creating(r)
  BY DEF IInv
<1>2. req[r] \in CreateRoom \union BeginUpload /\ req[r].key \in Keys
  BY RequestShapes DEF IInv, TypeOK
<1>3. req[r].key \in Rooms \union Assets /\ req[r].under \in Keys
  BY <1>2, CreateShapes DEF Keys
<1>4. req[r].key # k
  BY <1>1, <1>3 DEF Creating
<1>5. ~Exists(req[r].key)'
  BY <1>1, <1>2, <1>4 DEF Creating, Exists
<1> QED BY <1>1, <1>3, <1>5 DEF Creating

LEMMA NoContractLost ==
  ASSUME IInv, \A j \in Keys : Exists(j) => Exists(j)', UNCHANGED contract
  PROVE  ContractInv'
BY DEF IInv, ContractInv, Keys

(* What happens outside of the requests: a row becomes another.            *)
LEMMA EnvironmentStores ==
  ASSUME IInv, NEW k \in Keys, NEW new, Fits(k, new), Placed(k, new),
         Exists(k) => SamePlace(k, new, row[k]), Exists(k) \/ k \in Properties,
         Store(k, new), UNCHANGED <<contract, reqVars>>
  PROVE  IInv'
<1>1. TypeOK /\ row' = [row EXCEPT ![k] = new] /\ moved' = Missed(k, new)
  BY DEF IInv, Store
<1>2. /\ RowTypes'
      /\ \A j \in Keys : Exists(j) => Exists(j)'
      /\ \A j \in Keys \ {k} : row'[j] = row[j]
  BY <1>1, RowStep
<1>3. TypeOK'
  BY <1>1, <1>2 DEF TypeOK, RowTypes, reqVars
<1>4. \A r \in Reqs : Held(r)' /\ Tracks(r)'
  BY <1>1, OtherRequest DEF reqVars
<1>5. \A r \in Reqs : Creating(r)'
  BY <1>2, OtherCreation DEF reqVars
<1>6. ContractInv'
  BY <1>2, NoContractLost
<1>7. DOMAIN moved' = Reqs /\ BookInv'
  BY <1>1 DEF Missed, reqVars, IInv, BookInv
<1> QED BY <1>3, <1>4, <1>5, <1>6, <1>7 DEF IInv

-----------------------------------------------------------------------------
(* A request goes on to its next statement.                                *)
LEMMA GoKeeps ==
  ASSUME IInv, NEW r \in Reqs, pc[r] # "idle", NEW step \in {"contract", "save"}, Go(r, step),
         UNCHANGED <<row, contract, moved>>
  PROVE  IInv'
<1>1. TypeOK'
  BY DEF IInv, TypeOK, Go, Exists
<1>2. \A s \in Reqs : pc'[s] # "idle" <=> pc[s] # "idle"
  BY DEF IInv, TypeOK, Go
<1>3. \A s \in Reqs : Held(s)' /\ Tracks(s)'
  BY <1>2 DEF IInv, Held, Tracks, Go, Exists
<1>4. \A s \in Reqs : Creating(s)'
  BY <1>2 DEF IInv, Creating, Go, Exists
<1>5. BookInv'
  BY DEF IInv, TypeOK, BookInv, Go
<1> QED BY <1>1, <1>3, <1>4, <1>5 DEF IInv, ContractInv, Exists

(* What the variables of the requests are when r has ended.                *)
LEMMA EndTypes ==
  ASSUME TypeOK, NEW r \in Reqs, End(r)
  PROVE  /\ ReqTypes'
         /\ pc'[r] = "idle" /\ snap'[r] = None
         /\ \A s \in Reqs \ {r} : pc'[s] = pc[s] /\ req'[s] = req[s] /\ snap'[s] = snap[s]
<1>1. /\ pc'[r] = "idle" /\ snap'[r] = None
      /\ \A s \in Reqs \ {r} : pc'[s] = pc[s] /\ snap'[s] = snap[s]
  BY DEF TypeOK, End
<1>2. /\ req' \in [Reqs -> Requests \union {None}]
      /\ \A s \in Reqs : pc'[s] = "idle" <=> req'[s] = None
  BY DEF TypeOK, End
<1> QED BY <1>1, <1>2 DEF TypeOK, End, ReqTypes

(* A request ends and leaves everything as it is.                          *)
LEMMA EndKeeps ==
  ASSUME IInv, NEW r \in Reqs, End(r), moved' = [moved EXCEPT ![r] = {}],
         UNCHANGED <<row, contract>>
  PROVE  IInv'
<1>1. /\ ReqTypes'
      /\ pc'[r] = "idle" /\ snap'[r] = None
      /\ \A s \in Reqs \ {r} : pc'[s] = pc[s] /\ req'[s] = req[s] /\ snap'[s] = snap[s]
  BY EndTypes DEF IInv
<1>2. DOMAIN moved' = Reqs /\ \A s \in Reqs \ {r} : moved'[s] = moved[s]
  BY DEF IInv
<1>3. TypeOK'
  BY <1>1 DEF IInv, TypeOK, ReqTypes, Exists
<1>4. \A s \in Reqs : Held(s)' /\ Tracks(s)'
  BY <1>1, <1>2 DEF IInv, Held, Tracks, Exists
<1>5. \A s \in Reqs : Creating(s)'
  BY <1>1 DEF IInv, Creating, Exists
<1>6. BookInv'
  BY <1>1 DEF IInv, BookInv
<1> QED BY <1>2, <1>3, <1>4, <1>5, <1>6 DEF IInv, ContractInv, Exists

(* An operation begins with a row that it reads.                           *)
LEMMA ReadKeeps ==
  ASSUME IInv, NEW r \in Reqs, NEW q \in Writes \union AssertRoomBookable, Read(r, q)
  PROVE  IInv'
<1>1. /\ q \in Requests /\ q.op # "create" /\ q.key \in Keys
      /\ q.op = "book" => q.key \in Rooms
  BY RequestShapes DEF Requests, Writes, AssertRoomBookable
<1>2. /\ TypeOK /\ Exists(q.key) /\ pc[r] = "idle"
      /\ UNCHANGED <<row, contract, moved>>
      /\ ops < MaxOps /\ ops' = ops + 1
  BY DEF Read, Begin, IInv
<1>3. Fits(q.key, row[q.key])
  BY <1>1, <1>2, StoredFits
<1>4. PICK step \in {"owner", "property", "save"} :
        pc' = [pc EXCEPT ![r] = step] /\ (step = "property" => q.op = "book")
  BY DEF Read, Begin
<1>5. req' = [req EXCEPT ![r] = q] /\ snap' = [snap EXCEPT ![r] = row[q.key]]
  BY DEF Read, Begin
<1>6. /\ pc'[r] # "idle" /\ req'[r] = q /\ snap'[r] = row[q.key]
      /\ \A s \in Reqs \ {r} : pc'[s] = pc[s] /\ req'[s] = req[s] /\ snap'[s] = snap[s]
  BY <1>2, <1>4, <1>5 DEF TypeOK
<1>7. TypeOK'
  <2>1. row[q.key] \in PropertyRow \union RoomRow \union AssetRow \union {None}
    BY <1>1, <1>2 DEF TypeOK
  <2>2. snap' \in [Reqs -> PropertyRow \union RoomRow \union AssetRow \union {None}]
    BY <1>2, <1>5, <2>1 DEF TypeOK
  <2>3. /\ pc' \in [Reqs -> {"idle", "owner", "contract", "property", "save"}]
        /\ req' \in [Reqs -> Requests \union {None}]
    BY <1>1, <1>2, <1>4, <1>5 DEF TypeOK
  <2>4. \A s \in Reqs : pc'[s] = "idle" <=> req'[s] = None
    BY <1>1, <1>2, <1>6 DEF TypeOK
  <2>5. ops' \in 0 .. MaxOps
    BY <1>2 DEF TypeOK
  <2> QED BY <1>2, <2>2, <2>3, <2>4, <2>5 DEF TypeOK, Exists
<1>8. Held(r)' /\ Tracks(r)' /\ Creating(r)'
  BY <1>1, <1>2, <1>3, <1>6 DEF Held, Tracks, Creating, SamePlace, Exists
<1>9. \A s \in Reqs \ {r} : Held(s)' /\ Tracks(s)'
  BY <1>2, <1>6 DEF IInv, Held, Tracks, Exists
<1>10. \A s \in Reqs \ {r} : Creating(s)'
  <2> SUFFICES ASSUME NEW s \in Reqs \ {r}, pc[s] # "idle", req[s].op = "create"
               PROVE  Creating(s)'
    BY <1>6 DEF Creating
  <2>1. Creating(s)
    BY DEF IInv
  <2>2. req[s].key # q.key
    BY <1>2, <2>1 DEF Creating
  <2> QED BY <1>2, <1>6, <2>1, <2>2 DEF Creating, Exists
<1>11. BookInv'
  BY <1>2, <1>4, <1>6 DEF IInv, TypeOK, BookInv
<1> QED BY <1>2, <1>7, <1>8, <1>9, <1>10, <1>11 DEF IInv, ContractInv, Exists

(* An operation begins that will make a row.                               *)
LEMMA CheckParentKeeps ==
  ASSUME IInv, NEW r \in Reqs, NEW q \in CreateRoom \union BeginUpload, CheckParent(r, q)
  PROVE  IInv'
<1>1. q \in Requests /\ q.op = "create"
  BY CreateShapes
<1>2. /\ TypeOK /\ pc[r] = "idle" /\ ~Exists(q.key) /\ Exists(q.under)
      /\ \A s \in Reqs : req[s] # None => req[s].key # q.key
      /\ UNCHANGED <<row, contract, moved, snap>>
      /\ ops < MaxOps /\ ops' = ops + 1
  BY DEF CheckParent, Owned, Begin, IInv
<1>3. req' = [req EXCEPT ![r] = q] /\ pc' = [pc EXCEPT ![r] = "save"]
  BY DEF CheckParent, Begin
<1>4. /\ pc'[r] = "save" /\ req'[r] = q
      /\ \A s \in Reqs \ {r} : pc'[s] = pc[s] /\ req'[s] = req[s]
  BY <1>2, <1>3 DEF TypeOK
<1>5. TypeOK'
  <2>1. /\ pc' \in [Reqs -> {"idle", "owner", "contract", "property", "save"}]
        /\ req' \in [Reqs -> Requests \union {None}]
    BY <1>1, <1>2, <1>3 DEF TypeOK
  <2>2. \A s \in Reqs : pc'[s] = "idle" <=> req'[s] = None
    BY <1>1, <1>2, <1>4 DEF TypeOK
  <2>3. ops' \in 0 .. MaxOps
    BY <1>2 DEF TypeOK
  <2> QED BY <1>2, <2>1, <2>2, <2>3 DEF TypeOK, Exists
<1>6. snap[r] = None
  BY <1>2 DEF IInv, Held
<1>7. Held(r)' /\ Tracks(r)'
  BY <1>1, <1>2, <1>4, <1>6 DEF Held, Tracks
<1>8. \A s \in Reqs \ {r} : Held(s)' /\ Tracks(s)'
  BY <1>2, <1>4 DEF IInv, Held, Tracks, Exists
<1>9. \A s \in Reqs : pc[s] # "idle" => req[s].key # q.key
  BY <1>2 DEF TypeOK
<1>10. Creating(r)'
  BY <1>2, <1>4, <1>9 DEF Creating, Exists
<1>11. \A s \in Reqs \ {r} : Creating(s)'
  BY <1>2, <1>4, <1>9 DEF IInv, Creating, Exists
<1>12. BookInv'
  BY <1>4 DEF IInv, BookInv
<1> QED BY <1>2, <1>5, <1>7, <1>8, <1>10, <1>11, <1>12 DEF IInv, ContractInv, Exists

(* The row that a request holds, with its own fields over it.              *)
LEMMA WrittenFits ==
  ASSUME IInv, NEW r \in Reqs, pc[r] = "save", req[r].op = "write"
  PROVE  LET k == req[r].key IN
         /\ k \in Keys /\ Exists(k)
         /\ Fits(k, snap[r]) /\ Fits(k, Written(r))
         /\ SamePlace(k, Written(r), row[k])
         /\ Placed(k, Written(r))
<1> DEFINE k == req[r].key
<1>1. req[r] \in Writes /\ k \in Keys
  BY RequestShapes DEF IInv, TypeOK
<1>2. Exists(k) /\ Fits(k, snap[r]) /\ SamePlace(k, snap[r], row[k])
  BY DEF IInv, Held
<1>3. Fits(k, Written(r)) /\ SamePlace(k, Written(r), snap[r])
  BY <1>1, <1>2, Overwritten DEF Written
<1>4. SamePlace(k, Written(r), row[k])
  BY <1>2, <1>3 DEF SamePlace
<1>5. Placed(k, row[k])
  BY <1>1, <1>2, StoredFits DEF IInv
<1>6. Placed(k, Written(r))
  BY <1>4, <1>5 DEF Placed, SamePlace
<1> QED BY <1>1, <1>2, <1>3, <1>4, <1>6

(* An operation writes its row back.                                       *)
LEMMA SaveKeeps ==
  ASSUME IInv, NEW r \in Reqs, Save(r)
  PROVE  IInv'
<1> DEFINE k == req[r].key
<1>1. /\ pc[r] = "save" /\ req[r].op = "write" /\ End(r) /\ UNCHANGED contract
      /\ row' = [row EXCEPT ![k] = Written(r)]
      /\ moved' = [Missed(k, Written(r)) EXCEPT ![r] = {}]
  BY DEF Save
<1>2. /\ k \in Keys /\ Exists(k) /\ Fits(k, Written(r))
      /\ SamePlace(k, Written(r), row[k]) /\ Placed(k, Written(r))
  BY <1>1, WrittenFits
<1>3. /\ RowTypes'
      /\ \A j \in Keys : Exists(j) => Exists(j)'
      /\ \A j \in Keys \ {k} : row'[j] = row[j]
  BY <1>1, <1>2, RowStep DEF IInv
<1>4. /\ ReqTypes'
      /\ pc'[r] = "idle" /\ snap'[r] = None
      /\ \A s \in Reqs \ {r} : pc'[s] = pc[s] /\ req'[s] = req[s] /\ snap'[s] = snap[s]
  BY <1>1, EndTypes DEF IInv
<1>5. TypeOK'
  BY <1>1, <1>3, <1>4 DEF IInv, TypeOK, RowTypes, ReqTypes
<1>6. /\ DOMAIN moved' = Reqs
      /\ \A s \in Reqs \ {r} : moved'[s] = Missed(k, Written(r))[s]
  BY <1>1 DEF Missed
<1>7. \A s \in Reqs \ {r} : Held(s)' /\ Tracks(s)'
  BY <1>1, <1>2, <1>4, <1>6, OtherRequest
<1>8. \A s \in Reqs \ {r} : Creating(s)'
  BY <1>2, <1>3, <1>4, OtherCreation
<1>9. Held(r)' /\ Tracks(r)' /\ Creating(r)'
  BY <1>4 DEF Held, Tracks, Creating
<1>10. ContractInv'
  BY <1>1, <1>3, NoContractLost
<1>11. BookInv'
  BY <1>4 DEF IInv, BookInv
<1> QED BY <1>5, <1>6, <1>7, <1>8, <1>9, <1>10, <1>11 DEF IInv

(* An operation makes its row.                                             *)
LEMMA InsertKeeps ==
  ASSUME IInv, NEW r \in Reqs, Insert(r)
  PROVE  IInv'
<1> DEFINE k == req[r].key
           new == NewRow(r)
<1>1. /\ pc[r] = "save" /\ req[r].op = "create" /\ End(r) /\ UNCHANGED <<contract, moved>>
      /\ row' = [row EXCEPT ![k] = new]
  BY DEF Insert
<1>2. req[r] \in CreateRoom \union BeginUpload /\ k \in Keys
  BY <1>1, RequestShapes DEF IInv, TypeOK
<1>3. ~Exists(k) /\ Exists(req[r].under)
  BY <1>1 DEF IInv, Creating
<1>4. Fits(k, new) /\ Placed(k, new)
  <2>1. CASE k \in Rooms
    BY <1>2, <1>3, <2>1, CreateShapes DEF NewRow, Fits, Placed, RoomRow
  <2>2. CASE k \in Assets
    BY <1>2, <1>3, <2>2, CreateShapes DEF NewRow, Fits, Placed, AssetRow
  <2> QED BY <1>2, <2>1, <2>2, CreateShapes
<1>5. /\ RowTypes'
      /\ \A j \in Keys : Exists(j) => Exists(j)'
      /\ \A j \in Keys \ {k} : row'[j] = row[j]
  BY <1>1, <1>2, <1>4, RowStep DEF IInv
<1>6. /\ ReqTypes'
      /\ pc'[r] = "idle" /\ snap'[r] = None
      /\ \A s \in Reqs \ {r} : pc'[s] = pc[s] /\ req'[s] = req[s] /\ snap'[s] = snap[s]
  BY <1>1, EndTypes DEF IInv
<1>7. TypeOK'
  BY <1>1, <1>5, <1>6 DEF IInv, TypeOK, RowTypes, ReqTypes
<1>8. \A s \in Reqs : moved'[s] = Missed(k, new)[s]
  BY <1>1, <1>3 DEF Missed, IInv, Held
<1>9. \A s \in Reqs \ {r} : Held(s)' /\ Tracks(s)'
  BY <1>1, <1>2, <1>3, <1>4, <1>6, <1>8, OtherRequest
<1>10. \A s \in Reqs \ {r} : Creating(s)'
  <2> SUFFICES ASSUME NEW s \in Reqs \ {r} PROVE Creating(s)'
    OBVIOUS
  <2>1. \E t \in Reqs \ {s} : pc[t] # "idle" /\ req[t].key = k
    BY <1>1
  <2>2. /\ pc'[s] = pc[s] /\ req'[s] = req[s]
        /\ \A t \in Reqs : pc'[t] # "idle" => pc[t] # "idle" /\ req'[t] = req[t]
    BY <1>6
  <2> HIDE DEF k, new
  <2> QED BY <1>2, <1>5, <2>1, <2>2, OtherCreation
<1>11. Held(r)' /\ Tracks(r)' /\ Creating(r)'
  BY <1>6 DEF Held, Tracks, Creating
<1>12. ContractInv'
  BY <1>1, <1>5, NoContractLost
<1>13. DOMAIN moved' = Reqs /\ BookInv'
  BY <1>1, <1>6 DEF IInv, BookInv
<1> QED BY <1>7, <1>9, <1>10, <1>11, <1>12, <1>13 DEF IInv

-----------------------------------------------------------------------------
LEMMA InitKeeps == Init => IInv
<1> SUFFICES ASSUME Init PROVE IInv
  OBVIOUS
<1>1. TypeOK
  BY DEF Init, TypeOK, Exists, Keys
<1> QED BY <1>1 DEF Init, IInv, Held, Creating, Tracks, BookInv, ContractInv

LEMMA StepKeeps == IInv /\ [Next]_vars => IInv'
<1> SUFFICES ASSUME IInv, [Next]_vars PROVE IInv'
  OBVIOUS
<1>1. CASE UNCHANGED vars
  BY <1>1 DEF vars, reqVars, IInv, TypeOK, Held, Creating, Tracks, BookInv, ContractInv,
     SamePlace, Exists
<1>2. ASSUME NEW r \in Reqs, NEW q \in Writes \union AssertRoomBookable, Read(r, q) PROVE IInv'
  BY <1>2, ReadKeeps
<1>3. ASSUME NEW r \in Reqs, NEW q \in CreateRoom \union BeginUpload, CheckParent(r, q) PROVE IInv'
  BY <1>3, CheckParentKeeps
<1>4. ASSUME NEW r \in Reqs, Leave(r) \/ Accept(r) PROVE IInv'
  BY <1>4, EndKeeps DEF Leave, Accept
<1>5. ASSUME NEW r \in Reqs, CheckOwner(r) PROVE IInv'
  <2>1. pc[r] # "idle" /\ \E step \in {"contract", "save"} : Go(r, step)
    BY <1>5 DEF CheckOwner
  <2> QED BY <1>5, <2>1, GoKeeps DEF CheckOwner
<1>6. ASSUME NEW r \in Reqs, CheckContract(r) PROVE IInv'
  BY <1>6, GoKeeps DEF CheckContract
<1>7. ASSUME NEW r \in Reqs, Save(r) PROVE IInv'
  BY <1>7, SaveKeeps
<1>8. ASSUME NEW r \in Reqs, Insert(r) PROVE IInv'
  BY <1>8, InsertKeeps
<1>9. ASSUME NEW p \in Properties, CreateProperty(p) PROVE IInv'
  <2>1. PICK new \in PropertyRow : Store(p, new)
    BY <1>9 DEF CreateProperty, PropertyRow
  <2>2. ~Exists(p) /\ p \in Keys /\ Fits(p, new) /\ Placed(p, new)
    BY <1>9, <2>1 DEF CreateProperty, Keys, Fits, Placed
  <2> QED BY <1>9, <2>1, <2>2, EnvironmentStores DEF CreateProperty
<1>10. ASSUME NEW k \in Keys, NEW s, Exists(k),
              \/ k \in Properties /\ s = "suspended"
              \/ k \in Rooms /\ s \in {"available", "occupied"}
              \/ k \in Assets /\ s \in {"ready", "quarantined", "deleted"},
              Store(k, [row[k] EXCEPT !.status = s]), UNCHANGED <<contract, reqVars>>
       PROVE  IInv'
  <2> DEFINE new == [row[k] EXCEPT !.status = s]
  <2>1. Fits(k, row[k]) /\ Placed(k, row[k])
    BY <1>10, StoredFits DEF IInv
  <2>2. Fits(k, new)
    BY <1>10, <2>1 DEF Fits, PropertyRow, RoomRow, AssetRow
  <2>3. SamePlace(k, new, row[k])
    BY <2>1 DEF SamePlace, Fits, RoomRow, AssetRow
  <2>4. Placed(k, new)
    BY <2>1, <2>3 DEF Placed, SamePlace
  <2> QED BY <1>10, <2>2, <2>3, <2>4, EnvironmentStores
<1>11. ASSUME NEW p \in Properties, Suspend(p) PROVE IInv'
  BY <1>10, <1>11 DEF Suspend, Keys
<1>12. ASSUME NEW m \in Rooms, MarkRoom(m) PROVE IInv'
  BY <1>10, <1>12 DEF MarkRoom, Keys
<1>13. ASSUME NEW a \in Assets, Scan(a) PROVE IInv'
  BY <1>10, <1>13 DEF Scan, Keys
<1>14. ASSUME NEW m \in Rooms, ActivateContract(m) \/ EndContract(m) PROVE IInv'
  <2>1. /\ UNCHANGED <<row, reqVars, moved>>
        /\ \E c \in {"none", "complete", "incomplete"} : contract' = [contract EXCEPT ![m] = c]
        /\ contract'[m] # "none" => Exists(m)
    BY <1>14 DEF ActivateContract, EndContract, IInv, TypeOK
  <2>2. contract' \in [Rooms -> {"none", "complete", "incomplete"}]
    BY <2>1 DEF IInv, TypeOK
  <2>3. TypeOK'
    BY <2>1, <2>2 DEF IInv, TypeOK, reqVars, Exists
  <2>4. ContractInv'
    BY <2>1 DEF IInv, TypeOK, ContractInv, Exists
  <2> QED BY <2>1, <2>3, <2>4 DEF IInv, reqVars, Held, Creating, Tracks, BookInv, SamePlace, Exists
<1> QED BY <1>1, <1>2, <1>3, <1>4, <1>5, <1>6, <1>7, <1>8, <1>9, <1>11, <1>12, <1>13, <1>14 DEF Next

(* Rows and requests keep their types, and every room and asset belongs to *)
(* a row that exists, although nothing is locked between check and insert. *)
THEOREM TypeCorrect == Spec => []TypeOK
<1>1. Init => IInv
  BY InitKeeps
<1>2. IInv /\ [Next]_vars => IInv'
  BY StepKeeps
<1>3. IInv => TypeOK
  BY DEF IInv
<1> QED BY <1>1, <1>2, <1>3, PTL DEF Spec

(* What a write does to the fields of a row it was not asked to change.    *)
LEMMA SaveOverlaps ==
  IInv /\ [Next]_vars =>
    [\A r \in Reqs : Save(r) =>
       LET k == req[r].key IN
       \A f \in DOMAIN row[k] \ DOMAIN req[r].set : row'[k][f] # row[k][f] => f \in moved[r]]_vars
<1> SUFFICES ASSUME IInv, NEW r \in Reqs, Save(r),
                    NEW f \in DOMAIN row[req[r].key] \ DOMAIN req[r].set,
                    row'[req[r].key][f] # row[req[r].key][f]
             PROVE  f \in moved[r]
  OBVIOUS
<1> DEFINE k == req[r].key
<1>1. /\ pc[r] = "save" /\ req[r].op = "write"
      /\ row' = [row EXCEPT ![k] = Written(r)]
  BY DEF Save
<1>2. k \in Keys /\ Exists(k) /\ Fits(k, snap[r])
  BY <1>1, WrittenFits
<1>3. DOMAIN snap[r] = DOMAIN row[k]
  BY <1>2, StoredFits, SameFields DEF IInv
<1>4. row'[k][f] = snap[r][f]
  <2>1. row'[k] = Written(r)
    BY <1>1, <1>2 DEF IInv, TypeOK
  <2> QED BY <1>3, <2>1 DEF Written
<1>5. snap[r] # None
  BY <1>2, RowIsSomething
<1> QED BY <1>4, <1>5 DEF IInv, Tracks

(* DefaultPropertyService writes whole rows back: a field it was not asked *)
(* to change is changed only if another changed it since the row was read. *)
THEOREM LostOnlyToOverlap == Spec => LostUpdatesOverlap
<1>1. Init => IInv
  BY InitKeeps
<1>2. IInv /\ [Next]_vars => IInv'
  BY StepKeeps
<1> QED BY <1>1, <1>2, SaveOverlaps, PTL DEF Spec, LostUpdatesOverlap

(* The two statements of assertRoomBookable against the one of the list.   *)
LEMMA AcceptPublic ==
  IInv /\ [Next]_vars =>
    [\A r \in Reqs : Accept(r) /\ moved[r] = {} => req[r].key \in ListPublicRooms]_vars
<1> SUFFICES ASSUME IInv, NEW r \in Reqs, Accept(r), moved[r] = {}
             PROVE  req[r].key \in ListPublicRooms
  OBVIOUS
<1> DEFINE m == req[r].key
<1>1. /\ pc[r] = "property" /\ req[r].op = "book" /\ m \in Rooms
      /\ ~snap[r].deleted /\ snap[r].status = "available"
      /\ ~row[snap[r].property].deleted /\ row[snap[r].property].status = "active"
  BY RequestShapes DEF Accept, IInv, TypeOK, BookInv
<1>2. m \in Keys /\ Exists(m) /\ Fits(m, snap[r])
  BY <1>1 DEF IInv, Held, Keys
<1>3. snap[r] # None /\ row[m] \in RoomRow
  BY <1>1, <1>2, RowIsSomething DEF IInv, TypeOK
<1>4. /\ row[m]["deleted"] = snap[r]["deleted"] /\ row[m]["status"] = snap[r]["status"]
      /\ row[m]["property"] = snap[r]["property"]
  <2>1. \A f \in DOMAIN row[m] : row[m][f] = snap[r][f]
    BY <1>3 DEF IInv, Tracks
  <2>2. DOMAIN row[m] = {"property", "code", "deleted", "status"}
    BY <1>3 DEF RoomRow
  <2> QED BY <2>1, <2>2
<1> QED BY <1>1, <1>2, <1>4 DEF ListPublicRooms

(* What assertRoomBookable lets through is what listPublicRooms shows.     *)
THEOREM BookedIsPublic == Spec => AcceptedIsPublic
<1>1. Init => IInv
  BY InitKeeps
<1>2. IInv /\ [Next]_vars => IInv'
  BY StepKeeps
<1> QED BY <1>1, <1>2, AcceptPublic, PTL DEF Spec, AcceptedIsPublic

(* No deletion, however it interleaves with others, takes an active        *)
(* contract out of the profile of its renter.                              *)
THEOREM RentalsStay == Spec => []RentalsSurviveDeletion
<1>1. Init => IInv
  BY InitKeeps
<1>2. IInv /\ [Next]_vars => IInv'
  BY StepKeeps
<1>3. IInv => RentalsSurviveDeletion
  <2> SUFFICES ASSUME IInv, ActiveRentals = {}
               PROVE  \E m \in CompleteContracts : row[row[m].property].details = Blank
    BY DEF RentalsSurviveDeletion
  <2>1. PICK m \in CompleteContracts : ~Displayable(m)
    BY DEF ActiveRentals
  <2>2. m \in Rooms /\ Exists(m)
    BY <2>1 DEF CompleteContracts, IInv, ContractInv
  <2>3. Exists(row[m].property)
    BY <2>2 DEF IInv, TypeOK
  <2> QED BY <2>1, <2>2, <2>3 DEF Displayable
<1> QED BY <1>1, <1>2, <1>3, PTL DEF Spec

(* getViewingRoomsSnapshot and listPublicRooms write the rule of what is   *)
(* bookable each on its own.  They agree whatever the rows are, not only   *)
(* in reachable states; what is listed has the snapshots from which a      *)
(* contract is made.                                                       *)
THEOREM RulesAgree == Spec => []BookableAgrees
<1>1. ASSUME NEW batch \in Batches
      PROVE  ViewingRooms(batch) = ListPublicRooms \intersect batch
  <2>1. batch \subseteq Rooms /\ \A m \in batch : Exists(m)
    BY DEF Batches
  <2> QED BY <2>1 DEF ViewingRooms, ListPublicRooms
<1>2. ListPublicRooms \subseteq ContractSnapshots
  BY DEF ListPublicRooms, ContractSnapshots, BillingSnapshots
<1>3. BookableAgrees
  BY <1>1, <1>2 DEF BookableAgrees
<1> QED BY <1>3, PTL
=============================================================================
