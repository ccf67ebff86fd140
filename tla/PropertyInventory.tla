-------------------------- MODULE PropertyInventory --------------------------
(***************************************************************************)
(* Properties, their rooms and the assets of their listings: the requests  *)
(* of owners as DefaultPropertyService and ListingAssetService handle      *)
(* them, each statement a step.  An operation reads a whole row, checks    *)
(* it, puts its own fields into the copy and writes the whole copy back,   *)
(* without a transaction or a version: what others wrote meanwhile is lost.*)
(*                                                                         *)
(* Contracts, the administrator who suspends a property and the scanner    *)
(* of uploaded assets are not in the repository; they are the environment. *)
(* Descriptive fields are one value; Blank stands for an address without   *)
(* text.                                                                   *)
(***************************************************************************)
EXTENDS Naturals

CONSTANTS Owners,
          Properties, Rooms, Assets,  \* ids that may be given to rows
          Codes,                      \* room codes
          Details, Blank,             \* name, description and address
          OwnerPropertyStatus,        \* statuses an owner asks for
          OwnerRoomStatus,
          Reqs,                       \* requests being handled at the same time
          MaxOps,                     \* bound: operations begun
          None                        \* no row, no request

Keys == Properties \union Rooms \union Assets

ASSUME InventoryAssumption ==
  /\ MaxOps \in Nat
  /\ Blank \in Details
  /\ OwnerPropertyStatus \subseteq {"draft", "active", "inactive"}
  /\ OwnerRoomStatus \subseteq {"available", "maintenance", "inactive"}
  /\ Properties \intersect Rooms = {}
  /\ Assets \intersect (Properties \union Rooms) = {}

VARIABLES row,       \* row[k]: the row with key k, or None
          contract,  \* contract[m]: the contract of room m that is active, if any
          pc,        \* pc[r]: the statement request r sends next
          req,       \* req[r]: what r asks for, or None
          snap,      \* snap[r]: the row r has read, or None
          moved,     \* moved[r]: fields of that row others changed since (history)
          ops        \* operations begun, for the bound

reqVars == <<pc, req, snap, ops>>
vars == <<row, contract, reqVars, moved>>

PropertyRow == [owner : Owners, details : Details, deleted : BOOLEAN,
                status : {"draft", "active", "inactive", "suspended"}]
RoomRow == [property : Properties, code : Codes, deleted : BOOLEAN,
            status : {"available", "reserved", "occupied", "maintenance", "inactive"}]
AssetRow == [uploadedBy : Owners, subject : Properties \union Rooms, published : BOOLEAN,
             status : {"pending", "ready", "quarantined", "deleted"}]

Exists(k) == row[k] # None

(* Room rows are read joined with their property.                          *)
OwnerOf(k) == IF k \in Rooms THEN row[row[k].property].owner ELSE row[k].owner

(* ownedProperty, assertOwnerOwnsRoom: a row of another owner is as absent *)
(* as a deleted one.                                                       *)
Owned(o, k) == Exists(k) /\ OwnerOf(k) = o /\ ~row[k].deleted

-----------------------------------------------------------------------------
(* The operations: the fields each of them sets.                           *)
UpdateProperty == [{"details"} -> Details]
SetPropertyStatus == [{"status"} -> OwnerPropertyStatus]
DeleteProperty == [{"deleted"} -> {TRUE}]
UpdateRoom == [{"code"} -> Codes]
SetRoomStatus == [{"status"} -> OwnerRoomStatus]
DeleteRoom == [{"deleted"} -> {TRUE}]
Publish == [{"published"} -> {TRUE}]

Writes ==
  [op : {"write"}, by : Owners, key : Properties,
   set : UpdateProperty \union SetPropertyStatus \union DeleteProperty]
  \union
  [op : {"write"}, by : Owners, key : Rooms,
   set : UpdateRoom \union SetRoomStatus \union DeleteRoom]
  \union
  [op : {"write"}, by : Owners, key : Assets, set : Publish]

CreateRoom == [op : {"create"}, by : Owners, key : Rooms, under : Properties, code : Codes]
BeginUpload == [op : {"create"}, by : Owners, key : Assets, under : Properties \union Rooms]
AssertRoomBookable == [op : {"book"}, key : Rooms]

Requests == Writes \union CreateRoom \union BeginUpload \union AssertRoomBookable

ASSUME NoneAssumption ==
  None \notin PropertyRow \union RoomRow \union AssetRow \union Requests

-----------------------------------------------------------------------------
Init ==
  /\ row = [k \in Keys |-> None]
  /\ contract = [m \in Rooms |-> "none"]
  /\ pc = [r \in Reqs |-> "idle"]
  /\ req = [r \in Reqs |-> None]
  /\ snap = [r \in Reqs |-> None]
  /\ moved = [r \in Reqs |-> {}]
  /\ ops = 0

(* Row k becomes new: what the others that have read it do not know of it. *)
Missed(k, new) ==
  [s \in Reqs |-> IF snap[s] # None /\ req[s].key = k
                   THEN moved[s] \union {f \in DOMAIN new : new[f] # row[k][f]}
                   ELSE moved[s]]

Store(k, new) ==
  /\ row' = [row EXCEPT ![k] = new]
  /\ moved' = Missed(k, new)

Go(r, step) == pc' = [pc EXCEPT ![r] = step] /\ UNCHANGED <<req, snap, ops>>

End(r) ==
  /\ pc' = [pc EXCEPT ![r] = "idle"]
  /\ req' = [req EXCEPT ![r] = None]
  /\ snap' = [snap EXCEPT ![r] = None]
  /\ UNCHANGED ops

Begin(r, q, step) ==
  /\ pc[r] = "idle"
  /\ ops < MaxOps
  /\ ops' = ops + 1
  /\ req' = [req EXCEPT ![r] = q]
  /\ pc' = [pc EXCEPT ![r] = step]
  /\ UNCHANGED <<row, contract, moved>>

(* The first statement of an operation on a row reads the row that will be *)
(* written back.  The owner of a property is checked on it, that of a room *)
(* or an asset with a statement of its own.                                *)
Read(r, q) ==
  /\ Exists(q.key)
  /\ q.key \in Properties => Owned(q.by, q.key)
  /\ q.key \in Assets => row[q.key].uploadedBy = q.by /\ row[q.key].status # "deleted"
  /\ snap' = [snap EXCEPT ![r] = row[q.key]]
  /\ Begin(r, q, IF q.key \in Properties THEN "save"
                 ELSE IF q.op = "book" THEN "property" ELSE "owner")

(* Mutation: what a room or an asset is created under is not looked up.    *)
CreateAnywhere(r, q) ==
  /\ ~Exists(q.key) /\ \A s \in Reqs : req[s] # None => req[s].key # q.key
  /\ Begin(r, q, "save")
  /\ UNCHANGED snap

(* The first statement of a creation; ids are random.                      *)
CheckParent(r, q) ==
  /\ ~Exists(q.key) /\ \A s \in Reqs : req[s] # None => req[s].key # q.key
  /\ Owned(q.by, q.under)
  /\ Begin(r, q, "save")
  /\ UNCHANGED snap

(* A refusal, a failed statement or the end of the process.                *)
Leave(r) ==
  /\ pc[r] # "idle"
  /\ End(r)
  /\ moved' = [moved EXCEPT ![r] = {}]
  /\ UNCHANGED <<row, contract>>

WantsAvailable(r) == "status" \in DOMAIN req[r].set /\ req[r].set.status = "available"

(* assertOwnerOwnsRoom or the authorizer of an asset; the asset must be    *)
(* ready, as it was when it was read.                                      *)
CheckOwner(r) ==
  /\ pc[r] = "owner"
  /\ Owned(req[r].by, IF req[r].key \in Assets THEN snap[r].subject ELSE req[r].key)
  /\ req[r].key \in Assets => snap[r].status = "ready"
  /\ Go(r, IF WantsAvailable(r) THEN "contract" ELSE "save")
  /\ UNCHANGED <<row, contract, moved>>

(* hasActiveContract.                                                      *)
CheckContract(r) ==
  /\ pc[r] = "contract"
  /\ contract[req[r].key] = "none"
  /\ Go(r, "save")
  /\ UNCHANGED <<row, contract, moved>>

(* uq_rooms_property_code; deleted rooms keep their code.                  *)
CodeTaken(k, new) ==
  k \in Rooms /\ \E m \in Rooms \ {k} :
    Exists(m) /\ row[m].property = new.property /\ row[m].code = new.code

(* Mutation: an edit also puts a room on offer.                            *)
WrittenOnOffer(r) ==
  [f \in DOMAIN snap[r] |->
     IF f \in DOMAIN req[r].set THEN req[r].set[f]
     ELSE IF f = "status" /\ req[r].key \in Rooms THEN "available" ELSE snap[r][f]]

(* {...row, ...input}                                                      *)
Written(r) ==
  [f \in DOMAIN snap[r] |-> IF f \in DOMAIN req[r].set THEN req[r].set[f] ELSE snap[r][f]]

(* saveProperty, saveRoom, save.                                           *)
Save(r) ==
  /\ pc[r] = "save"
  /\ req[r].op = "write"
  /\ ~CodeTaken(req[r].key, Written(r))
  /\ row' = [row EXCEPT ![req[r].key] = Written(r)]
  /\ moved' = [Missed(req[r].key, Written(r)) EXCEPT ![r] = {}]
  /\ End(r)
  /\ UNCHANGED contract

CreateProperty(k) ==
  /\ ~Exists(k)
  /\ \E o \in Owners, d \in Details :
       Store(k, [owner |-> o, details |-> d, status |-> "draft", deleted |-> FALSE])
  /\ UNCHANGED <<contract, reqVars>>

NewRow(r) ==
  IF req[r].key \in Rooms
    THEN [property |-> req[r].under, code |-> req[r].code, status |-> "available",
          deleted |-> FALSE]
    ELSE [uploadedBy |-> req[r].by, subject |-> req[r].under, status |-> "pending",
          published |-> FALSE]

(* createRoom of the repository, create of the assets: the INSERT.         *)
Insert(r) ==
  /\ pc[r] = "save"
  /\ req[r].op = "create"
  /\ ~CodeTaken(req[r].key, NewRow(r))
  /\ row' = [row EXCEPT ![req[r].key] = NewRow(r)]
  /\ End(r)
  /\ UNCHANGED <<contract, moved>>

(* Mutation: a deleted property is not noticed.                            *)
AcceptUnderDeleted(r) ==
  /\ pc[r] = "property"
  /\ ~snap[r].deleted /\ snap[r].status = "available"
  /\ row[snap[r].property].status = "active"
  /\ End(r)
  /\ moved' = [moved EXCEPT ![r] = {}]
  /\ UNCHANGED <<row, contract>>

(* assertRoomBookable: the property is read after the room.                *)
Accept(r) ==
  /\ pc[r] = "property"
  /\ ~snap[r].deleted /\ snap[r].status = "available"
  /\ ~row[snap[r].property].deleted /\ row[snap[r].property].status = "active"
  /\ End(r)
  /\ moved' = [moved EXCEPT ![r] = {}]
  /\ UNCHANGED <<row, contract>>

-----------------------------------------------------------------------------
(* The environment.  Contracts from before the lifecycle constraint may    *)
(* lack a signature or an end.                                             *)
ActivateContract(m) ==
  /\ Exists(m) /\ contract[m] = "none"
  /\ \E c \in {"complete", "incomplete"} : contract' = [contract EXCEPT ![m] = c]
  /\ UNCHANGED <<row, reqVars, moved>>

EndContract(m) ==
  /\ contract[m] # "none"
  /\ contract' = [contract EXCEPT ![m] = "none"]
  /\ UNCHANGED <<row, reqVars, moved>>

(* markRoomOccupiedFromContract, markRoomAvailableFromContract             *)
MarkRoom(m) ==
  /\ Exists(m)
  /\ Store(m, [row[m] EXCEPT !.status = IF contract[m] = "none" THEN "available"
                                        ELSE "occupied"])
  /\ UNCHANGED <<contract, reqVars>>

Suspend(p) ==
  /\ Exists(p)
  /\ Store(p, [row[p] EXCEPT !.status = "suspended"])
  /\ UNCHANGED <<contract, reqVars>>

Scan(a) ==
  /\ Exists(a)
  /\ \E s \in {"ready", "quarantined", "deleted"} : Store(a, [row[a] EXCEPT !.status = s])
  /\ UNCHANGED <<contract, reqVars>>

Next ==
  \/ \E r \in Reqs :
       \/ \E q \in Writes \union AssertRoomBookable : Read(r, q)
       \/ \E q \in CreateRoom \union BeginUpload : CheckParent(r, q)
       \/ Leave(r) \/ CheckOwner(r) \/ CheckContract(r)
       \/ Save(r) \/ Insert(r) \/ Accept(r)
  \/ \E p \in Properties : CreateProperty(p) \/ Suspend(p)
  \/ \E m \in Rooms : ActivateContract(m) \/ EndContract(m) \/ MarkRoom(m)
  \/ \E a \in Assets : Scan(a)

Spec == Init /\ [][Next]_vars

-----------------------------------------------------------------------------
(* What other components read.                                             *)

(* listPublicRooms: one statement over both tables.                        *)
ListPublicRooms ==
  {m \in Rooms : /\ Exists(m) /\ ~row[m].deleted /\ row[m].status = "available"
                 /\ LET p == row[row[m].property] IN p.status = "active" /\ ~p.deleted}

(* Mutation: only what is deleted is left out of a batch.                  *)
ViewingUndeleted(batch) ==
  {m \in batch : ~row[row[m].property].deleted /\ ~row[m].deleted /\ row[m].status = "available"}

(* getViewingRoomsSnapshot: the rooms of a batch that are bookable.        *)
ViewingRooms(batch) ==
  {m \in batch : LET p == row[row[m].property] IN
     /\ ~p.deleted /\ ~row[m].deleted /\ p.status = "active" /\ row[m].status = "available"}

(* MIXED_ROOM_BATCH and ROOM_NOT_FOUND.                                    *)
Batches ==
  {batch \in SUBSET Rooms : /\ batch # {} /\ \A m \in batch : Exists(m)
                            /\ \A m, n \in batch : row[m].property = row[n].property}

(* Rooms for which getRoomBookableSnapshot and getRoomBillingSnapshot      *)
(* return something.                                                       *)
BillingSnapshots == {m \in Rooms : Exists(m) /\ ~row[m].deleted}

(* getRoomContractSnapshot                                                 *)
ContractSnapshots == {m \in BillingSnapshots : ~row[row[m].property].deleted}

(* Mutation: the joins leave out what is deleted.                          *)
DisplayableUndeleted(m) ==
  Exists(m) /\ ~row[m].deleted /\ row[row[m].property].details # Blank

(* hasDisplayableRental: both joins found a row, and the address has text. *)
Displayable(m) ==
  Exists(m) /\ Exists(row[m].property) /\ row[row[m].property].details # Blank

(* listActiveRenterContracts: active, signed by both, with an end.         *)
CompleteContracts == {m \in Rooms : contract[m] = "complete"}

(* listActiveRentalsForRenter: its answers.  One rental that cannot be     *)
(* shown makes the profile unavailable: there is none.                     *)
ActiveRentals ==
  {rentals \in {CompleteContracts} : \A m \in rentals : Displayable(m)}

-----------------------------------------------------------------------------
TypeOK ==
  /\ row \in [Keys -> PropertyRow \union RoomRow \union AssetRow \union {None}]
  /\ \A p \in Properties : Exists(p) => row[p] \in PropertyRow
  /\ \A m \in Rooms : Exists(m) => row[m] \in RoomRow /\ Exists(row[m].property)
  /\ \A a \in Assets : Exists(a) => row[a] \in AssetRow /\ Exists(row[a].subject)
  /\ contract \in [Rooms -> {"none", "complete", "incomplete"}]
  /\ pc \in [Reqs -> {"idle", "owner", "contract", "property", "save"}]
  /\ req \in [Reqs -> Requests \union {None}]
  /\ \A r \in Reqs : pc[r] = "idle" <=> req[r] = None
  /\ snap \in [Reqs -> PropertyRow \union RoomRow \union AssetRow \union {None}]
  /\ ops \in 0 .. MaxOps

(* A request that writes a whole row back changes a field it was not asked *)
(* to change only when another changed that field after the row was read:  *)
(* only then is a deletion undone, a suspension or an occupation lifted, a *)
(* quarantined asset made ready.                                           *)
LostUpdatesOverlap ==
  [][\A r \in Reqs : Save(r) =>
       LET k == req[r].key IN
       \A f \in DOMAIN row[k] \ DOMAIN req[r].set : row'[k][f] # row[k][f] => f \in moved[r]]_vars

(* The rule of what is bookable is written three times: a room accepted by *)
(* assertRoomBookable, in two statements, is listed to the public at that  *)
(* moment, unless the room changed in between.                             *)
AcceptedIsPublic ==
  [][\A r \in Reqs : Accept(r) /\ moved[r] = {} => req[r].key \in ListPublicRooms]_vars

(* The batch of the viewing component agrees with the public list, and a   *)
(* bookable room has the snapshots from which contract and bills are made. *)
BookableAgrees ==
  /\ \A batch \in Batches : ViewingRooms(batch) = ListPublicRooms \intersect batch
  /\ ListPublicRooms \subseteq ContractSnapshots

(* A renter's profile shows every complete contract, also after the room   *)
(* or the property was deleted; only a blank address hides them.           *)
RentalsSurviveDeletion ==
  ActiveRentals = {} =>
    \E m \in CompleteContracts : row[row[m].property].details = Blank

(* docs/property-room-api.md: "An active contract rejects transition to    *)
(* `available`".                                                           *)
ActiveContractRejectsAvailable ==
  [][\A r \in Reqs :
       Save(r) /\ req[r].key \in Rooms /\ WantsAvailable(r) /\ row[req[r].key].status # "available"
         => contract[req[r].key] = "none"]_vars
=============================================================================
