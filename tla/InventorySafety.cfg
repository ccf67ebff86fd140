\* One property, two rooms and one asset; four operations of their owner and
\* of renters, two at a time.
SPECIFICATION Spec
CONSTANTS
  Owners = {o1}
  Properties = {p1}
  Rooms = {m1, m2}
  Assets = {a1}
  Codes = {"A", "B"}
  Details = {"text", "blank"}
  Blank = "blank"
  OwnerPropertyStatus = {"active"}
  OwnerRoomStatus = {"available", "maintenance"}
  Reqs = {r1, r2}
  MaxOps = 4
  None = None
SYMMETRY Symmetric
INVARIANTS
  TypeOK
  
  RentalsSurviveDeletion
PROPERTIES
  LostUpdatesOverlap
  AcceptedIsPublic
