\* A contract becomes active between the check and the write.
SPECIFICATION Spec
CONSTANTS
  Owners = {o1}
  Properties = {p1}
  Rooms = {m1, m2}
  Assets = {}
  Codes = {"A", "B"}
  Details = {"text", "blank"}
  Blank = "blank"
  OwnerPropertyStatus = {"active"}
  OwnerRoomStatus = {"available", "maintenance"}
  Reqs = {r1, r2}
  MaxOps = 4
  None = None
SYMMETRY Symmetric
PROPERTIES
  ActiveContractRejectsAvailable
