------------------------- MODULE MCPropertyInventory -------------------------
(* A small instance of PropertyInventory for TLC.                          *)
EXTENDS PropertyInventory, TLC

(* Requests are interchangeable, and so are the ids of rooms.              *)
Symmetric == Permutations(Reqs) \union Permutations(Rooms)
=============================================================================
