--------------------------- MODULE MCRoomDelivery ---------------------------
(* Instances of RoomDelivery for TLC: s sends, u1 receives. *)
EXTENDS RoomDelivery, TLC

CONSTANTS s, u1, n1, n2, m1, m2

AllByS == [m \in Mids |-> s]
InOrder == [m \in Mids |-> IF m = m1 THEN 1 ELSE 2]
=============================================================================
