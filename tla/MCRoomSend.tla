----------------------------- MODULE MCRoomSend -----------------------------
(* Instances of RoomSend for TLC: a1 and a2 carry the same client_mid. *)
EXTENDS RoomSend, TLC

CONSTANTS a1, a2, b1, A, B, w1, w2

CmidOf == [r \in Reqs |-> IF r = b1 THEN B ELSE A]
=============================================================================
