---------------------------- MODULE MCRoomMembers ----------------------------
(* RoomMembers with its instances: the creator o and the users u and v.    *)
EXTENDS RoomMembers
CONSTANTS o, u, v
AllOps == {"join", "apply", "accept", "reject", "config", "role",
           "transfer", "dissolve", "kick", "leave"}
=============================================================================
