---------------------------- MODULE MCRoomMutes ----------------------------
(* RoomMutes with its instances for TLC: an owner and a member.             *)
EXTENDS RoomMutes, TLC
CONSTANTS o, b
Roles == o :> "owner" @@ b :> "normal"
\* b may speak, MaxMessages at most; from time 1 to time 1 only owners may speak
Limit == [NoStrategy EXCEPT !.rule = {"frequency"}, !.except = {b}]
Range == [NoStrategy EXCEPT !.rule = {"range"}, !.allow = {"owner"},
                            !.from = 1, !.to = 1, !.end = 1]
All == {Limit, Range}
Symmetry == Permutations(Slots)
=============================================================================
