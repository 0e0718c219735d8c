---------------------------- MODULE MCFriendChats ----------------------------
(* FriendChats with its instances for TLC; users and slots are symmetric.  *)
EXTENDS FriendChats, TLC
Symmetry == Permutations(Uids) \cup Permutations(Slots)
=============================================================================
