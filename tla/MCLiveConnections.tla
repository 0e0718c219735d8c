------------------------ MODULE MCLiveConnections ------------------------
(* Instances of LiveConnections for TLC. *)
EXTENDS LiveConnections, TLC

CONSTANTS c1, c2, n1, u1, s1, s2

OneNode == [c \in Conns |-> n1]
OneUser == [s \in Sids |-> u1]
Perms == Permutations(Conns)

==========================================================================
