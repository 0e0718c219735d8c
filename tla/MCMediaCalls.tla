---------------------------- MODULE MCMediaCalls ----------------------------
(* MediaCalls with its instances for TLC. Nothing tells users, calls,      *)
(* connections or slots apart, so that their permutations are symmetries.  *)
EXTENDS MediaCalls, TLC
Symmetry == Permutations(Uids) \cup Permutations(Calls)
              \cup Permutations(Conns) \cup Permutations(Slots)
=============================================================================
