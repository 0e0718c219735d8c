------------------------------ MODULE MCTokens ------------------------------
(* Tokens with its instances for TLC; requests are symmetric.              *)
EXTENDS Tokens, TLC
Symmetry == Permutations(Slots)
=============================================================================
