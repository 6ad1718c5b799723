--------------------------- MODULE MCRefreshTokens ---------------------------
(* RefreshTokens on a small instance.                                       *)
EXTENDS RefreshTokens, TLC

Symmetry == Permutations(Proc) \cup Permutations(Device) \cup Permutations(Tid)
                \cup Permutations(Account)
=============================================================================
