-------------------------- MODULE MCAccountDeletion --------------------------
(* AccountDeletion on a small instance.                                     *)
EXTENDS AccountDeletion, TLC

Symmetry == Permutations(Proc) \cup Permutations(Server)
=============================================================================
