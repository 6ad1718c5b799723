---------------------------- MODULE MCPhoneLogin ----------------------------
(* PhoneLogin on a small instance.                                          *)
EXTENDS PhoneLogin, TLC

Symmetry == Permutations(Proc)
=============================================================================
