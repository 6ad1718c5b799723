---------------------------- MODULE MCAppScreens ----------------------------
(***************************************************************************)
(* AppScreens for TLC.                                                     *)
(***************************************************************************)
EXTENDS AppScreens
=============================================================================
