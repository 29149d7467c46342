------------------------------ MODULE MCService ------------------------------
(***************************************************************************)
(* Two pools and one application, for the model checker.                   *)
(***************************************************************************)
EXTENDS WebAdminService, TLC

CONSTANTS p1, p2, a1
=============================================================================
