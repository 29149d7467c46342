-------------------------------- MODULE MCWas --------------------------------
(***************************************************************************)
(* Was instantiated for TLC.  Worker process objects are interchangeable   *)
(* memory, so runs without temporal properties may use Symmetry.           *)
(***************************************************************************)
EXTENDS Was, TLC

Symmetry == Permutations(WP)
=============================================================================
