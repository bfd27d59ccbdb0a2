------------------------------ MODULE MCFusion ------------------------------
(* A fusion reader with small channels. *)
EXTENDS Fusion
=============================================================================
