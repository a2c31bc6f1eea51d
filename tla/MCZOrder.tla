------------------------------ MODULE MCZOrder ------------------------------
(* Instances of ZOrder for TLC. *)
EXTENDS ZOrder
=============================================================================
