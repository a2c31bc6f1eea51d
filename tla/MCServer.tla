------------------------------ MODULE MCServer ------------------------------
(* Instances of Server for TLC. *)
EXTENDS Server, TLC

CONSTANTS a, b, c

Tabs == Permutations(Tab)
=============================================================================
