----------------------------- MODULE MCHandles -----------------------------
(* Instances of Handles for TLC. *)
EXTENDS Handles, TLC

CONSTANTS t1, t2, s1, s2

Symmetric == Permutations(Thread) \cup Permutations(Scope)
=============================================================================
