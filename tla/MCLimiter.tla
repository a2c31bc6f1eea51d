----------------------------- MODULE MCLimiter ------------------------------
(* An instance of Limiter for TLC. *)
EXTENDS Limiter
=============================================================================
