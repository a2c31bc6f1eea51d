----------------------------- MODULE MCPresence -----------------------------
(* An instance of Presence for TLC. *)
EXTENDS Presence

CONSTANTS a, b, here, there, null
=============================================================================
