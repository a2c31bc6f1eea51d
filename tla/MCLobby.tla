------------------------------- MODULE MCLobby ------------------------------
(* An instance of Lobby for TLC. *)
EXTENDS Lobby

CONSTANTS a, b, board, other, odd, key, null
=============================================================================
