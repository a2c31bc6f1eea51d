----------------------------- MODULE MCStoreLog -----------------------------
(* Instances of StoreLog for TLC. *)
EXTENDS StoreLog, TLC
CONSTANTS o1, o2, o3, o4
=============================================================================
