---------------------------- MODULE MemoryPorts -----------------------------
(***************************************************************************)
(* The reference the store is measured by: the in-memory OpLog and         *)
(* SnapshotStore of crates/kboard-core/src/ports.rs, for one scope.  A log *)
(* is a vector, sequence numbers are its lengths; a snapshot is the set of *)
(* operations folded into it.                                              *)
(***************************************************************************)
EXTENDS Integers, Sequences

CONSTANTS Operation,
          MaxBatch     \* bound: operations in one batch

VARIABLES log,         \* MemoryOpLog.scopes, of the scope
          stored       \* MemorySnapshots.stored, of the scope

mVars == <<log, stored>>

MInit == log = <<>> /\ stored = {}

(* append returns the length the log has then. *)
MAppend == \E n \in 1..MaxBatch : \E ops \in [1..n -> Operation] :
             log' = log \o ops /\ UNCHANGED stored

(* store replaces what was stored. *)
MStore == stored' \subseteq Operation /\ UNCHANGED log

(* read_since: nothing beyond the end. *)
TailAfter(after) == SubSeq(log, (IF after <= Len(log) THEN after ELSE Len(log)) + 1, Len(log))

MNext == MAppend \/ MStore
MSpec == MInit /\ [][MNext]_mVars
=============================================================================
