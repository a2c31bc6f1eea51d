------------------------------- MODULE Store -------------------------------
(***************************************************************************)
(* The durable store of one scope, crates/kboard-store/src/lib.rs: rows of *)
(* the operations table by sequence number, and at most one snapshot row.  *)
(* A document is represented by the set of operations folded into it,      *)
(* which is all a document is (module Replicas).                           *)
(***************************************************************************)
EXTENDS Integers, Sequences

(* The snapshot row when there is none. *)
NoSnapshot == [through |-> 0, ops |-> {}]

EmptyStore == [rows |-> [seq \in {} |-> seq], snapshot |-> NoSnapshot]

(* SELECT COALESCE(MAX(seq), 0): the rows there are, not the rows there     *)
(* have been.                                                               *)
LastSeq(store) ==
  IF DOMAIN store.rows = {} THEN 0
  ELSE CHOOSE seq \in DOMAIN store.rows : \A other \in DOMAIN store.rows : other <= seq

(* The tables with other rows. *)
WithRows(store, rows) == [rows |-> rows, snapshot |-> store.snapshot]

(* Slips of append: rows numbered from the last row on, or always from 1. *)
AppendFromLast(store, ops) ==
  LET last == LastSeq(store)
  IN  WithRows(store, [seq \in DOMAIN store.rows \cup last..(last + Len(ops) - 1) |->
                         IF seq < last THEN store.rows[seq] ELSE ops[seq - last + 1]])
AppendFromOne(store, ops) ==
  WithRows(store, [seq \in DOMAIN store.rows \cup 1..Len(ops) |->
                     IF seq \in 1..Len(ops) THEN ops[seq] ELSE store.rows[seq]])

(* OpLog::append: the batch in one transaction, numbered on from the last   *)
(* row; the caller is told the last number given.                           *)
AppendRows(store, ops) ==
  LET last == LastSeq(store)
  IN  WithRows(store, [seq \in DOMAIN store.rows \cup (last + 1)..(last + Len(ops)) |->
                         IF seq <= last THEN store.rows[seq] ELSE ops[seq - last]])

(* Slip: the snapshot is filed as covering the next row too. *)
StoreSnapshotAhead(store, ops) ==
  [rows |-> store.rows, snapshot |-> [through |-> LastSeq(store) + 1, ops |-> ops]]

(* SnapshotStore::store: the caller's document, filed as covering every row *)
(* there is.                                                                *)
StoreSnapshot(store, ops) ==
  [rows |-> store.rows, snapshot |-> [through |-> LastSeq(store), ops |-> ops]]

(* Slip: the row the host has seen last comes again. *)
ReadFrom(store, after) == {store.rows[seq] : seq \in {s \in DOMAIN store.rows : s >= after}}

(* OpLog::read_since *)
ReadSince(store, after) == {store.rows[seq] : seq \in {s \in DOMAIN store.rows : s > after}}

(* Slip: the tail is read only when there is no snapshot. *)
RestoreSnapshotOnly(store) ==
  IF store.snapshot.through = 0 THEN ReadSince(store, 0) ELSE store.snapshot.ops

(* SqliteStore::restore: the snapshot, then every row after it. *)
Restore(store) == store.snapshot.ops \cup ReadSince(store, store.snapshot.through)

(* The rows numbered above seq. *)
RowsAfter(store, seq) == WithRows(store, [s \in {n \in DOMAIN store.rows : n > seq} |-> store.rows[s]])

(* SqliteStore::truncate_absorbed *)
TruncateAbsorbed(store) == RowsAfter(store, store.snapshot.through)
=============================================================================
