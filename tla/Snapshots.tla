----------------------------- MODULE Snapshots -----------------------------
(***************************************************************************)
(* Snapshots (crates/kboard-core/src/snapshot.rs): readers fold the same   *)
(* log, each in its own order, in batches of its own and with repetitions, *)
(* and merge each other's snapshots.  `read` is a history variable: the    *)
(* operations in the order a reader folded them, which a snapshot does not *)
(* keep; the documents are checked against folding it one by one.          *)
(***************************************************************************)
EXTENDS Document

CONSTANTS Reader,
          Log,         \* the operations of one board
          MaxBatch,    \* bound: operations in one batch
          MaxRead      \* bound: operations one reader has folded

ASSUME LogAssumption == DistinctStamps(Log) /\ \A op \in Log : op.stamp \in Stamp
ASSUME ReadAssumption == MaxBatch \in Nat /\ MaxRead \in Nat

VARIABLES snapshot, read

svars == <<snapshot, read>>

(* Option<Hlc> is a set of at most one stamp. *)
EmptySnapshot == [document |-> EmptyDocument, through |-> {}, absorbed |-> 0]

(* Slip: only the batch just absorbed counts. *)
LatestThrough(stamps, others) == IF others = {} THEN stamps ELSE {Highest(others)}

(* The higher of what is there, if anything is. *)
HighestThrough(stamps, others) ==
  IF stamps \cup others = {} THEN {} ELSE {Highest(stamps \cup others)}

(* Snapshot::absorb *)
Absorb(s, ops) ==
  [document |-> ApplyAll(s.document, ops),
   through  |-> HighestThrough(s.through, {ops[i].stamp : i \in DOMAIN ops}),
   absorbed |-> s.absorbed + Len(ops)]

(* Snapshot::merge within one scope; the count of absorbed operations stays. *)
MergeSnapshot(s, other) ==
  [document |-> Merge(s.document, other.document),
   through  |-> HighestThrough(s.through, other.through),
   absorbed |-> s.absorbed]

(* Snapshot::covers *)
Covers(s, op) == \E through \in s.through : AtMost(op.stamp, through)

SnapshotInit == /\ snapshot = [r \in Reader |-> EmptySnapshot]
                /\ read = [r \in Reader |-> <<>>]

ReadBatch(r) ==
  \E n \in 1..MaxBatch : \E ops \in [1..n -> Log] :
    /\ Len(read[r]) + n <= MaxRead
    /\ snapshot' = [snapshot EXCEPT ![r] = Absorb(@, ops)]
    /\ read' = [read EXCEPT ![r] = @ \o ops]

MergeFrom(r, q) ==
  /\ Len(read[r]) + Len(read[q]) <= MaxRead
  /\ snapshot' = [snapshot EXCEPT ![r] = MergeSnapshot(@, snapshot[q])]
  /\ read' = [read EXCEPT ![r] = @ \o read[q]]

SnapshotNext == \E r \in Reader : \/ ReadBatch(r)
                                  \/ \E q \in Reader \ {r} : MergeFrom(r, q)

SnapshotSpec == SnapshotInit /\ [][SnapshotNext]_svars

-----------------------------------------------------------------------------
OpsRead(r) == {read[r][i] : i \in DOMAIN read[r]}

(* The loop of op::apply_all over everything a reader folded. *)
Replayed(ops) ==
  LET upTo[n \in 0..Len(ops)] == IF n = 0 THEN EmptyDocument ELSE Apply(upTo[n - 1], ops[n])
  IN  upTo[Len(ops)]

(* However it was cut into batches, snapshots and merges, a document is the *)
(* one its operations replayed one by one give ("snapshot_plus_tail_equals_ *)
(* the_whole_log"), in whichever order another reader met them              *)
(* ("Order-independent", snapshot.rs:42).                                   *)
SnapshotIsReplay ==
  \A r, q \in Reader : OpsRead(r) = OpsRead(q) =>
    /\ snapshot[r].document = Replayed(read[q])
    /\ snapshot[r].through = snapshot[q].through

(* Everything folded in is covered, the stale included. *)
AbsorbedIsCovered == \A r \in Reader : \A op \in OpsRead(r) : Covers(snapshot[r], op)
=============================================================================
