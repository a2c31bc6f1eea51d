------------------------------ MODULE StoreLog ------------------------------
(***************************************************************************)
(* The host's use of the store for one board: a batch is absorbed by the   *)
(* document in memory and appended (OpLog::append), the document is        *)
(* written back as a snapshot, absorbed rows are truncated, the process    *)
(* stops and the board is restored (crates/kboard-store/src/lib.rs;        *)
(* Room::accept and with_room in crates/kboard-server/src).  Appends come  *)
(* before the snapshot that covers them, the order store() asks for.       *)
(***************************************************************************)
EXTENDS Store, FiniteSets

CONSTANTS Op,          \* operations a board may accept
          MaxBatch     \* bound: operations in one batch

ASSUME MaxBatchAssumption == MaxBatch \in Nat \ {0}

VARIABLES store,       \* the database rows of the scope
          open,        \* whether a board is in memory
          room,        \* the operations folded into it
          returned,    \* history: the last value append returned
          recorded,    \* history: every operation whose append succeeded
          truncated    \* history: whether the log was ever truncated

vars == <<store, open, room, returned, recorded, truncated>>

Init == /\ store = EmptyStore
        /\ open = TRUE
        /\ room = {}
        /\ returned = 0
        /\ recorded = {}
        /\ truncated = FALSE

Batches == UNION {[1..n -> Op \ recorded] : n \in 1..MaxBatch}
OpsOf(batch) == {batch[i] : i \in DOMAIN batch}

(* One accepted batch: absorbed, then appended. *)
Accept ==
  \E batch \in Batches :
    /\ open
    /\ \A i, j \in DOMAIN batch : batch[i] = batch[j] => i = j
    /\ room'     = room \cup OpsOf(batch)
    /\ store'    = AppendRows(store, batch)
    /\ returned' = LastSeq(store')
    /\ recorded' = recorded \cup OpsOf(batch)
    /\ UNCHANGED <<open, truncated>>

(* The document in memory is written back. *)
WriteBack == /\ open
             /\ store' = StoreSnapshot(store, room)
             /\ UNCHANGED <<open, room, returned, recorded, truncated>>

(* The host's retention policy, whenever it likes. *)
Truncate == /\ store' = TruncateAbsorbed(store)
            /\ truncated' = TRUE
            /\ UNCHANGED <<open, room, returned, recorded>>

(* The process stops, or the room is reclaimed. *)
Close == /\ open
         /\ open' = FALSE /\ room' = {}
         /\ UNCHANGED <<store, returned, recorded, truncated>>

Reopen == /\ ~open
          /\ open' = TRUE /\ room' = Restore(store)
          /\ UNCHANGED <<store, returned, recorded, truncated>>

Next == Accept \/ WriteBack \/ Truncate \/ Close \/ Reopen

Spec == Init /\ [][Next]_vars

-----------------------------------------------------------------------------
TypeOK == /\ DOMAIN store.rows \subseteq Nat \ {0}
          /\ ReadSince(store, 0) \subseteq Op
          /\ store.snapshot.through \in Nat /\ store.snapshot.ops \subseteq Op
          /\ open \in BOOLEAN
          /\ room \subseteq Op /\ recorded \subseteq Op
          /\ returned \in Nat

(* Whatever was appended can be read back: a restored board holds every     *)
(* operation the log acknowledged (ADR-0007, "Writes are durable").  Rows   *)
(* are numbered on from those that are left, so a log that was truncated    *)
(* numbers below its snapshot and this ends (README, section 3).            *)
NothingLost == ~truncated => Restore(store) = recorded

(* "Returns a monotonically increasing value per scope so read_since can    *)
(* page" (ports.rs): what is recorded after a value was returned is in the  *)
(* tail after that value, however often the host paged before.              *)
PagingSeesNew ==
  [][recorded' # recorded /\ ~truncated =>
       /\ returned' > returned
       /\ recorded' \ recorded \subseteq ReadSince(store', returned)]_vars

(* Truncation drops only what the snapshot holds: it changes no board.      *)
TruncationIsInvisible ==
  [][Truncate => Restore(store') = Restore(store)]_vars

(* The log and the snapshots implement the durable board step by step, as   *)
(* long as nothing was truncated: what reopens is exactly what was          *)
(* acknowledged, wherever the snapshot stood.                               *)
Durable == INSTANCE Durability WITH Operation <- Op, durable <- recorded, held <- room
StepsImplementDurability == [][~truncated => [Durable!DNext]_<<recorded, room>>]_vars

(* As long as nothing was truncated the tables are a MemoryOpLog and its    *)
(* snapshots: numbers are lengths, appends go to the end of the same log,   *)
(* and a snapshot replaces the one before it (ports.rs:178-220).            *)
Numbered == [seq \in 1..returned |-> store.rows[seq]]
Memory == INSTANCE MemoryPorts WITH Operation <- Op, log <- Numbered, stored <- store.snapshot.ops
StepsImplementPorts ==
  [][~truncated' => [Memory!MNext]_<<Numbered, store.snapshot.ops>>]_vars

(* A host that pages from any number it was ever given reads what it would  *)
(* read from the memory log.                                                *)
ReadsLikeMemory ==
  ~truncated => \A after \in 0..returned + 1 :
                  ReadSince(store, after) = OpsOf(Memory!TailAfter(after))
=============================================================================
