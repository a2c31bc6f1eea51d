------------------------------ MODULE Replicas ------------------------------
(***************************************************************************)
(* Boards exchanging operations: crates/kboard-ffi/src/board.rs over       *)
(* crates/kboard-core.  A replica writes locally (Board::record behind     *)
(* every command, undo and redo), drains what it wrote into a frame        *)
(* (take_pending), merges a peer's frame (merge_ops) and merges a whole    *)
(* document, the join handshake (merge_document).  Frames and handshake    *)
(* documents arrive in any order, late, more than once or never.           *)
(*                                                                         *)
(* Which edits a command makes is left open (any of EditBatches); module   *)
(* History says which.  `seen` is a history variable: the operations       *)
(* folded into a replica's document, which the code does not keep.         *)
(***************************************************************************)
EXTENDS Document, FiniteSets

CONSTANTS Replica,       \* the actors, numbers as in ActorId
          Element, Key, Value,
          EditBatches,   \* what one local command may write
          Walls,         \* readings of the hosts' wall clocks, which may disagree
          MaxOps,        \* bound: operations one replica may issue
          Handshakes     \* pairs <<q, r>>: q may hand its whole document to r

Edit      == [element : Element, key : Key, value : Value]
Operation == [element : Element, key : Key, value : Value, stamp : Stamp]

ASSUME ReplicaAssumption == Replica \subseteq ActorId
ASSUME WallsAssumption   == Walls \subseteq Nat
ASSUME EditsAssumption   == EditBatches \subseteq Seq(Edit)

VARIABLES doc,       \* Board.document
          clock,     \* Board.clock.last
          pending,   \* Board.pending
          frames,    \* operation batches on their way: [to, ops]
          inits,     \* handshake documents on their way: [to, doc, seen]
          seen       \* history: what has been folded into doc

vars == <<doc, clock, pending, frames, inits, seen>>

OpsOf(batch) == {batch[i] : i \in DOMAIN batch}
Issued(r)    == {op \in seen[r] : op.stamp.actor = r}
Known        == UNION {seen[r] : r \in Replica}

Init == /\ doc     = [r \in Replica |-> EmptyDocument]
        /\ clock   = [r \in Replica |-> Zero(r)]
        /\ pending = [r \in Replica |-> <<>>]
        /\ frames  = {}
        /\ inits   = {}
        /\ seen    = [r \in Replica |-> {}]

(* The counter saturates after 2^32 events inside one millisecond of one    *)
(* board; a write that would get there is not taken.                        *)
CounterRoom(r, now, n) ==
  (IF now > clock[r].wall THEN n - 1 ELSE clock[r].counter + n) <= MaxCounter

(* Board::record, of operations stamped by op::upsert, op::clear or         *)
(* Board::stamp.                                                            *)
Write(r, edits, now) ==
  LET ops == Upsert(edits, clock[r], now)
  IN  /\ CounterRoom(r, now, Len(edits))
      /\ clock'   = [clock EXCEPT ![r] = TickTimes(@, now, Len(edits))]
      /\ doc'     = [doc EXCEPT ![r] = ApplyAll(@, ops)]
      /\ pending' = [pending EXCEPT ![r] = @ \o ops]
      /\ seen'    = [seen EXCEPT ![r] = @ \cup OpsOf(ops)]
      /\ UNCHANGED <<frames, inits>>

LocalWrite(r) ==
  \E edits \in EditBatches, now \in Walls :
    /\ Cardinality(Issued(r)) + Len(edits) <= MaxOps
    /\ Write(r, edits, now)

(* Board::take_pending; the host sends the batch to every peer. *)
Flush(r) ==
  /\ pending[r] # <<>>
  /\ frames'  = frames \cup {[to |-> q, ops |-> pending[r]] : q \in Replica \ {r}}
  /\ pending' = [pending EXCEPT ![r] = <<>>]
  /\ UNCHANGED <<doc, clock, inits, seen>>

(* Board::merge_ops. *)
MergeOps(r, ops) ==
  LET highest == Highest({ops[i].stamp : i \in DOMAIN ops})
  IN  /\ clock' = [clock EXCEPT ![r] = Observe(@, highest, highest.wall)]
      /\ doc'   = [doc EXCEPT ![r] = ApplyAll(@, ops)]
      /\ seen'  = [seen EXCEPT ![r] = @ \cup OpsOf(ops)]

Deliver(r) ==
  \E f \in frames : /\ f.to = r
                    /\ MergeOps(r, f.ops)
                    /\ frames' = frames \ {f}
                    /\ UNCHANGED <<pending, inits>>

(* The same frame again: a retry, or a log replayed over a merged document. *)
DeliverCopy(r) ==
  \E f \in frames : /\ f.to = r
                    /\ MergeOps(r, f.ops)
                    /\ UNCHANGED <<pending, frames, inits>>

(* A peer hands its whole document to r. *)
SendDocument(q, r) ==
  /\ <<q, r>> \in Handshakes
  /\ \A init \in inits : init.to # r
  /\ inits' = inits \cup {[to |-> r, doc |-> doc[q], seen |-> seen[q]]}
  /\ UNCHANGED <<doc, clock, pending, frames, seen>>

(* Board::merge_document: an empty document carries no stamp to observe. *)
LoadDocument(r) ==
  \E init \in inits :
    /\ init.to = r
    /\ clock' = IF init.doc = EmptyDocument THEN clock
                ELSE LET highest == MaxStamp(init.doc)
                     IN  [clock EXCEPT ![r] = Observe(@, highest, highest.wall)]
    /\ doc'   = [doc EXCEPT ![r] = Merge(@, init.doc)]
    /\ seen'  = [seen EXCEPT ![r] = @ \cup init.seen]
    /\ inits' = inits \ {init}
    /\ UNCHANGED <<pending, frames>>

Next == \E r \in Replica : \/ LocalWrite(r)
                           \/ Flush(r)
                           \/ Deliver(r)
                           \/ DeliverCopy(r)
                           \/ \E q \in Replica : SendDocument(q, r)
                           \/ LoadDocument(r)

Spec == Init /\ [][Next]_vars

-----------------------------------------------------------------------------
IsDocument(d) ==
  /\ IsFiniteSet(DOMAIN d)
  /\ d = [slot \in DOMAIN d |-> d[slot]]
  /\ DOMAIN d \subseteq Element \X Key
  /\ \A slot \in DOMAIN d : d[slot] \in [value : Value, stamp : Stamp]

IsBatch(ops) == ops \in Seq(Operation) /\ ops # <<>>

(* The type invariant: documents are maps to stamped registers, batches are *)
(* sequences of operations, and a generator keeps its own actor.            *)
TypeOK ==
  /\ DOMAIN doc = Replica /\ \A r \in Replica : IsDocument(doc[r])
  /\ clock \in [Replica -> Stamp] /\ \A r \in Replica : clock[r].actor = r
  /\ pending \in [Replica -> Seq(Operation)]
  /\ \A f \in frames : f.to \in Replica /\ IsBatch(f.ops)
  /\ \A i \in inits : i.to \in Replica /\ IsDocument(i.doc) /\ i.seen \subseteq Operation
  /\ seen \in [Replica -> SUBSET Operation]

(* A document is what its operations say, whatever order, duplication or    *)
(* detour through a handshake brought them (op.rs: "Order does not affect   *)
(* the result"; ADR-0001).                                                  *)
DocumentReflectsOps == \A r \in Replica : Reflects(doc[r], seen[r])

(* Strong convergence: replicas that have folded in the same operations     *)
(* show the same document (tests/convergence.rs, every ordering).           *)
Convergence ==
  \A q, r \in Replica : seen[q] = seen[r] => doc[q] = doc[r]

(* No two operations anywhere carry one stamp: "concurrent edits never tie" *)
(* (clock.rs).                                                              *)
NoTies == DistinctStamps(Known)

(* A board's clock is never behind what its document holds, so whatever it  *)
(* writes next wins locally (clock.rs: "a reply is always ordered after the *)
(* thing it replies to").                                                   *)
Reaches(s, t) == \/ t.wall < s.wall
                 \/ t.wall = s.wall /\ t.counter <= s.counter

ClockCovers == \A r \in Replica : \A op \in seen[r] : Reaches(clock[r], op.stamp)

(* What else holds of every reachable state and the properties above rest   *)
(* on: everything in flight is known to its author, who has folded in all   *)
(* it issued; a handshake document reflects the operations it stands for.   *)
AuthorHoldsOwn == 
  \A r \in Replica : \A op \in Known : op.stamp.actor = r => op \in seen[r]
InFlightKnown ==
  /\ \A r \in Replica : OpsOf(pending[r]) \subseteq seen[r]
  /\ \A f \in frames : OpsOf(f.ops) \subseteq Known
  /\ \A i \in inits : i.seen \subseteq Known /\ Reflects(i.doc, i.seen)

IInv == /\ TypeOK
        /\ DocumentReflectsOps
        /\ NoTies
        /\ ClockCovers
        /\ AuthorHoldsOwn
        /\ InFlightKnown

(* A user's own edit shows at once: a local write is never lost to a stamp  *)
(* that came from a faster clock.                                           *)
LocalEditShows ==
  [][\A r \in Replica : pending'[r] # pending[r] /\ pending'[r] # <<>> =>
       \A i \in DOMAIN pending'[r] \ DOMAIN pending[r] :
         LET op == pending'[r][i]
             overwritten == \E j \in DOMAIN pending'[r] : j > i /\ Slot(pending'[r][j]) = Slot(op)
         IN  overwritten \/ doc'[r][Slot(op)] = Register(op)]_vars

(* No register ever goes back to an earlier stamp and no slot disappears.   *)
RegistersAdvance ==
  [][\A r \in Replica : \A slot \in DOMAIN doc[r] :
       /\ slot \in DOMAIN doc'[r]
       /\ AtMost(doc[r][slot].stamp, doc'[r][slot].stamp)]_vars

(* The replicas implement the abstract op sets. *)
Abstract == INSTANCE OpSet WITH view <- doc
ImplementsOpSet == Abstract!OSSpec

=============================================================================
