------------------------------- MODULE OpSet -------------------------------
(***************************************************************************)
(* What replication promises, without clocks on the wire, batches, queues  *)
(* or a network (docs/adr/0001, tests/convergence.rs): a replica is the    *)
(* set of operations that reached it, in whatever order and however often, *)
(* and what it shows is the latest write of each slot in that set.         *)
(***************************************************************************)
EXTENDS Document

CONSTANT Replica

VARIABLES seen,      \* seen[r]: the operations folded into replica r
          view       \* view[r]: the document r shows

osVars == <<seen, view>>

Known == UNION {seen[r] : r \in Replica}

(* The latest write of every slot in a set of operations. *)
LatestOf(ops, slot) ==
  CHOOSE op \in ops : Slot(op) = slot /\ \A p \in ops : Slot(p) = slot => AtMost(p.stamp, op.stamp)

ViewOf(ops) == [slot \in {Slot(op) : op \in ops} |-> Register(LatestOf(ops, slot))]

OSInit == /\ seen = [r \in Replica |-> {}]
          /\ view = [r \in Replica |-> EmptyDocument]

Hold(r, ops) == /\ seen' = [seen EXCEPT ![r] = @ \cup ops]
                /\ view' = [view EXCEPT ![r] = ViewOf(seen[r] \cup ops)]

(* A replica issues new operations: nobody has used their stamps, and each  *)
(* is later than everything its author has seen.                            *)
Issue(r, ops) ==
  /\ \A op \in ops : /\ op.stamp.actor = r
                     /\ \A p \in seen[r] : Before(p.stamp, op.stamp)
                     /\ \A p \in Known : p.stamp # op.stamp
  /\ DistinctStamps(ops)
  /\ Hold(r, ops)

(* A replica learns operations that somebody already holds. *)
Learn(r, ops) == ops \subseteq Known /\ Hold(r, ops)

(* New operations can only come out of the step itself, so the quantifier   *)
(* ranges over what the step adds.                                          *)
OSNext == \E r \in Replica :
            LET added == seen'[r] \ seen[r]
            IN  Issue(r, added) \/ Learn(r, added)

OSSpec == OSInit /\ [][OSNext]_osVars
=============================================================================
