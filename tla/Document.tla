----------------------------- MODULE Document -----------------------------
(***************************************************************************)
(* The board document as the engine keeps it: elements, each a map from    *)
(* property to a last-writer-wins register (lww.rs, element.rs,            *)
(* document.rs, op.rs).  A document is written here as one function from   *)
(* slots, pairs <<element, key>>, to registers; an element exists when one *)
(* of its slots does.  A delete is a write of the Deleted property, as in  *)
(* Document::delete.                                                       *)
(*                                                                         *)
(* Values are valid ones: Element::set refuses NaN, infinities and         *)
(* oversized text, none of which a board command or a JSON frame carries.  *)
(***************************************************************************)
EXTENDS Hlc, Sequences

DeletedKey == "deleted"

(* An edit is an operation before it is stamped (Op, and Reversal in       *)
(* board.rs); a stamped one is an operation.                               *)
Set(element, key, value) == [element |-> element, key |-> key, value |-> value]
Delete(element)          == Set(element, DeletedKey, TRUE)

Stamped(edit, stamp) ==
  [element |-> edit.element, key |-> edit.key, value |-> edit.value,
   stamp |-> stamp]

Slot(op)     == <<op.element, op.key>>
Register(op) == [value |-> op.value, stamp |-> op.stamp]

EmptyDocument == [slot \in {} |-> slot]

ElementsOf(doc)      == {slot[1] : slot \in DOMAIN doc}
Read(doc, slot, default) == IF slot \in DOMAIN doc THEN doc[slot].value ELSE default
IsDeleted(doc, element)  == Read(doc, <<element, DeletedKey>>, FALSE)
Live(doc) == {element \in ElementsOf(doc) : ~IsDeleted(doc, element)}

(* Slips of the register: the last to arrive wins, always or among writers  *)
(* of one instant.                                                          *)
LwwByArrival(register, incoming) == incoming
LwwWithoutActor(register, incoming) ==
  IF Before([register.stamp EXCEPT !.actor = 0], [incoming.stamp EXCEPT !.actor = 1])
    THEN incoming ELSE register

(* Lww::set and Lww::merge: only a strictly later stamp wins. *)
LwwSet(register, incoming) ==
  IF Before(register.stamp, incoming.stamp) THEN incoming ELSE register

(* A slot's register after `incoming` is written to it: Element::set,       *)
(* Element::merge.                                                          *)
Put(doc, slot, incoming) ==
  IF slot \in DOMAIN doc THEN LwwSet(doc[slot], incoming) ELSE incoming

(* op::apply *)
Apply(doc, op) ==
  [slot \in DOMAIN doc \cup {Slot(op)} |->
     IF slot = Slot(op) THEN Put(doc, slot, Register(op)) ELSE doc[slot]]

(* op::apply_all, in closed form: of a batch's writes to a slot the one     *)
(* that is left standing when the loop ends is the latest, the earliest in  *)
(* the batch among equals, because the comparison is strict.                *)
Writes(ops, slot) == {i \in DOMAIN ops : Slot(ops[i]) = slot}

Beats(ops, i, j) == \/ Before(ops[j].stamp, ops[i].stamp)
                    \/ ops[i].stamp = ops[j].stamp /\ i <= j

(* Slip: the first write of a batch is the one kept. *)
FirstWrite(ops, slot) ==
  CHOOSE i \in Writes(ops, slot) : \A j \in Writes(ops, slot) : i <= j

LastStanding(ops, slot) ==
  CHOOSE i \in Writes(ops, slot) : \A j \in Writes(ops, slot) : Beats(ops, i, j)

ApplyAll(doc, ops) ==
  LET touched == {Slot(ops[i]) : i \in DOMAIN ops}
  IN  [slot \in DOMAIN doc \cup touched |->
         IF slot \in touched
           THEN Put(doc, slot, Register(ops[LastStanding(ops, slot)]))
           ELSE doc[slot]]

(* Document::merge within one scope: the union of the registers, the later  *)
(* of two where both have one.                                              *)
Merge(doc, other) ==
  [slot \in DOMAIN doc \cup DOMAIN other |->
     IF slot \in DOMAIN other THEN Put(doc, slot, other[slot]) ELSE doc[slot]]

(* Stamps in a document, and Document::max_stamp of a non-empty one. *)
StampsIn(doc) == {doc[slot].stamp : slot \in DOMAIN doc}
MaxStamp(doc) == Highest(StampsIn(doc))

(* op::upsert, and Board::stamp for a reversal: a fresh stamp per edit. *)
Upsert(edits, last, now) ==
  [i \in 1..Len(edits) |-> Stamped(edits[i], TickTimes(last, now, i))]

(***************************************************************************)
(* What a document stands for: it reflects a set of operations when every  *)
(* slot they write holds the latest of them and nothing else is there.     *)
(***************************************************************************)
Reflects(doc, ops) ==
  /\ DOMAIN doc = {Slot(op) : op \in ops}
  /\ \A slot \in DOMAIN doc :
       \E op \in ops : Slot(op) = slot /\ doc[slot] = Register(op)
  /\ \A op \in ops : AtMost(op.stamp, doc[Slot(op)].stamp)

DistinctStamps(ops) == \A o, p \in ops : o.stamp = p.stamp => o = p
=============================================================================
