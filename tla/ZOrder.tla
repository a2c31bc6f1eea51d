------------------------------- MODULE ZOrder -------------------------------
(***************************************************************************)
(* The paint order of boards that create, place and delete elements apart  *)
(* and exchange them: Document::ordered and z_index_for_top                *)
(* (crates/kboard-core/src/document.rs) over the keys of module Frac.      *)
(*                                                                         *)
(* The key of an element is written when it is created and never again, so *)
(* it is one function for all boards; a deletion is final here (undoing    *)
(* one shows the element where it was).  The engine's own commands create  *)
(* on top; placing between two neighbours is what hosts call `between` for.*)
(* Tombstones are collected by hosts that know when they may.              *)
(***************************************************************************)
EXTENDS Frac, FiniteSets

CONSTANTS Board,         \* actors, numbers as the order of ids compares them
          MaxText,       \* MAX_TEXT_BYTES, which a key is refused beyond
          MaxElements    \* bound: elements created

ASSUME BoardAssumption == Board \subseteq Nat
ASSUME TextAssumption  == MaxText \in Nat /\ MaxElements \in Nat

VARIABLES z,         \* z[e]: Element::z_index, by element
          held,      \* held[b]: the elements in b's document
          deleted,   \* deleted[b]: its tombstones
          observed,  \* observed[b]: the tombstones b ever had, collected or not
          placed     \* history: the element just created and its place

vars == <<z, held, deleted, observed, placed>>

(* ElementId: the actor, then the count of what it minted. *)
Element == Board \X (1..MaxElements)
IdLess(e, f) == \/ e[1] < f[1]
                \/ e[1] = f[1] /\ e[2] < f[2]

None   == <<0, 0>>
Nobody == [board |-> 0, element |-> None, below |-> None, above |-> None]

Init == /\ z = [e \in {} |-> e]
        /\ held = [b \in Board |-> {}]
        /\ deleted = [b \in Board |-> {}]
        /\ observed = [b \in Board |-> {}]
        /\ placed = Nobody

(* Slip: elements of one key are not told apart. *)
UnderByKey(e, f) == Less(z[e], z[f])

(* The order Document::ordered sorts by. *)
Under(e, f) == \/ Less(z[e], z[f])
               \/ z[e] = z[f] /\ IdLess(e, f)

Live(b) == held[b] \ deleted[b]

(* Neighbours in b's paint order, None beyond its ends. *)
Bottom(b) == {e \in Live(b) : \A f \in Live(b) \ {e} : Under(e, f)}
Top(b)    == {e \in Live(b) : \A f \in Live(b) \ {e} : Under(f, e)}
Adjacent(b, e, f) ==
  Under(e, f) /\ \A g \in Live(b) \ {e, f} : Under(g, e) \/ Under(f, g)
Gaps(b) ==
  {gap \in Live(b) \X Live(b) : Adjacent(b, gap[1], gap[2])}
  \cup {<<None, f>> : f \in Bottom(b)}
  \cup {<<e, None>> : e \in Top(b)}

KeyOf(e) == IF e = None THEN NoKey ELSE z[e]

(* PropValue::is_valid: a key too long for a text value is refused by       *)
(* Element::set and the element goes without.                               *)
Valid(key) == Len(key) <= MaxText
Kept(key)  == IF Valid(key) THEN key ELSE NoKey

(* Board::mint_id *)
Minted(b) == <<b, Cardinality({e \in DOMAIN z : e[1] = b}) + 1>>

Place(b, below, above) ==
  LET new == Minted(b)
      key == Between(KeyOf(below), KeyOf(above))
  IN  /\ Cardinality(DOMAIN z) < MaxElements
      /\ z' = [e \in DOMAIN z \cup {new} |-> IF e = new THEN Kept(key) ELSE z[e]]
      /\ held' = [held EXCEPT ![b] = @ \cup {new}]
      /\ placed' = [board |-> b, element |-> new, below |-> below, above |-> above]
      /\ UNCHANGED <<deleted, observed>>

(* A creating command: z_index_for_top, and the element with that key. *)
Create(b) == \E below \in IF Live(b) = {} THEN {None} ELSE Top(b) : Place(b, below, None)

(* A host places an element between two neighbours. *)
Insert(b) == \E gap \in Gaps(b) : gap[2] # None /\ Place(b, gap[1], gap[2])

Delete(b) == \E e \in Live(b) : /\ deleted' = [deleted EXCEPT ![b] = @ \cup {e}]
                                /\ observed' = [observed EXCEPT ![b] = @ \cup {e}]
                                /\ placed' = Nobody
                                /\ UNCHANGED <<z, held>>

(* b merges c's document. *)
Merge(b, c) == /\ held' = [held EXCEPT ![b] = @ \cup held[c]]
               /\ deleted' = [deleted EXCEPT ![b] = @ \cup deleted[c]]
               /\ observed' = [observed EXCEPT ![b] = @ \cup deleted[c]]
               /\ placed' = Nobody
               /\ UNCHANGED z

(* Slip: what b itself saw deleted is collected at once. *)
SettledHere(b, e) == e \in observed[b]

(* What the host has to know: every replica has observed the deletion.      *)
Settled(b, e) == \A c \in Board : e \in observed[c]

(* collect_tombstones *)
Collect(b) ==
  \E old \in SUBSET deleted[b] \ {{}} :
    /\ \A e \in old : Settled(b, e)
    /\ held' = [held EXCEPT ![b] = @ \ old]
    /\ deleted' = [deleted EXCEPT ![b] = @ \ old]
    /\ placed' = Nobody
    /\ UNCHANGED <<z, observed>>

Next == \E b \in Board : \/ Create(b) \/ Insert(b) \/ Delete(b) \/ Collect(b)
                         \/ \E c \in Board \ {b} : Merge(b, c)

Spec == Init /\ [][Next]_vars

-----------------------------------------------------------------------------
(* Keys are well formed, or missing where they were refused. *)
TypeOK ==
  /\ DOMAIN z \subseteq Element
  /\ \A e \in DOMAIN z : z[e] = NoKey \/ (WellFormed(z[e]) /\ Valid(z[e]))
  /\ \A b \in Board : /\ held[b] \subseteq DOMAIN z
                      /\ deleted[b] \subseteq held[b] \cap observed[b]

(* A new element is shown where it was put: above everything its author     *)
(* sees, or between the two neighbours, as long as their keys differ and    *)
(* the new key is not refused ("a string that always has room for another   *)
(* key between any two neighbours", frac.rs:7).                             *)
InsertedWhereAsked ==
  LET e == placed.element
      x == placed.below
      y == placed.above
  IN  e # None /\ z[e] # NoKey /\ (y # None => Less(KeyOf(x), KeyOf(y)))
      => /\ x # None => Under(x, e)
         /\ y # None => Under(e, y)
         /\ \A f \in Live(placed.board) \ {e, x, y} :
              \/ x # None /\ Under(f, x)
              \/ y # None /\ Under(y, f)

(* The order is total on whatever any board shows, concurrent inserts with  *)
(* one key included: all boards paint alike ("Element id breaks ties",      *)
(* document.rs:100).                                                        *)
OrderIsTotal ==
  \A e, f \in DOMAIN z : e # f => (Under(e, f) \/ Under(f, e)) /\ ~(Under(e, f) /\ Under(f, e))

(* Collecting tombstones brings nothing back: a board never shows again     *)
(* what it once saw deleted, whoever still has the element and whoever has  *)
(* forgotten that it was deleted ("Collecting too early resurrects deleted  *)
(* elements", document.rs:183).                                             *)
DeletedStaysGone == \A b \in Board : Live(b) \cap observed[b] = {}
=============================================================================
