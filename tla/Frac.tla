-------------------------------- MODULE Frac --------------------------------
(***************************************************************************)
(* Fractional keys for the paint order: crates/kboard-core/src/frac.rs.    *)
(* A key is a sequence of digits below Base, whose order as digits is the  *)
(* order of its characters.  The empty key stands for None on either side  *)
(* of `between`, which treats Some("") the same way.                       *)
(***************************************************************************)
EXTENDS Integers, Sequences

CONSTANT Base      \* BASE, 62

ASSUME BaseAssumption == Base \in Nat /\ Base >= 2

Digit   == 0..Base - 1
Key     == Seq(Digit)
NoKey   == <<>>

(* The keys `between` makes never end in 0 (frac.rs:94). *)
WellFormed(key) == key \in Key /\ key # NoKey /\ key[Len(key)] # 0

(* The order of strings. *)
Less(a, b) ==
  \E i \in 1..Len(b) :
    /\ i <= Len(a) + 1
    /\ \A j \in 1..i - 1 : a[j] = b[j]
    /\ i <= Len(a) => a[i] < b[i]

(* digit_at *)
DigitAt(key, i) == IF i <= Len(key) THEN key[i] ELSE 0

(* The loop of `between`, in closed form: it copies digits of the lower     *)
(* bound until there is room for a digit strictly between the bounds, and   *)
(* the upper one binds only up to the first digit it exceeds the lower at.  *)
Upper(after, i) == IF i <= Len(after) THEN after[i] ELSE Base

(* Slip: the upper bound is forgotten after the first digit. *)
BoundedOnce(before, after, i) == i = 1 /\ after # NoKey /\ Less(before, after)

Bounded(before, after, i) ==
  /\ after # NoKey /\ Less(before, after)
  /\ \A j \in 1..i - 1 : ~(DigitAt(before, j) < Upper(after, j))

High(before, after, i) == IF Bounded(before, after, i) THEN Upper(after, i) ELSE Base

(* Slip: room for a digit where there is only the lower one again. *)
HasRoomAtLow(before, after, i) == High(before, after, i) > DigitAt(before, i)

HasRoom(before, after, i) == High(before, after, i) > DigitAt(before, i) + 1

Stop(before, after) ==
  CHOOSE i \in 1..Len(before) + Len(after) + 1 :
    /\ HasRoom(before, after, i)
    /\ \A j \in 1..i - 1 : ~HasRoom(before, after, j)

Middle(before, after, i) == (DigitAt(before, i) + High(before, after, i)) \div 2

Between(before, after) ==
  LET stop == Stop(before, after)
  IN  [i \in 1..stop |-> IF i < stop THEN DigitAt(before, i) ELSE Middle(before, after, i)]
=============================================================================
