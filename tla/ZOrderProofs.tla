---------------------------- MODULE ZOrderProofs ----------------------------
(***************************************************************************)
(* `between` finds a key strictly between any two keys it may be given, at *)
(* every depth and for every base; and what the paint order and the        *)
(* tombstones make of it, for any number of boards.                        *)
(***************************************************************************)
EXTENDS ZOrder, FiniteSetTheorems, WellFoundedInduction, TLAPS

(* A set of natural numbers with a member has a least one. *)
LEMMA LeastNumber ==
  ASSUME NEW S, S \subseteq Nat, NEW n \in S
  PROVE  \E m \in S : \A x \in S : m <= x
<1> DEFINE Uppers == {0..x : x \in {y \in S : y <= n}}
<1>1. IsWellFoundedOn(StrictSubsetOrdering(0..n), SUBSET (0..n))
  <2>1. IsFiniteSet(0..n)
    BY FS_Interval, 0 \in Int, n \in Int
  <2> QED BY <2>1, FS_StrictSubsetOrderingWellFounded, FS_FiniteSubsetsOfFinite
<1>2. Uppers \subseteq SUBSET (0..n) /\ Uppers # {}
  <2>1. n \in {y \in S : y <= n} /\ \A x \in {y \in S : y <= n} : 0..x \subseteq 0..n
    OBVIOUS
  <2> QED BY <2>1
<1>3. PICK up \in Uppers : \A v \in Uppers : <<v, up>> \notin StrictSubsetOrdering(0..n)
  <2> HIDE DEF Uppers
  <2> QED BY <1>1, <1>2, WFMin
<1>4. PICK m \in S : m <= n /\ up = 0..m
  BY <1>3
<1>5. ASSUME NEW x \in S, x < m
      PROVE  FALSE
  <2>1. /\ 0..x \in Uppers /\ 0..x \subseteq 0..m /\ m \in 0..m /\ m \notin 0..x
        /\ 0..x \in SUBSET (0..n) /\ 0..m \in SUBSET (0..n)
    BY <1>4, <1>5
  <2>2. <<0..x, 0..m>> \in StrictSubsetOrdering(0..n)
    BY <2>1 DEF StrictSubsetOrdering
  <2> QED BY <1>3, <1>4, <2>1, <2>2
<1> QED BY <1>4, <1>5

(* A key or nothing, the bounds `between` is called with. *)
Bound(key) == key = NoKey \/ WellFormed(key)

Ordered(before, after) == after # NoKey => Less(before, after)

LEMMA DigitsOf ==
  ASSUME NEW key \in Key
  PROVE  /\ Len(key) \in Nat
         /\ DOMAIN key = 1..Len(key)
         /\ \A i \in 1..Len(key) : key[i] \in Digit
         /\ \A i \in Nat \ {0} : DigitAt(key, i) \in Digit
BY BaseAssumption DEF Key, Digit, DigitAt

LEMMA BoundIsKey ==
  ASSUME NEW key, Bound(key)
  PROVE  key \in Key
<1>1. <<>> \in Seq(Digit)
  OBVIOUS
<1> QED
  BY <1>1 DEF Bound, WellFormed, Key, NoKey

(* Beyond both bounds there is room whatever they are, so the loop ends. *)
LEMMA StopExists ==
  ASSUME NEW before \in Key, NEW after \in Key
  PROVE  /\ Stop(before, after) \in 1..Len(before) + Len(after) + 1
         /\ HasRoom(before, after, Stop(before, after))
         /\ \A j \in 1..Stop(before, after) - 1 : ~HasRoom(before, after, j)
<1> DEFINE end  == Len(before) + Len(after) + 1
           room == {i \in 1..end : HasRoom(before, after, i)}
<1>1. Len(before) \in Nat /\ Len(after) \in Nat
  BY DigitsOf
<1>2. end \in room
  <2>1. DigitAt(before, end) = 0
    BY <1>1 DEF DigitAt
  <2>2. High(before, after, end) = Base
    BY <1>1 DEF High, Upper
  <2> QED
    BY <1>1, <2>1, <2>2, BaseAssumption DEF HasRoom
<1>3. PICK least \in room : \A j \in room : least <= j
  <2>1. room \subseteq Nat
    BY <1>1
  <2> HIDE DEF room, end
  <2> QED BY <1>2, <2>1, LeastNumber
<1>4. /\ least \in 1..end
      /\ HasRoom(before, after, least)
      /\ \A j \in 1..least - 1 : ~HasRoom(before, after, j)
  BY <1>1, <1>3
<1> QED
  BY <1>4 DEF Stop

(* What a digit bounded from above leaves room for. *)
LEMMA RangeOfHigh ==
  ASSUME NEW before \in Key, NEW after \in Key, NEW i \in Nat \ {0}
  PROVE  High(before, after, i) \in 0..Base /\ DigitAt(before, i) \in 0..Base - 1
<1>1. DigitAt(before, i) \in Digit
  BY DigitsOf
<1>2. i <= Len(after) => after[i] \in Digit
  BY DigitsOf
<1> QED
  BY <1>1, <1>2, BaseAssumption DEF High, Upper, Digit

(* The key `between` returns, digit by digit. *)
LEMMA ShapeOfBetween ==
  ASSUME NEW before \in Key, NEW after \in Key,
         NEW stop, stop = Stop(before, after),
         NEW key, key = Between(before, after)
  PROVE  /\ stop \in 1..Len(before) + Len(after) + 1
         /\ key \in Key
         /\ Len(key) = stop
         /\ \A i \in 1..stop - 1 : key[i] = DigitAt(before, i)
         /\ DigitAt(before, stop) < key[stop]
         /\ key[stop] < High(before, after, stop)
<1>1. Len(before) \in Nat /\ Len(after) \in Nat
  BY DigitsOf
<1>2. /\ stop \in 1..Len(before) + Len(after) + 1
      /\ HasRoom(before, after, stop)
  BY StopExists
<1>3. stop \in Nat \ {0}
  BY <1>1, <1>2
<1>4. High(before, after, stop) \in 0..Base /\ DigitAt(before, stop) \in 0..Base - 1
  BY <1>3, RangeOfHigh
<1>5. /\ Middle(before, after, stop) \in Digit
      /\ DigitAt(before, stop) < Middle(before, after, stop)
      /\ Middle(before, after, stop) < High(before, after, stop)
  <2>1. \A low \in 0..Base - 1, high \in 0..Base :
          high > low + 1 => /\ (low + high) \div 2 \in 0..Base - 1
                            /\ low < (low + high) \div 2
                            /\ (low + high) \div 2 < high
    BY BaseAssumption
  <2> QED
    BY <1>2, <1>4, <2>1 DEF Middle, HasRoom, Digit
<1>6. key = [i \in 1..stop |-> IF i < stop THEN DigitAt(before, i) ELSE Middle(before, after, i)]
  BY DEF Between
<1>7. \A i \in 1..stop : key[i] \in Digit
  <2>1. \A i \in 1..stop : DigitAt(before, i) \in Digit
    BY <1>3, DigitsOf
  <2> QED BY <1>3, <1>5, <1>6, <2>1
<1>8. key \in Seq(Digit) /\ Len(key) = stop
  <2>1. key \in [1..stop -> Digit]
    BY <1>6, <1>7
  <2> QED BY <1>3, <2>1
<1>9. key[stop] = Middle(before, after, stop) /\ \A i \in 1..stop - 1 : key[i] = DigitAt(before, i)
  BY <1>3, <1>6
<1> QED
  BY <1>2, <1>5, <1>8, <1>9 DEF Key

(* It follows the lower bound: they agree up to the digit where there was   *)
(* room, or up to the end of the bound.                                     *)
LEMMA FollowsLower ==
  ASSUME NEW before \in Key, NEW after \in Key
  PROVE  Less(before, Between(before, after))
<1> DEFINE stop == Stop(before, after)
           key  == Between(before, after)
<1>1. Len(before) \in Nat /\ Len(after) \in Nat
  BY DigitsOf
<1>2. /\ stop \in Nat \ {0}
      /\ Len(key) = stop
      /\ \A i \in 1..stop - 1 : key[i] = DigitAt(before, i)
      /\ DigitAt(before, stop) < key[stop]
  <2>1. /\ stop \in 1..Len(before) + Len(after) + 1
        /\ key \in Key
        /\ Len(key) = stop
        /\ \A i \in 1..stop - 1 : key[i] = DigitAt(before, i)
        /\ DigitAt(before, stop) < key[stop]
        /\ key[stop] < High(before, after, stop)
    BY ShapeOfBetween
  <2> HIDE DEF stop, key
  <2> QED BY <1>1, <2>1
<1> HIDE DEF stop, key
<1>3. CASE stop <= Len(before)
  <2>1. /\ \A j \in 1..stop - 1 : before[j] = key[j]
        /\ before[stop] < key[stop]
    BY <1>1, <1>2, <1>3 DEF DigitAt
  <2> QED BY <1>1, <1>2, <1>3, <2>1 DEF Less, key
<1>4. CASE stop > Len(before)
  <2>1. \A j \in 1..Len(before) : before[j] = key[j]
    BY <1>1, <1>2, <1>4 DEF DigitAt
  <2>2. Len(before) + 1 \in 1..Len(key)
    BY <1>1, <1>2, <1>4
  <2> QED BY <1>1, <2>1, <2>2 DEF Less, key
<1> QED BY <1>1, <1>2, <1>3, <1>4

(* Padded with zeros a lower bound first differs from an upper one, which  *)
(* does not end in zero, at a digit of the upper one that is larger.       *)
LEMMA FirstDifference ==
  ASSUME NEW before \in Key, NEW after, WellFormed(after), Less(before, after)
  PROVE  \E f \in 1..Len(after) :
           /\ DigitAt(before, f) < after[f]
           /\ \A j \in 1..f - 1 : DigitAt(before, j) = after[j]
<1>1. after \in Key /\ after # <<>> /\ after[Len(after)] # 0
  BY DEF WellFormed, NoKey
<1>2. Len(before) \in Nat /\ Len(after) \in Nat
  BY <1>1, DigitsOf
<1>3. PICK d \in 1..Len(after) :
        /\ d <= Len(before) + 1
        /\ \A j \in 1..d - 1 : before[j] = after[j]
        /\ d <= Len(before) => before[d] < after[d]
  BY DEF Less
<1>4. \A j \in 1..d - 1 : DigitAt(before, j) = after[j]
  BY <1>2, <1>3 DEF DigitAt
<1>5. CASE d <= Len(before)
  BY <1>2, <1>3, <1>4, <1>5 DEF DigitAt
<1>6. CASE d > Len(before)
  <2> DEFINE rest == {j \in d..Len(after) : after[j] # 0}
  <2>1. Len(after) \in rest
    BY <1>1, <1>2, <1>3
  <2>2. PICK f \in rest : \A j \in rest : f <= j
    <3>1. rest \subseteq Nat
      BY <1>2
    <3> HIDE DEF rest
    <3> QED BY <2>1, <3>1, LeastNumber
  <2>3. \A j \in d..f - 1 : after[j] = 0
    BY <1>2, <2>2
  <2>4. \A j \in d..Len(after) : DigitAt(before, j) = 0
    BY <1>2, <1>3, <1>6 DEF DigitAt
  <2>5. after[f] \in Digit /\ after[f] # 0
    BY <1>1, <1>2, <2>2, DigitsOf
  <2>6. DigitAt(before, f) < after[f]
    BY <1>2, <2>2, <2>4, <2>5, BaseAssumption DEF Digit
  <2>7. \A j \in 1..f - 1 : DigitAt(before, j) = after[j]
    BY <1>2, <1>4, <2>2, <2>3, <2>4
  <2> QED BY <1>2, <2>2, <2>6, <2>7
<1> QED BY <1>2, <1>3, <1>5, <1>6

(* It precedes the upper bound: where they first differ the bound is still *)
(* in force, or the key has already gone below it.                         *)
LEMMA PrecedesUpper ==
  ASSUME NEW before \in Key, NEW after, WellFormed(after), Less(before, after)
  PROVE  Less(Between(before, after), after)
<1> DEFINE stop == Stop(before, after)
           key  == Between(before, after)
<1>0. after \in Key /\ after # NoKey
  BY DEF WellFormed
<1>1. Len(before) \in Nat /\ Len(after) \in Nat
  BY <1>0, DigitsOf
<1>2. /\ stop \in Nat \ {0}
      /\ Len(key) = stop
      /\ \A i \in 1..stop - 1 : key[i] = DigitAt(before, i)
      /\ key[stop] < High(before, after, stop)
      /\ DigitAt(before, stop) < key[stop]
      /\ key[stop] \in Digit
  <2>1. /\ stop \in 1..Len(before) + Len(after) + 1
        /\ key \in Key
        /\ Len(key) = stop
        /\ \A i \in 1..stop - 1 : key[i] = DigitAt(before, i)
        /\ DigitAt(before, stop) < key[stop]
        /\ key[stop] < High(before, after, stop)
    BY <1>0, ShapeOfBetween
  <2> HIDE DEF stop, key
  <2>2. key[stop] \in Digit
    BY <1>1, <2>1, DigitsOf
  <2> QED BY <1>1, <2>1, <2>2
<1>3. PICK f \in 1..Len(after) :
        /\ DigitAt(before, f) < after[f]
        /\ \A j \in 1..f - 1 : DigitAt(before, j) = after[j]
  BY FirstDifference
<1>4. \A j \in 1..f : Bounded(before, after, j)
  <2>1. \A j \in 1..f - 1 : ~(DigitAt(before, j) < Upper(after, j))
    <3>1. TAKE j \in 1..f - 1
    <3>2. Upper(after, j) = after[j] /\ DigitAt(before, j) = after[j] /\ after[j] \in Digit
      BY <1>0, <1>1, <1>3, DigitsOf DEF Upper
    <3> QED BY <3>2, BaseAssumption DEF Digit
  <2> QED BY <1>0, <1>1, <2>1 DEF Bounded
<1>5. \A j \in 1..f : High(before, after, j) = after[j]
  BY <1>1, <1>4 DEF High, Upper
<1> HIDE DEF stop, key
<1>6. CASE f < stop
  <2>1. key[f] = DigitAt(before, f) /\ \A j \in 1..f - 1 : key[j] = after[j]
    BY <1>1, <1>2, <1>3, <1>6
  <2> QED BY <1>1, <1>2, <1>3, <1>6, <2>1 DEF Less, key
<1>7. CASE f = stop
  <2>1. key[f] < after[f] /\ \A j \in 1..f - 1 : key[j] = after[j]
    BY <1>1, <1>2, <1>3, <1>5, <1>7
  <2> QED BY <1>1, <1>2, <1>3, <1>7, <2>1 DEF Less, key
<1>8. CASE f > stop
  <2>1. High(before, after, stop) = after[stop] /\ DigitAt(before, stop) = after[stop]
    BY <1>1, <1>2, <1>3, <1>5, <1>8
  <2>2. after[stop] \in Digit
    BY <1>0, <1>1, <1>2, <1>8, DigitsOf
  <2> QED BY <1>2, <2>1, <2>2, BaseAssumption DEF Digit
<1> QED BY <1>1, <1>2, <1>6, <1>7, <1>8

(* Whatever the bounds, in order or not, a key comes out.                   *)
LEMMA BetweenIsKey ==
  ASSUME NEW before \in Key, NEW after \in Key
  PROVE  LET key == Between(before, after)
         IN  /\ WellFormed(key)
             /\ Len(key) <= Len(before) + Len(after) + 1
<1> DEFINE key == Between(before, after)
<1>1. Len(before) \in Nat /\ Len(after) \in Nat
  BY DigitsOf
<1>2. /\ key \in Key
      /\ Len(key) \in 1..Len(before) + Len(after) + 1
      /\ DigitAt(before, Len(key)) < key[Len(key)]
  BY ShapeOfBetween
<1>3. WellFormed(key)
  <2>1. DigitAt(before, Len(key)) \in Digit /\ key[Len(key)] \in Digit
    BY <1>1, <1>2, DigitsOf
  <2>2. key[Len(key)] # 0
    BY <1>2, <2>1, BaseAssumption DEF Digit
  <2>3. key # <<>>
    BY <1>1, <1>2
  <2> QED BY <1>2, <2>2, <2>3 DEF WellFormed, NoKey
<1> QED BY <1>1, <1>2, <1>3

(* between(before, after) is strictly between its bounds, never ends in 0   *)
(* and is at most one digit longer than both together, for every base and   *)
(* every pair of keys or open ends in order.                                *)
THEOREM BetweenIsBetween ==
  ASSUME NEW before, Bound(before), NEW after, Bound(after), Ordered(before, after)
  PROVE  LET key == Between(before, after)
         IN  /\ WellFormed(key)
             /\ Less(before, key)
             /\ after # NoKey => Less(key, after)
             /\ Len(key) <= Len(before) + Len(after) + 1
<1>1. before \in Key /\ after \in Key
  BY BoundIsKey
<1> QED
  BY <1>1, BetweenIsKey, FollowsLower, PrecedesUpper DEF Bound, Ordered

(* The order of strings is strict and total. *)
LEMMA LessTotal ==
  ASSUME NEW k \in Key, NEW l \in Key, k # l
  PROVE  Less(k, l) \/ Less(l, k)
<1> DEFINE D == {i \in 1..Len(k) : i <= Len(l) /\ k[i] # l[i]}
<1>1. /\ Len(k) \in Nat /\ Len(l) \in Nat
      /\ \A i \in 1..Len(k) : k[i] \in Nat
      /\ \A i \in 1..Len(l) : l[i] \in Nat
  BY DigitsOf, BaseAssumption DEF Digit
<1>2. CASE D # {}
  <2>1. PICK d \in D : \A i \in D : d <= i
    <3>1. D \subseteq Nat
      BY <1>1
    <3> HIDE DEF D
    <3> QED BY <1>2, <3>1, LeastNumber
  <2>2. /\ d \in 1..Len(k) /\ d \in 1..Len(l) /\ k[d] # l[d]
        /\ \A j \in 1..d - 1 : k[j] = l[j]
    BY <1>1, <2>1
  <2>3. k[d] < l[d] => Less(k, l)
    BY <1>1, <2>2 DEF Less
  <2>4. l[d] < k[d] => Less(l, k)
    BY <1>1, <2>2 DEF Less
  <2> QED BY <1>1, <2>2, <2>3, <2>4
<1>3. CASE D = {}
  <2>1. \A i \in 1..Len(k) : i <= Len(l) => k[i] = l[i]
    BY <1>3
  <2>2. Len(k) < Len(l) => Less(k, l)
    <3>1. ASSUME Len(k) < Len(l)
          PROVE  /\ Len(k) + 1 \in 1..Len(l)
                 /\ \A j \in 1..(Len(k) + 1) - 1 : k[j] = l[j]
      BY <1>1, <2>1, <3>1
    <3> QED BY <1>1, <3>1 DEF Less
  <2>3. Len(l) < Len(k) => Less(l, k)
    <3>1. ASSUME Len(l) < Len(k)
          PROVE  /\ Len(l) + 1 \in 1..Len(k)
                 /\ \A j \in 1..(Len(l) + 1) - 1 : l[j] = k[j]
      BY <1>1, <2>1, <3>1
    <3> QED BY <1>1, <3>1 DEF Less
  <2>4. Len(k) # Len(l)
    <3>1. SUFFICES ASSUME Len(k) = Len(l)
                   PROVE  k = l
      OBVIOUS
    <3> QED BY <1>1, <2>1, <3>1 DEF Key
  <2> QED BY <1>1, <2>2, <2>3, <2>4
<1> QED BY <1>2, <1>3

LEMMA LessStrict ==
  ASSUME NEW k \in Key, NEW l \in Key, Less(k, l)
  PROVE  ~Less(l, k)
<1>1. /\ Len(k) \in Nat /\ Len(l) \in Nat
      /\ \A i \in 1..Len(k) : k[i] \in Nat
      /\ \A i \in 1..Len(l) : l[i] \in Nat
  BY DigitsOf, BaseAssumption DEF Digit
<1>2. PICK i \in 1..Len(l) : /\ i <= Len(k) + 1
                             /\ \A n \in 1..i - 1 : k[n] = l[n]
                             /\ i <= Len(k) => k[i] < l[i]
  BY DEF Less
<1>3. SUFFICES ASSUME NEW j \in 1..Len(k), j <= Len(l) + 1,
                      \A n \in 1..j - 1 : l[n] = k[n],
                      j <= Len(l) => l[j] < k[j]
               PROVE  FALSE
  BY DEF Less
<1>4. i \in Nat /\ j \in Nat
  BY <1>1
<1>5. CASE i < j
  <2>1. i \in 1..j - 1 /\ i <= Len(k)
    BY <1>1, <1>4, <1>5
  <2>2. k[i] < l[i] /\ l[i] = k[i] /\ k[i] \in Nat
    BY <1>1, <1>2, <1>3, <1>4, <2>1
  <2> QED BY <2>2
<1>6. CASE j < i
  <2>1. j \in 1..i - 1 /\ j <= Len(l)
    BY <1>1, <1>4, <1>6
  <2>2. l[j] < k[j] /\ l[j] = k[j] /\ k[j] \in Nat
    BY <1>1, <1>2, <1>3, <1>4, <2>1
  <2> QED BY <2>2
<1>7. CASE i = j
  <2>1. k[i] < l[i] /\ l[i] < k[i] /\ k[i] \in Nat /\ l[i] \in Nat
    BY <1>1, <1>2, <1>3, <1>7
  <2> QED BY <2>1
<1> QED BY <1>4, <1>5, <1>6, <1>7

-----------------------------------------------------------------------------
(* The invariant of the boards. *)

(* Everything is in its range. *)
Ranges ==
  /\ DOMAIN z \subseteq Element /\ IsFiniteSet(DOMAIN z)
  /\ z \in [DOMAIN z -> Key]
  /\ held \in [Board -> SUBSET DOMAIN z]
  /\ deleted \in [Board -> SUBSET DOMAIN z]
  /\ observed \in [Board -> SUBSET DOMAIN z]
  /\ placed = Nobody \/ placed.element \in DOMAIN z

(* A board counts its own elements as it mints them, so what it mints next  *)
(* is new.                                                                  *)
OwnElements(b) == {e \in DOMAIN z : e[1] = b}

MintedInOrder == \A b \in Board : OwnElements(b) = {b} \X (1..Cardinality(OwnElements(b)))

(* A board forgets a deletion only when every board has seen it. *)
CollectedIsSettled == \A b \in Board : \A e \in observed[b] \ deleted[b] : Settled(b, e)

IInv == /\ Ranges
        /\ TypeOK
        /\ MintedInOrder
        /\ CollectedIsSettled
        /\ DeletedStaysGone
        /\ InsertedWhereAsked

-----------------------------------------------------------------------------
(* Where a new element goes: above x and below y, with every other element  *)
(* the board shows under x or over y.                                       *)
Surrounds(b, x, y) ==
  /\ x \in Live(b) \cup {None} /\ y \in Live(b) \cup {None}
  /\ \A f \in Live(b) \ {x, y} : (x # None /\ Under(f, x)) \/ (y # None /\ Under(y, f))

LEMMA NoneIsNoElement == None \notin Element
  BY DEF None, Element

(* Creating on top and inserting in a gap both place between neighbours. *)
LEMMA CreatePlaces ==
  ASSUME NEW b \in Board, Create(b), None \notin Live(b)
  PROVE  \E x, y : Surrounds(b, x, y) /\ Place(b, x, y)
<1>1. PICK x \in (IF Live(b) = {} THEN {None} ELSE Top(b)) : Place(b, x, None)
  BY DEF Create
<1>2. Surrounds(b, x, None)
  <2>1. CASE Live(b) = {}
    BY <1>1, <2>1 DEF Surrounds
  <2>2. CASE Live(b) # {} /\ x # None
    BY <1>1, <2>2 DEF Surrounds, Top
  <2>3. CASE Live(b) # {} /\ x = None
    BY <1>1, <2>3 DEF Top
  <2>4. QED  BY <1>1, <2>1, <2>2, <2>3 DEF Top
<1>3. QED  BY <1>1, <1>2

LEMMA InsertPlaces ==
  ASSUME NEW b \in Board, Insert(b), None \notin Live(b)
  PROVE  \E x, y : Surrounds(b, x, y) /\ Place(b, x, y)
<1>1. PICK gap \in Gaps(b) : gap[2] # None /\ Place(b, gap[1], gap[2])
  BY DEF Insert
<1>2. CASE gap \in Live(b) \X Live(b) /\ Adjacent(b, gap[1], gap[2])
  <2>1. Surrounds(b, gap[1], gap[2])
    BY <1>2 DEF Surrounds, Adjacent
  <2>2. QED  BY <1>1, <2>1
<1>3. CASE \E f \in Bottom(b) : gap = <<None, f>>
  <2>1. PICK f \in Bottom(b) : gap = <<None, f>>
    BY <1>3
  <2>2. Surrounds(b, None, f)
    BY <2>1 DEF Surrounds, Bottom
  <2>3. QED  BY <1>1, <2>1, <2>2
<1>4. CASE \E e \in Top(b) : gap = <<e, None>>
  BY <1>1, <1>4
<1>5. QED  BY <1>1, <1>2, <1>3, <1>4 DEF Gaps

-----------------------------------------------------------------------------
(* One lemma per action. *)

(* Everything a board shows has a key. *)
LEMMA ShownHasKey ==
  ASSUME Ranges, TypeOK, NEW b \in Board
  PROVE  /\ Live(b) \subseteq DOMAIN z
         /\ None \notin DOMAIN z
         /\ \A e \in Live(b) \cup {None} : KeyOf(e) \in Key
<1>1. Live(b) \subseteq DOMAIN z
  BY DEF Ranges, Live
<1>2. None \notin DOMAIN z
  BY NoneIsNoElement DEF Ranges
<1>3. NoKey \in Key
  BY DEF NoKey, Key
<1>4. \A e \in Live(b) \cup {None} : KeyOf(e) \in Key
  BY <1>1, <1>3 DEF KeyOf, Ranges
<1> QED BY <1>1, <1>2, <1>4

(* What a board mints is new, and the next of its own. *)
LEMMA MintedIsNew ==
  ASSUME Ranges, MintedInOrder, NEW b \in Board, Cardinality(DOMAIN z) < MaxElements
  PROVE  /\ Minted(b) \in Element \ DOMAIN z
         /\ Minted(b)[1] = b
         /\ OwnElements(b) \cup {Minted(b)} = {b} \X (1..Cardinality(OwnElements(b)) + 1)
         /\ Cardinality(OwnElements(b) \cup {Minted(b)}) = Cardinality(OwnElements(b)) + 1
<1> DEFINE n == Cardinality(OwnElements(b))
<1>1. IsFiniteSet(OwnElements(b)) /\ n <= Cardinality(DOMAIN z)
  <2>1. OwnElements(b) \subseteq DOMAIN z /\ IsFiniteSet(DOMAIN z)
    BY DEF OwnElements, Ranges
  <2>2. QED  BY <2>1, FS_Subset
<1>2. n \in Nat /\ Cardinality(DOMAIN z) \in Nat
  BY <1>1, FS_CardinalityType DEF Ranges
<1>3. Minted(b) = <<b, n + 1>>
  BY DEF Minted, OwnElements
<1>4. n + 1 \in 1..MaxElements
  BY <1>1, <1>2, TextAssumption
<1>5. OwnElements(b) = {b} \X (1..n)
  BY DEF MintedInOrder
<1>6. Minted(b) \notin OwnElements(b)
  <2> HIDE DEF n
  <2>1. n + 1 \notin 1..n
    BY <1>2
  <2>2. QED  BY <1>3, <1>5, <2>1
<1>7. Minted(b) \in Element \ DOMAIN z
  BY <1>3, <1>4, <1>6 DEF Element, OwnElements
<1>8. OwnElements(b) \cup {Minted(b)} = {b} \X (1..n + 1)
  <2> HIDE DEF n
  <2>1. 1..n + 1 = (1..n) \cup {n + 1}
    BY <1>2
  <2>2. {b} \X (1..n + 1) = ({b} \X (1..n)) \cup {<<b, n + 1>>}
    BY <2>1
  <2>3. QED  BY <1>3, <1>5, <2>2
<1>9. Cardinality(OwnElements(b) \cup {Minted(b)}) = n + 1
  BY <1>1, <1>6, FS_AddElement
<1> QED BY <1>3, <1>7, <1>8, <1>9

(* What placing an element leaves as it was. *)
LEMMA PlaceAdds ==
  ASSUME Ranges, MintedInOrder, TypeOK, NEW b \in Board, NEW x, NEW y, Place(b, x, y),
         NEW new, new = Minted(b), NEW key, key = Kept(Between(KeyOf(x), KeyOf(y))), key \in Key
  PROVE  /\ DOMAIN z' = DOMAIN z \cup {new} /\ new \in Element \ DOMAIN z
         /\ z'[new] = key
         /\ \A e \in DOMAIN z : z'[e] = z[e] /\ e # new
         /\ Ranges'
         /\ MintedInOrder'
<1>1. Cardinality(DOMAIN z) < MaxElements
  BY DEF Place
<1>2. /\ new \in Element \ DOMAIN z /\ new[1] = b
      /\ OwnElements(b) \cup {new} = {b} \X (1..Cardinality(OwnElements(b)) + 1)
      /\ Cardinality(OwnElements(b) \cup {new}) = Cardinality(OwnElements(b)) + 1
  BY <1>1, MintedIsNew
<1>3. z' = [e \in DOMAIN z \cup {new} |-> IF e = new THEN key ELSE z[e]]
  BY DEF Place
<1>4. DOMAIN z' = DOMAIN z \cup {new} /\ z'[new] = key /\ \A e \in DOMAIN z : z'[e] = z[e] /\ e # new
  BY <1>2, <1>3
<1>5. z' \in [DOMAIN z' -> Key]
  BY <1>3, <1>4 DEF Ranges
<1>6. held' = [held EXCEPT ![b] = @ \cup {new}] /\ deleted' = deleted /\ observed' = observed
      /\ placed'.element = new
  BY DEF Place
<1>7. IsFiniteSet(DOMAIN z')
  BY <1>4, FS_AddElement DEF Ranges
<1>8. Ranges'
  <2>1. DOMAIN z \subseteq DOMAIN z' /\ new \in DOMAIN z'
    BY <1>4
  <2>2. held' \in [Board -> SUBSET DOMAIN z']
    BY <1>6, <2>1 DEF Ranges
  <2>3. deleted' \in [Board -> SUBSET DOMAIN z'] /\ observed' \in [Board -> SUBSET DOMAIN z']
    BY <1>6, <2>1 DEF Ranges
  <2>4. DOMAIN z' \subseteq Element
    BY <1>2, <1>4 DEF Ranges
  <2>5. QED  BY <1>5, <1>6, <1>7, <2>1, <2>2, <2>3, <2>4 DEF Ranges
<1>9. MintedInOrder'
  <2>1. OwnElements(b)' = OwnElements(b) \cup {new}
    BY <1>2, <1>4 DEF OwnElements
  <2>2. ASSUME NEW c \in Board, c # b
        PROVE  OwnElements(c)' = OwnElements(c)
    BY <1>2, <1>4, <2>2 DEF OwnElements
  <2>3. ASSUME NEW c \in Board
        PROVE  OwnElements(c)' = {c} \X (1..Cardinality(OwnElements(c)'))
    <3>1. CASE c = b
      <4>1. Cardinality(OwnElements(b)') = Cardinality(OwnElements(b)) + 1
        BY <1>2, <2>1
      <4>2. QED  BY <1>2, <2>1, <3>1, <4>1
    <3>2. CASE c # b
      BY <2>2, <3>2 DEF MintedInOrder
    <3>3. QED  BY <3>1, <3>2
  <2>4. QED  BY <2>3 DEF MintedInOrder
<1> QED BY <1>2, <1>4, <1>8, <1>9

(* Creating and inserting: a key of the right length takes its place        *)
(* between the neighbours', a longer one is refused.                        *)
LEMMA PlaceKeeps ==
  ASSUME IInv, NEW b \in Board, NEW x, NEW y, Surrounds(b, x, y), Place(b, x, y)
  PROVE  IInv'
<1> USE DEF IInv
<1>1. /\ Live(b) \subseteq DOMAIN z /\ None \notin DOMAIN z
      /\ KeyOf(x) \in Key /\ KeyOf(y) \in Key
  BY ShownHasKey DEF Surrounds
<1> DEFINE between == Between(KeyOf(x), KeyOf(y))
<1>2. between \in Key /\ WellFormed(between)
  <2>1. WellFormed(between)
    BY <1>1, BetweenIsKey
  <2>2. QED  BY <2>1 DEF WellFormed
<1>3. PICK new : new = Minted(b)
  OBVIOUS
<1>4. PICK key : key = Kept(between)
  OBVIOUS
<1>5. key \in Key /\ (key = NoKey \/ (WellFormed(key) /\ Valid(key) /\ key = between))
  <2> HIDE DEF between
  <2>1. NoKey \in Key
    BY DEF NoKey, Key
  <2>2. QED  BY <1>2, <1>4, <2>1 DEF Kept
<1> HIDE DEF between
<1>6. /\ DOMAIN z' = DOMAIN z \cup {new} /\ new \in Element \ DOMAIN z
      /\ z'[new] = key
      /\ \A e \in DOMAIN z : z'[e] = z[e] /\ e # new
      /\ Ranges' /\ MintedInOrder'
  BY <1>3, <1>4, <1>5, PlaceAdds DEF between
<1>7. /\ held' = [held EXCEPT ![b] = @ \cup {new}] /\ deleted' = deleted /\ observed' = observed
      /\ placed' = [board |-> b, element |-> new, below |-> x, above |-> y]
  BY <1>3 DEF Place
<1>8. TypeOK'
  <2>1. DOMAIN z' \subseteq Element
    BY <1>6 DEF Ranges
  <2>2. \A e \in DOMAIN z' : z'[e] = NoKey \/ (WellFormed(z'[e]) /\ Valid(z'[e]))
    BY <1>5, <1>6 DEF TypeOK
  <2>3. \A c \in Board : held'[c] \subseteq DOMAIN z' /\ held[c] \subseteq held'[c]
    BY <1>6, <1>7 DEF Ranges
  <2>4. QED  BY <1>7, <2>1, <2>2, <2>3 DEF TypeOK
<1>9. CollectedIsSettled'
  BY <1>7 DEF CollectedIsSettled, Settled
<1>10. \A c \in Board : Live(c)' \subseteq Live(c) \cup {new}
  BY <1>7 DEF Live, Ranges
<1>11. DeletedStaysGone'
  <2>1. \A c \in Board : new \notin observed[c]
    BY <1>6 DEF Ranges
  <2>2. QED  BY <1>7, <1>10, <2>1 DEF DeletedStaysGone
<1>12. InsertedWhereAsked'
  <2> SUFFICES ASSUME key # NoKey, y # None => Less(KeyOf(x)', KeyOf(y)')
               PROVE  /\ x # None => Under(x, new)'
                      /\ y # None => Under(new, y)'
                      /\ \A f \in Live(b)' \ {new, x, y} :
                           (x # None /\ Under(f, x)') \/ (y # None /\ Under(y, f)')
    BY <1>6, <1>7 DEF InsertedWhereAsked
  <2>1. /\ x # None => x \in DOMAIN z /\ KeyOf(x) = z[x]
        /\ y # None => y \in DOMAIN z /\ KeyOf(y) = z[y]
    BY <1>1 DEF Surrounds, KeyOf
  <2>2. KeyOf(x)' = KeyOf(x) /\ KeyOf(y)' = KeyOf(y)
    BY <1>6, <2>1 DEF KeyOf
  <2>3. x # None => Less(z[x], key)
    BY <1>1, <1>5, <2>1, FollowsLower DEF between
  <2>4. ASSUME y # None
        PROVE  Less(key, z[y])
    <3>1. Less(KeyOf(x), z[y])
      BY <2>1, <2>2, <2>4
    <3>2. z[y] # NoKey
      BY <3>1 DEF Less, NoKey
    <3>3. WellFormed(z[y])
      BY <2>1, <2>4, <3>2 DEF TypeOK
    <3>4. Less(between, KeyOf(y))
      BY <1>1, <2>1, <2>4, <3>1, <3>3, PrecedesUpper DEF between
    <3>5. QED  BY <1>5, <2>1, <2>4, <3>4
  <2>5. ASSUME NEW e \in DOMAIN z, NEW f \in DOMAIN z, Under(e, f)
        PROVE  Under(e, f)'
    BY <1>6, <2>5 DEF Under
  <2>6. \A f \in Live(b)' \ {new, x, y} : f \in Live(b) \ {x, y}
    BY <1>10
  <2>7. /\ x # None => Under(x, new)'
        /\ y # None => Under(new, y)'
    BY <1>6, <2>1, <2>3, <2>4 DEF Under
  <2>8. \A f \in Live(b)' \ {new, x, y} :
          (x # None /\ Under(f, x)') \/ (y # None /\ Under(y, f)')
    BY <1>1, <2>1, <2>5, <2>6 DEF Surrounds
  <2>9. QED  BY <2>7, <2>8
<1> QED BY <1>6, <1>8, <1>9, <1>11, <1>12

(* Deleting an element the board shows. *)
LEMMA DeleteKeeps ==
  ASSUME IInv, NEW b \in Board, Delete(b)
  PROVE  IInv'
<1> USE DEF IInv
<1>1. PICK e \in Live(b) : /\ deleted' = [deleted EXCEPT ![b] = @ \cup {e}]
                           /\ observed' = [observed EXCEPT ![b] = @ \cup {e}]
                           /\ placed' = Nobody
                           /\ UNCHANGED <<z, held>>
  BY DEF Delete
<1>2. e \in held[b] /\ e \in DOMAIN z
  BY <1>1, ShownHasKey DEF Live
<1>3. /\ \A c \in Board : deleted'[c] = IF c = b THEN deleted[c] \cup {e} ELSE deleted[c]
      /\ \A c \in Board : observed'[c] = IF c = b THEN observed[c] \cup {e} ELSE observed[c]
  BY <1>1 DEF Ranges
<1>4. Ranges'
  BY <1>1, <1>2 DEF Ranges
<1>5. TypeOK'
  BY <1>1, <1>2, <1>3 DEF TypeOK
<1>6. MintedInOrder'
  BY <1>1 DEF MintedInOrder, OwnElements
<1>7. CollectedIsSettled'
  BY <1>3 DEF CollectedIsSettled, Settled
<1>8. DeletedStaysGone'
  BY <1>1, <1>3 DEF DeletedStaysGone, Live
<1>9. InsertedWhereAsked'
  BY <1>1 DEF InsertedWhereAsked, Nobody
<1> QED BY <1>4, <1>5, <1>6, <1>7, <1>8, <1>9

(* Merging: what this board forgot having seen it deleted, every board has  *)
(* seen deleted, the sender too, who therefore does not show it.            *)
LEMMA MergeKeeps ==
  ASSUME IInv, NEW b \in Board, NEW c \in Board, Merge(b, c)
  PROVE  IInv'
<1> USE DEF IInv
<1>1. /\ \A d \in Board : held'[d] = IF d = b THEN held[d] \cup held[c] ELSE held[d]
      /\ \A d \in Board : deleted'[d] = IF d = b THEN deleted[d] \cup deleted[c] ELSE deleted[d]
      /\ \A d \in Board : observed'[d] = IF d = b THEN observed[d] \cup deleted[c] ELSE observed[d]
      /\ placed' = Nobody /\ z' = z
  BY DEF Merge, Ranges
<1>2. Ranges'
  <2>1. held[c] \subseteq DOMAIN z /\ deleted[c] \subseteq DOMAIN z
    BY DEF Ranges
  <2>2. held[b] \subseteq DOMAIN z /\ deleted[b] \subseteq DOMAIN z /\ observed[b] \subseteq DOMAIN z
    BY DEF Ranges
  <2>3. QED  BY <2>1, <2>2 DEF Ranges, Merge
<1>3. TypeOK'
  BY <1>1 DEF TypeOK
<1>4. MintedInOrder'
  BY <1>1 DEF MintedInOrder, OwnElements
<1>5. CollectedIsSettled'
  <2>1. \A d \in Board : observed[d] \subseteq observed'[d]
    BY <1>1
  <2>2. \A d \in Board : observed'[d] \ deleted'[d] \subseteq observed[d] \ deleted[d]
    BY <1>1
  <2>3. QED  BY <2>1, <2>2 DEF CollectedIsSettled, Settled
<1>6. DeletedStaysGone'
  <2>1. \A d \in Board : d # b => Live(d)' = Live(d) /\ observed'[d] = observed[d]
    BY <1>1 DEF Live
  <2>2. ASSUME NEW e \in Live(b)', e \in observed'[b]
        PROVE  FALSE
    <3>1. e \notin deleted[b] /\ e \notin deleted[c] /\ e \in observed[b]
      BY <1>1, <2>2 DEF Live
    <3>2. e \in observed[c]
      BY <3>1 DEF CollectedIsSettled, Settled
    <3>3. e \notin held[b] /\ e \notin held[c]
      BY <3>1, <3>2 DEF DeletedStaysGone, Live
    <3>4. QED  BY <1>1, <2>2, <3>3 DEF Live
  <2>3. QED  BY <2>1, <2>2 DEF DeletedStaysGone
<1>7. InsertedWhereAsked'
  BY <1>1 DEF InsertedWhereAsked, Nobody
<1> QED BY <1>2, <1>3, <1>4, <1>5, <1>6, <1>7

(* Collecting the tombstones that every board has seen. *)
LEMMA CollectKeeps ==
  ASSUME IInv, NEW b \in Board, Collect(b)
  PROVE  IInv'
<1> USE DEF IInv
<1>1. PICK old \in SUBSET deleted[b] :
        /\ \A e \in old : Settled(b, e)
        /\ held' = [held EXCEPT ![b] = @ \ old]
        /\ deleted' = [deleted EXCEPT ![b] = @ \ old]
        /\ placed' = Nobody
        /\ UNCHANGED <<z, observed>>
  BY DEF Collect
<1>2. /\ \A d \in Board : held'[d] = IF d = b THEN held[d] \ old ELSE held[d]
      /\ \A d \in Board : deleted'[d] = IF d = b THEN deleted[d] \ old ELSE deleted[d]
  BY <1>1 DEF Ranges
<1>3. Ranges'
  BY <1>1 DEF Ranges
<1>4. TypeOK'
  <2>1. \A d \in Board : /\ held'[d] \subseteq held[d]
                          /\ deleted'[d] \subseteq held'[d] \cap deleted[d]
    BY <1>2 DEF TypeOK
  <2>2. QED  BY <1>1, <2>1 DEF TypeOK
<1>5. MintedInOrder'
  BY <1>1 DEF MintedInOrder, OwnElements
<1>6. CollectedIsSettled'
  <2>1. \A d \in Board : \A e \in observed[d] \ deleted'[d] : e \in old \/ e \in observed[d] \ deleted[d]
    BY <1>2
  <2>2. QED  BY <1>1, <2>1 DEF CollectedIsSettled, Settled
<1>7. DeletedStaysGone'
  <2>1. \A d \in Board : Live(d)' \subseteq Live(d)
    BY <1>1, <1>2 DEF Live
  <2>2. QED  BY <1>1, <2>1 DEF DeletedStaysGone
<1>8. InsertedWhereAsked'
  BY <1>1 DEF InsertedWhereAsked, Nobody
<1> QED BY <1>3, <1>4, <1>5, <1>6, <1>7, <1>8

-----------------------------------------------------------------------------
(* The invariant holds at the start and through every step. *)
LEMMA InitHolds ==
  ASSUME Init
  PROVE  IInv
<1>1. DOMAIN z = {} /\ IsFiniteSet({}) /\ Cardinality({}) = 0
  BY FS_EmptySet DEF Init
<1>2. Ranges
  BY <1>1 DEF Init, Ranges
<1>3. TypeOK
  BY <1>1 DEF Init, TypeOK
<1>4. MintedInOrder
  <2>1. \A b \in Board : OwnElements(b) = {}
    BY <1>1 DEF OwnElements
  <2>2. \A b \in Board : {b} \X (1..0) = {}
    OBVIOUS
  <2>3. QED  BY <1>1, <2>1, <2>2 DEF MintedInOrder
<1>5. CollectedIsSettled /\ DeletedStaysGone
  BY DEF Init, CollectedIsSettled, DeletedStaysGone
<1>6. InsertedWhereAsked
  BY DEF Init, InsertedWhereAsked, Nobody
<1> QED BY <1>2, <1>3, <1>4, <1>5, <1>6 DEF IInv

LEMMA Keeps ==
  ASSUME IInv, [Next]_vars
  PROVE  IInv'
<1>1. CASE UNCHANGED vars
  BY <1>1 DEF vars, IInv, Ranges, TypeOK, MintedInOrder, OwnElements, CollectedIsSettled, Settled,
              DeletedStaysGone, Live, InsertedWhereAsked, Under, KeyOf
<1>2. CASE Next
  <2>1. PICK b \in Board : \/ Create(b) \/ Insert(b) \/ Delete(b) \/ Collect(b)
                           \/ \E c \in Board \ {b} : Merge(b, c)
    BY <1>2 DEF Next
  <2>2. None \notin Live(b)
    BY ShownHasKey DEF IInv
  <2>3. CASE Create(b)
    BY <2>2, <2>3, CreatePlaces, PlaceKeeps
  <2>4. CASE Insert(b)
    BY <2>2, <2>4, InsertPlaces, PlaceKeeps
  <2>5. CASE Delete(b)
    BY <2>5, DeleteKeeps
  <2>6. CASE Collect(b)
    BY <2>6, CollectKeeps
  <2>7. CASE \E c \in Board \ {b} : Merge(b, c)
    BY <2>7, MergeKeeps
  <2>8. QED  BY <2>1, <2>3, <2>4, <2>5, <2>6, <2>7
<1>3. QED  BY <1>1, <1>2

(* In whatever order boards create, place, delete, collect and exchange,    *)
(* for any number of boards, any base and any limit of a text value.        *)
THEOREM BoardsInvariant == Spec => []IInv
<1>1. Init => IInv
  BY InitHolds
<1>2. IInv /\ [Next]_vars => IInv'
  BY Keeps
<1> QED BY <1>1, <1>2, PTL DEF Spec

(* Every key is one that `between` makes, or missing. *)
THEOREM KeysWellFormed == Spec => []TypeOK
<1>1. IInv => TypeOK
  BY DEF IInv
<1> QED BY <1>1, BoardsInvariant, PTL

(* A new element is shown where it was put, whatever was merged or          *)
(* collected before: z_index_for_top and `between` (document.rs, frac.rs).  *)
THEOREM ElementsGoWhereAsked == Spec => []InsertedWhereAsked
<1>1. IInv => InsertedWhereAsked
  BY DEF IInv
<1> QED BY <1>1, BoardsInvariant, PTL

(* Tombstones collected once every board has seen them bring nothing back   *)
(* (Document::collect_tombstones).                                          *)
THEOREM DeletedIsGone == Spec => []DeletedStaysGone
<1>1. IInv => DeletedStaysGone
  BY DEF IInv
<1> QED BY <1>1, BoardsInvariant, PTL

(* All boards paint in one order, elements of one key included              *)
(* (Document::ordered).                                                     *)
THEOREM PaintOrderIsTotal == Spec => []OrderIsTotal
<1>1. ASSUME IInv
      PROVE  OrderIsTotal
  <2>1. SUFFICES ASSUME NEW e \in DOMAIN z, NEW f \in DOMAIN z, e # f
                 PROVE  (Under(e, f) \/ Under(f, e)) /\ ~(Under(e, f) /\ Under(f, e))
    BY DEF OrderIsTotal
  <2>2. z[e] \in Key /\ z[f] \in Key
    BY <1>1 DEF IInv, Ranges
  <2>3. (IdLess(e, f) \/ IdLess(f, e)) /\ ~(IdLess(e, f) /\ IdLess(f, e))
    <3>1. e \in Board \X (1..MaxElements) /\ f \in Board \X (1..MaxElements)
      BY <1>1 DEF IInv, Ranges, Element
    <3>2. e[1] \in Nat /\ e[2] \in Nat /\ f[1] \in Nat /\ f[2] \in Nat
      <4>1. e[1] \in Board /\ f[1] \in Board /\ e[2] \in 1..MaxElements /\ f[2] \in 1..MaxElements
        BY <3>1
      <4>2. 1..MaxElements \subseteq Nat
        BY TextAssumption
      <4>3. QED  BY <4>1, <4>2, BoardAssumption
    <3>3. e[1] # f[1] \/ e[2] # f[2]
      BY <2>1, <3>1
    <3>4. QED  BY <3>2, <3>3 DEF IdLess
  <2>4. CASE z[e] = z[f]
    <3>1. ~Less(z[e], z[f]) /\ ~Less(z[f], z[e])
      BY <2>2, <2>4, LessStrict
    <3>2. QED  BY <2>3, <2>4, <3>1 DEF Under
  <2>5. CASE z[e] # z[f]
    <3>1. (Less(z[e], z[f]) \/ Less(z[f], z[e])) /\ ~(Less(z[e], z[f]) /\ Less(z[f], z[e]))
      BY <2>2, <2>5, LessTotal, LessStrict
    <3>2. QED  BY <2>5, <3>1 DEF Under
  <2>6. QED  BY <2>4, <2>5
<1>2. IInv => OrderIsTotal
  BY <1>1
<1> QED BY <1>2, BoardsInvariant, PTL
=============================================================================
