--------------------------- MODULE DocumentProofs ---------------------------
(***************************************************************************)
(* Facts about stamps and documents that hold for every value of the       *)
(* constants: the order on stamps is total and strict, the generator only  *)
(* moves forward, and applying a batch or merging a document keeps a       *)
(* document the reflection of the operations folded into it.               *)
(***************************************************************************)
EXTENDS Snapshots, FiniteSets, FiniteSetTheorems, WellFoundedInduction, TLAPS

-----------------------------------------------------------------------------
(* The order on stamps. *)

(* Hlc::cmp is a strict total order on stamps: concurrent edits never tie.  *)
LEMMA BeforeIrreflexive == ASSUME NEW s \in Stamp PROVE ~Before(s, s)
  BY DEF Before, Stamp, ActorId

LEMMA BeforeTransitive ==
  ASSUME NEW s \in Stamp, NEW t \in Stamp, NEW u \in Stamp,
         Before(s, t), Before(t, u)
  PROVE  Before(s, u)
  BY DEF Before, Stamp, ActorId

LEMMA BeforeTotal ==
  ASSUME NEW s \in Stamp, NEW t \in Stamp
  PROVE  s = t \/ Before(s, t) \/ Before(t, s)
<1>1. ASSUME s.wall = t.wall, s.counter = t.counter, s.actor = t.actor
      PROVE  s = t
  BY <1>1 DEF Stamp
<1>2. QED BY <1>1 DEF Before, Stamp, ActorId

LEMMA AtMostTransitive ==
  ASSUME NEW s \in Stamp, NEW t \in Stamp, NEW u \in Stamp,
         AtMost(s, t), AtMost(t, u)
  PROVE  AtMost(s, u)
  BY BeforeTransitive DEF AtMost

LEMMA AtMostAntisymmetric ==
  ASSUME NEW s \in Stamp, NEW t \in Stamp, AtMost(s, t), AtMost(t, s)
  PROVE  s = t
  BY BeforeTransitive, BeforeIrreflexive DEF AtMost

-----------------------------------------------------------------------------
(* A finite set with a strict total order has a last element. *)
LEMMA FiniteMaximum ==
  ASSUME NEW T, IsFiniteSet(T), T # {}, NEW R,
         \A x \in T : <<x, x>> \notin R,
         \A x, y, z \in T : <<x, y>> \in R /\ <<y, z>> \in R => <<x, z>> \in R,
         \A x, y \in T : x = y \/ <<x, y>> \in R \/ <<y, x>> \in R
  PROVE  \E m \in T : \A x \in T : x = m \/ <<x, m>> \in R
<1> DEFINE Above(x) == {y \in T : <<x, y>> \in R}
           Uppers   == {Above(x) : x \in T}
<1>1. IsWellFoundedOn(StrictSubsetOrdering(T), SUBSET T)
  BY FS_StrictSubsetOrderingWellFounded, FS_FiniteSubsetsOfFinite
<1>2. Uppers \subseteq SUBSET T /\ Uppers # {}
  <2>1. \A x \in T : Above(x) \in SUBSET T
    OBVIOUS
  <2> HIDE DEF Above
  <2> QED BY <2>1
<1>3. PICK up \in Uppers : \A v \in Uppers : <<v, up>> \notin StrictSubsetOrdering(T)
  <2> HIDE DEF Uppers
  <2> QED BY <1>1, <1>2, WFMin
<1>4. PICK m \in T : up = Above(m)
  BY <1>3
<1>5. ASSUME NEW x \in T, <<m, x>> \in R
      PROVE  FALSE
  <2>1. Above(x) \subseteq Above(m) /\ x \in Above(m) /\ x \notin Above(x)
    BY <1>5
  <2>2. Above(x) \in SUBSET T /\ Above(m) \in SUBSET T
    OBVIOUS
  <2>3. <<Above(x), Above(m)>> \in StrictSubsetOrdering(T)
    <3> HIDE DEF Above
    <3> QED BY <2>1, <2>2 DEF StrictSubsetOrdering
  <2>4. Above(x) \in Uppers
    OBVIOUS
  <2> QED BY <1>3, <1>4, <2>3, <2>4
<1>6. QED BY <1>5

(* Of the indices of a batch, or of the writes in it to one slot, one beats *)
(* the others.                                                              *)
LEMMA SomeIndexBeats ==
  ASSUME NEW n \in Nat, NEW I, I \subseteq 1..n, I # {}, NEW ops,
         \A i \in I : ops[i].stamp \in Stamp
  PROVE  \E m \in I : \A i \in I : Beats(ops, m, i)
<1> DEFINE R == {p \in I \X I : p[1] # p[2] /\ Beats(ops, p[2], p[1])}
<1>1. IsFiniteSet(I)
  <2>1. IsFiniteSet(1..n)
    BY FS_Interval, 1 \in Int, n \in Int
  <2> QED BY <2>1, FS_Subset, I \in SUBSET (1..n)
<1>2. \A i \in I : <<i, i>> \notin R
  OBVIOUS
<1>3. \A i, j \in I : i = j \/ <<i, j>> \in R \/ <<j, i>> \in R
  BY BeforeTotal DEF Beats
<1>4. \A i, j, k \in I : <<i, j>> \in R /\ <<j, k>> \in R => <<i, k>> \in R
  <2>1. SUFFICES ASSUME NEW i \in I, NEW j \in I, NEW k \in I,
                        i # j, Beats(ops, j, i), j # k, Beats(ops, k, j)
                 PROVE  i # k /\ Beats(ops, k, i)
    OBVIOUS
  <2>2. i \in Int /\ j \in Int /\ k \in Int
    OBVIOUS
  <2>3. /\ ops[i].stamp \in Stamp /\ ops[j].stamp \in Stamp /\ ops[k].stamp \in Stamp
    OBVIOUS
  <2>4. Beats(ops, k, i)
    BY <2>1, <2>2, <2>3, BeforeTransitive DEF Beats
  <2>5. i # k
    BY <2>1, <2>2, <2>3, BeforeTransitive, BeforeIrreflexive DEF Beats
  <2> QED BY <2>4, <2>5
<1>5. PICK m \in I : \A i \in I : i = m \/ <<i, m>> \in R
  <2> HIDE DEF R
  <2> QED BY <1>1, <1>2, <1>3, <1>4, FiniteMaximum
<1>6. \A i \in I : Beats(ops, m, i)
  <2>1. Beats(ops, m, m)
    BY DEF Beats
  <2> QED BY <1>5, <2>1
<1> QED BY <1>6

(* Iterator::max over a batch's stamps returns one of them and the latest.  *)
LEMMA HighestOfBatch ==
  ASSUME NEW n \in Nat, n # 0, NEW ops,
         DOMAIN ops = 1..n, \A i \in 1..n : ops[i].stamp \in Stamp,
         NEW stamps, stamps = {ops[i].stamp : i \in DOMAIN ops}
  PROVE  /\ Highest(stamps) \in stamps
         /\ \A s \in stamps : AtMost(s, Highest(stamps))
<1>1. 1..n # {}
  BY 1 \in 1..n
<1>2. PICK m \in 1..n : \A i \in 1..n : Beats(ops, m, i)
  BY <1>1, SomeIndexBeats
<1>3. ops[m].stamp \in stamps /\ \A s \in stamps : AtMost(s, ops[m].stamp)
  BY <1>2 DEF Beats, AtMost
<1>4. QED BY <1>3 DEF Highest

(* The write that apply_all leaves standing in a slot is one of the batch's *)
(* writes to it, and none of them is later.                                 *)
LEMMA LastStandingIsLatest ==
  ASSUME NEW n \in Nat, NEW ops, NEW slot,
         DOMAIN ops = 1..n, \A i \in 1..n : ops[i].stamp \in Stamp,
         slot \in {Slot(ops[i]) : i \in DOMAIN ops}
  PROVE  LET k == LastStanding(ops, slot)
         IN  /\ k \in 1..n
             /\ Slot(ops[k]) = slot
             /\ \A j \in 1..n : Slot(ops[j]) = slot => AtMost(ops[j].stamp, ops[k].stamp)
<1> DEFINE I == Writes(ops, slot)
<1>1. I \subseteq 1..n /\ I # {} /\ \A i \in 1..n : i \in I <=> Slot(ops[i]) = slot
  BY DEF Writes
<1>2. PICK m \in I : \A i \in I : Beats(ops, m, i)
  <2> HIDE DEF I
  <2> QED BY <1>1, SomeIndexBeats
<1>3. /\ LastStanding(ops, slot) \in I
      /\ \A j \in I : Beats(ops, LastStanding(ops, slot), j)
  BY <1>2 DEF LastStanding
<1> HIDE DEF I
<1>4. QED BY <1>1, <1>3 DEF Beats, AtMost

-----------------------------------------------------------------------------
(* Documents as reflections of operation sets. *)

Typed(ops) == \A op \in ops : op.stamp \in Stamp

LEMMA ReflectionIsStamped ==
  ASSUME NEW doc, NEW S, Reflects(doc, S), Typed(S), NEW slot \in DOMAIN doc
  PROVE  doc[slot].stamp \in Stamp
<1>1. PICK op \in S : doc[slot] = Register(op)
  BY DEF Reflects
<1>2. QED BY <1>1 DEF Register, Typed

(* Folding a batch into a document adds the batch to what it reflects: a    *)
(* board's document after Board::record or merge_ops.                       *)
LEMMA ApplyAllReflects ==
  ASSUME NEW doc, NEW S, Reflects(doc, S), Typed(S),
         NEW n \in Nat, NEW ops, DOMAIN ops = 1..n,
         \A i \in 1..n : ops[i].stamp \in Stamp
  PROVE  Reflects(ApplyAll(doc, ops), S \cup {ops[i] : i \in DOMAIN ops})
<1> DEFINE B       == {ops[i] : i \in DOMAIN ops}
           touched == {Slot(ops[i]) : i \in DOMAIN ops}
           new     == ApplyAll(doc, ops)
           last(slot) == ops[LastStanding(ops, slot)]
<1>1. /\ DOMAIN new = DOMAIN doc \cup touched
      /\ \A slot \in DOMAIN new : 
            new[slot] = IF slot \in touched THEN Put(doc, slot, Register(last(slot)))
                                            ELSE doc[slot]
  BY DEF ApplyAll
<1>2. DOMAIN new = {Slot(op) : op \in S \cup B}
  BY <1>1 DEF Reflects
<1>3. \A slot \in touched : /\ last(slot) \in B
                            /\ Slot(last(slot)) = slot
                            /\ \A op \in B : Slot(op) = slot => AtMost(op.stamp, last(slot).stamp)
  BY LastStandingIsLatest
<1>4. \A slot \in DOMAIN doc : doc[slot].stamp \in Stamp
  BY ReflectionIsStamped
<1>5. \A op \in B : op.stamp \in Stamp /\ Slot(op) \in touched
  OBVIOUS
<1> HIDE DEF B, touched, new, last
<1>6. ASSUME NEW slot \in DOMAIN new
      PROVE  \E op \in S \cup B : Slot(op) = slot /\ new[slot] = Register(op)
  <2>1. CASE slot \in touched
    BY <2>1, <1>1, <1>3 DEF Reflects, Put, LwwSet
  <2>2. CASE slot \notin touched
    BY <2>2, <1>1 DEF Reflects
  <2> QED BY <2>1, <2>2
<1>7. ASSUME NEW op \in S \cup B
      PROVE  AtMost(op.stamp, new[Slot(op)].stamp)
  <2> DEFINE slot == Slot(op)
  <2>1. slot \in DOMAIN new
    BY <1>2
  <2>2. op \in S => slot \in DOMAIN doc /\ AtMost(op.stamp, doc[slot].stamp) /\ op.stamp \in Stamp
    BY DEF Reflects, Typed
  <2>3. CASE slot \notin touched
    BY <2>1, <2>2, <2>3, <1>1, <1>5
  <2>4. CASE slot \in touched
    <3>1. /\ last(slot).stamp \in Stamp
          /\ op \in B => AtMost(op.stamp, last(slot).stamp) /\ op.stamp \in Stamp
          /\ Register(last(slot)).stamp = last(slot).stamp
      BY <2>4, <1>3, <1>5 DEF Register
    <3>2. new[slot] = Put(doc, slot, Register(last(slot)))
      BY <2>1, <2>4, <1>1
    <3>3. CASE slot \notin DOMAIN doc
      BY <3>1, <3>2, <3>3, <2>2 DEF Put
    <3>4. CASE slot \in DOMAIN doc /\ Before(doc[slot].stamp, last(slot).stamp)
      <4>1. new[slot].stamp = last(slot).stamp
        BY <3>1, <3>2, <3>4 DEF Put, LwwSet
      <4> QED BY <4>1, <3>1, <3>4, <2>2, <1>4, AtMostTransitive DEF AtMost
    <3>5. CASE slot \in DOMAIN doc /\ ~Before(doc[slot].stamp, last(slot).stamp)
      <4>1. new[slot] = doc[slot]
        BY <3>1, <3>2, <3>5 DEF Put, LwwSet
      <4>2. AtMost(last(slot).stamp, doc[slot].stamp)
        BY <3>1, <3>5, <1>4, BeforeTotal DEF AtMost
      <4> QED BY <4>1, <4>2, <3>1, <3>5, <2>2, <1>4, AtMostTransitive
    <3> QED BY <3>3, <3>4, <3>5
  <2> QED BY <2>3, <2>4
<1>8. Reflects(new, S \cup B)
  BY <1>2, <1>6, <1>7 DEF Reflects
<1> QED BY <1>8 DEF new, B

(* Merging two documents unites what they reflect: the join handshake.      *)
LEMMA MergeReflects ==
  ASSUME NEW doc, NEW S, Reflects(doc, S), Typed(S),
         NEW other, NEW T, Reflects(other, T), Typed(T)
  PROVE  Reflects(Merge(doc, other), S \cup T)
<1> DEFINE new == Merge(doc, other)
<1>1. /\ DOMAIN new = DOMAIN doc \cup DOMAIN other
      /\ \A slot \in DOMAIN new : 
            new[slot] = IF slot \in DOMAIN other THEN Put(doc, slot, other[slot])
                                                 ELSE doc[slot]
  BY DEF Merge
<1>2. DOMAIN new = {Slot(op) : op \in S \cup T}
  BY <1>1 DEF Reflects
<1>3. /\ \A slot \in DOMAIN doc   : doc[slot].stamp \in Stamp
      /\ \A slot \in DOMAIN other : other[slot].stamp \in Stamp
  BY ReflectionIsStamped
<1> HIDE DEF new
<1>4. ASSUME NEW slot \in DOMAIN new
      PROVE  \E op \in S \cup T : Slot(op) = slot /\ new[slot] = Register(op)
  BY <1>1 DEF Reflects, Put, LwwSet
<1>5. ASSUME NEW op \in S \cup T
      PROVE  AtMost(op.stamp, new[Slot(op)].stamp)
  <2> DEFINE slot == Slot(op)
  <2>1. slot \in DOMAIN new
    BY <1>2
  <2>2. /\ op.stamp \in Stamp
        /\ op \in S => slot \in DOMAIN doc /\ AtMost(op.stamp, doc[slot].stamp)
        /\ op \in T => slot \in DOMAIN other /\ AtMost(op.stamp, other[slot].stamp)
    BY DEF Reflects, Typed
  <2> HIDE DEF slot
  <2>3. CASE slot \notin DOMAIN other \/ slot \notin DOMAIN doc
    BY <2>1, <2>2, <2>3, <1>1 DEF Put, slot
  <2>4. CASE slot \in DOMAIN other \cap DOMAIN doc
    <3>1. new[slot] = LwwSet(doc[slot], other[slot])
      BY <2>1, <2>4, <1>1 DEF Put
    <3>2. /\ AtMost(doc[slot].stamp, new[slot].stamp)
          /\ AtMost(other[slot].stamp, new[slot].stamp)
          /\ new[slot].stamp \in Stamp
      BY <3>1, <2>4, <1>3, BeforeTotal DEF LwwSet, AtMost
    <3> QED BY <3>2, <2>2, <2>4, <1>3, AtMostTransitive DEF slot
  <2> QED BY <2>3, <2>4
<1>6. QED BY <1>2, <1>4, <1>5 DEF Reflects, new

(* With no two operations under one stamp, a set of operations has one      *)
(* reflection: this is what makes replicas converge.                        *)
LEMMA ReflectionIsUnique ==
  ASSUME NEW S, Typed(S), DistinctStamps(S),
         NEW doc, NEW other, Reflects(doc, S), Reflects(other, S),
         doc = [slot \in DOMAIN doc |-> doc[slot]],
         other = [slot \in DOMAIN other |-> other[slot]]
  PROVE  doc = other
<1>1. DOMAIN doc = DOMAIN other
  BY DEF Reflects
<1>2. ASSUME NEW slot \in DOMAIN doc
      PROVE  doc[slot] = other[slot]
  <2>1. PICK p \in S : Slot(p) = slot /\ doc[slot] = Register(p)
    BY DEF Reflects
  <2>2. PICK q \in S : Slot(q) = slot /\ other[slot] = Register(q)
    BY <1>1 DEF Reflects
  <2>3. AtMost(q.stamp, p.stamp) /\ AtMost(p.stamp, q.stamp)
    BY <2>1, <2>2 DEF Reflects, Register
  <2>4. p = q
    BY <2>3, AtMostAntisymmetric DEF Typed, DistinctStamps
  <2> QED BY <2>1, <2>2, <2>4
<1>3. QED BY <1>1, <1>2

-----------------------------------------------------------------------------
(* Replaying a log operation by operation. *)

(* A set that has 0 and with every number the next has every number. *)
LEMMA CountingUp ==
  ASSUME NEW S, 0 \in S, \A n \in S : n + 1 \in S, NEW n \in Nat
  PROVE  n \in S
<1> SUFFICES ASSUME n \notin S PROVE FALSE
  OBVIOUS
<1> DEFINE Missing == {x \in 0..n : x \notin S}
           Uppers  == {0..x : x \in Missing}
<1>1. IsWellFoundedOn(StrictSubsetOrdering(0..n), SUBSET (0..n))
  <2>1. IsFiniteSet(0..n)
    BY FS_Interval, 0 \in Int, n \in Int
  <2> QED BY <2>1, FS_StrictSubsetOrderingWellFounded, FS_FiniteSubsetsOfFinite
<1>2. Uppers \subseteq SUBSET (0..n) /\ Uppers # {}
  <2>1. n \in Missing /\ \A x \in Missing : 0..x \subseteq 0..n
    OBVIOUS
  <2> HIDE DEF Missing
  <2> QED BY <2>1
<1>3. PICK up \in Uppers : \A v \in Uppers : <<v, up>> \notin StrictSubsetOrdering(0..n)
  <2> HIDE DEF Uppers
  <2> QED BY <1>1, <1>2, WFMin
<1>4. PICK m \in Missing : up = 0..m
  BY <1>3
<1>5. m \in 0..n /\ m \notin S
  OBVIOUS
<1>6. m # 0 /\ m - 1 \in 0..n /\ (m - 1) + 1 = m
  BY <1>5
<1>7. m - 1 \notin S
  BY <1>5, <1>6
<1>8. /\ m - 1 \in Missing /\ 0..m - 1 \subseteq 0..m /\ m \in 0..m /\ m \notin 0..m - 1
      /\ 0..m - 1 \in SUBSET (0..n) /\ 0..m \in SUBSET (0..n)
  BY <1>5, <1>6, <1>7
<1>9. <<0..m - 1, 0..m>> \in StrictSubsetOrdering(0..n)
  BY <1>8 DEF StrictSubsetOrdering
<1> QED BY <1>3, <1>4, <1>8, <1>9

(* The documents a replay goes through. *)
IsReplay(upTo, ops, n) ==
  upTo = [m \in 0..n |-> IF m = 0 THEN EmptyDocument ELSE Apply(upTo[m - 1], ops[m])]

LEMMA ReplayExists ==
  ASSUME NEW ops, NEW n \in Nat
  PROVE  \E upTo : IsReplay(upTo, ops, n)
<1> DEFINE S == {k \in Nat : \E upTo : IsReplay(upTo, ops, k)}
<1>1. 0 \in S
  <2> DEFINE first == [m \in 0..0 |-> EmptyDocument]
  <2>1. first = [m \in 0..0 |-> IF m = 0 THEN EmptyDocument ELSE Apply(first[m - 1], ops[m])]
    OBVIOUS
  <2> HIDE DEF first
  <2> QED BY <2>1 DEF IsReplay
<1>2. ASSUME NEW k \in S
      PROVE  k + 1 \in S
  <2>1. PICK f : IsReplay(f, ops, k)
    OBVIOUS
  <2> DEFINE g == [m \in 0..k + 1 |-> IF m <= k THEN f[m] ELSE Apply(f[k], ops[k + 1])]
  <2>2. k \in Nat
    OBVIOUS
  <2>3. ASSUME NEW m \in 0..k + 1
        PROVE  g[m] = IF m = 0 THEN EmptyDocument ELSE Apply(g[m - 1], ops[m])
    <3>1. CASE m = 0
      BY <2>1, <2>2, <3>1 DEF IsReplay
    <3>2. CASE m \in 1..k
      <4>1. m \in 0..k /\ m - 1 \in 0..k /\ m # 0 /\ m <= k /\ m - 1 <= k /\ m - 1 \in 0..k + 1
        BY <2>2, <3>2
      <4>2. f[m] = Apply(f[m - 1], ops[m])
        BY <2>1, <4>1 DEF IsReplay
      <4>3. g[m] = f[m] /\ g[m - 1] = f[m - 1]
        BY <4>1
      <4> HIDE DEF g
      <4> QED BY <4>1, <4>2, <4>3
    <3>3. CASE m = k + 1
      <4>1. m # 0 /\ ~(m <= k) /\ m - 1 = k /\ k <= k /\ k \in 0..k + 1
        BY <2>2, <3>3
      <4>2. g[m] = Apply(f[k], ops[k + 1]) /\ g[k] = f[k]
        BY <4>1
      <4> HIDE DEF g
      <4> QED BY <3>3, <4>1, <4>2
    <3> QED BY <2>2, <3>1, <3>2, <3>3
  <2>4. g = [m \in 0..k + 1 |-> IF m = 0 THEN EmptyDocument ELSE Apply(g[m - 1], ops[m])]
    <3>1. DOMAIN g = 0..k + 1 /\ g = [m \in 0..k + 1 |-> g[m]]
      OBVIOUS
    <3> HIDE DEF g
    <3> QED BY <2>3, <3>1
  <2> HIDE DEF g
  <2>5. IsReplay(g, ops, k + 1)
    BY <2>4 DEF IsReplay
  <2> QED BY <2>2, <2>5
<1>3. n \in S
  <2> HIDE DEF S
  <2> QED BY <1>1, <1>2, CountingUp
<1> QED BY <1>3

LEMMA ReplayedIsLast ==
  ASSUME NEW ops, Len(ops) \in Nat
  PROVE  \E upTo : IsReplay(upTo, ops, Len(ops)) /\ Replayed(ops) = upTo[Len(ops)]
<1> DEFINE upTo == CHOOSE f : IsReplay(f, ops, Len(ops))
<1>1. IsReplay(upTo, ops, Len(ops))
  BY ReplayExists
<1>2. Replayed(ops) = upTo[Len(ops)]
  BY DEF Replayed, IsReplay
<1> QED BY <1>1, <1>2

IsFunction(doc) == doc = [slot \in DOMAIN doc |-> doc[slot]]

(* Folding one operation, the step of the loop of op::apply_all. *)
LEMMA ApplyReflects ==
  ASSUME NEW doc, NEW S, Reflects(doc, S), Typed(S), NEW op, op.stamp \in Stamp
  PROVE  Reflects(Apply(doc, op), S \cup {op}) /\ IsFunction(Apply(doc, op))
<1> DEFINE other == [slot \in {Slot(op)} |-> Register(op)]
<1>1. Reflects(other, {op})
  BY DEF Reflects, Register, AtMost
<1>2. Apply(doc, op) = Merge(doc, other)
  BY DEF Apply, Merge
<1>3. Typed({op})
  BY DEF Typed
<1> HIDE DEF other
<1>4. Reflects(Merge(doc, other), S \cup {op})
  BY <1>1, <1>3, MergeReflects
<1>5. IsFunction(Apply(doc, op))
  BY DEF IsFunction, Apply
<1> QED BY <1>2, <1>4, <1>5

(* A log replayed one by one reflects its operations. *)
LEMMA ReplayReflects ==
  ASSUME NEW ops, NEW n \in Nat, Len(ops) = n, DOMAIN ops = 1..n,
         \A i \in 1..n : ops[i].stamp \in Stamp
  PROVE  /\ Reflects(Replayed(ops), {ops[i] : i \in DOMAIN ops})
         /\ IsFunction(Replayed(ops))
<1>1. PICK upTo : IsReplay(upTo, ops, n) /\ Replayed(ops) = upTo[n]
  BY ReplayedIsLast
<1> DEFINE Good(k) == Reflects(upTo[k], {ops[i] : i \in 1..k}) /\ IsFunction(upTo[k])
           S == {k \in Nat : k <= n => Good(k)}
<1>2. 0 \in S
  <2>1. upTo[0] = EmptyDocument
    BY <1>1, 0 \in 0..n DEF IsReplay
  <2>2. Reflects(EmptyDocument, {}) /\ IsFunction(EmptyDocument)
    BY DEF Reflects, IsFunction, EmptyDocument
  <2>3. {ops[i] : i \in 1..0} = {}
    OBVIOUS
  <2> QED BY <2>1, <2>2, <2>3
<1> HIDE DEF Good
<1>3. ASSUME NEW k \in S
      PROVE  k + 1 \in S
  <2> SUFFICES ASSUME k + 1 <= n PROVE Good(k + 1)
    OBVIOUS
  <2>1. k \in Nat /\ k <= n /\ k + 1 \in 1..n /\ k + 1 \in 0..n /\ (k + 1) - 1 = k /\ k + 1 # 0
    OBVIOUS
  <2>2. Good(k)
    BY <2>1
  <2>3. upTo[k + 1] = Apply(upTo[k], ops[k + 1])
    BY <1>1, <2>1 DEF IsReplay
  <2>4. Typed({ops[i] : i \in 1..k}) /\ ops[k + 1].stamp \in Stamp
    BY <2>1 DEF Typed
  <2>5. {ops[i] : i \in 1..k + 1} = {ops[i] : i \in 1..k} \cup {ops[k + 1]}
    BY <2>1
  <2>6. /\ Reflects(Apply(upTo[k], ops[k + 1]), {ops[i] : i \in 1..k} \cup {ops[k + 1]})
        /\ IsFunction(Apply(upTo[k], ops[k + 1]))
    BY <2>2, <2>4, ApplyReflects DEF Good
  <2> QED BY <2>3, <2>5, <2>6 DEF Good
<1>4. n \in S
  <2> HIDE DEF S
  <2> QED BY <1>2, <1>3, CountingUp
<1>5. Good(n)
  BY <1>4
<1> QED BY <1>1, <1>5 DEF Good

-----------------------------------------------------------------------------
(* Snapshots. *)

Stamps(ops) == {op.stamp : op \in ops}

(* `through` is the highest stamp folded in, and missing as long as nothing *)
(* was.                                                                     *)
Topped(through, stamps) ==
  \/ through = {} /\ stamps = {}
  \/ \E m \in stamps : through = {m} /\ \A s \in stamps : AtMost(s, m)

LEMMA HighestIsTop ==
  ASSUME NEW T, T \subseteq Stamp, NEW m \in T, \A s \in T : AtMost(s, m)
  PROVE  Highest(T) = m
<1>1. Highest(T) \in T /\ \A s \in T : AtMost(s, Highest(T))
  BY DEF Highest
<1> QED BY <1>1, AtMostAntisymmetric

(* Absorbing a batch and merging a snapshot alike: `others` are stamps of B *)
(* with the highest of them.                                                *)
LEMMA HighestThroughIsTop ==
  ASSUME NEW through, NEW A, A \subseteq Stamp, Topped(through, A),
         NEW B, B \subseteq Stamp, NEW others, others \subseteq B,
         (B = {}) \/ (\E m \in others : \A s \in B : AtMost(s, m))
  PROVE  Topped(HighestThrough(through, others), A \cup B)
<1>1. CASE B = {}
  <2>1. CASE A = {}
    BY <1>1, <2>1 DEF Topped, HighestThrough
  <2>2. CASE A # {}
    <3>1. PICK m \in A : through = {m} /\ \A s \in A : AtMost(s, m)
      BY <2>2 DEF Topped
    <3>2. Highest({m}) = m
      BY HighestIsTop DEF AtMost
    <3> QED BY <1>1, <3>1, <3>2 DEF Topped, HighestThrough
  <2> QED BY <2>1, <2>2
<1>2. CASE B # {}
  <2>1. PICK m \in others : \A s \in B : AtMost(s, m)
    BY <1>2
  <2> DEFINE T == through \cup others
  <2>2. T \subseteq A \cup B /\ T # {} /\ T \subseteq Stamp
    BY <2>1 DEF Topped
  <2>3. \E top \in T : \A s \in A \cup B : AtMost(s, top)
    <3>1. CASE A = {}
      BY <2>1, <3>1
    <3>2. CASE A # {}
      <4>1. PICK l \in A : through = {l} /\ \A s \in A : AtMost(s, l)
        BY <3>2 DEF Topped
      <4>2. AtMost(l, m) \/ AtMost(m, l)
        BY <2>1, BeforeTotal DEF AtMost
      <4>3. CASE AtMost(l, m)
        BY <2>1, <4>1, <4>3, AtMostTransitive
      <4>4. CASE AtMost(m, l)
        BY <2>1, <4>1, <4>4, AtMostTransitive
      <4> QED BY <4>2, <4>3, <4>4
    <3> QED BY <3>1, <3>2
  <2>4. PICK top \in T : \A s \in A \cup B : AtMost(s, top)
    BY <2>3
  <2>5. Highest(T) = top
    <3> HIDE DEF T
    <3> QED BY <2>2, <2>4, HighestIsTop
  <2>6. HighestThrough(through, others) = {top}
    BY <2>2, <2>5 DEF HighestThrough
  <2> QED BY <2>2, <2>4, <2>6 DEF Topped
<1> QED BY <1>1, <1>2

LEMMA TopIsUnique ==
  ASSUME NEW T, NEW U, NEW stamps, stamps \subseteq Stamp, Topped(T, stamps), Topped(U, stamps)
  PROVE  T = U
  BY AtMostAntisymmetric DEF Topped

(* What a reader has read, its document and how far it got, in step. *)
SnapshotIInv ==
  /\ DOMAIN snapshot = Reader
  /\ \A r \in Reader : /\ Reflects(snapshot[r].document, OpsRead(r))
                       /\ IsFunction(snapshot[r].document)
                       /\ Topped(snapshot[r].through, Stamps(OpsRead(r)))
  /\ read \in [Reader -> Seq(Log)]

LEMMA LogIsStamped ==
  ASSUME NEW ops \in Seq(Log)
  PROVE  /\ Len(ops) \in Nat /\ DOMAIN ops = 1..Len(ops)
         /\ \A i \in 1..Len(ops) : ops[i] \in Log /\ ops[i].stamp \in Stamp
  BY LogAssumption

LEMMA ReadIsStamped ==
  ASSUME SnapshotIInv, NEW r \in Reader
  PROVE  /\ Typed(OpsRead(r)) /\ OpsRead(r) \subseteq Log
         /\ Stamps(OpsRead(r)) \subseteq Stamp
         /\ DistinctStamps(OpsRead(r))
<1>1. read[r] \in Seq(Log)
  BY DEF SnapshotIInv
<1>2. OpsRead(r) \subseteq Log
  BY <1>1, LogIsStamped DEF OpsRead
<1> QED BY <1>2, LogAssumption DEF Typed, Stamps, DistinctStamps

(* Reading on: more operations after those read. *)
LEMMA ReadsOn ==
  ASSUME SnapshotIInv, NEW r \in Reader, NEW ops \in Seq(Log),
         read' = [read EXCEPT ![r] = @ \o ops]
  PROVE  /\ read' \in [Reader -> Seq(Log)]
         /\ OpsRead(r)' = OpsRead(r) \cup {ops[i] : i \in DOMAIN ops}
         /\ \A q \in Reader \ {r} : OpsRead(q)' = OpsRead(q)
<1>1. read[r] \in Seq(Log) /\ read \in [Reader -> Seq(Log)]
  BY DEF SnapshotIInv
<1> DEFINE both == read[r] \o ops
<1>2. both \in Seq(Log) /\ read'[r] = both
  BY <1>1
<1>3. {both[i] : i \in DOMAIN both} = {read[r][i] : i \in DOMAIN read[r]} \cup {ops[i] : i \in DOMAIN ops}
  <2>1. /\ Len(read[r]) \in Nat /\ Len(ops) \in Nat
        /\ DOMAIN read[r] = 1..Len(read[r]) /\ DOMAIN ops = 1..Len(ops)
        /\ DOMAIN both = 1..Len(read[r]) + Len(ops)
    BY <1>1
  <2>2. \A i \in 1..Len(read[r]) : i \in DOMAIN both /\ both[i] = read[r][i]
    BY <1>1, <2>1
  <2>3. \A i \in 1..Len(ops) : Len(read[r]) + i \in DOMAIN both /\ both[Len(read[r]) + i] = ops[i]
    BY <1>1, <2>1
  <2>4. \A i \in DOMAIN both : \/ i \in 1..Len(read[r])
                               \/ \E j \in 1..Len(ops) : i = Len(read[r]) + j
    <3>1. ASSUME NEW i \in DOMAIN both, i \notin 1..Len(read[r])
          PROVE  i - Len(read[r]) \in 1..Len(ops) /\ i = Len(read[r]) + (i - Len(read[r]))
      BY <2>1, <3>1
    <3> QED BY <3>1
  <2> HIDE DEF both
  <2>5. \A i \in DOMAIN both : both[i] \in {read[r][j] : j \in DOMAIN read[r]} \cup {ops[j] : j \in DOMAIN ops}
    <3>1. ASSUME NEW i \in DOMAIN both
          PROVE  both[i] \in {read[r][j] : j \in DOMAIN read[r]} \cup {ops[j] : j \in DOMAIN ops}
      <4>1. CASE i \in 1..Len(read[r])
        BY <2>1, <2>2, <4>1
      <4>2. CASE \E j \in 1..Len(ops) : i = Len(read[r]) + j
        BY <2>1, <2>3, <4>2
      <4> QED BY <2>4, <4>1, <4>2
    <3> QED BY <3>1
  <2>6. \A j \in DOMAIN read[r] : read[r][j] \in {both[i] : i \in DOMAIN both}
    BY <2>1, <2>2
  <2>7. \A j \in DOMAIN ops : ops[j] \in {both[i] : i \in DOMAIN both}
    BY <2>1, <2>3
  <2> QED BY <2>5, <2>6, <2>7
<1>4. read' \in [Reader -> Seq(Log)]
  BY <1>1, <1>2
<1>5. \A q \in Reader \ {r} : read'[q] = read[q]
  BY <1>1
<1> HIDE DEF both
<1> QED BY <1>2, <1>3, <1>4, <1>5 DEF OpsRead

(* One reader's snapshot becomes another in step with what it has read. *)
LEMMA SnapshotReplaced ==
  ASSUME SnapshotIInv, NEW r \in Reader, NEW s,
         snapshot' = [snapshot EXCEPT ![r] = s],
         Reflects(s.document, OpsRead(r)'), IsFunction(s.document),
         Topped(s.through, Stamps(OpsRead(r)')),
         read' \in [Reader -> Seq(Log)],
         \A q \in Reader \ {r} : OpsRead(q)' = OpsRead(q)
  PROVE  SnapshotIInv'
<1>1. /\ DOMAIN snapshot' = Reader /\ snapshot'[r] = s
      /\ \A q \in Reader \ {r} : snapshot'[q] = snapshot[q]
  BY DEF SnapshotIInv
<1>2. ASSUME NEW q \in Reader
      PROVE  /\ Reflects(snapshot'[q].document, OpsRead(q)')
             /\ IsFunction(snapshot'[q].document)
             /\ Topped(snapshot'[q].through, Stamps(OpsRead(q)'))
  <2>1. CASE q = r
    BY <1>1, <2>1
  <2>2. CASE q # r
    BY <1>1, <2>2 DEF SnapshotIInv
  <2> QED BY <2>1, <2>2
<1> QED BY <1>1, <1>2 DEF SnapshotIInv

LEMMA ReadBatchKeeps ==
  ASSUME SnapshotIInv, NEW r \in Reader, ReadBatch(r)
  PROVE  SnapshotIInv'
<1>0. PICK n \in 1..MaxBatch : \E ops \in [1..n -> Log] :
        /\ snapshot' = [snapshot EXCEPT ![r] = Absorb(@, ops)]
        /\ read' = [read EXCEPT ![r] = @ \o ops]
  BY DEF ReadBatch
<1>1. PICK ops \in [1..n -> Log] :
        /\ snapshot' = [snapshot EXCEPT ![r] = Absorb(@, ops)]
        /\ read' = [read EXCEPT ![r] = @ \o ops]
  BY <1>0
<1>2. n \in Nat /\ ops \in Seq(Log) /\ Len(ops) = n /\ DOMAIN ops = 1..n
  BY ReadAssumption
<1>3. \A i \in 1..n : ops[i].stamp \in Stamp
  BY <1>2, LogIsStamped
<1> DEFINE B  == {ops[i] : i \in DOMAIN ops}
           SB == {ops[i].stamp : i \in DOMAIN ops}
<1>4. PICK s : s = Absorb(snapshot[r], ops)
  OBVIOUS
<1>5. /\ s.document = ApplyAll(snapshot[r].document, ops)
      /\ s.through = HighestThrough(snapshot[r].through, SB)
  BY <1>4 DEF Absorb
<1>6. snapshot' = [snapshot EXCEPT ![r] = s]
  BY <1>1, <1>4 DEF SnapshotIInv
<1>7. /\ read' \in [Reader -> Seq(Log)] /\ OpsRead(r)' = OpsRead(r) \cup B
      /\ \A q \in Reader \ {r} : OpsRead(q)' = OpsRead(q)
  BY <1>1, <1>2, ReadsOn
<1>8. Reflects(s.document, OpsRead(r) \cup B) /\ IsFunction(s.document)
  <2>1. Reflects(s.document, OpsRead(r) \cup B)
    <3>1. PICK doc : doc = snapshot[r].document
      OBVIOUS
    <3>2. PICK S : S = OpsRead(r)
      OBVIOUS
    <3>3. Reflects(doc, S) /\ Typed(S)
      BY <3>1, <3>2, ReadIsStamped DEF SnapshotIInv
    <3>4. Reflects(ApplyAll(doc, ops), S \cup {ops[i] : i \in DOMAIN ops})
      BY <1>2, <1>3, <3>3, ApplyAllReflects
    <3> QED BY <1>5, <3>1, <3>2, <3>4
  <2>2. IsFunction(s.document)
    BY <1>5 DEF IsFunction, ApplyAll
  <2> QED BY <2>1, <2>2
<1>9. Topped(s.through, Stamps(OpsRead(r) \cup B))
  <2>1. Stamps(OpsRead(r) \cup B) = Stamps(OpsRead(r)) \cup SB
    BY DEF Stamps
  <2>2. SB \subseteq Stamp
    BY <1>2, <1>3
  <2>3. \E m \in SB : \A t \in SB : AtMost(t, m)
    <3>1. n # 0
      OBVIOUS
    <3>2. PICK stamps : stamps = SB
      OBVIOUS
    <3>3. Highest(stamps) \in stamps /\ \A t \in stamps : AtMost(t, Highest(stamps))
      BY <1>2, <1>3, <3>1, <3>2, HighestOfBatch
    <3> QED BY <3>2, <3>3
  <2> HIDE DEF SB, B
  <2>4. Topped(snapshot[r].through, Stamps(OpsRead(r))) /\ Stamps(OpsRead(r)) \subseteq Stamp
    BY ReadIsStamped DEF SnapshotIInv
  <2>5. Topped(HighestThrough(snapshot[r].through, SB), Stamps(OpsRead(r)) \cup SB)
    BY <2>2, <2>3, <2>4, HighestThroughIsTop
  <2> QED BY <1>5, <2>1, <2>5
<1> HIDE DEF B, SB
<1> QED BY <1>6, <1>7, <1>8, <1>9, SnapshotReplaced

LEMMA MergeFromKeeps ==
  ASSUME SnapshotIInv, NEW r \in Reader, NEW q \in Reader, MergeFrom(r, q)
  PROVE  SnapshotIInv'
<1>1. /\ snapshot' = [snapshot EXCEPT ![r] = MergeSnapshot(@, snapshot[q])]
      /\ read' = [read EXCEPT ![r] = @ \o read[q]]
  BY DEF MergeFrom
<1>2. PICK s : s = MergeSnapshot(snapshot[r], snapshot[q])
  OBVIOUS
<1>3. /\ s.document = Merge(snapshot[r].document, snapshot[q].document)
      /\ s.through = HighestThrough(snapshot[r].through, snapshot[q].through)
  BY <1>2 DEF MergeSnapshot
<1>4. snapshot' = [snapshot EXCEPT ![r] = s]
  BY <1>1, <1>2 DEF SnapshotIInv
<1>5. /\ read' \in [Reader -> Seq(Log)] /\ OpsRead(r)' = OpsRead(r) \cup OpsRead(q)
      /\ \A p \in Reader \ {r} : OpsRead(p)' = OpsRead(p)
  <2>1. read[q] \in Seq(Log)
    BY DEF SnapshotIInv
  <2>2. PICK ops : ops = read[q]
    OBVIOUS
  <2>3. /\ read' \in [Reader -> Seq(Log)]
        /\ OpsRead(r)' = OpsRead(r) \cup {ops[i] : i \in DOMAIN ops}
        /\ \A p \in Reader \ {r} : OpsRead(p)' = OpsRead(p)
    <3>1. ops \in Seq(Log) /\ read' = [read EXCEPT ![r] = @ \o ops]
      BY <1>1, <2>1, <2>2 DEF SnapshotIInv
    <3> QED BY <3>1, ReadsOn
  <2> QED BY <2>2, <2>3 DEF OpsRead
<1>6. Reflects(s.document, OpsRead(r) \cup OpsRead(q)) /\ IsFunction(s.document)
  <2>1. Reflects(s.document, OpsRead(r) \cup OpsRead(q))
    BY <1>3, ReadIsStamped, MergeReflects DEF SnapshotIInv
  <2>2. IsFunction(s.document)
    BY <1>3 DEF IsFunction, Merge
  <2> QED BY <2>1, <2>2
<1>7. Topped(s.through, Stamps(OpsRead(r) \cup OpsRead(q)))
  <2>1. Stamps(OpsRead(r) \cup OpsRead(q)) = Stamps(OpsRead(r)) \cup Stamps(OpsRead(q))
    BY DEF Stamps
  <2>2. /\ Topped(snapshot[r].through, Stamps(OpsRead(r)))
        /\ Topped(snapshot[q].through, Stamps(OpsRead(q)))
    BY DEF SnapshotIInv
  <2>3. /\ snapshot[q].through \subseteq Stamps(OpsRead(q))
        /\ \/ Stamps(OpsRead(q)) = {}
           \/ \E m \in snapshot[q].through : \A t \in Stamps(OpsRead(q)) : AtMost(t, m)
    BY <2>2 DEF Topped
  <2>4. Stamps(OpsRead(r)) \subseteq Stamp /\ Stamps(OpsRead(q)) \subseteq Stamp
    BY ReadIsStamped
  <2>5. Topped(HighestThrough(snapshot[r].through, snapshot[q].through),
               Stamps(OpsRead(r)) \cup Stamps(OpsRead(q)))
    BY <2>2, <2>3, <2>4, HighestThroughIsTop
  <2> QED BY <1>3, <2>1, <2>5
<1> QED BY <1>4, <1>5, <1>6, <1>7, SnapshotReplaced

LEMMA SnapshotsStart == SnapshotInit => SnapshotIInv
<1> SUFFICES ASSUME SnapshotInit PROVE SnapshotIInv
  OBVIOUS
<1>1. \A r \in Reader : OpsRead(r) = {}
  BY DEF SnapshotInit, OpsRead
<1>2. \A r \in Reader : snapshot[r].document = EmptyDocument /\ snapshot[r].through = {}
  BY DEF SnapshotInit, EmptySnapshot
<1>3. Reflects(EmptyDocument, {}) /\ IsFunction(EmptyDocument)
  BY DEF Reflects, IsFunction, EmptyDocument
<1>4. Topped({}, Stamps({}))
  BY DEF Topped, Stamps
<1>5. DOMAIN snapshot = Reader /\ read \in [Reader -> Seq(Log)]
  <2>1. <<>> \in Seq(Log)
    OBVIOUS
  <2> QED BY <2>1 DEF SnapshotInit
<1>6. \A r \in Reader : Reflects(snapshot[r].document, OpsRead(r)) /\ IsFunction(snapshot[r].document)
  BY <1>1, <1>2, <1>3
<1>7. \A r \in Reader : Topped(snapshot[r].through, Stamps(OpsRead(r)))
  BY <1>1, <1>2, <1>4
<1> QED BY <1>5, <1>6, <1>7 DEF SnapshotIInv

LEMMA SnapshotsStep == SnapshotIInv /\ [SnapshotNext]_svars => SnapshotIInv'
<1> SUFFICES ASSUME SnapshotIInv, [SnapshotNext]_svars PROVE SnapshotIInv'
  OBVIOUS
<1>1. CASE UNCHANGED svars
  BY <1>1 DEF svars, SnapshotIInv, OpsRead
<1> QED BY <1>1, ReadBatchKeeps, MergeFromKeeps DEF SnapshotNext

(* However readers cut a log into batches, snapshots and merges, and in     *)
(* whatever order and with whatever repetitions they fold it, each document *)
(* is what the loop of op::apply_all makes of the operations another reader *)
(* of the same ones folded (Snapshot::absorb, Snapshot::merge).             *)
THEOREM SnapshotsReplay == SnapshotSpec => []SnapshotIsReplay
<1>1. ASSUME SnapshotIInv
      PROVE  SnapshotIsReplay
  <2>1. SUFFICES ASSUME NEW r \in Reader, NEW q \in Reader, OpsRead(r) = OpsRead(q)
                 PROVE  /\ snapshot[r].document = Replayed(read[q])
                        /\ snapshot[r].through = snapshot[q].through
    BY DEF SnapshotIsReplay
  <2>2. read[q] \in Seq(Log)
    BY <1>1 DEF SnapshotIInv
  <2>3. Reflects(Replayed(read[q]), OpsRead(r)) /\ IsFunction(Replayed(read[q]))
    <3>1. PICK n, ops : n = Len(read[q]) /\ ops = read[q]
      OBVIOUS
    <3>2. n \in Nat /\ Len(ops) = n /\ DOMAIN ops = 1..n /\ \A i \in 1..n : ops[i].stamp \in Stamp
      BY <2>2, <3>1, LogIsStamped
    <3>3. Reflects(Replayed(ops), {ops[i] : i \in DOMAIN ops}) /\ IsFunction(Replayed(ops))
      BY <3>2, ReplayReflects
    <3> QED BY <2>1, <3>1, <3>3 DEF OpsRead
  <2>4. Reflects(snapshot[r].document, OpsRead(r)) /\ IsFunction(snapshot[r].document)
    BY <1>1 DEF SnapshotIInv
  <2>5. Typed(OpsRead(r)) /\ DistinctStamps(OpsRead(r)) /\ Stamps(OpsRead(r)) \subseteq Stamp
    BY <1>1, ReadIsStamped
  <2>6. snapshot[r].document = Replayed(read[q])
    BY <2>3, <2>4, <2>5, ReflectionIsUnique DEF IsFunction
  <2>7. /\ Topped(snapshot[r].through, Stamps(OpsRead(r)))
        /\ Topped(snapshot[q].through, Stamps(OpsRead(r)))
    BY <1>1, <2>1 DEF SnapshotIInv
  <2> QED BY <2>5, <2>6, <2>7, TopIsUnique
<1>2. SnapshotIInv => SnapshotIsReplay
  BY <1>1
<1> QED BY <1>2, SnapshotsStart, SnapshotsStep, PTL DEF SnapshotSpec

(* Everything folded in is covered, in whatever order it came               *)
(* (Snapshot::covers).                                                      *)
THEOREM SnapshotsCover == SnapshotSpec => []AbsorbedIsCovered
<1>1. ASSUME SnapshotIInv
      PROVE  AbsorbedIsCovered
  <2>1. SUFFICES ASSUME NEW r \in Reader, NEW op \in OpsRead(r)
                 PROVE  Covers(snapshot[r], op)
    BY DEF AbsorbedIsCovered
  <2>2. op.stamp \in Stamps(OpsRead(r)) /\ Topped(snapshot[r].through, Stamps(OpsRead(r)))
    BY <1>1 DEF SnapshotIInv, Stamps
  <2> QED BY <2>2 DEF Topped, Covers
<1>2. SnapshotIInv => AbsorbedIsCovered
  BY <1>1
<1> QED BY <1>2, SnapshotsStart, SnapshotsStep, PTL DEF SnapshotSpec
=============================================================================
