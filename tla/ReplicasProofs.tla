--------------------------- MODULE ReplicasProofs ---------------------------
(***************************************************************************)
(* Replicas converge, for any number of boards, any edits, any clocks and  *)
(* any delivery: the invariant the properties of Replicas follow from, and *)
(* its proof.                                                              *)
(***************************************************************************)
EXTENDS Replicas, DocumentProofs

-----------------------------------------------------------------------------
(* The generator. *)

(* CounterRoom with the generator as a parameter. *)
Room(last, now, n) ==
  (IF now > last.wall THEN n - 1 ELSE last.counter + n) <= MaxCounter

(* Consecutive ticks at one reading of the clock, while the counter does    *)
(* not saturate.                                                            *)
LEMMA TickTimesIs ==
  ASSUME NEW last \in Stamp, NEW now \in Nat, NEW n \in Nat, n # 0, Room(last, now, n)
  PROVE  TickTimes(last, now, n) =
           [wall    |-> IF now > last.wall THEN now ELSE last.wall,
            counter |-> IF now > last.wall THEN n - 1 ELSE last.counter + n,
            actor   |-> last.actor]
<1> USE MaxCounterAssumption
<1>1. last = [wall |-> last.wall, counter |-> last.counter, actor |-> last.actor]
      /\ last.wall \in Nat /\ last.counter \in 0..MaxCounter /\ last.actor \in ActorId
  BY DEF Stamp
<1>2. Later(now, last.wall) = IF now > last.wall THEN now ELSE last.wall
  BY <1>1 DEF Later
<1>3. CASE now > last.wall
  <2>1. Tick(last, now) = [wall |-> now, counter |-> 0, actor |-> last.actor]
    BY <1>1, <1>2, <1>3 DEF Tick
  <2>2. SaturatingAdd(0, n - 1) = n - 1
    BY <1>3 DEF SaturatingAdd, Room
  <2> QED BY <2>1, <2>2, <1>3 DEF TickTimes
<1>4. CASE ~(now > last.wall)
  <2>1. Tick(last, now) = [wall |-> last.wall, counter |-> last.counter + 1, actor |-> last.actor]
    BY <1>1, <1>2, <1>4 DEF Tick, SaturatingAdd, Room
  <2>2. SaturatingAdd(last.counter + 1, n - 1) = last.counter + n
    BY <1>1, <1>4 DEF SaturatingAdd, Room
  <2> QED BY <2>1, <2>2, <1>4 DEF TickTimes
<1> QED BY <1>3, <1>4

(* Fresh stamps: a batch of ticks moves strictly past the generator, no two *)
(* ticks agree, and the generator ends at the last of them.                 *)
LEMMA TicksAreFresh ==
  ASSUME NEW last \in Stamp, NEW now \in Nat, NEW n \in Nat, Room(last, now, n)
  PROVE  /\ TickTimes(last, now, n) \in Stamp
         /\ TickTimes(last, now, n).actor = last.actor
         /\ Reaches(TickTimes(last, now, n), last)
         /\ \A i \in 1..n :
              LET s == TickTimes(last, now, i)
              IN  /\ s \in Stamp /\ s.actor = last.actor
                  /\ ~Reaches(last, s)
                  /\ Reaches(TickTimes(last, now, n), s)
                  /\ \A j \in 1..n : TickTimes(last, now, j) = s => i = j
<1> USE MaxCounterAssumption
<1>1. last.wall \in Nat /\ last.counter \in 0..MaxCounter /\ last.actor \in ActorId
  BY DEF Stamp
<1>2. ASSUME NEW i \in 1..n
      PROVE  TickTimes(last, now, i) =
               [wall    |-> IF now > last.wall THEN now ELSE last.wall,
                counter |-> IF now > last.wall THEN i - 1 ELSE last.counter + i,
                actor   |-> last.actor]
             /\ (IF now > last.wall THEN i - 1 ELSE last.counter + i) \in 0..MaxCounter
  <2>1. i \in Nat /\ i # 0 /\ Room(last, now, i)
    BY <1>1 DEF Room
  <2>2. (IF now > last.wall THEN i - 1 ELSE last.counter + i) \in 0..MaxCounter
    BY <1>1, <2>1 DEF Room
  <2> QED BY <2>1, <2>2, TickTimesIs
<1>3. ASSUME NEW i \in 1..n
      PROVE  /\ TickTimes(last, now, i) \in Stamp
             /\ TickTimes(last, now, i).actor = last.actor
             /\ ~Reaches(last, TickTimes(last, now, i))
             /\ \A j \in 1..n : TickTimes(last, now, j) = TickTimes(last, now, i) => i = j
  BY <1>1, <1>2 DEF Stamp, Reaches
<1>4. CASE n = 0
  BY <1>1, <1>4 DEF TickTimes, Reaches
<1>5. CASE n # 0
  <2>1. n \in 1..n
    BY <1>5
  <2>2. Reaches(TickTimes(last, now, n), last)
    BY <1>1, <1>2, <2>1 DEF Reaches
  <2>3. \A i \in 1..n : Reaches(TickTimes(last, now, n), TickTimes(last, now, i))
    BY <1>1, <1>2, <2>1 DEF Reaches
  <2> QED BY <1>3, <2>1, <2>2, <2>3
<1> QED BY <1>4, <1>5

(* Observing a remote stamp leaves the generator at or past both.           *)
LEMMA ObserveCovers ==
  ASSUME NEW last \in Stamp, NEW remote \in Stamp
  PROVE  LET next == Observe(last, remote, remote.wall)
         IN  /\ next \in Stamp /\ next.actor = last.actor
             /\ Reaches(next, last) /\ Reaches(next, remote)
<1> USE MaxCounterAssumption
<1>1. /\ last.wall \in Nat /\ last.counter \in 0..MaxCounter /\ last.actor \in ActorId
      /\ remote.wall \in Nat /\ remote.counter \in 0..MaxCounter
      /\ last = [wall |-> last.wall, counter |-> last.counter, actor |-> last.actor]
  BY DEF Stamp
<1> DEFINE wall == Later(Later(remote.wall, last.wall), remote.wall)
           counter == IF wall = last.wall /\ wall = remote.wall
                        THEN SaturatingAdd(Later(last.counter, remote.counter), 1)
                      ELSE IF wall = last.wall   THEN SaturatingAdd(last.counter, 1)
                      ELSE IF wall = remote.wall THEN SaturatingAdd(remote.counter, 1)
                      ELSE 0
<1>2. Observe(last, remote, remote.wall) = 
        [wall |-> wall, counter |-> counter, actor |-> last.actor]
  BY <1>1 DEF Observe
<1>3. wall \in Nat /\ wall >= last.wall /\ wall >= remote.wall
  BY <1>1 DEF Later
<1>4. /\ counter \in 0..MaxCounter
      /\ wall = last.wall => counter >= last.counter
      /\ wall = remote.wall => counter >= remote.counter
  <2> HIDE DEF wall
  <2> QED BY <1>1, <1>3 DEF Later, SaturatingAdd
<1> HIDE DEF wall, counter
<1>5. QED BY <1>1, <1>2, <1>3, <1>4 DEF Stamp, Reaches

LEMMA CoversTransitive ==
  ASSUME NEW s \in Stamp, NEW t \in Stamp, NEW u \in Stamp, Reaches(s, t), Reaches(t, u)
  PROVE  Reaches(s, u)
  BY DEF Reaches, Stamp

-----------------------------------------------------------------------------
(* Batches and documents keep their types. *)

LEMMA OperationIsStamped ==
  ASSUME NEW S \in SUBSET Operation
  PROVE  Typed(S)
  BY DEF Typed, Operation

(* The slots a batch touches are finitely many. *)
LEMMA FiniteSlots ==
  ASSUME NEW n \in Nat, NEW ops, DOMAIN ops = 1..n
  PROVE  IsFiniteSet({Slot(ops[i]) : i \in DOMAIN ops})
<1> DEFINE T == {Slot(ops[i]) : i \in DOMAIN ops}
           f == [i \in 1..n |-> Slot(ops[i])]
<1>1. f \in Surjection(1..n, T)
  BY DEF Surjection
<1>2. IsFiniteSet(1..n)
  BY FS_Interval, 1 \in Int, n \in Int
<1> HIDE DEF T, f
<1>3. IsFiniteSet(T)
  BY <1>1, <1>2, FS_Surjection
<1> QED BY <1>3 DEF T

(* apply_all keeps a document a document. *)
LEMMA ApplyAllIsDocument ==
  ASSUME NEW d, IsDocument(d), NEW ops \in Seq(Operation)
  PROVE  IsDocument(ApplyAll(d, ops))
<1> DEFINE touched == {Slot(ops[i]) : i \in DOMAIN ops}
           new     == ApplyAll(d, ops)
<1> DEFINE n == Len(ops)
<1>1. n \in Nat /\ DOMAIN ops = 1..n /\ \A i \in 1..n : ops[i] \in Operation
  OBVIOUS
<1> HIDE DEF n
<1>2. \A i \in 1..n : ops[i] \in Operation /\ ops[i].stamp \in Stamp
  BY <1>1 DEF Operation
<1>3. new = [slot \in DOMAIN d \cup touched |->
               IF slot \in touched
                 THEN Put(d, slot, Register(ops[LastStanding(ops, slot)]))
                 ELSE d[slot]]
  BY DEF ApplyAll
<1>4. IsFiniteSet(DOMAIN new)
  <2>1. IsFiniteSet(touched)
    BY <1>1, FiniteSlots
  <2>2. DOMAIN new = DOMAIN d \cup touched
    BY <1>3
  <2>3. IsFiniteSet(DOMAIN d)
    BY DEF IsDocument
  <2> HIDE DEF touched, new
  <2>4. IsFiniteSet(DOMAIN d \cup touched)
    BY <2>1, <2>3, FS_Union
  <2> QED BY <2>2, <2>4
<1>5. touched \subseteq Element \X Key
  BY <1>1, <1>2 DEF Slot, Operation
<1>6. \A slot \in touched : Register(ops[LastStanding(ops, slot)]) \in [value : Value, stamp : Stamp]
  <2>1. \A slot \in touched : LastStanding(ops, slot) \in 1..n
    BY <1>1, <1>2, LastStandingIsLatest
  <2> QED BY <2>1, <1>2 DEF Register, Operation
<1> HIDE DEF touched, new
<1>7. \A slot \in DOMAIN new : new[slot] \in [value : Value, stamp : Stamp]
  BY <1>3, <1>6 DEF Put, LwwSet, IsDocument
<1>8. new = [slot \in DOMAIN new |-> new[slot]] /\ DOMAIN new \subseteq Element \X Key
  BY <1>3, <1>5 DEF IsDocument
<1> QED BY <1>4, <1>7, <1>8 DEF IsDocument, new

(* Document::merge keeps a document a document. *)
LEMMA MergeIsDocument ==
  ASSUME NEW d, IsDocument(d), NEW e, IsDocument(e)
  PROVE  IsDocument(Merge(d, e))
<1> DEFINE new == Merge(d, e)
<1>1. new = [slot \in DOMAIN d \cup DOMAIN e |->
               IF slot \in DOMAIN e THEN Put(d, slot, e[slot]) ELSE d[slot]]
  BY DEF Merge
<1> HIDE DEF new
<1>2. IsFiniteSet(DOMAIN new)
  BY <1>1, FS_Union DEF IsDocument
<1>3. \A slot \in DOMAIN new : new[slot] \in [value : Value, stamp : Stamp]
  BY <1>1 DEF Put, LwwSet, IsDocument
<1>4. new = [slot \in DOMAIN new |-> new[slot]] /\ DOMAIN new \subseteq Element \X Key
  BY <1>1 DEF IsDocument
<1> QED BY <1>2, <1>3, <1>4 DEF IsDocument, new

(* op::upsert stamps each edit with a tick of its own. *)
LEMMA UpsertIsBatch ==
  ASSUME NEW edits \in Seq(Edit), NEW last \in Stamp, NEW now \in Nat,
         Room(last, now, Len(edits))
  PROVE  LET ops == Upsert(edits, last, now)
         IN  /\ ops \in Seq(Operation) /\ DOMAIN ops = 1..Len(edits)
             /\ \A i \in 1..Len(edits) : ops[i].stamp = TickTimes(last, now, i)
<1> DEFINE ops == Upsert(edits, last, now)
<1>1. Len(edits) \in Nat /\ \A i \in 1..Len(edits) : edits[i] \in Edit
  OBVIOUS
<1>2. \A i \in 1..Len(edits) : TickTimes(last, now, i) \in Stamp
  BY <1>1, TicksAreFresh
<1>3. \A i \in 1..Len(edits) : 
         LET s == TickTimes(last, now, i)
         IN  Stamped(edits[i], s) \in Operation /\ Stamped(edits[i], s).stamp = s
  BY <1>1, <1>2 DEF Stamped, Edit, Operation
<1>4. QED BY <1>1, <1>3 DEF Upsert

(* Document::max_stamp of a document that holds something: none is later.   *)
LEMMA MaxStampIsLatest ==
  ASSUME NEW d, IsDocument(d), DOMAIN d # {}
  PROVE  /\ MaxStamp(d) \in Stamp
         /\ \A slot \in DOMAIN d : AtMost(d[slot].stamp, MaxStamp(d))
<1> DEFINE T == StampsIn(d)
           R == {p \in T \X T : Before(p[1], p[2])}
           f == [slot \in DOMAIN d |-> d[slot].stamp]
<1>1. T \subseteq Stamp /\ T # {}
  BY DEF IsDocument, StampsIn
<1>2. IsFiniteSet(T)
  <2>1. f \in Surjection(DOMAIN d, T)
    BY DEF Surjection, StampsIn
  <2> HIDE DEF f, T
  <2> QED BY <2>1, FS_Surjection DEF IsDocument
<1>3. \A x \in T : <<x, x>> \notin R
  BY <1>1, BeforeIrreflexive
<1>4. \A x, y, z \in T : <<x, y>> \in R /\ <<y, z>> \in R => <<x, z>> \in R
  <2> HIDE DEF T
  <2> QED BY <1>1, BeforeTransitive
<1>5. \A x, y \in T : x = y \/ <<x, y>> \in R \/ <<y, x>> \in R
  BY <1>1, BeforeTotal
<1>6. \E m \in T : \A x \in T : x = m \/ <<x, m>> \in R
  <2> HIDE DEF T, R
  <2> QED BY <1>1, <1>2, <1>3, <1>4, <1>5, FiniteMaximum
<1>7. \E m \in T : \A x \in T : AtMost(x, m)
  BY <1>6 DEF AtMost
<1>8. MaxStamp(d) \in T /\ \A x \in T : AtMost(x, MaxStamp(d))
  <2> HIDE DEF T
  <2> QED BY <1>7 DEF MaxStamp, Highest, T
<1>9. QED BY <1>1, <1>8 DEF StampsIn

-----------------------------------------------------------------------------
(* The invariant. *)

LEMMA InitEstablishes == Init => IInv
<1> SUFFICES ASSUME Init PROVE IInv
  OBVIOUS
<1> USE MaxCounterAssumption, ReplicaAssumption
<1>1. Known = {}
  BY DEF Init, Known
<1>2. TypeOK
  <2>1. IsDocument(EmptyDocument)
    BY FS_EmptySet DEF IsDocument, EmptyDocument
  <2>2. \A r \in Replica : Zero(r) \in Stamp /\ Zero(r).actor = r
    BY DEF Zero, Stamp, ActorId
  <2> QED BY <2>1, <2>2 DEF Init, TypeOK
<1>3. DocumentReflectsOps
  BY DEF Init, DocumentReflectsOps, Reflects, EmptyDocument
<1>4. NoTies /\ ClockCovers /\ AuthorHoldsOwn /\ InFlightKnown
  BY <1>1 DEF Init, NoTies, DistinctStamps, ClockCovers, AuthorHoldsOwn, InFlightKnown, OpsOf
<1> QED BY <1>2, <1>3, <1>4 DEF IInv

(* A local write: the new operations are stamped past everything their      *)
(* author has seen, hence past everything under the author's name.          *)
LEMMA WriteKeeps ==
  ASSUME IInv, NEW r \in Replica, NEW edits \in Seq(Edit), NEW now \in Nat,
         Write(r, edits, now)
  PROVE  IInv'
<1> USE DEF IInv
<1> DEFINE n   == Len(edits)
           ops == Upsert(edits, clock[r], now)
<1>1. /\ clock[r] \in Stamp /\ clock[r].actor = r /\ n \in Nat
      /\ Room(clock[r], now, n)
  BY DEF TypeOK, Write, CounterRoom, Room
<1>2. /\ ops \in Seq(Operation) /\ DOMAIN ops = 1..n
      /\ \A i \in 1..n : ops[i].stamp = TickTimes(clock[r], now, i)
      /\ OpsOf(ops) \in SUBSET Operation
  BY <1>1, UpsertIsBatch DEF OpsOf
<1>last. clock'[r] = TickTimes(clock[r], now, n)
  BY DEF Write, TypeOK
<1>fresh. /\ \A i \in 1..n :
            LET s == TickTimes(clock[r], now, i)
            IN  /\ s \in Stamp /\ s.actor = r /\ ~Reaches(clock[r], s)
                /\ Reaches(clock'[r], s)
                /\ \A j \in 1..n : TickTimes(clock[r], now, j) = s => i = j
       /\ clock'[r] \in Stamp /\ clock'[r].actor = r /\ Reaches(clock'[r], clock[r])
  <2> HIDE DEF n, ops, IInv
  <2> QED BY <1>1, <1>last, TicksAreFresh
<1>3. \A i \in 1..n : /\ ops[i].stamp \in Stamp /\ ops[i].stamp.actor = r
                      /\ ~Reaches(clock[r], ops[i].stamp)
                      /\ Reaches(clock'[r], ops[i].stamp)
                      /\ \A j \in 1..n : ops[j].stamp = ops[i].stamp => i = j
  <2> HIDE DEF n, ops, IInv
  <2> QED BY <1>2, <1>fresh
<1>4. /\ clock'[r] \in Stamp /\ clock'[r].actor = r /\ Reaches(clock'[r], clock[r])
  BY <1>fresh
<1>5. /\ doc'     = [doc EXCEPT ![r] = ApplyAll(doc[r], ops)]
      /\ pending' = [pending EXCEPT ![r] = pending[r] \o ops]
      /\ seen'    = [seen EXCEPT ![r] = seen[r] \cup OpsOf(ops)]
      /\ clock'   = [clock EXCEPT ![r] = clock'[r]]
      /\ UNCHANGED <<frames, inits>>
  BY DEF Write, TypeOK
<1> HIDE DEF ops, n
<1>6. Known' = Known \cup OpsOf(ops)
  BY <1>5 DEF Known, TypeOK
<1>7. TypeOK'
  <2>1. IsDocument(ApplyAll(doc[r], ops))
    BY <1>2, ApplyAllIsDocument DEF TypeOK
  <2>2. pending[r] \o ops \in Seq(Operation)
    BY <1>2 DEF TypeOK
  <2> QED BY <1>2, <1>4, <1>5, <2>1, <2>2 DEF TypeOK
<1>8. DocumentReflectsOps'
  <2>1. Reflects(ApplyAll(doc[r], ops), seen[r] \cup OpsOf(ops))
    <3>1. Reflects(doc[r], seen[r]) /\ Typed(seen[r])
      BY OperationIsStamped DEF DocumentReflectsOps, TypeOK
    <3> QED BY <1>1, <1>2, <1>3, <3>1, ApplyAllReflects DEF OpsOf
  <2> QED BY <1>5, <2>1 DEF DocumentReflectsOps, TypeOK
<1>9. \A op \in OpsOf(ops), p \in Known : op.stamp # p.stamp
  <2>1. SUFFICES ASSUME NEW i \in 1..n, NEW p \in Known, ops[i].stamp = p.stamp
                 PROVE  FALSE
    BY <1>2 DEF OpsOf
  <2>2. p \in seen[r]
    BY <1>3, <2>1 DEF AuthorHoldsOwn
  <2> QED BY <1>3, <2>1, <2>2 DEF ClockCovers
<1>10. NoTies'
  <2>1. \A op, p \in OpsOf(ops) : op.stamp = p.stamp => op = p
    BY <1>2, <1>3 DEF OpsOf
  <2> QED BY <1>6, <1>9, <2>1 DEF NoTies, DistinctStamps
<1>11. ClockCovers'
  <2>1. \A op \in seen[r] : Reaches(clock'[r], op.stamp)
    <3>1. \A op \in seen[r] : op.stamp \in Stamp /\ Reaches(clock[r], op.stamp)
      BY DEF ClockCovers, TypeOK, Operation
    <3> QED BY <1>1, <1>4, <3>1, CoversTransitive
  <2>2. \A op \in OpsOf(ops) : Reaches(clock'[r], op.stamp)
    BY <1>2, <1>3 DEF OpsOf
  <2> QED BY <1>5, <2>1, <2>2 DEF ClockCovers, TypeOK
<1>12. AuthorHoldsOwn'
  BY <1>2, <1>3, <1>5, <1>6 DEF AuthorHoldsOwn, OpsOf, TypeOK
<1>13. InFlightKnown'
  <2>1. OpsOf(pending[r] \o ops) \subseteq OpsOf(pending[r]) \cup OpsOf(ops)
    <3>1. pending[r] \in Seq(Operation) /\ ops \in Seq(Operation)
      BY <1>2 DEF TypeOK
    <3> QED BY <3>1 DEF OpsOf
  <2>2. \A q \in Replica : OpsOf(pending'[q]) \subseteq seen'[q]
    BY <1>5, <2>1 DEF InFlightKnown, TypeOK
  <2> QED BY <1>5, <1>6, <2>2 DEF InFlightKnown
<1> QED BY <1>7, <1>8, <1>10, <1>11, <1>12, <1>13

(* Draining pending into frames moves operations and changes no document.   *)
LEMMA FlushKeeps ==
  ASSUME IInv, NEW r \in Replica, Flush(r)
  PROVE  IInv'
<1> USE DEF IInv
<1>1. /\ UNCHANGED <<doc, clock, inits, seen>>
      /\ pending[r] # <<>> /\ pending' = [pending EXCEPT ![r] = <<>>]
      /\ \A f \in frames' : 
           f \in frames \/ \E q \in Replica : f = [to |-> q, ops |-> pending[r]]
  BY DEF Flush
<1>2. Known' = Known
  BY <1>1 DEF Known
<1>3. TypeOK'
  <2>1. IsBatch(pending[r])
    BY <1>1 DEF TypeOK, IsBatch
  <2>2. \A f \in frames' : f.to \in Replica /\ IsBatch(f.ops)
    BY <1>1, <2>1 DEF TypeOK
  <2>3. pending' \in [Replica -> Seq(Operation)]
    BY <1>1 DEF TypeOK
  <2> QED BY <1>1, <2>2, <2>3 DEF TypeOK
<1>4. DocumentReflectsOps' /\ NoTies' /\ ClockCovers' /\ AuthorHoldsOwn'
  BY <1>1, <1>2 DEF DocumentReflectsOps, NoTies, ClockCovers, AuthorHoldsOwn
<1>5. InFlightKnown'
  <2>1. OpsOf(pending[r]) \subseteq Known
    BY DEF InFlightKnown, Known
  <2>2. \A f \in frames' : OpsOf(f.ops) \subseteq Known
    BY <1>1, <2>1 DEF InFlightKnown
  <2>3. \A q \in Replica : OpsOf(pending'[q]) \subseteq seen[q]
    BY <1>1 DEF InFlightKnown, OpsOf, TypeOK
  <2> QED BY <1>1, <1>2, <2>2, <2>3 DEF InFlightKnown
<1> QED BY <1>3, <1>4, <1>5

(* What one replica folds in from operations known already: the clock       *)
(* passes them, the document reflects them, and nothing else moves.         *)
LEMMA LearnKeeps ==
  ASSUME IInv, NEW r \in Replica, NEW d, NEW c, NEW S,
         S \in SUBSET Known, IsDocument(d), Reflects(d, seen[r] \cup S),
         c \in Stamp, c.actor = r, Reaches(c, clock[r]),
         \A op \in S : Reaches(c, op.stamp),
         clock' = [clock EXCEPT ![r] = c],
         doc'   = [doc EXCEPT ![r] = d],
         seen'  = [seen EXCEPT ![r] = seen[r] \cup S],
         pending' = pending, frames' \subseteq frames, inits' \subseteq inits
  PROVE  IInv'
<1> USE DEF IInv
<1>1. Known \in SUBSET Operation
  BY DEF Known, TypeOK
<1>2. Known' = Known
  BY DEF Known, TypeOK
<1>3. TypeOK'
  BY <1>1 DEF TypeOK
<1>4. DocumentReflectsOps' /\ NoTies'
  BY <1>2 DEF DocumentReflectsOps, NoTies, TypeOK
<1>5. ClockCovers'
  <2>1. \A op \in seen[r] : Reaches(c, op.stamp)
    <3>1. clock[r] \in Stamp /\ \A op \in seen[r] : op.stamp \in Stamp /\ Reaches(clock[r], op.stamp)
      BY DEF ClockCovers, TypeOK, Operation
    <3> QED BY <3>1, CoversTransitive
  <2> QED BY <2>1 DEF ClockCovers, TypeOK
<1>6. AuthorHoldsOwn' /\ InFlightKnown'
  BY <1>2 DEF AuthorHoldsOwn, InFlightKnown, TypeOK
<1> QED BY <1>3, <1>4, <1>5, <1>6

(* A delivered frame, kept in flight or not. *)
LEMMA MergeOpsKeeps ==
  ASSUME IInv, NEW r \in Replica, NEW f \in frames, MergeOps(r, f.ops),
         frames' \subseteq frames, UNCHANGED <<pending, inits>>
  PROVE  IInv'
<1> USE DEF IInv
<1> DEFINE ops     == f.ops
           n       == Len(ops)
           stamps  == {ops[i].stamp : i \in DOMAIN ops}
           highest == Highest(stamps)
           c       == Observe(clock[r], highest, highest.wall)
<1>1. /\ ops \in Seq(Operation) /\ OpsOf(ops) \in SUBSET Known
      /\ clock[r] \in Stamp /\ clock[r].actor = r
      /\ IsDocument(doc[r]) /\ Reflects(doc[r], seen[r]) /\ Typed(seen[r])
  BY OperationIsStamped DEF TypeOK, IsBatch, InFlightKnown, DocumentReflectsOps
<1>2. /\ n \in Nat /\ n # 0 /\ DOMAIN ops = 1..n
      /\ \A i \in 1..n : ops[i].stamp \in Stamp
  <2>1. ops # <<>>
    BY DEF TypeOK, IsBatch
  <2>2. n \in Nat /\ n # 0 /\ DOMAIN ops = 1..n /\ \A i \in 1..n : ops[i] \in Operation
    BY <1>1, <2>1
  <2> QED BY <2>2 DEF Operation
<1>3. highest \in stamps /\ \A s \in stamps : AtMost(s, highest)
  <2> HIDE DEF n, ops, stamps
  <2> QED BY <1>2, HighestOfBatch DEF stamps
<1>4. highest \in Stamp /\ \A op \in OpsOf(ops) : AtMost(op.stamp, highest) /\ op.stamp \in Stamp
  BY <1>2, <1>3 DEF OpsOf
<1>5. c \in Stamp /\ c.actor = r /\ Reaches(c, clock[r]) /\ Reaches(c, highest)
  BY <1>1, <1>4, ObserveCovers
<1>6. \A op \in OpsOf(ops) : Reaches(c, op.stamp)
  <2>1. ASSUME NEW s \in Stamp, AtMost(s, highest)
        PROVE  Reaches(highest, s)
    BY <1>4, <2>1 DEF AtMost, Before, Reaches, Stamp
  <2> HIDE DEF c, highest, ops
  <2> QED BY <1>4, <1>5, <2>1, CoversTransitive
<1>7. IsDocument(ApplyAll(doc[r], ops)) /\ Reflects(ApplyAll(doc[r], ops), seen[r] \cup OpsOf(ops))
  BY <1>1, <1>2, ApplyAllIsDocument, ApplyAllReflects DEF OpsOf
<1>8. /\ clock' = [clock EXCEPT ![r] = c]
      /\ doc'   = [doc EXCEPT ![r] = ApplyAll(doc[r], ops)]
      /\ seen'  = [seen EXCEPT ![r] = seen[r] \cup OpsOf(ops)]
  BY DEF MergeOps
<1> HIDE DEF c, ops, highest
<1>9. QED BY <1>1, <1>5, <1>6, <1>7, <1>8, LearnKeeps

LEMMA LoadDocumentKeeps ==
  ASSUME IInv, NEW r \in Replica, LoadDocument(r)
  PROVE  IInv'
<1> USE DEF IInv
<1>1. PICK init \in inits :
        /\ clock' = IF init.doc = EmptyDocument THEN clock
                    ELSE [clock EXCEPT ![r] = Observe(clock[r], MaxStamp(init.doc), MaxStamp(init.doc).wall)]
        /\ doc'   = [doc EXCEPT ![r] = Merge(doc[r], init.doc)]
        /\ seen'  = [seen EXCEPT ![r] = seen[r] \cup init.seen]
        /\ inits' = inits \ {init}
        /\ UNCHANGED <<pending, frames>>
  BY DEF LoadDocument
<1>2. /\ init.seen \in SUBSET Known /\ init.seen \in SUBSET Operation
      /\ IsDocument(init.doc) /\ Reflects(init.doc, init.seen)
      /\ IsDocument(doc[r]) /\ Reflects(doc[r], seen[r])
      /\ Typed(seen[r]) /\ Typed(init.seen)
      /\ clock[r] \in Stamp /\ clock[r].actor = r
  BY OperationIsStamped DEF TypeOK, InFlightKnown, DocumentReflectsOps
<1>3. /\ IsDocument(Merge(doc[r], init.doc))
      /\ Reflects(Merge(doc[r], init.doc), seen[r] \cup init.seen)
  BY <1>2, MergeIsDocument, MergeReflects
<1> DEFINE m == MaxStamp(init.doc)
<1> PICK c : c = clock'[r]
  OBVIOUS
<1>4. /\ c \in Stamp /\ c.actor = r /\ Reaches(c, clock[r])
      /\ \A op \in init.seen : Reaches(c, op.stamp)
      /\ clock' = [clock EXCEPT ![r] = c]
  <2>1. CASE init.doc = EmptyDocument
    <3>1. init.seen = {}
      BY <1>2, <2>1 DEF Reflects, EmptyDocument
    <3>2. c = clock[r] /\ clock' = [clock EXCEPT ![r] = c]
      BY <1>1, <2>1 DEF TypeOK
    <3>3. Reaches(clock[r], clock[r])
      BY <1>2 DEF Reaches, Stamp
    <3> QED BY <1>2, <3>1, <3>2, <3>3
  <2>2. CASE init.doc # EmptyDocument
    <3>1. DOMAIN init.doc # {}
      BY <1>2, <2>2 DEF IsDocument, EmptyDocument
    <3>2. m \in Stamp /\ \A slot \in DOMAIN init.doc : AtMost(init.doc[slot].stamp, m)
      BY <1>2, <3>1, MaxStampIsLatest
    <3>3. c = Observe(clock[r], m, m.wall) /\ clock' = [clock EXCEPT ![r] = c]
      BY <1>1, <1>2, <2>2 DEF TypeOK
    <3> HIDE DEF m
    <3>4. c \in Stamp /\ c.actor = r /\ Reaches(c, clock[r]) /\ Reaches(c, m)
      BY <1>2, <3>2, <3>3, ObserveCovers
    <3>5. ASSUME NEW op \in init.seen
          PROVE  Reaches(c, op.stamp)
      <4>1. /\ Slot(op) \in DOMAIN init.doc /\ op.stamp \in Stamp
            /\ AtMost(op.stamp, init.doc[Slot(op)].stamp)
        BY <1>2 DEF Reflects, Typed
      <4>2. init.doc[Slot(op)].stamp \in Stamp
        BY <1>2, <4>1, ReflectionIsStamped
      <4>3. AtMost(op.stamp, m)
        BY <3>2, <4>1, <4>2, AtMostTransitive
      <4>4. Reaches(m, op.stamp)
        BY <3>2, <4>1, <4>3 DEF AtMost, Before, Reaches, Stamp
      <4> QED BY <3>2, <3>4, <4>1, <4>4, CoversTransitive
    <3> QED BY <3>3, <3>4, <3>5
  <2> QED BY <2>1, <2>2
<1> PICK d : d = Merge(doc[r], init.doc)
  OBVIOUS
<1>5. /\ doc'  = [doc EXCEPT ![r] = d]
      /\ pending' = pending /\ frames' \subseteq frames /\ inits' \subseteq inits
  BY <1>1
<1>6. IsDocument(d) /\ Reflects(d, seen[r] \cup init.seen)
  BY <1>3
<1> PICK S : S = init.seen
  OBVIOUS
<1>7. /\ S \in SUBSET Known /\ Reflects(d, seen[r] \cup S)
      /\ \A op \in S : Reaches(c, op.stamp)
      /\ seen' = [seen EXCEPT ![r] = seen[r] \cup S]
  BY <1>1, <1>2, <1>4, <1>6
<1>8. c \in Stamp /\ c.actor = r /\ Reaches(c, clock[r]) /\ clock' = [clock EXCEPT ![r] = c]
  BY <1>4
<1> HIDE DEF IInv
<1>9. QED BY <1>5, <1>6, <1>7, <1>8, LearnKeeps

LEMMA SendDocumentKeeps ==
  ASSUME IInv, NEW q \in Replica, NEW r \in Replica, SendDocument(q, r)
  PROVE  IInv'
<1> USE DEF IInv
<1>1. /\ UNCHANGED <<doc, clock, pending, frames, seen>>
      /\ inits' = inits \cup {[to |-> r, doc |-> doc[q], seen |-> seen[q]]}
  BY DEF SendDocument
<1>2. Known' = Known /\ seen[q] \subseteq Known
  BY <1>1 DEF Known
<1>3. TypeOK'
  BY <1>1 DEF TypeOK
<1>4. InFlightKnown'
  BY <1>1, <1>2 DEF InFlightKnown, DocumentReflectsOps
<1>5. QED 
  BY <1>1, <1>2, <1>3, <1>4 DEF DocumentReflectsOps, NoTies, ClockCovers, AuthorHoldsOwn

LEMMA NextKeeps == IInv /\ [Next]_vars => IInv'
<1> SUFFICES ASSUME IInv, [Next]_vars PROVE IInv'
  OBVIOUS
<1>1. CASE UNCHANGED vars
  <2>1. UNCHANGED <<doc, clock, pending, frames, inits, seen>> /\ Known' = Known
    BY <1>1 DEF vars, Known
  <2>2. TypeOK'
    BY <2>1 DEF IInv, TypeOK
  <2>3. DocumentReflectsOps' /\ NoTies' /\ ClockCovers' /\ AuthorHoldsOwn' /\ InFlightKnown'
    BY <2>1 DEF IInv, DocumentReflectsOps, NoTies, ClockCovers, AuthorHoldsOwn, InFlightKnown
  <2> QED BY <2>2, <2>3 DEF IInv
<1>2. ASSUME NEW r \in Replica, LocalWrite(r)
      PROVE  IInv'
  <2>1. PICK edits \in EditBatches, now \in Walls : Write(r, edits, now)
    BY <1>2 DEF LocalWrite
  <2>2. edits \in Seq(Edit) /\ now \in Nat
    BY EditsAssumption, WallsAssumption
  <2> QED BY <2>1, <2>2, WriteKeeps
<1>3. ASSUME NEW r \in Replica, Deliver(r) \/ DeliverCopy(r)
      PROVE  IInv'
  BY <1>3, MergeOpsKeeps DEF Deliver, DeliverCopy
<1>4. QED
  BY <1>1, <1>2, <1>3, FlushKeeps, SendDocumentKeeps, LoadDocumentKeeps DEF Next

-----------------------------------------------------------------------------
(* The invariant holds of every reachable state. *)
THEOREM InvariantHolds == Spec => []IInv
<1>1. QED BY InitEstablishes, NextKeeps, PTL DEF Spec

(* Documents stay maps to stamped registers and generators keep their       *)
(* actor, on every board (document.rs, clock.rs).                           *)
THEOREM TypeCorrect == Spec => []TypeOK
<1>1. IInv => TypeOK
  BY DEF IInv
<1>2. QED BY <1>1, InvariantHolds, PTL

(* Each board shows exactly the latest write of every property among the    *)
(* operations it has folded in, however they reached it.                    *)
THEOREM DocumentsReflect == Spec => []DocumentReflectsOps
<1>1. IInv => DocumentReflectsOps
  BY DEF IInv
<1>2. QED BY <1>1, InvariantHolds, PTL

(* No two operations carry the same stamp.                                  *)
THEOREM StampsAreUnique == Spec => []NoTies
<1>1. IInv => NoTies
  BY DEF IInv
<1>2. QED BY <1>1, InvariantHolds, PTL

(* Strong convergence: boards that have folded in the same operations show  *)
(* the same document.                                                       *)
THEOREM ReplicasConverge == Spec => []Convergence
<1>1. IInv => Convergence
  <2>1. SUFFICES ASSUME IInv, NEW q \in Replica, NEW r \in Replica, seen[q] = seen[r]
                 PROVE  doc[q] = doc[r]
    BY DEF Convergence
  <2>2. seen[q] \subseteq Known /\ seen[q] \in SUBSET Operation
    BY <2>1 DEF IInv, Known, TypeOK
  <2>3. DistinctStamps(seen[q]) /\ Typed(seen[q])
    BY <2>1, <2>2, OperationIsStamped DEF IInv, NoTies, DistinctStamps
  <2>4. /\ Reflects(doc[q], seen[q]) /\ doc[q] = [slot \in DOMAIN doc[q] |-> doc[q][slot]]
        /\ Reflects(doc[r], seen[q]) /\ doc[r] = [slot \in DOMAIN doc[r] |-> doc[r][slot]]
    BY <2>1 DEF IInv, DocumentReflectsOps, TypeOK, IsDocument
  <2> QED BY <2>3, <2>4, ReflectionIsUnique
<1>2. QED BY <1>1, InvariantHolds, PTL

(* A document that reflects more operations is nowhere behind. *)
LEMMA MoreIsLater ==
  ASSUME NEW d, NEW S, Reflects(d, S), NEW e, NEW T, Reflects(e, T), S \subseteq T,
         NEW slot \in DOMAIN d
  PROVE  slot \in DOMAIN e /\ AtMost(d[slot].stamp, e[slot].stamp)
<1>1. PICK op \in S : Slot(op) = slot /\ d[slot] = Register(op)
  BY DEF Reflects
<1>2. op \in T /\ slot \in {Slot(o) : o \in T}
  BY <1>1
<1>3. slot \in DOMAIN e /\ AtMost(op.stamp, e[slot].stamp)
  BY <1>1, <1>2 DEF Reflects
<1> QED BY <1>1, <1>3 DEF Register

(* A board never forgets what it has folded in. *)
LEMMA SeenGrows ==
  ASSUME TypeOK, [Next]_vars, NEW r \in Replica
  PROVE  seen[r] \subseteq seen'[r]
<1>1. ASSUME NEW q \in Replica, NEW S, seen' = [seen EXCEPT ![q] = @ \cup S]
      PROVE  seen[r] \subseteq seen'[r]
  BY <1>1 DEF TypeOK
<1>2. ASSUME NEW q \in Replica, LocalWrite(q) PROVE seen[r] \subseteq seen'[r]
  BY <1>2, <1>1 DEF LocalWrite, Write
<1>3. ASSUME NEW q \in Replica, Deliver(q) \/ DeliverCopy(q) PROVE seen[r] \subseteq seen'[r]
  BY <1>3, <1>1 DEF Deliver, DeliverCopy, MergeOps
<1>4. ASSUME NEW q \in Replica, LoadDocument(q) PROVE seen[r] \subseteq seen'[r]
  BY <1>4, <1>1 DEF LoadDocument
<1>5. ASSUME NEW q \in Replica, NEW p \in Replica, Flush(q) \/ SendDocument(p, q)
      PROVE  seen' = seen
  BY <1>5 DEF Flush, SendDocument
<1> QED BY <1>2, <1>3, <1>4, <1>5 DEF Next, vars

(* Registers never go back, whatever arrives late or twice: lww.rs takes    *)
(* only later writes, on every path into a document.                        *)
THEOREM NothingGoesBack == Spec => RegistersAdvance
<1>1. IInv /\ IInv' /\ [Next]_vars =>
        \A r \in Replica : \A slot \in DOMAIN doc[r] :
          /\ slot \in DOMAIN doc'[r]
          /\ AtMost(doc[r][slot].stamp, doc'[r][slot].stamp)
  <2>1. SUFFICES ASSUME IInv, IInv', [Next]_vars,
                        NEW r \in Replica, NEW slot \in DOMAIN doc[r]
                 PROVE  /\ slot \in DOMAIN doc'[r]
                        /\ AtMost(doc[r][slot].stamp, doc'[r][slot].stamp)
    OBVIOUS
  <2>2. Reflects(doc[r], seen[r]) /\ Reflects(doc'[r], seen'[r])
    BY <2>1 DEF IInv, DocumentReflectsOps
  <2>3. seen[r] \subseteq seen'[r]
    BY <2>1, SeenGrows DEF IInv
  <2> QED BY <2>1, <2>2, <2>3, MoreIsLater
<1>2. QED BY <1>1, InvariantHolds, PTL DEF Spec, RegistersAdvance

-----------------------------------------------------------------------------
(* A user's own edit. *)

(* Ticks of one batch are in order. *)
LEMMA TicksInOrder ==
  ASSUME NEW last \in Stamp, NEW now \in Nat, NEW n \in Nat, Room(last, now, n),
         NEW i \in 1..n, NEW j \in 1..n,
         AtMost(TickTimes(last, now, i), TickTimes(last, now, j))
  PROVE  i <= j
<1> USE MaxCounterAssumption
<1>1. last.wall \in Nat /\ last.counter \in 0..MaxCounter /\ last.actor \in ActorId
  BY DEF Stamp
<1>2. ASSUME NEW k \in 1..n
      PROVE  TickTimes(last, now, k) =
               [wall    |-> IF now > last.wall THEN now ELSE last.wall,
                counter |-> IF now > last.wall THEN k - 1 ELSE last.counter + k,
                actor   |-> last.actor]
  <2>1. k \in Nat /\ k # 0 /\ Room(last, now, k)
    BY <1>1 DEF Room
  <2> QED BY <2>1, TickTimesIs
<1> QED BY <1>1, <1>2 DEF AtMost, Before, ActorId

(* The later write of a slot that a local batch makes, or the edit itself,  *)
(* is what the board shows of the slot afterwards.                          *)
LEMMA WriteShows ==
  ASSUME IInv, IInv', NEW r \in Replica, NEW edits \in Seq(Edit), NEW now \in Nat,
         Write(r, edits, now),
         NEW ops, ops = Upsert(edits, clock[r], now),
         NEW n, n = Len(edits), NEW i \in 1..n
  PROVE  \/ doc'[r][Slot(ops[i])] = Register(ops[i])
         \/ \E j \in 1..n : j > i /\ Slot(ops[j]) = Slot(ops[i])
<1>1. /\ clock[r] \in Stamp /\ clock[r].actor = r /\ n \in Nat
      /\ Room(clock[r], now, n)
  BY DEF IInv, TypeOK, Write, CounterRoom, Room
<1>2. /\ DOMAIN ops = 1..n
      /\ \A k \in 1..n : ops[k].stamp = TickTimes(clock[r], now, k)
  BY <1>1, UpsertIsBatch
<1>3. ops[i].stamp \in Stamp /\ ~Reaches(clock[r], ops[i].stamp)
  BY <1>1, <1>2, TicksAreFresh
<1>4. seen'[r] = seen[r] \cup OpsOf(ops) /\ ops[i] \in seen'[r]
  BY <1>2 DEF Write, IInv, TypeOK, OpsOf
<1>5. Reflects(doc'[r], seen'[r])
  BY DEF IInv, DocumentReflectsOps
<1>6. Slot(ops[i]) \in DOMAIN doc'[r]
  BY <1>4, <1>5 DEF Reflects
<1>7. PICK op \in seen'[r] : Slot(op) = Slot(ops[i]) /\ doc'[r][Slot(ops[i])] = Register(op)
  BY <1>5, <1>6 DEF Reflects
<1>8. AtMost(ops[i].stamp, op.stamp)
  BY <1>4, <1>5, <1>7 DEF Reflects, Register
<1>9. op \notin seen[r]
  <2>1. SUFFICES ASSUME op \in seen[r] PROVE FALSE
    OBVIOUS
  <2>2. op.stamp \in Stamp /\ Reaches(clock[r], op.stamp)
    BY <2>1 DEF IInv, ClockCovers, TypeOK, Operation
  <2> QED BY <1>1, <1>3, <1>8, <2>2 DEF AtMost, Before, Reaches, Stamp
<1>10. PICK j \in 1..n : op = ops[j]
  BY <1>2, <1>4, <1>9 DEF OpsOf
<1>11. i <= j
  BY <1>1, <1>2, <1>8, <1>10, TicksInOrder
<1> QED BY <1>1, <1>7, <1>10, <1>11

(* Pending operations grow by a local write only. *)
LEMMA PendingGrowsByWrite ==
  ASSUME TypeOK, [Next]_vars, NEW r \in Replica,
         pending'[r] # pending[r], pending'[r] # <<>>
  PROVE  \E edits \in EditBatches, now \in Walls : Write(r, edits, now)
<1>1. ASSUME NEW q \in Replica, LocalWrite(q)
      PROVE  \E edits \in EditBatches, now \in Walls : Write(r, edits, now)
  <2>1. PICK edits \in EditBatches, now \in Walls : Write(q, edits, now)
    BY <1>1 DEF LocalWrite
  <2>2. q = r
    BY <2>1 DEF Write, TypeOK
  <2> QED BY <2>1, <2>2
<1>2. ASSUME NEW q \in Replica, Flush(q)
      PROVE  FALSE
  BY <1>2 DEF Flush, TypeOK
<1>3. ASSUME NEW q \in Replica, NEW p \in Replica,
             Deliver(q) \/ DeliverCopy(q) \/ SendDocument(p, q) \/ LoadDocument(q)
      PROVE  FALSE
  BY <1>3 DEF Deliver, DeliverCopy, SendDocument, LoadDocument
<1> QED BY <1>1, <1>2, <1>3 DEF Next, vars

(* A user's own edit shows at once, even on a board that has folded in the  *)
(* stamps of a faster clock: HlcGenerator::observe and tick (clock.rs).     *)
THEOREM OwnEditShows == Spec => LocalEditShows
<1>1. IInv /\ IInv' /\ [Next]_vars =>
        \A r \in Replica : pending'[r] # pending[r] /\ pending'[r] # <<>> =>
          \A i \in DOMAIN pending'[r] \ DOMAIN pending[r] :
            \/ \E j \in DOMAIN pending'[r] : j > i /\ Slot(pending'[r][j]) = Slot(pending'[r][i])
            \/ doc'[r][Slot(pending'[r][i])] = Register(pending'[r][i])
  <2>1. SUFFICES ASSUME IInv, IInv', [Next]_vars, NEW r \in Replica,
                        pending'[r] # pending[r], pending'[r] # <<>>,
                        NEW i \in DOMAIN pending'[r] \ DOMAIN pending[r]
                 PROVE  \/ \E j \in DOMAIN pending'[r] :
                              j > i /\ Slot(pending'[r][j]) = Slot(pending'[r][i])
                        \/ doc'[r][Slot(pending'[r][i])] = Register(pending'[r][i])
    OBVIOUS
  <2>2. PICK edits \in Seq(Edit), now \in Nat : Write(r, edits, now)
    BY <2>1, PendingGrowsByWrite, EditsAssumption, WallsAssumption DEF IInv
  <2>3. PICK ops, n : ops = Upsert(edits, clock[r], now) /\ n = Len(edits)
    OBVIOUS
  <2>4. PICK old, new : old = pending[r] /\ new = pending'[r]
    OBVIOUS
  <2>5. /\ old \in Seq(Operation) /\ ops \in Seq(Operation) /\ n \in Nat
        /\ DOMAIN ops = 1..n /\ new = old \o ops
    <3>1. clock[r] \in Stamp /\ Room(clock[r], now, Len(edits))
      BY <2>1, <2>2 DEF IInv, TypeOK, Write, CounterRoom, Room
    <3>2. ops \in Seq(Operation) /\ DOMAIN ops = 1..n
      BY <2>3, <3>1, UpsertIsBatch
    <3>3. old \in Seq(Operation) /\ new = old \o ops
      BY <2>1, <2>2, <2>3, <2>4 DEF Write, IInv, TypeOK
    <3> QED BY <2>3, <3>2, <3>3
  <2>6. PICK m \in Nat : m = Len(old)
    BY <2>5
  <2>7. Len(ops) = n
    BY <2>5
  <2>8. /\ DOMAIN new = 1..(m + n) /\ DOMAIN old = 1..m
        /\ \A k \in 1..n : new[m + k] = ops[k]
    BY <2>5, <2>6, <2>7
  <2>9. PICK k \in 1..n : i = m + k
    <3>1. i \in 1..(m + n) /\ i \notin 1..m
      BY <2>1, <2>4, <2>8
    <3>2. i - m \in 1..n /\ i = m + (i - m)
      BY <2>5, <2>6, <3>1
    <3> QED BY <3>2
  <2>10. \/ doc'[r][Slot(ops[k])] = Register(ops[k])
         \/ \E j \in 1..n : j > k /\ Slot(ops[j]) = Slot(ops[k])
    BY <2>1, <2>2, <2>3, WriteShows
  <2>11. new[i] = ops[k]
    BY <2>8, <2>9
  <2>12. ASSUME NEW j \in 1..n, j > k, Slot(ops[j]) = Slot(ops[k])
         PROVE  m + j \in DOMAIN new /\ m + j > i /\ Slot(new[m + j]) = Slot(new[i])
    BY <2>5, <2>6, <2>8, <2>9, <2>11, <2>12
  <2> QED BY <2>4, <2>10, <2>11, <2>12
<1>2. IInv /\ IInv' /\ [Next]_vars =>
        [\A r \in Replica : pending'[r] # pending[r] /\ pending'[r] # <<>> =>
           \A i \in DOMAIN pending'[r] \ DOMAIN pending[r] :
             LET op == pending'[r][i]
                 overwritten == \E j \in DOMAIN pending'[r] : j > i /\ Slot(pending'[r][j]) = Slot(op)
             IN  overwritten \/ doc'[r][Slot(op)] = Register(op)]_vars
  BY <1>1
<1>3. QED BY <1>2, InvariantHolds, PTL DEF Spec, LocalEditShows

-----------------------------------------------------------------------------
(* The abstract specification. *)

(* A reflection of a set of operations is the view OpSet shows of it.       *)
LEMMA ReflectionIsView ==
  ASSUME NEW d, NEW S, S \in SUBSET Operation, DistinctStamps(S),
         IsDocument(d), Reflects(d, S)
  PROVE  d = Abstract!ViewOf(S)
<1>1. \A slot \in DOMAIN d : d[slot] = Register(Abstract!LatestOf(S, slot))
  <2>1. SUFFICES ASSUME NEW slot \in DOMAIN d
                 PROVE  d[slot] = Register(Abstract!LatestOf(S, slot))
    OBVIOUS
  <2>2. PICK op \in S : Slot(op) = slot /\ d[slot] = Register(op)
    BY DEF Reflects
  <2>3. \A p \in S : Slot(p) = slot => AtMost(p.stamp, op.stamp)
    BY <2>2 DEF Reflects, Register
  <2> DEFINE latest == Abstract!LatestOf(S, slot)
  <2>4. /\ latest \in S /\ Slot(latest) = slot
        /\ \A p \in S : Slot(p) = slot => AtMost(p.stamp, latest.stamp)
    BY <2>2, <2>3 DEF Abstract!LatestOf, Abstract!Slot, Abstract!AtMost, Abstract!Before,
                      Slot, AtMost, Before
  <2> HIDE DEF latest
  <2>5. latest = op
    <3>1. latest.stamp \in Stamp /\ op.stamp \in Stamp
      BY <2>2, <2>4 DEF Operation
    <3> QED BY <2>2, <2>3, <2>4, <3>1, AtMostAntisymmetric DEF DistinctStamps
  <2> QED BY <2>2, <2>5 DEF latest
<1>2. d = [slot \in DOMAIN d |-> d[slot]] /\ DOMAIN d = {Slot(op) : op \in S}
  BY DEF IsDocument, Reflects
<1>3. Abstract!ViewOf(S) = [slot \in DOMAIN d |-> Register(Abstract!LatestOf(S, slot))]
  BY <1>2 DEF Abstract!ViewOf, Abstract!Slot, Abstract!Register, Slot, Register
<1>4. QED BY <1>1, <1>2, <1>3

(* One replica holding more, every other as before, is an abstract Hold.    *)
LEMMA AbstractHold ==
  ASSUME IInv, IInv', NEW r \in Replica, NEW S, NEW d,
         seen' = [seen EXCEPT ![r] = seen[r] \cup S],
         doc'  = [doc EXCEPT ![r] = d]
  PROVE  Abstract!Hold(r, seen'[r] \ seen[r])
<1>1. seen[r] \cup (seen'[r] \ seen[r]) = seen'[r]
  BY DEF IInv, TypeOK
<1>2. seen' = [seen EXCEPT ![r] = seen[r] \cup (seen'[r] \ seen[r])]
  BY <1>1 DEF IInv, TypeOK
<1>3. doc'[r] = Abstract!ViewOf(seen'[r])
  <2>1. PICK S2 : S2 = seen'[r]
    OBVIOUS
  <2>2. PICK d2 : d2 = doc'[r]
    OBVIOUS
  <2>3. S2 \in SUBSET Operation /\ IsDocument(d2) /\ Reflects(d2, S2)
    BY <2>1, <2>2 DEF IInv, TypeOK, DocumentReflectsOps
  <2>4. DistinctStamps(S2)
    BY <2>1 DEF IInv, NoTies, DistinctStamps, Known
  <2> QED BY <2>1, <2>2, <2>3, <2>4, ReflectionIsView
<1>4. doc' = [doc EXCEPT ![r] = doc'[r]]
  BY DEF IInv, TypeOK
<1>5. QED BY <1>1, <1>2, <1>3, <1>4 DEF Abstract!Hold

(* Operations that come from elsewhere are an abstract Learn.               *)
LEMMA AbstractLearn ==
  ASSUME IInv, IInv', NEW r \in Replica, NEW S, NEW d,
         S \in SUBSET Known,
         seen' = [seen EXCEPT ![r] = seen[r] \cup S],
         doc'  = [doc EXCEPT ![r] = d]
  PROVE  Abstract!OSNext
<1>1. Abstract!Hold(r, seen'[r] \ seen[r])
  BY AbstractHold
<1>2. seen'[r] \ seen[r] \subseteq Known
  BY DEF IInv, TypeOK
<1>3. QED
  BY <1>1, <1>2 DEF Abstract!OSNext, Abstract!Learn, Abstract!Known, Known

(* A local write is an abstract Issue. *)
LEMMA AbstractIssue ==
  ASSUME IInv, IInv', NEW r \in Replica, NEW edits \in Seq(Edit), NEW now \in Nat,
         Write(r, edits, now)
  PROVE  Abstract!OSNext
<1> DEFINE n   == Len(edits)
           ops == Upsert(edits, clock[r], now)
           new == seen'[r] \ seen[r]
<1>1. /\ clock[r] \in Stamp /\ clock[r].actor = r /\ n \in Nat
      /\ Room(clock[r], now, n)
  BY DEF IInv, TypeOK, Write, CounterRoom, Room
<1>2. /\ DOMAIN ops = 1..n
      /\ \A i \in 1..n : ops[i].stamp = TickTimes(clock[r], now, i)
  BY <1>1, UpsertIsBatch
<1>3. \A i \in 1..n : ops[i].stamp.actor = r /\ ops[i].stamp \in Stamp /\ ~Reaches(clock[r], ops[i].stamp)
  BY <1>1, <1>2, TicksAreFresh
<1>4. /\ seen' = [seen EXCEPT ![r] = seen[r] \cup OpsOf(ops)]
      /\ doc'  = [doc EXCEPT ![r] = ApplyAll(doc[r], ops)]
  BY DEF Write
<1> HIDE DEF ops, n
<1>5. new \subseteq OpsOf(ops)
  BY <1>4 DEF IInv, TypeOK
<1>6. \A op \in new : /\ op.stamp.actor = r /\ op.stamp \in Stamp
                      /\ ~Reaches(clock[r], op.stamp)
  BY <1>2, <1>3, <1>5 DEF OpsOf
<1>7. \A op \in new, p \in seen[r] : Before(p.stamp, op.stamp)
  <2>1. SUFFICES ASSUME NEW op \in new, NEW p \in seen[r]
                 PROVE  Before(p.stamp, op.stamp)
    OBVIOUS
  <2>2. p.stamp \in Stamp /\ Reaches(clock[r], p.stamp)
    BY DEF IInv, TypeOK, ClockCovers, Operation
  <2>3. op.stamp \in Stamp /\ ~Reaches(clock[r], op.stamp)
    BY <1>6
  <2> HIDE DEF new
  <2> QED BY <1>1, <2>2, <2>3 DEF Reaches, Before, Stamp
<1>8. \A op \in new, p \in Known : p.stamp # op.stamp
  BY <1>6 DEF IInv, AuthorHoldsOwn, ClockCovers
<1>9. DistinctStamps(new)
  <2>1. new \subseteq Known'
    BY DEF Known
  <2> QED BY <2>1 DEF IInv, NoTies, DistinctStamps
<1>10. Abstract!Hold(r, new)
  <2>1. PICK S : S = OpsOf(ops)
    OBVIOUS
  <2>2. PICK d : d = ApplyAll(doc[r], ops)
    OBVIOUS
  <2> QED BY <1>4, <2>1, <2>2, AbstractHold
<1> HIDE DEF new
<1>11. Abstract!Issue(r, new)
  BY <1>6, <1>7, <1>8, <1>9, <1>10
     DEF Abstract!Issue, Abstract!Before, Abstract!Known, Abstract!DistinctStamps,
         Before, Known, DistinctStamps
<1>12. QED BY <1>11 DEF Abstract!OSNext, new

LEMMA AbstractStep == IInv /\ IInv' /\ [Next]_vars => [Abstract!OSNext]_(Abstract!osVars)
<1> SUFFICES ASSUME IInv, IInv', [Next]_vars PROVE [Abstract!OSNext]_(Abstract!osVars)
  OBVIOUS
<1>1. CASE UNCHANGED vars
  BY <1>1 DEF vars, Abstract!osVars
<1>2. ASSUME NEW r \in Replica, LocalWrite(r)
      PROVE  Abstract!OSNext
  <2>1. PICK edits \in EditBatches, now \in Walls : Write(r, edits, now)
    BY <1>2 DEF LocalWrite
  <2>2. edits \in Seq(Edit) /\ now \in Nat
    BY EditsAssumption, WallsAssumption
  <2> QED BY <2>1, <2>2, AbstractIssue
<1>3. ASSUME NEW r \in Replica, Deliver(r) \/ DeliverCopy(r)
      PROVE  Abstract!OSNext
  <2>1. PICK f \in frames : MergeOps(r, f.ops)
    BY <1>3 DEF Deliver, DeliverCopy
  <2>2. PICK S, d : S = OpsOf(f.ops) /\ d = ApplyAll(doc[r], f.ops)
    OBVIOUS
  <2>3. S \in SUBSET Known
    BY <2>2 DEF IInv, InFlightKnown
  <2>4. seen' = [seen EXCEPT ![r] = seen[r] \cup S] /\ doc' = [doc EXCEPT ![r] = d]
    BY <2>1, <2>2 DEF MergeOps
  <2> QED BY <2>3, <2>4, AbstractLearn
<1>4. ASSUME NEW r \in Replica, LoadDocument(r)
      PROVE  Abstract!OSNext
  <2>1. PICK init \in inits : /\ seen' = [seen EXCEPT ![r] = seen[r] \cup init.seen]
                              /\ doc'  = [doc EXCEPT ![r] = Merge(doc[r], init.doc)]
    BY <1>4 DEF LoadDocument
  <2>2. PICK S, d : S = init.seen /\ d = Merge(doc[r], init.doc)
    OBVIOUS
  <2>3. S \in SUBSET Known
    BY <2>2 DEF IInv, InFlightKnown
  <2> QED BY <2>1, <2>2, <2>3, AbstractLearn
<1>5. ASSUME NEW r \in Replica, Flush(r) \/ \E q \in Replica : SendDocument(q, r)
      PROVE  UNCHANGED Abstract!osVars
  BY <1>5 DEF Flush, SendDocument, Abstract!osVars
<1>6. QED
  BY <1>1, <1>2, <1>3, <1>4, <1>5 DEF Next

(* The boards implement the abstract specification: a replica is the set of *)
(* operations that reached it (ADR-0001), and every step of the code either *)
(* issues fresh operations, learns known ones or changes nothing.           *)
THEOREM ReplicasImplementOpSet == Spec => ImplementsOpSet
<1>1. Init => Abstract!OSInit
  BY DEF Init, Abstract!OSInit, Abstract!EmptyDocument, EmptyDocument
<1>2. QED BY <1>1, InvariantHolds, AbstractStep, PTL DEF Spec, ImplementsOpSet, Abstract!OSSpec
=============================================================================
