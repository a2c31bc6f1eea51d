---------------------------- MODULE StoreProofs ----------------------------
(***************************************************************************)
(* The log and the snapshots of module StoreLog lose nothing, for any set  *)
(* of operations, any batches and any interleaving of appends, snapshots,  *)
(* stops and restarts, as long as the log is not truncated; and truncating *)
(* by itself never changes what a restart would restore.                   *)
(***************************************************************************)
EXTENDS StoreLog, SequenceTheorems, TLAPS

-----------------------------------------------------------------------------
(* The invariant. *)

(* Only the fields of the tables. *)
Tables == store = [rows     |-> [seq \in DOMAIN store.rows |-> store.rows[seq]],
                   snapshot |-> [through |-> store.snapshot.through,
                                 ops     |-> store.snapshot.ops]]

(* The rows there are have consecutive numbers, also after a truncation. *)
Consecutive == \E low, high \in Nat : DOMAIN store.rows = (low + 1)..high

(* A log that was never truncated: every acknowledged operation has a row,  *)
(* the snapshot is exactly a prefix of the rows, and an open board holds    *)
(* the whole log.                                                           *)
Unbroken ==
  /\ DOMAIN store.rows = 1..returned
  /\ store.snapshot.through <= returned
  /\ store.snapshot.ops = {store.rows[seq] : seq \in 1..store.snapshot.through}
  /\ recorded = {store.rows[seq] : seq \in 1..returned}
  /\ open => room = recorded

IInv == /\ TypeOK
        /\ Tables
        /\ Consecutive
        /\ ~open => room = {}
        /\ truncated \in BOOLEAN
        /\ ~truncated => Unbroken

-----------------------------------------------------------------------------
(* What the operators of the store do. *)

(* MAX(seq) over consecutive rows is the last of them. *)
LEMMA LastSeqIs ==
  ASSUME NEW low \in Nat, NEW high \in Nat, NEW s, DOMAIN s.rows = (low + 1)..high
  PROVE  LastSeq(s) = IF low < high THEN high ELSE 0
<1>1. CASE low < high
  <2>1. high \in DOMAIN s.rows /\ \A other \in DOMAIN s.rows : other <= high
    BY <1>1
  <2>2. LastSeq(s) \in DOMAIN s.rows /\ \A other \in DOMAIN s.rows : other <= LastSeq(s)
    BY <2>1, Zenon DEF LastSeq
  <2>3. LastSeq(s) \in (low + 1)..high /\ high <= LastSeq(s)
    BY <2>1, <2>2
  <2> QED BY <1>1, <2>3
<1>2. CASE ~(low < high)
  BY <1>2 DEF LastSeq
<1> QED BY <1>1, <1>2

(* A restart over an unbroken log restores exactly what was acknowledged,   *)
(* wherever the snapshot stands.                                            *)
LEMMA UnbrokenRestores == TypeOK /\ Unbroken => Restore(store) = recorded
<1> SUFFICES ASSUME TypeOK, Unbroken PROVE Restore(store) = recorded
  OBVIOUS
<1> DEFINE through == store.snapshot.through
<1>1. through \in Nat /\ returned \in Nat /\ through <= returned
  BY DEF TypeOK, Unbroken
<1>2. {seq \in DOMAIN store.rows : seq > through} = (through + 1)..returned
  BY <1>1 DEF Unbroken
<1>3. 1..returned = (1..through) \cup ((through + 1)..returned)
  BY <1>1
<1> QED BY <1>2, <1>3 DEF Restore, ReadSince, Unbroken

(* Truncating changes no board, whatever was truncated before. *)
LEMMA TruncationRestores == Restore(TruncateAbsorbed(store)) = Restore(store)
  BY DEF Restore, ReadSince, TruncateAbsorbed, RowsAfter, WithRows

(* Appending numbers the batch on from the last row and keeps every row.    *)
LEMMA AppendRowsIs ==
  ASSUME NEW low \in Nat, NEW high \in Nat, NEW s, DOMAIN s.rows = (low + 1)..high,
         NEW n \in Nat \ {0}, NEW ops, Len(ops) = n,
         NEW last, last = (IF low < high THEN high ELSE 0),
         NEW first, first = (IF low < high THEN low ELSE 0),
         NEW appended, appended = AppendRows(s, ops)
  PROVE  /\ appended.snapshot = s.snapshot
         /\ appended = [rows |-> [seq \in DOMAIN appended.rows |-> appended.rows[seq]],
                        snapshot |-> s.snapshot]
         /\ DOMAIN appended.rows = (first + 1)..(last + n)
         /\ \A seq \in DOMAIN s.rows : appended.rows[seq] = s.rows[seq]
         /\ \A i \in 1..n : appended.rows[last + i] = ops[i]
         /\ LastSeq(appended) = last + n
<1> DEFINE numbers == DOMAIN s.rows \cup (last + 1)..(last + n)
           rows == [seq \in numbers |-> IF seq <= last THEN s.rows[seq] ELSE ops[seq - last]]
<1>1. appended = [rows |-> rows, snapshot |-> s.snapshot]
  BY LastSeqIs DEF AppendRows, WithRows
<1>2. last \in Nat /\ first \in Nat /\ first <= last /\ \A seq \in DOMAIN s.rows : seq <= last
  OBVIOUS
<1>3. numbers = (first + 1)..(last + n)
  OBVIOUS
<1>4. \A seq \in DOMAIN s.rows : rows[seq] = s.rows[seq]
  BY <1>2
<1>5. \A i \in 1..n : rows[last + i] = ops[i]
  <2>1. ASSUME NEW i \in 1..n
        PROVE  /\ last + i \in numbers
               /\ ~(last + i <= last)
               /\ (last + i) - last = i
    BY <1>2
  <2> QED BY <2>1
<1>6. DOMAIN rows = numbers /\ rows = [seq \in DOMAIN rows |-> rows[seq]]
  OBVIOUS
<1> HIDE DEF rows, numbers
<1>7. LastSeq(appended) = last + n
  <2>1. DOMAIN appended.rows = (first + 1)..(last + n) /\ last + n \in Nat /\ first < last + n
    BY <1>1, <1>2, <1>3, <1>6
  <2> QED BY <2>1, <1>2, LastSeqIs
<1>8. appended.rows = rows /\ appended.snapshot = s.snapshot
  BY <1>1
<1>9. appended = [rows |-> [seq \in DOMAIN appended.rows |-> appended.rows[seq]],
                  snapshot |-> s.snapshot]
  BY <1>1, <1>6, <1>8
<1> QED BY <1>3, <1>4, <1>5, <1>6, <1>7, <1>8, <1>9

(* append returned the number of the last row there is.                     *)
LEMMA UnbrokenLast ==
  ASSUME Unbroken, returned \in Nat
  PROVE  LastSeq(store) = returned
<1>1. DOMAIN store.rows = (0 + 1)..returned
  BY DEF Unbroken
<1>2. LastSeq(store) = IF 0 < returned THEN returned ELSE 0
  BY <1>1, LastSeqIs
<1> QED BY <1>2

(* A batch is a non-empty sequence of operations nobody recorded.           *)
LEMMA BatchIs ==
  ASSUME NEW batch \in Batches
  PROVE  /\ Len(batch) \in Nat \ {0}
         /\ DOMAIN batch = 1..Len(batch)
         /\ \A i \in 1..Len(batch) : batch[i] \in Op \ recorded
         /\ OpsOf(batch) = {batch[i] : i \in 1..Len(batch)}
         /\ Len(batch) <= MaxBatch /\ batch \in [1..Len(batch) -> Op]
<1>1. PICK n \in 1..MaxBatch : batch \in [1..n -> Op \ recorded]
  BY DEF Batches
<1>2. n \in Nat \ {0}
  BY <1>1, MaxBatchAssumption
<1>3. batch \in Seq(Op \ recorded) /\ Len(batch) = n
  BY <1>1, <1>2
<1> QED BY <1>1, <1>2, <1>3 DEF OpsOf

-----------------------------------------------------------------------------
(* The invariant is one. *)

LEMMA InitIsGood == Init => IInv
<1> SUFFICES ASSUME Init PROVE IInv
  OBVIOUS
<1>1. DOMAIN store.rows = {} /\ store.snapshot.through = 0 /\ store.snapshot.ops = {}
  BY DEF Init, EmptyStore, NoSnapshot
<1>2. TypeOK
  BY <1>1 DEF Init, TypeOK, ReadSince
<1>3. Tables
  BY DEF Init, EmptyStore, NoSnapshot, Tables
<1>4. Consecutive
  BY <1>1, (0 + 1)..0 = {} DEF Consecutive
<1>5. Unbroken
  BY <1>1, 1..0 = {} DEF Init, Unbroken
<1> QED BY <1>2, <1>3, <1>4, <1>5 DEF Init, IInv

(* An accepted batch gets the numbers after the last row; every other row   *)
(* and the snapshot stay.                                                   *)
LEMMA AcceptAppends ==
  ASSUME IInv, Accept
  PROVE  \E batch \in Batches, n \in Nat \ {0}, last \in Nat, first \in Nat :
           /\ open /\ open' = open /\ truncated' = truncated
           /\ room' = room \cup OpsOf(batch)
           /\ recorded' = recorded \cup OpsOf(batch)
           /\ \A i \in 1..n : batch[i] \in Op
           /\ OpsOf(batch) = {batch[i] : i \in 1..n}
           /\ n <= MaxBatch /\ batch \in [1..n -> Op]
           /\ last = LastSeq(store) /\ first <= last
           /\ DOMAIN store.rows = (first + 1)..last
           /\ returned' = last + n
           /\ store'.snapshot = store.snapshot
           /\ store' = [rows |-> [seq \in DOMAIN store'.rows |-> store'.rows[seq]],
                        snapshot |-> store.snapshot]
           /\ DOMAIN store'.rows = (first + 1)..(last + n)
           /\ \A seq \in DOMAIN store.rows : store'.rows[seq] = store.rows[seq]
           /\ \A i \in 1..n : store'.rows[last + i] = batch[i]
<1>1. PICK batch \in Batches :
        /\ open
        /\ room'     = room \cup OpsOf(batch)
        /\ store'    = AppendRows(store, batch)
        /\ returned' = LastSeq(store')
        /\ recorded' = recorded \cup OpsOf(batch)
        /\ open' = open /\ truncated' = truncated
  BY DEF Accept
<1>2. PICK n \in Nat \ {0} :
        /\ Len(batch) = n
        /\ \A i \in 1..n : batch[i] \in Op
        /\ OpsOf(batch) = {batch[i] : i \in 1..n}
        /\ n <= MaxBatch /\ batch \in [1..n -> Op]
  BY BatchIs
<1>3. PICK low \in Nat, high \in Nat : DOMAIN store.rows = (low + 1)..high
  BY DEF IInv, Consecutive
<1>4. PICK last, first : /\ last = (IF low < high THEN high ELSE 0)
                         /\ first = (IF low < high THEN low ELSE 0)
  OBVIOUS
<1>5. last \in Nat /\ first \in Nat /\ first <= last
  BY <1>4
<1>6. /\ store'.snapshot = store.snapshot
      /\ store' = [rows |-> [seq \in DOMAIN store'.rows |-> store'.rows[seq]],
                   snapshot |-> store.snapshot]
      /\ DOMAIN store'.rows = (first + 1)..(last + n)
      /\ \A seq \in DOMAIN store.rows : store'.rows[seq] = store.rows[seq]
      /\ \A i \in 1..n : store'.rows[last + i] = batch[i]
      /\ LastSeq(store') = last + n
  <2>1. PICK s, appended : s = store /\ appended = store'
    OBVIOUS
  <2>2. DOMAIN s.rows = (low + 1)..high /\ appended = AppendRows(s, batch)
    BY <1>1, <1>3, <2>1
  <2>3. /\ appended.snapshot = s.snapshot
        /\ appended = [rows |-> [seq \in DOMAIN appended.rows |-> appended.rows[seq]],
                       snapshot |-> s.snapshot]
        /\ DOMAIN appended.rows = (first + 1)..(last + n)
        /\ \A seq \in DOMAIN s.rows : appended.rows[seq] = s.rows[seq]
        /\ \A i \in 1..n : appended.rows[last + i] = batch[i]
        /\ LastSeq(appended) = last + n
    BY <1>2, <1>4, <2>2, AppendRowsIs
  <2> QED BY <2>1, <2>3
<1>7. DOMAIN store.rows = (first + 1)..last /\ last = LastSeq(store)
  BY <1>3, <1>4, LastSeqIs
<1>8. returned' = last + n
  BY <1>1, <1>6
<1> QED BY <1>1, <1>2, <1>5, <1>6, <1>7, <1>8

LEMMA AcceptKeeps == IInv /\ Accept => IInv'
<1> SUFFICES ASSUME IInv, Accept PROVE IInv'
  OBVIOUS
<1>1. PICK batch \in Batches, n \in Nat \ {0}, last \in Nat, first \in Nat :
        /\ open /\ open' = open /\ truncated' = truncated
        /\ room' = room \cup OpsOf(batch)
        /\ recorded' = recorded \cup OpsOf(batch)
        /\ \A i \in 1..n : batch[i] \in Op
        /\ OpsOf(batch) = {batch[i] : i \in 1..n}
        /\ last = LastSeq(store) /\ first <= last
        /\ DOMAIN store.rows = (first + 1)..last
        /\ returned' = last + n
        /\ store'.snapshot = store.snapshot
        /\ store' = [rows |-> [seq \in DOMAIN store'.rows |-> store'.rows[seq]],
                     snapshot |-> store.snapshot]
        /\ DOMAIN store'.rows = (first + 1)..(last + n)
        /\ \A seq \in DOMAIN store.rows : store'.rows[seq] = store.rows[seq]
        /\ \A i \in 1..n : store'.rows[last + i] = batch[i]
  BY AcceptAppends
<1>2. \A seq \in DOMAIN store'.rows : \/ seq \in DOMAIN store.rows
                                      \/ \E i \in 1..n : seq = last + i
  <2>1. ASSUME NEW seq \in (first + 1)..(last + n), ~(seq \in (first + 1)..last)
        PROVE  (seq - last) \in 1..n /\ seq = last + (seq - last)
    BY <2>1, <1>1
  <2> QED BY <2>1, <1>1
<1>3. \A seq \in DOMAIN store'.rows : store'.rows[seq] \in Op
  <2>1. \A seq \in DOMAIN store.rows : store.rows[seq] \in Op
    BY <1>1 DEF IInv, TypeOK, ReadSince
  <2> QED BY <2>1, <1>1, <1>2
<1>4. TypeOK'
  <2>1. DOMAIN store'.rows \subseteq Nat \ {0} /\ returned' \in Nat
    BY <1>1
  <2>2. ReadSince(store', 0) \subseteq Op
    BY <1>3 DEF ReadSince
  <2>3. room' \subseteq Op /\ recorded' \subseteq Op /\ open' \in BOOLEAN
    BY <1>1 DEF IInv, TypeOK
  <2>4. store'.snapshot.through \in Nat /\ store'.snapshot.ops \subseteq Op
    BY <1>1 DEF IInv, TypeOK
  <2> QED BY <2>1, <2>2, <2>3, <2>4 DEF TypeOK
<1>5. Tables'
  BY <1>1 DEF IInv, Tables
<1>6. Consecutive'
  BY <1>1, last + n \in Nat DEF Consecutive
<1>7. ASSUME ~truncated
       PROVE  Unbroken'
  <2>1. Unbroken /\ returned \in Nat /\ store.snapshot.through \in Nat
    BY <1>7 DEF IInv, TypeOK
  <2>2. last = returned /\ first = 0
    <3>1. last = returned /\ DOMAIN store.rows = 1..returned
      BY <1>1, <2>1, UnbrokenLast DEF Unbroken
    <3>2. CASE returned = 0
      BY <1>1, <3>1, <3>2
    <3>3. CASE returned > 0
      <4>1. 1 \in 1..returned /\ first + 1 >= 1
        BY <3>3, <2>1
      <4>2. 1 \in (first + 1)..last
        BY <4>1, <3>1, <1>1
      <4> QED BY <4>2, <3>1
    <3> QED BY <3>1, <3>2, <3>3, <2>1
  <2>3. returned' = returned + n /\ DOMAIN store'.rows = 1..returned'
    BY <1>1, <2>2
  <2>4. store'.snapshot.through <= returned'
    BY <1>1, <2>1, <2>3 DEF Unbroken
  <2>5. store'.snapshot.ops = {store'.rows[seq] : seq \in 1..store'.snapshot.through}
    <3>1. PICK through \in Nat : through = store.snapshot.through /\ through = store'.snapshot.through
      BY <1>1, <2>1
    <3>2. \A seq \in 1..through : store'.rows[seq] = store.rows[seq]
      BY <1>1, <2>1, <3>1 DEF Unbroken
    <3>3. {store'.rows[seq] : seq \in 1..through} = {store.rows[seq] : seq \in 1..through}
      BY <3>2
    <3>4. store.snapshot.ops = {store.rows[seq] : seq \in 1..through}
      BY <2>1, <3>1 DEF Unbroken
    <3>5. store'.snapshot.ops = store.snapshot.ops
      BY <1>1
    <3> QED BY <3>1, <3>3, <3>4, <3>5
  <2>6. recorded' = {store'.rows[seq] : seq \in 1..returned'}
    <3>1. \A seq \in 1..returned : store'.rows[seq] = store.rows[seq] /\ seq \in 1..returned'
      BY <1>1, <2>1, <2>3 DEF Unbroken
    <3>2. \A i \in 1..n : store'.rows[returned + i] = batch[i] /\ returned + i \in 1..returned'
      BY <1>1, <2>1, <2>2, <2>3
    <3>3. \A seq \in 1..returned' : \/ seq \in 1..returned
                                    \/ \E i \in 1..n : seq = returned + i
      BY <1>2, <2>1, <2>2, <2>3 DEF Unbroken
    <3>4. recorded' \subseteq {store'.rows[seq] : seq \in 1..returned'}
      <4>1. recorded \subseteq {store'.rows[seq] : seq \in 1..returned'}
        BY <3>1, <2>1 DEF Unbroken
      <4>2. OpsOf(batch) \subseteq {store'.rows[seq] : seq \in 1..returned'}
        BY <3>2, <1>1
      <4> QED BY <4>1, <4>2, <1>1
    <3>5. \A seq \in 1..returned' : store'.rows[seq] \in recorded'
      <4>1. \A seq \in 1..returned : store'.rows[seq] \in recorded
        BY <3>1, <2>1 DEF Unbroken
      <4>2. \A i \in 1..n : store'.rows[returned + i] \in OpsOf(batch)
        BY <3>2, <1>1
      <4> QED BY <4>1, <4>2, <3>3, <1>1
    <3> QED BY <3>4, <3>5
  <2>7. open' => room' = recorded'
    BY <1>1, <2>1 DEF Unbroken
  <2> QED BY <2>3, <2>4, <2>5, <2>6, <2>7 DEF Unbroken
<1> QED BY <1>1, <1>4, <1>5, <1>6, <1>7 DEF IInv

LEMMA WriteBackKeeps == IInv /\ WriteBack => IInv'
<1> SUFFICES ASSUME IInv, WriteBack PROVE IInv'
  OBVIOUS
<1>1. PICK low \in Nat, high \in Nat : DOMAIN store.rows = (low + 1)..high
  BY DEF IInv, Consecutive
<1>2. PICK last \in Nat : last = LastSeq(store)
  BY <1>1, LastSeqIs
<1>3. /\ store' = [rows |-> store.rows, snapshot |-> [through |-> last, ops |-> room]]
      /\ open /\ open' = open /\ room' = room /\ returned' = returned
      /\ recorded' = recorded /\ truncated' = truncated
  BY <1>2 DEF WriteBack, StoreSnapshot
<1>4. /\ store'.rows = store.rows
      /\ store'.snapshot = [through |-> last, ops |-> room]
  BY <1>3
<1>5. TypeOK'
  BY <1>3, <1>4 DEF IInv, TypeOK, ReadSince
<1>6. Tables'
  <2>1. store.rows = [seq \in DOMAIN store.rows |-> store.rows[seq]]
    BY DEF IInv, Tables
  <2> QED BY <2>1, <1>3, <1>4 DEF Tables
<1>7. Consecutive'
  BY <1>4 DEF IInv, Consecutive
<1>8. ASSUME ~truncated
      PROVE  Unbroken'
  <2>1. Unbroken /\ returned \in Nat
    BY <1>8 DEF IInv, TypeOK
  <2>2. last = returned
    BY <2>1, <1>2, UnbrokenLast
  <2> QED BY <2>1, <2>2, <1>3, <1>4 DEF Unbroken
<1> QED BY <1>3, <1>5, <1>6, <1>7, <1>8 DEF IInv

LEMMA TruncateKeeps == IInv /\ Truncate => IInv'
<1> SUFFICES ASSUME IInv, Truncate PROVE IInv'
  OBVIOUS
<1> DEFINE through == store.snapshot.through
           kept == {seq \in DOMAIN store.rows : seq > through}
<1>1. /\ store' = [rows |-> [seq \in kept |-> store.rows[seq]], snapshot |-> store.snapshot]
      /\ truncated' = TRUE /\ open' = open /\ room' = room
      /\ returned' = returned /\ recorded' = recorded
  BY DEF Truncate, TruncateAbsorbed, RowsAfter, WithRows
<1>2. /\ DOMAIN store'.rows = kept
      /\ store'.snapshot = store.snapshot
      /\ \A seq \in kept : store'.rows[seq] = store.rows[seq]
  BY <1>1
<1>3. TypeOK'
  BY <1>1, <1>2 DEF IInv, TypeOK, ReadSince
<1>4. Tables'
  <2>1. store.snapshot = [through |-> store.snapshot.through, ops |-> store.snapshot.ops]
    BY DEF IInv, Tables
  <2>2. store'.rows = [seq \in DOMAIN store'.rows |-> store'.rows[seq]]
    BY <1>1
  <2> QED BY <2>1, <2>2, <1>1, <1>2 DEF Tables
<1>5. Consecutive'
  <2>1. PICK low \in Nat, high \in Nat : DOMAIN store.rows = (low + 1)..high
    BY DEF IInv, Consecutive
  <2>2. PICK least \in Nat : least = (IF low < through THEN through ELSE low)
    BY DEF IInv, TypeOK
  <2>3. kept = (least + 1)..high
    BY <2>1, <2>2 DEF IInv, TypeOK
  <2> QED BY <2>3, <1>2 DEF Consecutive
<1> QED BY <1>1, <1>3, <1>4, <1>5 DEF IInv

LEMMA CloseKeeps == IInv /\ Close => IInv'
<1> SUFFICES ASSUME IInv, Close PROVE IInv'
  OBVIOUS
<1>1. /\ store' = store /\ open' = FALSE /\ room' = {}
      /\ returned' = returned /\ recorded' = recorded /\ truncated' = truncated
  BY DEF Close
<1>2. TypeOK'
  BY <1>1 DEF IInv, TypeOK, ReadSince
<1>3. ~truncated => Unbroken'
  BY <1>1 DEF IInv, Unbroken
<1> QED BY <1>1, <1>2, <1>3 DEF IInv, Tables, Consecutive

LEMMA ReopenKeeps == IInv /\ Reopen => IInv'
<1> SUFFICES ASSUME IInv, Reopen PROVE IInv'
  OBVIOUS
<1>1. /\ store' = store /\ open' = TRUE /\ room' = Restore(store)
      /\ returned' = returned /\ recorded' = recorded /\ truncated' = truncated
  BY DEF Reopen
<1>2. Restore(store) \subseteq Op
  BY DEF IInv, TypeOK, Restore, ReadSince
<1>3. TypeOK'
  BY <1>1, <1>2 DEF IInv, TypeOK, ReadSince
<1>4. ~truncated => Unbroken'
  BY <1>1, UnbrokenRestores DEF IInv, Unbroken
<1> QED BY <1>1, <1>3, <1>4 DEF IInv, Tables, Consecutive

(* The inductive invariant: acknowledged operations are the rows, and the   *)
(* snapshot is the prefix of them it says it is.                            *)
THEOREM LogInvariant == Spec => []IInv
<1>1. IInv /\ [Next]_vars => IInv'
  <2> SUFFICES ASSUME IInv, [Next]_vars PROVE IInv'
    OBVIOUS
  <2>1. CASE Accept
    BY <2>1, AcceptKeeps
  <2>2. CASE WriteBack
    BY <2>2, WriteBackKeeps
  <2>3. CASE Truncate
    BY <2>3, TruncateKeeps
  <2>4. CASE Close
    BY <2>4, CloseKeeps
  <2>5. CASE Reopen
    BY <2>5, ReopenKeeps
  <2>6. CASE UNCHANGED vars
    BY <2>6 DEF vars, IInv, TypeOK, Tables, Consecutive, Unbroken, ReadSince
  <2> QED BY <2>1, <2>2, <2>3, <2>4, <2>5, <2>6 DEF Next
<1> QED BY InitIsGood, <1>1, PTL DEF Spec

-----------------------------------------------------------------------------
(* What follows. *)

(* Every state of the log is well typed. *)
THEOREM LogTypeCorrect == Spec => []TypeOK
<1>1. IInv => TypeOK
  BY DEF IInv
<1> QED BY <1>1, LogInvariant, PTL

(* A restart restores exactly what was acknowledged: SqliteStore::restore,  *)
(* wherever the last snapshot was and whenever the process stopped.         *)
THEOREM NothingIsLost == Spec => []NothingLost
<1>1. IInv => NothingLost
  BY UnbrokenRestores DEF IInv, NothingLost
<1> QED BY <1>1, LogInvariant, PTL

(* truncate_absorbed deletes nothing a restore would have read.             *)
THEOREM TruncationIsSafe == Spec => TruncationIsInvisible
<1>1. [Truncate => Restore(store') = Restore(store)]_vars
  BY TruncationRestores DEF Truncate
<1> QED BY <1>1, PTL DEF TruncationIsInvisible

(* The log with its snapshots implements the durable board.                 *)
THEOREM LogImplementsDurability == Spec => StepsImplementDurability
<1>1. IInv /\ [Next]_vars => [~truncated => [Durable!DNext]_<<recorded, room>>]_vars
  <2> SUFFICES ASSUME IInv, Next, ~truncated
               PROVE  Durable!DNext \/ UNCHANGED <<recorded, room>>
    OBVIOUS
  <2>1. CASE Accept
    <3>1. PICK batch \in Batches : /\ room' = room \cup OpsOf(batch)
                                   /\ recorded' = recorded \cup OpsOf(batch)
      BY <2>1 DEF Accept
    <3>2. OpsOf(batch) \in SUBSET (Op \ recorded) /\ OpsOf(batch) # {}
      <4>1. 1 \in 1..Len(batch)
        BY BatchIs
      <4> QED BY <4>1, BatchIs
    <3> QED BY <3>1, <3>2 DEF Durable!DNext, Durable!Record
  <2>2. CASE WriteBack \/ Truncate
    BY <2>2 DEF WriteBack, Truncate
  <2>3. CASE Close
    BY <2>3 DEF Close, Durable!DNext, Durable!Forget
  <2>4. CASE Reopen
    <3>1. room' = recorded /\ recorded' = recorded
      BY <2>4, UnbrokenRestores DEF Reopen, IInv
    <3> QED BY <3>1 DEF Durable!DNext, Durable!Reopen
  <2> QED BY <2>1, <2>2, <2>3, <2>4 DEF Next
<1> QED BY <1>1, LogInvariant, PTL DEF Spec, StepsImplementDurability

(* read_since pages: what is recorded after append returned a value has a   *)
(* number above it.                                                         *)
THEOREM PagingIsComplete == Spec => PagingSeesNew
<1>1. IInv /\ IInv' /\ [Next]_vars =>
        [recorded' # recorded /\ ~truncated =>
           /\ returned' > returned
           /\ recorded' \ recorded \subseteq ReadSince(store', returned)]_vars
  <2> SUFFICES ASSUME IInv, IInv', Next, recorded' # recorded, ~truncated
               PROVE  /\ returned' > returned
                      /\ recorded' \ recorded \subseteq ReadSince(store', returned)
    OBVIOUS
  <2>1. Accept
    BY DEF Next, WriteBack, Truncate, Close, Reopen
  <2>2. /\ Unbroken /\ Unbroken' /\ returned \in Nat /\ returned' \in Nat
    BY <2>1 DEF IInv, TypeOK, Accept
  <2>3. \A seq \in 1..returned : store'.rows[seq] \in recorded
    <3>1. \A seq \in DOMAIN store.rows : store'.rows[seq] = store.rows[seq]
      BY <2>1, AcceptAppends
    <3> QED BY <3>1, <2>2 DEF Unbroken
  <2>4. ReadSince(store', returned) = {store'.rows[seq] : seq \in (returned + 1)..returned'}
    <3>1. {seq \in DOMAIN store'.rows : seq > returned} = (returned + 1)..returned'
      BY <2>2 DEF Unbroken
    <3> QED BY <3>1 DEF ReadSince
  <2>5. recorded' \ recorded \subseteq ReadSince(store', returned)
    BY <2>2, <2>3, <2>4 DEF Unbroken
  <2>6. recorded \subseteq recorded'
    BY <2>1 DEF Accept
  <2>7. returned' > returned
    <3>1. PICK op : op \in recorded' \ recorded
      BY <2>6
    <3> QED BY <3>1, <2>2, <2>4, <2>5
  <2> QED BY <2>5, <2>7
<1> QED BY <1>1, LogInvariant, PTL DEF Spec, PagingSeesNew

-----------------------------------------------------------------------------
(* The tables as a memory log. *)

(* A numbering of rows is a sequence.                                       *)
LEMMA NumberingIs ==
  ASSUME NEW m \in Nat, NEW rows, \A seq \in 1..m : rows[seq] \in Op,
         NEW numbered, numbered = [seq \in 1..m |-> rows[seq]]
  PROVE  /\ numbered \in Seq(Op) /\ Len(numbered) = m
         /\ \A seq \in 1..m : numbered[seq] = rows[seq]
<1>1. numbered \in [1..m -> Op]
  OBVIOUS
<1> QED BY <1>1

LEMMA NumberedIs ==
  ASSUME TypeOK, Unbroken
  PROVE  /\ Numbered \in Seq(Op) /\ Len(Numbered) = returned
         /\ \A seq \in 1..returned : Numbered[seq] = store.rows[seq]
<1>1. returned \in Nat /\ \A seq \in 1..returned : store.rows[seq] \in Op
  BY DEF TypeOK, Unbroken, ReadSince
<1> QED BY <1>1, NumberingIs DEF Numbered

(* A sequence that goes on from an old one with a batch is the old one with *)
(* the batch at its end.                                                    *)
LEMMA GoesOn ==
  ASSUME NEW m \in Nat, NEW n \in Nat,
         NEW old \in Seq(Op), Len(old) = m,
         NEW batch \in Seq(Op), Len(batch) = n,
         NEW new \in Seq(Op), Len(new) = m + n,
         \A seq \in 1..m : new[seq] = old[seq],
         \A i \in 1..n : new[m + i] = batch[i]
  PROVE  new = old \o batch
<1>1. PICK joined : joined = old \o batch
  OBVIOUS
<1>2. /\ joined \in Seq(Op) /\ Len(joined) = Len(old) + Len(batch)
      /\ \A seq \in 1..(Len(old) + Len(batch)) :
           joined[seq] = IF seq <= Len(old) THEN old[seq] ELSE batch[seq - Len(old)]
  BY <1>1, ConcatProperties
<1>3. ASSUME NEW seq \in 1..(m + n)
      PROVE  new[seq] = IF seq <= m THEN old[seq] ELSE batch[seq - m]
  <2>1. CASE seq <= m
    BY <2>1
  <2>2. CASE ~(seq <= m)
    <3>1. PICK i : i = seq - m
      OBVIOUS
    <3>2. i \in 1..n /\ seq = m + i
      BY <2>2, <3>1
    <3> QED BY <2>2, <3>1, <3>2
  <2> QED BY <2>1, <2>2
<1>4. \A seq \in 1..Len(new) : new[seq] = joined[seq]
  BY <1>2, <1>3
<1>5. Len(new) = Len(joined)
  BY <1>2
<1> QED BY <1>1, <1>2, <1>4, <1>5, SeqEqual

(* A host that pages reads what it would read from the in-memory log, from  *)
(* whatever number it starts (read_since).                                  *)
THEOREM PagesLikeMemory == Spec => []ReadsLikeMemory
<1>1. IInv => ReadsLikeMemory
  <2> SUFFICES ASSUME IInv, ~truncated, NEW after \in 0..returned + 1
               PROVE  ReadSince(store, after) = OpsOf(Memory!TailAfter(after))
    BY DEF ReadsLikeMemory
  <2>1. TypeOK /\ Unbroken /\ returned \in Nat /\ after \in Nat
    BY DEF IInv, TypeOK
  <2>2. /\ Numbered \in Seq(Op) /\ Len(Numbered) = returned
        /\ \A seq \in 1..returned : Numbered[seq] = store.rows[seq]
    BY <2>1, NumberedIs
  <2>3. PICK from \in Nat : /\ from = (IF after <= returned THEN after ELSE returned)
                            /\ from <= returned
    BY <2>1
  <2>4. PICK tail : tail = SubSeq(Numbered, from + 1, returned)
    OBVIOUS
  <2>5. Memory!TailAfter(after) = tail
    BY <2>2, <2>3, <2>4 DEF Memory!TailAfter
  <2>6. \A i \in (from + 1)..returned : Numbered[i] \in Op
    BY <2>2, <2>3, ElementOfSeq
  <2>7. /\ tail \in Seq(Op)
        /\ Len(tail) = (IF from + 1 <= returned THEN returned - (from + 1) + 1 ELSE 0)
        /\ \A i \in 1..returned - (from + 1) + 1 : tail[i] = Numbered[from + 1 + i - 1]
    BY <2>1, <2>3, <2>4, <2>6, SubSeqProperties
  <2>8. DOMAIN tail = 1..(returned - from)
    BY <2>1, <2>3, <2>7, LenProperties
  <2>9. \A i \in 1..(returned - from) : tail[i] = store.rows[from + i] /\ from + i \in 1..returned
    <3>1. ASSUME NEW i \in 1..(returned - from)
          PROVE  /\ i \in 1..returned - (from + 1) + 1
                 /\ from + 1 + i - 1 = from + i
                 /\ from + i \in 1..returned
      BY <2>1, <2>3
    <3>2. ASSUME NEW i \in 1..(returned - from)
          PROVE  tail[i] = Numbered[from + i]
      BY <3>1, <2>7
    <3> QED BY <3>1, <3>2, <2>2
  <2>10. ReadSince(store, after) = {store.rows[seq] : seq \in (from + 1)..returned}
    <3>1. {seq \in DOMAIN store.rows : seq > after} = (from + 1)..returned
      BY <2>1, <2>3 DEF Unbroken
    <3> QED BY <3>1 DEF ReadSince
  <2>11. OpsOf(tail) = {tail[i] : i \in 1..(returned - from)}
    BY <2>8 DEF OpsOf
  <2>12. ASSUME NEW seq \in (from + 1)..returned
         PROVE  store.rows[seq] = tail[seq - from] /\ seq - from \in 1..(returned - from)
    BY <2>1, <2>3, <2>9
  <2>13. {store.rows[seq] : seq \in (from + 1)..returned} \subseteq {tail[i] : i \in 1..(returned - from)}
    BY <2>12
  <2>14. ASSUME NEW i \in 1..(returned - from)
         PROVE  tail[i] = store.rows[from + i] /\ from + i \in (from + 1)..returned
    BY <2>1, <2>3, <2>9
  <2>15. {tail[i] : i \in 1..(returned - from)} \subseteq {store.rows[seq] : seq \in (from + 1)..returned}
    BY <2>14
  <2> QED BY <2>5, <2>10, <2>11, <2>13, <2>15
<1> QED BY <1>1, LogInvariant, PTL

(* The SQLite tables implement the in-memory ports: append, store and every *)
(* stop and restart between them are steps of a memory log and its          *)
(* snapshot, or change neither.                                             *)
THEOREM LogImplementsPorts == Spec => StepsImplementPorts
<1>1. IInv /\ IInv' /\ [Next]_vars =>
        [~truncated' => [Memory!MNext]_<<Numbered, store.snapshot.ops>>]_vars
  <2> SUFFICES ASSUME IInv, IInv', Next, ~truncated'
               PROVE  Memory!MNext \/ UNCHANGED <<Numbered, store.snapshot.ops>>
    OBVIOUS
  <2>1. CASE Accept
    <3>1. PICK batch \in Batches, n \in Nat \ {0}, last \in Nat :
            /\ truncated' = truncated
            /\ n <= MaxBatch /\ batch \in [1..n -> Op]
            /\ last = LastSeq(store)
            /\ returned' = last + n
            /\ store'.snapshot = store.snapshot
            /\ \A seq \in DOMAIN store.rows : store'.rows[seq] = store.rows[seq]
            /\ \A i \in 1..n : store'.rows[last + i] = batch[i]
      BY <2>1, AcceptAppends
    <3>2. TypeOK /\ Unbroken /\ returned \in Nat
      BY <3>1 DEF IInv, TypeOK
    <3>3. last = returned /\ returned' = returned + n
      BY <3>1, <3>2, UnbrokenLast
    <3>4. /\ \A seq \in 1..returned : store.rows[seq] \in Op
          /\ \A seq \in 1..returned : store'.rows[seq] = store.rows[seq]
      BY <3>1, <3>2 DEF TypeOK, Unbroken, ReadSince
    <3>5. \A i \in 1..n : store'.rows[returned + i] = batch[i]
      BY <3>1, <3>3
    <3>6. Numbered' = Numbered \o batch
      <4>0. PICK m \in Nat : m = returned
        BY <3>2
      <4>1. PICK rows, more, old, new : /\ rows = store.rows /\ more = store'.rows
                                        /\ old = Numbered /\ new = Numbered'
        OBVIOUS
      <4>2. \A seq \in 1..m : rows[seq] \in Op /\ more[seq] = rows[seq]
        BY <4>0, <4>1, <3>4
      <4>3. \A i \in 1..n : more[m + i] = batch[i]
        BY <4>0, <4>1, <3>5
      <4>4. \A seq \in 1..(m + n) : more[seq] \in Op
        BY <4>0, <4>1, <3>1, <3>3 DEF IInv, TypeOK, Unbroken, ReadSince
      <4>5. /\ old \in Seq(Op) /\ Len(old) = m
            /\ \A seq \in 1..m : old[seq] = rows[seq]
        BY <4>0, <4>1, <3>2, NumberedIs
      <4>6. new = [seq \in 1..(m + n) |-> more[seq]]
        BY <4>0, <4>1, <3>3 DEF Numbered
      <4>7. /\ new \in Seq(Op) /\ Len(new) = m + n
            /\ \A seq \in 1..(m + n) : new[seq] = more[seq]
        <5>1. PICK total \in Nat : total = m + n
          OBVIOUS
        <5>2. /\ \A seq \in 1..total : more[seq] \in Op
              /\ new = [seq \in 1..total |-> more[seq]]
          BY <5>1, <4>4, <4>6
        <5>3. new \in [1..total -> Op]
          BY <5>2
        <5>4. new \in Seq(Op) /\ Len(new) = total
          BY <5>3
        <5>5. \A seq \in 1..total : new[seq] = more[seq]
          BY <5>2
        <5> QED BY <5>1, <5>4, <5>5
      <4>8. batch \in Seq(Op) /\ Len(batch) = n
        BY <3>1
      <4>9. \A seq \in 1..m : new[seq] = old[seq]
        BY <4>2, <4>5, <4>7
      <4>10. \A i \in 1..n : new[m + i] = batch[i]
        BY <4>3, <4>7
      <4>11. new = old \o batch
        BY <4>5, <4>7, <4>8, <4>9, <4>10, GoesOn
      <4> QED BY <4>0, <4>1, <4>11
    <3>7. n \in 1..MaxBatch
      BY <3>1, MaxBatchAssumption
    <3> QED BY <3>1, <3>6, <3>7 DEF Memory!MNext, Memory!MAppend
  <2>2. CASE WriteBack
    <3>1. /\ store'.rows = store.rows /\ returned' = returned
          /\ store'.snapshot.ops = room
      BY <2>2 DEF WriteBack, StoreSnapshot
    <3>2. store'.snapshot.ops \subseteq Op
      BY <3>1 DEF IInv, TypeOK
    <3>3. Numbered' = Numbered
      BY <3>1 DEF Numbered
    <3> QED BY <3>2, <3>3 DEF Memory!MNext, Memory!MStore
  <2>3. CASE Close \/ Reopen
    BY <2>3 DEF Close, Reopen, Numbered
  <2>4. CASE Truncate
    BY <2>4 DEF Truncate
  <2> QED BY <2>1, <2>2, <2>3, <2>4 DEF Next
<1> QED BY <1>1, LogInvariant, PTL DEF Spec, StepsImplementPorts
=============================================================================
