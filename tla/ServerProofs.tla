---------------------------- MODULE ServerProofs ----------------------------
(***************************************************************************)
(* One board on the live server, for any number of tabs, any limits and    *)
(* any failures: the invariant the properties of module Server follow      *)
(* from, and its proof.                                                    *)
(***************************************************************************)
EXTENDS Server, FiniteSetTheorems, TLAPS

-----------------------------------------------------------------------------
(* The invariant. *)

(* The log is never truncated under the server: rows are numbered from one, *)
(* and a snapshot covers some first part of them.                           *)
RowsNumbered ==
  LET last == LastSeq(store)
  IN  /\ last \in Nat /\ DOMAIN store.rows = 1..last
      /\ store.snapshot.through \in 0..last

(* A tab that waits or has given up has no socket, a socket has one tab, a  *)
(* board comes after a connection, and sessions left behind count against   *)
(* the failures.                                                            *)
Orphans == {k \in DOMAIN session : \A t \in Tab : socket[t] # k}

SocketsKept ==
  /\ \A t \in Tab : socket[t] = 0 <=> phase[t] \in {"idle", "abandoned"}
  /\ \A t, u \in Tab : socket[t] = socket[u] /\ socket[t] # 0 => t = u
  /\ Cardinality(Orphans) <= failures

(* A session keeps its room in memory. *)
SessionsHaveRoom == DOMAIN session # {} => room.live

(* Numbers of connections are not used twice by one process.                *)
SessionsApart ==
  /\ \A k \in DOMAIN session : session[k].actor \in 1..nextConnection
  /\ \A j, k \in DOMAIN session : session[j].actor = session[k].actor => j = k

(* Nobody else has, or will be given, the actor of a tab's session.         *)
ActorsReserved ==
  ~Happened("restart") =>
    /\ \A t \in Tab : actor[t] \in 0..nextConnection
    /\ \A t, u \in Tab : t # u /\ socket[t] \in DOMAIN session =>
                           actor[u] # session[socket[t]].actor

(* What a session still has to tell its tab is in the room; the document it *)
(* starts from is recorded.                                                 *)
QueuesInRoom ==
  \A k \in DOMAIN session : \A message \in Range(session[k].queue) :
    OpsOf(message.ops) \subseteq room.ops

InitIsDurable == Intact => \A k \in DOMAIN session : session[k].init \subseteq Durable

(* A tab has what it sends, and so need not be told of it.                  *)
OwnHeld ==
  \A t \in Tab :
    /\ OpsOf(outbox[t]) \subseteq board[t]
    /\ LET k == socket[t] IN k \in DOMAIN session =>
         /\ UnreadBy(k) \subseteq board[t]
         /\ \A message \in Range(session[k].queue) :
              message.origin = session[k].actor => OpsOf(message.ops) \subseteq board[t]
         /\ session[k].greeted => session[k].init = {}

(* Where the drawings are: what is settled one way or the other, and what   *)
(* is still on its way.                                                     *)
Decided == Durable \cup room.ops \cup dropped
Sent    == UNION {UnreadBy(k) : k \in DOMAIN session}

Accounted ==
  Intact => \A t \in Tab : \A op \in board[t] :
    op[1] = t => op \in Durable \cup dropped \cup OpsOf(outbox[t]) \cup Sent

(* A drawing is in one place only.                                          *)
FramesApart(frames) ==
  \A i, j \in DOMAIN frames : i # j => OpsOf(frames[i]) \cap OpsOf(frames[j]) = {}

OnePlace ==
  /\ dropped \cap (Durable \cup room.ops) = {}
  /\ \A t \in Tab : OpsOf(outbox[t]) \cap (Decided \cup Sent) = {}
  /\ Sent \cap Decided = {}
  /\ \A j, k \in DOMAIN session : j # k => UnreadBy(j) \cap UnreadBy(k) = {}
  /\ \A k \in DOMAIN session : FramesApart(session[k].up)

(* Drawings are numbered as they are made, by the tab that makes them.      *)
Numbered ==
  /\ \A t \in Tab : \A op \in OpsOf(outbox[t]) : op[1] = t /\ op[2] <= drawn
  /\ \A op \in Decided \cup Sent : op[2] <= drawn

IInv == /\ TypeOK
        /\ RowsNumbered
        /\ SocketsKept
        /\ SessionsHaveRoom
        /\ SessionsApart
        /\ ActorsReserved
        /\ ActorsDistinct
        /\ RoomMatchesStore
        /\ QueuesInRoom
        /\ BroadcastIsDurable
        /\ InitIsDurable
        /\ PeersHoldOnlyDurable
        /\ OwnHeld
        /\ JoinLosesNothing
        /\ Accounted
        /\ OnePlace
        /\ Numbered

-----------------------------------------------------------------------------
(* Queues and frames. *)

(* What is taken from the front of a queue and what is left of it.          *)
LEMMA TailIs ==
  ASSUME NEW S, NEW q \in Seq(S), q # <<>>
  PROVE  /\ Tail(q) \in Seq(S) /\ Head(q) \in S
         /\ Range(q) = {Head(q)} \cup Range(Tail(q))
         /\ DOMAIN Tail(q) = 1..(Len(q) - 1)
         /\ \A i \in 1..(Len(q) - 1) : Tail(q)[i] = q[i + 1]
<1>1. /\ Tail(q) \in Seq(S) /\ Head(q) \in S /\ Head(q) = q[1]
      /\ DOMAIN q = 1..Len(q) /\ Len(q) \in Nat /\ Len(q) # 0
      /\ DOMAIN Tail(q) = 1..(Len(q) - 1)
      /\ \A i \in 1..(Len(q) - 1) : Tail(q)[i] = q[i + 1]
  OBVIOUS
<1>2. \A i \in DOMAIN q : q[i] \in {Head(q)} \cup Range(Tail(q))
  <2>1. SUFFICES ASSUME NEW i \in DOMAIN q, i # 1
                 PROVE  q[i] \in Range(Tail(q))
    BY <1>1
  <2>2. i - 1 \in 1..(Len(q) - 1) /\ (i - 1) + 1 = i
    BY <1>1, <2>1
  <2>3. Tail(q)[i - 1] = q[i]
    BY <1>1, <2>2
  <2> QED BY <1>1, <2>2, <2>3 DEF Range
<1>3. \A i \in DOMAIN Tail(q) : i + 1 \in DOMAIN q /\ Tail(q)[i] = q[i + 1]
  BY <1>1
<1>4. 1 \in DOMAIN q
  BY <1>1
<1>5. Range(q) \subseteq {Head(q)} \cup Range(Tail(q))
  BY <1>2 DEF Range
<1>6. {Head(q)} \cup Range(Tail(q)) \subseteq Range(q)
  BY <1>1, <1>3, <1>4 DEF Range
<1> QED BY <1>1, <1>5, <1>6

LEMMA AppendIs ==
  ASSUME NEW S, NEW q \in Seq(S), NEW x \in S
  PROVE  /\ Append(q, x) \in Seq(S)
         /\ Range(Append(q, x)) = Range(q) \cup {x}
         /\ DOMAIN q = 1..Len(q) /\ Len(q) \in Nat
         /\ DOMAIN Append(q, x) = 1..(Len(q) + 1)
         /\ \A i \in DOMAIN q : Append(q, x)[i] = q[i]
         /\ Append(q, x)[Len(q) + 1] = x
<1>1. /\ Append(q, x) \in Seq(S) /\ Len(q) \in Nat
      /\ DOMAIN q = 1..Len(q) /\ DOMAIN Append(q, x) = 1..(Len(q) + 1)
      /\ \A i \in 1..Len(q) : Append(q, x)[i] = q[i]
      /\ Append(q, x)[Len(q) + 1] = x
  OBVIOUS
<1>2. DOMAIN Append(q, x) = DOMAIN q \cup {Len(q) + 1}
  BY <1>1
<1>3. Range(Append(q, x)) = Range(q) \cup {x}
  BY <1>1, <1>2 DEF Range
<1> QED BY <1>1, <1>3

LEMMA EmptyRange ==
  /\ Range(<<>>) = {} /\ OpsOf(<<>>) = {} /\ OpsIn(<<>>) = {} /\ FramesApart(<<>>)
BY DEF Range, OpsOf, OpsIn, FramesApart

(* The operations of a batch. *)
LEMMA BatchIs ==
  ASSUME NEW batch \in Seq(Operation)
  PROVE  OpsOf(batch) \in SUBSET Operation /\ Len(batch) \in Nat
BY DEF OpsOf, Range

(* The frames left when the first is taken, and with another one sent.      *)
LEMMA FramesTail ==
  ASSUME NEW up \in Seq(Batch), up # <<>>
  PROVE  /\ Head(up) \in Batch /\ Tail(up) \in Seq(Batch)
         /\ OpsIn(up) = OpsOf(Head(up)) \cup OpsIn(Tail(up))
         /\ FramesApart(up) => /\ OpsOf(Head(up)) \cap OpsIn(Tail(up)) = {}
                               /\ FramesApart(Tail(up))
<1>1. /\ Tail(up) \in Seq(Batch) /\ Head(up) \in Batch
      /\ Range(up) = {Head(up)} \cup Range(Tail(up))
      /\ DOMAIN Tail(up) = 1..(Len(up) - 1)
      /\ \A i \in 1..(Len(up) - 1) : Tail(up)[i] = up[i + 1]
  BY TailIs
<1>2. OpsIn(up) = OpsOf(Head(up)) \cup OpsIn(Tail(up))
  BY <1>1 DEF OpsIn
<1>3. Len(up) \in Nat /\ Len(up) # 0 /\ DOMAIN up = 1..Len(up) /\ Head(up) = up[1]
  OBVIOUS
<1>4. ASSUME FramesApart(up)
      PROVE  OpsOf(Head(up)) \cap OpsIn(Tail(up)) = {}
  <2>1. \A i \in 1..(Len(up) - 1) : OpsOf(up[1]) \cap OpsOf(up[i + 1]) = {}
    BY <1>3, <1>4 DEF FramesApart
  <2>2. \A frame \in Range(Tail(up)) : OpsOf(Head(up)) \cap OpsOf(frame) = {}
    BY <1>1, <1>3, <2>1 DEF Range
  <2> QED BY <2>2 DEF OpsIn
<1>5. ASSUME FramesApart(up)
      PROVE  FramesApart(Tail(up))
  BY <1>1, <1>3, <1>5 DEF FramesApart
<1> QED BY <1>1, <1>2, <1>4, <1>5

LEMMA FramesAppend ==
  ASSUME NEW up \in Seq(Batch), NEW batch \in Batch
  PROVE  /\ Append(up, batch) \in Seq(Batch)
         /\ OpsIn(Append(up, batch)) = OpsIn(up) \cup OpsOf(batch)
         /\ FramesApart(up) /\ OpsOf(batch) \cap OpsIn(up) = {} => FramesApart(Append(up, batch))
<1>1. /\ Append(up, batch) \in Seq(Batch)
      /\ Range(Append(up, batch)) = Range(up) \cup {batch}
      /\ DOMAIN up = 1..Len(up) /\ Len(up) \in Nat
      /\ DOMAIN Append(up, batch) = 1..(Len(up) + 1)
      /\ \A i \in DOMAIN up : Append(up, batch)[i] = up[i]
      /\ Append(up, batch)[Len(up) + 1] = batch
  BY AppendIs
<1>2. OpsIn(Append(up, batch)) = OpsIn(up) \cup OpsOf(batch)
  BY <1>1 DEF OpsIn
<1>3. ASSUME FramesApart(up), OpsOf(batch) \cap OpsIn(up) = {}
      PROVE  FramesApart(Append(up, batch))
  <2>1. \A i \in 1..Len(up) : OpsOf(batch) \cap OpsOf(up[i]) = {}
    BY <1>1, <1>3 DEF OpsIn, Range
  <2>2. \A i, j \in 1..Len(up) : i # j => OpsOf(up[i]) \cap OpsOf(up[j]) = {}
    BY <1>1, <1>3 DEF FramesApart
  <2>3. \A i \in 1..(Len(up) + 1) : i \in 1..Len(up) \/ i = Len(up) + 1
    BY <1>1
  <2> HIDE DEF Batch
  <2> QED BY <1>1, <2>1, <2>2, <2>3 DEF FramesApart
<1> QED BY <1>1, <1>2, <1>3

-----------------------------------------------------------------------------
(* The rows. *)

LEMMA LastRow ==
  ASSUME NEW s, NEW n \in Nat, DOMAIN s.rows = 1..n
  PROVE  LastSeq(s) = n
<1>1. CASE n = 0
  BY <1>1 DEF LastSeq
<1>2. CASE n # 0
  <2>1. n \in 1..n /\ \A i \in 1..n : i <= n
    BY <1>2
  <2>2. \A m \in 1..n : (\A i \in 1..n : i <= m) => m = n
    BY <2>1
  <2> QED BY <2>1, <2>2 DEF LastSeq
<1> QED BY <1>1, <1>2

(* OpLog::append adds the batch to what a restart restores.                 *)
LEMMA AppendRestores ==
  ASSUME NEW s, NEW n \in Nat, DOMAIN s.rows = 1..n, s.snapshot.through \in 0..n,
         NEW batch \in Seq(Operation)
  PROVE  LET a == AppendRows(s, batch)
         IN  /\ DOMAIN a.rows = 1..(n + Len(batch))
             /\ a.snapshot = s.snapshot
             /\ Restore(a) = Restore(s) \cup OpsOf(batch)
             /\ \A seq \in DOMAIN a.rows : a.rows[seq] \in Operation \cup {s.rows[i] : i \in 1..n}
<1> DEFINE a == AppendRows(s, batch)
           m == Len(batch)
           new == [seq \in DOMAIN s.rows \cup (n + 1)..(n + m) |->
                    IF seq <= n THEN s.rows[seq] ELSE batch[seq - n]]
<1>1. a = [rows |-> new, snapshot |-> s.snapshot]
  BY LastRow DEF AppendRows, WithRows
<1>2. m \in Nat /\ DOMAIN batch = 1..m /\ \A i \in 1..m : batch[i] \in Operation
  OBVIOUS
<1>3. DOMAIN new = 1..(n + m)
  BY <1>2
<1>4. /\ \A seq \in 1..n : new[seq] = s.rows[seq]
      /\ \A i \in 1..m : n + i \in DOMAIN new /\ new[n + i] = batch[i]
  BY <1>2, <1>3
<1>5. \A seq \in 1..(n + m) : seq \in 1..n \/ \E i \in 1..m : seq = n + i
  <2>1. TAKE seq \in 1..(n + m)
  <2>2. seq \notin 1..n => seq - n \in 1..m /\ seq = n + (seq - n)
    BY <1>2
  <2> QED BY <2>2
<1> HIDE DEF new, m
<1>6. Restore(a) = Restore(s) \cup OpsOf(batch)
  <2>1. ReadSince(a, s.snapshot.through) = ReadSince(s, s.snapshot.through) \cup OpsOf(batch)
    <3>1. ASSUME NEW op \in ReadSince(a, s.snapshot.through)
          PROVE  op \in ReadSince(s, s.snapshot.through) \cup OpsOf(batch)
      <4>1. PICK seq \in 1..(n + m) : seq > s.snapshot.through /\ op = new[seq]
        BY <1>1, <1>3, <3>1 DEF ReadSince
      <4>2. CASE seq \in 1..n
        BY <1>4, <4>1, <4>2 DEF ReadSince
      <4>3. CASE \E i \in 1..m : seq = n + i
        BY <1>2, <1>4, <4>1, <4>3 DEF OpsOf, Range
      <4> QED BY <1>5, <4>2, <4>3
    <3>2. ASSUME NEW op \in ReadSince(s, s.snapshot.through)
          PROVE  op \in ReadSince(a, s.snapshot.through)
      <4>1. PICK seq \in 1..n : seq > s.snapshot.through /\ op = s.rows[seq]
        BY <3>2 DEF ReadSince
      <4>2. seq \in DOMAIN new /\ new[seq] = op
        BY <1>2, <1>3, <1>4, <4>1
      <4> QED BY <1>1, <4>1, <4>2 DEF ReadSince
    <3>3. ASSUME NEW i \in 1..m
          PROVE  batch[i] \in ReadSince(a, s.snapshot.through)
      <4>1. n + i > s.snapshot.through /\ n + i \in DOMAIN new /\ new[n + i] = batch[i]
        BY <1>2, <1>4
      <4> QED BY <1>1, <4>1 DEF ReadSince
    <3> QED BY <1>2, <3>1, <3>2, <3>3 DEF OpsOf, Range
  <2>2. a.snapshot = s.snapshot
    BY <1>1
  <2> QED BY <2>1, <2>2 DEF Restore
<1>7. \A seq \in 1..(n + m) : new[seq] \in Operation \cup {s.rows[i] : i \in 1..n}
  BY <1>2, <1>4, <1>5
<1> QED BY <1>1, <1>3, <1>6, <1>7 DEF m

(* SnapshotStore::store makes a restart restore the document it was given.  *)
LEMMA SnapshotRestores ==
  ASSUME NEW s, NEW n \in Nat, DOMAIN s.rows = 1..n, NEW ops
  PROVE  LET a == StoreSnapshot(s, ops)
         IN  /\ a.rows = s.rows /\ a.snapshot = [through |-> n, ops |-> ops]
             /\ Restore(a) = ops
<1> DEFINE a == StoreSnapshot(s, ops)
<1>1. a.rows = s.rows /\ a.snapshot = [through |-> n, ops |-> ops]
  BY LastRow DEF StoreSnapshot
<1>2. ReadSince(a, n) = {}
  BY <1>1 DEF ReadSince
<1> QED BY <1>1, <1>2 DEF Restore
-----------------------------------------------------------------------------
(* Sessions. *)

LEMMA StoreFacts ==
  ASSUME TypeOK, RowsNumbered
  PROVE  \E n \in Nat : /\ DOMAIN store.rows = 1..n /\ store.snapshot.through \in 0..n
                        /\ LastSeq(store) = n
                        /\ \A seq \in 1..n : store.rows[seq] \in Operation
                        /\ Durable \subseteq Operation
BY DEF TypeOK, RowsNumbered, Durable, Restore, ReadSince

(* A table as append or a snapshot leaves it. *)
LEMMA RowsAre ==
  ASSUME NEW n \in Nat, DOMAIN store'.rows = 1..n, store'.snapshot.through \in 0..n
  PROVE  RowsNumbered'
BY LastRow DEF RowsNumbered

(* Nothing is added to the store. *)
LEMMA StoreStays ==
  ASSUME IInv, store' = store
  PROVE  RowsNumbered' /\ Durable' = Durable
BY DEF IInv, RowsNumbered, Durable

LEMMA UnreadTyped ==
  ASSUME TypeOK, NEW k \in DOMAIN session
  PROVE  UnreadBy(k) \subseteq Operation
<1>1. session[k].up \in Seq(Batch)
  BY DEF TypeOK, Session
<1>2. \A frame \in Range(session[k].up) : frame \in Seq(Operation)
  BY <1>1 DEF Range, Batch
<1> QED BY <1>2, BatchIs DEF UnreadBy, OpsIn

LEMMA TakenIs ==
  ASSUME TypeOK, NEW k, HasFrame(k)
  PROVE  /\ FrameOf(k) \in Batch /\ OpsOf(FrameOf(k)) \in SUBSET Operation
         /\ OpsOf(FrameOf(k)) \subseteq UnreadBy(k)
         /\ DOMAIN Taken(k) = DOMAIN session /\ Taken(k) \in [DOMAIN session -> Session]
         /\ \A j \in DOMAIN session : LET after == Taken(k)[j] IN
              /\ after.actor = session[j].actor /\ after.greeted = session[j].greeted
              /\ after.init = session[j].init /\ after.queue = session[j].queue
              /\ after.lagged = session[j].lagged
              /\ after.up = IF j = k THEN Tail(session[j].up) ELSE session[j].up
<1>1. /\ session \in [DOMAIN session -> Session] /\ k \in DOMAIN session
      /\ session[k].up \in Seq(Batch) /\ session[k].up # <<>>
  BY DEF TypeOK, HasFrame, Session
<1>2. /\ FrameOf(k) \in Batch /\ Tail(session[k].up) \in Seq(Batch)
      /\ OpsOf(FrameOf(k)) \subseteq UnreadBy(k)
  BY <1>1, FramesTail DEF FrameOf, UnreadBy
<1>3. OpsOf(FrameOf(k)) \in SUBSET Operation
  BY <1>2, BatchIs DEF Batch
<1>4. [session[k] EXCEPT !.up = Tail(session[k].up)] \in Session
  BY <1>1, <1>2 DEF Session
<1>5. /\ DOMAIN Taken(k) = DOMAIN session
      /\ \A j \in DOMAIN session : j # k => Taken(k)[j] = session[j]
      /\ Taken(k)[k] = [session[k] EXCEPT !.up = Tail(session[k].up)]
      /\ Taken(k) \in [DOMAIN session -> Session]
  BY <1>1, <1>4 DEF Taken
<1>6. ASSUME NEW after, after = Taken(k)[k]
      PROVE  /\ after.actor = session[k].actor /\ after.greeted = session[k].greeted
             /\ after.init = session[k].init /\ after.queue = session[k].queue
             /\ after.lagged = session[k].lagged /\ after.up = Tail(session[k].up)
  <2>1. session[k] \in Session
    BY <1>1
  <2> QED BY <1>5, <1>6, <2>1 DEF Session
<1> QED BY <1>2, <1>3, <1>5, <1>6

LEMMA BroadcastIs ==
  ASSUME NEW D, NEW live \in [D -> Session], NEW message \in Message
  PROVE  LET after == Broadcast(live, message)
         IN  /\ after \in [D -> Session]
             /\ \A j \in D :
                  /\ after[j].actor = live[j].actor /\ after[j].greeted = live[j].greeted
                  /\ after[j].init = live[j].init /\ after[j].up = live[j].up
                  /\ \/ /\ ~after[j].lagged /\ ~live[j].lagged
                        /\ Range(after[j].queue) = Range(live[j].queue) \cup {message}
                     \/ after[j].lagged /\ after[j].queue = <<>>
<1> DEFINE after == Broadcast(live, message)
<1>1. ASSUME NEW s \in Session
      PROVE  /\ Append(s.queue, message) \in Seq(Message)
             /\ Range(Append(s.queue, message)) = Range(s.queue) \cup {message}
  BY <1>1, AppendIs DEF Session
<1>2. ASSUME NEW s \in Session
      PROVE  /\ [s EXCEPT !.queue = Append(s.queue, message)] \in Session
             /\ [s EXCEPT !.queue = <<>>, !.lagged = TRUE] \in Session
  <2>1. Append(s.queue, message) \in Seq(Message) /\ <<>> \in Seq(Message)
    BY <1>1, <1>2
  <2> QED BY <2>1, <1>2 DEF Session
<1>3. ASSUME NEW j \in D
      PROVE  \/ /\ ~live[j].lagged
                /\ after[j] = [live[j] EXCEPT !.queue = Append(live[j].queue, message)]
             \/ after[j] = [live[j] EXCEPT !.queue = <<>>, !.lagged = TRUE]
  BY DEF Broadcast
<1>4. DOMAIN after = D /\ after = [j \in D |-> after[j]]
  BY DEF Broadcast
<1> HIDE DEF after
<1>5. \A j \in D : live[j] \in Session
  OBVIOUS
<1>6. \A j \in D : after[j] \in Session
  BY <1>2, <1>3, <1>5
<1>7. ASSUME NEW j \in D
      PROVE  /\ after[j].actor = live[j].actor /\ after[j].greeted = live[j].greeted
             /\ after[j].init = live[j].init /\ after[j].up = live[j].up
             /\ \/ /\ ~after[j].lagged /\ ~live[j].lagged
                   /\ Range(after[j].queue) = Range(live[j].queue) \cup {message}
                \/ after[j].lagged /\ after[j].queue = <<>>
  BY <1>1, <1>3, <1>5 DEF Session
<1> QED BY <1>4, <1>6, <1>7 DEF after

(* What is left on its way when a session reads a frame.                    *)
LEMMA FrameTaken ==
  ASSUME IInv, NEW k, HasFrame(k), DOMAIN session' = DOMAIN session,
         \A j \in DOMAIN session :
           session'[j].up = IF j = k THEN Tail(session[j].up) ELSE session[j].up
  PROVE  /\ Sent = Sent' \cup OpsOf(FrameOf(k)) /\ Sent' \cap OpsOf(FrameOf(k)) = {}
         /\ \A j \in DOMAIN session : UnreadBy(j)' \subseteq UnreadBy(j)
         /\ (\A i, j \in DOMAIN session : i # j => UnreadBy(i) \cap UnreadBy(j) = {})'
         /\ (\A j \in DOMAIN session : FramesApart(session[j].up))'
<1> DEFINE frame == OpsOf(FrameOf(k))
<1>1. /\ k \in DOMAIN session /\ session[k].up \in Seq(Batch) /\ session[k].up # <<>>
      /\ \A j \in DOMAIN session : FramesApart(session[j].up)
      /\ \A i, j \in DOMAIN session : i # j => UnreadBy(i) \cap UnreadBy(j) = {}
  BY DEF IInv, TypeOK, HasFrame, Session, OnePlace
<1>2. /\ UnreadBy(k) = frame \cup UnreadBy(k)' /\ frame \cap UnreadBy(k)' = {}
      /\ FramesApart(session'[k].up)
  BY <1>1, FramesTail DEF UnreadBy, FrameOf
<1>3. \A j \in DOMAIN session : j # k => UnreadBy(j)' = UnreadBy(j) /\ session'[j].up = session[j].up
  BY DEF UnreadBy
<1> HIDE DEF frame
<1>4. \A j \in DOMAIN session : UnreadBy(j)' \subseteq UnreadBy(j)
  BY <1>2, <1>3
<1>5. \A j \in DOMAIN session : UnreadBy(j)' \cap frame = {}
  BY <1>1, <1>2, <1>3
<1>6. Sent = Sent' \cup frame /\ Sent' \cap frame = {}
  BY <1>1, <1>2, <1>3, <1>5 DEF Sent
<1>7. (\A i, j \in DOMAIN session : i # j => UnreadBy(i) \cap UnreadBy(j) = {})'
  BY <1>1, <1>4
<1>8. (\A j \in DOMAIN session : FramesApart(session[j].up))'
  BY <1>1, <1>2, <1>3
<1> QED BY <1>4, <1>6, <1>7, <1>8 DEF frame

(* What is left on its way when a session ends.                             *)
LEMMA SessionGone ==
  ASSUME IInv, NEW k \in DOMAIN session, DOMAIN session' = DOMAIN session \ {k},
         \A j \in DOMAIN session' : session'[j] = session[j]
  PROVE  /\ Sent = Sent' \cup UnreadBy(k) /\ Sent' \cap UnreadBy(k) = {}
         /\ \A j \in DOMAIN session' : UnreadBy(j)' = UnreadBy(j)
         /\ (\A i, j \in DOMAIN session : i # j => UnreadBy(i) \cap UnreadBy(j) = {})'
         /\ (\A j \in DOMAIN session : FramesApart(session[j].up))'
<1>1. \A j \in DOMAIN session' : UnreadBy(j)' = UnreadBy(j)
  BY DEF UnreadBy
<1>2. Sent = Sent' \cup UnreadBy(k) /\ Sent' \cap UnreadBy(k) = {}
  BY <1>1 DEF IInv, OnePlace, Sent
<1> QED BY <1>1, <1>2 DEF IInv, OnePlace

-----------------------------------------------------------------------------
(* Steps of the server. *)

LEMMA OrphansFewer ==
  ASSUME IInv, TypeOK', Orphans' \subseteq Orphans, failures <= failures'
  PROVE  Cardinality(Orphans') <= failures'
<1>1. IsFiniteSet(DOMAIN session)
  <2>1. IsFiniteSet(Sockets)
    BY TabAssumption, BoundsAssumption, FS_CardinalityType, FS_Interval DEF Sockets
  <2> QED BY <2>1, FS_Subset DEF IInv, TypeOK
<1>2. IsFiniteSet(Orphans)
  BY <1>1, FS_Subset DEF Orphans
<1>3. /\ Cardinality(Orphans') <= Cardinality(Orphans)
      /\ IsFiniteSet(Orphans') /\ Cardinality(Orphans) \in Nat /\ Cardinality(Orphans') \in Nat
  BY <1>2, FS_Subset, FS_CardinalityType
<1>4. Cardinality(Orphans) <= failures /\ failures \in Nat /\ failures' \in Nat
  BY BoundsAssumption DEF IInv, SocketsKept, TypeOK
<1> QED BY <1>3, <1>4

(* Tabs keep their sockets, no session begins and none is given another     *)
(* number.                                                                  *)
LEMMA TabsStand ==
  ASSUME IInv, TypeOK', UNCHANGED <<nextConnection, tabVars>>, failures <= failures',
         happened \subseteq happened', DOMAIN session' \subseteq DOMAIN session,
         \A j \in DOMAIN session' : session'[j].actor = session[j].actor
  PROVE  SocketsKept' /\ SessionsApart' /\ ActorsReserved' /\ ActorsDistinct'
<1>1. Orphans' \subseteq Orphans
  BY DEF Orphans, tabVars
<1>2. SocketsKept'
  BY <1>1, OrphansFewer DEF IInv, SocketsKept, tabVars
<1>3. SessionsApart'
  BY DEF IInv, SessionsApart
<1>4. ActorsReserved' /\ ActorsDistinct'
  BY DEF IInv, ActorsReserved, ActorsDistinct, Happened, tabVars
<1> QED BY <1>2, <1>3, <1>4

(* A session ends: RefuseBatch, CloseLagged, EndOrphan. *)
LEMMA ShrinkKeeps ==
  ASSUME IInv, NEW k \in DOMAIN session, session' = Without(k),
         dropped' = dropped \cup UnreadBy(k), Works,
         UNCHANGED <<store, room, nextConnection, tabVars>>
  PROVE  IInv'
<1> USE DEF Works, tabVars
<1>1. /\ DOMAIN session' = DOMAIN session \ {k}
      /\ \A j \in DOMAIN session' : session'[j] = session[j]
      /\ session' \in [DOMAIN session' -> Session]
  BY DEF Without, IInv, TypeOK
<1>2. /\ Sent = Sent' \cup UnreadBy(k) /\ Sent' \cap UnreadBy(k) = {}
      /\ \A j \in DOMAIN session' : UnreadBy(j)' = UnreadBy(j)
      /\ (\A i, j \in DOMAIN session : i # j => UnreadBy(i) \cap UnreadBy(j) = {})'
      /\ (\A j \in DOMAIN session : FramesApart(session[j].up))'
  BY <1>1, SessionGone
<1>3. UnreadBy(k) \subseteq Operation
  BY UnreadTyped DEF IInv
<1>4. TypeOK'
  BY <1>1, <1>3 DEF IInv, TypeOK
<1>5. RowsNumbered' /\ Durable' = Durable
  BY StoreStays
<1>6. SocketsKept' /\ SessionsApart' /\ ActorsReserved' /\ ActorsDistinct'
  <2>1. failures <= failures' /\ happened \subseteq happened'
    BY BoundsAssumption DEF IInv, TypeOK
  <2> QED BY <1>1, <1>4, <2>1, TabsStand
<1>7. SessionsHaveRoom' /\ QueuesInRoom' /\ RoomMatchesStore'
  BY <1>1, <1>5 DEF IInv, SessionsHaveRoom, QueuesInRoom, RoomMatchesStore, Intact, Happened
<1>8. BroadcastIsDurable' /\ InitIsDurable' /\ PeersHoldOnlyDurable'
  BY <1>1, <1>5 DEF IInv, BroadcastIsDurable, InitIsDurable, PeersHoldOnlyDurable, Intact, Happened
<1>9. OwnHeld'
  BY <1>1, <1>2 DEF IInv, OwnHeld
<1>10. JoinLosesNothing'
  BY <1>1 DEF IInv, JoinLosesNothing, InTransit, Happened
<1>11. Accounted'
  BY <1>2, <1>5 DEF IInv, Accounted, Intact, Happened
<1>12. OnePlace'
  BY <1>2, <1>5 DEF IInv, OnePlace, Decided
<1>13. Numbered'
  BY <1>2, <1>5 DEF IInv, Numbered, Decided
<1> QED BY <1>4, <1>5, <1>6, <1>7, <1>8, <1>9, <1>10, <1>11, <1>12, <1>13 DEF IInv

(* A frame is read and dropped: RefuseFull, DropFrame. *)
LEMMA TakeKeeps ==
  ASSUME IInv, NEW k, HasFrame(k), session' = Taken(k),
         dropped' = dropped \cup OpsOf(FrameOf(k)),
         happened' \in SUBSET FaultKinds, happened \subseteq happened',
         failures' \in 0..MaxFailures, failures <= failures',
         UNCHANGED <<store, room, nextConnection, tabVars>>
  PROVE  IInv'
<1> USE DEF tabVars
<1>1. /\ k \in DOMAIN session
      /\ OpsOf(FrameOf(k)) \in SUBSET Operation /\ OpsOf(FrameOf(k)) \subseteq UnreadBy(k)
  BY TakenIs DEF IInv, HasFrame
<1>2. /\ DOMAIN session' = DOMAIN session /\ session' \in [DOMAIN session -> Session]
      /\ \A j \in DOMAIN session :
           /\ session'[j].actor = session[j].actor /\ session'[j].greeted = session[j].greeted
           /\ session'[j].init = session[j].init /\ session'[j].queue = session[j].queue
           /\ session'[j].lagged = session[j].lagged
           /\ session'[j].up = IF j = k THEN Tail(session[j].up) ELSE session[j].up
  BY TakenIs DEF IInv
<1>3. /\ Sent = Sent' \cup OpsOf(FrameOf(k)) /\ Sent' \cap OpsOf(FrameOf(k)) = {}
      /\ \A j \in DOMAIN session : UnreadBy(j)' \subseteq UnreadBy(j)
      /\ (\A i, j \in DOMAIN session : i # j => UnreadBy(i) \cap UnreadBy(j) = {})'
      /\ (\A j \in DOMAIN session : FramesApart(session[j].up))'
  BY <1>2, FrameTaken
<1>4. TypeOK'
  BY <1>1, <1>2 DEF IInv, TypeOK
<1>5. RowsNumbered' /\ Durable' = Durable
  BY StoreStays
<1>6. SocketsKept' /\ SessionsApart' /\ ActorsReserved' /\ ActorsDistinct'
  BY <1>2, <1>4, TabsStand
<1>7. SessionsHaveRoom' /\ QueuesInRoom' /\ RoomMatchesStore'
  BY <1>2, <1>5 DEF IInv, SessionsHaveRoom, QueuesInRoom, RoomMatchesStore, Intact, Happened
<1>8. BroadcastIsDurable' /\ InitIsDurable' /\ PeersHoldOnlyDurable'
  BY <1>2, <1>5 DEF IInv, BroadcastIsDurable, InitIsDurable, PeersHoldOnlyDurable, Intact, Happened
<1>9. OwnHeld'
  BY <1>2, <1>3 DEF IInv, OwnHeld
<1>10. JoinLosesNothing'
  BY <1>2 DEF IInv, JoinLosesNothing, InTransit, Happened
<1>11. Accounted'
  BY <1>3, <1>5 DEF IInv, Accounted, Intact, Happened
<1>12. OnePlace'
  BY <1>1, <1>2, <1>3, <1>5 DEF IInv, OnePlace, Decided
<1>13. Numbered'
  BY <1>3, <1>5 DEF IInv, Numbered, Decided
<1> QED BY <1>4, <1>5, <1>6, <1>7, <1>8, <1>9, <1>10, <1>11, <1>12, <1>13 DEF IInv

(* What an accepted batch does to the store and the room. *)
LEMMA AcceptRecords ==
  ASSUME IInv, NEW k, Accept(k)
  PROVE  LET ops == OpsOf(FrameOf(k))
         IN  /\ room' \in [live : BOOLEAN, ops : SUBSET Operation, since : Nat]
             /\ room.live /\ room'.live /\ room'.ops = room.ops \cup ops
             /\ \A seq \in DOMAIN store'.rows : store'.rows[seq] \in Operation
             /\ store'.snapshot \in [through : Nat, ops : SUBSET Operation]
             /\ RowsNumbered'
             /\ Durable' = Durable \cup ops \/ Durable' = room.ops \cup ops
             /\ happened' \subseteq FaultKinds /\ failures' \in 0..MaxFailures
             /\ happened \subseteq happened' /\ failures <= failures'
             /\ Intact' <=> Intact
             /\ Happened("append")' <=> Happened("append")
<1> DEFINE batch == FrameOf(k)
           ops == OpsOf(batch)
           absorbed == Absorbed(batch)
           appended == AppendRows(store, batch)
<1>1. /\ batch \in Seq(Operation) /\ ops \in SUBSET Operation /\ Len(batch) \in Nat
      /\ HasFrame(k) /\ room.live
  BY TakenIs, BatchIs DEF IInv, Accept, Acceptable, Batch
<1>2. PICK n \in Nat : /\ DOMAIN store.rows = 1..n /\ store.snapshot.through \in 0..n
                       /\ \A seq \in 1..n : store.rows[seq] \in Operation
  BY StoreFacts DEF IInv
<1>3. /\ store.snapshot \in [through : Nat, ops : SUBSET Operation]
      /\ room \in [live : BOOLEAN, ops : SUBSET Operation, since : Nat]
      /\ happened \subseteq FaultKinds /\ failures \in 0..MaxFailures
  BY DEF IInv, TypeOK
<1>4. LET a == appended
      IN  /\ DOMAIN a.rows = 1..(n + Len(batch)) /\ a.snapshot = store.snapshot
          /\ Restore(a) = Durable \cup ops
          /\ \A seq \in DOMAIN a.rows : a.rows[seq] \in Operation
  <2>1. Restore(store) = Durable /\ {store.rows[i] : i \in 1..n} \subseteq Operation
    BY <1>2 DEF Durable
  <2> HIDE DEF ops
  <2> QED BY <1>1, <1>2, <2>1, AppendRestores DEF ops
<1>5. /\ absorbed \in [live : BOOLEAN, ops : SUBSET Operation, since : Nat]
      /\ [absorbed EXCEPT !.since = 0] \in [live : BOOLEAN, ops : SUBSET Operation, since : Nat]
      /\ absorbed.live /\ absorbed.ops = room.ops \cup ops
      /\ LET r == [absorbed EXCEPT !.since = 0] IN r.live /\ r.ops = room.ops \cup ops
  <2>1. room.ops \cup ops \in SUBSET Operation /\ room.since + Len(batch) \in Nat
    BY <1>1, <1>3
  <2>2. /\ absorbed \in [live : BOOLEAN, ops : SUBSET Operation, since : Nat]
        /\ absorbed.live /\ absorbed.ops = room.ops \cup ops
    BY <1>1, <1>3, <2>1 DEF Absorbed
  <2> HIDE DEF absorbed
  <2> QED BY <2>2
<1>6. /\ happened' = happened \/ happened' = happened \cup {"snapshot"}
      /\ failures' = failures \/ (failures' = failures + 1 /\ failures < MaxFailures)
  BY DEF Accept, Works, Fails
<1>7. /\ happened' \subseteq FaultKinds /\ failures' \in 0..MaxFailures
      /\ happened \subseteq happened' /\ failures <= failures'
      /\ Intact' <=> Intact
      /\ Happened("append")' <=> Happened("append")
  <2>1. failures' \in 0..MaxFailures /\ failures <= failures'
    BY <1>3, <1>6, BoundsAssumption
  <2>2. /\ happened' \subseteq FaultKinds /\ happened \subseteq happened'
        /\ Intact' <=> Intact
        /\ Happened("append")' <=> Happened("append")
    BY <1>3, <1>6 DEF FaultKinds, Intact, Happened
  <2> QED BY <2>1, <2>2
<1>8. \/ store' = appended /\ room' = absorbed
      \/ store' = StoreSnapshot(appended, absorbed.ops) /\ room' = [absorbed EXCEPT !.since = 0]
  BY DEF Accept
<1> HIDE DEF appended, absorbed
<1>9. CASE store' = appended /\ room' = absorbed
  <2>1. RowsNumbered'
    <3>1. /\ n + Len(batch) \in Nat
          /\ store'.snapshot.through \in 0..(n + Len(batch))
      BY <1>1, <1>2, <1>4, <1>9
    <3> QED BY <1>4, <1>9, <3>1, RowsAre
  <2>2. Durable' = Durable \cup ops
    BY <1>4, <1>9 DEF Durable
  <2> QED BY <1>1, <1>3, <1>4, <1>5, <1>7, <1>9, <2>1, <2>2
<1>10. CASE /\ store' = StoreSnapshot(appended, absorbed.ops)
            /\ room' = [absorbed EXCEPT !.since = 0]
  <2>1. n + Len(batch) \in Nat
    BY <1>1
  <2>2. /\ store'.rows = appended.rows /\ Restore(store') = absorbed.ops
        /\ store'.snapshot = [through |-> n + Len(batch), ops |-> absorbed.ops]
    BY <1>4, <1>10, <2>1, SnapshotRestores
  <2>3. RowsNumbered'
    BY <1>4, <2>1, <2>2, RowsAre
  <2>4. Durable' = room.ops \cup ops
    BY <1>5, <2>2 DEF Durable
  <2>5. store'.snapshot \in [through : Nat, ops : SUBSET Operation]
    BY <1>5, <2>1, <2>2
  <2> QED BY <1>1, <1>4, <1>5, <1>7, <1>10, <2>2, <2>3, <2>4, <2>5
<1> QED BY <1>8, <1>9, <1>10

LEMMA AcceptKeeps ==
  ASSUME IInv, NEW k, Accept(k)
  PROVE  IInv'
<1> DEFINE batch   == FrameOf(k)
           ops     == OpsOf(batch)
           message == [origin |-> session[k].actor, ops |-> batch]
<1>1. UNCHANGED <<nextConnection, tabVars, dropped>> /\ HasFrame(k)
  BY DEF Accept, Acceptable
<1>2. /\ room' \in [live : BOOLEAN, ops : SUBSET Operation, since : Nat]
      /\ room.live /\ room'.live /\ room'.ops = room.ops \cup ops
      /\ \A seq \in DOMAIN store'.rows : store'.rows[seq] \in Operation
      /\ store'.snapshot \in [through : Nat, ops : SUBSET Operation]
      /\ RowsNumbered'
      /\ Durable' = Durable \cup ops \/ Durable' = room.ops \cup ops
      /\ happened' \subseteq FaultKinds /\ failures' \in 0..MaxFailures
      /\ happened \subseteq happened' /\ failures <= failures'
      /\ Intact' <=> Intact
      /\ Happened("append")' <=> Happened("append")
  BY AcceptRecords
<1>3. /\ k \in DOMAIN session /\ ops \subseteq UnreadBy(k)
      /\ batch \in Batch /\ ops \in SUBSET Operation
  BY <1>1, TakenIs DEF IInv, HasFrame
<1>4. /\ DOMAIN session' = DOMAIN session /\ session' \in [DOMAIN session -> Session]
      /\ \A j \in DOMAIN session :
           /\ session'[j].actor = session[j].actor /\ session'[j].greeted = session[j].greeted
           /\ session'[j].init = session[j].init
           /\ session'[j].up = IF j = k THEN Tail(session[j].up) ELSE session[j].up
           /\ \/ /\ ~session'[j].lagged /\ ~session[j].lagged
                 /\ Range(session'[j].queue) = Range(session[j].queue) \cup {message}
              \/ session'[j].lagged /\ Range(session'[j].queue) = {}
  <2>1. session[k].actor \in Nat
    BY <1>3 DEF IInv, TypeOK, Session
  <2>2. message \in Message
    BY <1>3, <2>1 DEF Message
  <2>3. /\ DOMAIN Taken(k) = DOMAIN session /\ Taken(k) \in [DOMAIN session -> Session]
        /\ \A j \in DOMAIN session : LET after == Taken(k)[j] IN
             /\ after.actor = session[j].actor /\ after.greeted = session[j].greeted
             /\ after.init = session[j].init /\ after.queue = session[j].queue
             /\ after.lagged = session[j].lagged
             /\ after.up = IF j = k THEN Tail(session[j].up) ELSE session[j].up
    BY <1>1, TakenIs DEF IInv
  <2>4. session' = Broadcast(Taken(k), message)
    BY DEF Accept
  <2> HIDE DEF message
  <2> DEFINE D == DOMAIN session
             live == Taken(k)
             after == Broadcast(live, message)
  <2>5. live \in [D -> Session] /\ after = session'
    BY <2>3, <2>4
  <2> HIDE DEF live, D
  <2>6. /\ after \in [D -> Session]
        /\ \A j \in D :
                  /\ after[j].actor = live[j].actor /\ after[j].greeted = live[j].greeted
                  /\ after[j].init = live[j].init /\ after[j].up = live[j].up
                  /\ \/ /\ ~after[j].lagged /\ ~live[j].lagged
                        /\ Range(after[j].queue) = Range(live[j].queue) \cup {message}
                     \/ after[j].lagged /\ after[j].queue = <<>>
    BY <2>2, <2>5, BroadcastIs
  <2> HIDE DEF after
  <2>7. /\ session' \in [DOMAIN session -> Session]
        /\ \A j \in DOMAIN session :
             /\ session'[j].actor = Taken(k)[j].actor /\ session'[j].greeted = Taken(k)[j].greeted
             /\ session'[j].init = Taken(k)[j].init /\ session'[j].up = Taken(k)[j].up
             /\ \/ /\ ~session'[j].lagged /\ ~Taken(k)[j].lagged
                   /\ Range(session'[j].queue) = Range(Taken(k)[j].queue) \cup {message}
                \/ session'[j].lagged /\ session'[j].queue = <<>>
    BY <2>5, <2>6 DEF live, D
  <2> QED BY <2>3, <2>7, EmptyRange
<1>5. /\ Sent = Sent' \cup ops /\ Sent' \cap ops = {}
      /\ \A j \in DOMAIN session : UnreadBy(j)' \subseteq UnreadBy(j)
      /\ (\A i, j \in DOMAIN session : i # j => UnreadBy(i) \cap UnreadBy(j) = {})'
      /\ (\A j \in DOMAIN session : FramesApart(session[j].up))'
  BY <1>1, <1>4, FrameTaken
<1>6. message.origin = session[k].actor /\ message.ops = batch
  OBVIOUS
<1>7. Durable' \subseteq Durable \cup room.ops \cup ops /\ ops \subseteq Durable'
  BY <1>2
<1>8. Intact => Durable \subseteq Durable' /\ Durable' = room'.ops
  BY <1>2 DEF IInv, RoomMatchesStore
<1> HIDE DEF ops, batch, message
<1>9. TypeOK'
  BY <1>1, <1>2, <1>4 DEF IInv, TypeOK, tabVars
<1>10. SocketsKept' /\ SessionsApart' /\ ActorsReserved' /\ ActorsDistinct'
  BY <1>1, <1>2, <1>4, <1>9, TabsStand
<1>11. SessionsHaveRoom' /\ RoomMatchesStore'
  BY <1>2, <1>8 DEF SessionsHaveRoom, RoomMatchesStore
<1>12. \A j \in DOMAIN session : \A other \in Range(session'[j].queue) :
         other \in Range(session[j].queue) \/ other = message
  BY <1>4
<1>13. QueuesInRoom' /\ BroadcastIsDurable'
  <2>1. \A other : OpsOf(other.ops) = OpsOf(other.ops)'
    BY DEF OpsOf
  <2>2. ASSUME NEW j \in DOMAIN session, NEW other \in Range(session'[j].queue)
        PROVE  OpsOf(other.ops) \subseteq room'.ops /\ OpsOf(other.ops) \subseteq Durable'
    <3>1. CASE other = message
      BY <1>2, <1>6, <1>7, <3>1 DEF ops
    <3>2. CASE other \in Range(session[j].queue)
      <4>1. OpsOf(other.ops) \subseteq room.ops /\ OpsOf(other.ops) \subseteq Durable
        BY <3>2 DEF IInv, QueuesInRoom, BroadcastIsDurable
      <4> QED BY <1>2, <4>1
    <3> QED BY <1>12, <2>2, <3>1, <3>2
  <2> QED BY <1>4, <2>2 DEF QueuesInRoom, BroadcastIsDurable
<1>14. InitIsDurable'
  BY <1>2, <1>4, <1>8 DEF IInv, InitIsDurable
<1>15. PeersHoldOnlyDurable'
  BY <1>1, <1>2, <1>8 DEF IInv, PeersHoldOnlyDurable, tabVars
<1>16. OwnHeld'
  <2>1. ASSUME NEW t \in Tab, NEW j \in DOMAIN session, j = socket[t]
        PROVE  /\ UnreadBy(j)' \subseteq board[t]
               /\ \A other \in Range(session'[j].queue) :
                    other.origin = session'[j].actor => OpsOf(other.ops) \subseteq board[t]
               /\ session'[j].greeted => session'[j].init = {}
    <3>1. /\ UnreadBy(j) \subseteq board[t]
          /\ \A other \in Range(session[j].queue) :
               other.origin = session[j].actor => OpsOf(other.ops) \subseteq board[t]
          /\ session[j].greeted => session[j].init = {}
      BY <2>1 DEF IInv, OwnHeld
    <3>2. message.origin = session[j].actor => j = k
      BY <1>3, <1>6, <2>1 DEF IInv, SessionsApart
    <3>3. message.origin = session[j].actor => OpsOf(message.ops) \subseteq board[t]
      BY <1>3, <1>6, <3>1, <3>2 DEF ops
    <3> QED BY <1>4, <1>5, <1>12, <2>1, <3>1, <3>3
  <2> QED BY <1>1, <1>4, <2>1 DEF IInv, OwnHeld, tabVars
<1>17. JoinLosesNothing'
  <2>1. ASSUME ~Happened("append"), NEW t \in Tab, socket[t] \in DOMAIN session,
               ~session'[socket[t]].lagged
        PROVE  room'.ops \subseteq board[t] \cup InTransit(socket[t])'
    <3> DEFINE j == socket[t]
    <3>1. /\ ~session[j].lagged /\ session'[j].init = session[j].init
          /\ Range(session'[j].queue) = Range(session[j].queue) \cup {message}
      BY <1>4, <2>1
    <3>2. room.ops \subseteq board[t] \cup InTransit(j)
      BY <2>1, <3>1 DEF IInv, JoinLosesNothing
    <3>3. InTransit(j) \cup OpsOf(message.ops) \subseteq InTransit(j)'
      BY <1>1, <3>1 DEF InTransit, tabVars
    <3> QED BY <1>1, <1>2, <1>6, <3>2, <3>3 DEF ops, tabVars
  <2> QED BY <1>1, <1>2, <1>4, <2>1 DEF JoinLosesNothing, tabVars
<1>18. Accounted'
  BY <1>1, <1>2, <1>5, <1>7, <1>8 DEF IInv, Accounted, tabVars
<1>19. Decided' \cup Sent' \subseteq Decided \cup Sent /\ Decided' \subseteq Decided \cup ops
  BY <1>1, <1>2, <1>5, <1>7 DEF Decided
<1>20. OnePlace'
  <2>1. dropped' \cap (Durable \cup room.ops)' = {}
    BY <1>1, <1>2, <1>5, <1>7 DEF IInv, OnePlace, Decided
  <2>2. \A t \in Tab : OpsOf(outbox'[t]) \cap (Decided \cup Sent)' = {}
    BY <1>1, <1>19 DEF IInv, OnePlace, tabVars
  <2>3. Sent' \cap Decided' = {}
    BY <1>5, <1>19 DEF IInv, OnePlace
  <2> QED BY <1>4, <1>5, <2>1, <2>2, <2>3 DEF OnePlace
<1>21. Numbered'
  BY <1>1, <1>19 DEF IInv, Numbered, tabVars
<1> QED BY <1>2, <1>9, <1>10, <1>11, <1>13, <1>14, <1>15, <1>16, <1>17, <1>18, <1>20, <1>21 DEF IInv

LEMMA AppendFailsKeeps ==
  ASSUME IInv, NEW k, AppendFails(k)
  PROVE  IInv'
<1> DEFINE ops == OpsOf(FrameOf(k))
<1>1. /\ UNCHANGED <<store, nextConnection, tabVars>> /\ HasFrame(k) /\ room.live
      /\ session' = Without(k) /\ dropped' = dropped \cup (UnreadBy(k) \ ops)
      /\ room' = Absorbed(FrameOf(k)) /\ Fails("append")
  BY DEF AppendFails, Acceptable
<1>2. /\ k \in DOMAIN session /\ ops \subseteq UnreadBy(k) /\ ops \in SUBSET Operation
      /\ FrameOf(k) \in Batch /\ UnreadBy(k) \subseteq Operation
  BY <1>1, TakenIs, UnreadTyped DEF IInv, HasFrame
<1>3. /\ room' \in [live : BOOLEAN, ops : SUBSET Operation, since : Nat]
      /\ room'.live /\ room'.ops = room.ops \cup ops
  <2>1. room \in [live : BOOLEAN, ops : SUBSET Operation, since : Nat]
    BY DEF IInv, TypeOK
  <2>2. room.ops \cup ops \in SUBSET Operation /\ room.since + Len(FrameOf(k)) \in Nat
    BY <1>2, <2>1 DEF Batch
  <2> QED BY <1>1, <2>1, <2>2 DEF Absorbed
<1>4. /\ happened' = happened \cup {"append"} /\ failures' = failures + 1
      /\ happened' \subseteq FaultKinds /\ failures' \in 0..MaxFailures /\ failures <= failures'
  BY <1>1, BoundsAssumption DEF Fails, FaultKinds, IInv, TypeOK
<1>5. ~Intact' /\ Happened("append")'
  BY <1>4 DEF Intact, Happened
<1>6. /\ DOMAIN session' = DOMAIN session \ {k} /\ session' \in [DOMAIN session' -> Session]
      /\ \A j \in DOMAIN session' : session'[j] = session[j]
  BY <1>1 DEF Without, IInv, TypeOK
<1>7. /\ Sent = Sent' \cup UnreadBy(k) /\ Sent' \cap UnreadBy(k) = {}
      /\ \A j \in DOMAIN session' : UnreadBy(j)' = UnreadBy(j)
      /\ (\A i, j \in DOMAIN session : i # j => UnreadBy(i) \cap UnreadBy(j) = {})'
      /\ (\A j \in DOMAIN session : FramesApart(session[j].up))'
  BY <1>2, <1>6, SessionGone
<1> HIDE DEF ops
<1>8. RowsNumbered' /\ Durable' = Durable
  BY <1>1, StoreStays
<1>9. TypeOK'
  BY <1>1, <1>2, <1>3, <1>4, <1>6 DEF IInv, TypeOK, tabVars
<1>10. SocketsKept' /\ SessionsApart' /\ ActorsReserved' /\ ActorsDistinct'
  BY <1>1, <1>4, <1>6, <1>9, TabsStand
<1>11. /\ RoomMatchesStore' /\ InitIsDurable' /\ PeersHoldOnlyDurable'
       /\ JoinLosesNothing' /\ Accounted'
  BY <1>5 DEF RoomMatchesStore, InitIsDurable, PeersHoldOnlyDurable, JoinLosesNothing, Accounted
<1>12. SessionsHaveRoom' /\ QueuesInRoom' /\ BroadcastIsDurable'
  BY <1>3, <1>6, <1>8 DEF IInv, SessionsHaveRoom, QueuesInRoom, BroadcastIsDurable
<1>13. OwnHeld'
  BY <1>1, <1>6, <1>7 DEF IInv, OwnHeld, tabVars
<1>14. /\ Decided' = Decided \cup UnreadBy(k)
       /\ ops \cap dropped = {} /\ UnreadBy(k) \cap Decided = {}
  BY <1>1, <1>2, <1>3, <1>7, <1>8 DEF IInv, OnePlace, Decided
<1>15. OnePlace'
  <2>1. dropped' \cap (Durable \cup room.ops)' = {}
    BY <1>1, <1>3, <1>8, <1>14 DEF IInv, OnePlace, Decided
  <2>2. \A t \in Tab : OpsOf(outbox'[t]) \cap (Decided \cup Sent)' = {}
    BY <1>1, <1>7, <1>14 DEF IInv, OnePlace, tabVars
  <2>3. Sent' \cap Decided' = {}
    BY <1>7, <1>14 DEF IInv, OnePlace
  <2> QED BY <1>7, <2>1, <2>2, <2>3 DEF OnePlace
<1>16. Numbered'
  BY <1>1, <1>7, <1>14 DEF IInv, Numbered, tabVars
<1> QED BY <1>8, <1>9, <1>10, <1>11, <1>12, <1>13, <1>15, <1>16 DEF IInv

LEMMA NoSessions ==
  ASSUME DOMAIN session = {}
  PROVE  /\ Sent = {} /\ SessionsHaveRoom /\ SessionsApart /\ QueuesInRoom /\ BroadcastIsDurable
         /\ InitIsDurable /\ JoinLosesNothing /\ Orphans = {}
         /\ \A j, k \in DOMAIN session : j # k => UnreadBy(j) \cap UnreadBy(k) = {}
         /\ \A k \in DOMAIN session : FramesApart(session[k].up)
BY DEF Sent, SessionsHaveRoom, SessionsApart, QueuesInRoom, BroadcastIsDurable, InitIsDurable,
       JoinLosesNothing, Orphans

LEMMA NoRoomIs ==
  /\ NoRoom \in [live : BOOLEAN, ops : SUBSET Operation, since : Nat]
  /\ ~NoRoom.live /\ NoRoom.ops = {}
BY DEF NoRoom

LEMMA ReclaimKeeps ==
  ASSUME IInv, Reclaim
  PROVE  IInv'
<1>1. /\ DOMAIN session = {} /\ DOMAIN session' = {} /\ room' = NoRoom
      /\ UNCHANGED <<store, nextConnection, session, tabVars, dropped, happened, failures>>
  BY DEF Reclaim, Works
<1>2. TypeOK'
  BY <1>1, NoRoomIs DEF IInv, TypeOK, tabVars
<1>3. RowsNumbered' /\ Durable' = Durable
  BY <1>1, StoreStays
<1>4. SocketsKept' /\ SessionsApart' /\ ActorsReserved' /\ ActorsDistinct'
  <2>1. failures <= failures' /\ happened \subseteq happened'
    BY <1>1, BoundsAssumption DEF IInv, TypeOK
  <2> QED BY <1>1, <1>2, <2>1, TabsStand
<1>5. /\ Sent' = {} /\ SessionsHaveRoom' /\ QueuesInRoom' /\ BroadcastIsDurable'
      /\ InitIsDurable' /\ JoinLosesNothing'
      /\ (\A j, k \in DOMAIN session : j # k => UnreadBy(j) \cap UnreadBy(k) = {})'
      /\ (\A k \in DOMAIN session : FramesApart(session[k].up))'
  BY <1>1 DEF Sent, SessionsHaveRoom, QueuesInRoom, BroadcastIsDurable, InitIsDurable,
              JoinLosesNothing
<1>6. Sent = {}
  BY <1>1, NoSessions
<1>7. RoomMatchesStore'
  BY <1>1, NoRoomIs DEF RoomMatchesStore
<1>8. PeersHoldOnlyDurable' /\ Accounted'
  BY <1>1, <1>3, <1>5, <1>6
     DEF IInv, PeersHoldOnlyDurable, Accounted, Intact, Happened, tabVars
<1>9. OwnHeld'
  BY <1>1 DEF IInv, OwnHeld, tabVars
<1>10. OnePlace' /\ Numbered'
  BY <1>1, <1>3, <1>5, NoRoomIs DEF IInv, OnePlace, Numbered, Decided, tabVars
<1> QED BY <1>2, <1>3, <1>4, <1>5, <1>7, <1>8, <1>9, <1>10 DEF IInv

LEMMA RestartKeeps ==
  ASSUME IInv, Restart
  PROVE  IInv'
<1>1. /\ session' = [k \in {} |-> k] /\ room' = NoRoom /\ nextConnection' = 0
      /\ dropped' = dropped \cup Sent
      /\ UNCHANGED <<store, tabVars>> /\ Fails("restart")
  BY DEF Restart, Sent
<1>2. /\ happened' = happened \cup {"restart"} /\ failures' = failures + 1
      /\ happened' \subseteq FaultKinds /\ failures' \in 0..MaxFailures /\ failures <= failures'
  BY <1>1, BoundsAssumption DEF Fails, FaultKinds, IInv, TypeOK
<1>3. Happened("restart")' /\ (Intact' <=> Intact)
  BY <1>2 DEF Happened, Intact
<1>4. DOMAIN session' = {} /\ session' \in [{} -> Session]
  BY <1>1
<1>5. \A k \in DOMAIN session : UnreadBy(k) \subseteq Operation
  BY UnreadTyped DEF IInv
<1>6. TypeOK'
  BY <1>1, <1>2, <1>4, <1>5, NoRoomIs DEF IInv, TypeOK, tabVars, Sent
<1>7. RowsNumbered' /\ Durable' = Durable
  BY <1>1, StoreStays
<1>8. SocketsKept'
  <2>1. Orphans' \subseteq Orphans
    BY <1>4 DEF Orphans
  <2> QED BY <1>1, <1>2, <1>6, <2>1, OrphansFewer DEF IInv, SocketsKept, tabVars
<1>9. ActorsReserved' /\ ActorsDistinct'
  BY <1>3 DEF ActorsReserved, ActorsDistinct
<1>10. /\ Sent' = {} /\ SessionsHaveRoom' /\ SessionsApart' /\ QueuesInRoom'
       /\ BroadcastIsDurable' /\ InitIsDurable' /\ JoinLosesNothing'
       /\ (\A j, k \in DOMAIN session : j # k => UnreadBy(j) \cap UnreadBy(k) = {})'
       /\ (\A k \in DOMAIN session : FramesApart(session[k].up))'
  BY <1>4 DEF Sent, SessionsHaveRoom, SessionsApart, QueuesInRoom, BroadcastIsDurable,
              InitIsDurable, JoinLosesNothing
<1>11. RoomMatchesStore'
  BY <1>1, NoRoomIs DEF RoomMatchesStore
<1>12. PeersHoldOnlyDurable' /\ Accounted'
  BY <1>1, <1>3, <1>7 DEF IInv, PeersHoldOnlyDurable, Accounted, tabVars
<1>13. OwnHeld'
  BY <1>1, <1>4 DEF IInv, OwnHeld, tabVars
<1>14. OnePlace' /\ Numbered'
  BY <1>1, <1>7, <1>10, NoRoomIs DEF IInv, OnePlace, Numbered, Decided, tabVars
<1> QED BY <1>6, <1>7, <1>8, <1>9, <1>10, <1>11, <1>12, <1>13, <1>14 DEF IInv

-----------------------------------------------------------------------------
(* Steps of the tabs: connections that begin and end. *)

LEMMA SocketsFinite ==
  /\ IsFiniteSet(Sockets) /\ Cardinality(Sockets) = Cardinality(Tab) + MaxFailures
  /\ Cardinality(Tab) \in Nat
<1>1. Cardinality(Tab) \in Nat
  BY TabAssumption, FS_CardinalityType
<1>2. Cardinality(Tab) + MaxFailures \in Nat
  BY <1>1, BoundsAssumption
<1> DEFINE m == Cardinality(Tab) + MaxFailures
<1> HIDE DEF m
<1>3. IsFiniteSet(1..m) /\ Cardinality(1..m) = m
  BY <1>2, FS_Interval DEF m
<1> QED BY <1>1, <1>3 DEF m, Sockets

(* A tab that waits to connect finds a socket that nobody uses. *)
LEMMA SocketToSpare ==
  ASSUME IInv, NEW t \in Tab, socket[t] = 0
  PROVE  FreshSocket \in Sockets /\ ~InUse(FreshSocket)
<1> DEFINE others == Tab \ {t}
           held   == {socket[u] : u \in others}
<1>1. IsFiniteSet(others) /\ Cardinality(others) = Cardinality(Tab) - 1
  BY TabAssumption, FS_RemoveElement
<1>2. IsFiniteSet(held) /\ Cardinality(held) <= Cardinality(others)
  <2> DEFINE f == [u \in others |-> socket[u]]
  <2>1. f \in Surjection(others, held)
    BY DEF Surjection
  <2> HIDE DEF f, others, held
  <2> QED BY <1>1, <2>1, FS_Surjection
<1>3. IsFiniteSet(Orphans)
  BY SocketsFinite, FS_Subset DEF IInv, TypeOK, Orphans
<1>4. /\ IsFiniteSet(Orphans \cup held)
      /\ Cardinality(Orphans \cup held) <= Cardinality(Orphans) + Cardinality(held)
  <2>1. /\ IsFiniteSet(Orphans \cup held) /\ IsFiniteSet(Orphans \cap held)
        /\ Cardinality(Orphans \cup held) =
             Cardinality(Orphans) + Cardinality(held) - Cardinality(Orphans \cap held)
    BY <1>2, <1>3, FS_Union, FS_Intersection
  <2>2. /\ Cardinality(Orphans \cap held) \in Nat /\ Cardinality(Orphans) \in Nat
        /\ Cardinality(held) \in Nat
    BY <1>2, <1>3, <2>1, FS_CardinalityType
  <2> QED BY <2>1, <2>2
<1>5. Cardinality(Orphans \cup held) < Cardinality(Sockets)
  <2>1. Cardinality(Orphans) <= failures /\ failures <= MaxFailures /\ failures \in Nat
    BY BoundsAssumption DEF IInv, SocketsKept, TypeOK
  <2>2. /\ Cardinality(Orphans) \in Nat /\ Cardinality(held) \in Nat
        /\ Cardinality(others) \in Nat /\ Cardinality(Orphans \cup held) \in Nat
    BY <1>1, <1>2, <1>3, <1>4, FS_CardinalityType
  <2> HIDE DEF others, held
  <2> QED BY <1>1, <1>2, <1>4, <2>1, <2>2, SocketsFinite, BoundsAssumption
<1>6. ~(Sockets \subseteq Orphans \cup held)
  <2>1. SUFFICES ASSUME Sockets \subseteq Orphans \cup held
                 PROVE  FALSE
    OBVIOUS
  <2>2. Cardinality(Sockets) <= Cardinality(Orphans \cup held)
    BY <1>4, <2>1, FS_Subset
  <2>3. Cardinality(Orphans \cup held) \in Nat /\ Cardinality(Sockets) \in Nat
    BY <1>4, SocketsFinite, FS_CardinalityType
  <2> QED BY <1>5, <2>2, <2>3
<1>7. PICK k \in Sockets : k \notin Orphans /\ k \notin held
  BY <1>6
<1>8. 0 \notin Sockets
  BY SocketsFinite, BoundsAssumption DEF Sockets
<1>9. ~InUse(k)
  BY <1>7, <1>8 DEF InUse, Orphans
<1> QED BY <1>9 DEF FreshSocket

LEMMA JoinKeeps ==
  ASSUME IInv, NEW t \in Tab, NEW restored, Join(t, restored),
         restored \subseteq Durable, Intact' /\ ~room.live => restored = Durable,
         happened \subseteq happened', happened' \subseteq FaultKinds,
         Happened("restart")' <=> Happened("restart"),
         failures <= failures', failures' \in 0..MaxFailures
  PROVE  IInv'
<1>0. PICK k : k = FreshSocket
  OBVIOUS
<1> DEFINE n == nextConnection + 1
           start == [actor |-> n, greeted |-> FALSE, init |-> room'.ops,
                     queue |-> <<>>, lagged |-> FALSE, up |-> <<>>]
<1>1. /\ phase[t] = "idle" /\ room' = (IF room.live THEN room ELSE RoomWith(restored))
      /\ nextConnection' = n
      /\ socket' = [socket EXCEPT ![t] = k]
      /\ phase'  = [phase EXCEPT ![t] = "connecting"]
      /\ session' = [j \in DOMAIN session \cup {k} |-> IF j # k THEN session[j] ELSE start]
      /\ UNCHANGED <<store, everConnected, actor, board, outbox, drawn, dropped>>
  BY <1>0 DEF Join, ConnectionNumber
<1>2. /\ k \in Sockets /\ ~InUse(k) /\ socket[t] = 0 /\ 0 \notin Sockets
  <2>1. socket[t] = 0
    BY <1>1 DEF IInv, SocketsKept
  <2>2. 0 \notin Sockets
    BY SocketsFinite, BoundsAssumption DEF Sockets
  <2> QED BY <1>0, <2>1, <2>2, SocketToSpare
<1>3. Intact' => Intact
  BY DEF Intact, Happened
<1>4. Durable \subseteq Operation /\ nextConnection \in Nat /\ n \in Nat
  BY StoreFacts DEF IInv, TypeOK
<1>5. /\ room' \in [live : BOOLEAN, ops : SUBSET Operation, since : Nat]
      /\ room'.live /\ room'.ops = IF room.live THEN room.ops ELSE restored
      /\ DOMAIN session # {} => room.live
      /\ Intact' => room'.ops = Durable
  BY <1>1, <1>3, <1>4 DEF RoomWith, IInv, TypeOK, SessionsHaveRoom, RoomMatchesStore
<1>6. start \in Session
  <2>1. <<>> \in Seq(Message) /\ <<>> \in Seq(Batch) /\ room'.ops \in SUBSET Operation
    BY <1>5
  <2> QED BY <1>4, <2>1 DEF Session
<1>7. /\ start.actor = n /\ ~start.greeted /\ start.init = room'.ops
      /\ start.queue = <<>> /\ ~start.lagged /\ start.up = <<>>
  OBVIOUS
<1> HIDE DEF start
<1>8. /\ DOMAIN session' = DOMAIN session \cup {k} /\ k \notin DOMAIN session
      /\ session'[k] = start /\ \A j \in DOMAIN session : session'[j] = session[j]
      /\ session' \in [DOMAIN session' -> Session]
  BY <1>1, <1>2, <1>6 DEF InUse, IInv, TypeOK
<1>9. /\ \A u \in Tab : socket'[u] = IF u = t THEN k ELSE socket[u]
      /\ \A u \in Tab : socket[u] # k
      /\ \A u \in Tab : phase'[u] = IF u = t THEN "connecting" ELSE phase[u]
      /\ k # 0
  BY <1>1, <1>2 DEF InUse, IInv, TypeOK
<1>10. /\ \A j \in DOMAIN session : UnreadBy(j)' = UnreadBy(j)
       /\ UnreadBy(k)' = {} /\ Sent' = Sent
  BY <1>7, <1>8, EmptyRange DEF UnreadBy, Sent
<1>11. TypeOK'
  BY <1>1, <1>2, <1>4, <1>5, <1>8 DEF IInv, TypeOK
<1>12. RowsNumbered' /\ Durable' = Durable
  BY <1>1, StoreStays
<1>13. SocketsKept'
  <2>1. Orphans' \subseteq Orphans
    BY <1>2, <1>8, <1>9 DEF Orphans, IInv, TypeOK
  <2> QED BY <1>9, <1>11, <2>1, OrphansFewer DEF IInv, SocketsKept
<1>14. SessionsHaveRoom' /\ RoomMatchesStore' /\ InitIsDurable'
  BY <1>3, <1>5, <1>7, <1>8, <1>12 DEF IInv, SessionsHaveRoom, RoomMatchesStore, InitIsDurable
<1>15. SessionsApart'
  <2>1. \A j \in DOMAIN session : session[j].actor \in 1..nextConnection
    BY DEF IInv, SessionsApart
  <2>2. \A j \in DOMAIN session : session[j].actor \in 1..n /\ session[j].actor # n
    BY <1>4, <2>1
  <2>3. n \in 1..n
    BY <1>4
  <2> HIDE DEF n
  <2> QED BY <1>1, <1>7, <1>8, <2>2, <2>3 DEF IInv, SessionsApart
<1>16. ActorsReserved' /\ ActorsDistinct'
  <2>1. SUFFICES ASSUME ~Happened("restart")
                 PROVE  /\ \A u \in Tab : actor[u] \in 0..n
                        /\ \A u, v \in Tab : u # v /\ socket'[u] \in DOMAIN session' =>
                                               actor[v] # session'[socket'[u]].actor
                        /\ ActorsDistinct'
    BY <1>1 DEF ActorsReserved, ActorsDistinct
  <2>2. \A u \in Tab : actor[u] \in 0..nextConnection
    BY <2>1 DEF IInv, ActorsReserved
  <2>3. \A u \in Tab : actor[u] \in 0..n /\ actor[u] # n
    BY <1>4, <2>2
  <2> HIDE DEF n
  <2>4. \A u, v \in Tab : u # v /\ socket'[u] \in DOMAIN session' =>
                                               actor[v] # session'[socket'[u]].actor
    BY <1>7, <1>8, <1>9, <2>1, <2>3 DEF IInv, ActorsReserved
  <2> QED BY <1>1, <2>1, <2>3, <2>4 DEF IInv, ActorsDistinct
<1>17. QueuesInRoom' /\ BroadcastIsDurable'
  <2>1. \A message \in Range(session'[k].queue) : FALSE
    BY <1>7, <1>8, EmptyRange
  <2> QED BY <1>5, <1>8, <1>12, <2>1 DEF IInv, QueuesInRoom, BroadcastIsDurable
<1>18. PeersHoldOnlyDurable' /\ Accounted'
  BY <1>1, <1>3, <1>10, <1>12 DEF IInv, PeersHoldOnlyDurable, Accounted
<1>19. OwnHeld'
  <2>1. \A message \in Range(session'[k].queue) : FALSE
    BY <1>7, <1>8, EmptyRange
  <2>2. ASSUME NEW u \in Tab, NEW j \in DOMAIN session', j = socket'[u]
        PROVE  /\ UnreadBy(j)' \subseteq board[u]
               /\ \A message \in Range(session'[j].queue) :
                    message.origin = session'[j].actor => OpsOf(message.ops) \subseteq board[u]
               /\ session'[j].greeted => session'[j].init = {}
    <3>1. CASE j = k
      BY <1>7, <1>8, <1>10, <2>1, <3>1
    <3>2. CASE j # k
      BY <1>8, <1>9, <1>10, <2>2, <3>2 DEF IInv, OwnHeld
    <3> QED BY <3>1, <3>2
  <2> QED BY <1>1, <2>2 DEF IInv, OwnHeld
<1>20. JoinLosesNothing'
  <2>1. Happened("append") => Happened("append")'
    BY DEF Happened
  <2>2. ASSUME ~Happened("append"), NEW u \in Tab, NEW j \in DOMAIN session', j = socket'[u],
               ~session'[j].lagged
        PROVE  room'.ops \subseteq board[u] \cup InTransit(j)'
    <3>1. CASE j = k
      BY <1>7, <1>8, <3>1 DEF InTransit
    <3>2. CASE j # k
      BY <1>5, <1>8, <1>9, <2>2, <3>2 DEF IInv, JoinLosesNothing, InTransit
    <3> QED BY <3>1, <3>2
  <2> QED BY <1>1, <2>1, <2>2 DEF JoinLosesNothing
<1>21. Decided' \subseteq Decided /\ Durable' \cup room'.ops \subseteq Durable \cup room.ops
  BY <1>1, <1>5, <1>12 DEF Decided
<1>22. OnePlace'
  <2>1. \A i, j \in DOMAIN session' : i # j => UnreadBy(i)' \cap UnreadBy(j)' = {}
    BY <1>8, <1>10 DEF IInv, OnePlace
  <2>2. \A j \in DOMAIN session' : FramesApart(session'[j].up)
    BY <1>7, <1>8, EmptyRange DEF IInv, OnePlace
  <2> QED BY <1>1, <1>10, <1>21, <2>1, <2>2 DEF IInv, OnePlace
<1>23. Numbered'
  BY <1>1, <1>10, <1>21 DEF IInv, Numbered
<1> QED BY <1>11, <1>12, <1>13, <1>14, <1>15, <1>16, <1>17, <1>18, <1>19, <1>20, <1>22, <1>23 DEF IInv

(* A tab without its socket leaves an orphan, unless the session was over.  *)
LEMMA SocketLost ==
  ASSUME IInv, TypeOK', NEW t \in Tab, NEW waiting \in {"idle", "abandoned"},
         session' = session, socket' = [socket EXCEPT ![t] = 0],
         phase' = [phase EXCEPT ![t] = waiting],
         \/ failures' = failures + 1
         \/ failures' = failures /\ socket[t] \notin DOMAIN session
  PROVE  SocketsKept'
<1>1. /\ \A u \in Tab : socket'[u] = IF u = t THEN 0 ELSE socket[u]
      /\ \A u \in Tab : phase'[u] = IF u = t THEN waiting ELSE phase[u]
      /\ failures \in Nat /\ Cardinality(Orphans) <= failures
  BY BoundsAssumption DEF IInv, TypeOK, SocketsKept
<1>2. Orphans' \subseteq Orphans \cup ({socket[t]} \cap DOMAIN session)
  BY <1>1 DEF Orphans
<1>3. IsFiniteSet(Orphans) /\ Cardinality(Orphans) \in Nat
  BY SocketsFinite, FS_Subset, FS_CardinalityType DEF IInv, TypeOK, Orphans
<1>4. Cardinality(Orphans') <= failures'
  <2>1. CASE failures' = failures + 1
    <3> DEFINE more == Orphans \cup {socket[t]}
    <3>1. /\ IsFiniteSet(more) /\ Cardinality(more) \in Nat
          /\ \/ Cardinality(more) = Cardinality(Orphans)
             \/ Cardinality(more) = Cardinality(Orphans) + 1
      BY <1>3, FS_AddElement, FS_CardinalityType
    <3>2. Orphans' \subseteq more
      BY <1>2
    <3> HIDE DEF more
    <3>3. Cardinality(Orphans') <= Cardinality(more) /\ Cardinality(Orphans') \in Nat
      BY <3>1, <3>2, FS_Subset, FS_CardinalityType
    <3> QED BY <1>1, <1>3, <2>1, <3>1, <3>3
  <2>2. CASE failures' = failures /\ socket[t] \notin DOMAIN session
    <3>1. Orphans' \subseteq Orphans
      BY <1>2, <2>2
    <3>2. Cardinality(Orphans') <= Cardinality(Orphans) /\ Cardinality(Orphans') \in Nat
      BY <1>3, <3>1, FS_Subset, FS_CardinalityType
    <3> QED BY <1>1, <1>3, <2>2, <3>2
  <2> QED BY <2>1, <2>2
<1> QED BY <1>1, <1>4 DEF IInv, SocketsKept

(* A tab loses its socket: ConnectRefused, NoticeClose, LoseNetwork. *)
LEMMA DetachKeeps ==
  ASSUME IInv, NEW t \in Tab, Closed(t),
         \/ \E kind \in FaultKinds : Fails(kind)
         \/ Works /\ socket[t] \notin DOMAIN session,
         UNCHANGED <<store, room, nextConnection, session>>
  PROVE  IInv'
<1> DEFINE waiting == IF everConnected[t] THEN "idle" ELSE "abandoned"
<1>1. /\ socket' = [socket EXCEPT ![t] = 0] /\ phase' = [phase EXCEPT ![t] = waiting]
      /\ UNCHANGED <<everConnected, actor, board, outbox, drawn, dropped>>
      /\ waiting \in {"idle", "abandoned"}
  BY DEF Closed
<1>2. /\ happened \subseteq happened' /\ happened' \subseteq FaultKinds /\ failures' \in 0..MaxFailures
      /\ \/ failures' = failures + 1
         \/ failures' = failures /\ socket[t] \notin DOMAIN session
  BY BoundsAssumption DEF Fails, Works, IInv, TypeOK
<1> HIDE DEF waiting
<1>3. TypeOK'
  BY <1>1, <1>2 DEF IInv, TypeOK
<1>4. RowsNumbered' /\ Durable' = Durable
  BY StoreStays
<1>5. SocketsKept'
  BY <1>1, <1>2, <1>3, SocketLost
<1>6. Intact' => Intact
  BY <1>2 DEF Intact, Happened
<1>7. \A u \in Tab : socket'[u] = IF u = t THEN 0 ELSE socket[u]
  BY <1>1 DEF IInv, TypeOK
<1>8. 0 \notin DOMAIN session
  BY SocketsFinite, BoundsAssumption DEF IInv, TypeOK, Sockets
<1>9. SessionsHaveRoom' /\ SessionsApart' /\ RoomMatchesStore' /\ QueuesInRoom' /\ BroadcastIsDurable'
  BY <1>4, <1>6 DEF IInv, SessionsHaveRoom, SessionsApart, RoomMatchesStore, QueuesInRoom,
                    BroadcastIsDurable
<1>10. ActorsReserved' /\ ActorsDistinct'
  BY <1>1, <1>2, <1>7, <1>8 DEF IInv, ActorsReserved, ActorsDistinct, Happened
<1>11. Sent' = Sent
  BY DEF Sent, UnreadBy
<1>12. InitIsDurable' /\ PeersHoldOnlyDurable' /\ Accounted'
  BY <1>1, <1>4, <1>6, <1>11 DEF IInv, InitIsDurable, PeersHoldOnlyDurable, Accounted
<1>13. OwnHeld'
  BY <1>1, <1>7, <1>8 DEF IInv, OwnHeld, UnreadBy
<1>14. JoinLosesNothing'
  BY <1>1, <1>2, <1>7, <1>8 DEF IInv, JoinLosesNothing, Happened, InTransit
<1>15. OnePlace' /\ Numbered'
  BY <1>1, <1>4, <1>11 DEF IInv, OnePlace, Numbered, Decided, UnreadBy
<1> QED BY <1>3, <1>4, <1>5, <1>9, <1>10, <1>12, <1>13, <1>14, <1>15 DEF IInv

LEMMA ReloadKeeps ==
  ASSUME IInv, NEW t \in Tab, Reload(t)
  PROVE  IInv'
<1>1. /\ socket' = [socket EXCEPT ![t] = 0] /\ phase' = [phase EXCEPT ![t] = "idle"]
      /\ actor' = [actor EXCEPT ![t] = 0] /\ board' = [board EXCEPT ![t] = {}]
      /\ outbox' = [outbox EXCEPT ![t] = <<>>] /\ dropped' = dropped \cup OpsOf(outbox[t])
      /\ everConnected' = [everConnected EXCEPT ![t] = FALSE]
      /\ UNCHANGED <<store, room, nextConnection, session, drawn>> /\ Fails("reload")
  BY DEF Reload
<1>2. /\ happened \subseteq happened' /\ happened' \subseteq FaultKinds /\ failures' \in 0..MaxFailures
      /\ failures' = failures + 1
  BY <1>1, BoundsAssumption DEF Fails, FaultKinds, IInv, TypeOK
<1>3. OpsOf(outbox[t]) \subseteq Operation
  BY BatchIs DEF IInv, TypeOK
<1>4. TypeOK'
  BY <1>1, <1>2, <1>3 DEF IInv, TypeOK
<1>5. RowsNumbered' /\ Durable' = Durable
  BY <1>1, StoreStays
<1>6. SocketsKept'
  BY <1>1, <1>2, <1>4, SocketLost
<1>7. Intact' => Intact
  BY <1>2 DEF Intact, Happened
<1>8. /\ \A u \in Tab : socket'[u] = IF u = t THEN 0 ELSE socket[u]
      /\ \A u \in Tab : actor'[u] = IF u = t THEN 0 ELSE actor[u]
      /\ \A u \in Tab : board'[u] = IF u = t THEN {} ELSE board[u]
      /\ \A u \in Tab : outbox'[u] = IF u = t THEN <<>> ELSE outbox[u]
  BY <1>1 DEF IInv, TypeOK
<1>9. 0 \notin DOMAIN session
  BY SocketsFinite, BoundsAssumption DEF IInv, TypeOK, Sockets
<1>10. SessionsHaveRoom' /\ SessionsApart' /\ RoomMatchesStore' /\ QueuesInRoom' /\ BroadcastIsDurable'
  BY <1>1, <1>5, <1>7 DEF IInv, SessionsHaveRoom, SessionsApart, RoomMatchesStore, QueuesInRoom,
                    BroadcastIsDurable
<1>11. ActorsReserved' /\ ActorsDistinct'
  <2>1. SUFFICES ASSUME ~Happened("restart")
                 PROVE  ActorsReserved' /\ ActorsDistinct'
    BY <1>2 DEF ActorsReserved, ActorsDistinct, Happened
  <2>2. /\ 0 \in 0..nextConnection
        /\ \A k \in DOMAIN session : session[k].actor # 0
    BY DEF IInv, TypeOK, SessionsApart
  <2> QED BY <1>1, <1>8, <1>9, <2>1, <2>2 DEF IInv, ActorsReserved, ActorsDistinct
<1>12. /\ Sent' = Sent /\ Decided' = Decided \cup OpsOf(outbox[t])
       /\ \A k \in DOMAIN session : UnreadBy(k)' = UnreadBy(k)
  BY <1>1, <1>5 DEF Sent, UnreadBy, Decided
<1>13. InitIsDurable' /\ PeersHoldOnlyDurable'
  BY <1>1, <1>5, <1>7, <1>8 DEF IInv, InitIsDurable, PeersHoldOnlyDurable
<1>14. Accounted'
  BY <1>1, <1>5, <1>7, <1>8, <1>12 DEF IInv, Accounted
<1>15. OwnHeld'
  BY <1>1, <1>8, <1>9, <1>12, EmptyRange DEF IInv, OwnHeld
<1>16. JoinLosesNothing'
  BY <1>1, <1>2, <1>8, <1>9 DEF IInv, JoinLosesNothing, Happened, InTransit
<1>17. \A op \in OpsOf(outbox[t]) : op[1] = t
  BY DEF IInv, Numbered
<1>18. \A u \in Tab : u # t => OpsOf(outbox[u]) \cap OpsOf(outbox[t]) = {}
  BY DEF IInv, Numbered
<1>19. OnePlace'
  <2>1. dropped' \cap (Durable \cup room.ops)' = {}
    BY <1>1, <1>5 DEF IInv, OnePlace, Decided
  <2>2. \A u \in Tab : OpsOf(outbox'[u]) \cap (Decided \cup Sent)' = {}
    BY <1>8, <1>12, <1>18, EmptyRange DEF IInv, OnePlace
  <2>3. Sent' \cap Decided' = {}
    BY <1>12 DEF IInv, OnePlace
  <2> QED BY <1>1, <1>12, <2>1, <2>2, <2>3 DEF IInv, OnePlace
<1>20. Numbered'
  BY <1>1, <1>8, <1>12, EmptyRange DEF IInv, Numbered
<1> QED BY <1>4, <1>5, <1>6, <1>10, <1>11, <1>13, <1>14, <1>15, <1>16, <1>19, <1>20 DEF IInv

-----------------------------------------------------------------------------
(* Steps of the tabs: what they send and are told. *)

(* flush() moves what was queued, and only that: into the session, into     *)
(* nothing when the session is gone, or nowhere.                            *)
Moved(t, queued) ==
  /\ DOMAIN session' = DOMAIN session
  /\ outbox' \in [Tab -> Seq(Operation)]
  /\ \A u \in Tab \ {t} : outbox'[u] = outbox[u]
  /\ \A j \in DOMAIN session :
       \/ session'[j].up = session[j].up
       \/ /\ j = socket[t] /\ queued \in Batch
          /\ session'[j].up = Append(session[j].up, queued)
  /\ \/ /\ outbox'[t] = queued /\ dropped' = dropped
        /\ \A j \in DOMAIN session : session'[j].up = session[j].up
     \/ /\ outbox'[t] = <<>> /\ dropped' = dropped
        /\ socket[t] \in DOMAIN session /\ queued \in Batch
        /\ session'[socket[t]].up = Append(session[socket[t]].up, queued)
     \/ /\ outbox'[t] = <<>> /\ dropped' = dropped \cup OpsOf(queued)
        /\ \A j \in DOMAIN session : session'[j].up = session[j].up

LEMMA FlushMoves ==
  ASSUME IInv, NEW t \in Tab, NEW live, NEW queued \in Seq(Operation), NEW isOpen \in BOOLEAN,
         FlushInto(t, live, queued, isOpen),
         live \in [DOMAIN session -> Session],
         \A j \in DOMAIN session : live[j].up = session[j].up
  PROVE  /\ Moved(t, queued) /\ session' \in [DOMAIN session -> Session]
         /\ \A j \in DOMAIN session :
              /\ session'[j].actor = live[j].actor /\ session'[j].greeted = live[j].greeted
              /\ session'[j].init = live[j].init /\ session'[j].queue = live[j].queue
              /\ session'[j].lagged = live[j].lagged
<1> DEFINE k == socket[t]
<1>1. /\ outbox \in [Tab -> Seq(Operation)] /\ session \in [DOMAIN session -> Session]
      /\ DOMAIN live = DOMAIN session /\ <<>> \in Seq(Operation)
  BY DEF IInv, TypeOK
<1>2. /\ outbox' = [outbox EXCEPT ![t] = IF isOpen THEN <<>> ELSE queued]
      /\ session' = IF isOpen /\ queued # <<>> /\ k \in DOMAIN live
                    THEN [live EXCEPT ![k].up = Append(live[k].up, queued)]
                    ELSE live
      /\ dropped' = IF isOpen /\ k \notin DOMAIN live THEN dropped \cup OpsOf(queued)
                    ELSE dropped
  BY DEF FlushInto
<1>3. /\ outbox' \in [Tab -> Seq(Operation)] /\ outbox'[t] = IF isOpen THEN <<>> ELSE queued
      /\ \A u \in Tab \ {t} : outbox'[u] = outbox[u]
  BY <1>1, <1>2
<1>4. CASE isOpen /\ queued # <<>> /\ k \in DOMAIN live
  <2>1. queued \in Batch /\ live[k] \in Session /\ live[k].up = session[k].up
    BY <1>1, <1>4 DEF Batch
  <2>2. Append(session[k].up, queued) \in Seq(Batch)
    <3>1. live[k].up \in Seq(Batch)
      BY <2>1 DEF Session
    <3> HIDE DEF k
    <3> QED BY <2>1, <3>1
  <2> DEFINE after == [live[k] EXCEPT !.up = Append(session[k].up, queued)]
  <2>3. /\ after \in Session
        /\ after.actor = live[k].actor /\ after.greeted = live[k].greeted
        /\ after.init = live[k].init /\ after.queue = live[k].queue
        /\ after.lagged = live[k].lagged /\ after.up = Append(session[k].up, queued)
    BY <2>1, <2>2 DEF Session
  <2>4. session' = [live EXCEPT ![k] = after]
    BY <1>2, <1>4, <2>1
  <2> HIDE DEF after, k
  <2>5. /\ session' \in [DOMAIN session -> Session] /\ DOMAIN session' = DOMAIN session
        /\ session'[k] = after /\ \A j \in DOMAIN session : j # k => session'[j] = live[j]
    BY <1>1, <1>4, <2>3, <2>4
  <2> QED BY <1>1, <1>2, <1>3, <1>4, <2>1, <2>3, <2>5 DEF k, Moved
<1>5. CASE ~(isOpen /\ queued # <<>> /\ k \in DOMAIN live)
  <2>1. session' = live
    BY <1>2, <1>5
  <2>2. queued = <<>> => OpsOf(queued) = {}
    BY EmptyRange
  <2>3. \/ outbox'[t] = queued /\ dropped' = dropped
        \/ outbox'[t] = <<>> /\ dropped' = dropped \cup OpsOf(queued)
    BY <1>2, <1>3, <1>5, <2>2
  <2> QED BY <1>1, <1>3, <2>1, <2>3 DEF Moved
<1> QED BY <1>4, <1>5

(* ... so that every drawing stays in one place. *)
LEMMA FlushPlaces ==
  ASSUME IInv, NEW t \in Tab, NEW queued \in Seq(Operation), Moved(t, queued),
         \A op \in OpsOf(queued) : op[1] = t /\ op[2] <= drawn',
         OpsOf(queued) \cap (Decided \cup Sent) = {},
         drawn \in Nat, drawn' \in Nat, drawn <= drawn', UNCHANGED <<store, room>>,
         Durable' = Durable, Durable \subseteq Operation
  PROVE  /\ OnePlace' /\ Numbered'
         /\ \A j \in DOMAIN session :
              UnreadBy(j) \subseteq UnreadBy(j)' /\ UnreadBy(j)' \subseteq UnreadBy(j) \cup OpsOf(queued)
         /\ \A j \in DOMAIN session : j # socket[t] => UnreadBy(j)' = UnreadBy(j)
         /\ OpsOf(outbox'[t]) \subseteq OpsOf(queued) /\ dropped \subseteq dropped'
         /\ OpsOf(queued) \subseteq dropped' \cup Sent' \cup OpsOf(outbox'[t])
<1> USE DEF Moved
<1> DEFINE ops == OpsOf(queued)
<1>1. PICK k : k = socket[t]
  OBVIOUS
<1>2. \A j \in DOMAIN session : session[j].up \in Seq(Batch) /\ FramesApart(session[j].up)
  BY DEF IInv, TypeOK, OnePlace, Session
<1>3. \A j \in DOMAIN session : ops \cap UnreadBy(j) = {}
  BY DEF Sent
<1>4. ASSUME NEW j \in DOMAIN session, session'[j].up = Append(session[j].up, queued), queued \in Batch
      PROVE  /\ UnreadBy(j)' = UnreadBy(j) \cup ops
             /\ FramesApart(session'[j].up)
  BY <1>2, <1>3, <1>4, FramesAppend DEF UnreadBy
<1>5. ASSUME NEW j \in DOMAIN session, session'[j].up = session[j].up
      PROVE  UnreadBy(j)' = UnreadBy(j) /\ FramesApart(session'[j].up)
  BY <1>2, <1>5 DEF UnreadBy
<1> HIDE DEF ops
<1>6. /\ \A j \in DOMAIN session : FramesApart(session'[j].up)
      /\ \A j \in DOMAIN session : UnreadBy(j) \subseteq UnreadBy(j)' /\ UnreadBy(j)' \subseteq UnreadBy(j) \cup ops
      /\ \A j \in DOMAIN session : j # socket[t] => UnreadBy(j)' = UnreadBy(j)
  BY <1>4, <1>5
<1>7. /\ Sent' \subseteq Sent \cup ops /\ Sent \subseteq Sent'
  BY <1>6 DEF Sent
<1>8. \/ /\ OpsOf(outbox'[t]) = ops /\ dropped' = dropped /\ Sent' = Sent
      \/ /\ OpsOf(outbox'[t]) = {} /\ dropped' = dropped /\ ops \subseteq Sent'
      \/ /\ OpsOf(outbox'[t]) = {} /\ dropped' = dropped \cup ops /\ Sent' = Sent
  <2>1. (\A j \in DOMAIN session : session'[j].up = session[j].up) => Sent' = Sent
    BY <1>5 DEF Sent
  <2>2. ASSUME k \in DOMAIN session, queued \in Batch, session'[k].up = Append(session[k].up, queued)
        PROVE  ops \subseteq Sent'
    BY <1>4, <2>2 DEF Sent
  <2> QED BY <1>1, <2>1, <2>2, EmptyRange DEF ops
<1>9. \/ Decided' = Decided
      \/ Decided' = Decided \cup ops /\ dropped' = dropped \cup ops
  BY <1>8 DEF Decided
<1>10. \A u \in Tab \ {t} : OpsOf(outbox[u]) \cap ops = {}
  BY DEF IInv, Numbered, ops
<1>11. /\ dropped \cap (Durable \cup room.ops) = {} /\ Sent \cap Decided = {}
       /\ \A u \in Tab : OpsOf(outbox[u]) \cap (Decided \cup Sent) = {}
       /\ \A i, j \in DOMAIN session : i # j => UnreadBy(i) \cap UnreadBy(j) = {}
  BY DEF IInv, OnePlace
<1>12. ops \cap (Decided \cup Sent) = {} /\ Durable \cup room.ops \subseteq Decided
  BY DEF ops, Decided
<1>13. OnePlace'
  <2>1. dropped' \cap (Durable \cup room.ops)' = {}
    BY <1>8, <1>11, <1>12
  <2>2. \A u \in Tab : OpsOf(outbox'[u]) \cap (Decided' \cup Sent') = {}
    <3>1. \A u \in Tab \ {t} : OpsOf(outbox'[u]) = OpsOf(outbox[u])
      OBVIOUS
    <3>2. OpsOf(outbox'[t]) \cap (Decided' \cup Sent') = {}
      BY <1>8, <1>9, <1>12 DEF Decided
    <3> QED BY <1>7, <1>9, <1>10, <1>11, <3>1, <3>2
  <2>3. Sent' \cap Decided' = {}
    BY <1>7, <1>8, <1>11, <1>12 DEF Decided
  <2>4. \A i, j \in DOMAIN session : i # j => UnreadBy(i)' \cap UnreadBy(j)' = {}
    BY <1>1, <1>3, <1>6, <1>11 DEF ops
  <2> QED BY <1>6, <2>1, <2>2, <2>3, <2>4 DEF OnePlace
<1>14. Numbered'
  <2>1. \A op \in ops : op[1] = t /\ op[2] <= drawn'
    BY DEF ops
  <2>2. ASSUME NEW u \in Tab, NEW op \in OpsOf(outbox'[u])
        PROVE  op[1] = u /\ op[2] <= drawn'
    <3>1. CASE u = t
      BY <1>8, <2>1, <2>2, <3>1
    <3>2. CASE u # t
      <4>1. op \in OpsOf(outbox[u]) /\ op \in Operation
        <5>1. OpsOf(outbox[u]) \subseteq Operation
          BY BatchIs DEF IInv, TypeOK
        <5> QED BY <2>2, <3>2, <5>1
      <4>2. op[1] = u /\ op[2] <= drawn /\ op[2] \in Nat
        BY <4>1, BoundsAssumption DEF IInv, Numbered, Operation
      <4> QED BY <4>2
    <3> QED BY <3>1, <3>2
  <2>3. ASSUME NEW op \in Decided' \cup Sent'
        PROVE  op[2] <= drawn'
    <3>1. op \in ops \/ op \in Decided \cup Sent
      BY <1>7, <1>9
    <3>2. ASSUME op \in Decided \cup Sent
          PROVE  op[2] <= drawn /\ op[2] \in Nat
      <4>1. Decided \cup Sent \subseteq Operation
        BY UnreadTyped DEF IInv, TypeOK, Decided, Sent
      <4> QED BY <3>2, <4>1, BoundsAssumption DEF IInv, Numbered, Operation
    <3> QED BY <2>1, <3>1, <3>2
  <2> QED BY <2>2, <2>3 DEF Numbered
<1> QED BY <1>6, <1>8, <1>13, <1>14 DEF ops

(* What a session still has to tell its tab before the step, and after it   *)
(* told `learnt`.                                                           *)
Retold(t, live, learnt) ==
  \A j \in DOMAIN session :
    /\ live[j].actor = session[j].actor /\ live[j].queue = session[j].queue
    /\ live[j].lagged = session[j].lagged /\ live[j].up = session[j].up
    /\ live[j].init \subseteq session[j].init
    /\ session[j].init \subseteq live[j].init \cup learnt
    /\ \/ live[j] = session[j]
       \/ j = socket[t] /\ live[j].init = {}

(* The board of t gains what was queued and what it learnt. *)
Gained(t, queued, learnt) ==
  /\ board' \in [Tab -> SUBSET Operation]
  /\ board'[t] = board[t] \cup OpsOf(queued) \cup learnt
  /\ \A u \in Tab \ {t} : board'[u] = board[u]

(* A tab that has no board takes the actor of its session. *)
ActorsTaken(t) ==
  \/ actor' = actor
  \/ /\ socket[t] \in DOMAIN session
     /\ actor' = [actor EXCEPT ![t] = session[socket[t]].actor]

(* A step of a tab that ends in flush(): it sends what was queued, and what *)
(* its board gained is that or what its session told it.                    *)
LEMMA FlushKeeps ==
  ASSUME IInv, NEW t \in Tab, NEW live, NEW queued \in Seq(Operation), NEW isOpen \in BOOLEAN,
         NEW learnt, FlushInto(t, live, queued, isOpen),
         live \in [DOMAIN session -> Session], Retold(t, live, learnt),
         Intact => learnt \subseteq Durable, Gained(t, queued, learnt), ActorsTaken(t),
         OpsOf(outbox[t]) \subseteq OpsOf(queued),
         \A op \in OpsOf(queued) : op[1] = t /\ op[2] <= drawn',
         OpsOf(queued) \cap (Decided \cup Sent) = {},
         drawn' \in 0..MaxDraws, drawn <= drawn',
         phase' \in [Tab -> {"idle", "connecting", "open", "abandoned"}],
         \A u \in Tab : phase'[u] \in {"idle", "abandoned"} <=> phase[u] \in {"idle", "abandoned"},
         everConnected' \in [Tab -> BOOLEAN],
         UNCHANGED <<store, room, nextConnection, socket, happened, failures>>
  PROVE  IInv'
<1> DEFINE ops == OpsOf(queued)
<1>1. /\ Moved(t, queued) /\ DOMAIN session' = DOMAIN session
      /\ session' \in [DOMAIN session -> Session]
      /\ outbox' \in [Tab -> Seq(Operation)]
      /\ \A u \in Tab \ {t} : outbox'[u] = outbox[u]
      /\ \A j \in DOMAIN session :
           /\ session'[j].actor = session[j].actor
           /\ session'[j].queue = session[j].queue /\ session'[j].lagged = session[j].lagged
           /\ session'[j].init \subseteq session[j].init
           /\ session[j].init \subseteq session'[j].init \cup learnt
           /\ \/ session'[j].greeted = session[j].greeted /\ session'[j].init = session[j].init
              \/ j = socket[t] /\ session'[j].init = {}
  <2>1. \A j \in DOMAIN session : live[j].up = session[j].up
    BY DEF Retold
  <2>2. /\ Moved(t, queued) /\ session' \in [DOMAIN session -> Session]
        /\ \A j \in DOMAIN session :
             /\ session'[j].actor = live[j].actor /\ session'[j].greeted = live[j].greeted
             /\ session'[j].init = live[j].init /\ session'[j].queue = live[j].queue
             /\ session'[j].lagged = live[j].lagged
    BY <2>1, FlushMoves
  <2> QED BY <2>2 DEF Retold, Moved
<1>2. RowsNumbered' /\ Durable' = Durable /\ Durable \subseteq Operation
  BY StoreStays, StoreFacts DEF IInv
<1>3. drawn \in Nat /\ drawn' \in Nat
  BY BoundsAssumption DEF IInv, TypeOK
<1>4. /\ OnePlace' /\ Numbered'
      /\ \A j \in DOMAIN session :
           UnreadBy(j) \subseteq UnreadBy(j)' /\ UnreadBy(j)' \subseteq UnreadBy(j) \cup ops
      /\ \A j \in DOMAIN session : j # socket[t] => UnreadBy(j)' = UnreadBy(j)
      /\ OpsOf(outbox'[t]) \subseteq ops /\ dropped \subseteq dropped'
      /\ ops \subseteq dropped' \cup Sent' \cup OpsOf(outbox'[t])
  BY <1>1, <1>2, <1>3, FlushPlaces
<1>5. ops \subseteq Operation
  BY BatchIs
<1> HIDE DEF ops
<1>6. dropped' \subseteq Operation
  BY <1>1, <1>5 DEF IInv, TypeOK, ops, Moved
<1>7. actor' \in [Tab -> Nat]
  <2>1. \A j \in DOMAIN session : session[j].actor \in Nat
    BY DEF IInv, TypeOK, Session
  <2> QED BY <2>1 DEF IInv, TypeOK, ActorsTaken
<1>8. TypeOK'
  BY <1>1, <1>6, <1>7 DEF IInv, TypeOK, Gained
<1>9. SocketsKept'
  BY <1>1 DEF IInv, SocketsKept, Orphans
<1>10. SessionsApart'
  BY <1>1 DEF IInv, SessionsApart
<1>11. ActorsReserved' /\ ActorsDistinct'
  <2>1. SUFFICES ASSUME ~Happened("restart")
                 PROVE  /\ \A u \in Tab : actor'[u] \in 0..nextConnection
                        /\ \A u, v \in Tab : u # v /\ socket[u] \in DOMAIN session =>
                                               actor'[v] # session[socket[u]].actor
                        /\ \A u, v \in Tab : u # v /\ actor'[u] # 0 => actor'[u] # actor'[v]
    <3>1. /\ socket' = socket /\ nextConnection' = nextConnection
          /\ Happened("restart")' <=> Happened("restart")
      BY DEF Happened
    <3> HIDE DEF Happened
    <3>2. \A u, v \in Tab : actor'[v] # session[socket[u]].actor =>
                           (socket[u] \in DOMAIN session => actor'[v] # session'[socket'[u]].actor)
      BY <1>1, <3>1
    <3> QED BY <1>1, <3>1, <3>2 DEF ActorsReserved, ActorsDistinct
  <2>2. /\ \A u \in Tab : actor[u] \in 0..nextConnection
        /\ \A u, v \in Tab : u # v /\ socket[u] \in DOMAIN session =>
                               actor[v] # session[socket[u]].actor
        /\ \A u, v \in Tab : u # v /\ actor[u] # 0 => actor[u] # actor[v]
    BY <2>1 DEF IInv, ActorsReserved, ActorsDistinct
  <2>3. CASE actor' = actor
    BY <2>2, <2>3
  <2>4. CASE /\ socket[t] \in DOMAIN session
             /\ actor' = [actor EXCEPT ![t] = session[socket[t]].actor]
    <3>1. \A u \in Tab : actor'[u] = IF u = t THEN session[socket[t]].actor ELSE actor[u]
      BY <2>4 DEF IInv, TypeOK
    <3>2. /\ \A j \in DOMAIN session : session[j].actor \in 1..nextConnection
          /\ \A i, j \in DOMAIN session : session[i].actor = session[j].actor => i = j
          /\ \A n \in 1..nextConnection : n \in 0..nextConnection /\ n # 0
          /\ 0 \notin DOMAIN session
      BY SocketsFinite, BoundsAssumption DEF IInv, SessionsApart, TypeOK, Sockets
    <3>3. \A u, v \in Tab : socket[u] = socket[v] /\ socket[u] \in DOMAIN session => u = v
      BY <3>2 DEF IInv, SocketsKept
    <3> QED BY <2>2, <2>4, <3>1, <3>2, <3>3
  <2> QED BY <2>3, <2>4 DEF ActorsTaken
<1>12. /\ SessionsHaveRoom' /\ RoomMatchesStore' /\ QueuesInRoom' /\ BroadcastIsDurable'
  BY <1>1, <1>2 DEF IInv, SessionsHaveRoom, RoomMatchesStore, QueuesInRoom, BroadcastIsDurable,
                    Intact, Happened
<1>13. InitIsDurable'
  BY <1>1, <1>2 DEF IInv, InitIsDurable, Intact, Happened
<1>14. Intact' <=> Intact
  BY DEF Intact, Happened
<1>15. PeersHoldOnlyDurable'
  <2>1. \A op \in ops : op[1] = t
    BY DEF ops
  <2>2. ASSUME Intact, NEW u \in Tab, NEW op \in board'[u], op[1] # u
        PROVE  op \in Durable
    <3>1. op \in board[u] \/ (u = t /\ op \in ops \cup learnt)
      BY <2>2 DEF Gained, ops
    <3> QED BY <2>1, <2>2, <3>1 DEF IInv, PeersHoldOnlyDurable
  <2> QED BY <1>2, <1>14, <2>2 DEF PeersHoldOnlyDurable
<1>16. \A u \in Tab : socket[u] = socket[t] /\ socket[t] \in DOMAIN session => u = t
  <2>1. 0 \notin DOMAIN session
    BY SocketsFinite, BoundsAssumption DEF IInv, TypeOK, Sockets
  <2> QED BY <2>1 DEF IInv, SocketsKept
<1>17. OwnHeld'
  <2>1. \A u \in Tab : OpsOf(outbox'[u]) \subseteq board'[u]
    BY <1>1, <1>4 DEF IInv, OwnHeld, ops, Gained
  <2>2. ASSUME NEW u \in Tab, NEW j \in DOMAIN session, j = socket[u]
        PROVE  /\ UnreadBy(j)' \subseteq board'[u]
               /\ \A message \in Range(session'[j].queue) :
                    message.origin = session'[j].actor => OpsOf(message.ops) \subseteq board'[u]
               /\ session'[j].greeted => session'[j].init = {}
    <3>1. board[u] \subseteq board'[u]
      BY DEF Gained
    <3>2. /\ UnreadBy(j) \subseteq board[u]
          /\ \A message \in Range(session[j].queue) :
               message.origin = session[j].actor => OpsOf(message.ops) \subseteq board[u]
          /\ session[j].greeted => session[j].init = {}
      BY <2>2 DEF IInv, OwnHeld
    <3>3. UnreadBy(j)' \subseteq board'[u]
      BY <1>4, <1>16, <2>2, <3>1, <3>2 DEF ops, Gained
    <3>4. session'[j].greeted => session'[j].init = {}
      BY <1>1, <1>16, <2>2, <3>2
    <3> QED BY <1>1, <3>1, <3>2, <3>3, <3>4
  <2> QED BY <1>1, <2>1, <2>2 DEF OwnHeld
<1>18. JoinLosesNothing'
  <2>1. ASSUME ~Happened("append"), NEW u \in Tab, NEW j \in DOMAIN session, j = socket[u],
               ~session[j].lagged
        PROVE  room.ops \subseteq board'[u] \cup InTransit(j)'
    <3>1. room.ops \subseteq board[u] \cup InTransit(j)
      BY <2>1 DEF IInv, JoinLosesNothing
    <3>2. InTransit(j) \subseteq InTransit(j)' \cup board'[u]
      <4>1. session'[j].queue = session[j].queue
        BY <1>1
      <4>2. session[j].init \subseteq session'[j].init \cup board'[u]
        BY <1>1, <1>16, <2>1 DEF Gained
      <4> QED BY <4>1, <4>2 DEF InTransit
    <3>3. board[u] \subseteq board'[u]
      BY DEF Gained
    <3> QED BY <3>1, <3>2, <3>3
  <2> QED BY <1>1, <2>1 DEF JoinLosesNothing, Happened
<1>19. Accounted'
  <2>1. Sent \subseteq Sent'
    BY <1>1, <1>4 DEF Sent
  <2>2. ASSUME Intact, NEW u \in Tab, NEW op \in board'[u], op[1] = u
        PROVE  op \in Durable \cup dropped' \cup OpsOf(outbox'[u]) \cup Sent'
    <3>1. CASE op \in board[u]
      <4>1. op \in Durable \cup dropped \cup OpsOf(outbox[u]) \cup Sent
        BY <2>2, <3>1 DEF IInv, Accounted
      <4> QED BY <1>1, <1>4, <2>1, <4>1 DEF ops
    <3>2. CASE op \notin board[u]
      BY <1>4, <2>2, <3>2 DEF ops, Gained
    <3> QED BY <3>1, <3>2
  <2> QED BY <1>2, <1>14, <2>2 DEF Accounted
<1> QED BY <1>2, <1>4, <1>8, <1>9, <1>10, <1>11, <1>12, <1>13, <1>15, <1>17, <1>18, <1>19 DEF IInv

LEMMA OutboxIs ==
  ASSUME IInv, NEW t \in Tab
  PROVE  /\ outbox[t] \in Seq(Operation) /\ OpsOf(outbox[t]) \subseteq board[t]
         /\ OpsOf(outbox[t]) \subseteq Operation
         /\ \A op \in OpsOf(outbox[t]) : op[1] = t /\ op[2] <= drawn
         /\ OpsOf(outbox[t]) \cap (Decided \cup Sent) = {}
         /\ drawn \in Nat /\ drawn \in 0..MaxDraws
<1>1. outbox[t] \in Seq(Operation) /\ drawn \in 0..MaxDraws
  BY DEF IInv, TypeOK
<1>2. OpsOf(outbox[t]) \subseteq Operation /\ drawn \in Nat
  BY <1>1, BatchIs, BoundsAssumption
<1> QED BY <1>1, <1>2 DEF IInv, OwnHeld, Numbered, OnePlace

LEMMA OpenedKeeps ==
  ASSUME IInv, NEW t \in Tab, Opened(t)
  PROVE  IInv'
<1>1. /\ phase[t] = "connecting" /\ phase' = [phase EXCEPT ![t] = "open"]
      /\ everConnected' = [everConnected EXCEPT ![t] = TRUE]
      /\ FlushInto(t, session, outbox[t], actor[t] # 0)
      /\ UNCHANGED <<store, room, nextConnection, socket, actor, board, drawn, happened, failures>>
  BY DEF Opened, Works
<1>2. /\ outbox[t] \in Seq(Operation) /\ OpsOf(outbox[t]) \subseteq board[t]
      /\ \A op \in OpsOf(outbox[t]) : op[1] = t /\ op[2] <= drawn'
      /\ OpsOf(outbox[t]) \cap (Decided \cup Sent) = {}
      /\ drawn' \in 0..MaxDraws /\ drawn <= drawn'
  BY <1>1, OutboxIs
<1>3. /\ session \in [DOMAIN session -> Session]
      /\ phase' \in [Tab -> {"idle", "connecting", "open", "abandoned"}]
      /\ \A u \in Tab : phase'[u] \in {"idle", "abandoned"} <=> phase[u] \in {"idle", "abandoned"}
      /\ everConnected' \in [Tab -> BOOLEAN] /\ board \in [Tab -> SUBSET Operation]
  BY <1>1 DEF IInv, TypeOK
<1>4. Retold(t, session, {}) /\ Gained(t, outbox[t], {}) /\ ActorsTaken(t)
  BY <1>1, <1>2, <1>3 DEF Retold, Gained, ActorsTaken
<1>5. (actor[t] # 0) \in BOOLEAN
  OBVIOUS
<1> QED BY <1>1, <1>2, <1>3, <1>4, <1>5, FlushKeeps

LEMMA ReceiveInitKeeps ==
  ASSUME IInv, NEW t \in Tab, ReceiveInit(t)
  PROVE  IInv'
<1>1. PICK k : k = socket[t]
  OBVIOUS
<1> DEFINE live == [session EXCEPT ![k].greeted = TRUE, ![k].init = {}]
           learnt == session[k].init
<1>2. /\ k \in DOMAIN session
      /\ actor' = [actor EXCEPT ![t] = IF actor[t] = 0 THEN session[k].actor ELSE actor[t]]
      /\ board' = [board EXCEPT ![t] = board[t] \cup learnt]
      /\ FlushInto(t, live, outbox[t], TRUE)
      /\ UNCHANGED <<store, room, nextConnection, socket, phase, everConnected, drawn,
                     happened, failures>>
  BY <1>1 DEF ReceiveInit, Works
<1>3. /\ outbox[t] \in Seq(Operation) /\ OpsOf(outbox[t]) \subseteq board[t]
      /\ \A op \in OpsOf(outbox[t]) : op[1] = t /\ op[2] <= drawn'
      /\ OpsOf(outbox[t]) \cap (Decided \cup Sent) = {}
      /\ drawn' \in 0..MaxDraws /\ drawn <= drawn'
  BY <1>2, OutboxIs
<1>4. /\ session \in [DOMAIN session -> Session] /\ session[k] \in Session
      /\ phase' \in [Tab -> {"idle", "connecting", "open", "abandoned"}]
      /\ \A u \in Tab : phase'[u] \in {"idle", "abandoned"} <=> phase[u] \in {"idle", "abandoned"}
      /\ everConnected' \in [Tab -> BOOLEAN] /\ board \in [Tab -> SUBSET Operation]
      /\ actor \in [Tab -> Nat]
  BY <1>2 DEF IInv, TypeOK
<1>5. learnt \subseteq Operation /\ (Intact => learnt \subseteq Durable)
  BY <1>2, <1>4 DEF IInv, InitIsDurable, Session
<1>6. Gained(t, outbox[t], learnt)
  BY <1>2, <1>3, <1>4, <1>5 DEF Gained
<1>7. ActorsTaken(t)
  BY <1>1, <1>2, <1>4 DEF ActorsTaken
<1>8. live \in [DOMAIN session -> Session] /\ Retold(t, live, learnt)
  <2> DEFINE told == [session[k] EXCEPT !.greeted = TRUE, !.init = {}]
  <2>1. /\ told \in Session /\ told.actor = session[k].actor /\ told.queue = session[k].queue
        /\ told.lagged = session[k].lagged /\ told.up = session[k].up /\ told.init = {}
    BY <1>4 DEF Session
  <2>2. live = [session EXCEPT ![k] = told]
    BY <1>2, <1>4
  <2> HIDE DEF told, live
  <2>3. /\ live \in [DOMAIN session -> Session] /\ live[k] = told
        /\ \A j \in DOMAIN session : j # k => live[j] = session[j]
    BY <1>2, <1>4, <2>1, <2>2
  <2> QED BY <1>1, <2>1, <2>3 DEF Retold
<1> HIDE DEF live, learnt
<1>9. TRUE \in BOOLEAN
  OBVIOUS
<1> QED BY <1>2, <1>3, <1>4, <1>5, <1>6, <1>7, <1>8, <1>9, FlushKeeps

LEMMA DrawKeeps ==
  ASSUME IInv, NEW t \in Tab, Draw(t)
  PROVE  IInv'
<1> DEFINE op == <<t, drawn + 1>>
           queued == Append(outbox[t], op)
<1>1. /\ drawn < MaxDraws /\ drawn' = drawn + 1
      /\ board' = [board EXCEPT ![t] = board[t] \cup {op}]
      /\ FlushInto(t, session, queued, phase[t] = "open")
      /\ UNCHANGED <<store, room, nextConnection, socket, phase, everConnected, actor,
                     happened, failures>>
  BY DEF Draw, Works
<1>2. /\ outbox[t] \in Seq(Operation) /\ OpsOf(outbox[t]) \subseteq board[t]
      /\ OpsOf(outbox[t]) \subseteq Operation
      /\ \A o \in OpsOf(outbox[t]) : o[1] = t /\ o[2] <= drawn
      /\ OpsOf(outbox[t]) \cap (Decided \cup Sent) = {}
      /\ drawn \in Nat /\ drawn \in 0..MaxDraws
  BY OutboxIs
<1>3. /\ op \in Operation /\ op[1] = t /\ op[2] = drawn + 1
      /\ drawn' \in 0..MaxDraws /\ drawn <= drawn'
  BY <1>1, <1>2, BoundsAssumption DEF Operation
<1>4. op \notin Decided \cup Sent
  <2>1. op \in Decided \cup Sent => op[2] <= drawn
    BY DEF IInv, Numbered
  <2> QED BY <1>2, <1>3, <2>1
<1> HIDE DEF op
<1>5. queued \in Seq(Operation) /\ OpsOf(queued) = OpsOf(outbox[t]) \cup {op}
  BY <1>2, <1>3, AppendIs DEF OpsOf
<1> HIDE DEF queued
<1>6. /\ \A o \in OpsOf(queued) : o[1] = t /\ o[2] <= drawn'
      /\ OpsOf(queued) \cap (Decided \cup Sent) = {}
      /\ OpsOf(outbox[t]) \subseteq OpsOf(queued)
  <2>1. \A o \in OpsOf(outbox[t]) : o[1] = t /\ o[2] <= drawn'
    BY <1>1, <1>2, BoundsAssumption DEF Operation
  <2> QED BY <1>1, <1>2, <1>3, <1>4, <1>5, <2>1
<1>7. /\ session \in [DOMAIN session -> Session]
      /\ phase' \in [Tab -> {"idle", "connecting", "open", "abandoned"}]
      /\ \A u \in Tab : phase'[u] \in {"idle", "abandoned"} <=> phase[u] \in {"idle", "abandoned"}
      /\ everConnected' \in [Tab -> BOOLEAN] /\ board \in [Tab -> SUBSET Operation]
  BY <1>1 DEF IInv, TypeOK
<1>8. Retold(t, session, {}) /\ Gained(t, queued, {}) /\ ActorsTaken(t)
  BY <1>1, <1>2, <1>3, <1>5, <1>7 DEF Retold, Gained, ActorsTaken
<1>9. (phase[t] = "open") \in BOOLEAN
  OBVIOUS
<1> QED BY <1>1, <1>3, <1>5, <1>6, <1>7, <1>8, <1>9, FlushKeeps

LEMMA ReceiveOpsKeeps ==
  ASSUME IInv, NEW t \in Tab, ReceiveOps(t)
  PROVE  IInv'
<1>1. PICK k : k = socket[t]
  OBVIOUS
<1> DEFINE message == Head(session[k].queue)
<1>2. /\ k \in DOMAIN session /\ session[k].queue # <<>>
      /\ board' = IF message.origin = session[k].actor THEN board
                  ELSE [board EXCEPT ![t] = board[t] \cup OpsOf(message.ops)]
      /\ session' = [session EXCEPT ![k].queue = Tail(session[k].queue)]
      /\ UNCHANGED <<store, room, nextConnection, socket, phase, everConnected, actor, outbox,
                     drawn, dropped, happened, failures>>
  BY <1>1 DEF ReceiveOps, Works
<1>3. session[k] \in Session /\ session[k].queue \in Seq(Message)
  BY <1>2 DEF IInv, TypeOK, Session
<1>4. /\ Tail(session[k].queue) \in Seq(Message) /\ message \in Message
      /\ Range(session[k].queue) = {message} \cup Range(Tail(session[k].queue))
  BY <1>2, <1>3, TailIs
<1> HIDE DEF message
<1>5. /\ DOMAIN session' = DOMAIN session /\ session' \in [DOMAIN session -> Session]
      /\ \A j \in DOMAIN session :
           /\ session'[j].actor = session[j].actor /\ session'[j].greeted = session[j].greeted
           /\ session'[j].init = session[j].init /\ session'[j].lagged = session[j].lagged
           /\ session'[j].up = session[j].up
           /\ IF j = k THEN session'[j].queue = Tail(session[j].queue)
                       ELSE session'[j].queue = session[j].queue
  <2> DEFINE told == [session[k] EXCEPT !.queue = Tail(session[k].queue)]
  <2>1. /\ told \in Session /\ told.actor = session[k].actor /\ told.greeted = session[k].greeted
        /\ told.lagged = session[k].lagged /\ told.up = session[k].up
        /\ told.init = session[k].init /\ told.queue = Tail(session[k].queue)
    BY <1>3, <1>4 DEF Session
  <2>2. session' = [session EXCEPT ![k] = told] /\ session \in [DOMAIN session -> Session]
    BY <1>2 DEF IInv, TypeOK
  <2> HIDE DEF told
  <2>3. /\ DOMAIN session' = DOMAIN session /\ session' \in [DOMAIN session -> Session]
        /\ session'[k] = told /\ \A j \in DOMAIN session : j # k => session'[j] = session[j]
    BY <1>2, <2>1, <2>2
  <2> QED BY <2>1, <2>3
<1>6. \A j \in DOMAIN session : Range(session'[j].queue) \subseteq Range(session[j].queue)
  BY <1>4, <1>5
<1>7. /\ board \in [Tab -> SUBSET Operation]
      /\ OpsOf(message.ops) \subseteq Operation
      /\ OpsOf(message.ops) \subseteq Durable
  <2>1. message.ops \in Seq(Operation)
    BY <1>4 DEF Message, Batch
  <2>2. OpsOf(message.ops) \subseteq Durable
    BY <1>2, <1>4 DEF IInv, BroadcastIsDurable
  <2> QED BY <2>1, <2>2, BatchIs DEF IInv, TypeOK
<1>8. /\ board' \in [Tab -> SUBSET Operation]
      /\ board'[t] = board[t] \cup OpsOf(message.ops)
      /\ \A u \in Tab \ {t} : board'[u] = board[u]
  <2>1. message.origin = session[k].actor => OpsOf(message.ops) \subseteq board[t]
    BY <1>1, <1>2, <1>4 DEF IInv, OwnHeld
  <2> QED BY <1>2, <1>7, <2>1
<1>9. TypeOK'
  BY <1>2, <1>5, <1>8 DEF IInv, TypeOK
<1>10. RowsNumbered' /\ Durable' = Durable
  BY <1>2, StoreStays
<1>11. SocketsKept'
  BY <1>2, <1>5 DEF IInv, SocketsKept, Orphans
<1>12. SessionsApart' /\ SessionsHaveRoom' /\ RoomMatchesStore'
  BY <1>2, <1>5, <1>10 DEF IInv, SessionsApart, SessionsHaveRoom, RoomMatchesStore, Intact, Happened
<1>13. ActorsReserved' /\ ActorsDistinct'
  BY <1>2, <1>5 DEF IInv, ActorsReserved, ActorsDistinct, Happened
<1>14. QueuesInRoom' /\ BroadcastIsDurable'
  BY <1>2, <1>5, <1>6, <1>10 DEF IInv, QueuesInRoom, BroadcastIsDurable
<1>15. InitIsDurable' /\ (Intact' <=> Intact)
  BY <1>2, <1>5, <1>10 DEF IInv, InitIsDurable, Intact, Happened
<1>16. PeersHoldOnlyDurable'
  <2>1. ASSUME Intact, NEW u \in Tab, NEW op \in board'[u], op[1] # u
        PROVE  op \in Durable
    <3>1. op \in board[u] \/ op \in OpsOf(message.ops)
      BY <1>8, <2>1
    <3> QED BY <1>7, <2>1, <3>1 DEF IInv, PeersHoldOnlyDurable
  <2> QED BY <1>10, <1>15, <2>1 DEF PeersHoldOnlyDurable
<1>17. Sent' = Sent /\ \A j \in DOMAIN session : UnreadBy(j)' = UnreadBy(j)
  BY <1>5 DEF Sent, UnreadBy
<1>18. \A u \in Tab : board[u] \subseteq board'[u]
  BY <1>8
<1>19. OwnHeld'
  <2>1. ASSUME NEW u \in Tab, NEW j \in DOMAIN session, j = socket[u]
        PROVE  /\ UnreadBy(j)' \subseteq board'[u]
               /\ \A other \in Range(session'[j].queue) :
                    other.origin = session'[j].actor => OpsOf(other.ops) \subseteq board'[u]
               /\ session'[j].greeted => session'[j].init = {}
    <3>1. /\ UnreadBy(j) \subseteq board[u]
          /\ \A other \in Range(session[j].queue) :
               other.origin = session[j].actor => OpsOf(other.ops) \subseteq board[u]
          /\ session[j].greeted => session[j].init = {}
      BY <2>1 DEF IInv, OwnHeld
    <3> QED BY <1>5, <1>6, <1>17, <1>18, <3>1
  <2>2. \A u \in Tab : OpsOf(outbox[u]) \subseteq board'[u]
    BY <1>18 DEF IInv, OwnHeld
  <2> QED BY <1>2, <1>5, <2>1, <2>2 DEF OwnHeld
<1>20. JoinLosesNothing'
  <2>1. ASSUME ~Happened("append"), NEW u \in Tab, NEW j \in DOMAIN session, j = socket[u],
               ~session[j].lagged
        PROVE  room.ops \subseteq board'[u] \cup InTransit(j)'
    <3>1. room.ops \subseteq board[u] \cup InTransit(j)
      BY <2>1 DEF IInv, JoinLosesNothing
    <3>2. CASE j = k
      <4>1. u = t
        <5>1. 0 \notin DOMAIN session
          BY SocketsFinite, BoundsAssumption DEF IInv, TypeOK, Sockets
        <5> QED BY <1>1, <2>1, <3>2, <5>1 DEF IInv, SocketsKept
      <4>2. InTransit(j) \subseteq InTransit(j)' \cup OpsOf(message.ops)
        BY <1>4, <1>5, <2>1, <3>2 DEF InTransit
      <4> QED BY <1>8, <3>1, <4>1, <4>2
    <3>3. CASE j # k
      <4>1. InTransit(j)' = InTransit(j)
        BY <1>5, <2>1, <3>3 DEF InTransit
      <4> QED BY <1>18, <3>1, <4>1
    <3> QED BY <3>2, <3>3
  <2> QED BY <1>2, <1>5, <2>1 DEF JoinLosesNothing, Happened
<1>21. Accounted'
  <2>1. ASSUME Intact, NEW u \in Tab, NEW op \in board'[u], op[1] = u
        PROVE  op \in Durable \cup dropped \cup OpsOf(outbox[u]) \cup Sent
    <3>1. op \in board[u] \/ op \in OpsOf(message.ops)
      BY <1>8, <2>1
    <3> QED BY <1>7, <2>1, <3>1 DEF IInv, Accounted
  <2> QED BY <1>2, <1>10, <1>15, <1>17, <2>1 DEF Accounted
<1>22. OnePlace' /\ Numbered'
  BY <1>2, <1>5, <1>10, <1>17 DEF IInv, OnePlace, Numbered, Decided
<1> QED BY <1>9, <1>10, <1>11, <1>12, <1>13, <1>14, <1>15, <1>16, <1>19, <1>20, <1>21, <1>22 DEF IInv

-----------------------------------------------------------------------------
(* All steps. *)

LEMMA InitHolds == Init => IInv
<1> SUFFICES ASSUME Init PROVE IInv
  OBVIOUS
<1> USE DEF Init
<1>1. DOMAIN session = {} /\ room.ops = {} /\ ~room.live
  BY NoRoomIs
<1>2. /\ DOMAIN store.rows = {} /\ store.snapshot = [through |-> 0, ops |-> {}]
      /\ Durable = {}
  BY DEF EmptyStore, NoSnapshot, Durable, Restore, ReadSince
<1>3. LastSeq(store) = 0
  BY <1>2 DEF LastSeq
<1>4. RowsNumbered
  BY <1>2, <1>3 DEF RowsNumbered
<1>5. TypeOK
  BY <1>1, <1>2, NoRoomIs, BoundsAssumption DEF TypeOK
<1>6. /\ Sent = {} /\ SessionsHaveRoom /\ SessionsApart /\ QueuesInRoom /\ BroadcastIsDurable
      /\ InitIsDurable /\ JoinLosesNothing /\ Orphans = {}
      /\ \A j, k \in DOMAIN session : j # k => UnreadBy(j) \cap UnreadBy(k) = {}
      /\ \A k \in DOMAIN session : FramesApart(session[k].up)
  BY <1>1, NoSessions
<1>7. SocketsKept
  BY <1>6, FS_EmptySet DEF SocketsKept
<1>8. ActorsReserved /\ ActorsDistinct /\ RoomMatchesStore
  BY <1>1 DEF ActorsReserved, ActorsDistinct, RoomMatchesStore
<1>9. PeersHoldOnlyDurable /\ Accounted /\ OwnHeld
  BY <1>1, EmptyRange DEF PeersHoldOnlyDurable, Accounted, OwnHeld
<1>10. OnePlace /\ Numbered
  BY <1>1, <1>2, <1>6, EmptyRange DEF OnePlace, Numbered, Decided
<1> QED BY <1>4, <1>5, <1>6, <1>7, <1>8, <1>9, <1>10 DEF IInv

LEMMA Keeps == IInv /\ [Next]_vars => IInv'
<1> SUFFICES ASSUME IInv, [Next]_vars
             PROVE  IInv'
  OBVIOUS
<1>1. ASSUME NEW t \in Tab, TabNext(t)
      PROVE  IInv'
  <2>1. CASE Connect(t)
    <3>1. Join(t, Durable) /\ Works
      BY <2>1 DEF Connect, Durable
    <3>2. /\ happened \subseteq happened' /\ happened' \subseteq FaultKinds
          /\ Happened("restart")' <=> Happened("restart")
          /\ failures <= failures' /\ failures' \in 0..MaxFailures
      BY <3>1, BoundsAssumption DEF Works, Happened, IInv, TypeOK
    <3> QED BY <3>1, <3>2, JoinKeeps
  <2>2. CASE ConnectUnrestored(t)
    <3>1. Join(t, {}) /\ Fails("restore")
      BY <2>2 DEF ConnectUnrestored
    <3>2. /\ happened' = happened \cup {"restore"} /\ failures' = failures + 1
          /\ failures \in 0..MaxFailures /\ failures < MaxFailures /\ happened \subseteq FaultKinds
      BY <3>1 DEF Fails, IInv, TypeOK
    <3>3. /\ happened \subseteq happened' /\ happened' \subseteq FaultKinds /\ ~Intact'
          /\ Happened("restart")' <=> Happened("restart")
      BY <3>2 DEF Happened, Intact, FaultKinds
    <3>4. failures <= failures' /\ failures' \in 0..MaxFailures
      BY <3>2, BoundsAssumption
    <3> QED BY <3>1, <3>3, <3>4, JoinKeeps
  <2>3. CASE ConnectRefused(t)
    <3>1. /\ Closed(t) /\ Fails("refused") /\ "refused" \in FaultKinds
          /\ UNCHANGED <<store, room, nextConnection, session>>
      BY <2>3 DEF ConnectRefused, FaultKinds
    <3> QED BY <3>1, DetachKeeps
  <2>4. CASE Opened(t)
    BY <2>4, OpenedKeeps
  <2>5. CASE ReceiveInit(t)
    BY <2>5, ReceiveInitKeeps
  <2>6. CASE ReceiveOps(t)
    BY <2>6, ReceiveOpsKeeps
  <2>7. CASE Draw(t)
    BY <2>7, DrawKeeps
  <2>8. CASE NoticeClose(t)
    <3>1. /\ Closed(t) /\ Works /\ socket[t] \notin DOMAIN session
          /\ UNCHANGED <<store, room, nextConnection, session>>
      BY <2>8 DEF NoticeClose
    <3> QED BY <3>1, DetachKeeps
  <2>9. CASE LoseNetwork(t)
    <3>1. /\ Closed(t) /\ Fails("network") /\ "network" \in FaultKinds
          /\ UNCHANGED <<store, room, nextConnection, session>>
      BY <2>9 DEF LoseNetwork, FaultKinds
    <3> QED BY <3>1, DetachKeeps
  <2>10. CASE Reload(t)
    BY <2>10, ReloadKeeps
  <2> QED BY <1>1, <2>1, <2>2, <2>3, <2>4, <2>5, <2>6, <2>7, <2>8, <2>9, <2>10 DEF TabNext
<1>2. ASSUME NEW k \in Sockets, SessionNext(k)
      PROVE  IInv'
  <2>1. failures <= failures /\ failures \in 0..MaxFailures /\ happened \in SUBSET FaultKinds
    BY BoundsAssumption DEF IInv, TypeOK
  <2>2. CASE RefuseBatch(k)
    BY <2>2, ShrinkKeeps DEF RefuseBatch, HasFrame
  <2>3. CASE RefuseFull(k)
    BY <2>1, <2>3, TakeKeeps DEF RefuseFull, Works
  <2>4. CASE DropFrame(k)
    <3>1. /\ happened' \in SUBSET FaultKinds /\ happened \subseteq happened'
          /\ failures' \in 0..MaxFailures /\ failures <= failures'
      BY <2>1, <2>4, BoundsAssumption DEF DropFrame, Fails, FaultKinds
    <3> QED BY <2>4, <3>1, TakeKeeps DEF DropFrame
  <2>5. CASE Accept(k)
    BY <2>5, AcceptKeeps
  <2>6. CASE AppendFails(k)
    BY <2>6, AppendFailsKeeps
  <2>7. CASE CloseLagged(k)
    BY <2>7, ShrinkKeeps DEF CloseLagged
  <2>8. CASE EndOrphan(k)
    BY <2>8, ShrinkKeeps DEF EndOrphan
  <2> QED BY <1>2, <2>2, <2>3, <2>4, <2>5, <2>6, <2>7, <2>8 DEF SessionNext
<1>3. CASE Reclaim
  BY <1>3, ReclaimKeeps
<1>4. CASE Restart
  BY <1>4, RestartKeeps
<1>5. CASE UNCHANGED vars
  <2> USE <1>5 DEF vars, tabVars
  <2>1. TypeOK' /\ RowsNumbered' /\ SocketsKept' /\ SessionsHaveRoom'
    BY DEF IInv, TypeOK, RowsNumbered, SocketsKept, Orphans, SessionsHaveRoom
  <2>2. SessionsApart' /\ ActorsReserved' /\ ActorsDistinct'
    BY DEF IInv, SessionsApart, ActorsReserved, ActorsDistinct, Happened
  <2>3. RoomMatchesStore' /\ QueuesInRoom' /\ BroadcastIsDurable' /\ InitIsDurable'
    BY DEF IInv, RoomMatchesStore, QueuesInRoom, BroadcastIsDurable, InitIsDurable, Durable,
           Intact, Happened
  <2>4. PeersHoldOnlyDurable' /\ OwnHeld' /\ JoinLosesNothing'
    BY DEF IInv, PeersHoldOnlyDurable, OwnHeld, JoinLosesNothing, InTransit, UnreadBy, Durable,
           Intact, Happened
  <2>5. Accounted' /\ OnePlace' /\ Numbered'
    BY DEF IInv, Accounted, OnePlace, Numbered, Decided, Sent, UnreadBy, Durable, Intact, Happened
  <2> QED BY <2>1, <2>2, <2>3, <2>4, <2>5 DEF IInv
<1> QED BY <1>1, <1>2, <1>3, <1>4, <1>5 DEF Next

(* Whatever happens to a board, in any order: the invariant of this module. *)
THEOREM ServerInvariant == Spec => []IInv
<1>1. Init => IInv
  BY InitHolds
<1>2. IInv /\ [Next]_vars => IInv'
  BY Keeps
<1> QED BY <1>1, <1>2, PTL DEF Spec

-----------------------------------------------------------------------------
(* What follows. *)

(* Every variable stays in its range; a tab without a socket always finds   *)
(* one nobody uses, and nothing empty is ever sent: flush() of app.js.      *)
THEOREM ServerTypeCorrect == Spec => []TypeOK
<1>1. IInv => TypeOK
  BY DEF IInv
<1> QED BY <1>1, ServerInvariant, PTL

(* with_room and Room::accept: a room in memory is what the store restores, *)
(* as long as no append and no restore failed.                              *)
THEOREM RoomsMatchTheStore == Spec => []RoomMatchesStore
<1>1. IInv => RoomMatchesStore
  BY DEF IInv
<1> QED BY <1>1, ServerInvariant, PTL

(* Room::accept: no frame is broadcast that the log has not recorded,       *)
(* whatever failed before.                                                  *)
THEOREM DurableBeforeBroadcast == Spec => []BroadcastIsDurable
<1>1. IInv => BroadcastIsDurable
  BY DEF IInv
<1> QED BY <1>1, ServerInvariant, PTL

(* A tab shows no operation of another tab that a restart would forget.     *)
THEOREM PeersShowDurable == Spec => []PeersHoldOnlyDurable
<1>1. IInv => PeersHoldOnlyDurable
  BY DEF IInv
<1> QED BY <1>1, ServerInvariant, PTL

(* session() subscribes and takes the document under one lock: what is in   *)
(* the room is in every tab or on its way to it.                            *)
THEOREM JoinsLoseNothing == Spec => []JoinLosesNothing
<1>1. IInv => JoinLosesNothing
  BY DEF IInv
<1> QED BY <1>1, ServerInvariant, PTL

(* next_connection: no two boards open at once have the same actor, as long *)
(* as the process runs.                                                     *)
THEOREM ActorsAreDistinct == Spec => []ActorsDistinct
<1>1. IInv => ActorsDistinct
  BY DEF IInv
<1> QED BY <1>1, ServerInvariant, PTL

LEMMA SettledShow ==
  ASSUME IInv, Settled, Intact, NEW t \in Tab
  PROVE  board[t] \ dropped = room.ops
<1>1. PICK k : k = socket[t]
  OBVIOUS
<1>2. /\ k \in DOMAIN session /\ session[k].greeted /\ ~session[k].lagged
      /\ session[k].queue = <<>> /\ outbox[t] = <<>>
      /\ \A j \in DOMAIN session : session[j].up = <<>>
  BY <1>1 DEF Settled
<1>3. Sent = {} /\ OpsOf(outbox[t]) = {}
  BY <1>2, EmptyRange DEF Sent, UnreadBy
<1>4. room.live /\ room.ops = Durable
  BY <1>2 DEF IInv, SessionsHaveRoom, RoomMatchesStore
<1>5. InTransit(k) = {}
  <2>1. session[k].init = {}
    BY <1>1, <1>2 DEF IInv, OwnHeld
  <2> QED BY <1>2, <2>1, EmptyRange DEF InTransit
<1>6. room.ops \subseteq board[t]
  BY <1>1, <1>2, <1>5 DEF IInv, JoinLosesNothing, Intact
<1>7. room.ops \cap dropped = {}
  BY DEF IInv, OnePlace
<1>8. \A op \in board[t] : op \in Durable \cup dropped
  BY <1>3 DEF IInv, PeersHoldOnlyDurable, Accounted
<1> QED BY <1>4, <1>6, <1>7, <1>8

(* When nothing is on its way any more, all tabs show the document the room *)
(* holds and, of their own, what was refused or cut off: through any number *)
(* of reconnections, evictions, restarts, refusals and lagging tabs.        *)
THEOREM SettledTabsShowTheRoom == Spec => []SettledTabsAgree
<1>1. IInv => SettledTabsAgree
  BY SettledShow DEF SettledTabsAgree
<1> QED BY <1>1, ServerInvariant, PTL

(* Only an accepted batch writes to the store. *)
LEMMA OthersKeepTheStore ==
  ASSUME Next, \A k \in Sockets : ~Accept(k)
  PROVE  store' = store
<1>1. ASSUME NEW t \in Tab, TabNext(t)
      PROVE  store' = store
  BY <1>1 DEF TabNext, Connect, ConnectUnrestored, Join, ConnectRefused, Opened, ReceiveInit,
              ReceiveOps, Draw, NoticeClose, LoseNetwork, Reload
<1>2. ASSUME NEW k \in Sockets, SessionNext(k)
      PROVE  store' = store
  BY <1>2 DEF SessionNext, RefuseBatch, RefuseFull, DropFrame, AppendFails, CloseLagged, EndOrphan
<1>3. Reclaim \/ Restart => store' = store
  BY DEF Reclaim, Restart
<1> QED BY <1>1, <1>2, <1>3 DEF Next

(* Room::accept writes snapshots from the room in memory: while that room   *)
(* is at least what a restart would restore, nothing acknowledged is lost,  *)
(* whatever fails.                                                          *)
THEOREM RestoredBoardsAreKept == Spec => RestoredBoardIsKept
<1>1. IInv /\ [Next]_vars =>
        [(room.live => Durable \subseteq room.ops) => Durable \subseteq Durable']_vars
  <2> SUFFICES ASSUME IInv, Next, room.live => Durable \subseteq room.ops
               PROVE  Durable \subseteq Durable'
    OBVIOUS
  <2>1. CASE \E k \in Sockets : Accept(k)
    BY <2>1, AcceptRecords
  <2>2. CASE \A k \in Sockets : ~Accept(k)
    BY <2>2, OthersKeepTheStore DEF Durable
  <2> QED BY <2>1, <2>2
<1> QED BY <1>1, ServerInvariant, PTL DEF Spec, RestoredBoardIsKept
=============================================================================
