------------------------------- MODULE Server -------------------------------
(***************************************************************************)
(* One board on the live server: browser tabs (web/app.js), the sessions   *)
(* and the room that serve them (crates/kboard-server/src/main.rs and      *)
(* room.rs) and the store behind the room (module Store).                  *)
(*                                                                         *)
(* A document is the set of operations folded into it, which determines it *)
(* (theorem DocumentsReflect of module ReplicasProofs); every drawing here *)
(* is one operation that creates an element of its own.  Presence messages *)
(* are not modelled, except that they share a broadcast channel with the   *)
(* operations: Capacity is what they leave.                                *)
(*                                                                         *)
(* What may go wrong is chosen by Faults; every occurrence counts against  *)
(* MaxFailures.  `dropped` is a history variable: the drawings that were   *)
(* refused, or were on their way when the server or a page ended it.       *)
(***************************************************************************)
EXTENDS Store, FiniteSets, Functions

CONSTANTS Tab,            \* browser tabs on the board
          MaxBatch,       \* MAX_OPS_PER_FRAME
          MaxElements,    \* MAX_ELEMENTS_PER_ROOM
          Capacity,       \* room left in the broadcast channel of 1024
          SnapshotEvery,  \* SNAPSHOT_EVERY
          Faults,         \* which failures happen
          MaxFailures,    \* bound: how many of them
          MaxDraws        \* bound: drawings made in all tabs

FaultKinds == {"network", "refused", "rate", "append", "snapshot", "restore", "restart", "reload"}

ASSUME FaultsAssumption == Faults \subseteq FaultKinds
ASSUME TabAssumption    == IsFiniteSet(Tab)
ASSUME BoundsAssumption == MaxFailures \in Nat /\ MaxDraws \in Nat
ASSUME LimitsAssumption ==
  /\ MaxBatch \in Nat \ {0} /\ MaxElements \in Nat
  /\ Capacity \in Nat \ {0} /\ SnapshotEvery \in Nat \ {0}

VARIABLES
  store,           \* the database rows of the board
  room,            \* NoRoom, or the operations in it and since_snapshot
  nextConnection,  \* AppState.next_connection
  session,         \* live sessions, by socket
  socket,          \* socket[t]: the socket of tab t, 0 when it has none
  phase,           \* phase[t]: "idle", "connecting", "open" or, never to
                   \* be tried again, "abandoned"
  everConnected,   \* state.everConnected
  actor,           \* state.actor, 0 before there is a board
  board,           \* the operations in the tab's board
  outbox,          \* state.outbox
  drawn,           \* history: drawings made so far
  dropped,         \* history: drawings that cannot be recorded any more
  happened,        \* history: the failures that happened
  failures         \* history: how many failures happened

tabVars == <<socket, phase, everConnected, actor, board, outbox, drawn>>
vars == <<store, room, nextConnection, session, tabVars, dropped, happened, failures>>

OpsOf(batch) == Range(batch)

NoRoom        == [live |-> FALSE, ops |-> {}, since |-> 0]
RoomWith(ops) == [live |-> TRUE, ops |-> ops, since |-> 0]

Init == /\ store = EmptyStore
        /\ room = NoRoom
        /\ nextConnection = 0
        /\ session = [k \in {} |-> k]
        /\ socket = [t \in Tab |-> 0]
        /\ phase  = [t \in Tab |-> "idle"]
        /\ everConnected = [t \in Tab |-> FALSE]
        /\ actor  = [t \in Tab |-> 0]
        /\ board  = [t \in Tab |-> {}]
        /\ outbox = [t \in Tab |-> <<>>]
        /\ drawn  = 0
        /\ dropped  = {}
        /\ happened = {}
        /\ failures = 0

Happened(kind) == kind \in happened

Fails(kind) == /\ kind \in Faults
               /\ failures < MaxFailures
               /\ happened' = happened \cup {kind}
               /\ failures' = failures + 1
Works == UNCHANGED <<happened, failures>>

(* A session without a tab is left behind by a failure: there is always a   *)
(* socket for a tab without one (lemma SocketToSpare of ServerProofs).      *)
Sockets  == 1..(Cardinality(Tab) + MaxFailures)
InUse(k) == k \in DOMAIN session \/ \E t \in Tab : socket[t] = k
FreshSocket == CHOOSE k \in Sockets : ~InUse(k)

Without(k) == [j \in DOMAIN session \ {k} |-> session[j]]

(* What a session has been sent and has not read. *)
OpsIn(frames) == UNION {OpsOf(frame) : frame \in Range(frames)}
UnreadBy(k)   == OpsIn(session[k].up)

-----------------------------------------------------------------------------
(* The browser. *)

(* Slip: an empty outbox is sent as well. *)
FlushAlways(t, live, queued, isOpen) ==
  /\ outbox' = [outbox EXCEPT ![t] = IF isOpen THEN <<>> ELSE queued]
  /\ session' = IF isOpen /\ socket[t] \in DOMAIN live
                  THEN [live EXCEPT ![socket[t]].up = Append(@, queued)]
                  ELSE live
  /\ UNCHANGED dropped

(* Slip: the outbox is emptied before the socket is looked at. *)
FlushBlindly(t, live, queued, isOpen) ==
  /\ outbox' = [outbox EXCEPT ![t] = <<>>]
  /\ session' = IF isOpen /\ queued # <<>> /\ socket[t] \in DOMAIN live
                  THEN [live EXCEPT ![socket[t]].up = Append(@, queued)]
                  ELSE live
  /\ UNCHANGED dropped

(* flush() with `queued` in the outbox, over the sessions `live`: what an   *)
(* open socket is handed leaves the outbox, whether or not the session at   *)
(* the other end still exists.                                              *)
FlushInto(t, live, queued, isOpen) ==
  /\ outbox' = [outbox EXCEPT ![t] = IF isOpen THEN <<>> ELSE queued]
  /\ session' = IF isOpen /\ queued # <<>> /\ socket[t] \in DOMAIN live
                  THEN [live EXCEPT ![socket[t]].up = Append(@, queued)]
                  ELSE live
  /\ dropped' = IF isOpen /\ socket[t] \notin DOMAIN live THEN dropped \cup OpsOf(queued)
                ELSE dropped

(* Slip: a connection numbered by how many there are. *)
LoadNumber == Cardinality(DOMAIN session) + 1

(* The actor id of a session that starts. *)
ConnectionNumber == nextConnection + 1

(* connect(), the upgrade and the start of session(): the tab's socket gets *)
(* a session, which takes a connection number and, in one critical section, *)
(* a room (restored when it is not in memory), a subscription and the       *)
(* document to start from.                                                  *)
Join(t, restored) ==
  LET joined == IF room.live THEN room ELSE RoomWith(restored)
      k == FreshSocket
  IN  /\ phase[t] = "idle"
      /\ room' = joined
      /\ nextConnection' = nextConnection + 1
      /\ socket' = [socket EXCEPT ![t] = k]
      /\ phase'  = [phase EXCEPT ![t] = "connecting"]
      /\ session' = [j \in DOMAIN session \cup {k} |->
                       IF j # k THEN session[j]
                       ELSE [actor  |-> ConnectionNumber,
                             greeted |-> FALSE, init |-> joined.ops,
                             queue  |-> <<>>, lagged |-> FALSE, up |-> <<>>]]
      /\ UNCHANGED <<store, everConnected, actor, board, outbox, drawn, dropped>>

Connect(t) == Join(t, Restore(store)) /\ Works

(* with_room when the store cannot answer: an empty room. *)
ConnectUnrestored(t) == ~room.live /\ Join(t, {}) /\ Fails("restore")

(* A socket that closes: reconnect later, unless none ever opened. *)
Closed(t) ==
  /\ socket' = [socket EXCEPT ![t] = 0]
  /\ phase'  = [phase EXCEPT ![t] = IF everConnected[t] THEN "idle" ELSE "abandoned"]
  /\ UNCHANGED <<everConnected, actor, board, outbox, drawn, dropped>>

(* The handshake fails. *)
ConnectRefused(t) == /\ phase[t] = "idle" /\ ~everConnected[t]
                     /\ Fails("refused")
                     /\ Closed(t)
                     /\ UNCHANGED <<store, room, nextConnection, session>>

(* socket.onopen *)
Opened(t) ==
  /\ phase[t] = "connecting"
  /\ socket[t] \in DOMAIN session
  /\ phase' = [phase EXCEPT ![t] = "open"]
  /\ everConnected' = [everConnected EXCEPT ![t] = TRUE]
  /\ FlushInto(t, session, outbox[t], actor[t] # 0)
  /\ Works
  /\ UNCHANGED <<store, room, nextConnection, socket, actor, board, drawn>>

(* socket.onmessage, "init": a board that exists keeps its actor, and its   *)
(* operations.                                                              *)
ReceiveInit(t) ==
  LET k == socket[t] IN
  /\ phase[t] = "open" /\ k \in DOMAIN session
  /\ ~session[k].greeted
  /\ actor' = [actor EXCEPT ![t] = IF @ = 0 THEN session[k].actor ELSE @]
  /\ board' = [board EXCEPT ![t] = @ \cup session[k].init]
  /\ FlushInto(t, [session EXCEPT ![k].greeted = TRUE, ![k].init = {}], outbox[t], TRUE)
  /\ Works
  /\ UNCHANGED <<store, room, nextConnection, socket, phase, everConnected, drawn>>

(* One message through the relay task and socket.onmessage, "ops". *)
ReceiveOps(t) ==
  LET k == socket[t] IN
  /\ phase[t] = "open" /\ k \in DOMAIN session
  /\ session[k].greeted /\ session[k].queue # <<>>
  /\ LET message == Head(session[k].queue) IN
     board' = IF message.origin = session[k].actor THEN board
              ELSE [board EXCEPT ![t] = @ \cup OpsOf(message.ops)]
  /\ session' = [session EXCEPT ![k].queue = Tail(@)]
  /\ Works
  /\ UNCHANGED <<store, room, nextConnection, socket, phase, everConnected, actor, outbox,
                 drawn, dropped>>

(* A command on the board, then flush(). *)
Draw(t) ==
  LET op == <<t, drawn + 1>> IN
  /\ actor[t] # 0
  /\ drawn < MaxDraws
  /\ drawn' = drawn + 1
  /\ board' = [board EXCEPT ![t] = @ \cup {op}]
  /\ FlushInto(t, session, Append(outbox[t], op), phase[t] = "open")
  /\ Works
  /\ UNCHANGED <<store, room, nextConnection, socket, phase, everConnected, actor>>

(* socket.onclose after the server ended the session. *)
NoticeClose(t) == /\ socket[t] # 0 /\ socket[t] \notin DOMAIN session
                  /\ Closed(t)
                  /\ Works
                  /\ UNCHANGED <<store, room, nextConnection, session>>

(* socket.onclose while the server still believes in the session. *)
LoseNetwork(t) == /\ socket[t] \in DOMAIN session
                  /\ Fails("network")
                  /\ Closed(t)
                  /\ UNCHANGED <<store, room, nextConnection, session>>

(* The page is loaded again: the board lives in the page. *)
Reload(t) == /\ Fails("reload")
             /\ actor[t] # 0
             /\ socket' = [socket EXCEPT ![t] = 0]
             /\ phase'  = [phase EXCEPT ![t] = "idle"]
             /\ everConnected' = [everConnected EXCEPT ![t] = FALSE]
             /\ actor'  = [actor EXCEPT ![t] = 0]
             /\ board'  = [board EXCEPT ![t] = {}]
             /\ outbox' = [outbox EXCEPT ![t] = <<>>]
             /\ dropped' = dropped \cup OpsOf(outbox[t])
             /\ UNCHANGED <<store, room, nextConnection, session, drawn>>

-----------------------------------------------------------------------------
(* The server. *)

(* The next frame of a session, and the sessions with it taken. *)
FrameOf(k) == Head(session[k].up)
Taken(k)   == [session EXCEPT ![k].up = Tail(@)]
HasFrame(k) == k \in DOMAIN session /\ session[k].up # <<>>

TooLarge(batch) == Len(batch) > MaxBatch
RoomIsFull      == Cardinality(room.ops) >= MaxElements

(* Slip: a session is subscribed only once its document has been delivered. *)
BroadcastToGreeted(live, message) ==
  [j \in DOMAIN live |->
     IF ~live[j].greeted THEN live[j]
     ELSE IF Len(live[j].queue) < Capacity /\ ~live[j].lagged
       THEN [live[j] EXCEPT !.queue = Append(@, message)]
       ELSE [live[j] EXCEPT !.queue = <<>>, !.lagged = TRUE]]

(* Room::broadcast to every subscriber; one whose channel is full will be   *)
(* told that it lagged.                                                     *)
Broadcast(live, message) ==
  [j \in DOMAIN live |->
     IF Len(live[j].queue) < Capacity /\ ~live[j].lagged
       THEN [live[j] EXCEPT !.queue = Append(@, message)]
       ELSE [live[j] EXCEPT !.queue = <<>>, !.lagged = TRUE]]

(* Room::accept, the refusals; RoomFull and an exhausted rate budget drop   *)
(* the frame, an oversized batch ends the session.                          *)
RefuseBatch(k) == /\ HasFrame(k) /\ room.live
                  /\ TooLarge(FrameOf(k))
                  /\ session' = Without(k)
                  /\ dropped' = dropped \cup UnreadBy(k)
                  /\ Works
                  /\ UNCHANGED <<store, room, nextConnection, tabVars>>

(* Slip: a refused batch is relayed all the same. *)
RefuseFullRelayed(k) ==
  /\ HasFrame(k) /\ room.live
  /\ ~TooLarge(FrameOf(k)) /\ RoomIsFull
  /\ session' = Broadcast(Taken(k), [origin |-> session[k].actor, ops |-> FrameOf(k)])
  /\ dropped' = dropped \cup OpsOf(FrameOf(k))
  /\ Works
  /\ UNCHANGED <<store, room, nextConnection, tabVars>>

RefuseFull(k) == /\ HasFrame(k) /\ room.live
                 /\ ~TooLarge(FrameOf(k)) /\ RoomIsFull
                 /\ session' = Taken(k)
                 /\ dropped' = dropped \cup OpsOf(FrameOf(k))
                 /\ Works
                 /\ UNCHANGED <<store, room, nextConnection, tabVars>>

DropFrame(k) == /\ HasFrame(k)
                /\ Fails("rate")
                /\ session' = Taken(k)
                /\ dropped' = dropped \cup OpsOf(FrameOf(k))
                /\ UNCHANGED <<store, room, nextConnection, tabVars>>

Acceptable(k) == /\ HasFrame(k) /\ room.live
                 /\ ~TooLarge(FrameOf(k)) /\ ~RoomIsFull

Absorbed(batch) == [room EXCEPT !.ops = @ \cup OpsOf(batch), !.since = @ + Len(batch)]

(* The accepted path under one lock: absorb, append, write a snapshot back  *)
(* when one is due, broadcast.                                              *)
Accept(k) ==
  LET batch    == FrameOf(k)
      absorbed == Absorbed(batch)
      appended == AppendRows(store, batch)
      due      == absorbed.since >= SnapshotEvery
  IN  /\ Acceptable(k)
      /\ \/ /\ ~due
            /\ room' = absorbed /\ store' = appended
            /\ Works
         \/ /\ due
            /\ room' = [absorbed EXCEPT !.since = 0]
            /\ store' = StoreSnapshot(appended, absorbed.ops)
            /\ Works
         \/ /\ due
            /\ Fails("snapshot")
            /\ room' = absorbed /\ store' = appended
      /\ session' = Broadcast(Taken(k), [origin |-> session[k].actor, ops |-> batch])
      /\ UNCHANGED <<nextConnection, tabVars, dropped>>

(* Slip: relayed although the append failed. *)
AppendFailsRelayed(k) ==
  /\ Acceptable(k)
  /\ Fails("append")
  /\ room' = Absorbed(FrameOf(k))
  /\ session' = Broadcast(Without(k), [origin |-> session[k].actor, ops |-> FrameOf(k)])
  /\ UNCHANGED <<store, nextConnection, tabVars, dropped>>

(* Refused::NotDurable: absorbed, not recorded, not relayed, session ended, *)
(* with it whatever was still to be read.                                   *)
AppendFails(k) == /\ Acceptable(k)
                  /\ Fails("append")
                  /\ room' = Absorbed(FrameOf(k))
                  /\ session' = Without(k)
                  /\ dropped' = dropped \cup (UnreadBy(k) \ OpsOf(FrameOf(k)))
                  /\ UNCHANGED <<store, nextConnection, tabVars>>

(* Slip: the relay goes on from where the channel is. *)
SkipLagged(k) == /\ k \in DOMAIN session /\ session[k].lagged
                 /\ session' = [session EXCEPT ![k].lagged = FALSE]
                 /\ Works
                 /\ UNCHANGED <<store, room, nextConnection, tabVars, dropped>>

(* The relay task of a session that lagged ends it, and what its tab had    *)
(* sent is not read any more.                                               *)
CloseLagged(k) == /\ k \in DOMAIN session /\ session[k].lagged
                  /\ session' = Without(k)
                  /\ dropped' = dropped \cup UnreadBy(k)
                  /\ Works
                  /\ UNCHANGED <<store, room, nextConnection, tabVars>>

(* A session whose socket is gone ends when a read or a write fails; what   *)
(* was still in its socket may have been read first.                        *)
EndOrphan(k) == /\ k \in DOMAIN session /\ \A t \in Tab : socket[t] # k
                /\ session' = Without(k)
                /\ dropped' = dropped \cup UnreadBy(k)
                /\ Works
                /\ UNCHANGED <<store, room, nextConnection, tabVars>>

(* The sweeper: a room without subscribers that has been quiet. *)
Reclaim == /\ room.live /\ DOMAIN session = {}
           /\ room' = NoRoom
           /\ Works
           /\ UNCHANGED <<store, nextConnection, session, tabVars, dropped>>

(* The process stops and starts again over the same database. *)
Restart == /\ Fails("restart")
           /\ room' = NoRoom
           /\ session' = [k \in {} |-> k]
           /\ nextConnection' = 0
           /\ dropped' = dropped \cup UNION {UnreadBy(k) : k \in DOMAIN session}
           /\ UNCHANGED <<store, tabVars>>

TabNext(t) == \/ Connect(t) \/ ConnectUnrestored(t) \/ ConnectRefused(t)
              \/ Opened(t) \/ ReceiveInit(t) \/ ReceiveOps(t) \/ Draw(t)
              \/ NoticeClose(t) \/ LoseNetwork(t) \/ Reload(t)

SessionNext(k) == \/ RefuseBatch(k) \/ RefuseFull(k) \/ DropFrame(k)
                  \/ Accept(k) \/ AppendFails(k)
                  \/ CloseLagged(k) \/ EndOrphan(k)

Next == \/ \E t \in Tab : TabNext(t)
        \/ \E k \in Sockets : SessionNext(k)
        \/ Reclaim
        \/ Restart

Spec == Init /\ [][Next]_vars

(* Timers fire, sockets deliver, tasks run: every step that is not a        *)
(* failure, a drawing or the sweeper is eventually taken.                   *)
Fairness ==
  /\ \A t \in Tab : /\ WF_vars(Connect(t))
                    /\ WF_vars(Opened(t))
                    /\ WF_vars(ReceiveInit(t))
                    /\ WF_vars(ReceiveOps(t))
                    /\ WF_vars(NoticeClose(t))
  /\ \A k \in Sockets : /\ WF_vars(RefuseBatch(k) \/ RefuseFull(k) \/ Accept(k))
                        /\ WF_vars(CloseLagged(k))

FairSpec == Spec /\ Fairness

-----------------------------------------------------------------------------
Operation == Tab \X (1..MaxDraws)
Batch     == Seq(Operation) \ {<<>>}
Message   == [origin : Nat, ops : Batch]
Session   == [actor : Nat, greeted : BOOLEAN, init : SUBSET Operation,
              queue : Seq(Message), lagged : BOOLEAN, up : Seq(Batch)]
Durable   == Restore(store)

(* Every variable stays in its range, and nothing empty is ever sent. *)
TypeOK ==
  /\ \A seq \in DOMAIN store.rows : store.rows[seq] \in Operation
  /\ store.snapshot \in [through : Nat, ops : SUBSET Operation]
  /\ room \in [live : BOOLEAN, ops : SUBSET Operation, since : Nat]
  /\ nextConnection \in Nat
  /\ DOMAIN session \subseteq Sockets /\ session \in [DOMAIN session -> Session]
  /\ socket \in [Tab -> Sockets \cup {0}]
  /\ phase \in [Tab -> {"idle", "connecting", "open", "abandoned"}]
  /\ everConnected \in [Tab -> BOOLEAN]
  /\ actor \in [Tab -> Nat]
  /\ board \in [Tab -> SUBSET Operation]
  /\ outbox \in [Tab -> Seq(Operation)]
  /\ drawn \in 0..MaxDraws
  /\ dropped \subseteq Operation
  /\ happened \subseteq FaultKinds /\ failures \in 0..MaxFailures

(* The two failures after which the room and the rows part.                 *)
Intact == ~Happened("append") /\ ~Happened("restore")

(* A room in memory and the store never disagree about the board, unless an *)
(* append or a restore failed: whoever joins after a restart finds what     *)
(* whoever joined before it found.                                          *)
RoomMatchesStore == Intact /\ room.live => room.ops = Durable

(* "Durable before broadcast": no frame is on its way to a peer that the    *)
(* log has not recorded.                                                    *)
BroadcastIsDurable ==
  \A k \in DOMAIN session : \A message \in Range(session[k].queue) :
    OpsOf(message.ops) \subseteq Durable

(* What main.rs:560 gives as its reason: a tab that holds another tab's     *)
(* operation holds one the board can be rebuilt with.  After a failed       *)
(* append or restore it is not so.                                          *)
PeersHoldOnlyDurable ==
  Intact => \A t \in Tab : \A op \in board[t] : op[1] # t => op \in Durable

(* Acknowledged work stays: no step, failing or not, takes an operation     *)
(* away from what a restart would restore.                                  *)
NothingDurableIsLost == [][Durable \subseteq Durable']_vars

(* It does stay as long as the room in memory was restored: whatever then   *)
(* fails, and whenever the process stops, the board only grows.             *)
RestoredBoardIsKept ==
  [][(room.live => Durable \subseteq room.ops) => Durable \subseteq Durable']_vars

(* A join and the broadcasts racing it leave no gap: whatever is in the     *)
(* room is in the tab, or on its way to it, unless the session is to close. *)
(* What a failed append left in the room was never on its way to anybody.   *)
InTransit(k) == session[k].init \cup
                UNION {OpsOf(message.ops) : message \in Range(session[k].queue)}

JoinLosesNothing ==
  ~Happened("append") => \A t \in Tab : LET k == socket[t] IN
    k \in DOMAIN session /\ ~session[k].lagged =>
      room.ops \subseteq board[t] \cup InTransit(k)

(* "Two replicas that shared one would break the tiebreak" (main.rs:445):   *)
(* no two boards open at once have the same actor, unless the process was   *)
(* restarted under one of them.                                             *)
ActorsDistinct ==
  ~Happened("restart") => \A t, u \in Tab : t # u /\ actor[t] # 0 => actor[t] # actor[u]

(* Every tab is connected and nothing is queued or in flight.               *)
Settled == /\ \A t \in Tab : LET k == socket[t] IN
                /\ phase[t] = "open" /\ k \in DOMAIN session
                /\ session[k].greeted /\ ~session[k].lagged
                /\ session[k].queue = <<>>
                /\ outbox[t] = <<>>
           /\ \A k \in DOMAIN session : session[k].up = <<>>

(* When nothing is on its way, every tab shows the board the room holds and *)
(* whoever joins is shown; all that a tab shows besides are drawings of its *)
(* own that were refused or cut off.                                        *)
SettledTabsAgree == Settled /\ Intact => \A t \in Tab : board[t] \ dropped = room.ops

(* Whatever is recorded reaches every tab that has not given up, through    *)
(* any finite number of disconnections and restarts.                        *)
EverybodyLearns ==
  \A op \in Operation : \A t \in Tab :
    op \in Durable ~> (op \in board[t] \/ phase[t] = "abandoned")

(* Whatever is drawn is recorded in the end, unless it is refused or cut    *)
(* off on its way.                                                          *)
EverythingIsRecorded ==
  \A op \in Operation : (\E t \in Tab : op \in board[t]) ~> op \in Durable \cup dropped
=============================================================================
