------------------------------ MODULE Presence ------------------------------
(***************************************************************************)
(* Who else is on a board, and where they point: cursor reports from a tab *)
(* (web/presence.js and reportCursor of web/app.js) through the session    *)
(* that reads them and the room's broadcast channel to the tabs that draw  *)
(* them.  Operations share wire and channel: what they do is the matter of *)
(* module Server, and Capacity is what they leave here.  A frame beyond    *)
(* the rate budget is dropped; when that happens is the matter of module   *)
(* Limiter, as is the pace of the reports.                                 *)
(*                                                                         *)
(* Connections are numbered as they join.  How much happens between two    *)
(* ticks of the clock is arbitrary.                                        *)
(***************************************************************************)
EXTENDS Integers, Sequences, FiniteSets, Functions

CONSTANTS Tab,             \* browser tabs on the board
          Mover,           \* the tabs whose users move their pointers
          Spot,            \* positions of a pointer
          NoSpot,          \* null, before a tab has reported any
          StaleAfter,      \* STALE_AFTER_MS
          Capacity,        \* of the broadcast channel
          ReportRoom,      \* bound: reports sent and not yet read
          MaxConnections   \* bound: connections made

ASSUME TabAssumption == Mover \subseteq Tab /\ NoSpot \notin Spot
ASSUME StaleAssumption == StaleAfter \in Nat /\ Capacity \in Nat \ {0}

VARIABLES
  session,      \* the sessions so far, by connection number
  conn,         \* conn[t]: the connection of tab t, 0 when its socket is shut
  peers,        \* peers[t]: Presence.peers, with ages for `seen`
  lastSent,     \* Presence.lastSent
  latest        \* history: the last spot relayed for each connection

presenceVars == <<session, conn, peers, lastSent, latest>>

Connections == DOMAIN session
Nobody      == [c \in {} |-> c]

PresenceInit == /\ session = <<>>
                /\ conn = [t \in Tab |-> 0]
                /\ peers = [t \in Tab |-> Nobody]
                /\ lastSent = [t \in Tab |-> NoSpot]
                /\ latest = <<>>

-----------------------------------------------------------------------------
(* The tab. *)

(* session(): a subscription and the two tasks.  Nothing tells the tab who  *)
(* is already there.                                                        *)
Join(t) ==
  /\ conn[t] = 0 /\ Len(session) < MaxConnections
  /\ conn' = [conn EXCEPT ![t] = Len(session) + 1]
  /\ session' = Append(session,
       [wire |-> <<>>, line |-> "up", receiving |-> TRUE, relaying |-> TRUE,
        aborted |-> FALSE, farewell |-> FALSE, queue |-> <<>>, lagged |-> FALSE])
  /\ latest' = Append(latest, NoSpot)
  /\ UNCHANGED <<peers, lastSent>>

(* reportCursor: what was last sent is not sent again, not even on another  *)
(* connection.                                                              *)
PointerMove(t, spot) ==
  LET c == conn[t]
  IN  /\ c # 0 /\ lastSent[t] # spot
      /\ Len(session[c].wire) < ReportRoom
      /\ session' = IF session[c].receiving THEN [session EXCEPT ![c].wire = Append(@, spot)]
                    ELSE session
      /\ lastSent' = [lastSent EXCEPT ![t] = spot]
      /\ UNCHANGED <<conn, peers, latest>>

(* onclose: nobody is reachable. *)
Shut(t) == /\ conn' = [conn EXCEPT ![t] = 0]
           /\ peers' = [peers EXCEPT ![t] = Nobody]
           /\ UNCHANGED <<lastSent, latest>>

(* The tab closes its socket: what it sent is read, and then the end. *)
HangUp(t) ==
  /\ conn[t] # 0
  /\ session' = [session EXCEPT ![conn[t]].line = "closed"]
  /\ Shut(t)

(* The connection dies: some of what it sent is lost, and the server is not *)
(* told.                                                                    *)
LoseNetwork(t) ==
  /\ conn[t] # 0
  /\ \E n \in 0..Len(session[conn[t]].wire) :
       session' = [session EXCEPT ![conn[t]].line = "lost",
                                  ![conn[t]].wire = SubSeq(@, 1, n)]
  /\ Shut(t)

(* Both tasks of the session are over, which drops its socket. *)
NoticeClose(t) ==
  /\ conn[t] # 0 /\ ~session[conn[t]].receiving /\ ~session[conn[t]].relaying
  /\ Shut(t)
  /\ UNCHANGED session

(* Slip: cursors expire only while nobody can be reached. *)
StaleOffline(t) == {c \in DOMAIN peers[t] : conn[t] = 0 /\ peers[t][c].age > StaleAfter}

Stale(t) == {c \in DOMAIN peers[t] : peers[t][c].age > StaleAfter}

(* frame(): Presence.expire. *)
Frame(t) ==
  /\ Stale(t) # {}
  /\ peers' = [peers EXCEPT ![t] = Restrict(@, DOMAIN @ \ Stale(t))]
  /\ UNCHANGED <<session, conn, lastSent, latest>>

-----------------------------------------------------------------------------
(* The session.  receive and relay are tasks of their own; the first to end *)
(* takes the other down, but an aborted receive may still be reading.       *)

(* room.broadcast and presence.send: to every subscription, the sender's    *)
(* included; a queue that is full overruns, and is told so at its next turn.*)
Published(sessions, message) ==
  [k \in DOMAIN sessions |->
     LET s == sessions[k]
     IN  IF ~s.relaying \/ s.lagged THEN s
         ELSE IF Len(s.queue) = Capacity THEN [s EXCEPT !.queue = <<>>, !.lagged = TRUE]
         ELSE [s EXCEPT !.queue = Append(@, message)]]

Reading(c) == [session EXCEPT ![c].wire = Tail(@)]

(* The receiving task is over, whatever was still to be read. *)
Unread(c) == [session EXCEPT ![c].receiving = FALSE, ![c].wire = <<>>]

(* A cursor report is stamped with the connection and relayed, without the  *)
(* server's lock.                                                           *)
RelayPresence(c) ==
  /\ session[c].receiving /\ session[c].wire # <<>>
  /\ LET spot == Head(session[c].wire)
     IN  /\ session' = Published(Reading(c), [kind |-> "presence", actor |-> c, spot |-> spot])
         /\ latest' = [latest EXCEPT ![c] = spot]
  /\ UNCHANGED <<conn, peers, lastSent>>

(* A report beyond the rate budget is dropped, or is the last straw.        *)
DropFrame(c) ==
  /\ session[c].receiving /\ session[c].wire # <<>>
  /\ session' \in {Reading(c), Unread(c)}
  /\ UNCHANGED <<conn, peers, lastSent, latest>>

(* The wire is read to its end, or fails. *)
EndReceive(c) ==
  /\ session[c].receiving
  /\ \/ session[c].line = "closed" /\ session[c].wire = <<>>
     \/ session[c].line = "lost"
  /\ session' = Unread(c)
  /\ UNCHANGED <<conn, peers, lastSent, latest>>

(* The relay has ended, and an abort takes effect when it does. *)
AbortReceive(c) ==
  /\ session[c].receiving /\ ~session[c].relaying
  /\ session' = Unread(c)
  /\ UNCHANGED <<conn, peers, lastSent, latest>>

(* Slip: a peer that is known is left where it was first seen. *)
HeardFirst(seen, message) ==
  IF message.kind = "left" THEN Restrict(seen, DOMAIN seen \ {message.actor})
  ELSE [c \in DOMAIN seen \cup {message.actor} |->
          IF c \in DOMAIN seen THEN seen[c] ELSE [spot |-> message.spot, age |-> 0]]

(* onmessage: Presence.observe and Presence.forget. *)
Heard(seen, message) ==
  IF message.kind = "left" THEN Restrict(seen, DOMAIN seen \ {message.actor})
  ELSE [c \in DOMAIN seen \cup {message.actor} |->
          IF c = message.actor THEN [spot |-> message.spot, age |-> 0] ELSE seen[c]]

(* Slip: a connection is sent its own messages too. *)
ConcernsAll(c, message) == TRUE

Concerns(c, message) == message.actor # c

(* One turn of the relay: its own messages are skipped, the others sent on. *)
Relay(c) ==
  LET message == Head(session[c].queue)
  IN  /\ session[c].relaying /\ session[c].queue # <<>>
      /\ session' = [session EXCEPT ![c].queue = Tail(@)]
      /\ peers' = [t \in Tab |-> IF conn[t] = c /\ Concerns(c, message)
                                 THEN Heard(peers[t], message) ELSE peers[t]]
      /\ UNCHANGED <<conn, lastSent, latest>>

(* The relay ends: its tab fell behind, or a send fails. *)
EndRelay(c) ==
  /\ session[c].relaying
  /\ session[c].lagged \/ (session[c].line # "up" /\ session[c].queue # <<>>)
  /\ session' = [session EXCEPT ![c].relaying = FALSE, ![c].queue = <<>>,
                                ![c].aborted = session[c].receiving]
  /\ UNCHANGED <<conn, peers, lastSent, latest>>

(* Slip: a session that ends tells nobody. *)
Unannounced(c) == [session EXCEPT ![c].farewell = TRUE, ![c].relaying = FALSE, ![c].queue = <<>>]

Announced(c) ==
  Published([session EXCEPT ![c].farewell = TRUE, ![c].relaying = FALSE, ![c].queue = <<>>],
            [kind |-> "left", actor |-> c, spot |-> NoSpot])

(* The end of session(): whichever half is left is taken down and the       *)
(* departure announced.                                                     *)
TearDown(c) ==
  /\ ~session[c].farewell
  /\ ~session[c].receiving \/ ~session[c].relaying
  /\ session' = Announced(c)
  /\ UNCHANGED <<conn, peers, lastSent, latest>>

-----------------------------------------------------------------------------
Age == /\ peers' = [t \in Tab |-> [c \in DOMAIN peers[t] |->
                      [peers[t][c] EXCEPT !.age = IF @ > StaleAfter THEN @ ELSE @ + 1]]]
       /\ UNCHANGED <<session, conn, lastSent, latest>>

TabStep(t) == Join(t) \/ HangUp(t) \/ LoseNetwork(t) \/ NoticeClose(t) \/ Frame(t)
Reads(c) == RelayPresence(c) \/ DropFrame(c) \/ EndReceive(c) \/ AbortReceive(c)
SessionStep(c) == Reads(c) \/ Relay(c) \/ EndRelay(c) \/ TearDown(c)

PresenceNext == \/ \E t \in Tab : TabStep(t)
                \/ \E t \in Mover, spot \in Spot : PointerMove(t, spot)
                \/ \E c \in Connections : SessionStep(c)
                \/ Age

PresenceSpec == PresenceInit /\ [][PresenceNext]_presenceVars

(* Time passes and tabs paint. *)
Fairness == /\ WF_presenceVars(Age)
            /\ \A t \in Tab : WF_presenceVars(Frame(t))

FairSpec == PresenceSpec /\ Fairness

-----------------------------------------------------------------------------
Message == [kind : {"presence", "left"}, actor : Connections, spot : Spot \cup {NoSpot}]

(* Every variable stays in its range, and a tab never shows a cursor of its *)
(* present connection nor, while its socket is shut, any at all.            *)
PresenceTypeOK ==
  /\ \A c \in Connections :
       /\ session[c].wire \in Seq(Spot)
       /\ session[c].queue \in Seq(Message) /\ Len(session[c].queue) <= Capacity
  /\ conn \in [Tab -> 0..Len(session)]
  /\ \A t \in Tab : /\ DOMAIN peers[t] \subseteq Connections \ {conn[t]}
                    /\ conn[t] = 0 => DOMAIN peers[t] = {}
                    /\ \A c \in DOMAIN peers[t] :
                         peers[t][c] \in [spot : Spot, age : 0..StaleAfter + 1]
  /\ lastSent \in [Tab -> Spot \cup {NoSpot}]

(* The session of the tab goes on and has not fallen behind. *)
Listening(t) == conn[t] # 0 /\ session[conn[t]].relaying /\ ~session[conn[t]].lagged

(* Once a session has ended with its wire and announced it, a tab with      *)
(* nothing left to hear of it does not show its cursor (main.rs:609-610): a *)
(* late report cannot bring it back.                                        *)
CleanDeparture ==
  \A t \in Tab, c \in Connections :
    ( /\ Listening(t)
      /\ session[c].farewell /\ ~session[c].aborted
      /\ \A i \in DOMAIN session[conn[t]].queue : session[conn[t]].queue[i].actor # c )
      => c \notin DOMAIN peers[t]

(* A tab that has heard everything shows each cursor it shows where its     *)
(* owner last pointed.                                                      *)
SettledCursors ==
  \A t \in Tab, c \in Connections :
    ( /\ Listening(t) /\ session[conn[t]].queue = <<>>
      /\ c \in DOMAIN peers[t] )
      => peers[t][c].spot = latest[c]

Gone(c) == c \in Connections /\ session[c].farewell /\ ~session[c].receiving

(* Nobody who left stays on a screen: a cursor whose session is over, even  *)
(* one that a report read too late brought back, is eventually not drawn    *)
(* (presence.js:17-23).                                                     *)
GhostsFade ==
  \A t \in Tab, c \in 1..MaxConnections :
    (Gone(c) /\ c \in DOMAIN peers[t]) ~> c \notin DOMAIN peers[t]
=============================================================================
