------------------------------- MODULE Lobby --------------------------------
(***************************************************************************)
(* The way into a board and out of it: who the server lets in              *)
(* (crates/kboard-server/src/auth.rs, and websocket of main.rs), which     *)
(* boards it holds in memory (AppState, with_room and the sweeper of       *)
(* main.rs, is_reclaimable of room.rs), and the tabs that keep trying      *)
(* (connect of web/app.js).  What is said on a board, and that a board     *)
(* that was reclaimed comes back as it was, is the matter of modules       *)
(* Server and StoreLog.                                                    *)
(*                                                                         *)
(* Time is kept in ages: how long a room has been quiet, how long a grant  *)
(* has to live.                                                            *)
(***************************************************************************)
EXTENDS Integers, FiniteSets, Functions

CONSTANTS Tab,         \* browser tabs
          Scope,       \* the scopes that URLs name
          Acceptable,  \* those that limits.rs finds acceptable
          Secret,      \* values KBOARD_SECRET may have
          NoSecret,    \* KBOARD_SECRET is not set
          NoToken,     \* a URL without a token
          MaxRooms,    \* MAX_ROOMS
          IdleTtl,     \* ROOM_IDLE_TTL
          Lifetime,    \* DEFAULT_TTL_SECONDS
          MaxVisits,   \* bound: pages loaded
          MaxRestarts  \* bound: restarts of the server

ASSUME ScopeAssumption == Scope # {} /\ Acceptable \subseteq Scope /\ NoSecret \notin Secret
ASSUME FiniteAssumption == IsFiniteSet(Tab) /\ IsFiniteSet(Scope)
ASSUME LobbyAssumption == MaxRooms \in Nat /\ IdleTtl \in Nat /\ Lifetime \in Nat
ASSUME TokenAssumption == NoToken \notin [scope : Scope, life : 0..Lifetime, key : Secret]

VARIABLES
  secret,         \* Authority.secret
  bind,           \* the address the server listens on
  rooms,          \* ServerState.rooms: for each, the time since last_active
                  \* and the channel of this incarnation
  url, token,     \* what the page of a tab was opened with
  phase,          \* what a tab, and the session it has, are doing
  everConnected,  \* state.everConnected
  channel,        \* channel[t]: the broadcast channel its session is on
  admitted,       \* history: the token as it was when it was verified
  visits, restarts

serverVars == <<secret, bind, rooms>>
pageVars   == <<url, token, visits>>
vars == <<serverVars, pageVars, phase, everConnected, channel, admitted, restarts>>

Grant == [scope : Scope, life : 0..Lifetime, key : Secret]

Tuned(t)     == phase[t] = "seated"
InSession(t) == phase[t] \in {"seated", "parted"}

(* Sender::receiver_count of the room of a scope. *)
Receivers(s) == {t \in Tab : Tuned(t) /\ channel[t] = rooms[s].channel}

-----------------------------------------------------------------------------
(* Authority. *)

IsEnforcing(key) == key # NoSecret

PermitsBind(key, address) == IsEnforcing(key) \/ address = "loopback"

(* mint: nothing without a secret. *)
Minted(s) == IF IsEnforcing(secret) THEN {[scope |-> s, life |-> Lifetime, key |-> secret]}
                                    ELSE {}

(* Slip: a grant opens every scope. *)
VerifyAnyScope(offered, s) ==
  IsEnforcing(secret) => offered # NoToken /\ offered.key = secret /\ offered.life > 0

Verify(offered, s) ==
  IsEnforcing(secret) =>
    /\ offered # NoToken
    /\ offered.key = secret
    /\ offered.life > 0
    /\ offered.scope = s

(* main, as it starts: a configuration it refuses ends it. *)
Starts(key, address) == key \in Secret \cup {NoSecret} /\ PermitsBind(key, address)

Init == /\ secret \in Secret \cup {NoSecret} /\ bind \in {"loopback", "network"}
        /\ Starts(secret, bind)
        /\ rooms = [s \in {} |-> s]
        /\ url = [t \in Tab |-> CHOOSE s \in Scope : TRUE]
        /\ token = [t \in Tab |-> NoToken]
        /\ phase = [t \in Tab |-> "away"]
        /\ everConnected = [t \in Tab |-> FALSE]
        /\ channel = [t \in Tab |-> 0]
        /\ admitted = [t \in Tab |-> NoToken]
        /\ visits = 0 /\ restarts = 0

-----------------------------------------------------------------------------
(* The tab. *)

(* A page is opened, with a grant the host minted for some scope, with the  *)
(* token it had before, or with none.                                       *)
Visit(t, s) ==
  /\ phase[t] \in {"away", "abandoned"} /\ visits < MaxVisits
  /\ \E offered \in {NoToken, token[t]} \cup UNION {Minted(other) : other \in Scope} :
       token' = [token EXCEPT ![t] = offered]
  /\ url' = [url EXCEPT ![t] = s]
  /\ phase' = [phase EXCEPT ![t] = "idle"]
  /\ visits' = visits + 1
  /\ UNCHANGED <<serverVars, everConnected, channel, admitted, restarts>>

(* The session of a tab is over, if it had one. *)
Over(t) == /\ channel' = [channel EXCEPT ![t] = 0]
           /\ admitted' = [admitted EXCEPT ![t] = NoToken]

(* onclose: try again later, unless no socket of the page ever opened. *)
Retries(t) == IF everConnected[t] THEN "idle" ELSE "abandoned"

Shut(t) == phase' = [phase EXCEPT ![t] = Retries(t)] /\ Over(t)

(* websocket(): the scope and the token are judged before the upgrade. *)
Admits(t) == url[t] \in Acceptable /\ Verify(token[t], url[t])

Knock(t) ==
  /\ phase[t] = "idle"
  /\ \/ /\ Admits(t)
        /\ phase' = [phase EXCEPT ![t] = "upgrading"]
        /\ admitted' = [admitted EXCEPT ![t] = token[t]]
        /\ UNCHANGED channel
     \/ ~Admits(t) /\ Shut(t)
  /\ UNCHANGED <<serverVars, pageVars, everConnected, restarts>>

(* The page is closed. *)
Close(t) ==
  /\ phase[t] \notin {"away", "abandoned"}
  /\ phase' = [phase EXCEPT ![t] = "away"] /\ Over(t)
  /\ everConnected' = [everConnected EXCEPT ![t] = FALSE]
  /\ UNCHANGED <<serverVars, pageVars, restarts>>

(* The connection ends, or is cut off, or a session that has parted is over.*)
Drop(t) ==
  /\ phase[t] \in {"upgrading", "seated", "parted"}
  /\ Shut(t)
  /\ UNCHANGED <<serverVars, pageVars, everConnected, restarts>>

-----------------------------------------------------------------------------
(* The session. *)

(* Slip: a room that is there is refused at the cap as well. *)
HasCapacityBelowCap(s) == Cardinality(DOMAIN rooms) < MaxRooms

(* with_room: a room that is there, or room for it. *)
HasCapacity(s) == s \in DOMAIN rooms \/ Cardinality(DOMAIN rooms) < MaxRooms

Channels == 1..Cardinality(Tab) + Cardinality(Scope) + 1
FreshChannel ==
  CHOOSE k \in Channels :
    /\ \A t \in Tab : channel[t] # k
    /\ \A s \in DOMAIN rooms : rooms[s].channel # k

ChannelOf(s) == IF s \in DOMAIN rooms THEN rooms[s].channel ELSE FreshChannel

(* The room is created unless it is there, and touched. *)
Touched(s) ==
  [r \in DOMAIN rooms \cup {s} |->
     IF r = s THEN [quiet |-> 0, channel |-> ChannelOf(s)] ELSE rooms[r]]

(* session(): the socket is open, and the room is there, restored or        *)
(* created if capacity allows; otherwise the socket is closed.              *)
Enter(t) ==
  /\ phase[t] = "upgrading"
  /\ everConnected' = [everConnected EXCEPT ![t] = TRUE]
  /\ \/ /\ HasCapacity(url[t])
        /\ rooms' = Touched(url[t])
        /\ channel' = [channel EXCEPT ![t] = ChannelOf(url[t])]
        /\ phase' = [phase EXCEPT ![t] = "seated"]
        /\ UNCHANGED admitted
     \/ /\ ~HasCapacity(url[t])
        /\ phase' = [phase EXCEPT ![t] = "idle"] /\ Over(t)
        /\ UNCHANGED rooms
  /\ UNCHANGED <<secret, bind, pageVars, restarts>>

(* A batch: with_existing finds the room and it is touched, or the session  *)
(* ends.                                                                    *)
Batch(t) ==
  /\ InSession(t)
  /\ \/ /\ url[t] \in DOMAIN rooms
        /\ rooms' = Touched(url[t])
        /\ UNCHANGED <<phase, channel, admitted>>
     \/ /\ url[t] \notin DOMAIN rooms
        /\ Shut(t)
        /\ UNCHANGED rooms
  /\ UNCHANGED <<secret, bind, pageVars, everConnected, restarts>>

(* The relay ends first; its receiver is dropped and the other task reads   *)
(* on until the abort takes effect.                                         *)
Part(t) ==
  /\ phase[t] = "seated"
  /\ phase' = [phase EXCEPT ![t] = "parted"]
  /\ UNCHANGED <<serverVars, pageVars, everConnected, channel, admitted, restarts>>

-----------------------------------------------------------------------------
(* The server. *)

(* Slip: a quiet room is reclaimed whoever is in it. *)
ReclaimableQuiet(s) == rooms[s].quiet > IdleTtl

(* is_reclaimable *)
Reclaimable(s) == Receivers(s) = {} /\ rooms[s].quiet > IdleTtl

(* One turn of spawn_room_sweeper. *)
Sweep ==
  /\ \E s \in DOMAIN rooms : Reclaimable(s)
  /\ rooms' = Restrict(rooms, {s \in DOMAIN rooms : ~Reclaimable(s)})
  /\ UNCHANGED <<secret, bind, pageVars, phase, everConnected, channel, admitted, restarts>>

(* The process ends and another starts, perhaps configured differently:     *)
(* every socket closes.                                                     *)
Restart(key, address) ==
  /\ restarts < MaxRestarts
  /\ Starts(key, address)
  /\ secret' = key /\ bind' = address
  /\ rooms' = [s \in {} |-> s]
  /\ phase' = [t \in Tab |-> IF ~InSession(t) /\ phase[t] # "upgrading" THEN phase[t]
                             ELSE Retries(t)]
  /\ channel' = [t \in Tab |-> 0] /\ admitted' = [t \in Tab |-> NoToken]
  /\ restarts' = restarts + 1
  /\ UNCHANGED <<pageVars, everConnected>>

Tick ==
  /\ rooms' = [s \in DOMAIN rooms |->
                 [rooms[s] EXCEPT !.quiet = IF @ > IdleTtl THEN @ ELSE @ + 1]]
  /\ token' = [t \in Tab |->
                 IF token[t] = NoToken \/ token[t].life = 0 THEN token[t]
                 ELSE [token[t] EXCEPT !.life = @ - 1]]
  /\ UNCHANGED <<secret, bind, url, visits, phase, everConnected, channel, admitted, restarts>>

TabStep(t) == (\E s \in Scope : Visit(t, s)) \/ Knock(t) \/ Close(t) \/ Drop(t)
SessionStep(t) == Enter(t) \/ Batch(t) \/ Part(t)
ServerStep == \/ Sweep \/ Tick
              \/ \E key \in Secret \cup {NoSecret}, address \in {"loopback", "network"} :
                   Restart(key, address)

Next == (\E t \in Tab : TabStep(t) \/ SessionStep(t)) \/ ServerStep

Spec == Init /\ [][Next]_vars

(* Tabs retry, and one that does so again and again is not cut off every    *)
(* time; an aborted task gives up, time passes and the sweeper takes its    *)
(* turns.                                                                   *)
Fairness == /\ \A t \in Tab : WF_vars(Knock(t)) /\ SF_vars(Enter(t))
            /\ \A t \in Tab : WF_vars(phase[t] = "parted" /\ Drop(t))
            /\ WF_vars(Tick) /\ WF_vars(Sweep)

FairSpec == Spec /\ Fairness

-----------------------------------------------------------------------------
Phases == {"away", "idle", "upgrading", "seated", "parted", "abandoned"}

(* Every variable stays in its range. *)
TypeOK == /\ Starts(secret, bind)
          /\ DOMAIN rooms \subseteq Acceptable
          /\ \A s \in DOMAIN rooms : rooms[s] \in [quiet : 0..IdleTtl + 1, channel : Channels]
          /\ url \in [Tab -> Scope]
          /\ token \in [Tab -> Grant \cup {NoToken}]
          /\ phase \in [Tab -> Phases]
          /\ everConnected \in [Tab -> BOOLEAN]
          /\ channel \in [Tab -> Channels \cup {0}]
          /\ admitted \in [Tab -> Grant \cup {NoToken}]

(* The rooms in memory never exceed the cap, whoever opens what at once     *)
(* (limits.rs:41-43).                                                       *)
RoomsBounded == Cardinality(DOMAIN rooms) <= MaxRooms

(* A tab that is connected is on the channel of the room its board has now: *)
(* a room is never reclaimed, or reopened as another, under somebody.       *)
NobodyIsStranded ==
  \A t \in Tab : phase[t] = "seated" =>
    url[t] \in DOMAIN rooms /\ rooms[url[t]].channel = channel[t]

(* Whoever is on a board of a server that enforces, or that the network can *)
(* reach, presented a grant of this server for this scope before it expired *)
(* (auth.rs:10-24); a grant that expires later does not end the session.    *)
OnlyTheGranted ==
  \A t \in Tab : InSession(t) =>
    \/ secret = NoSecret /\ bind = "loopback"
    \/ /\ admitted[t] # NoToken
       /\ admitted[t].key = secret /\ admitted[t].scope = url[t] /\ admitted[t].life > 0

Deserted(s) == \A t \in Tab : url[t] = s => ~InSession(t)

Waits(t) == phase[t] \in {"idle", "upgrading"} /\ Admits(t)

(* A tab that was turned away at the cap is served in the end, if others    *)
(* leave it a room: it goes on trying, and deserted rooms are reclaimed     *)
(* (room.rs:140-145).                                                       *)
CapIsNotForever ==
  \A t \in Tab :
    <>[](Cardinality({s \in Scope : ~Deserted(s)} \ {url[t]}) < MaxRooms) => ~<>[]Waits(t)
=============================================================================
