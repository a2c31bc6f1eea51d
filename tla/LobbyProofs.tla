---------------------------- MODULE LobbyProofs -----------------------------
(***************************************************************************)
(* Who is let in, which rooms are kept and who stays in them, for every    *)
(* set of tabs, scopes and secrets, every cap and every time to live.      *)
(***************************************************************************)
EXTENDS Lobby, FiniteSetTheorems, TLAPS

RoomsInv == IsFiniteSet(DOMAIN rooms) /\ Cardinality(DOMAIN rooms) <= MaxRooms

(* What verify made sure of, at the handshake or since. *)
Vouched(t) ==
  \/ secret = NoSecret /\ bind = "loopback"
  \/ /\ admitted[t] # NoToken
     /\ admitted[t].key = secret /\ admitted[t].scope = url[t] /\ admitted[t].life > 0

(* Whoever is past the handshake was vouched for, and the configuration is  *)
(* one the server starts with.                                              *)
GrantInv == /\ DOMAIN phase = Tab /\ DOMAIN admitted = Tab /\ DOMAIN url = Tab
            /\ Starts(secret, bind)
            /\ \A t \in Tab : phase[t] \in {"upgrading", "seated", "parted"} => Vouched(t)

(* A room is a record of its age and its channel. *)
Furnished == \A s \in DOMAIN rooms : \E q, c : rooms[s] = [quiet |-> q, channel |-> c]

SeatInv == /\ DOMAIN phase = Tab /\ DOMAIN channel = Tab /\ DOMAIN url = Tab
           /\ NobodyIsStranded

-----------------------------------------------------------------------------
LEMMA TouchedDomain ==
  ASSUME NEW s
  PROVE  DOMAIN Touched(s) = DOMAIN rooms \cup {s}
  BY DEF Touched

(* Opening a room that is not there needs room below the cap. *)
LEMMA TouchedIsBounded ==
  ASSUME RoomsInv, NEW s, HasCapacity(s)
  PROVE  /\ IsFiniteSet(DOMAIN rooms \cup {s})
         /\ Cardinality(DOMAIN rooms \cup {s}) <= MaxRooms
<1>1. CASE s \in DOMAIN rooms
  <2>1. DOMAIN rooms \cup {s} = DOMAIN rooms
    BY <1>1
  <2> QED BY <2>1 DEF RoomsInv
<1>2. CASE s \notin DOMAIN rooms
  <2>1. Cardinality(DOMAIN rooms) < MaxRooms
    BY <1>2 DEF HasCapacity
  <2>2. Cardinality(DOMAIN rooms) \in Nat
    BY FS_CardinalityType DEF RoomsInv
  <2>3. /\ IsFiniteSet(DOMAIN rooms \cup {s})
        /\ Cardinality(DOMAIN rooms \cup {s}) = Cardinality(DOMAIN rooms) + 1
    BY <1>2, FS_AddElement DEF RoomsInv
  <2> QED BY <2>1, <2>2, <2>3, LobbyAssumption
<1> QED BY <1>1, <1>2

LEMMA FewerIsBounded ==
  ASSUME RoomsInv, NEW S, S \subseteq DOMAIN rooms
  PROVE  IsFiniteSet(S) /\ Cardinality(S) <= MaxRooms
<1>1. /\ IsFiniteSet(S)
      /\ Cardinality(S) <= Cardinality(DOMAIN rooms)
  BY FS_Subset DEF RoomsInv
<1>2. Cardinality(DOMAIN rooms) \in Nat /\ Cardinality(S) \in Nat
  BY <1>1, FS_CardinalityType DEF RoomsInv
<1> QED BY <1>1, <1>2, LobbyAssumption DEF RoomsInv

LEMMA RoomsInit == Init => RoomsInv
<1>1. DOMAIN [s \in {} |-> s] = {}
  OBVIOUS
<1>2. IsFiniteSet({}) /\ Cardinality({}) = 0
  BY FS_EmptySet
<1> QED BY <1>1, <1>2, LobbyAssumption DEF Init, RoomsInv

LEMMA RoomsStep == RoomsInv /\ [Next]_vars => RoomsInv'
<1> SUFFICES ASSUME RoomsInv, [Next]_vars PROVE RoomsInv'
  OBVIOUS
<1>1. ASSUME rooms' = rooms PROVE RoomsInv'
  BY <1>1 DEF RoomsInv
<1>2. ASSUME NEW t \in Tab, NEW s \in Scope, Visit(t, s) PROVE RoomsInv'
  BY <1>2, <1>1 DEF Visit, serverVars
<1>3. ASSUME NEW t \in Tab, Knock(t) \/ Close(t) \/ Drop(t) \/ Part(t) PROVE RoomsInv'
  BY <1>3, <1>1 DEF Knock, Close, Drop, Part, serverVars
<1>4. ASSUME NEW t \in Tab, Enter(t) PROVE RoomsInv'
  <2>1. CASE HasCapacity(url[t]) /\ rooms' = Touched(url[t])
    BY <2>1, TouchedDomain, TouchedIsBounded DEF RoomsInv
  <2> QED BY <1>4, <1>1, <2>1 DEF Enter
<1>5. ASSUME NEW t \in Tab, Batch(t) PROVE RoomsInv'
  <2>1. CASE url[t] \in DOMAIN rooms /\ rooms' = Touched(url[t])
    <3>1. HasCapacity(url[t])
      BY <2>1 DEF HasCapacity
    <3> QED BY <2>1, <3>1, TouchedDomain, TouchedIsBounded DEF RoomsInv
  <2> QED BY <1>5, <1>1, <2>1 DEF Batch
<1>6. ASSUME Sweep PROVE RoomsInv'
  <2> DEFINE Kept == {s \in DOMAIN rooms : ~Reclaimable(s)}
  <2>1. DOMAIN rooms' = Kept
    BY <1>6 DEF Sweep, Restrict
  <2>2. Kept \subseteq DOMAIN rooms
    OBVIOUS
  <2> HIDE DEF Kept
  <2> QED BY <2>1, <2>2, FewerIsBounded DEF RoomsInv
<1>7. ASSUME Tick PROVE RoomsInv'
  <2>1. DOMAIN rooms' = DOMAIN rooms
    BY <1>7 DEF Tick
  <2> QED BY <2>1 DEF RoomsInv
<1>8. ASSUME NEW key, NEW address, Restart(key, address) PROVE RoomsInv'
  <2>1. DOMAIN rooms' = {}
    BY <1>8 DEF Restart
  <2>2. IsFiniteSet({}) /\ Cardinality({}) = 0
    BY FS_EmptySet
  <2> QED BY <2>1, <2>2, LobbyAssumption DEF RoomsInv
<1>9. CASE UNCHANGED vars
  BY <1>9, <1>1 DEF vars, serverVars
<1> QED BY <1>2, <1>3, <1>4, <1>5, <1>6, <1>7, <1>8, <1>9
        DEF Next, TabStep, SessionStep, ServerStep

(* The rooms in memory never exceed the cap, however many boards are opened *)
(* by however many tabs (with_room, main.rs:96-99).                         *)
THEOREM RoomsAreBounded == Spec => []RoomsBounded
<1>1. RoomsInv => RoomsBounded
  BY DEF RoomsInv, RoomsBounded
<1> QED BY RoomsInit, RoomsStep, <1>1, PTL DEF Spec

-----------------------------------------------------------------------------
(* The seats. *)

LEMMA SeatInit == Init => SeatInv
  BY DEF Init, SeatInv, NobodyIsStranded

LEMMA FurnishedInit == Init => Furnished
  BY DEF Init, Furnished

LEMMA FurnishedStep == Furnished /\ [Next]_vars => Furnished'
<1> SUFFICES ASSUME Furnished, [Next]_vars PROVE Furnished'
  OBVIOUS
<1>1. ASSUME rooms' = rooms PROVE Furnished'
  BY <1>1 DEF Furnished
<1>2. ASSUME NEW t \in Tab, NEW s \in Scope, Visit(t, s) PROVE Furnished'
  BY <1>2, <1>1 DEF Visit, serverVars
<1>3. ASSUME NEW t \in Tab, Knock(t) \/ Close(t) \/ Drop(t) \/ Part(t) PROVE Furnished'
  BY <1>3, <1>1 DEF Knock, Close, Drop, Part, serverVars
<1>4. ASSUME NEW s, rooms' = Touched(s) PROVE Furnished'
  BY <1>4 DEF Touched, Furnished
<1>5. ASSUME NEW t \in Tab, Enter(t) \/ Batch(t) PROVE Furnished'
  BY <1>5, <1>1, <1>4 DEF Enter, Batch
<1>6. ASSUME Sweep PROVE Furnished'
  BY <1>6 DEF Sweep, Restrict, Furnished
<1>7. ASSUME Tick PROVE Furnished'
  <2> SUFFICES ASSUME NEW s \in DOMAIN rooms
               PROVE  \E q, c : rooms'[s] = [quiet |-> q, channel |-> c]
    BY <1>7 DEF Tick, Furnished
  <2>1. PICK q, c : rooms[s] = [quiet |-> q, channel |-> c]
    BY DEF Furnished
  <2>2. rooms'[s] = [rooms[s] EXCEPT !.quiet = IF @ > IdleTtl THEN @ ELSE @ + 1]
    BY <1>7 DEF Tick
  <2>3. rooms'[s] = [quiet |-> IF q > IdleTtl THEN q ELSE q + 1, channel |-> c]
    BY <2>1, <2>2
  <2> QED BY <2>3
<1>8. ASSUME NEW key, NEW address, Restart(key, address) PROVE Furnished'
  BY <1>8 DEF Restart, Furnished
<1>9. CASE UNCHANGED vars
  BY <1>9, <1>1 DEF vars, serverVars
<1> QED BY <1>2, <1>3, <1>5, <1>6, <1>7, <1>8, <1>9
        DEF Next, TabStep, SessionStep, ServerStep

(* Whatever happens to one tab, the others keep theirs while the rooms and  *)
(* channels in use stay.                                                    *)
LEMMA SeatStep == SeatInv /\ Furnished /\ [Next]_vars => SeatInv'
<1> SUFFICES ASSUME SeatInv, Furnished, [Next]_vars PROVE SeatInv'
  OBVIOUS
<1> USE DEF SeatInv, NobodyIsStranded
<1>1. ASSUME NEW t \in Tab, NEW s \in Scope, Visit(t, s) PROVE SeatInv'
  BY <1>1 DEF Visit, serverVars
<1>2. ASSUME NEW t \in Tab, Knock(t) PROVE SeatInv'
  BY <1>2 DEF Knock, Shut, Over, Retries, serverVars, pageVars
<1>3. ASSUME NEW t \in Tab, Close(t) PROVE SeatInv'
  BY <1>3 DEF Close, Over, serverVars, pageVars
<1>4. ASSUME NEW t \in Tab, Drop(t) PROVE SeatInv'
  BY <1>4 DEF Drop, Shut, Over, Retries, serverVars, pageVars
<1>5. ASSUME NEW t \in Tab, Part(t) PROVE SeatInv'
  BY <1>5 DEF Part, serverVars, pageVars
<1>6. ASSUME NEW t \in Tab, Enter(t) PROVE SeatInv'
  <2>1. CASE /\ rooms' = Touched(url[t])
             /\ channel' = [channel EXCEPT ![t] = ChannelOf(url[t])]
             /\ phase' = [phase EXCEPT ![t] = "seated"]
             /\ url' = url
    <3>1. rooms'[url[t]].channel = ChannelOf(url[t]) /\ url[t] \in DOMAIN rooms'
      BY <2>1 DEF Touched
    <3>2. ASSUME NEW s \in DOMAIN rooms
          PROVE  s \in DOMAIN rooms' /\ rooms'[s].channel = rooms[s].channel
      BY <2>1 DEF Touched, ChannelOf
    <3> QED BY <2>1, <3>1, <3>2
  <2>2. CASE rooms' = rooms /\ phase' = [phase EXCEPT ![t] = "idle"] /\ Over(t) /\ url' = url
    BY <2>2 DEF Over
  <2> QED BY <1>6, <2>1, <2>2 DEF Enter, pageVars
<1>7. ASSUME NEW t \in Tab, Batch(t) PROVE SeatInv'
  <2>1. CASE url[t] \in DOMAIN rooms /\ rooms' = Touched(url[t]) /\ UNCHANGED <<phase, channel, url>>
    <3>1. ASSUME NEW s \in DOMAIN rooms
          PROVE  s \in DOMAIN rooms' /\ rooms'[s].channel = rooms[s].channel
      BY <2>1 DEF Touched, ChannelOf
    <3> QED BY <2>1, <3>1
  <2>2. CASE Shut(t) /\ rooms' = rooms /\ url' = url
    BY <2>2 DEF Shut, Over, Retries
  <2> QED BY <1>7, <2>1, <2>2 DEF Batch, pageVars
<1>8. ASSUME Sweep PROVE SeatInv'
  <2>1. ASSUME NEW t \in Tab, phase[t] = "seated" PROVE ~Reclaimable(url[t])
    BY <2>1 DEF Reclaimable, Receivers, Tuned
  <2>2. rooms' = [s \in {r \in DOMAIN rooms : ~Reclaimable(r)} |-> rooms[s]]
    BY <1>8 DEF Sweep, Restrict
  <2>3. UNCHANGED <<phase, channel, url>>
    BY <1>8 DEF Sweep, pageVars
  <2> QED BY <2>1, <2>2, <2>3
<1>9. ASSUME Tick PROVE SeatInv'
  <2>1. ASSUME NEW s \in DOMAIN rooms
        PROVE  s \in DOMAIN rooms' /\ rooms'[s].channel = rooms[s].channel
    <3>1. PICK q, c : rooms[s] = [quiet |-> q, channel |-> c]
      BY DEF Furnished
    <3>2. rooms'[s] = [rooms[s] EXCEPT !.quiet = IF @ > IdleTtl THEN @ ELSE @ + 1]
      BY <1>9 DEF Tick
    <3> QED BY <1>9, <3>1, <3>2 DEF Tick
  <2> QED BY <1>9, <2>1 DEF Tick
<1>10. ASSUME NEW key, NEW address, Restart(key, address) PROVE SeatInv'
  BY <1>10 DEF Restart, InSession, Retries, pageVars
<1>11. CASE UNCHANGED vars
  BY <1>11 DEF vars, serverVars, pageVars
<1> QED BY <1>1, <1>2, <1>3, <1>4, <1>5, <1>6, <1>7, <1>8, <1>9, <1>10, <1>11
        DEF Next, TabStep, SessionStep, ServerStep

(* A room is never reclaimed, or opened anew, under a tab that is connected *)
(* to it (is_reclaimable, room.rs:140-145; the sweeper, main.rs:326-351).   *)
THEOREM NobodyIsLeftBehind == Spec => []NobodyIsStranded
<1>1. SeatInv => NobodyIsStranded
  BY DEF SeatInv
<1> QED BY FurnishedInit, FurnishedStep, SeatInit, SeatStep, <1>1, PTL DEF Spec
-----------------------------------------------------------------------------
(* The grants. *)

LEMMA GrantInit == Init => GrantInv
  BY DEF Init, GrantInv

(* verify says nothing without a secret, and then only a loopback address   *)
(* is served.                                                               *)
LEMMA AdmittedIsVouched ==
  ASSUME NEW t \in Tab, Starts(secret, bind), Admits(t)
  PROVE  \/ secret = NoSecret /\ bind = "loopback"
         \/ /\ token[t] # NoToken
            /\ token[t].key = secret /\ token[t].scope = url[t] /\ token[t].life > 0
  BY DEF Starts, PermitsBind, IsEnforcing, Admits, Verify

LEMMA GrantStep == GrantInv /\ [Next]_vars => GrantInv'
<1> SUFFICES ASSUME GrantInv, [Next]_vars PROVE GrantInv'
  OBVIOUS
<1> USE DEF GrantInv, Vouched
<1>1. ASSUME NEW t \in Tab, NEW s \in Scope, Visit(t, s) PROVE GrantInv'
  BY <1>1 DEF Visit, serverVars
<1>2. ASSUME NEW t \in Tab, Knock(t) PROVE GrantInv'
  <2>1. CASE /\ Admits(t)
             /\ phase' = [phase EXCEPT ![t] = "upgrading"]
             /\ admitted' = [admitted EXCEPT ![t] = token[t]]
             /\ UNCHANGED <<secret, bind, url>>
    BY <2>1, AdmittedIsVouched
  <2>2. CASE Shut(t) /\ UNCHANGED <<secret, bind, url>>
    BY <2>2 DEF Shut, Over, Retries
  <2> QED BY <1>2, <2>1, <2>2 DEF Knock, serverVars, pageVars
<1>3. ASSUME NEW t \in Tab, Close(t) PROVE GrantInv'
  BY <1>3 DEF Close, Over, serverVars, pageVars
<1>4. ASSUME NEW t \in Tab, Drop(t) PROVE GrantInv'
  BY <1>4 DEF Drop, Shut, Over, Retries, serverVars, pageVars
<1>5. ASSUME NEW t \in Tab, Part(t) PROVE GrantInv'
  BY <1>5 DEF Part, serverVars, pageVars
<1>6. ASSUME NEW t \in Tab, Enter(t) PROVE GrantInv'
  <2>1. CASE phase' = [phase EXCEPT ![t] = "seated"] /\ UNCHANGED <<secret, bind, url, admitted>>
    BY <1>6, <2>1 DEF Enter
  <2>2. CASE phase' = [phase EXCEPT ![t] = "idle"] /\ Over(t) /\ UNCHANGED <<secret, bind, url>>
    BY <2>2 DEF Over
  <2> QED BY <1>6, <2>1, <2>2 DEF Enter, pageVars
<1>7. ASSUME NEW t \in Tab, Batch(t) PROVE GrantInv'
  <2>1. CASE UNCHANGED <<phase, secret, bind, url, admitted>>
    BY <2>1
  <2>2. CASE Shut(t) /\ UNCHANGED <<secret, bind, url>>
    BY <2>2 DEF Shut, Over, Retries
  <2> QED BY <1>7, <2>1, <2>2 DEF Batch, pageVars
<1>8. ASSUME Sweep \/ Tick PROVE GrantInv'
  BY <1>8 DEF Sweep, Tick, pageVars
<1>9. ASSUME NEW key, NEW address, Restart(key, address) PROVE GrantInv'
  BY <1>9 DEF Restart, InSession, Retries, pageVars
<1>10. CASE UNCHANGED vars
  BY <1>10 DEF vars, serverVars, pageVars
<1> QED BY <1>1, <1>2, <1>3, <1>4, <1>5, <1>6, <1>7, <1>8, <1>9, <1>10
        DEF Next, TabStep, SessionStep, ServerStep

(* Nobody is on a board of an enforcing or networked server without having  *)
(* presented a live grant of this very server for this very board           *)
(* (auth.rs:91-99 and 117-153, main.rs:412-442).                            *)
THEOREM OnlyTheGrantedEnter == Spec => []OnlyTheGranted
<1>1. GrantInv => OnlyTheGranted
  BY DEF GrantInv, Vouched, OnlyTheGranted, InSession
<1> QED BY GrantInit, GrantStep, <1>1, PTL DEF Spec
-----------------------------------------------------------------------------
(* The ranges. *)

(* Past the handshake a scope is acceptable. *)
TypeInv == TypeOK /\ \A t \in Tab : phase[t] = "upgrading" => url[t] \in Acceptable

(* There is always a channel nobody is on: a session and a room have one    *)
(* each.                                                                    *)
LEMMA ThereIsAChannel ==
  ASSUME TypeOK
  PROVE  FreshChannel \in Channels
<1> DEFINE Heard == {channel[t] : t \in Tab}
           roomsOn == [s \in DOMAIN rooms |-> rooms[s].channel]
           Open == {roomsOn[s] : s \in DOMAIN rooms}
<1>1. IsFiniteSet(Heard) /\ Cardinality(Heard) <= Cardinality(Tab)
  <2>1. channel \in Surjection(Tab, Heard)
    BY DEF TypeOK, Surjection
  <2> QED BY <2>1, FiniteAssumption, FS_Surjection
<1>2. /\ IsFiniteSet(DOMAIN rooms)
      /\ Cardinality(DOMAIN rooms) <= Cardinality(Scope)
  <2>1. DOMAIN rooms \subseteq Scope
    BY ScopeAssumption DEF TypeOK
  <2> QED BY <2>1, FiniteAssumption, FS_Subset
<1>3. IsFiniteSet(Open) /\ Cardinality(Open) <= Cardinality(DOMAIN rooms)
  <2>1. roomsOn \in Surjection(DOMAIN rooms, Open)
    BY DEF Surjection
  <2> QED BY <2>1, <1>2, FS_Surjection
<1>4. /\ Cardinality(Tab) \in Nat /\ Cardinality(Scope) \in Nat
      /\ Cardinality(Heard) \in Nat /\ Cardinality(Open) \in Nat
      /\ Cardinality(DOMAIN rooms) \in Nat
  BY <1>1, <1>2, <1>3, FiniteAssumption, FS_CardinalityType
<1> DEFINE n == Cardinality(Tab) + Cardinality(Scope) + 1
<1>5. IsFiniteSet(Heard \cup Open) /\ Cardinality(Heard \cup Open) < n
  <2>1. IsFiniteSet(Heard \cap Open)
    BY <1>1, FS_Subset
  <2>2. Cardinality(Heard \cap Open) \in Nat
    BY <2>1, FS_CardinalityType
  <2>3. /\ IsFiniteSet(Heard \cup Open)
        /\ Cardinality(Heard \cup Open)
             = Cardinality(Heard) + Cardinality(Open) - Cardinality(Heard \cap Open)
    BY <1>1, <1>3, FS_Union
  <2> HIDE DEF Heard, Open
  <2> QED BY <2>2, <2>3, <1>1, <1>2, <1>3, <1>4
<1>6. Cardinality(Channels) = n
  <2>1. n \in Int /\ n >= 1
    BY <1>4
  <2> QED BY <2>1, FS_Interval DEF Channels
<1>7. ~(Channels \subseteq Heard \cup Open)
  <2>1. SUFFICES ASSUME Channels \subseteq Heard \cup Open PROVE FALSE
    OBVIOUS
  <2>2. Cardinality(Channels) <= Cardinality(Heard \cup Open)
    BY <2>1, <1>5, FS_Subset
  <2>3. Cardinality(Heard \cup Open) \in Nat
    BY <1>5, FS_CardinalityType
  <2> HIDE DEF Heard, Open
  <2> QED BY <2>2, <2>3, <1>4, <1>5, <1>6
<1>8. PICK k \in Channels : k \notin Heard /\ k \notin Open
  BY <1>7
<1>9. /\ \A t \in Tab : channel[t] # k
      /\ \A s \in DOMAIN rooms : rooms[s].channel # k
  BY <1>8
<1> QED BY <1>8, <1>9 DEF FreshChannel

LEMMA TypeInit == Init => TypeInv
  BY ScopeAssumption DEF Init, TypeInv, TypeOK, Phases

LEMMA TouchedTypes ==
  ASSUME TypeOK, NEW s \in Acceptable
  PROVE  /\ ChannelOf(s) \in Channels
         /\ DOMAIN Touched(s) \subseteq Acceptable
         /\ \A r \in DOMAIN Touched(s) :
              Touched(s)[r] \in [quiet : 0..IdleTtl + 1, channel : Channels]
<1>1. ChannelOf(s) \in Channels
  BY ThereIsAChannel DEF ChannelOf, TypeOK
<1>2. 0 \in 0..IdleTtl + 1
  BY LobbyAssumption
<1> QED BY <1>1, <1>2 DEF Touched, TypeOK

LEMMA TypeStep == TypeInv /\ [Next]_vars => TypeInv'
<1> SUFFICES ASSUME TypeInv, [Next]_vars PROVE TypeInv'
  OBVIOUS
<1> USE DEF TypeInv, Phases
<1>1. ASSUME NEW t \in Tab, NEW s \in Scope, Visit(t, s) PROVE TypeInv'
  <2>1. token' \in [Tab -> Grant \cup {NoToken}]
    <3>1. ASSUME NEW offered \in {NoToken, token[t]} \cup UNION {Minted(other) : other \in Scope}
          PROVE  offered \in Grant \cup {NoToken}
      <4>1. \A other \in Scope : Minted(other) \subseteq Grant
        BY LobbyAssumption DEF Minted, Grant, TypeOK, Starts, IsEnforcing
      <4> QED BY <3>1, <4>1 DEF TypeOK
    <3> QED BY <1>1, <3>1 DEF Visit, TypeOK
  <2> QED BY <1>1, <2>1 DEF Visit, serverVars, TypeOK
<1>2. ASSUME NEW t \in Tab, Knock(t) PROVE TypeInv'
  BY <1>2 DEF Knock, Shut, Over, Retries, serverVars, pageVars, TypeOK, Admits
<1>3. ASSUME NEW t \in Tab, Close(t) PROVE TypeInv'
  BY <1>3 DEF Close, Over, serverVars, pageVars, TypeOK
<1>4. ASSUME NEW t \in Tab, Drop(t) PROVE TypeInv'
  BY <1>4 DEF Drop, Shut, Over, Retries, serverVars, pageVars, TypeOK
<1>5. ASSUME NEW t \in Tab, Part(t) PROVE TypeInv'
  BY <1>5 DEF Part, serverVars, pageVars, TypeOK
<1>6. ASSUME NEW t \in Tab, Enter(t) PROVE TypeInv'
  <2>1. url[t] \in Acceptable
    BY <1>6 DEF Enter
  <2>2. CASE rooms' = Touched(url[t]) /\ channel' = [channel EXCEPT ![t] = ChannelOf(url[t])]
             /\ phase' = [phase EXCEPT ![t] = "seated"] /\ admitted' = admitted
    BY <1>6, <2>1, <2>2, TouchedTypes DEF Enter, pageVars, TypeOK
  <2>3. CASE phase' = [phase EXCEPT ![t] = "idle"] /\ Over(t) /\ rooms' = rooms
    BY <1>6, <2>3 DEF Enter, Over, pageVars, TypeOK
  <2> QED BY <1>6, <2>2, <2>3 DEF Enter
<1>7. ASSUME NEW t \in Tab, Batch(t) PROVE TypeInv'
  <2>1. CASE /\ url[t] \in DOMAIN rooms /\ rooms' = Touched(url[t])
             /\ UNCHANGED <<phase, channel, admitted>>
    <3>1. url[t] \in Acceptable
      BY <2>1 DEF TypeOK
    <3> QED BY <1>7, <2>1, <3>1, TouchedTypes DEF Batch, pageVars, TypeOK
  <2>2. CASE Shut(t) /\ rooms' = rooms
    BY <1>7, <2>2 DEF Batch, Shut, Over, Retries, pageVars, TypeOK
  <2> QED BY <1>7, <2>1, <2>2 DEF Batch
<1>8. ASSUME Sweep PROVE TypeInv'
  BY <1>8 DEF Sweep, Restrict, pageVars, TypeOK
<1>9. ASSUME Tick PROVE TypeInv'
  <2>1. /\ DOMAIN rooms' = DOMAIN rooms
        /\ \A s \in DOMAIN rooms : rooms'[s] \in [quiet : 0..IdleTtl + 1, channel : Channels]
    BY <1>9, LobbyAssumption DEF Tick, TypeOK
  <2>2. token' \in [Tab -> Grant \cup {NoToken}]
    <3>1. SUFFICES ASSUME NEW t \in Tab, token[t] # NoToken, token[t].life # 0
                   PROVE  [token[t] EXCEPT !.life = @ - 1] \in Grant
      BY <1>9 DEF Tick, TypeOK
    <3>2. token[t] \in Grant
      BY <3>1 DEF TypeOK
    <3> QED BY <3>1, <3>2, LobbyAssumption DEF Grant
  <2> QED BY <1>9, <2>1, <2>2 DEF Tick, TypeOK
<1>10. ASSUME NEW key \in Secret \cup {NoSecret}, NEW address, Restart(key, address)
       PROVE  TypeInv'
  BY <1>10 DEF Restart, InSession, Retries, pageVars, TypeOK
<1>11. CASE UNCHANGED vars
  BY <1>11 DEF vars, serverVars, pageVars, TypeOK
<1> QED BY <1>1, <1>2, <1>3, <1>4, <1>5, <1>6, <1>7, <1>8, <1>9, <1>10, <1>11
        DEF Next, TabStep, SessionStep, ServerStep

(* Every variable of the lobby stays in its range: rooms are of acceptable  *)
(* scopes, with a channel of their own, and tabs hold grants or nothing     *)
(* (AppState, main.rs; websocket, main.rs:412-442).                         *)
THEOREM LobbyTypeCorrect == Spec => []TypeOK
<1>1. TypeInv => TypeOK
  BY DEF TypeInv
<1> QED BY TypeInit, TypeStep, <1>1, PTL DEF Spec
=============================================================================
