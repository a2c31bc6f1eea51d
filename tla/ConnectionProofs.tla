-------------------------- MODULE ConnectionProofs --------------------------
(***************************************************************************)
(* What passes over one connection: how much of it a rate budget lets      *)
(* through and whom it never refuses, for every rate, burst, limit and     *)
(* pace that fits them; and which cursors its tab shows, for every set of  *)
(* tabs and positions and every channel capacity.                          *)
(***************************************************************************)
EXTENDS Limiter, Presence, TLAPS


(* What a stream has saved up since it last sent, a frame at most. *)
Credit(share, since) == IF share * since < Cost THEN share * since ELSE Cost

(* The bucket holds what the unread frames cost and what either stream has  *)
(* saved up for the next.                                                   *)
Provided == tokens >= unread * Cost + Credit(ReportShare, sinceReport)
                                    + Credit(CommitShare, sinceCommit)

Polite == hurried = 0 /\ heldBack <= Burst - 2

IInv == /\ TypeOK
        /\ excess = Full - tokens
        /\ unread <= heldBack
        /\ reading => strikes < MaxStrikes
        /\ Polite => strikes = 0 /\ Provided

-----------------------------------------------------------------------------
LEMMA FullIsNat == Full \in Nat
  BY RateAssumption DEF Full

LEMMA Multiples ==
  ASSUME NEW k \in Nat
  PROVE  /\ k * Cost \in Nat /\ (k + 1) * Cost = k * Cost + Cost
         /\ k >= 1 => (k - 1) * Cost = k * Cost - Cost /\ k * Cost >= Cost
         /\ k <= Burst - 2 => k * Cost + 2 * Cost <= Full
<1>1. k * Cost \in Nat /\ (k + 1) * Cost = k * Cost + Cost
  BY RateAssumption
<1>2. k >= 1 => (k - 1) * Cost = k * Cost - Cost /\ k * Cost >= Cost
  BY RateAssumption
<1>3. k <= Burst - 2 => k * Cost + 2 * Cost <= Full
  <2>1. \A d \in Nat : (k + 2 + d) * Cost = k * Cost + 2 * Cost + d * Cost /\ d * Cost \in Nat
    BY RateAssumption
  <2>2. ASSUME k <= Burst - 2 PROVE Burst - k - 2 \in Nat /\ k + 2 + (Burst - k - 2) = Burst
    BY <2>2, RateAssumption
  <2> QED BY <2>1, <2>2 DEF Full
<1> QED BY <1>1, <1>2, <1>3

(* A stream that has waited its interval has saved up a frame, and saves no *)
(* more in a tick than its share.                                           *)
LEMMA Credits ==
  ASSUME NEW share \in Nat, NEW interval \in Nat \ {0}, share * interval >= Cost,
         NEW since \in 0..interval
  PROVE  /\ Credit(share, since) \in 0..Cost
         /\ Credit(share, 0) = 0
         /\ since >= interval => Credit(share, since) = Cost
         /\ Credit(share, Older(since, interval)) <= Credit(share, since) + share
<1>1. /\ share * since \in Nat /\ share * 0 = 0
      /\ share * (since + 1) = share * since + share
  OBVIOUS
<1>2. since >= interval => since = interval
  OBVIOUS
<1> QED BY <1>1, <1>2, RateAssumption DEF Credit, Older

-----------------------------------------------------------------------------
LEMMA Initially == Init => IInv
<1> SUFFICES ASSUME Init PROVE IInv
  OBVIOUS
<1>1. TypeOK
  BY FullIsNat, RateAssumption, PaceAssumption DEF Init, TypeOK
<1>2. Polite => Provided
  <2>1. /\ Credit(ReportShare, sinceReport) \in 0..Cost
        /\ Credit(CommitShare, sinceCommit) \in 0..Cost
    BY <1>1, Credits, PaceAssumption DEF TypeOK
  <2>2. Polite => 0 * Cost + 2 * Cost <= Full
    BY Multiples DEF Init, Polite
  <2> QED BY <2>1, <2>2, FullIsNat, RateAssumption DEF Init, Provided
<1> QED BY <1>1, <1>2, FullIsNat, RateAssumption DEF Init, IInv

(* A frame that is sent in pace uses what its stream has saved up. *)
LEMMA SendKeeps ==
  ASSUME IInv, Send, Report \/ Commit \/ Act
  PROVE  IInv'
<1>1. /\ TypeOK' /\ unread' <= heldBack' /\ heldBack' >= heldBack
      /\ hurried' >= hurried /\ UNCHANGED <<reading, bucketVars>>
  BY PaceAssumption DEF IInv, TypeOK, Send, Report, Commit, Act, bucketVars
<1>2. Polite' => Polite
  BY <1>1, RateAssumption DEF Polite, IInv, TypeOK
<1>3. ASSUME Polite'
      PROVE  strikes' = 0 /\ Provided'
  <2>0. strikes = 0 /\ Provided
    BY <1>2, <1>3 DEF IInv
  <2>1. /\ unread \in Nat /\ tokens \in Nat /\ unread' = unread + 1 /\ tokens' = tokens
        /\ strikes' = strikes
    BY <1>1, FullIsNat DEF IInv, TypeOK, Send, bucketVars
  <2>2. (unread + 1) * Cost = unread * Cost + Cost /\ unread * Cost \in Nat
    BY <2>1, Multiples
  <2>3. /\ Credit(ReportShare, sinceReport) \in 0..Cost /\ Credit(ReportShare, 0) = 0
        /\ sinceReport >= ReportInterval => Credit(ReportShare, sinceReport) = Cost
    BY Credits, PaceAssumption DEF IInv, TypeOK
  <2>4. /\ Credit(CommitShare, sinceCommit) \in 0..Cost /\ Credit(CommitShare, 0) = 0
        /\ sinceCommit >= CommitInterval => Credit(CommitShare, sinceCommit) = Cost
    BY Credits, PaceAssumption DEF IInv, TypeOK
  <2>5. CASE Report
    <3>1. sinceReport >= ReportInterval /\ sinceReport' = 0 /\ sinceCommit' = sinceCommit
      BY <2>5 DEF Report, Paced
    <3> QED BY <2>0, <2>1, <2>2, <2>3, <2>4, <3>1, RateAssumption DEF Provided
  <2>6. CASE Commit
    <3>1. sinceCommit >= CommitInterval /\ sinceCommit' = 0 /\ sinceReport' = sinceReport
      BY <2>6 DEF Commit, Paced
    <3> QED BY <2>0, <2>1, <2>2, <2>3, <2>4, <3>1, RateAssumption DEF Provided
  <2>7. CASE Act
    BY <1>3, <2>7 DEF Act, Polite, IInv, TypeOK
  <2> QED BY <2>5, <2>6, <2>7
<1>4. excess' = Full - tokens' /\ (reading' => strikes' < MaxStrikes)
  BY <1>1 DEF IInv, bucketVars
<1> QED BY <1>1, <1>3, <1>4 DEF IInv

LEMMA LetThroughKeeps == ASSUME IInv, LetThrough PROVE IInv'
<1>0. /\ tokens \in 0..Full /\ tokens >= Cost /\ Full \in Nat /\ Cost \in Nat
      /\ unread \in Nat /\ unread >= 1 /\ strikes \in 0..MaxStrikes
  BY FullIsNat, RateAssumption DEF IInv, TypeOK, LetThrough, Allows, Read
<1>1. TypeOK' /\ excess' = Full - tokens' /\ unread' <= heldBack'
  <2>1. /\ tokens' = tokens - Cost /\ excess' = excess + Cost /\ unread' = unread - 1
        /\ strikes' = (IF strikes > 0 THEN strikes - 1 ELSE 0)
        /\ UNCHANGED <<sinceReport, sinceCommit, hurried, heldBack, reading>>
    BY DEF LetThrough, Read, Forgiven, clientVars
  <2>2. excess = Full - tokens /\ unread <= heldBack /\ heldBack \in Nat
    BY DEF IInv, TypeOK
  <2>3. /\ tokens' \in 0..Full /\ excess' \in Nat /\ unread' \in Nat
        /\ strikes' \in 0..MaxStrikes
    BY <1>0, <2>1, <2>2, RateAssumption
  <2>4. TypeOK'
    BY <2>1, <2>3 DEF IInv, TypeOK
  <2> QED BY <1>0, <2>1, <2>2, <2>4
<1>2. reading' => strikes' < MaxStrikes
  BY <1>0, RateAssumption DEF IInv, LetThrough, Forgiven
<1>3. ASSUME Polite'
      PROVE  strikes' = 0 /\ Provided'
  <2>1. strikes = 0 /\ Provided
    BY <1>3 DEF IInv, Polite, LetThrough, Read, clientVars
  <2>2. (unread - 1) * Cost = unread * Cost - Cost /\ unread * Cost \in Nat
    BY <1>0, Multiples
  <2>3. Credit(ReportShare, sinceReport) \in 0..Cost /\ Credit(CommitShare, sinceCommit) \in 0..Cost
    BY Credits, PaceAssumption DEF IInv, TypeOK
  <2>4. /\ unread' = unread - 1 /\ tokens' = tokens - Cost
        /\ sinceReport' = sinceReport /\ sinceCommit' = sinceCommit
        /\ strikes' = Forgiven(strikes)
    BY DEF LetThrough, Read, clientVars
  <2>5. Provided'
    BY <1>0, <2>1, <2>2, <2>3, <2>4 DEF Provided
  <2> QED BY <2>1, <2>4, <2>5 DEF Forgiven
<1> QED BY <1>1, <1>2, <1>3 DEF IInv

(* Nothing is refused while the bucket holds what the unread frames cost. *)
LEMMA RefuseKeeps == ASSUME IInv, Refuse PROVE IInv'
<1>0. /\ tokens \in 0..Full /\ tokens < Cost /\ Full \in Nat /\ Cost \in Nat
      /\ unread \in Nat /\ unread >= 1 /\ reading /\ strikes \in 0..MaxStrikes
      /\ strikes < MaxStrikes
  BY FullIsNat, RateAssumption DEF IInv, TypeOK, Refuse, Allows, Read
<1>1. TypeOK' /\ excess' = Full - tokens' /\ unread' <= heldBack'
  BY <1>0, RateAssumption DEF IInv, TypeOK, Refuse, Read, ShouldDisconnect, clientVars, Full
<1>2. reading' => strikes' < MaxStrikes
  <2>1. reading' <=> ~(strikes' >= MaxStrikes)
    BY Zenon DEF Refuse, ShouldDisconnect
  <2>2. strikes' \in Nat
    BY <1>1 DEF TypeOK
  <2> QED BY <2>1, <2>2, RateAssumption
<1>3. ~Polite'
  <2>1. ASSUME Polite PROVE FALSE
    <3>1. Provided
      BY <2>1 DEF IInv
    <3>2. unread * Cost >= Cost /\ unread * Cost \in Nat
      BY <1>0, Multiples
    <3>3. Credit(ReportShare, sinceReport) \in 0..Cost /\ Credit(CommitShare, sinceCommit) \in 0..Cost
      BY Credits, PaceAssumption DEF IInv, TypeOK
    <3> QED BY <1>0, <3>1, <3>2, <3>3 DEF Provided
  <2> QED BY <2>1 DEF Polite, Refuse, Read, clientVars
<1> QED BY <1>1, <1>2, <1>3 DEF IInv

(* A tick refills at least what both streams save up in it. *)
LEMMA TickKeeps == ASSUME IInv, Tick PROVE IInv'
<1>0. /\ tokens \in 0..Full /\ Full \in Nat /\ Cost \in Nat /\ Refill \in Nat
      /\ unread \in Nat /\ excess \in Nat /\ excess = Full - tokens
  BY FullIsNat, RateAssumption DEF IInv, TypeOK
<1>1. TypeOK'
  BY <1>0, PaceAssumption DEF IInv, TypeOK, Tick, Refilled, Older, Full
<1>2. excess' = Full - tokens' /\ unread' <= heldBack' /\ (reading' => strikes' < MaxStrikes)
  BY <1>0 DEF IInv, TypeOK, Tick, Refilled, Full
<1>3. ASSUME Polite'
      PROVE  strikes' = 0 /\ Provided'
  <2>0. Polite
    BY <1>3 DEF Polite, Tick
  <2>1. strikes = 0 /\ Provided /\ strikes' = strikes
    BY <2>0 DEF IInv, Tick
  <2>2. unread <= Burst - 2
    BY <1>0, <2>0, RateAssumption DEF Polite, IInv, TypeOK
  <2>3. unread * Cost \in Nat /\ unread * Cost + 2 * Cost <= Full
    BY <1>0, <2>2, Multiples
  <2>4. /\ Credit(ReportShare, sinceReport) \in 0..Cost
        /\ Credit(ReportShare, sinceReport') \in 0..Cost
        /\ Credit(ReportShare, sinceReport') <= Credit(ReportShare, sinceReport) + ReportShare
    <3>1. sinceReport' = Older(sinceReport, ReportInterval)
      BY DEF Tick
    <3>2. sinceReport \in 0..ReportInterval /\ sinceReport' \in 0..ReportInterval
      BY <1>1 DEF IInv, TypeOK
    <3> QED BY <3>1, <3>2, Credits, PaceAssumption
  <2>5. /\ Credit(CommitShare, sinceCommit) \in 0..Cost
        /\ Credit(CommitShare, sinceCommit') \in 0..Cost
        /\ Credit(CommitShare, sinceCommit') <= Credit(CommitShare, sinceCommit) + CommitShare
    <3>1. sinceCommit' = Older(sinceCommit, CommitInterval)
      BY DEF Tick
    <3>2. sinceCommit \in 0..CommitInterval /\ sinceCommit' \in 0..CommitInterval
      BY <1>1 DEF IInv, TypeOK
    <3> QED BY <3>1, <3>2, Credits, PaceAssumption
  <2>6. unread' = unread /\ tokens' = IF tokens + Refill < Full THEN tokens + Refill ELSE Full
    BY DEF Tick, Refilled
  <2>7. Provided'
    <3>1. tokens' >= unread * Cost + Credit(ReportShare, sinceReport')
                                   + Credit(CommitShare, sinceCommit')
      BY <1>0, <2>1, <2>3, <2>4, <2>5, <2>6, PaceAssumption DEF Provided
    <3> QED BY <2>6, <3>1 DEF Provided
  <2> QED BY <2>1, <2>7
<1> QED BY <1>1, <1>2, <1>3 DEF IInv

(* The bucket, the excess and the wire stay in step, and the bucket of a    *)
(* polite client always holds what it still has to pay for.                 *)
THEOREM BudgetInvariant == Spec => []IInv
<1>1. ASSUME IInv, [Next]_vars
      PROVE  IInv'
  <2>1. CASE Report \/ Commit \/ Act
    BY <1>1, <2>1, SendKeeps DEF Report, Commit, Act
  <2>2. CASE LetThrough
    BY <1>1, <2>2, LetThroughKeeps
  <2>3. CASE Refuse
    BY <1>1, <2>3, RefuseKeeps
  <2>4. CASE Tick
    BY <1>1, <2>4, TickKeeps
  <2>5. CASE UNCHANGED vars
    BY <1>1, <2>5 DEF vars, clientVars, bucketVars, IInv, TypeOK, Polite, Provided, Full
  <2> QED BY <1>1, <2>1, <2>2, <2>3, <2>4, <2>5 DEF Next
<1> QED BY <1>1, Initially, PTL DEF Spec

(* Every reachable state of a connection and its budget is well typed. *)
THEOREM BudgetTypeCorrect == Spec => []TypeOK
<1>1. IInv => TypeOK
  BY DEF IInv
<1> QED BY <1>1, BudgetInvariant, PTL

(* In no stretch of time is more let through than a burst and what the rate *)
(* allows, for every rate and however frames are bunched.                   *)
THEOREM BudgetHolds == Spec => []WindowBudget
<1>1. IInv => WindowBudget
  BY FullIsNat DEF IInv, TypeOK, WindowBudget
<1> QED BY <1>1, BudgetInvariant, PTL

(* Whoever sends in pace and is not held back by the network is never       *)
(* refused, whenever the shares of the two streams fit the rate.            *)
THEOREM PoliteNeverRefused == Spec => []PoliteIsServed
<1>1. IInv => PoliteIsServed
  BY DEF IInv, PoliteIsServed, Polite
<1> QED BY <1>1, BudgetInvariant, PTL

-----------------------------------------------------------------------------
(* Cursors. *)

Post == [kind : {"presence", "left"}, actor : Nat, spot : Spot \cup {NoSpot}]

SessionType ==
  [wire : Seq(Spot), line : {"up", "closed", "lost"}, receiving : BOOLEAN,
   relaying : BOOLEAN, aborted : BOOLEAN, farewell : BOOLEAN,
   queue : Seq(Post), lagged : BOOLEAN]

SessionsTyped == /\ session \in Seq(SessionType)
                 /\ latest \in Seq(Spot \cup {NoSpot}) /\ Len(latest) = Len(session)

QueueSound(queue) ==
  /\ Len(queue) <= Capacity
  /\ \A i \in DOMAIN queue : /\ queue[i].actor \in Connections
                             /\ queue[i].kind = "presence" => queue[i].spot \in Spot

(* A session whose relay ended first is the one an abort takes down. *)
EndsInOrder(s) == /\ s.receiving /\ ~s.relaying => s.aborted
                  /\ s.farewell => ~s.relaying

(* It read its wire to the end, or failed to, before it was announced. *)
Departed(s) == s.farewell /\ ~s.aborted

(* The last message of c on its way to a tab. *)
LastFrom(queue, c, i) == /\ i \in DOMAIN queue /\ queue[i].actor = c
                         /\ \A j \in DOMAIN queue : j > i => queue[j].actor # c

(* It tells of where c is now, or that it has gone. *)
News(c, message) == /\ message.kind = "presence" => message.spot = latest[c]
                    /\ Departed(session[c]) => message.kind = "left"

(* What a tab shows of c, when nothing of c is on its way. *)
Shown(c, seen) == c \in DOMAIN seen => seen[c].spot = latest[c] /\ ~Departed(session[c])

Told(c, queue, seen) ==
  /\ \A i \in DOMAIN queue : LastFrom(queue, c, i) => News(c, queue[i])
  /\ (\A i \in DOMAIN queue : queue[i].actor # c) => Shown(c, seen)

InStep == \A t \in Tab : Listening(t) =>
            \A c \in Connections \ {conn[t]} : Told(c, session[conn[t]].queue, peers[t])

CursorsTyped ==
  /\ conn \in [Tab -> 0..Len(session)] /\ DOMAIN peers = Tab
  /\ \A t \in Tab : /\ DOMAIN peers[t] \subseteq Connections \ {conn[t]}
                    /\ conn[t] = 0 => DOMAIN peers[t] = {}
                    /\ \A c \in DOMAIN peers[t] :
                         peers[t][c] \in [spot : Spot, age : 0..StaleAfter + 1]
  /\ lastSent \in [Tab -> Spot \cup {NoSpot}]

QueuesSound == \A c \in Connections : QueueSound(session[c].queue)
EndingsOrdered == \A c \in Connections : EndsInOrder(session[c])

PresenceIInv == /\ SessionsTyped /\ CursorsTyped
                /\ QueuesSound /\ EndingsOrdered
                /\ InStep

LEMMA SessionFacts ==
  ASSUME SessionsTyped
  PROVE  /\ Len(session) \in Nat /\ Connections = 1..Len(session)
         /\ \A c \in Connections : session[c] \in SessionType /\ latest[c] \in Spot \cup {NoSpot}
  BY DEF SessionsTyped, Connections

LEMMA PresenceTypesHold ==
  ASSUME PresenceIInv
  PROVE  PresenceTypeOK
<1>1. ASSUME NEW c \in Connections
      PROVE  /\ session[c].wire \in Seq(Spot)
             /\ session[c].queue \in Seq(Message) /\ Len(session[c].queue) <= Capacity
  <2>1. session[c] \in SessionType /\ QueueSound(session[c].queue)
    BY SessionFacts DEF PresenceIInv, QueuesSound
  <2>2. PICK queue : queue = session[c].queue
    OBVIOUS
  <2>3. queue \in Seq(Post)
    BY <2>1, <2>2 DEF SessionType
  <2>4. \A i \in 1..Len(queue) : queue[i] \in Message
    <3>1. ASSUME NEW i \in 1..Len(queue)
          PROVE  queue[i] \in Message
      <4>1. queue[i] \in Post
        BY <2>3
      <4>2. queue[i].actor \in Connections
        BY <2>1, <2>2, <2>3 DEF QueueSound
      <4> QED BY <4>1, <4>2 DEF Message, Post
    <3> QED BY <3>1
  <2>5. queue \in Seq(Message)
    BY <2>3, <2>4
  <2> QED BY <2>1, <2>2, <2>5 DEF SessionType, QueueSound
<1> QED BY <1>1 DEF PresenceIInv, CursorsTyped, PresenceTypeOK

(* One session becomes another. *)
LEMMA SessionReplaced ==
  ASSUME SessionsTyped, NEW c \in Connections, NEW s \in SessionType,
         session' = [session EXCEPT ![c] = s], latest' = latest
  PROVE  /\ SessionsTyped' /\ Len(session') = Len(session) /\ Connections' = Connections
         /\ session'[c] = s
         /\ \A k \in Connections : k # c => session'[k] = session[k]
  BY DEF SessionsTyped, Connections

-----------------------------------------------------------------------------
(* Nothing is said: sessions change, but what they still have to say does   *)
(* not; tabs leave, and cursors are dropped.                                *)
Quieter(s, next) ==
  /\ next.relaying /\ ~next.lagged => s.relaying /\ ~s.lagged /\ next.queue = s.queue
  /\ Departed(next) => Departed(s)
  /\ next.queue \in {s.queue, <<>>}
  /\ EndsInOrder(next)

Fades == \A t \in Tab :
           /\ conn'[t] \in {0, conn[t]} /\ DOMAIN peers'[t] \subseteq DOMAIN peers[t]
           /\ \A c \in DOMAIN peers'[t] : peers'[t][c].spot = peers[t][c].spot

Quiet == /\ SessionsTyped' /\ CursorsTyped'
         /\ Connections' = Connections /\ latest' = latest
         /\ \A c \in Connections : Quieter(session[c], session'[c])
         /\ Fades

LEMMA QuietKeeps ==
  ASSUME PresenceIInv, Quiet
  PROVE  PresenceIInv'
<1>1. QueuesSound'
  <2>1. ASSUME NEW c \in Connections
        PROVE  QueueSound(session[c].queue)'
    <3>1. session'[c].queue \in {session[c].queue, <<>>} /\ QueueSound(session[c].queue)
      BY DEF PresenceIInv, QueuesSound, Quiet, Quieter
    <3>2. QueueSound(<<>>)
      BY StaleAssumption DEF QueueSound
    <3> QED BY <3>1, <3>2 DEF QueueSound, Quiet
  <2> QED BY <2>1 DEF QueuesSound, Quiet
<1>2. EndingsOrdered'
  BY DEF EndingsOrdered, Quiet, Quieter
<1>3. InStep'
  <2>1. ASSUME NEW t \in Tab, Listening(t)', NEW c \in Connections' \ {conn'[t]}
        PROVE  Told(c, session[conn[t]].queue, peers[t])'
    <3>1. PICK k : k = conn[t]
      OBVIOUS
    <3>2. conn'[t] = k /\ k # 0 /\ k \in Connections /\ c \in Connections \ {k}
      BY <2>1, <3>1, SessionFacts DEF Quiet, Fades, Listening, PresenceIInv, CursorsTyped
    <3>3. session'[k].relaying /\ ~session'[k].lagged
      BY <2>1, <3>2 DEF Listening
    <3>4. /\ session[k].relaying /\ ~session[k].lagged /\ session'[k].queue = session[k].queue
          /\ Departed(session'[c]) => Departed(session[c])
      BY <3>2, <3>3 DEF Quiet, Quieter
    <3>5. Told(c, session[k].queue, peers[t])
      BY <3>1, <3>2, <3>4 DEF PresenceIInv, InStep, Listening
    <3>6. latest' = latest /\ DOMAIN peers'[t] \subseteq DOMAIN peers[t]
          /\ \A d \in DOMAIN peers'[t] : peers'[t][d].spot = peers[t][d].spot
      BY DEF Quiet, Fades
    <3> QED BY <3>2, <3>4, <3>5, <3>6 DEF Told, Shown, News, LastFrom
  <2> QED BY <2>1 DEF InStep
<1> QED BY <1>1, <1>2, <1>3 DEF PresenceIInv, Quiet

(* A session with other things to read. *)
LEMMA Rewired ==
  ASSUME NEW s, NEW next, EndsInOrder(s), next.receiving => s.receiving,
         next.relaying = s.relaying, next.aborted = s.aborted, next.farewell = s.farewell,
         next.queue = s.queue, next.lagged = s.lagged
  PROVE  Quieter(s, next)
  BY DEF Quieter, EndsInOrder, Departed

(* A step of one session that says nothing. *)
LEMMA QuietSession ==
  ASSUME PresenceIInv, NEW c \in Connections, NEW s \in SessionType,
         session' = [session EXCEPT ![c] = s], latest' = latest,
         Quieter(session[c], s), Fades, CursorsTyped'
  PROVE  PresenceIInv'
<1>1. /\ SessionsTyped' /\ Connections' = Connections /\ session'[c] = s
      /\ \A k \in Connections : k # c => session'[k] = session[k]
  BY SessionReplaced DEF PresenceIInv
<1>2. \A k \in Connections : Quieter(session[k], session'[k])
  BY <1>1 DEF Quieter, PresenceIInv, EndingsOrdered
<1> QED BY <1>1, <1>2, QuietKeeps DEF Quiet

LEMMA SameScreens ==
  ASSUME PresenceIInv, UNCHANGED <<conn, peers>>
  PROVE  Fades
  BY DEF Fades

LEMMA SameCursors ==
  ASSUME PresenceIInv, UNCHANGED <<conn, peers, lastSent>>, Len(session') = Len(session),
         Connections' = Connections
  PROVE  CursorsTyped'
  BY DEF PresenceIInv, CursorsTyped

LEMMA PointerMoveKeeps ==
  ASSUME PresenceIInv, NEW t \in Mover, NEW spot \in Spot, PointerMove(t, spot)
  PROVE  PresenceIInv'
<1>1. PICK c : c = conn[t]
  OBVIOUS
<1>2. c \in Connections /\ t \in Tab /\ session[c] \in SessionType
  BY <1>1, SessionFacts, TabAssumption DEF PointerMove, PresenceIInv, CursorsTyped
<1>3. PICK s : s = IF session[c].receiving THEN [session[c] EXCEPT !.wire = Append(@, spot)]
                   ELSE session[c]
  OBVIOUS
<1>4. s \in SessionType /\ Quieter(session[c], s)
  <2>1. PICK wire : wire = IF session[c].receiving THEN Append(session[c].wire, spot)
                           ELSE session[c].wire
    OBVIOUS
  <2>2. wire \in Seq(Spot)
    BY <1>2, <2>1 DEF SessionType
  <2>3. s = [session[c] EXCEPT !.wire = wire]
    BY <1>2, <1>3, <2>1 DEF SessionType
  <2>4. /\ s \in SessionType /\ s.receiving = session[c].receiving
        /\ s.relaying = session[c].relaying /\ s.aborted = session[c].aborted
        /\ s.farewell = session[c].farewell /\ s.queue = session[c].queue
        /\ s.lagged = session[c].lagged
    BY <1>2, <2>2, <2>3 DEF SessionType
  <2>5. EndsInOrder(session[c])
    BY <1>2 DEF PresenceIInv, EndingsOrdered
  <2> QED BY <2>4, <2>5, Rewired
<1>5. session' = [session EXCEPT ![c] = s]
  <2>1. DOMAIN session = Connections
    BY DEF Connections
  <2>2. session' = IF session[c].receiving
                   THEN [session EXCEPT ![c] = [session[c] EXCEPT !.wire = Append(@, spot)]]
                   ELSE session
    BY <1>1 DEF PointerMove
  <2>3. session = [k \in DOMAIN session |-> session[k]]
    BY DEF PresenceIInv, SessionsTyped
  <2> QED BY <1>2, <1>3, <2>1, <2>2, <2>3
<1>6. UNCHANGED <<conn, peers, latest>> /\ lastSent' = [lastSent EXCEPT ![t] = spot]
  BY DEF PointerMove
<1>7. CursorsTyped'
  <2>1. Len(session') = Len(session) /\ Connections' = Connections
    BY <1>2, <1>4, <1>5, <1>6, SessionReplaced DEF PresenceIInv
  <2> QED BY <1>2, <1>6, <2>1 DEF PresenceIInv, CursorsTyped
<1> QED BY <1>2, <1>4, <1>5, <1>6, <1>7, SameScreens, QuietSession

(* A tab that shuts shows nobody. *)
LEMMA ShutShows ==
  ASSUME PresenceIInv, NEW t \in Tab, Shut(t), Len(session') = Len(session),
         Connections' = Connections
  PROVE  Fades /\ CursorsTyped' /\ latest' = latest
<1>1. /\ conn' = [conn EXCEPT ![t] = 0] /\ peers' = [peers EXCEPT ![t] = Nobody]
      /\ lastSent' = lastSent /\ latest' = latest /\ DOMAIN Nobody = {}
  BY DEF Shut, Nobody
<1>2. DOMAIN conn = Tab /\ DOMAIN peers = Tab /\ Len(session) \in Nat
  BY SessionFacts DEF PresenceIInv, CursorsTyped
<1>3. ASSUME NEW u \in Tab
      PROVE  /\ conn'[u] = IF u = t THEN 0 ELSE conn[u]
             /\ peers'[u] = IF u = t THEN Nobody ELSE peers[u]
  BY <1>1, <1>2
<1> QED BY <1>1, <1>2, <1>3 DEF PresenceIInv, Fades, CursorsTyped

LEMMA LeaveKeeps ==
  ASSUME PresenceIInv, NEW t \in Tab, HangUp(t) \/ LoseNetwork(t)
  PROVE  PresenceIInv'
<1>1. PICK c : c = conn[t]
  OBVIOUS
<1>2. c \in Connections /\ session[c] \in SessionType /\ EndsInOrder(session[c])
  BY <1>1, SessionFacts DEF HangUp, LoseNetwork, PresenceIInv, CursorsTyped, EndingsOrdered
<1>3. \E wire \in Seq(Spot), line \in {"closed", "lost"} :
        session' = [session EXCEPT ![c] = [session[c] EXCEPT !.line = line, !.wire = wire]]
  <2>1. CASE HangUp(t)
    <3>1. session[c].wire \in Seq(Spot)
      BY <1>2 DEF SessionType
    <3>2. [session[c] EXCEPT !.line = "closed", !.wire = session[c].wire]
            = [session[c] EXCEPT !.line = "closed"]
      BY <1>2 DEF SessionType
    <3>3. session' = [session EXCEPT ![c] = [session[c] EXCEPT !.line = "closed"]]
      BY <1>1, <2>1 DEF HangUp
    <3> QED BY <3>1, <3>2, <3>3
  <2>2. CASE LoseNetwork(t)
    <3>1. PICK n \in 0..Len(session[c].wire) :
            session' = [session EXCEPT ![c].line = "lost", ![c].wire = SubSeq(@, 1, n)]
      BY <1>1, <2>2 DEF LoseNetwork
    <3>2. PICK wire : wire = SubSeq(session[c].wire, 1, n)
      OBVIOUS
    <3>3. wire \in Seq(Spot)
      <4>1. session[c].wire \in Seq(Spot)
        BY <1>2 DEF SessionType
      <4> QED BY <3>2, <4>1
    <3>4. session' = [session EXCEPT ![c] = [session[c] EXCEPT !.line = "lost", !.wire = wire]]
      BY <1>2, <3>1, <3>2 DEF Connections, SessionType
    <3> QED BY <3>3, <3>4
  <2> QED BY <2>1, <2>2
<1>4. PICK wire \in Seq(Spot), line \in {"closed", "lost"} :
        session' = [session EXCEPT ![c] = [session[c] EXCEPT !.line = line, !.wire = wire]]
  BY <1>3
<1>5. PICK s : s = [session[c] EXCEPT !.line = line, !.wire = wire]
  OBVIOUS
<1>6. /\ s \in SessionType /\ s.receiving = session[c].receiving
      /\ s.relaying = session[c].relaying /\ s.aborted = session[c].aborted
      /\ s.farewell = session[c].farewell /\ s.queue = session[c].queue
      /\ s.lagged = session[c].lagged
  BY <1>2, <1>5 DEF SessionType
<1>7. Quieter(session[c], s)
  BY <1>2, <1>6, Rewired
<1>8. session' = [session EXCEPT ![c] = s] /\ Shut(t) /\ latest' = latest
  BY <1>4, <1>5 DEF HangUp, LoseNetwork, Shut
<1>9. Fades /\ CursorsTyped'
  <2>1. Len(session') = Len(session) /\ Connections' = Connections
    BY <1>2, <1>6, <1>8, SessionReplaced DEF PresenceIInv
  <2> QED BY <1>8, <2>1, ShutShows
<1> QED BY <1>2, <1>6, <1>7, <1>8, <1>9, QuietSession

(* Steps of tabs and of time. *)
LEMMA UnsaidKeeps ==
  ASSUME PresenceIInv, UNCHANGED <<session, latest>>, Fades, CursorsTyped'
  PROVE  PresenceIInv'
<1>1. SessionsTyped' /\ Connections' = Connections
  BY DEF PresenceIInv, SessionsTyped, Connections
<1>2. \A c \in Connections : Quieter(session[c], session'[c])
  BY DEF Quieter, PresenceIInv, EndingsOrdered
<1> QED BY <1>1, <1>2, QuietKeeps DEF Quiet

LEMMA NoticeCloseKeeps ==
  ASSUME PresenceIInv, NEW t \in Tab, NoticeClose(t)
  PROVE  PresenceIInv'
<1>1. session' = session /\ Shut(t)
  BY DEF NoticeClose
<1>2. Fades /\ CursorsTyped' /\ latest' = latest
  BY <1>1, ShutShows DEF Connections
<1> QED BY <1>1, <1>2, UnsaidKeeps

LEMMA FrameKeeps ==
  ASSUME PresenceIInv, NEW t \in Tab, Frame(t)
  PROVE  PresenceIInv'
<1>1. /\ peers' = [peers EXCEPT ![t] = Restrict(@, DOMAIN @ \ Stale(t))]
      /\ UNCHANGED <<session, conn, lastSent, latest>>
  BY DEF Frame
<1>2. PICK kept : kept = DOMAIN peers[t] \ Stale(t)
  OBVIOUS
<1>3. peers' = [peers EXCEPT ![t] = [c \in kept |-> peers[t][c]]]
  BY <1>1, <1>2 DEF Restrict
<1>4. kept \subseteq DOMAIN peers[t] /\ DOMAIN peers = Tab
  BY <1>2 DEF PresenceIInv, CursorsTyped
<1>5. /\ DOMAIN peers' = Tab
      /\ \A u \in Tab : /\ DOMAIN peers'[u] \subseteq DOMAIN peers[u]
                        /\ \A c \in DOMAIN peers'[u] : peers'[u][c] = peers[u][c]
  BY <1>3, <1>4
<1>6. Connections' = Connections
  BY <1>1 DEF Connections
<1>7. Fades
  BY <1>1, <1>5 DEF Fades
<1>8. CursorsTyped'
  BY <1>1, <1>5, <1>6 DEF PresenceIInv, CursorsTyped
<1> QED BY <1>1, <1>7, <1>8, UnsaidKeeps

LEMMA AgeKeeps ==
  ASSUME PresenceIInv, Age
  PROVE  PresenceIInv'
<1>1. /\ DOMAIN peers' = Tab
      /\ \A t \in Tab : DOMAIN peers'[t] = DOMAIN peers[t]
      /\ \A t \in Tab : \A c \in DOMAIN peers[t] :
           peers'[t][c] = [peers[t][c] EXCEPT !.age = IF @ > StaleAfter THEN @ ELSE @ + 1]
      /\ UNCHANGED <<session, conn, lastSent, latest>>
  BY DEF Age
<1>2. ASSUME NEW t \in Tab, NEW c \in DOMAIN peers[t]
      PROVE  /\ peers'[t][c] \in [spot : Spot, age : 0..StaleAfter + 1]
             /\ peers'[t][c].spot = peers[t][c].spot
  <2>1. PICK p : p = peers[t][c]
    OBVIOUS
  <2>2. p \in [spot : Spot, age : 0..StaleAfter + 1]
    BY <2>1 DEF PresenceIInv, CursorsTyped
  <2>3. peers'[t][c] = [p EXCEPT !.age = IF p.age > StaleAfter THEN p.age ELSE p.age + 1]
    BY <1>1, <2>1
  <2> QED BY <2>1, <2>2, <2>3, StaleAssumption
<1>3. Fades
  BY <1>1, <1>2 DEF Fades
<1>4. CursorsTyped'
  BY <1>1, <1>2 DEF PresenceIInv, CursorsTyped, Connections
<1> QED BY <1>1, <1>3, <1>4, UnsaidKeeps

(* Steps of a session that say nothing. *)
LEMMA ReadingIs ==
  ASSUME PresenceIInv, NEW c \in Connections, NEW next,
         session[c].wire # <<>>,
         next = [session[c] EXCEPT !.wire = Tail(@)]
  PROVE  /\ next \in SessionType /\ Quieter(session[c], next)
         /\ Reading(c) = [session EXCEPT ![c] = next]
<1>1. session[c] \in SessionType /\ EndsInOrder(session[c]) /\ c \in DOMAIN session
  BY SessionFacts DEF PresenceIInv, EndingsOrdered, Connections
<1>2. PICK wire : wire = Tail(session[c].wire)
  OBVIOUS
<1>3. wire \in Seq(Spot) /\ next = [session[c] EXCEPT !.wire = wire]
  <2>1. session[c].wire \in Seq(Spot)
    BY <1>1 DEF SessionType
  <2> QED BY <1>2, <2>1
<1>4. /\ next \in SessionType /\ next.receiving = session[c].receiving
      /\ next.relaying = session[c].relaying /\ next.aborted = session[c].aborted
      /\ next.farewell = session[c].farewell /\ next.queue = session[c].queue
      /\ next.lagged = session[c].lagged
  BY <1>1, <1>3 DEF SessionType
<1>5. Reading(c) = [session EXCEPT ![c] = next]
  BY <1>1 DEF Reading
<1> QED BY <1>1, <1>4, <1>5, Rewired

LEMMA UnreadIs ==
  ASSUME PresenceIInv, NEW c \in Connections, NEW next,
         next = [session[c] EXCEPT !.receiving = FALSE, !.wire = <<>>]
  PROVE  /\ next \in SessionType /\ Quieter(session[c], next)
         /\ Unread(c) = [session EXCEPT ![c] = next]
<1>1. session[c] \in SessionType /\ EndsInOrder(session[c]) /\ c \in DOMAIN session
  BY SessionFacts DEF PresenceIInv, EndingsOrdered, Connections
<1>2. <<>> \in Seq(Spot)
  OBVIOUS
<1>3. /\ next \in SessionType /\ ~next.receiving
      /\ next.relaying = session[c].relaying /\ next.aborted = session[c].aborted
      /\ next.farewell = session[c].farewell /\ next.queue = session[c].queue
      /\ next.lagged = session[c].lagged
  BY <1>1, <1>2 DEF SessionType
<1>4. Unread(c) = [session EXCEPT ![c] = next]
  BY <1>1 DEF Unread
<1> QED BY <1>1, <1>3, <1>4, Rewired

LEMMA SessionKeeps ==
  ASSUME PresenceIInv, NEW c \in Connections, NEW s \in SessionType,
         session' = [session EXCEPT ![c] = s], Quieter(session[c], s),
         UNCHANGED <<conn, peers, lastSent, latest>>
  PROVE  PresenceIInv'
<1>1. Len(session') = Len(session) /\ Connections' = Connections
  BY SessionReplaced DEF PresenceIInv
<1> QED BY <1>1, SameCursors, SameScreens, QuietSession

LEMMA ReceiveKeeps ==
  ASSUME PresenceIInv, NEW c \in Connections, DropFrame(c) \/ EndReceive(c) \/ AbortReceive(c)
  PROVE  PresenceIInv'
<1>1. CASE session' = Reading(c) /\ DropFrame(c)
  <2>1. PICK next : next = [session[c] EXCEPT !.wire = Tail(@)]
    OBVIOUS
  <2>2. session[c].wire # <<>> /\ UNCHANGED <<conn, peers, lastSent, latest>>
    BY <1>1 DEF DropFrame
  <2>3. /\ next \in SessionType /\ Quieter(session[c], next)
        /\ session' = [session EXCEPT ![c] = next]
    BY <1>1, <2>1, <2>2, ReadingIs
  <2> QED BY <2>2, <2>3, SessionKeeps
<1>2. CASE session' = Unread(c)
  <2>1. PICK next : next = [session[c] EXCEPT !.receiving = FALSE, !.wire = <<>>]
    OBVIOUS
  <2>2. UNCHANGED <<conn, peers, lastSent, latest>>
    BY DEF DropFrame, EndReceive, AbortReceive
  <2>3. /\ next \in SessionType /\ Quieter(session[c], next)
        /\ session' = [session EXCEPT ![c] = next]
    BY <1>2, <2>1, UnreadIs
  <2> QED BY <2>2, <2>3, SessionKeeps
<1> QED BY <1>1, <1>2 DEF DropFrame, EndReceive, AbortReceive

LEMMA EndRelayKeeps ==
  ASSUME PresenceIInv, NEW c \in Connections, EndRelay(c)
  PROVE  PresenceIInv'
<1>1. /\ session[c] \in SessionType /\ EndsInOrder(session[c]) /\ c \in DOMAIN session
      /\ session[c].relaying
  BY SessionFacts DEF PresenceIInv, EndingsOrdered, Connections, EndRelay
<1>2. PICK receiving : receiving = session[c].receiving
  OBVIOUS
<1>3. PICK next : next = [session[c] EXCEPT !.relaying = FALSE, !.queue = <<>>, !.aborted = receiving]
  OBVIOUS
<1>4. receiving \in BOOLEAN /\ <<>> \in Seq(Post)
  BY <1>1, <1>2 DEF SessionType
<1>5. /\ next \in SessionType /\ ~next.relaying /\ next.queue = <<>>
      /\ next.aborted = receiving /\ next.receiving = receiving
      /\ next.farewell = session[c].farewell
  BY <1>1, <1>2, <1>3, <1>4 DEF SessionType
<1>6. ~session[c].farewell
  BY <1>1 DEF EndsInOrder
<1>7. Quieter(session[c], next)
  BY <1>5, <1>6 DEF Quieter, EndsInOrder, Departed
<1>8. session' = [session EXCEPT ![c] = next]
  BY <1>1, <1>2, <1>3 DEF EndRelay
<1>9. UNCHANGED <<conn, peers, lastSent, latest>>
  BY DEF EndRelay
<1> QED BY <1>5, <1>7, <1>8, <1>9, SessionKeeps

-----------------------------------------------------------------------------
(* Something is said: a message joins every queue that still counts. *)
Sent(s, next, message) ==
  /\ next.receiving = s.receiving /\ next.relaying = s.relaying
  /\ next.aborted = s.aborted /\ next.farewell = s.farewell
  /\ next.relaying /\ ~next.lagged =>
       s.relaying /\ ~s.lagged /\ next.queue = Append(s.queue, message)
  /\ Len(s.queue) <= Capacity => Len(next.queue) <= Capacity
  /\ next.queue \in {s.queue, <<>>, Append(s.queue, message)}

LEMMA SentIs ==
  ASSUME NEW s \in SessionType, NEW message \in Post, NEW next,
         next = IF ~s.relaying \/ s.lagged THEN s
                ELSE IF Len(s.queue) = Capacity THEN [s EXCEPT !.queue = <<>>, !.lagged = TRUE]
                ELSE [s EXCEPT !.queue = Append(@, message)]
  PROVE  next \in SessionType /\ Sent(s, next, message)
<1>1. s.queue \in Seq(Post) /\ Len(s.queue) \in Nat /\ <<>> \in Seq(Post)
  BY DEF SessionType
<1>2. PICK longer : longer = Append(s.queue, message)
  OBVIOUS
<1>3. longer \in Seq(Post) /\ Len(longer) = Len(s.queue) + 1
  BY <1>1, <1>2
<1>4. CASE ~s.relaying \/ s.lagged
  BY <1>4 DEF Sent
<1>5. CASE s.relaying /\ ~s.lagged /\ Len(s.queue) = Capacity
  <2>1. next = [s EXCEPT !.queue = <<>>, !.lagged = TRUE]
    BY <1>5
  <2>2. /\ next \in SessionType /\ next.receiving = s.receiving /\ next.relaying = s.relaying
        /\ next.aborted = s.aborted /\ next.farewell = s.farewell
        /\ next.lagged = TRUE /\ next.queue = <<>>
    BY <1>1, <2>1 DEF SessionType
  <2> QED BY <2>2, StaleAssumption DEF Sent
<1>6. CASE s.relaying /\ ~s.lagged /\ Len(s.queue) # Capacity
  <2>1. next = [s EXCEPT !.queue = longer]
    BY <1>2, <1>6
  <2>2. /\ next \in SessionType /\ next.receiving = s.receiving /\ next.relaying = s.relaying
        /\ next.aborted = s.aborted /\ next.farewell = s.farewell
        /\ next.lagged = s.lagged /\ next.queue = longer
    BY <1>3, <2>1 DEF SessionType
  <2>3. Len(s.queue) <= Capacity => Len(longer) <= Capacity
    BY <1>1, <1>3, <1>6, StaleAssumption
  <2> QED BY <1>2, <1>6, <2>2, <2>3 DEF Sent
<1> QED BY <1>4, <1>5, <1>6

LEMMA PublishedIs ==
  ASSUME NEW sessions \in Seq(SessionType), NEW message \in Post,
         NEW next, next = Published(sessions, message)
  PROVE  /\ next \in Seq(SessionType) /\ Len(next) = Len(sessions)
         /\ DOMAIN next = DOMAIN sessions
         /\ \A k \in DOMAIN sessions : Sent(sessions[k], next[k], message)
<1>1. PICK n \in Nat : n = Len(sessions) /\ DOMAIN sessions = 1..n
  OBVIOUS
<1>2. /\ DOMAIN next = 1..n
      /\ next = [k \in 1..n |-> next[k]]
  BY <1>1 DEF Published
<1>3. ASSUME NEW k \in 1..n
      PROVE  next[k] \in SessionType /\ Sent(sessions[k], next[k], message)
  <2>1. PICK s : s = sessions[k]
    OBVIOUS
  <2>2. s \in SessionType
    BY <1>1, <2>1
  <2>3. next[k] = IF ~s.relaying \/ s.lagged THEN s
                  ELSE IF Len(s.queue) = Capacity THEN [s EXCEPT !.queue = <<>>, !.lagged = TRUE]
                  ELSE [s EXCEPT !.queue = Append(@, message)]
    BY <1>1, <2>1 DEF Published
  <2> QED BY <2>1, <2>2, <2>3, SentIs
<1>4. next \in [1..n -> SessionType]
  BY <1>2, <1>3
<1>5. next \in Seq(SessionType) /\ Len(next) = n
  BY <1>4
<1> QED BY <1>1, <1>2, <1>3, <1>5

(* The message is the last of its sender to every tab that listens. *)
Spread(c, message) ==
  /\ SessionsTyped' /\ Connections' = Connections
  /\ message \in Post /\ message.actor = c
  /\ message.kind = "presence" => message.spot \in Spot
  /\ \A k \in Connections :
       /\ session'[k].relaying /\ ~session'[k].lagged =>
            /\ session[k].relaying /\ ~session[k].lagged
            /\ session'[k].queue = Append(session[k].queue, message)
       /\ Len(session'[k].queue) <= Capacity
       /\ session'[k].queue \in {session[k].queue, <<>>, Append(session[k].queue, message)}
       /\ EndsInOrder(session'[k])
       /\ k # c => latest'[k] = latest[k] /\ (Departed(session'[k]) => Departed(session[k]))
  /\ News(c, message)'
  /\ UNCHANGED <<conn, peers, lastSent>>

LEMMA SpreadKeeps ==
  ASSUME PresenceIInv, NEW c \in Connections, NEW message, Spread(c, message)
  PROVE  PresenceIInv'
<1>0. /\ Len(session) \in Nat /\ Connections = 1..Len(session)
      /\ \A k \in Connections : session[k].queue \in Seq(Post)
  BY SessionFacts DEF PresenceIInv, SessionType
<1>1. CursorsTyped' /\ EndingsOrdered'
  <2>1. Len(session') = Len(session)
    BY <1>0, SessionFacts DEF Spread, SessionsTyped, Connections
  <2> QED BY <2>1, SameCursors DEF Spread, EndingsOrdered
<1>2. QueuesSound'
  <2>1. ASSUME NEW k \in Connections
        PROVE  QueueSound(session[k].queue)'
    <3>1. PICK queue, next : queue = session[k].queue /\ next = session'[k].queue
      OBVIOUS
    <3>2. /\ queue \in Seq(Post) /\ QueueSound(queue)
          /\ Len(next) <= Capacity /\ next \in {queue, <<>>, Append(queue, message)}
      BY <1>0, <3>1 DEF PresenceIInv, QueuesSound, Spread
    <3>3. message.actor \in Connections /\ (message.kind = "presence" => message.spot \in Spot)
      BY DEF Spread
    <3>4. ASSUME NEW i \in DOMAIN next
          PROVE  next[i].actor \in Connections /\ (next[i].kind = "presence" => next[i].spot \in Spot)
      <4>1. CASE next = queue
        BY <3>2, <3>4, <4>1 DEF QueueSound
      <4>2. CASE next = <<>>
        BY <3>4, <4>2
      <4>3. CASE next = Append(queue, message)
        <5>1. (i \in DOMAIN queue /\ next[i] = queue[i]) \/ next[i] = message
          BY <3>2, <3>4, <4>3
        <5> QED BY <3>2, <3>3, <5>1 DEF QueueSound
      <4> QED BY <3>2, <4>1, <4>2, <4>3
    <3> QED BY <3>1, <3>2, <3>4 DEF QueueSound, Spread
  <2> QED BY <2>1 DEF QueuesSound, Spread
<1>3. InStep'
  <2>1. ASSUME NEW t \in Tab, Listening(t)', NEW d \in Connections' \ {conn'[t]}
        PROVE  Told(d, session[conn[t]].queue, peers[t])'
    <3>1. PICK k, queue, next : k = conn[t] /\ queue = session[k].queue /\ next = session'[k].queue
      OBVIOUS
    <3>2. /\ conn'[t] = k /\ k # 0 /\ k \in Connections /\ d \in Connections \ {k}
          /\ peers' = peers
      BY <1>0, <2>1, <3>1 DEF Spread, Listening, PresenceIInv, CursorsTyped
    <3>3. /\ session[k].relaying /\ ~session[k].lagged /\ next = Append(queue, message)
          /\ queue \in Seq(Post)
      BY <1>0, <2>1, <3>1, <3>2 DEF Spread, Listening
    <3>4. Told(d, queue, peers[t])
      BY <3>1, <3>2, <3>3 DEF PresenceIInv, InStep, Listening
    <3>5. PICK n : n = Len(queue)
      OBVIOUS
    <3>6. /\ n \in Nat /\ DOMAIN queue = 1..n /\ DOMAIN next = 1..n + 1 /\ next[n + 1] = message
          /\ \A i \in 1..n : next[i] = queue[i]
      BY <3>3, <3>5
    <3>7. message.actor = c /\ News(c, message)'
      BY DEF Spread
    <3>8. CASE d = c
      <4>1. \A i : LastFrom(next, d, i) => next[i] = message
        BY <3>6, <3>7, <3>8 DEF LastFrom
      <4>2. ~(\A i \in DOMAIN next : next[i].actor # d)
        BY <3>6, <3>7, <3>8
      <4>3. \A i \in DOMAIN next : LastFrom(next, d, i) => News(d, next[i])'
        BY <3>7, <3>8, <4>1 DEF News
      <4> QED BY <3>1, <3>2, <4>2, <4>3 DEF Told
    <3>9. CASE d # c
      <4>1. ASSUME NEW i \in DOMAIN next, LastFrom(next, d, i)
            PROVE  i \in DOMAIN queue /\ LastFrom(queue, d, i) /\ next[i] = queue[i]
        BY <3>6, <3>7, <3>9, <4>1 DEF LastFrom
      <4>2. latest'[d] = latest[d] /\ (Departed(session'[d]) => Departed(session[d]))
        BY <3>2, <3>9 DEF Spread
      <4>3. \A i \in DOMAIN next : LastFrom(next, d, i) => News(d, next[i])'
        BY <3>4, <4>1, <4>2 DEF Told, News
      <4>4. (\A i \in DOMAIN next : next[i].actor # d) => Shown(d, peers[t])'
        <5>1. (\A i \in DOMAIN next : next[i].actor # d) => \A i \in DOMAIN queue : queue[i].actor # d
          BY <3>6
        <5> QED BY <3>2, <3>4, <4>2, <5>1 DEF Told, Shown
      <4> QED BY <3>1, <3>2, <4>3, <4>4 DEF Told
    <3> QED BY <3>8, <3>9
  <2> QED BY <2>1 DEF InStep
<1> QED BY <1>1, <1>2, <1>3 DEF PresenceIInv, Spread

LEMMA RelayPresenceKeeps ==
  ASSUME PresenceIInv, NEW c \in Connections, RelayPresence(c)
  PROVE  PresenceIInv'
<1>1. PICK next : next = [session[c] EXCEPT !.wire = Tail(@)]
  OBVIOUS
<1>2. PICK spot : spot = Head(session[c].wire)
  OBVIOUS
<1>3. PICK message : message = [kind |-> "presence", actor |-> c, spot |-> spot]
  OBVIOUS
<1>4. /\ session[c].receiving /\ session[c].wire # <<>>
      /\ session' = Published(Reading(c), message)
      /\ latest' = [latest EXCEPT ![c] = spot]
      /\ UNCHANGED <<conn, peers, lastSent>>
  BY <1>2, <1>3 DEF RelayPresence
<1>5. /\ next \in SessionType /\ Quieter(session[c], next)
      /\ Reading(c) = [session EXCEPT ![c] = next]
  BY <1>1, <1>4, ReadingIs
<1>6. /\ Len(session) \in Nat /\ Connections = 1..Len(session) /\ c \in Nat
      /\ session \in Seq(SessionType) /\ session[c] \in SessionType
      /\ EndsInOrder(session[c])
  BY SessionFacts DEF PresenceIInv, SessionsTyped, EndingsOrdered
<1>7. spot \in Spot
  <2>1. session[c].wire \in Seq(Spot)
    BY <1>6 DEF SessionType
  <2> QED BY <1>2, <1>4, <2>1
<1>8. message \in Post /\ message.actor = c /\ message.kind = "presence" /\ message.spot = spot
  BY <1>3, <1>6, <1>7 DEF Post
<1>9. PICK between : between = [session EXCEPT ![c] = next]
  OBVIOUS
<1>10. /\ between \in Seq(SessionType) /\ Len(between) = Len(session)
       /\ DOMAIN between = Connections
       /\ between[c] = next /\ \A k \in Connections : k # c => between[k] = session[k]
  BY <1>5, <1>6, <1>9
<1>11. /\ session' \in Seq(SessionType) /\ Len(session') = Len(session)
       /\ DOMAIN session' = Connections
       /\ \A k \in Connections : Sent(between[k], session'[k], message)
  <2>1. session' = Published(between, message)
    BY <1>4, <1>5, <1>9
  <2> QED BY <1>8, <1>10, <2>1, PublishedIs
<1>12. SessionsTyped' /\ Connections' = Connections
  BY <1>4, <1>7, <1>11 DEF PresenceIInv, SessionsTyped, Connections
<1>13. /\ next.receiving = session[c].receiving /\ next.relaying = session[c].relaying
       /\ next.aborted = session[c].aborted /\ next.farewell = session[c].farewell
       /\ next.queue = session[c].queue /\ next.lagged = session[c].lagged
  BY <1>1, <1>6 DEF SessionType
<1>14. ASSUME NEW k \in Connections
       PROVE  /\ session'[k].relaying /\ ~session'[k].lagged =>
                   /\ session[k].relaying /\ ~session[k].lagged
                   /\ session'[k].queue = Append(session[k].queue, message)
              /\ Len(session'[k].queue) <= Capacity
              /\ session'[k].queue \in {session[k].queue, <<>>, Append(session[k].queue, message)}
              /\ EndsInOrder(session'[k])
              /\ Departed(session'[k]) => Departed(session[k])
  <2>1. /\ between[k].receiving = session[k].receiving /\ between[k].relaying = session[k].relaying
        /\ between[k].aborted = session[k].aborted /\ between[k].farewell = session[k].farewell
        /\ between[k].queue = session[k].queue /\ between[k].lagged = session[k].lagged
    BY <1>10, <1>13
  <2>2. Sent(between[k], session'[k], message)
    BY <1>11
  <2>3. Len(session[k].queue) <= Capacity /\ EndsInOrder(session[k])
    BY DEF PresenceIInv, QueuesSound, QueueSound, EndingsOrdered
  <2> QED BY <2>1, <2>2, <2>3 DEF Sent, EndsInOrder, Departed
<1>15. News(c, message)'
  <2>1. latest'[c] = spot
    BY <1>4, <1>6 DEF PresenceIInv, SessionsTyped
  <2>2. ~Departed(session[c])
    BY <1>4, <1>6 DEF Departed, EndsInOrder
  <2> QED BY <1>8, <1>14, <2>1, <2>2 DEF News
<1>16. \A k \in Connections : k # c => latest'[k] = latest[k]
  BY <1>4
<1>17. Spread(c, message)
  BY <1>4, <1>7, <1>8, <1>12, <1>14, <1>15, <1>16 DEF Spread
<1> QED BY <1>17, SpreadKeeps

LEMMA TearDownKeeps ==
  ASSUME PresenceIInv, NEW c \in Connections, TearDown(c)
  PROVE  PresenceIInv'
<1>1. PICK next : next = [session[c] EXCEPT !.farewell = TRUE, !.relaying = FALSE, !.queue = <<>>]
  OBVIOUS
<1>2. PICK message : message = [kind |-> "left", actor |-> c, spot |-> NoSpot]
  OBVIOUS
<1>3. /\ ~session[c].receiving \/ ~session[c].relaying
      /\ session' = Published([session EXCEPT ![c] = next], message)
      /\ UNCHANGED <<conn, peers, lastSent, latest>>
  <2>1. c \in DOMAIN session
    BY DEF Connections
  <2> QED BY <1>1, <1>2, <2>1 DEF TearDown, Announced
<1>4. /\ Len(session) \in Nat /\ Connections = 1..Len(session) /\ c \in Nat
      /\ session \in Seq(SessionType) /\ session[c] \in SessionType
      /\ EndsInOrder(session[c])
  BY SessionFacts DEF PresenceIInv, SessionsTyped, EndingsOrdered
<1>5. message \in Post /\ message.actor = c /\ message.kind = "left"
  BY <1>2, <1>4 DEF Post
<1>6. /\ next \in SessionType /\ ~next.relaying /\ next.queue = <<>>
      /\ next.receiving = session[c].receiving /\ next.aborted = session[c].aborted
  <2>1. <<>> \in Seq(Post)
    OBVIOUS
  <2> QED BY <1>1, <1>4, <2>1 DEF SessionType
<1>7. PICK between : between = [session EXCEPT ![c] = next]
  OBVIOUS
<1>8. /\ between \in Seq(SessionType) /\ Len(between) = Len(session)
      /\ DOMAIN between = Connections
      /\ between[c] = next /\ \A k \in Connections : k # c => between[k] = session[k]
  BY <1>4, <1>6, <1>7
<1>9. /\ session' \in Seq(SessionType) /\ Len(session') = Len(session)
      /\ DOMAIN session' = Connections
      /\ \A k \in Connections : Sent(between[k], session'[k], message)
  BY <1>3, <1>5, <1>7, <1>8, PublishedIs
<1>10. SessionsTyped' /\ Connections' = Connections
  BY <1>3, <1>9 DEF PresenceIInv, SessionsTyped, Connections
<1>11. ASSUME NEW k \in Connections
       PROVE  /\ session'[k].relaying /\ ~session'[k].lagged =>
                   /\ session[k].relaying /\ ~session[k].lagged
                   /\ session'[k].queue = Append(session[k].queue, message)
              /\ Len(session'[k].queue) <= Capacity
              /\ session'[k].queue \in {session[k].queue, <<>>, Append(session[k].queue, message)}
              /\ EndsInOrder(session'[k])
              /\ k # c => (Departed(session'[k]) => Departed(session[k]))
  <2>1. Sent(between[k], session'[k], message)
    BY <1>9
  <2>2. Len(session[k].queue) <= Capacity /\ EndsInOrder(session[k])
    BY DEF PresenceIInv, QueuesSound, QueueSound, EndingsOrdered
  <2>3. CASE k = c
    <3>1. session'[c] = next
      <4>1. between[c] = next /\ c \in DOMAIN between
        BY <1>8
      <4> QED BY <1>3, <1>6, <1>7, <4>1 DEF Published
    <3>2. EndsInOrder(next)
      BY <1>3, <1>4, <1>6 DEF EndsInOrder
    <3> QED BY <1>6, <2>3, <3>1, <3>2, StaleAssumption
  <2>4. CASE k # c
    <3>1. between[k] = session[k]
      BY <1>8, <2>4
    <3> QED BY <2>1, <2>2, <3>1 DEF Sent, EndsInOrder, Departed
  <2> QED BY <2>3, <2>4
<1>12. News(c, message)'
  BY <1>5 DEF News
<1>13. Spread(c, message)
  BY <1>3, <1>5, <1>10, <1>11, <1>12 DEF Spread
<1> QED BY <1>13, SpreadKeeps

-----------------------------------------------------------------------------
(* A message is heard. *)
LEMMA RelayKeeps ==
  ASSUME PresenceIInv, NEW c \in Connections, Relay(c)
  PROVE  PresenceIInv'
<1>1. PICK queue, message, rest :
        queue = session[c].queue /\ message = Head(queue) /\ rest = Tail(queue)
  OBVIOUS
<1>2. PICK next : next = [session[c] EXCEPT !.queue = rest]
  OBVIOUS
<1>3. /\ session[c].relaying /\ queue # <<>>
      /\ session' = [session EXCEPT ![c] = next]
      /\ peers' = [t \in Tab |-> IF conn[t] = c /\ Concerns(c, message)
                                 THEN Heard(peers[t], message) ELSE peers[t]]
      /\ UNCHANGED <<conn, lastSent, latest>>
  <2>1. c \in DOMAIN session
    BY DEF Connections
  <2> QED BY <1>1, <1>2, <2>1 DEF Relay
<1>4. /\ Len(session) \in Nat /\ Connections = 1..Len(session)
      /\ session[c] \in SessionType /\ queue \in Seq(Post)
      /\ QueueSound(queue) /\ EndsInOrder(session[c])
  BY <1>1, SessionFacts DEF PresenceIInv, SessionType, QueuesSound, EndingsOrdered
<1>5. PICK n \in Nat : n = Len(rest)
  <2>1. rest \in Seq(Post)
    BY <1>1, <1>3, <1>4, SMTT(20)
  <2> QED BY <2>1
<1>6. /\ rest \in Seq(Post) /\ message \in Post
      /\ DOMAIN queue = 1..n + 1 /\ DOMAIN rest = 1..n /\ Len(queue) = n + 1
      /\ message = queue[1] /\ \A i \in 1..n : rest[i] = queue[i + 1]
  BY <1>1, <1>3, <1>4, <1>5
<1>7. /\ next \in SessionType /\ next.queue = rest /\ next.receiving = session[c].receiving
      /\ next.relaying = session[c].relaying /\ next.aborted = session[c].aborted
      /\ next.farewell = session[c].farewell /\ next.lagged = session[c].lagged
  BY <1>2, <1>4, <1>6 DEF SessionType
<1>8. /\ SessionsTyped' /\ Len(session') = Len(session) /\ Connections' = Connections
      /\ session'[c] = next
      /\ \A k \in Connections : k # c => session'[k] = session[k]
  BY <1>3, <1>7, SessionReplaced DEF PresenceIInv
<1>9. message.actor \in Connections /\ (message.kind = "presence" => message.spot \in Spot)
      /\ message.kind \in {"presence", "left"}
  <2>1. 1 \in DOMAIN queue
    BY <1>6
  <2> QED BY <1>4, <1>6, <2>1 DEF QueueSound, Post
<1>10. ASSUME NEW t \in Tab, conn[t] = c, message.actor # c
       PROVE  peers'[t] = Heard(peers[t], message)
  BY <1>3, <1>10 DEF Concerns
<1>11. ASSUME NEW t \in Tab, conn[t] # c \/ message.actor = c
       PROVE  peers'[t] = peers[t]
  BY <1>3, <1>11 DEF Concerns
<1>12. ASSUME NEW t \in Tab, conn[t] = c, message.actor # c
       PROVE  /\ message.kind = "left" => DOMAIN peers'[t] = DOMAIN peers[t] \ {message.actor}
              /\ message.kind = "presence" =>
                   /\ DOMAIN peers'[t] = DOMAIN peers[t] \cup {message.actor}
                   /\ peers'[t][message.actor] = [spot |-> message.spot, age |-> 0]
              /\ \A d \in DOMAIN peers'[t] : d # message.actor =>
                   d \in DOMAIN peers[t] /\ peers'[t][d] = peers[t][d]
  <2>1. CASE message.kind = "left"
    <3>1. peers'[t] = [d \in DOMAIN peers[t] \ {message.actor} |-> peers[t][d]]
      <4>1. DOMAIN peers[t] \cap (DOMAIN peers[t] \ {message.actor}) = DOMAIN peers[t] \ {message.actor}
        OBVIOUS
      <4> QED BY <1>10, <1>12, <2>1, <4>1 DEF Heard, Restrict
    <3> QED BY <2>1, <3>1
  <2>2. CASE message.kind = "presence"
    <3>1. peers'[t] = [d \in DOMAIN peers[t] \cup {message.actor} |->
                         IF d = message.actor THEN [spot |-> message.spot, age |-> 0] ELSE peers[t][d]]
      BY <1>10, <1>12, <2>2 DEF Heard
    <3> QED BY <2>2, <3>1
  <2> QED BY <1>9, <2>1, <2>2
<1>13. CursorsTyped'
  <2>1. ASSUME NEW t \in Tab
        PROVE  /\ DOMAIN peers'[t] \subseteq Connections \ {conn[t]}
               /\ conn[t] = 0 => DOMAIN peers'[t] = {}
               /\ \A d \in DOMAIN peers'[t] : peers'[t][d] \in [spot : Spot, age : 0..StaleAfter + 1]
    <3>1. /\ DOMAIN peers[t] \subseteq Connections \ {conn[t]}
          /\ conn[t] = 0 => DOMAIN peers[t] = {}
          /\ \A d \in DOMAIN peers[t] : peers[t][d] \in [spot : Spot, age : 0..StaleAfter + 1]
      BY DEF PresenceIInv, CursorsTyped
    <3>2. CASE conn[t] # c \/ message.actor = c
      BY <1>11, <3>1, <3>2
    <3>3. CASE conn[t] = c /\ message.actor # c
      <4>1. c # 0
        BY <1>4
      <4>2. message.kind = "presence" =>
              [spot |-> message.spot, age |-> 0] \in [spot : Spot, age : 0..StaleAfter + 1]
        BY <1>9, StaleAssumption
      <4> QED BY <1>9, <1>12, <3>1, <3>3, <4>1, <4>2
    <3> QED BY <3>2, <3>3
  <2>2. DOMAIN peers' = Tab
    BY <1>3
  <2> QED BY <1>3, <1>8, <2>1, <2>2 DEF PresenceIInv, CursorsTyped
<1>14. QueuesSound'
  <2>1. QueueSound(rest)
    <3>1. Len(rest) <= Capacity
      BY <1>4, <1>5, <1>6, StaleAssumption DEF QueueSound
    <3>2. \A i \in 1..n : i + 1 \in DOMAIN queue /\ rest[i] = queue[i + 1]
      BY <1>6
    <3> QED BY <1>4, <1>6, <3>1, <3>2 DEF QueueSound
  <2>2. \A k \in Connections : QueueSound(session'[k].queue)
    BY <1>7, <1>8, <2>1 DEF PresenceIInv, QueuesSound
  <2> QED BY <1>8, <2>2 DEF QueuesSound, QueueSound
<1>15. EndingsOrdered'
  BY <1>4, <1>7, <1>8 DEF PresenceIInv, EndingsOrdered, EndsInOrder
<1>16. \A d \in Connections : Departed(session'[d]) <=> Departed(session[d])
  BY <1>7, <1>8 DEF Departed
<1>17. InStep'
  <2>1. ASSUME NEW t \in Tab, Listening(t)', NEW d \in Connections' \ {conn'[t]}
        PROVE  Told(d, session[conn[t]].queue, peers[t])'
    <3>1. PICK k : k = conn[t]
      OBVIOUS
    <3>2. /\ conn'[t] = k /\ k # 0 /\ k \in Connections /\ d \in Connections \ {k}
          /\ latest' = latest
      BY <1>3, <1>4, <1>8, <2>1, <3>1 DEF Listening, PresenceIInv, CursorsTyped
    <3>3. Listening(t) /\ Told(d, session[k].queue, peers[t])
      <4>1. Listening(t)
        BY <1>7, <1>8, <2>1, <3>1, <3>2 DEF Listening
      <4> QED BY <3>1, <3>2, <4>1 DEF PresenceIInv, InStep
    <3>4. CASE k # c
      BY <1>8, <1>11, <1>16, <3>1, <3>2, <3>3, <3>4 DEF Told, News, Shown, LastFrom
    <3>5. CASE k = c
      <4>1. Told(d, queue, peers[t]) /\ session'[k].queue = rest
        BY <1>1, <1>7, <1>8, <3>3, <3>5
      <4>2. ASSUME NEW i \in 1..n, LastFrom(rest, d, i)
            PROVE  LastFrom(queue, d, i + 1) /\ rest[i] = queue[i + 1] /\ i + 1 \in DOMAIN queue
        <5>1. ASSUME NEW j \in 1..n + 1, j > i + 1
              PROVE  queue[j].actor # d
          <6>1. j - 1 \in 1..n /\ j - 1 > i /\ (j - 1) + 1 = j
            BY <1>6, <5>1
          <6> QED BY <1>6, <4>2, <6>1 DEF LastFrom
        <5>2. i + 1 \in 1..n + 1 /\ queue[i + 1].actor = d
          BY <1>6, <4>2 DEF LastFrom
        <5> QED BY <1>6, <5>1, <5>2 DEF LastFrom
      <4>3. \A i \in DOMAIN rest : LastFrom(rest, d, i) => News(d, rest[i])'
        BY <1>6, <1>16, <3>2, <4>1, <4>2 DEF Told, News
      <4>4. ASSUME \A i \in DOMAIN rest : rest[i].actor # d
            PROVE  Shown(d, peers[t])'
        <5>1. ASSUME NEW j \in 1..n + 1, j > 1
              PROVE  queue[j].actor # d
          <6>1. j - 1 \in 1..n /\ (j - 1) + 1 = j
            BY <1>6, <5>1
          <6> QED BY <1>6, <4>4, <6>1
        <5>2. CASE message.actor = d
          <6>1. LastFrom(queue, d, 1) /\ 1 \in DOMAIN queue
            BY <1>6, <5>1, <5>2 DEF LastFrom
          <6>2. News(d, message)
            BY <1>6, <4>1, <6>1 DEF Told
          <6>3. d # c /\ conn[t] = c
            BY <3>1, <3>2, <3>5
          <6>4. CASE message.kind = "left"
            BY <1>12, <5>2, <6>3, <6>4 DEF Shown
          <6>5. CASE message.kind = "presence"
            <7>1. ~Departed(session'[d])
              BY <1>16, <3>2, <6>2, <6>5 DEF News
            <7>2. peers'[t][d].spot = latest'[d]
              BY <1>12, <3>2, <5>2, <6>2, <6>3, <6>5 DEF News
            <7> QED BY <7>1, <7>2 DEF Shown
          <6> QED BY <1>9, <6>4, <6>5
        <5>3. CASE message.actor # d
          <6>1. \A i \in DOMAIN queue : queue[i].actor # d
            BY <1>6, <5>1, <5>3
          <6>2. Shown(d, peers[t])
            BY <4>1, <6>1 DEF Told
          <6>3. d \in DOMAIN peers'[t] => d \in DOMAIN peers[t] /\ peers'[t][d] = peers[t][d]
            BY <1>11, <1>12, <3>1, <3>5, <5>3
          <6> QED BY <1>16, <3>2, <6>2, <6>3 DEF Shown
        <5> QED BY <5>2, <5>3
      <4> QED BY <3>2, <4>1, <4>3, <4>4 DEF Told
    <3> QED BY <3>4, <3>5
  <2> QED BY <2>1 DEF InStep
<1> QED BY <1>8, <1>13, <1>14, <1>15, <1>17 DEF PresenceIInv

-----------------------------------------------------------------------------
LEMMA JoinKeeps ==
  ASSUME PresenceIInv, NEW t \in Tab, Join(t)
  PROVE  PresenceIInv'
<1>0. PICK fresh :
        fresh = [wire |-> <<>>, line |-> "up", receiving |-> TRUE, relaying |-> TRUE,
                 aborted |-> FALSE, farewell |-> FALSE, queue |-> <<>>, lagged |-> FALSE]
  OBVIOUS
<1>1. PICK n \in Nat : n = Len(session)
  BY SessionFacts DEF PresenceIInv
<1>2. /\ conn[t] = 0 /\ conn' = [conn EXCEPT ![t] = n + 1]
      /\ session' = Append(session, fresh) /\ latest' = Append(latest, NoSpot)
      /\ UNCHANGED <<peers, lastSent>>
  BY <1>0, <1>1 DEF Join
<1>3. fresh \in SessionType /\ fresh.queue = <<>> /\ EndsInOrder(fresh) /\ ~fresh.farewell
  <2>1. <<>> \in Seq(Spot) /\ <<>> \in Seq(Post)
    OBVIOUS
  <2> QED BY <1>0, <1>1, <2>1 DEF SessionType, EndsInOrder
<1>4. /\ SessionsTyped' /\ Len(session') = n + 1 /\ session'[n + 1] = fresh
      /\ \A c \in 1..n : session'[c] = session[c] /\ latest'[c] = latest[c]
      /\ Connections = 1..n /\ Connections' = 1..n + 1
  BY <1>0, <1>1, <1>2, <1>3 DEF PresenceIInv, SessionsTyped, Connections
<1>5. DOMAIN peers[t] = {} /\ DOMAIN conn = Tab /\ \A u \in Tab : conn[u] \in 0..n
  BY <1>0, <1>1, <1>2 DEF PresenceIInv, CursorsTyped
<1>6. CursorsTyped'
  <2>1. ASSUME NEW u \in Tab
        PROVE  /\ conn'[u] \in 0..n + 1 /\ DOMAIN peers[u] \subseteq Connections' \ {conn'[u]}
               /\ conn'[u] = 0 => DOMAIN peers[u] = {}
    <3>1. DOMAIN peers[u] \subseteq Connections \ {conn[u]} /\ (conn[u] = 0 => DOMAIN peers[u] = {})
      BY DEF PresenceIInv, CursorsTyped
    <3>2. conn'[u] = IF u = t THEN n + 1 ELSE conn[u]
      BY <1>2, <1>5
    <3> QED BY <1>4, <1>5, <3>1, <3>2
  <2>2. conn' \in [Tab -> 0..n + 1]
    BY <1>2, <1>5, <2>1 DEF PresenceIInv, CursorsTyped
  <2> QED BY <1>2, <1>4, <2>1, <2>2 DEF PresenceIInv, CursorsTyped
<1>7. ASSUME NEW c \in 1..n + 1
      PROVE  QueueSound(session[c].queue)' /\ EndsInOrder(session'[c])
  <2>1. CASE c = n + 1
    BY <1>3, <1>4, <2>1, StaleAssumption DEF QueueSound
  <2>2. CASE c # n + 1
    <3>1. c \in 1..n
      BY <2>2
    <3>2. QueueSound(session[c].queue) /\ EndsInOrder(session[c]) /\ session'[c] = session[c]
      BY <1>4, <3>1 DEF PresenceIInv, QueuesSound, EndingsOrdered
    <3> QED BY <1>4, <3>2 DEF QueueSound
  <2> QED BY <2>1, <2>2
<1>8. InStep'
  <2>1. ASSUME NEW u \in Tab, Listening(u)', NEW d \in Connections' \ {conn'[u]}
        PROVE  Told(d, session[conn[u]].queue, peers[u])'
    <3>1. d \in 1..n + 1 /\ peers' = peers
      BY <1>2, <1>4
    <3>2. CASE u = t
      <4>1. conn'[u] = n + 1 /\ session'[n + 1].queue = <<>> /\ DOMAIN peers'[u] = {}
        BY <1>2, <1>3, <1>4, <1>5, <3>2
      <4> QED BY <4>1 DEF Told, Shown
    <3>3. CASE u # t
      <4>1. PICK k : k = conn[u]
        OBVIOUS
      <4>2. conn'[u] = k /\ k \in 1..n /\ session'[k] = session[k]
        <5>1. conn'[u] = k
          BY <1>2, <3>3, <4>1
        <5>2. k # 0
          BY <2>1, <5>1 DEF Listening
        <5> QED BY <1>4, <1>5, <4>1, <5>1, <5>2
      <4>3. Listening(u) /\ d # k
        BY <2>1, <4>1, <4>2 DEF Listening
      <4>4. CASE d \in 1..n
        <5>1. Told(d, session[k].queue, peers[u])
          BY <1>4, <4>1, <4>3, <4>4 DEF PresenceIInv, InStep
        <5> QED BY <1>4, <3>1, <4>2, <4>4, <5>1 DEF Told, News, Shown, LastFrom
      <4>5. CASE d = n + 1
        <5>1. \A i \in DOMAIN session[k].queue : session[k].queue[i].actor \in 1..n
          BY <1>4, <4>2 DEF PresenceIInv, QueuesSound, QueueSound
        <5>2. DOMAIN peers[u] \subseteq 1..n
          BY <1>4 DEF PresenceIInv, CursorsTyped
        <5>3. d \notin 1..n
          BY <4>5
        <5> QED BY <3>1, <4>2, <5>1, <5>2, <5>3 DEF Told, Shown, LastFrom
      <4> QED BY <3>1, <4>4, <4>5
    <3> QED BY <3>2, <3>3
  <2> QED BY <2>1 DEF InStep
<1> QED BY <1>4, <1>6, <1>7, <1>8 DEF PresenceIInv, QueuesSound, EndingsOrdered

LEMMA PresenceStarts == PresenceInit => PresenceIInv
<1> SUFFICES ASSUME PresenceInit PROVE PresenceIInv
  OBVIOUS
<1>1. /\ session = <<>> /\ latest = <<>> /\ Len(session) = 0 /\ Connections = {}
      /\ <<>> \in Seq(SessionType) /\ <<>> \in Seq(Spot \cup {NoSpot})
  BY DEF PresenceInit, Connections
<1>2. /\ conn = [t \in Tab |-> 0] /\ DOMAIN peers = Tab
      /\ \A t \in Tab : DOMAIN peers[t] = {}
      /\ lastSent = [t \in Tab |-> NoSpot]
  BY DEF PresenceInit, Nobody
<1>3. SessionsTyped /\ QueuesSound /\ EndingsOrdered /\ InStep
  BY <1>1 DEF SessionsTyped, QueuesSound, EndingsOrdered, InStep
<1>4. CursorsTyped
  BY <1>1, <1>2 DEF CursorsTyped
<1> QED BY <1>3, <1>4 DEF PresenceIInv

(* What a listening tab shows of a connection, and what is on its way to it *)
(* of that connection, never drift apart.                                   *)
THEOREM PresenceInvariant == PresenceSpec => []PresenceIInv
<1>1. ASSUME PresenceIInv, [PresenceNext]_presenceVars
      PROVE  PresenceIInv'
  <2>1. ASSUME NEW t \in Tab, TabStep(t)
        PROVE  PresenceIInv'
    BY <1>1, <2>1, JoinKeeps, LeaveKeeps, NoticeCloseKeeps, FrameKeeps DEF TabStep
  <2>2. ASSUME NEW t \in Mover, NEW spot \in Spot, PointerMove(t, spot)
        PROVE  PresenceIInv'
    BY <1>1, <2>2, PointerMoveKeeps
  <2>3. ASSUME NEW c \in Connections, SessionStep(c)
        PROVE  PresenceIInv'
    BY <1>1, <2>3, RelayPresenceKeeps, ReceiveKeeps, RelayKeeps, EndRelayKeeps, TearDownKeeps
       DEF SessionStep, Reads
  <2>4. CASE Age
    BY <1>1, <2>4, AgeKeeps
  <2>5. CASE UNCHANGED presenceVars
    <3>1. /\ UNCHANGED <<session, conn, peers, lastSent, latest>>
          /\ Len(session') = Len(session) /\ Connections' = Connections
      BY <2>5 DEF presenceVars, Connections
    <3> QED BY <1>1, <3>1, SameScreens, SameCursors, UnsaidKeeps
  <2> QED BY <1>1, <2>1, <2>2, <2>3, <2>4, <2>5 DEF PresenceNext
<1> QED BY <1>1, PresenceStarts, PTL DEF PresenceSpec

(* Every reachable state of the tabs, sessions and queues is well typed, no *)
(* queue is longer than the channel's capacity, and a tab never shows its   *)
(* own cursor nor, while its socket is shut, any.                           *)
THEOREM PresenceTypeCorrect == PresenceSpec => []PresenceTypeOK
<1> QED BY PresenceInvariant, PresenceTypesHold, PTL

(* A session that announced its end after reading its wire is on no screen  *)
(* that has heard the announcement: no late report brings it back (teardown *)
(* of session(), main.rs).                                                  *)
THEOREM DeparturesAreClean == PresenceSpec => []CleanDeparture
<1>1. ASSUME PresenceIInv
      PROVE  CleanDeparture
  <2>1. SUFFICES ASSUME NEW t \in Tab, NEW c \in Connections,
                        Listening(t), Departed(session[c]),
                        \A i \in DOMAIN session[conn[t]].queue : session[conn[t]].queue[i].actor # c
                 PROVE  c \notin DOMAIN peers[t]
    BY DEF CleanDeparture, Departed
  <2>2. DOMAIN peers[t] \subseteq Connections \ {conn[t]}
    BY <1>1 DEF PresenceIInv, CursorsTyped
  <2>3. CASE c = conn[t]
    BY <2>2, <2>3
  <2>4. CASE c # conn[t]
    <3>1. Told(c, session[conn[t]].queue, peers[t])
      BY <1>1, <2>1, <2>4 DEF PresenceIInv, InStep
    <3> QED BY <2>1, <3>1 DEF Told, Shown
  <2> QED BY <2>3, <2>4
<1> QED BY <1>1, PresenceInvariant, PTL

(* A tab that has heard everything shows each cursor where its owner last   *)
(* pointed, however reports, departures and overruns interleaved.           *)
THEOREM CursorsSettle == PresenceSpec => []SettledCursors
<1>1. ASSUME PresenceIInv
      PROVE  SettledCursors
  <2>1. SUFFICES ASSUME NEW t \in Tab, NEW c \in Connections,
                        Listening(t), session[conn[t]].queue = <<>>, c \in DOMAIN peers[t]
                 PROVE  peers[t][c].spot = latest[c]
    BY DEF SettledCursors
  <2>2. c # conn[t]
    BY <1>1, <2>1 DEF PresenceIInv, CursorsTyped
  <2>3. Told(c, session[conn[t]].queue, peers[t])
    BY <1>1, <2>1, <2>2 DEF PresenceIInv, InStep
  <2>4. \A i \in DOMAIN session[conn[t]].queue : session[conn[t]].queue[i].actor # c
    BY <2>1
  <2> QED BY <2>1, <2>3, <2>4 DEF Told, Shown
<1> QED BY <1>1, PresenceInvariant, PTL
=============================================================================
