------------------------------ MODULE Limiter -------------------------------
(***************************************************************************)
(* One connection and its rate budget: a user who draws and points as fast *)
(* as the client will emit (web/app.js, web/presence.js), a network that   *)
(* delivers when it likes, and the token bucket of the session that reads  *)
(* the frames (RateLimiter, crates/kboard-server/src/limits.rs).           *)
(*                                                                         *)
(* Time is counted in ticks and tokens in parts, Cost of them to a frame.  *)
(* The code refills a bucket when it is asked, by the time since it was    *)
(* last asked; refilling at every tick comes to the same, since both stop  *)
(* at the burst.                                                           *)
(***************************************************************************)
EXTENDS Integers

CONSTANTS Burst,           \* RATE_BURST
          Refill,          \* RATE_PER_SECOND, in parts per tick
          Cost,            \* parts to a frame
          MaxStrikes,      \* MAX_RATE_STRIKES
          ReportInterval,  \* REPORT_INTERVAL_MS, in ticks
          CommitInterval,  \* COMMIT_INTERVAL_MS, in ticks
          ReportShare,     \* of the refill, what the cursor may use
          CommitShare,     \* of the refill, what drags may use
          WireRoom,        \* bound: frames sent and not yet read
          MaxActs          \* bound: frames sent out of pace

ASSUME RateAssumption ==
  /\ Burst \in Nat \ {0} /\ Refill \in Nat \ {0}
  /\ Cost \in Nat \ {0} /\ MaxStrikes \in Nat \ {0}

(* The budget has room for both streams (limits.rs:29-33).                  *)
ASSUME PaceAssumption ==
  /\ ReportInterval \in Nat \ {0} /\ CommitInterval \in Nat \ {0}
  /\ ReportShare \in Nat /\ ReportShare * ReportInterval >= Cost
  /\ CommitShare \in Nat /\ CommitShare * CommitInterval >= Cost
  /\ ReportShare + CommitShare <= Refill

VARIABLES
  sinceReport,  \* ticks since Presence.lastReport
  sinceCommit,  \* ticks since the gesture's lastCommit
  unread,       \* frames on the wire
  reading,      \* the receiving task runs
  tokens,       \* RateLimiter.tokens, in parts
  strikes,      \* RateLimiter.strikes
  excess,       \* history: see WindowBudget
  hurried,      \* history: frames sent out of pace
  heldBack      \* history: the most frames that were unread at once

clientVars == <<sinceReport, sinceCommit, hurried>>
bucketVars == <<tokens, strikes, excess>>
vars == <<clientVars, unread, heldBack, reading, bucketVars>>

Full == Burst * Cost

(* RateLimiter::new, with both intervals of the client long past. *)
Init == /\ sinceReport = ReportInterval /\ sinceCommit = CommitInterval
        /\ unread = 0 /\ heldBack = 0 /\ hurried = 0
        /\ reading = TRUE
        /\ tokens = Full /\ strikes = 0
        /\ excess = 0

-----------------------------------------------------------------------------
Send == /\ unread < WireRoom
        /\ unread' = unread + 1
        /\ heldBack' = IF unread + 1 > heldBack THEN unread + 1 ELSE heldBack
        /\ UNCHANGED <<reading, bucketVars>>

(* Slip: both streams at twice their pace. *)
PacedTwice(since, interval) == since >= interval \div 2

(* At least an interval has passed. *)
Paced(since, interval) == since >= interval

(* reportCursor, of a pointer that keeps moving. *)
Report == /\ Paced(sinceReport, ReportInterval)
          /\ Send
          /\ sinceReport' = 0
          /\ UNCHANGED <<sinceCommit, hurried>>

(* A pointermove of a drag commits its geometry. *)
Commit == /\ Paced(sinceCommit, CommitInterval)
          /\ Send
          /\ sinceCommit' = 0
          /\ UNCHANGED <<sinceReport, hurried>>

(* Keys, buttons and the end of a drag flush at once. *)
Act == /\ hurried < MaxActs
       /\ Send
       /\ hurried' = hurried + 1
       /\ UNCHANGED <<sinceReport, sinceCommit>>

-----------------------------------------------------------------------------
Read == /\ reading /\ unread > 0
        /\ unread' = unread - 1
        /\ UNCHANGED <<clientVars, heldBack>>

(* u32::saturating_sub(1) *)
Forgiven(count) == IF count > 0 THEN count - 1 ELSE 0

Allows == tokens >= Cost

(* allow() charges the frame. *)
LetThrough == /\ Allows
              /\ Read
              /\ tokens' = tokens - Cost
              /\ strikes' = Forgiven(strikes)
              /\ excess' = excess + Cost
              /\ UNCHANGED reading

(* should_disconnect *)
ShouldDisconnect(count) == count >= MaxStrikes

(* allow() refuses the frame: it is dropped, and too many end the session. *)
Refuse == /\ ~Allows
          /\ Read
          /\ strikes' = strikes + 1
          /\ reading' = ~ShouldDisconnect(strikes + 1)
          /\ UNCHANGED <<tokens, excess>>

(* Slip: a quiet client saves up more than a burst. *)
RefilledUncapped(level) == level + Refill

Refilled(level) == IF level + Refill < Full THEN level + Refill ELSE Full

Older(age, limit) == IF age < limit THEN age + 1 ELSE limit

Tick == /\ reading
        /\ tokens' = Refilled(tokens)
        /\ sinceReport' = Older(sinceReport, ReportInterval)
        /\ sinceCommit' = Older(sinceCommit, CommitInterval)
        /\ excess' = IF excess > Refill THEN excess - Refill ELSE 0
        /\ UNCHANGED <<unread, heldBack, hurried, reading, strikes>>

Next == Report \/ Commit \/ Act \/ LetThrough \/ Refuse \/ Tick

Spec == Init /\ [][Next]_vars

-----------------------------------------------------------------------------
(* Every variable stays in its range; the bucket holds neither less than    *)
(* nothing nor more than a burst, and strikes stop at the limit.            *)
TypeOK == /\ sinceReport \in 0..ReportInterval
          /\ sinceCommit \in 0..CommitInterval
          /\ unread \in Nat /\ heldBack \in Nat /\ hurried \in Nat
          /\ reading \in BOOLEAN
          /\ tokens \in 0..Full
          /\ strikes \in 0..MaxStrikes
          /\ excess \in Nat

(* However the network bunches the frames of a client, those let through in *)
(* any stretch of time are at most a burst and what the rate allows for its *)
(* length (limits.rs:27-35).  excess is the most by which any stretch that  *)
(* ends now exceeds the rate, in parts.                                     *)
WindowBudget == excess <= Full

(* A user who draws and points as fast as the client will emit is never     *)
(* refused a frame while the network holds back at most a burst less two,   *)
(* one for each stream (limits.rs:29-33).                                   *)
PoliteIsServed == hurried = 0 /\ heldBack <= Burst - 2 => strikes = 0
=============================================================================
