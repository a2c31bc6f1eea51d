-------------------------------- MODULE Hlc --------------------------------
(***************************************************************************)
(* Hybrid logical clock stamps and the generator every board owns one of:  *)
(* crates/kboard-core/src/clock.rs.  A stamp orders two writes to the same *)
(* property; the generator is advanced by local edits (Tick) and by what   *)
(* arrives from peers (Observe).  This module is constant-level: the       *)
(* generator's single field `last` is a variable of the modules that use   *)
(* it.                                                                     *)
(***************************************************************************)
EXTENDS Integers

CONSTANT MaxCounter      \* u32::MAX in the code; small in a model

ASSUME MaxCounterAssumption == MaxCounter \in Nat

(* Actors are numbers because the order compares them. *)
ActorId == Nat

Stamp == [wall : Nat, counter : 0..MaxCounter, actor : ActorId]

(* The order of Hlc: wall, then counter, then actor. *)
Before(s, t) ==
  \/ s.wall < t.wall
  \/ s.wall = t.wall /\ s.counter < t.counter
  \/ s.wall = t.wall /\ s.counter = t.counter /\ s.actor < t.actor

AtMost(s, t) == s = t \/ Before(s, t)

Zero(actor) == [wall |-> 0, counter |-> 0, actor |-> actor]

Later(m, n) == IF m >= n THEN m ELSE n

(* u32::saturating_add *)
SaturatingAdd(counter, n) == 
  IF counter + n <= MaxCounter THEN counter + n ELSE MaxCounter

(* Slips of tick: the counter left alone, the wall clock taken as it reads. *)
TickWithoutCounter(last, now) ==
  LET wall == Later(now, last.wall)
  IN  [wall |-> wall, counter |-> IF wall = last.wall THEN last.counter ELSE 0,
       actor |-> last.actor]
TickAtWall(last, now) ==
  [wall |-> now, counter |-> IF now = last.wall THEN SaturatingAdd(last.counter, 1) ELSE 0,
   actor |-> last.actor]

(* HlcGenerator::tick: the stamp of one local event; also the new `last`. *)
Tick(last, now) ==
  LET wall == Later(now, last.wall)
  IN  [wall    |-> wall,
       counter |-> IF wall = last.wall THEN SaturatingAdd(last.counter, 1) ELSE 0,
       actor   |-> last.actor]

(* The n-th of n consecutive ticks at the same reading of the wall clock;   *)
(* zero ticks leave the generator alone.                                    *)
TickTimes(last, now, n) ==
  IF n = 0 THEN last
  ELSE LET first == Tick(last, now)
       IN  [first EXCEPT !.counter = SaturatingAdd(first.counter, n - 1)]

(* Slip: the remote stamp is ignored. *)
ObserveNothing(last, remote, now) == last

(* HlcGenerator::observe *)
Observe(last, remote, now) ==
  LET wall == Later(Later(now, last.wall), remote.wall)
      counter ==
        IF wall = last.wall /\ wall = remote.wall
          THEN SaturatingAdd(Later(last.counter, remote.counter), 1)
        ELSE IF wall = last.wall   THEN SaturatingAdd(last.counter, 1)
        ELSE IF wall = remote.wall THEN SaturatingAdd(remote.counter, 1)
        ELSE 0
  IN  [wall |-> wall, counter |-> counter, actor |-> last.actor]

(* The largest of a non-empty finite set of stamps (Iterator::max). *)
Highest(stamps) == CHOOSE s \in stamps : \A t \in stamps : AtMost(t, s)
=============================================================================
