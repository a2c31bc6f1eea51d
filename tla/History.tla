------------------------------ MODULE History ------------------------------
(***************************************************************************)
(* Commands, undo and redo of a board (crates/kboard-ffi/src/board.rs) on  *)
(* top of the replication of module Replicas: which edits each command     *)
(* makes, the change it files on the actor's own history, and what undo    *)
(* and redo write.                                                         *)
(*                                                                         *)
(* The property keys are three that stand for the kinds there are: "x" is  *)
(* written when any element is created, "fill" only when a shape is,       *)
(* "angle" never is but has a value readers assume (read_default).  The    *)
(* paint order is left out.                                                *)
(***************************************************************************)
EXTENDS Replicas, SequencesExt

CONSTANTS MaxHistory,    \* MAX_HISTORY
          Colours,       \* values a command may write
          Assumed,       \* what readers take a property nobody wrote for
          Mutations,     \* the keys each mutating command writes, in order
          Kinds,         \* kinds of element a user creates
          VisibleOnly,   \* whether users address only what they see
          MaxCreated,    \* bound: elements one actor creates
          MaxSteps       \* bound: commands, undos and redos

ASSUME MaxHistoryAssumption == MaxHistory \in Nat \ {0}

VARIABLES undone, redone,  \* Board.undone and Board.redone, the last on top
          nextLocal,       \* Board.next_local
          steps            \* history: commands, undos and redos so far

historyVars == <<undone, redone, nextLocal, steps>>
hvars == <<vars, historyVars>>

(* What the host draws: the live elements as scene() reports them. *)
Scene(d) == [e \in Live(d) |-> [key \in {"x", "fill", "angle"} |-> Read(d, <<e, key>>, Assumed)]]

(* Change, with two history fields for the properties below: the scene the  *)
(* change was made on and the one it made.                                  *)
Change(backward, forward, was, became) ==
  [backward |-> backward, forward |-> forward, was |-> was, became |-> became]

HistoryInit == /\ Init
               /\ undone = [r \in Replica |-> <<>>]
               /\ redone = [r \in Replica |-> <<>>]
               /\ nextLocal = [r \in Replica |-> 0]
               /\ steps  = 0

HasReadDefault == {"angle"}

(* Slip: numbered by what the actor has on the board. *)
MintIdByCount(r) == <<r, Cardinality({e \in Live(doc[r]) : e[1] = r}) + 1>>

(* Board::mint_id: the actor and its own count. *)
MintId(r) == <<r, nextLocal[r] + 1>>

(* The properties a creating command writes. *)
Properties(kind, e, v) ==
  IF kind = "shape" THEN <<Set(e, "x", v), Set(e, "fill", v)>> ELSE <<Set(e, "x", v)>>

Undelete(e) == Set(e, DeletedKey, FALSE)

(* Slip: only a property that was written is captured. *)
CaptureWritten(d, edits) ==
  SelectSeq([i \in DOMAIN edits |-> [edits[i] EXCEPT !.value = Read(d, Slot(edits[i]), Assumed)]],
            LAMBDA edit : Slot(edit) \in DOMAIN d)

(* Board::capture: what to write back; a property that was never written    *)
(* and has no default is left out.                                          *)
Capture(d, edits) ==
  SelectSeq([i \in DOMAIN edits |-> [edits[i] EXCEPT !.value = Read(d, Slot(edits[i]), Assumed)]],
            LAMBDA edit : Slot(edit) \in DOMAIN d \/ edit.key \in HasReadDefault)

(* The undo stack with one more change: the oldest of too many goes. *)
PushBounded(stack, change) ==
  LET pushed == Append(stack, change)
  IN  IF Len(pushed) > MaxHistory THEN Tail(pushed) ELSE pushed

(* What new work leaves of the redo stack. *)
Discarded(stack) == <<>>

CountStep == steps < MaxSteps /\ steps' = steps + 1

(* Board::record_change *)
RecordChange(r, edits, backward, forward, now) ==
  /\ CountStep
  /\ Write(r, edits, now)
  /\ redone' = [redone EXCEPT ![r] = Discarded(@)]
  /\ undone' = [undone EXCEPT ![r] =
                  PushBounded(@, Change(backward, forward, Scene(doc[r]), Scene(doc'[r])))]

(* creation: the way forward lifts the tombstone the way back left. *)
ForwardOfCreation(e, edits) == Append(edits, Undelete(e))

(* Command::Add, Command::Stroke and Command::Text *)
Create(r, kind, v, now) ==
  LET e     == MintId(r)
      edits == Properties(kind, e, v)
  IN  /\ nextLocal[r] < MaxCreated
      /\ nextLocal' = [nextLocal EXCEPT ![r] = @ + 1]
      /\ RecordChange(r, edits, <<Delete(e)>>, ForwardOfCreation(e, edits), now)

(* Board::require, and the host's choice of what to address. *)
Addressable(r) == IF VisibleOnly THEN Live(doc[r]) ELSE ElementsOf(doc[r])

(* Command::Move, Resize, Geometry, Style and SetText *)
Mutate(r, keys, v, now) ==
  \E e \in Addressable(r) :
    LET edits == [i \in DOMAIN keys |-> Set(e, keys[i], v)]
    IN  /\ RecordChange(r, edits, Capture(doc[r], edits), edits, now)
        /\ UNCHANGED nextLocal

(* Command::Delete *)
DeleteElement(r, now) ==
  \E e \in Addressable(r) :
    /\ RecordChange(r, <<Delete(e)>>, <<Undelete(e)>>, <<Delete(e)>>, now)
    /\ UNCHANGED nextLocal

(* Command::Clear: op::clear, the live elements one by one. *)
Clear(r, now) ==
  LET cleared == SetToSeq(Live(doc[r]))
      deletes == [i \in DOMAIN cleared |-> Delete(cleared[i])]
  IN  /\ RecordChange(r, deletes, [i \in DOMAIN cleared |-> Undelete(cleared[i])], deletes, now)
      /\ UNCHANGED nextLocal

(* Board::undo: the way back, stamped afresh. *)
Undo(r, now) ==
  /\ undone[r] # <<>>
  /\ CountStep
  /\ Write(r, Last(undone[r]).backward, now)
  /\ undone' = [undone EXCEPT ![r] = Front(@)]
  /\ redone' = [redone EXCEPT ![r] = Append(@, Last(undone[r]))]
  /\ UNCHANGED nextLocal

(* Board::redo *)
Redo(r, now) ==
  /\ redone[r] # <<>>
  /\ CountStep
  /\ Write(r, Last(redone[r]).forward, now)
  /\ redone' = [redone EXCEPT ![r] = Front(@)]
  /\ undone' = [undone EXCEPT ![r] = Append(@, Last(redone[r]))]
  /\ UNCHANGED nextLocal

Command(r, now) ==
  \/ \E kind \in Kinds, v \in Colours : Create(r, kind, v, now)
  \/ \E keys \in Mutations, v \in Colours : Mutate(r, keys, v, now)
  \/ DeleteElement(r, now)
  \/ Clear(r, now)
  \/ Undo(r, now)
  \/ Redo(r, now)

HistoryNext ==
  \E r \in Replica :
    \/ \E now \in Walls : Command(r, now)
    \/ (Flush(r) \/ Deliver(r)) /\ UNCHANGED historyVars

HistorySpec == HistoryInit /\ [][HistoryNext]_hvars

-----------------------------------------------------------------------------
(* A board no other actor has written to, as far as its user knows. *)
Alone(r) == \A op \in seen[r] : op.stamp.actor = r

Undoes(r) == redone'[r] # <<>> /\ Front(redone'[r]) = redone[r]
Redoes(r) == /\ redone[r] # <<>> /\ redone'[r] = Front(redone[r])
             /\ undone'[r] # <<>> /\ Front(undone'[r]) = undone[r]

(* Walking back and forth: while nobody else's work has arrived, each undo  *)
(* shows the scene the change was made on ("make it what it was") and each  *)
(* redo the scene the change had made, with at most MaxHistory steps kept.  *)
HistoryWalks ==
  [][\A r \in Replica :
       /\ Alone(r) /\ Undoes(r) => Scene(doc'[r]) = Last(redone'[r]).was
       /\ Alone(r) /\ Redoes(r) => Scene(doc'[r]) = Last(undone'[r]).became
       /\ Len(undone'[r]) + Len(redone'[r]) <= MaxHistory]_hvars

(* A new element never lands on one that is there: no two boards mint the   *)
(* same id and no board mints one twice.                                    *)
MintedIsNew ==
  [][\A r \in Replica : nextLocal'[r] # nextLocal[r] =>
       \A q \in Replica : MintId(r) \notin ElementsOf(doc[q])]_hvars

(* A user's undo shows at once even when a collaborator wrote the property  *)
(* meanwhile ("wins over a concurrent change to the same property").        *)
UndoWins ==
  [][\A r \in Replica : redone'[r] # <<>> /\ Front(redone'[r]) = redone[r] =>
       \A i \in DOMAIN Last(redone'[r]).backward :
         LET edit == Last(redone'[r]).backward[i]
         IN  doc'[r][Slot(edit)].value = edit.value]_hvars
=============================================================================
