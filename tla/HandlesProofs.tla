--------------------------- MODULE HandlesProofs ----------------------------
(***************************************************************************)
(* What the C ABI keeps apart: results of threads, handles that were       *)
(* closed, documents of scopes; and that what a board records is handed    *)
(* out once.  For every set of threads and scopes, and every number of     *)
(* boards below the number of handles.                                     *)
(***************************************************************************)
EXTENDS Handles, TLAPS

BoardType == [scope : Scope, doc : SUBSET Operation, pending : SUBSET Operation,
              undone : Nat, redone : Nat]

BufferInv == DOMAIN last = Thread /\ DOMAIN answer = Thread /\ ResultIsMine

(* Handles are given out in increasing order, without wrapping around. *)
HandleInv == /\ nextHandle \in 0..MaxOpens
             /\ DOMAIN boards \subseteq 1..nextHandle
             /\ closed \subseteq 1..nextHandle
             /\ ClosedStaysClosed

(* What is known of each part of the state, besides the handles. *)
BuffersTyped == /\ DOMAIN last = Thread /\ DOMAIN answer = Thread
                /\ \A t \in Thread : /\ last[t].ops \subseteq Operation
                                     /\ answer[t].due.ops \subseteq Operation
HistoryTyped == /\ sent \subseteq Operation /\ dropped \subseteq Operation
                /\ written \subseteq Operation /\ issued \in 0..MaxWrites
BoardsInv == /\ \A h \in DOMAIN boards : boards[h] \in BoardType
             /\ ScopesStayApart

StateInv == BuffersTyped /\ HistoryTyped /\ BoardsInv /\ poisoned \in BOOLEAN

-----------------------------------------------------------------------------
(* The buffers. *)

(* Every call leaves a result and an answer that says so, or neither. *)
Replies(t) == \/ \E result : Ok(t, result)
              \/ \E status : status # "ok" /\ Return(t, status)
              \/ answer' = [answer EXCEPT ![t] = None] /\ UNCHANGED last

LEMMA EveryStepReplies ==
  ASSUME NEW t \in Thread, Call(t) \/ Panics(t) \/ ReadLast(t)
  PROVE  Replies(t)
<1> USE DEF Guarded, Enters, Replies
<1>1. ASSUME NEW scope \in Scope, Open(t, scope) PROVE Replies(t)
  BY <1>1 DEF Open
<1>2. CASE BadInput(t)
  BY <1>2 DEF BadInput, Refused
<1>3. ASSUME NEW h, Close(t, h) \/ NoBoard(t, h) \/ RefuseExec(t, h) PROVE Replies(t)
  BY <1>3 DEF Close, NoBoard, RefuseExec, Refused
<1>4. ASSUME NEW h, Exec(t, h) PROVE Replies(t)
  BY <1>4 DEF Exec
<1>5. ASSUME NEW h, MergeInto(t, h) PROVE Replies(t)
  BY <1>5 DEF MergeInto
<1>6. ASSUME NEW h, Pending(t, h) \/ Scene(t, h) \/ History(t, h) PROVE Replies(t)
  BY <1>6 DEF Pending, Scene, History
<1>7. ASSUME NEW h, NEW back, Step(t, h, back) \/ NothingToStep(t, h, back) PROVE Replies(t)
  BY <1>7 DEF Step, NothingToStep
<1>8. ASSUME NEW h, NEW scope, Load(t, h, scope) \/ RefuseLoad(t, h, scope) PROVE Replies(t)
  BY <1>8 DEF Load, RefuseLoad, Refused
<1>9. CASE Panics(t)
  BY <1>9 DEF Panics
<1>10. CASE ReadLast(t)
  BY <1>10 DEF ReadLast
<1> QED BY <1>1, <1>2, <1>3, <1>4, <1>5, <1>6, <1>7, <1>8, <1>9, <1>10 DEF Call

LEMMA BufferInit == Init => BufferInv
  BY DEF Init, BufferInv, ResultIsMine, None

LEMMA BufferStep == BufferInv /\ [Next]_vars => BufferInv'
<1> SUFFICES ASSUME BufferInv, [Next]_vars PROVE BufferInv'
  OBVIOUS
<1> USE DEF BufferInv, ResultIsMine
<1>1. ASSUME NEW t \in Thread, Replies(t) PROVE BufferInv'
  BY <1>1 DEF Replies, Ok, Return, Publish, None
<1>2. CASE UNCHANGED vars
  BY <1>2 DEF vars
<1> QED BY <1>1, <1>2, EveryStepReplies DEF Next

(* A caller that was told OK reads its own result, whatever other threads   *)
(* called in between (publish and LAST, lib.rs:54-84).                      *)
THEOREM ResultsStayMine == Spec => []ResultIsMine
<1>1. BufferInv => ResultIsMine
  BY DEF BufferInv
<1> QED BY BufferInit, BufferStep, <1>1, PTL DEF Spec

(* Nobody is told of a panic but the call that panicked. *)
CountsPanics(t) == \/ \E result : Ok(t, result)
                   \/ \E status : status # "panic" /\ Return(t, status)
                   \/ panics' = panics + 1 /\ Return(t, "panic")
                   \/ answer[t] # None /\ answer' = [answer EXCEPT ![t] = None]

LEMMA EveryStepCounts ==
  ASSUME NEW t \in Thread, Call(t) \/ Panics(t) \/ ReadLast(t)
  PROVE  CountsPanics(t) /\ (panics' = panics \/ panics' = panics + 1)
<1> DEFINE Goal == CountsPanics(t) /\ (panics' = panics \/ panics' = panics + 1)
<1> USE DEF Guarded, Enters, CountsPanics
<1>1. ASSUME NEW scope \in Scope, Open(t, scope) PROVE Goal
  BY <1>1 DEF Open
<1>2. CASE BadInput(t)
  BY <1>2 DEF BadInput, Refused
<1>3. ASSUME NEW h, Close(t, h) \/ NoBoard(t, h) \/ RefuseExec(t, h) PROVE Goal
  BY <1>3 DEF Close, NoBoard, RefuseExec, Refused
<1>4. ASSUME NEW h, Exec(t, h) PROVE Goal
  BY <1>4 DEF Exec
<1>5. ASSUME NEW h, MergeInto(t, h) PROVE Goal
  BY <1>5 DEF MergeInto
<1>6. ASSUME NEW h, Pending(t, h) \/ Scene(t, h) \/ History(t, h) PROVE Goal
  BY <1>6 DEF Pending, Scene, History
<1>7. ASSUME NEW h, NEW back, Step(t, h, back) \/ NothingToStep(t, h, back) PROVE Goal
  BY <1>7 DEF Step, NothingToStep
<1>8. ASSUME NEW h, NEW scope, Load(t, h, scope) \/ RefuseLoad(t, h, scope) PROVE Goal
  BY <1>8 DEF Load, RefuseLoad, Refused
<1>9. CASE Panics(t)
  BY <1>9 DEF Panics
<1>10. CASE ReadLast(t)
  BY <1>10 DEF ReadLast
<1> QED BY <1>1, <1>2, <1>3, <1>4, <1>5, <1>6, <1>7, <1>8, <1>9, <1>10 DEF Call

(* "A panic in one call must not permanently disable the library"           *)
(* (lib.rs:70-71): a call is answered STATUS_PANIC only when it panicked    *)
(* itself, whatever panicked before it.                                     *)
THEOREM PanicsAreAlone == Spec => PanicIsAlone
<1> DEFINE Inv == BufferInv /\ panics \in Nat
           Alone == \A t \in Thread :
                      answer'[t].status = "panic" /\ answer[t] = None => panics' > panics
<1>1. Init => Inv
  BY BufferInit DEF Init
<1>2. Inv /\ [Next]_vars => Inv'
  BY BufferStep, EveryStepCounts DEF Next, vars
<1>3. Inv /\ [Next]_vars => [Alone]_vars
  <2>1. SUFFICES ASSUME Inv, NEW u \in Thread, Call(u) \/ Panics(u) \/ ReadLast(u),
                        NEW t \in Thread, answer'[t].status = "panic", answer[t] = None
                 PROVE  panics' > panics
    BY DEF Next
  <2>2. CountsPanics(u)
    BY <2>1, EveryStepCounts
  <2>3. DOMAIN answer = Thread /\ None.status # "panic"
    BY <2>1 DEF BufferInv, None
  <2>4. answer'[t] # answer[t]
    BY <2>1, <2>3
  <2>5. t = u
    BY <2>2, <2>3, <2>4 DEF CountsPanics, Ok, Return
  <2>6. answer'[t] # None
    BY <2>1, <2>3
  <2> QED BY <2>1, <2>2, <2>3, <2>5, <2>6 DEF CountsPanics, Ok, Return
<1> HIDE DEF Inv
<1> QED BY <1>1, <1>2, <1>3, PTL DEF Spec, PanicIsAlone

-----------------------------------------------------------------------------
(* The registry. *)

(* What a step does to the registry: nothing, or to the board of one handle *)
(* without looking at which handle it is, or it opens or closes one.        *)
OpensOne == /\ nextHandle < MaxOpens
            /\ nextHandle' = NextHandle
            /\ UNCHANGED closed
            /\ \E scope \in Scope :
                 boards' = [h \in DOMAIN boards \cup {NextHandle} |->
                              IF h = NextHandle THEN BoardOpen(scope) ELSE boards[h]]
ClosesOne == \E h \in DOMAIN boards :
               /\ boards' = [g \in DOMAIN boards \ {h} |-> boards[g]]
               /\ closed' = closed \cup {h}
               /\ UNCHANGED nextHandle
ChangesOne == \E h \in DOMAIN boards : \E b :
               /\ boards' = [boards EXCEPT ![h] = b]
               /\ UNCHANGED <<closed, nextHandle>>

LEMMA EveryStepRegisters ==
  ASSUME NEW t \in Thread, Call(t) \/ Panics(t) \/ ReadLast(t)
  PROVE  UNCHANGED registry \/ OpensOne \/ ClosesOne \/ ChangesOne
<1> DEFINE Goal == UNCHANGED registry \/ OpensOne \/ ClosesOne \/ ChangesOne
<1> USE DEF Guarded, Enters
<1>1. ASSUME NEW scope \in Scope, Open(t, scope) PROVE Goal
  BY <1>1 DEF Open, OpensOne
<1>2. CASE BadInput(t)
  BY <1>2 DEF BadInput, Refused
<1>3. ASSUME NEW h, Close(t, h) PROVE Goal
  BY <1>3 DEF Close, ClosesOne
<1>4. ASSUME NEW h, NoBoard(t, h) \/ RefuseExec(t, h) PROVE Goal
  BY <1>4 DEF NoBoard, RefuseExec, Refused
<1>5. ASSUME NEW h, Exec(t, h) PROVE Goal
  BY <1>5 DEF Exec, ChangesOne
<1>6. ASSUME NEW h, MergeInto(t, h) PROVE Goal
  <2>1. PICK op \in sent : /\ h \in DOMAIN boards
                           /\ boards' = [boards EXCEPT ![h].doc = @ \cup {op}]
                           /\ UNCHANGED <<nextHandle, closed>>
    BY <1>6 DEF MergeInto
  <2>2. boards' = [boards EXCEPT ![h] = [boards[h] EXCEPT !.doc = @ \cup {op}]]
    BY <2>1
  <2> QED BY <2>1, <2>2 DEF ChangesOne
<1>7. ASSUME NEW h, Pending(t, h) PROVE Goal
  <2>1. boards' = [boards EXCEPT ![h] = [boards[h] EXCEPT !.pending = {}]]
    BY <1>7 DEF Pending, Drained
  <2> QED BY <1>7, <2>1 DEF Pending, ChangesOne
<1>8. ASSUME NEW h, Scene(t, h) \/ History(t, h) PROVE Goal
  BY <1>8 DEF Scene, History
<1>9. ASSUME NEW h, NEW back, Step(t, h, back) PROVE Goal
  BY <1>9 DEF Step, ChangesOne
<1>10. ASSUME NEW h, NEW back, NothingToStep(t, h, back) PROVE Goal
  BY <1>10 DEF NothingToStep
<1>11. ASSUME NEW h, NEW scope, Load(t, h, scope) PROVE Goal
  <2>1. boards' = [boards EXCEPT ![h] = [boards[h] EXCEPT !.doc = @ \cup DocumentOf(scope)]]
    BY <1>11 DEF Load
  <2> QED BY <1>11, <2>1 DEF Load, AcceptsScope, ChangesOne
<1>12. ASSUME NEW h, NEW scope, RefuseLoad(t, h, scope) PROVE Goal
  BY <1>12 DEF RefuseLoad, Refused
<1>13. CASE Panics(t)
  <2>1. CASE UNCHANGED boards
    BY <1>13, <2>1 DEF Panics, registry
  <2>2. ASSUME NEW h \in DOMAIN boards,
               boards' = [boards EXCEPT ![h] = Recorded(h, NewOperation(h))]
        PROVE  Goal
    BY <1>13, <2>2 DEF Panics, ChangesOne
  <2>3. ASSUME NEW h \in DOMAIN boards, boards' = Drained(h) PROVE Goal
    <3>1. boards' = [boards EXCEPT ![h] = [boards[h] EXCEPT !.pending = {}]]
      BY <2>3 DEF Drained
    <3> QED BY <1>13, <3>1 DEF Panics, ChangesOne
  <2> QED BY <1>13, <2>1, <2>2, <2>3 DEF Panics
<1>14. CASE ReadLast(t)
  BY <1>14 DEF ReadLast
<1> QED BY <1>1, <1>2, <1>3, <1>4, <1>5, <1>6, <1>7, <1>8, <1>9, <1>10, <1>11,
           <1>12, <1>13, <1>14 DEF Call

LEMMA HandleInit == Init => HandleInv
  BY HandleAssumption DEF Init, HandleInv, ClosedStaysClosed

LEMMA HandleStep == HandleInv /\ [Next]_vars => HandleInv'
<1> SUFFICES ASSUME HandleInv, [Next]_vars PROVE HandleInv'
  OBVIOUS
<1> USE DEF HandleInv, ClosedStaysClosed
<1>1. CASE OpensOne
  <2>1. nextHandle + 1 \in 0..HandleSpace - 1
    BY <1>1, HandleAssumption DEF OpensOne
  <2>2. NextHandle = nextHandle + 1
    BY <2>1, HandleAssumption DEF NextHandle
  <2>3. DOMAIN boards' = DOMAIN boards \cup {nextHandle + 1}
    BY <1>1, <2>2 DEF OpensOne
  <2> QED BY <1>1, <2>2, <2>3, HandleAssumption DEF OpensOne
<1>2. CASE ClosesOne
  <2>1. PICK h \in DOMAIN boards : /\ DOMAIN boards' = DOMAIN boards \ {h}
                                   /\ closed' = closed \cup {h}
                                   /\ nextHandle' = nextHandle
    BY <1>2 DEF ClosesOne
  <2> QED BY <2>1
<1>3. CASE ChangesOne
  <2>1. DOMAIN boards' = DOMAIN boards
    BY <1>3 DEF ChangesOne
  <2> QED BY <1>3, <2>1 DEF ChangesOne
<1>4. CASE UNCHANGED registry
  BY <1>4 DEF registry
<1>5. CASE UNCHANGED vars
  BY <1>5 DEF vars, registry
<1> QED BY <1>1, <1>2, <1>3, <1>4, <1>5, EveryStepRegisters DEF Next

(* A stale handle never reaches a board opened later, as long as fewer than *)
(* 2^32 boards are opened (kb_open, lib.rs:150-174).                        *)
THEOREM ClosedHandlesStayClosed == Spec => []ClosedStaysClosed
<1>1. HandleInv => ClosedStaysClosed
  BY DEF HandleInv
<1> QED BY HandleInit, HandleStep, <1>1, PTL DEF Spec
-----------------------------------------------------------------------------
(* The boards. *)

LEMMA StateInit == Init => StateInv
<1> SUFFICES ASSUME Init PROVE StateInv
  OBVIOUS
<1>1. BuffersTyped
  BY DEF Init, BuffersTyped, None, Nothing, Result
<1>2. HistoryTyped
  BY WritesAssumption DEF Init, HistoryTyped
<1>3. BoardsInv
  BY DEF Init, BoardsInv, ScopesStayApart
<1>4. poisoned \in BOOLEAN
  BY DEF Init
<1> QED BY <1>1, <1>2, <1>3, <1>4 DEF StateInv

LEMMA OkIsTyped ==
  ASSUME BuffersTyped, NEW t \in Thread, NEW result, result.ops \subseteq Operation, Ok(t, result)
  PROVE  BuffersTyped'
  BY DEF BuffersTyped, Ok, Publish

LEMMA ReturnIsTyped ==
  ASSUME BuffersTyped, NEW t \in Thread, NEW status, Return(t, status)
  PROVE  BuffersTyped'
  BY DEF BuffersTyped, Return, Nothing, Result

LEMMA NewOperationTyped ==
  ASSUME BoardsInv, HistoryTyped, NEW h \in DOMAIN boards, Issue(NewOperation(h))
  PROVE  /\ NewOperation(h) \in Operation
         /\ NewOperation(h).scope = boards[h].scope
         /\ HistoryTyped'
<1>1. boards[h].scope \in Scope
  BY DEF BoardsInv, BoardType
<1>2. issued + 1 \in 1..MaxWrites
  BY WritesAssumption DEF Issue, HistoryTyped
<1>3. NewOperation(h) \in Operation
  BY <1>1, <1>2 DEF NewOperation, Operation
<1>4. HistoryTyped'
  <2>1. issued' \in 0..MaxWrites
    BY <1>2, WritesAssumption DEF Issue, HistoryTyped
  <2> QED BY <1>3, <2>1 DEF Issue, HistoryTyped
<1> QED BY <1>3, <1>4 DEF NewOperation

(* One board becomes another of its scope. *)
LEMMA ChangeKeepsBoards ==
  ASSUME BoardsInv, NEW h \in DOMAIN boards, NEW b \in BoardType,
         \A op \in b.doc : op.scope = b.scope,
         boards' = [boards EXCEPT ![h] = b]
  PROVE  BoardsInv'
  BY DEF BoardsInv, ScopesStayApart

LEMMA RecordedIsBoard ==
  ASSUME BoardsInv, NEW h \in DOMAIN boards, NEW op \in Operation, op.scope = boards[h].scope
  PROVE  /\ Recorded(h, op) \in BoardType
         /\ Recorded(h, op).undone = boards[h].undone
         /\ Recorded(h, op).redone = boards[h].redone
         /\ Recorded(h, op).scope = boards[h].scope
         /\ \A p \in Recorded(h, op).doc : p.scope = boards[h].scope
  BY DEF BoardsInv, ScopesStayApart, Recorded, BoardType

LEMMA DrainedKeepsBoards ==
  ASSUME BoardsInv, NEW h \in DOMAIN boards, boards' = Drained(h)
  PROVE  BoardsInv'
<1> DEFINE b == [boards[h] EXCEPT !.pending = {}]
<1>1. boards[h] \in BoardType /\ \A op \in boards[h].doc : op.scope = boards[h].scope
  BY DEF BoardsInv, ScopesStayApart
<1>2. b \in BoardType /\ b.doc = boards[h].doc /\ b.scope = boards[h].scope
  BY <1>1 DEF BoardType
<1>3. boards' = [boards EXCEPT ![h] = b]
  BY DEF Drained
<1> HIDE DEF b
<1> QED BY <1>1, <1>2, <1>3, ChangeKeepsBoards

LEMMA GrownKeepsBoards ==
  ASSUME BoardsInv, NEW h \in DOMAIN boards, NEW ops \in SUBSET Operation,
         \A op \in ops : op.scope = boards[h].scope,
         boards' = [boards EXCEPT ![h].doc = @ \cup ops]
  PROVE  BoardsInv'
<1> DEFINE b == [boards[h] EXCEPT !.doc = @ \cup ops]
<1>1. boards[h] \in BoardType /\ \A op \in boards[h].doc : op.scope = boards[h].scope
  BY DEF BoardsInv, ScopesStayApart
<1>2. b \in BoardType /\ b.doc = boards[h].doc \cup ops /\ b.scope = boards[h].scope
  BY <1>1 DEF BoardType
<1>3. boards' = [boards EXCEPT ![h] = b]
  OBVIOUS
<1> HIDE DEF b
<1> QED BY <1>1, <1>2, <1>3, ChangeKeepsBoards

LEMMA RefusedKeepsState ==
  ASSUME StateInv, NEW t \in Thread, NEW status, Refused(t, status)
  PROVE  StateInv'
<1>1. Return(t, status) /\ UNCHANGED <<registry, history, poisoned>>
  BY DEF Refused, Guarded, Enters
<1>2. BuffersTyped'
  BY <1>1, ReturnIsTyped DEF StateInv
<1> QED BY <1>1, <1>2
        DEF StateInv, HistoryTyped, BoardsInv, ScopesStayApart, registry, history

(* A result over a registry that is as it was. *)
LEMMA AnswerKeepsState ==
  ASSUME StateInv, NEW t \in Thread, NEW result, result.ops \subseteq Operation,
         Ok(t, result), UNCHANGED <<registry, history, poisoned>>
  PROVE  StateInv'
<1>1. BuffersTyped'
  BY OkIsTyped DEF StateInv
<1> QED BY <1>1 DEF StateInv, HistoryTyped, BoardsInv, ScopesStayApart, registry, history

LEMMA BoardIsTyped ==
  ASSUME StateInv, NEW h \in DOMAIN boards
  PROVE  /\ boards[h].scope \in Scope
         /\ boards[h].doc \subseteq Operation /\ boards[h].pending \subseteq Operation
         /\ boards[h].undone \in Nat /\ boards[h].redone \in Nat
  BY DEF StateInv, BoardsInv, BoardType

LEMMA OpenKeepsState ==
  ASSUME StateInv, NEW t \in Thread, NEW scope \in Scope, Open(t, scope)
  PROVE  StateInv'
<1>1. /\ boards' = [h \in DOMAIN boards \cup {NextHandle} |->
                     IF h = NextHandle THEN BoardOpen(scope) ELSE boards[h]]
      /\ Return(t, "opened")
      /\ UNCHANGED <<poisoned, history>>
  BY DEF Open, Guarded, Enters
<1>2. BuffersTyped'
  BY <1>1, ReturnIsTyped DEF StateInv
<1>3. BoardOpen(scope) \in BoardType /\ BoardOpen(scope).doc = {}
  BY DEF BoardOpen, BoardType
<1>4. BoardsInv'
  BY <1>1, <1>3 DEF StateInv, BoardsInv, ScopesStayApart
<1> QED BY <1>1, <1>2, <1>4 DEF StateInv, HistoryTyped, history

LEMMA CloseKeepsState ==
  ASSUME StateInv, NEW t \in Thread, NEW h, Close(t, h)
  PROVE  StateInv'
<1>1. /\ h \in DOMAIN boards
      /\ boards' = [g \in DOMAIN boards \ {h} |-> boards[g]]
      /\ dropped' = dropped \cup boards[h].pending
      /\ Return(t, "closed")
      /\ UNCHANGED <<poisoned, sent, written, issued>>
  BY DEF Close, Guarded, Enters
<1>2. BuffersTyped'
  BY <1>1, ReturnIsTyped DEF StateInv
<1>3. HistoryTyped'
  BY <1>1, BoardIsTyped DEF StateInv, HistoryTyped
<1>4. BoardsInv'
  BY <1>1 DEF StateInv, BoardsInv, ScopesStayApart
<1> QED BY <1>1, <1>2, <1>3, <1>4 DEF StateInv

LEMMA ExecKeepsState ==
  ASSUME StateInv, NEW t \in Thread, NEW h, Exec(t, h)
  PROVE  StateInv'
<1> DEFINE op == NewOperation(h)
           r == Recorded(h, op)
           b == [r EXCEPT !.undone = @ + 1, !.redone = 0]
<1>1. /\ h \in DOMAIN boards
      /\ Issue(op)
      /\ boards' = [boards EXCEPT ![h] = b]
      /\ Ok(t, Result("id", {op}, <<>>))
      /\ UNCHANGED poisoned
  BY DEF Exec, Guarded, Enters
<1>2. op \in Operation /\ op.scope = boards[h].scope /\ HistoryTyped'
  BY <1>1, NewOperationTyped DEF StateInv
<1> HIDE DEF op
<1>3. BuffersTyped'
  BY <1>1, <1>2, OkIsTyped DEF StateInv, Result
<1>4. r \in BoardType /\ \A p \in r.doc : p.scope = r.scope
  BY <1>1, <1>2, RecordedIsBoard DEF StateInv
<1> HIDE DEF r
<1>5. b \in BoardType /\ b.doc = r.doc /\ b.scope = r.scope
  <2>1. r.undone + 1 \in Nat /\ 0 \in Nat
    BY <1>4 DEF BoardType
  <2> QED BY <1>4, <2>1 DEF BoardType
<1> HIDE DEF b
<1>6. BoardsInv'
  BY <1>1, <1>4, <1>5, ChangeKeepsBoards DEF StateInv
<1> QED BY <1>1, <1>2, <1>3, <1>6 DEF StateInv

LEMMA StepKeepsState ==
  ASSUME StateInv, NEW t \in Thread, NEW h, NEW back \in BOOLEAN, Step(t, h, back)
  PROVE  StateInv'
<1> DEFINE op == NewOperation(h)
           r == Recorded(h, op)
           b == [r EXCEPT !.undone = @ + (IF back THEN -1 ELSE 1),
                          !.redone = @ + (IF back THEN 1 ELSE -1)]
<1>1. /\ h \in DOMAIN boards
      /\ CanStep(h, back)
      /\ Issue(op)
      /\ boards' = [boards EXCEPT ![h] = b]
      /\ Ok(t, Result("moved", {}, <<TRUE>>))
      /\ UNCHANGED poisoned
  BY DEF Step, Guarded, Enters
<1>2. op \in Operation /\ op.scope = boards[h].scope /\ HistoryTyped'
  BY <1>1, NewOperationTyped DEF StateInv
<1> HIDE DEF op
<1>3. BuffersTyped'
  BY <1>1, OkIsTyped DEF StateInv, Result
<1>4. /\ r \in BoardType /\ \A p \in r.doc : p.scope = r.scope
      /\ r.undone = boards[h].undone /\ r.redone = boards[h].redone
  BY <1>1, <1>2, RecordedIsBoard DEF StateInv
<1> HIDE DEF r
<1>5. /\ r.undone + (IF back THEN -1 ELSE 1) \in Nat
      /\ r.redone + (IF back THEN 1 ELSE -1) \in Nat
  <2>1. r.undone \in Nat /\ r.redone \in Nat
    BY <1>4 DEF BoardType
  <2>2. IF back THEN r.undone > 0 ELSE r.redone > 0
    BY <1>1, <1>4 DEF CanStep
  <2> QED BY <2>1, <2>2
<1>6. b \in BoardType /\ b.doc = r.doc /\ b.scope = r.scope
  BY <1>4, <1>5 DEF BoardType
<1> HIDE DEF b
<1>7. BoardsInv'
  BY <1>1, <1>4, <1>6, ChangeKeepsBoards DEF StateInv
<1> QED BY <1>1, <1>2, <1>3, <1>7 DEF StateInv

LEMMA MergeKeepsState ==
  ASSUME StateInv, NEW t \in Thread, NEW h, MergeInto(t, h)
  PROVE  StateInv'
<1>1. PICK op \in sent : /\ h \in DOMAIN boards /\ op.scope = boards[h].scope
                         /\ boards' = [boards EXCEPT ![h].doc = @ \cup {op}]
                         /\ Ok(t, Result("count", {op} \ boards[h].doc, <<>>))
                         /\ UNCHANGED <<poisoned, history>>
  BY DEF MergeInto, Guarded, Enters
<1>2. {op} \in SUBSET Operation
  BY DEF StateInv, HistoryTyped
<1>3. BuffersTyped'
  BY <1>1, <1>2, OkIsTyped DEF StateInv, Result
<1>4. BoardsInv'
  BY <1>1, <1>2, GrownKeepsBoards DEF StateInv
<1> QED BY <1>1, <1>3, <1>4 DEF StateInv, HistoryTyped, history

LEMMA LoadKeepsState ==
  ASSUME StateInv, NEW t \in Thread, NEW h, NEW scope \in Scope, Load(t, h, scope)
  PROVE  StateInv'
<1> DEFINE ops == DocumentOf(scope)
<1>1. /\ h \in DOMAIN boards /\ boards[h].scope = scope
      /\ boards' = [boards EXCEPT ![h].doc = @ \cup ops]
      /\ Ok(t, Result("changed", {}, <<~(ops \subseteq boards[h].doc)>>))
      /\ UNCHANGED <<poisoned, history>>
  BY DEF Load, AcceptsScope, Guarded, Enters
<1>2. ops \in SUBSET Operation /\ \A op \in ops : op.scope = scope
  BY DEF DocumentOf, StateInv, HistoryTyped
<1> HIDE DEF ops
<1>3. BuffersTyped'
  BY <1>1, OkIsTyped DEF StateInv, Result
<1>4. BoardsInv'
  BY <1>1, <1>2, GrownKeepsBoards DEF StateInv
<1> QED BY <1>1, <1>3, <1>4 DEF StateInv, HistoryTyped, history

LEMMA PendingKeepsState ==
  ASSUME StateInv, NEW t \in Thread, NEW h, Pending(t, h)
  PROVE  StateInv'
<1>1. /\ h \in DOMAIN boards
      /\ boards' = Drained(h)
      /\ Ok(t, Result("pending", boards[h].pending, <<>>))
      /\ UNCHANGED <<poisoned, history>>
  BY DEF Pending, Guarded, Enters
<1>2. BuffersTyped'
  BY <1>1, BoardIsTyped, OkIsTyped DEF StateInv, Result
<1>3. BoardsInv'
  BY <1>1, DrainedKeepsBoards DEF StateInv
<1> QED BY <1>1, <1>2, <1>3 DEF StateInv, HistoryTyped, history

LEMMA PanicKeepsState ==
  ASSUME StateInv, NEW t \in Thread, Panics(t)
  PROVE  StateInv'
<1>1. BuffersTyped' /\ poisoned' \in BOOLEAN
  BY ReturnIsTyped DEF Panics, StateInv
<1>2. CASE UNCHANGED <<boards, history>>
  BY <1>1, <1>2 DEF StateInv, HistoryTyped, BoardsInv, ScopesStayApart, history
<1>3. ASSUME NEW h \in DOMAIN boards, Issue(NewOperation(h)),
             boards' = [boards EXCEPT ![h] = Recorded(h, NewOperation(h))]
      PROVE  StateInv'
  <2> DEFINE op == NewOperation(h)
  <2>1. op \in Operation /\ op.scope = boards[h].scope /\ HistoryTyped'
    BY <1>3, NewOperationTyped DEF StateInv
  <2> HIDE DEF op
  <2> DEFINE r == Recorded(h, op)
  <2>2. r \in BoardType /\ \A p \in r.doc : p.scope = r.scope
    BY <2>1, RecordedIsBoard DEF StateInv
  <2>3. boards' = [boards EXCEPT ![h] = r]
    BY <1>3 DEF op
  <2> HIDE DEF r
  <2>4. BoardsInv'
    BY <2>2, <2>3, ChangeKeepsBoards DEF StateInv
  <2> QED BY <1>1, <2>1, <2>4 DEF StateInv
<1>4. ASSUME NEW h \in DOMAIN boards, boards' = Drained(h),
             dropped' = dropped \cup boards[h].pending, UNCHANGED <<sent, written, issued>>
      PROVE  StateInv'
  <2>1. BoardsInv'
    BY <1>4, DrainedKeepsBoards DEF StateInv
  <2>2. HistoryTyped'
    BY <1>4, BoardIsTyped DEF StateInv, HistoryTyped
  <2> QED BY <1>1, <2>1, <2>2 DEF StateInv
<1> QED BY <1>2, <1>3, <1>4 DEF Panics

LEMMA StateStep == StateInv /\ [Next]_vars => StateInv'
<1> SUFFICES ASSUME StateInv, [Next]_vars PROVE StateInv'
  OBVIOUS
<1>1. ASSUME NEW t \in Thread, BadInput(t) PROVE StateInv'
  BY <1>1, RefusedKeepsState DEF BadInput
<1>2. ASSUME NEW t \in Thread, NEW h, NoBoard(t, h) \/ RefuseExec(t, h) PROVE StateInv'
  BY <1>2, RefusedKeepsState DEF NoBoard, RefuseExec
<1>3. ASSUME NEW t \in Thread, NEW h, NEW scope, RefuseLoad(t, h, scope) PROVE StateInv'
  BY <1>3, RefusedKeepsState DEF RefuseLoad
<1>4. ASSUME NEW t \in Thread, NEW h, Scene(t, h) PROVE StateInv'
  <2>1. /\ h \in DOMAIN boards
        /\ Ok(t, Result("scene", boards[h].doc, <<>>))
        /\ UNCHANGED <<registry, history, poisoned>>
    BY <1>4 DEF Scene, Guarded, Enters
  <2> QED BY <2>1, BoardIsTyped, AnswerKeepsState DEF Result
<1>5. ASSUME NEW t \in Thread, NEW h, History(t, h) PROVE StateInv'
  <2>1. PICK flags : /\ Ok(t, Result("history", {}, flags))
                     /\ UNCHANGED <<registry, history, poisoned>>
    BY <1>5 DEF History, Guarded, Enters
  <2> QED BY <2>1, AnswerKeepsState DEF Result
<1>6. ASSUME NEW t \in Thread, NEW h, NEW back, NothingToStep(t, h, back) PROVE StateInv'
  <2>1. /\ Ok(t, Result("moved", {}, <<FALSE>>))
        /\ UNCHANGED <<registry, history, poisoned>>
    BY <1>6 DEF NothingToStep, Guarded, Enters
  <2> QED BY <2>1, AnswerKeepsState DEF Result
<1>7. ASSUME NEW t \in Thread, ReadLast(t) PROVE StateInv'
  <2>1. BuffersTyped'
    BY <1>7 DEF ReadLast, StateInv, BuffersTyped, None, Nothing, Result
  <2>2. HistoryTyped'
    BY <1>7 DEF ReadLast, StateInv, BuffersTyped, HistoryTyped
  <2> QED BY <1>7, <2>1, <2>2 DEF ReadLast, StateInv, BoardsInv, ScopesStayApart, registry
<1>8. CASE UNCHANGED vars
  BY <1>8 DEF StateInv, BuffersTyped, HistoryTyped, BoardsInv, ScopesStayApart,
              vars, registry, history
<1> QED BY <1>1, <1>2, <1>3, <1>4, <1>5, <1>6, <1>7, <1>8, OpenKeepsState, CloseKeepsState,
           ExecKeepsState, StepKeepsState, MergeKeepsState, LoadKeepsState,
           PendingKeepsState, PanicKeepsState
        DEF Next, Call

(* No board ever holds another scope's operations: merge_document and the   *)
(* host's routing keep them apart (kb_load, lib.rs:271-301).                *)
THEOREM DocumentsStayInScope == Spec => []ScopesStayApart
<1>1. StateInv => ScopesStayApart
  BY DEF StateInv, BoardsInv
<1> QED BY StateInit, StateStep, <1>1, PTL DEF Spec

(* Every variable of the ABI stays in its range: handles below the next,    *)
(* results and boards made of operations somebody issued.                   *)
THEOREM HandlesTypeCorrect == Spec => []TypeOK
<1>1. StateInv /\ HandleInv => TypeOK
  BY HandleAssumption
  DEF StateInv, HandleInv, BuffersTyped, HistoryTyped, BoardsInv, BoardType, TypeOK
<1> QED BY StateInit, StateStep, HandleInit, HandleStep, <1>1, PTL DEF Spec
-----------------------------------------------------------------------------
(* Where operations are. *)

(* The pending list of every handle, empty without a board, and what every  *)
(* thread has been answered and not read.                                   *)
Pends   == [h \in 1..MaxOpens |-> IF h \in DOMAIN boards THEN boards[h].pending ELSE {}]
Unreads == [t \in Thread |-> Unread(t)]

(* Handed out once, said of one operation at a time: with lists P, unread   *)
(* answers U, sent S, dropped D, written W.                                 *)
Apart(P, U, S, D, W) ==
  /\ \A op : op \in W <=> \/ \E h \in DOMAIN P : op \in P[h]
                          \/ \E t \in DOMAIN U : op \in U[t]
                          \/ op \in S \/ op \in D
  /\ \A h \in DOMAIN P : \A op \in P[h] :
       /\ op \notin S /\ op \notin D
       /\ \A t \in DOMAIN U : op \notin U[t]
       /\ \A g \in DOMAIN P : g # h => op \notin P[g]
  /\ \A t \in DOMAIN U : \A op \in U[t] :
       /\ op \notin S /\ op \notin D
       /\ \A u \in DOMAIN U : u # t => op \notin U[u]
  /\ \A op \in S : op \notin D

Once == Apart(Pends, Unreads, sent, dropped, written)

(* Operations are numbered as they are issued, so the next one is new. *)
NumbersIssued == \A op \in written : op.number <= issued

OnceInv == BufferInv /\ HandleInv /\ StateInv /\ NumbersIssued /\ Once

(* The moves an operation makes: issued into a list, handed to a thread,    *)
(* read and sent, lost with its board or its call.                          *)
Stays  == UNCHANGED <<Pends, Unreads, sent, dropped, written, issued>>
Issues(h, op) == /\ op \notin written /\ op.number = issued + 1
                 /\ Pends' = [Pends EXCEPT ![h] = @ \cup {op}]
                 /\ written' = written \cup {op} /\ issued' = issued + 1
                 /\ UNCHANGED <<Unreads, sent, dropped>>
Hands(h, t) == /\ Unreads[t] = {}
               /\ Unreads' = [Unreads EXCEPT ![t] = Pends[h]]
               /\ Pends' = [Pends EXCEPT ![h] = {}]
               /\ UNCHANGED <<sent, dropped, written, issued>>
Sends(t) == /\ sent' = sent \cup Unreads[t]
            /\ Unreads' = [Unreads EXCEPT ![t] = {}]
            /\ UNCHANGED <<Pends, dropped, written, issued>>
Loses(h) == /\ dropped' = dropped \cup Pends[h]
            /\ Pends' = [Pends EXCEPT ![h] = {}]
            /\ UNCHANGED <<Unreads, sent, written, issued>>

Moves == \/ Stays
         \/ \E h \in 1..MaxOpens, op \in Operation : Issues(h, op)
         \/ \E h \in 1..MaxOpens, t \in Thread : Hands(h, t)
         \/ \E t \in Thread : Sends(t)
         \/ \E h \in 1..MaxOpens : Loses(h)

LEMMA OnceIsHandedOut ==
  ASSUME Once, DOMAIN boards \subseteq 1..MaxOpens
  PROVE  HandedOutOnce
<1>1. /\ DOMAIN Pends = 1..MaxOpens /\ DOMAIN Unreads = Thread
      /\ \A h \in DOMAIN boards : Pends[h] = boards[h].pending
      /\ \A h \in 1..MaxOpens \ DOMAIN boards : Pends[h] = {}
      /\ \A t \in Thread : Unreads[t] = Unread(t)
  BY DEF Pends, Unreads
<1>2. /\ \A op : op \in InPending <=> \E h \in DOMAIN Pends : op \in Pends[h]
      /\ \A op : op \in InAnswers <=> \E t \in DOMAIN Unreads : op \in Unreads[t]
  BY <1>1 DEF InPending, InAnswers
<1> HIDE DEF Pends, Unreads
<1>3. written = InPending \cup InAnswers \cup sent \cup dropped
  BY <1>2 DEF Once, Apart
<1>4. /\ InPending \cap (InAnswers \cup sent \cup dropped) = {}
      /\ InAnswers \cap (sent \cup dropped) = {}
      /\ sent \cap dropped = {}
  BY <1>2 DEF Once, Apart
<1>5. /\ \A g, h \in DOMAIN boards : g # h => boards[g].pending \cap boards[h].pending = {}
      /\ \A t, u \in Thread : t # u => Unread(t) \cap Unread(u) = {}
  BY <1>1 DEF Once, Apart
<1> QED BY <1>3, <1>4, <1>5 DEF HandedOutOnce

(* A move takes every operation from one place to one other. *)
LEMMA IssuedApart ==
  ASSUME NEW P, NEW U, NEW S, NEW D, NEW W, Apart(P, U, S, D, W), NEW h \in DOMAIN P,
         NEW op, op \notin W
  PROVE  Apart([P EXCEPT ![h] = @ \cup {op}], U, S, D, W \cup {op})
  BY DEF Apart

LEMMA HandedApart ==
  ASSUME NEW P, NEW U, NEW S, NEW D, NEW W, Apart(P, U, S, D, W), NEW h \in DOMAIN P,
         NEW t \in DOMAIN U, U[t] = {}
  PROVE  Apart([P EXCEPT ![h] = {}], [U EXCEPT ![t] = P[h]], S, D, W)
  BY DEF Apart

LEMMA SentApart ==
  ASSUME NEW P, NEW U, NEW S, NEW D, NEW W, Apart(P, U, S, D, W), NEW t \in DOMAIN U
  PROVE  Apart(P, [U EXCEPT ![t] = {}], S \cup U[t], D, W)
  BY DEF Apart

LEMMA LostApart ==
  ASSUME NEW P, NEW U, NEW S, NEW D, NEW W, Apart(P, U, S, D, W), NEW h \in DOMAIN P
  PROVE  Apart([P EXCEPT ![h] = {}], U, S, D \cup P[h], W)
  BY DEF Apart

LEMMA MovesKeepApart ==
  ASSUME Once, NumbersIssued, HistoryTyped, Moves
  PROVE  Once' /\ NumbersIssued'
<1>1. DOMAIN Pends = 1..MaxOpens /\ DOMAIN Unreads = Thread
  BY DEF Pends, Unreads
<1>2. CASE Stays
  BY <1>2 DEF Stays, Once, NumbersIssued
<1>3. ASSUME NEW h \in 1..MaxOpens, NEW op \in Operation, Issues(h, op)
      PROVE  Once' /\ NumbersIssued'
  <2>1. Once'
    BY <1>1, <1>3, IssuedApart DEF Issues, Once
  <2>2. issued \in Nat /\ \A p \in written : p.number \in Nat
    BY DEF HistoryTyped, Operation
  <2>3. NumbersIssued'
    BY <1>3, <2>2 DEF Issues, NumbersIssued
  <2> QED BY <2>1, <2>3
<1>4. ASSUME NEW h \in 1..MaxOpens, NEW t \in Thread, Hands(h, t)
      PROVE  Once' /\ NumbersIssued'
  BY <1>1, <1>4, HandedApart DEF Hands, Once, NumbersIssued
<1>5. ASSUME NEW t \in Thread, Sends(t)
      PROVE  Once' /\ NumbersIssued'
  BY <1>1, <1>5, SentApart DEF Sends, Once, NumbersIssued
<1>6. ASSUME NEW h \in 1..MaxOpens, Loses(h)
      PROVE  Once' /\ NumbersIssued'
  BY <1>1, <1>6, LostApart DEF Loses, Once, NumbersIssued
<1> QED BY <1>2, <1>3, <1>4, <1>5, <1>6 DEF Moves

(* What a call that returns no batch, or the one it was asked for, does to  *)
(* the unread answers.                                                      *)
LEMMA UnreadAfterReturn ==
  ASSUME DOMAIN answer = Thread, NEW t \in Thread, answer[t] = None,
         NEW status, status # "ok", Return(t, status)
  PROVE  UNCHANGED Unreads
<1>1. answer' = [answer EXCEPT ![t] = [status |-> status, due |-> Nothing]]
  BY DEF Return
<1>2. Unread(t) = {} /\ Unread(t)' = {}
  BY <1>1 DEF Unread, None
<1>3. \A u \in Thread : u # t => Unread(u)' = Unread(u)
  BY <1>1 DEF Unread
<1> QED BY <1>2, <1>3 DEF Unreads

LEMMA UnreadAfterOk ==
  ASSUME DOMAIN answer = Thread, NEW t \in Thread, answer[t] = None,
         NEW kind, NEW ops, NEW flags, Ok(t, Result(kind, ops, flags))
  PROVE  /\ Unreads[t] = {}
         /\ Unreads' = [Unreads EXCEPT ![t] = IF kind = "pending" THEN ops ELSE {}]
         /\ kind # "pending" => UNCHANGED Unreads
<1>1. answer' = [answer EXCEPT ![t] = [status |-> "ok", due |-> Result(kind, ops, flags)]]
  BY DEF Ok
<1>2. Unread(t) = {} /\ Unread(t)' = IF kind = "pending" THEN ops ELSE {}
  BY <1>1 DEF Unread, None, Result
<1>3. \A u \in Thread : u # t => Unread(u)' = Unread(u)
  BY <1>1 DEF Unread
<1>4. DOMAIN Unreads = Thread /\ \A u \in Thread : Unreads[u] = Unread(u)
  BY DEF Unreads
<1>5. Unreads' = [u \in Thread |-> IF u = t THEN (IF kind = "pending" THEN ops ELSE {})
                                            ELSE Unreads[u]]
  BY <1>2, <1>3 DEF Unreads
<1>6. Unreads = [u \in Thread |-> Unreads[u]]
  BY DEF Unreads
<1> HIDE DEF Unreads
<1>7. Unreads[t] = {}
  BY <1>2, <1>4
<1>8. Unreads' = [Unreads EXCEPT ![t] = IF kind = "pending" THEN ops ELSE {}]
  BY <1>4, <1>5, <1>6
<1>9. kind # "pending" => Unreads' = Unreads
  BY <1>5, <1>6, <1>7
<1> QED BY <1>7, <1>8, <1>9

(* What a step does to the pending lists. *)
LEMMA PendsAfterChange ==
  ASSUME NEW h \in DOMAIN boards, h \in 1..MaxOpens, NEW b, boards' = [boards EXCEPT ![h] = b]
  PROVE  /\ Pends' = [Pends EXCEPT ![h] = b.pending]
         /\ Pends[h] = boards[h].pending
         /\ b.pending = boards[h].pending => UNCHANGED Pends
<1>1. DOMAIN boards' = DOMAIN boards /\ boards'[h] = b
      /\ \A g \in DOMAIN boards : g # h => boards'[g] = boards[g]
  OBVIOUS
<1>2. /\ Pends = [g \in 1..MaxOpens |-> Pends[g]]
      /\ \A g \in 1..MaxOpens : Pends[g] = IF g \in DOMAIN boards THEN boards[g].pending ELSE {}
  BY DEF Pends
<1>3. Pends' = [g \in 1..MaxOpens |-> IF g = h THEN b.pending ELSE Pends[g]]
  BY <1>1 DEF Pends
<1> HIDE DEF Pends
<1> QED BY <1>2, <1>3

LEMMA PendsAfterClose ==
  ASSUME NEW h \in DOMAIN boards, h \in 1..MaxOpens,
         boards' = [g \in DOMAIN boards \ {h} |-> boards[g]]
  PROVE  Pends' = [Pends EXCEPT ![h] = {}] /\ Pends[h] = boards[h].pending
<1>1. /\ Pends = [g \in 1..MaxOpens |-> Pends[g]]
      /\ \A g \in 1..MaxOpens : Pends[g] = IF g \in DOMAIN boards THEN boards[g].pending ELSE {}
  BY DEF Pends
<1>2. Pends' = [g \in 1..MaxOpens |-> IF g = h THEN {} ELSE Pends[g]]
  BY DEF Pends
<1> HIDE DEF Pends
<1> QED BY <1>1, <1>2

LEMMA PendsAfterOpen ==
  ASSUME NEW scope, NEW n, n \notin DOMAIN boards,
         boards' = [h \in DOMAIN boards \cup {n} |-> IF h = n THEN BoardOpen(scope) ELSE boards[h]]
  PROVE  UNCHANGED Pends
<1>1. BoardOpen(scope).pending = {}
  BY DEF BoardOpen
<1>2. \A h : h \in DOMAIN boards' <=> h \in DOMAIN boards \/ h = n
  OBVIOUS
<1>3. \A h \in DOMAIN boards : h # n /\ boards'[h] = boards[h]
  OBVIOUS
<1>4. boards'[n] = BoardOpen(scope)
  OBVIOUS
<1> QED BY <1>1, <1>2, <1>3, <1>4 DEF Pends

(* A step of the registry that moves nothing. *)
LEMMA RegistryStays ==
  ASSUME UNCHANGED <<boards, history, Unreads>>
  PROVE  Stays
  BY DEF Stays, history, Pends

(* The handles of boards are within the bound. *)
LEMMA HandlesBounded ==
  ASSUME HandleInv
  PROVE  DOMAIN boards \subseteq 1..MaxOpens
  BY HandleAssumption DEF HandleInv

LEMMA OpenMoves ==
  ASSUME BufferInv, HandleInv, NEW t \in Thread, NEW scope \in Scope, Open(t, scope)
  PROVE  Moves
<1>1. /\ answer[t] = None /\ nextHandle < MaxOpens
      /\ boards' = [h \in DOMAIN boards \cup {NextHandle} |->
                     IF h = NextHandle THEN BoardOpen(scope) ELSE boards[h]]
      /\ Return(t, "opened")
      /\ UNCHANGED history
  BY DEF Open, Guarded, Enters
<1>2. nextHandle + 1 \in 0..HandleSpace - 1
  BY <1>1, HandleAssumption DEF HandleInv
<1>3. NextHandle = nextHandle + 1
  BY <1>2, HandleAssumption DEF NextHandle
<1>4. NextHandle \notin DOMAIN boards
  BY <1>1, <1>3 DEF HandleInv
<1>5. UNCHANGED Pends
  <2>1. PICK n : n = NextHandle
    OBVIOUS
  <2> QED BY <1>1, <1>4, <2>1, PendsAfterOpen
<1>6. UNCHANGED Unreads
  BY <1>1, UnreadAfterReturn DEF BufferInv
<1> QED BY <1>1, <1>5, <1>6 DEF Moves, Stays, history

LEMMA CloseMoves ==
  ASSUME BufferInv, HandleInv, NEW t \in Thread, NEW h, Close(t, h)
  PROVE  Moves
<1>1. /\ answer[t] = None /\ h \in DOMAIN boards
      /\ boards' = [g \in DOMAIN boards \ {h} |-> boards[g]]
      /\ dropped' = dropped \cup boards[h].pending
      /\ Return(t, "closed")
      /\ UNCHANGED <<sent, written, issued>>
  BY DEF Close, Guarded, Enters
<1>2. h \in 1..MaxOpens
  BY <1>1, HandlesBounded
<1>3. UNCHANGED Unreads
  BY <1>1, UnreadAfterReturn DEF BufferInv
<1>4. Pends' = [Pends EXCEPT ![h] = {}] /\ Pends[h] = boards[h].pending
  BY <1>1, <1>2, PendsAfterClose
<1>5. Loses(h)
  BY <1>1, <1>3, <1>4 DEF Loses
<1> QED BY <1>2, <1>5 DEF Moves

LEMMA RefusedMoves ==
  ASSUME BufferInv, NEW t \in Thread, NEW status, status # "ok", Refused(t, status)
  PROVE  Moves
<1>1. answer[t] = None /\ Return(t, status) /\ UNCHANGED <<registry, history>>
  BY DEF Refused, Guarded, Enters
<1>2. UNCHANGED Unreads
  BY <1>1, UnreadAfterReturn DEF BufferInv
<1> QED BY <1>1, <1>2, RegistryStays DEF Moves, registry

(* An answer that hands nothing out, over boards whose lists stay. *)
LEMMA AnswerMoves ==
  ASSUME BufferInv, NEW t \in Thread, answer[t] = None,
         NEW kind, kind # "pending", NEW ops, NEW flags, Ok(t, Result(kind, ops, flags)),
         UNCHANGED <<Pends, history>>
  PROVE  Moves
<1>1. UNCHANGED Unreads
  BY UnreadAfterOk DEF BufferInv
<1> QED BY <1>1 DEF Moves, Stays, history

(* One more operation in the list of a board. *)
LEMMA IssueMoves ==
  ASSUME HandleInv, StateInv, NumbersIssued, UNCHANGED Unreads,
         NEW h \in DOMAIN boards, NEW op, op = NewOperation(h), Issue(op),
         NEW b, b.pending = boards[h].pending \cup {op}, boards' = [boards EXCEPT ![h] = b]
  PROVE  Moves
<1>1. h \in 1..MaxOpens
  BY HandlesBounded
<1>2. op \in Operation /\ op.number = issued + 1
  BY NewOperationTyped DEF StateInv, NewOperation
<1>3. issued \in Nat /\ \A p \in written : p.number \in Nat
  BY DEF StateInv, HistoryTyped, Operation
<1>4. op \notin written
  BY <1>2, <1>3 DEF NumbersIssued
<1>5. Pends' = [Pends EXCEPT ![h] = b.pending] /\ Pends[h] = boards[h].pending
  BY <1>1, PendsAfterChange
<1>6. Pends' = [Pends EXCEPT ![h] = @ \cup {op}]
  BY <1>5
<1>7. Issues(h, op)
  BY <1>2, <1>4, <1>6 DEF Issues, Issue
<1> QED BY <1>1, <1>2, <1>7 DEF Moves

LEMMA RecordedPending ==
  ASSUME BoardsInv, NEW h \in DOMAIN boards, NEW op
  PROVE  Recorded(h, op).pending = boards[h].pending \cup {op}
<1>1. boards[h] \in BoardType
  BY DEF BoardsInv
<1> QED BY <1>1 DEF Recorded, BoardType

LEMMA ExecMoves ==
  ASSUME BufferInv, HandleInv, StateInv, NumbersIssued, NEW t \in Thread, NEW h, Exec(t, h)
  PROVE  Moves
<1>1. PICK op : op = NewOperation(h)
  OBVIOUS
<1>2. PICK r : r = Recorded(h, op)
  OBVIOUS
<1>3. PICK b : b = [r EXCEPT !.undone = @ + 1, !.redone = 0]
  OBVIOUS
<1>4. /\ answer[t] = None /\ h \in DOMAIN boards
      /\ Issue(op)
      /\ boards' = [boards EXCEPT ![h] = b]
      /\ Ok(t, Result("id", {op}, <<>>))
  BY <1>1, <1>2, <1>3 DEF Exec, Guarded, Enters
<1>5. op \in Operation /\ op.scope = boards[h].scope
  BY <1>1, <1>4, NewOperationTyped DEF StateInv
<1>6. r \in BoardType /\ r.pending = boards[h].pending \cup {op}
  BY <1>2, <1>4, <1>5, RecordedIsBoard, RecordedPending DEF StateInv
<1>7. b.pending = r.pending
  BY <1>3, <1>6 DEF BoardType
<1>8. UNCHANGED Unreads
  BY <1>4, UnreadAfterOk DEF BufferInv
<1> QED BY <1>1, <1>4, <1>6, <1>7, <1>8, IssueMoves

LEMMA StepMoves ==
  ASSUME BufferInv, HandleInv, StateInv, NumbersIssued,
         NEW t \in Thread, NEW h, NEW back, Step(t, h, back)
  PROVE  Moves
<1>1. PICK op : op = NewOperation(h)
  OBVIOUS
<1>2. PICK r : r = Recorded(h, op)
  OBVIOUS
<1>3. PICK b : b = [r EXCEPT !.undone = @ + (IF back THEN -1 ELSE 1),
                             !.redone = @ + (IF back THEN 1 ELSE -1)]
  OBVIOUS
<1>4. /\ answer[t] = None /\ h \in DOMAIN boards
      /\ Issue(op)
      /\ boards' = [boards EXCEPT ![h] = b]
      /\ Ok(t, Result("moved", {}, <<TRUE>>))
  BY <1>1, <1>2, <1>3 DEF Step, Guarded, Enters
<1>5. op \in Operation /\ op.scope = boards[h].scope
  BY <1>1, <1>4, NewOperationTyped DEF StateInv
<1>6. r \in BoardType /\ r.pending = boards[h].pending \cup {op}
  BY <1>2, <1>4, <1>5, RecordedIsBoard, RecordedPending DEF StateInv
<1>7. b.pending = r.pending
  BY <1>3, <1>6 DEF BoardType
<1>8. UNCHANGED Unreads
  BY <1>4, UnreadAfterOk DEF BufferInv
<1> QED BY <1>1, <1>4, <1>6, <1>7, <1>8, IssueMoves

(* Operations of others change the document and not the list. *)
LEMMA GrownStays ==
  ASSUME HandleInv, StateInv, NEW h \in DOMAIN boards, NEW ops,
         boards' = [boards EXCEPT ![h].doc = @ \cup ops]
  PROVE  UNCHANGED Pends
<1>1. PICK b : b = [boards[h] EXCEPT !.doc = @ \cup ops]
  OBVIOUS
<1>2. boards[h] \in BoardType /\ h \in 1..MaxOpens
  BY HandlesBounded DEF StateInv, BoardsInv
<1>3. b.pending = boards[h].pending
  BY <1>1, <1>2 DEF BoardType
<1>4. boards' = [boards EXCEPT ![h] = b]
  BY <1>1
<1> QED BY <1>2, <1>3, <1>4, PendsAfterChange

LEMMA MergeMoves ==
  ASSUME BufferInv, HandleInv, StateInv, NEW t \in Thread, NEW h, MergeInto(t, h)
  PROVE  Moves
<1>1. PICK op \in sent : /\ answer[t] = None /\ h \in DOMAIN boards
                         /\ boards' = [boards EXCEPT ![h].doc = @ \cup {op}]
                         /\ Ok(t, Result("count", {op} \ boards[h].doc, <<>>))
                         /\ UNCHANGED history
  BY DEF MergeInto, Guarded, Enters
<1>2. UNCHANGED Pends
  BY <1>1, GrownStays
<1> QED BY <1>1, <1>2, AnswerMoves

LEMMA LoadMoves ==
  ASSUME BufferInv, HandleInv, StateInv, NEW t \in Thread, NEW h, NEW scope, Load(t, h, scope)
  PROVE  Moves
<1>1. PICK ops : ops = DocumentOf(scope)
  OBVIOUS
<1>2. /\ answer[t] = None /\ h \in DOMAIN boards
      /\ boards' = [boards EXCEPT ![h].doc = @ \cup ops]
      /\ Ok(t, Result("changed", {}, <<~(ops \subseteq boards[h].doc)>>))
      /\ UNCHANGED history
  BY <1>1 DEF Load, AcceptsScope, Guarded, Enters
<1>3. UNCHANGED Pends
  BY <1>2, GrownStays
<1> QED BY <1>2, <1>3, AnswerMoves

LEMMA DrainedPends ==
  ASSUME HandleInv, StateInv, NEW h \in DOMAIN boards, boards' = Drained(h)
  PROVE  h \in 1..MaxOpens /\ Pends' = [Pends EXCEPT ![h] = {}] /\ Pends[h] = boards[h].pending
<1>1. PICK b : b = [boards[h] EXCEPT !.pending = {}]
  OBVIOUS
<1>2. boards[h] \in BoardType /\ h \in 1..MaxOpens
  BY HandlesBounded DEF StateInv, BoardsInv
<1>3. b.pending = {}
  BY <1>1, <1>2 DEF BoardType
<1>4. boards' = [boards EXCEPT ![h] = b]
  BY <1>1 DEF Drained
<1>5. Pends' = [Pends EXCEPT ![h] = b.pending] /\ Pends[h] = boards[h].pending
  BY <1>2, <1>4, PendsAfterChange
<1> QED BY <1>2, <1>3, <1>5

LEMMA PendingMoves ==
  ASSUME BufferInv, HandleInv, StateInv, NEW t \in Thread, NEW h, Pending(t, h)
  PROVE  Moves
<1>1. /\ answer[t] = None /\ h \in DOMAIN boards
      /\ boards' = Drained(h)
      /\ Ok(t, Result("pending", boards[h].pending, <<>>))
      /\ UNCHANGED history
  BY DEF Pending, Guarded, Enters
<1>2. h \in 1..MaxOpens /\ Pends' = [Pends EXCEPT ![h] = {}] /\ Pends[h] = boards[h].pending
  BY <1>1, DrainedPends
<1>3. Unreads[t] = {} /\ Unreads' = [Unreads EXCEPT ![t] = boards[h].pending]
  <2>1. PICK ops : ops = boards[h].pending
    OBVIOUS
  <2>2. Unreads[t] = {} /\ Unreads' = [Unreads EXCEPT ![t] = ops]
    BY <1>1, <2>1, UnreadAfterOk DEF BufferInv
  <2> QED BY <2>1, <2>2
<1>4. Hands(h, t)
  BY <1>1, <1>2, <1>3 DEF Hands, history
<1> QED BY <1>2, <1>4 DEF Moves

LEMMA PanicMoves ==
  ASSUME BufferInv, HandleInv, StateInv, NumbersIssued, NEW t \in Thread, Panics(t)
  PROVE  Moves
<1>1. UNCHANGED Unreads
  BY UnreadAfterReturn DEF BufferInv, Panics
<1>2. CASE UNCHANGED <<boards, history>>
  BY <1>1, <1>2, RegistryStays DEF Moves
<1>3. ASSUME NEW h \in DOMAIN boards, Issue(NewOperation(h)),
             boards' = [boards EXCEPT ![h] = Recorded(h, NewOperation(h))]
      PROVE  Moves
  <2>1. PICK op : op = NewOperation(h)
    OBVIOUS
  <2>2. PICK r : r = Recorded(h, op)
    OBVIOUS
  <2>3. r.pending = boards[h].pending \cup {op}
    BY <2>2, RecordedPending DEF StateInv
  <2>4. Issue(op) /\ boards' = [boards EXCEPT ![h] = r]
    BY <1>3, <2>1, <2>2
  <2> QED BY <1>1, <2>1, <2>3, <2>4, IssueMoves
<1>4. ASSUME NEW h \in DOMAIN boards, boards' = Drained(h),
             dropped' = dropped \cup boards[h].pending, UNCHANGED <<sent, written, issued>>
      PROVE  Moves
  <2>1. h \in 1..MaxOpens /\ Loses(h)
    BY <1>1, <1>4, DrainedPends DEF Loses
  <2> QED BY <2>1 DEF Moves
<1> QED BY <1>2, <1>3, <1>4 DEF Panics

LEMMA ReadMoves ==
  ASSUME BufferInv, NEW t \in Thread, ReadLast(t)
  PROVE  Moves
<1>1. /\ answer[t] # None /\ answer' = [answer EXCEPT ![t] = None]
      /\ sent' = IF answer[t].status = "ok" /\ last[t].kind = "pending"
                   THEN sent \cup last[t].ops ELSE sent
      /\ UNCHANGED <<registry, last, dropped, written, issued>>
  BY DEF ReadLast
<1>2. sent' = sent \cup Unread(t)
  BY <1>1 DEF Unread, BufferInv, ResultIsMine
<1>3. DOMAIN answer = Thread
  BY DEF BufferInv
<1>4. Unread(t)' = {} /\ \A u \in Thread : u # t => Unread(u)' = Unread(u)
  BY <1>1, <1>3 DEF Unread, None
<1>5. Unreads[t] = Unread(t) /\ Unreads' = [Unreads EXCEPT ![t] = {}]
  BY <1>4 DEF Unreads
<1>6. UNCHANGED Pends
  BY <1>1 DEF registry, Pends
<1> QED BY <1>1, <1>2, <1>5, <1>6 DEF Moves, Sends

LEMMA EveryStepMoves ==
  ASSUME BufferInv, HandleInv, StateInv, NumbersIssued,
         NEW t \in Thread, Call(t) \/ Panics(t) \/ ReadLast(t)
  PROVE  Moves
<1>1. ASSUME NEW scope \in Scope, Open(t, scope) PROVE Moves
  BY <1>1, OpenMoves
<1>2. CASE BadInput(t)
  BY <1>2, RefusedMoves DEF BadInput
<1>3. ASSUME NEW h, Close(t, h) PROVE Moves
  BY <1>3, CloseMoves
<1>4. ASSUME NEW h, NoBoard(t, h) \/ RefuseExec(t, h) PROVE Moves
  BY <1>4, RefusedMoves DEF NoBoard, RefuseExec
<1>5. ASSUME NEW h, Exec(t, h) PROVE Moves
  BY <1>5, ExecMoves
<1>6. ASSUME NEW h, MergeInto(t, h) PROVE Moves
  BY <1>6, MergeMoves
<1>7. ASSUME NEW h, Pending(t, h) PROVE Moves
  BY <1>7, PendingMoves
<1>8. ASSUME NEW h, Scene(t, h) \/ History(t, h) PROVE Moves
  <2>1. \E kind, ops, flags :
          /\ kind \in {"scene", "history"}
          /\ Ok(t, Result(kind, ops, flags)) /\ answer[t] = None /\ UNCHANGED <<registry, history>>
    BY <1>8 DEF Scene, History, Guarded, Enters
  <2>2. PICK kind, ops, flags :
          /\ kind \in {"scene", "history"}
          /\ Ok(t, Result(kind, ops, flags)) /\ answer[t] = None /\ UNCHANGED <<registry, history>>
    BY <2>1
  <2>3. UNCHANGED Pends
    BY <2>2 DEF registry, Pends
  <2> QED BY <2>2, <2>3, AnswerMoves
<1>9. ASSUME NEW h, NEW back, Step(t, h, back) PROVE Moves
  BY <1>9, StepMoves
<1>10. ASSUME NEW h, NEW back, NothingToStep(t, h, back) PROVE Moves
  <2>1. /\ Ok(t, Result("moved", {}, <<FALSE>>)) /\ answer[t] = None
        /\ UNCHANGED <<registry, history>>
    BY <1>10 DEF NothingToStep, Guarded, Enters
  <2>2. UNCHANGED Pends
    BY <2>1 DEF registry, Pends
  <2> QED BY <2>1, <2>2, AnswerMoves
<1>11. ASSUME NEW h, NEW scope, Load(t, h, scope) PROVE Moves
  BY <1>11, LoadMoves
<1>12. ASSUME NEW h, NEW scope, RefuseLoad(t, h, scope) PROVE Moves
  BY <1>12, RefusedMoves DEF RefuseLoad
<1>13. CASE Panics(t)
  BY <1>13, PanicMoves
<1>14. CASE ReadLast(t)
  BY <1>14, ReadMoves
<1> QED BY <1>1, <1>2, <1>3, <1>4, <1>5, <1>6, <1>7, <1>8, <1>9, <1>10, <1>11,
           <1>12, <1>13, <1>14 DEF Call

LEMMA OnceInit == Init => OnceInv
<1> SUFFICES ASSUME Init PROVE OnceInv
  OBVIOUS
<1>1. Pends = [h \in 1..MaxOpens |-> {}] /\ Unreads = [t \in Thread |-> {}]
  BY DEF Init, Pends, Unreads, Unread, None
<1>2. Once
  BY <1>1 DEF Init, Once, Apart
<1>3. NumbersIssued
  BY DEF Init, NumbersIssued
<1> QED BY <1>2, <1>3, BufferInit, HandleInit, StateInit DEF OnceInv

LEMMA OnceStep == OnceInv /\ [Next]_vars => OnceInv'
<1> SUFFICES ASSUME OnceInv, [Next]_vars PROVE OnceInv'
  OBVIOUS
<1>1. BufferInv' /\ HandleInv' /\ StateInv'
  BY BufferStep, HandleStep, StateStep DEF OnceInv
<1>2. Moves
  <2>1. CASE UNCHANGED vars
    BY <2>1 DEF vars, registry, history, Moves, Stays, Pends, Unreads, Unread
  <2>2. CASE Next
    BY <2>2, EveryStepMoves DEF Next, OnceInv
  <2> QED BY <2>1, <2>2
<1>3. Once' /\ NumbersIssued'
  BY <1>2, MovesKeepApart DEF OnceInv, StateInv
<1> QED BY <1>1, <1>3 DEF OnceInv

(* Whatever threads drain, close, write to and panic on the same boards,    *)
(* every operation is handed out and handed out once, for every number of   *)
(* threads, boards, operations and panics (kb_pending, kb_close and LAST,   *)
(* lib.rs).                                                                 *)
THEOREM OperationsHandedOutOnce == Spec => []HandedOutOnce
<1>1. OnceInv => HandedOutOnce
  BY HandlesBounded, OnceIsHandedOut DEF OnceInv
<1> QED BY OnceInit, OnceStep, <1>1, PTL DEF Spec
=============================================================================
