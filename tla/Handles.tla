------------------------------ MODULE Handles ------------------------------
(***************************************************************************)
(* The C ABI a host drives the engine through: crates/kboard-ffi/src/lib.rs *)
(* and, on the other side, web/kboard.js.  Boards live in one registry for  *)
(* the process, behind a mutex that an export holds from its first look at  *)
(* the registry to its status code, so a call is one step here.  What it    *)
(* produced stays in a buffer of the calling thread, which the host reads   *)
(* in a later call of that thread (kb_last_ptr, kb_last_len), with calls of *)
(* other threads in between.                                                *)
(*                                                                          *)
(* Any call may panic, before or after its work; the panic is trapped and   *)
(* poisons the mutex.  A document is the set of operations folded into it.  *)
(***************************************************************************)
EXTENDS Integers

CONSTANTS Thread,       \* threads of the host
          Scope,
          HandleSpace,  \* 2^32: handles are u32 and the count wraps
          MaxOpens,     \* bound: boards opened
          MaxWrites,    \* bound: operations issued
          MaxPanics     \* bound: panics

(* Handles are not reused in a process that opens fewer than 2^32 boards. *)
ASSUME HandleAssumption == MaxOpens \in Nat /\ HandleSpace \in Nat /\ MaxOpens < HandleSpace
ASSUME WritesAssumption == MaxWrites \in Nat

VARIABLES boards,      \* Registry.boards, by handle
          nextHandle,  \* Registry.next_handle
          poisoned,    \* the mutex was left by a panic
          last,        \* LAST, by thread
          answer,      \* answer[t]: what t's call returned, until it has dealt with it
          sent,        \* operations a host has read out of kb_pending
          dropped,     \* history: operations that went with a closed board or a panic
          written,     \* history: operations issued so far,
          issued,      \* and how many
          closed,      \* history: handles of closed boards
          panics       \* history: panics so far

registry == <<boards, nextHandle, closed>>
history  == <<sent, dropped, written, issued>>
vars == <<registry, poisoned, last, answer, history, panics>>

Operation == [scope : Scope, number : 1..MaxWrites]
Handle    == 0..HandleSpace - 1

(* What a call leaves in the buffer: operations, as an id, a batch or a     *)
(* scene, or the words "true" and "false".                                  *)
Result(kind, ops, flags) == [kind |-> kind, ops |-> ops, flags |-> flags]
Nothing == Result("empty", {}, <<>>)

None == [status |-> "none", due |-> Nothing]

BoardOpen(scope) == [scope |-> scope, doc |-> {}, pending |-> {}, undone |-> 0, redone |-> 0]

Init == /\ boards = [h \in {} |-> h]
        /\ nextHandle = 0
        /\ poisoned = FALSE
        /\ last = [t \in Thread |-> Nothing]
        /\ answer = [t \in Thread |-> None]
        /\ sent = {} /\ dropped = {} /\ written = {} /\ issued = 0
        /\ closed = {} /\ panics = 0

-----------------------------------------------------------------------------
(* Slip: one buffer for all threads. *)
PublishShared(t, result) == last' = [u \in Thread |-> result]

(* publish *)
Publish(t, result) == last' = [last EXCEPT ![t] = result]

(* The call returns to the host; an export that has nothing to say leaves   *)
(* the buffer as it was.                                                    *)
Return(t, status) ==
  /\ answer' = [answer EXCEPT ![t] = [status |-> status, due |-> Nothing]]
  /\ UNCHANGED last
Ok(t, result) ==
  /\ answer' = [answer EXCEPT ![t] = [status |-> "ok", due |-> result]]
  /\ Publish(t, result)

(* with_registry recovers from poisoning. *)
Enters == TRUE

(* guarded: an export runs its body, or answers STATUS_PANIC. *)
Guarded(t, body) ==
  /\ answer[t] = None
  /\ UNCHANGED <<poisoned, panics>>
  /\ IF Enters THEN body
     ELSE Return(t, "panic") /\ UNCHANGED <<registry, history>>

(* Slip: the lowest handle without a board. *)
LowestFree == CHOOSE h \in Handle : /\ h # 0 /\ h \notin DOMAIN boards
                                    /\ \A g \in 1..h - 1 : g \in DOMAIN boards

NextHandle == (nextHandle + 1) % HandleSpace

(* kb_open; a scope that is not UTF-8 gives 0 and no board. *)
Open(t, scope) ==
  /\ nextHandle < MaxOpens
  /\ Guarded(t, /\ nextHandle' = NextHandle
                /\ boards' = [h \in DOMAIN boards \cup {NextHandle} |->
                                IF h = NextHandle THEN BoardOpen(scope) ELSE boards[h]]
                /\ Return(t, "opened")
                /\ UNCHANGED <<closed, history>>)

(* kb_close: what was not drained goes with the board. *)
Close(t, h) ==
  Guarded(t, /\ h \in DOMAIN boards
             /\ boards' = [g \in DOMAIN boards \ {h} |-> boards[g]]
             /\ closed' = closed \cup {h}
             /\ dropped' = dropped \cup boards[h].pending
             /\ Return(t, "closed")
             /\ UNCHANGED <<nextHandle, sent, written, issued>>)

(* Null, not UTF-8 or not JSON: found before the registry is looked at.     *)
(* Then a handle without a board, and a command the board will not take.    *)
Refused(t, status) ==
  Guarded(t, Return(t, status) /\ UNCHANGED <<registry, history>>)
BadInput(t)      == Refused(t, "bad_input")
NoBoard(t, h)    == h \notin DOMAIN boards /\ Refused(t, "no_board")
RefuseExec(t, h) == h \in DOMAIN boards /\ Refused(t, "refused")

(* The board under h after one more operation of its own. *)
NewOperation(h) == [scope |-> boards[h].scope, number |-> issued + 1]
Recorded(h, op) == [boards[h] EXCEPT !.doc = @ \cup {op}, !.pending = @ \cup {op}]
Issue(op) == /\ issued < MaxWrites
             /\ issued' = issued + 1
             /\ written' = written \cup {op}
             /\ UNCHANGED <<sent, dropped>>

(* kb_exec *)
Exec(t, h) ==
  LET op == NewOperation(h) IN
  Guarded(t, /\ h \in DOMAIN boards
             /\ Issue(op)
             /\ boards' = [boards EXCEPT ![h] =
                             [Recorded(h, op) EXCEPT !.undone = @ + 1, !.redone = 0]]
             /\ Ok(t, Result("id", {op}, <<>>))
             /\ UNCHANGED <<nextHandle, closed>>)

CanStep(h, back) == (IF back THEN boards[h].undone ELSE boards[h].redone) > 0

(* kb_undo and kb_redo, through step: a reversal is an ordinary operation;  *)
(* with an empty history there is none.                                     *)
Step(t, h, back) ==
  LET op == NewOperation(h) IN
  Guarded(t, /\ h \in DOMAIN boards
             /\ CanStep(h, back)
             /\ Issue(op)
             /\ boards' = [boards EXCEPT ![h] =
                             [Recorded(h, op) EXCEPT !.undone = @ + (IF back THEN -1 ELSE 1),
                                                     !.redone = @ + (IF back THEN 1 ELSE -1)]]
             /\ Ok(t, Result("moved", {}, <<TRUE>>))
             /\ UNCHANGED <<nextHandle, closed>>)

NothingToStep(t, h, back) ==
  Guarded(t, /\ h \in DOMAIN boards
             /\ ~CanStep(h, back)
             /\ Ok(t, Result("moved", {}, <<FALSE>>))
             /\ UNCHANGED <<registry, history>>)

(* kb_merge, of operations a host has read; the host routes them by scope.  *)
MergeInto(t, h) ==
  \E op \in sent :
    /\ h \in DOMAIN boards /\ op.scope = boards[h].scope
    /\ Guarded(t, /\ boards' = [boards EXCEPT ![h].doc = @ \cup {op}]
                  /\ Ok(t, Result("count", {op} \ boards[h].doc, <<>>))
                  /\ UNCHANGED <<nextHandle, closed, history>>)

AcceptsScope(h, scope) == h \in DOMAIN boards /\ boards[h].scope = scope

(* kb_load, of the document the server has of a scope, which a host may     *)
(* hand to the wrong board.                                                 *)
DocumentOf(scope) == {op \in sent : op.scope = scope}

Load(t, h, scope) ==
  Guarded(t, /\ AcceptsScope(h, scope)
             /\ boards' = [boards EXCEPT ![h].doc = @ \cup DocumentOf(scope)]
             /\ Ok(t, Result("changed", {}, <<~(DocumentOf(scope) \subseteq boards[h].doc)>>))
             /\ UNCHANGED <<nextHandle, closed, history>>)

RefuseLoad(t, h, scope) ==
  /\ h \in DOMAIN boards /\ ~AcceptsScope(h, scope)
  /\ Refused(t, "refused")

(* Slip: the batch is read and left where it is. *)
PeekPending(h) == boards

Drained(h) == [boards EXCEPT ![h].pending = {}]

(* kb_pending *)
Pending(t, h) ==
  Guarded(t, /\ h \in DOMAIN boards
             /\ boards' = Drained(h)
             /\ Ok(t, Result("pending", boards[h].pending, <<>>))
             /\ UNCHANGED <<nextHandle, closed, history>>)

(* kb_scene, kb_history *)
Scene(t, h) ==
  Guarded(t, /\ h \in DOMAIN boards
             /\ Ok(t, Result("scene", boards[h].doc, <<>>))
             /\ UNCHANGED <<registry, history>>)
History(t, h) ==
  Guarded(t, /\ h \in DOMAIN boards
             /\ Ok(t, Result("history", {}, <<boards[h].undone > 0, boards[h].redone > 0>>))
             /\ UNCHANGED <<registry, history>>)

(* A call that panics: trapped, the buffer as it was, the registry as the   *)
(* call had made it: untouched, with the operation recorded, or drained.    *)
Panics(t) ==
  /\ answer[t] = None
  /\ panics < MaxPanics
  /\ panics' = panics + 1
  /\ poisoned' = TRUE
  /\ Return(t, "panic")
  /\ UNCHANGED <<nextHandle, closed>>
  /\ \/ UNCHANGED <<boards, history>>
     \/ \E h \in DOMAIN boards : /\ Issue(NewOperation(h))
                                 /\ boards' = [boards EXCEPT ![h] = Recorded(h, NewOperation(h))]
     \/ \E h \in DOMAIN boards : /\ boards' = Drained(h)
                                 /\ dropped' = dropped \cup boards[h].pending
                                 /\ UNCHANGED <<sent, written, issued>>

(* The host deals with the answer: after STATUS_OK it reads the buffer, and *)
(* what kb_pending handed out goes to the peers.                            *)
ReadLast(t) ==
  /\ answer[t] # None
  /\ answer' = [answer EXCEPT ![t] = None]
  /\ sent' = IF answer[t].status = "ok" /\ last[t].kind = "pending"
               THEN sent \cup last[t].ops ELSE sent
  /\ UNCHANGED <<registry, poisoned, last, dropped, written, issued, panics>>

Call(t) == \/ \E scope \in Scope : Open(t, scope)
           \/ BadInput(t)
           \/ \E h \in 1..MaxOpens :
                \/ Close(t, h) \/ NoBoard(t, h) \/ RefuseExec(t, h)
                \/ Exec(t, h) \/ MergeInto(t, h) \/ Pending(t, h)
                \/ Scene(t, h) \/ History(t, h)
                \/ \E back \in BOOLEAN : Step(t, h, back) \/ NothingToStep(t, h, back)
                \/ \E scope \in Scope : Load(t, h, scope) \/ RefuseLoad(t, h, scope)

Next == \E t \in Thread : Call(t) \/ Panics(t) \/ ReadLast(t)

Spec == Init /\ [][Next]_vars

-----------------------------------------------------------------------------
TypeOK ==
  /\ DOMAIN boards \subseteq 1..MaxOpens
  /\ \A h \in DOMAIN boards :
       boards[h] \in [scope : Scope, doc : SUBSET Operation, pending : SUBSET Operation,
                      undone : Nat, redone : Nat]
  /\ nextHandle \in 0..MaxOpens
  /\ poisoned \in BOOLEAN
  /\ DOMAIN last = Thread /\ DOMAIN answer = Thread
  /\ \A t \in Thread : last[t].ops \subseteq Operation /\ answer[t].due.ops \subseteq Operation
  /\ sent \subseteq Operation /\ dropped \subseteq Operation /\ written \subseteq Operation
  /\ issued \in 0..MaxWrites
  /\ closed \subseteq 1..MaxOpens

(* A thread that was told OK finds the result of its own call in the        *)
(* buffer, whatever other threads called in the meantime ("Per-thread so    *)
(* two concurrent callers cannot overwrite each other's output", lib.rs:79).*)
ResultIsMine == \A t \in Thread : answer[t].status = "ok" => last[t] = answer[t].due

(* Where an operation can be between its command and the peers: in the      *)
(* pending list of a board, in the answer of a thread that has yet to read  *)
(* it, sent, or gone with its board or with a call that panicked.           *)
Unread(t) == IF answer[t].status = "ok" /\ answer[t].due.kind = "pending"
               THEN answer[t].due.ops ELSE {}

InPending == UNION {boards[h].pending : h \in DOMAIN boards}
InAnswers == UNION {Unread(t) : t \in Thread}

(* Several threads drain, close and write to the same boards, and every     *)
(* operation is still handed out, and handed out once: an operation is in   *)
(* one of these places and no two boards or threads have it.                *)
HandedOutOnce ==
  /\ written = InPending \cup InAnswers \cup sent \cup dropped
  /\ InPending \cap (InAnswers \cup sent \cup dropped) = {}
  /\ InAnswers \cap (sent \cup dropped) = {}
  /\ sent \cap dropped = {}
  /\ \A g, h \in DOMAIN boards : g # h => boards[g].pending \cap boards[h].pending = {}
  /\ \A t, u \in Thread : t # u => Unread(t) \cap Unread(u) = {}

(* A handle that was closed stays so: a stale one is answered with NO_BOARD *)
(* and never reaches a board somebody opened later.                         *)
ClosedStaysClosed == closed \cap DOMAIN boards = {}

(* No board ever holds another scope's operations, whatever documents the   *)
(* host hands it (lib.rs:273: "a routing bug in the host").                 *)
ScopesStayApart ==
  \A h \in DOMAIN boards : \A op \in boards[h].doc : op.scope = boards[h].scope

(* "A panic in one call must not permanently disable the library": a call   *)
(* is answered STATUS_PANIC only when it panicked itself.                   *)
PanicIsAlone ==
  [][\A t \in Thread : answer'[t].status = "panic" /\ answer[t] = None => panics' > panics]_vars
=============================================================================
