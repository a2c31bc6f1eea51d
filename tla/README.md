# k-board in TLA+

k-board is a collaborative whiteboard: an engine in Rust (`crates/kboard-core`, `crates/kboard-ffi`,
compiled to WebAssembly), a store on SQLite (`crates/kboard-store`), a server that relays and records
(`crates/kboard-server`) and a browser client (`web/`). This directory specifies its replication,
its history of changes, its paint order, its C interface, its durability, its live sessions and the way
into them, checks them with TLC on small instances and proves with TLAPS, for every instance, what
matters most of the replication, the snapshots, the store, the server, the paint order, presence, the rate
budget, the lobby and the handles.

## 1. The system

| component | state | operations | interacts through |
|---|---|---|---|
| hybrid clock (`clock.rs`) | last stamp `(wall, counter, actor)` | `tick`, `observe` | owned by a board |
| document (`document.rs`, `element.rs`, `lww.rs`, `op.rs`) | elements, each a map of last-writer-wins registers; deletion is a register | `apply_all`, `merge`, `delete`, `clear`, `upsert`, `collect_tombstones` | owned by a board and by a snapshot |
| snapshot (`snapshot.rs`) | document, highest stamp absorbed, count | `absorb`, `materialize`, `merge`, `covers` | owned by a room; filed in the store |
| board (`kboard-ffi/src/board.rs`) | document, clock, pending operations, undo and redo stacks, id counter | nine commands, `undo`, `redo`, `merge_ops`, `merge_document`, `take_pending`, `scene` | the C ABI |
| C ABI (`kboard-ffi/src/lib.rs`) | boards by handle behind one mutex, a result buffer per thread | `kb_open`, `kb_close`, `kb_exec`, `kb_undo`, `kb_redo`, `kb_merge`, `kb_load`, `kb_pending`, `kb_scene`, `kb_history` and the reads of the buffer | hosts: the browser client, any C caller |
| fractional keys (`frac.rs`) | none | `between` | creation of elements; hosts that place between two |
| ports (`ports.rs`) | the in-memory log and snapshots | `append`, `read_since`, `store`, `load` | what a store must do |
| store (`kboard-store`) | rows of the log by sequence number, one snapshot row per scope | `append`, `read_since`, `store`, `load`, `restore`, `truncate_absorbed` | called by the server under its lock |
| room (`room.rs`) | snapshot, broadcast channel, count since the last snapshot | `subscribe`, `accept`, `broadcast`, `is_reclaimable` | sessions, under the server's one lock |
| sessions (`main.rs`) | connection number, subscription, rate budget | join, receive loop, relay task, tear-down | WebSocket to a tab; room and store behind the lock |
| client sync (`web/app.js`) | socket, outbox, actor, board | `connect`, `flush`, `onmessage`, `onclose` | WebSocket; the board through the ABI |
| presence (`web/presence.js`, `reportCursor` of `app.js`) | peers with position and time seen, last position sent | `observe`, `forget`, `expire`, reports | the room's channel, through the session's two tasks |
| limits (`limits.rs`) | a bucket of tokens and strikes per session | `allow`; sizes, the cap on rooms, acceptable scopes | the receive loop, `with_room`, the sweeper |
| authority (`auth.rs`) | the secret | `mint`, `verify`, `permits_bind` | start-up and the handshake |
| rendering, clipboard (`web/scene.js`, `transform.js`, `clipboard.js`) | none that others read | | |

What is hard, and what makes each part correct:

- **Replication.** Operations arrive in any order, in any batching, twice, late, or inside a whole
  document. A document must be a function of the set of operations folded into it; no two operations
  may carry one stamp; a user's edit must win over whatever they had seen.
- **History.** Undo writes values captured earlier, with fresh stamps, among other people's edits. The
  stacks must stay bounded and, for a lone user, walk back and forth through the very scenes seen.
- **Durability.** The log, a snapshot that says how far it reaches, and a process that may stop between
  any two steps: what reopens must be what was acknowledged.
- **Live sessions.** Batches are accepted while others join, lag, lose their network, reload or are
  refused; the append, the snapshot or the restore may fail; the process may restart. Nothing that was
  recorded may be lost, nothing unrecorded may be relayed, everybody must learn what was recorded.
- **The way in.** Grants expire, tabs retry, rooms are capped and reclaimed, processes restart configured
  otherwise: nobody without a grant may sit on a board, nobody may sit in a room that is gone, and the cap may not
  refuse a tab forever.
- **Presence.** A session is two tasks that end each other; cursor reports, departures and lost connections
  race. A cursor must show where its owner last pointed and may not outlive him.
- **The rate budget.** Two paced streams and a bursty network share a bucket: a polite page must never be
  refused, and no page may get more than a burst above the rate.
- **Paint order.** There must always be a key between two others, a key may outgrow a text value, two boards
  may mint one key, and tombstones are collected: boards must paint alike, and what was deleted stays gone.
- **The ABI.** Threads share the registry and read results in later calls; panics are trapped with the
  mutex held; a host may use a closed handle or hand a document to the wrong board.

`PROJECT.json` lists every hazard with its line and the properties aimed at it.

## 2. The modules

| module | models | notes |
|---|---|---|
| `Hlc` | `clock.rs` | constant-level operators; `TickTimes` is n ticks at one reading of the clock |
| `Document` | `lww.rs`, `element.rs`, `document.rs`, `op.rs` | a document is one function from slots `<<element, key>>` to registers; `ApplyAll` is the closed form of the loop |
| `OpSet` | abstract | what replication promises: sets of operations and the latest write of each slot |
| `Replicas` | boards over an unreliable network | implements `OpSet` with `view <- doc` |
| `Snapshots` | `snapshot.rs` | readers folding one log in different orders |
| `History` | commands, undo and redo of `board.rs` | extends `Replicas`; every command is one `Write` |
| `Frac` | `frac.rs` | `between` in closed form over any base |
| `ZOrder` | drawing order, the key of a new element, `collect_tombstones` | extends `Frac` |
| `Handles` | `kboard-ffi/src/lib.rs` | one action per export, with panics and stale handles |
| `Store` | tables of `kboard-store` | operators over rows and snapshot, shared by `StoreLog` and `Server` |
| `Durability` | abstract | what is acknowledged stays |
| `MemoryPorts` | the in-memory log and snapshots of `ports.rs` | abstract: what the tables must look like |
| `StoreLog` | log, snapshot and stops | implements `Durability` and `MemoryPorts` |
| `Server` | tabs, sessions, one room, store | composes `Store` with `main.rs`, `room.rs`, `app.js` |
| `Lobby` | handshake, grants, the cap, the sweeper, retries, restarts | many rooms, whose content is the matter of `Server` |
| `Presence` | cursors, the two tasks of a session, the broadcast channel | what `Server` leaves out of a session |
| `Limiter` | the token bucket, the throttles of the page, the wire | |
| `DocumentProofs`, `ReplicasProofs`, `StoreProofs`, `ServerProofs`, `ZOrderProofs`, `ConnectionProofs`, `LobbyProofs`, `HandlesProofs` | | lemmas and theorems; `ConnectionProofs` is about `Limiter` and `Presence` |
| `MC*` | instances for TLC | |

How state corresponds. In `Replicas`, `doc`, `clock` and `pending` are the fields of `Board`; `frames` and
`inits` are what is on the wire; `seen` is a history variable. One action is one call through the ABI:
`LocalWrite` (`kb_exec`), `Flush` (`kb_pending`), `Deliver` and `DeliverCopy` (`kb_merge`), `LoadDocument`
(`kb_load`); `SendDocument` is the handshake. In `Server`, one action is one critical section of the server, one message of
the relay, or one browser callback. Documents there are the sets of operations folded into them; the
theorem `DocumentsReflect` is what justifies it. `dropped`, `happened` and `failures` are history: the drawings that can
no longer be recorded (refused, or unread on a connection that is gone), which failures there were, and how many. The browser's socket and the server's session are separate:
`socket[t]` may name a session that is gone (the browser has not noticed) and a session may have no tab (the
server has not noticed). `History` adds `undone`, `redone` and `next_local`; a change carries two history
fields, the scene before and after it, which only the properties read. A `Document` slot holds every value as it is: values the
document would refuse (`PropValue::is_valid`) are not written; `ZOrder` has the one case that matters, a key too long.

In `ZOrder` a key is written with its element and never again, so `z` is one function for all boards. `Handles`
keeps a board down to the sets of operations in its document and in its batch; `last` is the thread's buffer, `answer`
what the call returned, and `ReadLast` is the host dealing with it, with calls of other threads in between.
`Lobby` keeps ages instead of instants and gives a room a channel number, so that a room reclaimed and reopened is
told from the one before. `Presence` numbers sessions as the server does; `receiving` and `relaying` are its two tasks, and
an aborted task may still read one more frame. `Limiter` counts tokens in parts and refills at every tick, which is what
refilling on demand comes to, since both stop at the burst; `Paced` has `>=` where `app.js:945` has `>`, so that pages are a
little faster in the model than in the code.

Operators named as slips (`LwwByArrival`, `StoreSnapshotAhead`, ...) are used by no definition. Each is a
plausible mistake in the operator that follows it, kept so that every property can be shown to fail
when the mistake is made (the `mutants` of `PROJECT.json`).

## 3. The runs

Passing runs:

| run | configuration | shows |
|---|---|---|
| `replicas` | `MCReplicas.cfg` | order, duplication, loss and a handshake do not matter to a document; stamps never repeat; a local edit shows at once; `OpSet` is implemented |
| `snapshots` | `MCSnapshots.cfg` | every order and every cut into batches, snapshots and merges equals the loop of `apply` over the operations in any other order; this is also the check of the closed form `ApplyAll` |
| `history` | `MCHistory.cfg` | two users: while nobody else's work has arrived, undo and redo restore the scenes, with a bounded history; an undo shows at once even against a collaborator's write; ids are new |
| `store` | `MCStoreLog.cfg` | until a truncation, what reopens is what was acknowledged, a host pages as from the in-memory log, and both abstract specifications are implemented |
| `server` | `MCServer.cfg` | under any two of a lost connection, a failing append, snapshot or restore, and a restart: room, store and tabs stay in step, joins leave no gap, actors are distinct, what is relayed is durable, and a board whose room was restored only grows |
| `server_live` | `MCServerLive.cfg` | whatever is recorded reaches every tab, through a lost connection, a refused or dropped frame, a restart or a reload; what is drawn is recorded unless it was refused or lost with its connection, and settled tabs show what the room holds, and nothing else but such drawings of their own |
| `handles` | `MCHandles.cfg` | threads read their own results; every operation is handed out once, or went with a board or a panic; a closed handle stays closed |
| `zorder` | `MCZOrder.cfg` | a new element is painted where it was put, all boards paint alike, what was collected everywhere does not come back |
| `limiter` | `MCLimiter.cfg` | no stretch of time gets more than a burst above the rate; a page at its own pace is never refused |
| `presence` | `MCPresence.cfg` | a session that ended cleanly leaves no cursor, a tab that heard everything shows where the others last pointed, ghosts fade |
| `lobby` | `MCLobby.cfg` | nobody sits in a room that is gone, only the granted are seated, and a tab turned away at the cap gets in once others leave it a room |

Several properties of `server` hold only until a certain failure has happened (`Happened`, `Intact` in `Server`): with a failed
append or restore the room and the rows part, and with a restart connection numbers begin again. The conditions are
written in the properties, so that each is checked under all other failures and their combinations.

One run refutes what a comment says; it is a finding of `PROJECT.json`, with the quotation:

| run | configuration | what happens |
|---|---|---|
| `unrestored_overwrite` | `MCServerRestore.cfg` | a restore fails; the empty room is later filed as a snapshot covering the log |

Other disagreements between the code and its words, with how to see them:

- After a failed append the batch stays in the room and reaches the next tab to join (`main.rs:560-564`, ADR 0007): drop
  `Intact` from `PeersHoldOnlyDurable`.
- After a restart, a tab that kept its board and a tab that opens share an actor (`main.rs:445-447`): drop the condition of
  `ActorsDistinct`.
- A tab closed for lagging while a frame of its own is unread never re-converges (`main.rs:486-490`, `605`;
  `app.js:534`, the outbox is empty by then), although no connection was lost: drop `\ dropped` from `SettledTabsAgree`, with
  three drawings. A proof of `SettledTabsAgree` without it failed at this step.
- Undoing the first fill of a stroke leaves it filled (`board.rs:280-289`): `Mutations <- Styling` in `MCHistory.cfg`.
- Everything drawn offline is sent as one frame (`app.js:530`). Beyond `MAX_OPS_PER_FRAME` it is refused, and the outbox is
  already empty; `room.rs:37` calls the limit "more operations in one frame than a legitimate client sends".
- `Room::accept` compares the number of elements before the batch with the ceiling, so a batch can pass it; `room.rs:123-124`
  says that it cannot. `Server!RoomIsFull` and `Accept` have it as the code does.
- `append` numbers on from the rows that are left, so after `truncate_absorbed` numbers are used again, below the snapshot's
  `through`, and a restore skips those rows; `ports.rs:68-69` asks for increasing numbers. The server never truncates;
  the properties of `store` are claimed until the first truncation only.
- `Snapshot::covers` (`snapshot.rs:83`) compares stamps, and an operation of another actor with a lower stamp that was never folded
  in is covered. What holds is the converse, `AbsorbedIsCovered`.
- `require` (`board.rs:612`) finds deleted elements too, so deleting one twice and undoing brings it back. `VisibleOnly` of module
  `History` is the client's discipline that avoids it; the operators allow the rest.
- Two boards that insert at one place at once get equal keys (`frac.rs:9-10`); the order of ids then decides (`OrderIsTotal`), and
  nothing goes between the two: `InsertedWhereAsked` asks for neighbours whose keys differ.
- That every replica has observed a deletion (`document.rs:181-183`) is enough to collect its tombstone only if no edit of the
  element and no undo of the deletion is still under way: those would bring the element back, without what was collected. In `ZOrder`
  deletions are final and merges carry whole documents, and there the contract suffices (`DeletedStaysGone`).
- A frame beyond the rate is dropped without a word, operations included, and the page believes it was taken. A page that
  sends at up to twice the rate is never closed, since every frame let through forgives a strike (`limits.rs:32`).
  `PoliteIsServed` says for whom neither happens; a network that holds back more than a burst and releases it at once is not
  covered.
- A peer that keeps still vanishes after ten seconds although present, and a last position within the throttle is never
  reported; `lastSent` survives a reconnection, so a pointer that has not moved is not announced to the new session.
  `SettledCursors` is about what was relayed.
- A user may see his own previous connection as a stranger until it has left or expired (`GhostsFade`).
- The idle time of a room counts from its last activity, not from when it became empty (`limits.rs:46`): a
  room whose users were quiet is reclaimed the moment the last one leaves.
- A page whose grant expires while it is disconnected retries forever and shows that its edits are queued, against `app.js:582-584`.

**Bounds.** `MaxOps`, `MaxSteps`, `MaxDraws`, `MaxRead`, `MaxFailures`, `MaxOpens`, `MaxWrites`, `MaxPanics`, `MaxElements`, `MaxActs`,
`WireRoom`, `MaxConnections`, `MaxVisits` and `MaxRestarts` cap the length of a behaviour in the
guards, so a run ends by exhausting them: that is why `CHECK_DEADLOCK` is off everywhere. The limits of the code are
scaled to where they bite.

- `replicas`, `snapshots`, `history`: a history of two, batches of one or two. Two boards with disagreeing clocks, one contended
  slot and two writes each already give every order of write, delete, duplicate and handshake; relays over a third board are
  covered by the proofs.
- `server`, `server_live`: a room of two elements, a channel of one or two messages, snapshots every one or two operations. Two
  failures are enough for the interactions found (a failed restore needs a restart before it); more tabs add
  no kind of step, since a session only meets others through the room. `Faults` selects the failures. Tabs are
  symmetric and declared so in the safety run only. `server_live` has one failure and two drawings, one less than it takes to
  lag with a frame of one's own unread.
- `handles`: two threads, two scopes, two boards of the three handles there are, two operations, one panic: a handle can
  be closed and used again while another is opened, and a result can be read after the other thread's.
- `zorder`: three digits, keys of at most two, four elements on two boards: keys share digits, need a second one, outgrow
  their limit and collide.
- `limiter`: a burst of five, frames of ten parts, a refill of six, intervals of six and five ticks, six frames on the wire: the shares
  of the two streams just fit the refill, and the wire can hold back more than the burst.
- `presence`: two tabs of which one points, at two spots, a channel of two, two connections, cursors that expire after one tick: a tab
  can return while its former session is still being taken down. `lobby`: two tabs, two scopes that are acceptable
  and one that is not, a cap of one room, one restart, two visits, grants that live two ticks.

**Fairness.** `Server!Fairness`: weak fairness on reconnecting (the timer of `onclose`), on the handshake and delivery
steps (sockets that are neither closed nor failing deliver), on the receive loop and the relay task (tokio runs a ready
task). None on drawing, failures, the sweeper or restarts: nothing in the code makes them happen, and failures
are finite in number. `Presence!Fairness`: time passes, and a tab paints (`requestAnimationFrame`); no fairness of sessions or the
network is needed for a ghost to fade. `Lobby!Fairness`: an idle tab knocks (the timer of `onclose`), a task that was aborted ends, time
passes and the sweeper takes its turns, all weak; and strong fairness of `Enter`, that a tab which gets as far as the upgrade again
and again is not cut off every single time.

## 4. What is proved

No run checks an inductive invariant itself: the theorems do, and the runs check the parts that matter to a reader. (Each
was run past TLC before it was proved.) All type invariants are proved but that of `History`, which has none of its own.

`DocumentProofs` and `ReplicasProofs`, for every set of actors, elements, keys, values, command vocabulary, wall clock
readings, handshake topology and bound:

- `InvariantHolds`: `Spec => []IInv`; from it `TypeCorrect`, `DocumentsReflect`, `StampsAreUnique`, `ReplicasConverge`.
- `NothingGoesBack`: no register of any board ever goes back to an earlier stamp.
- `OwnEditShows`: after a local write the board shows what was written, whatever clocks it has heard of; the clock covers
  everything folded in, so nothing but a later write of the same batch can stand instead.
- `ReplicasImplementOpSet`: the boards implement `OpSet`.
- Lemmas on the operators: the stamp order is total; the last write standing in a batch is the latest;
  `ApplyAllReflects` and `MergeReflects` (folding a batch or a document gives a document that reflects the union);
  `ReflectionIsUnique` (a set of distinctly stamped operations has one document).

Assumptions: `ReplicaAssumption`, `WallsAssumption`, `EditsAssumption` and `MaxCounterAssumption`, which only type
the constants, and the guard `CounterRoom`: a write that would saturate the logical counter (2^32 events in one reading) is not
taken, as it would break uniqueness of stamps.

The argument. `DocumentReflectsOps` says that a document holds, for every slot its operations write, the latest of them;
`ApplyAll` and `Merge` preserve it whatever the order, since the latest of a union is the later of the latest. Convergence
then needs that one set of operations has one such document, hence that stamps are unique (`NoTies`). Uniqueness is not inductive: a new
stamp differs from an author's own because the clock covers what the board has seen (`ClockCovers`) and from others' by
its actor, provided an author has folded in all it ever issued (`AuthorHoldsOwn`) and nothing is in flight that nobody
holds (`InFlightKnown`). `IInv` is the conjunction.

`DocumentProofs` also has the snapshots, for every log of distinctly stamped operations (`LogAssumption`; the bounds are numbers,
`ReadAssumption`):

- `SnapshotsReplay`: whatever was absorbed, in whatever order and batches, and merged, materialises into what the loop of
  `op::apply_all` makes of the same operations one by one in any order. It is the proof of the closed form `ApplyAll`.
- `SnapshotsCover`: a snapshot covers every operation it absorbed.

The argument. `SnapshotIInv` says that `read` is what was absorbed, that the document reflects it and that `through` is the highest of its stamps.
The loop is the recursive function `Replayed`; that its value after n operations reflects those n (`IsReplay`) follows by
counting: `CountingUp` says that a set of numbers with 0 in it and closed under successors has every number, which is
the induction theorem on naturals applied to a set, so that no operator is passed.

`StoreProofs`, for every set of operations and every bound on a batch (`MaxBatchAssumption`):

- `LogInvariant`: `Spec => []IInv`; from it `LogTypeCorrect`, `NothingIsLost`, `PagingIsComplete`, `PagesLikeMemory`.
- `LogImplementsDurability`: every step maps to a step of `Durability` or stutters, with `durable <- recorded` and `held <- room`.
- `LogImplementsPorts`: every step of the tables is a step of the in-memory log and its snapshots, with `log` the rows in the
  order of their numbers and `stored` what the snapshot row holds.
- `TruncationIsSafe`, which needs no invariant.

The argument. `NothingLost` does not say how far the snapshot reaches, and so is not inductive: a snapshot written back
and a row appended afterwards must not overlap or leave a gap. `Unbroken` says it: the rows are numbered `1..returned` and are what was
acknowledged, and the snapshot is the prefix of them up to `through`. It holds until the first truncation, after which `append` numbers below the
snapshot; `Consecutive`, which truncation preserves, is what keeps `MAX(seq)` meaningful then.

`ServerProofs`, for every finite set of tabs, every limit, every set of failures and any number of them (`FaultsAssumption`,
`TabAssumption`, `BoundsAssumption`, `LimitsAssumption`):

- `RoomsMatchTheStore`, `DurableBeforeBroadcast`, `PeersShowDurable`: what a restart would restore is what the room holds, and what
  others are told or show is recorded.
- `JoinsLoseNothing`: what a tab has been given, and what is queued for it, is all of the room.
- `SettledTabsShowTheRoom`: when nothing is under way every tab shows the room, and besides it only drawings of its own that
  were dropped.
- `ActorsAreDistinct`; `RestoredBoardsAreKept`, an action property; `ServerTypeCorrect`.

The argument. `IInv` (`ServerInvariant`) has the properties and what makes them inductive. `RoomMatchesStore` needs the rows to be numbered
without gaps (`RowsNumbered`), as a snapshot stands for a first part of them. `JoinLosesNothing` needs that what
is queued is in the room (`QueuesInRoom`), that a session keeps its room in memory (`SessionsHaveRoom`), and
that a tab has what it sends, since its own batches are not echoed to it (`OwnHeld`). `ActorsDistinct` needs that no number is
used twice by one process and that tabs that wait hold no actor a session has (`SessionsApart`, `ActorsReserved`). `SettledTabsAgree` is the
account of every drawing: it is recorded, dropped, in its author's outbox, or on a socket (`Accounted`), and in one of these only
(`OnePlace`, `Numbered`). The type invariant needs that connections do not run out: a session without a tab is left by a failure,
and failures are counted (`SocketsKept`), so that one of `Tab` plus `MaxFailures` numbers is free (`SocketToSpare`).

`ZOrderProofs`, for every base of at least two (`BaseAssumption`), and for every set of boards and every bound on text
(`BoardAssumption`, `TextAssumption`):

- `BetweenIsBetween`: if one key is below another, or either is missing, `between` ends (`Stop` exists), and its key is strictly
  between them, well formed, so that it can be a bound again, and at most one digit longer than both together. The keys may not end in the lowest digit, which keys
  made by `between` never do. The argument is about the first digit with room: up to it the new key copies the lower bound, and the
  upper one binds only while the lower has copied it.
- `ElementsGoWhereAsked`: an element created between two of different keys is painted between them and next to both, whichever
  elements other boards hold and whichever keys are equal. Nothing is claimed of an element whose key outgrew the limit and was dropped.
- `DeletedIsGone`, `PaintOrderIsTotal`, `KeysWellFormed`.

The argument. `BoardsInvariant` adds to the properties that boards mint their elements in order (`MintedInOrder`, so that a new one is new
everywhere) and that a tombstone is only collected once every board has observed it (`CollectedIsSettled`). `InsertedWhereAsked` comes from `BetweenIsBetween`
once the neighbours are known: the board shows nothing between the two elements asked for (`Surrounds`).

`ConnectionProofs`, the budget, for every burst, rate, cost and pace (`RateAssumption`, and `PaceAssumption`: the shares of the two
streams add up to at most the rate and each pays for its interval):

- `BudgetHolds`: `excess` is what a stretch of time got above the rate; it equals `Full - tokens`, which is
  inductive where `WindowBudget` alone is not, and the bucket is never below zero.
- `PoliteNeverRefused`: the bucket covers every frame unread, and what each stream has saved up towards its next one (`Provided`).
  That is preserved while nobody hurries, because each tick refills at least what the two streams save.

`ConnectionProofs`, presence, for every set of tabs and spots and every capacity of the channel (`TabAssumption`, `StaleAssumption`):

- `DeparturesAreClean`: a tab with nothing more of a session queued shows no cursor of it once it ended cleanly.
- `CursorsSettle`: a tab with an empty queue shows the others where they last pointed.
- `PresenceTypeCorrect`.

The argument. Both are about a queue with nothing left of a session; what holds of any queue is `InStep` (`PresenceInvariant`): the last message about
a connection still queued for a listening tab is its latest news, and if none is queued the tab shows the latest already. A
cursor may not follow its own farewell, which needs the order in which the two tasks of a session end (`EndingsOrdered`): a farewell
comes after the relay has ended, and where the relay ended before the receive loop the session was aborted; only a session that was not is
sure to send its farewell after its last report.

`LobbyProofs`, for every set of tabs, scopes and secrets, every cap and time to live (`ScopeAssumption`, `FiniteAssumption`,
`LobbyAssumption`, `TokenAssumption`):

- `RoomsAreBounded`; `NobodyIsLeftBehind`, with the invariant that a seated tab is on its room's channel and a room
  keeps its channel (`SeatInv`, `Furnished`): the sweeper only takes rooms without receivers.
- `OnlyTheGrantedEnter`: whoever is past the handshake was vouched for, and a restart ends every session (`GrantInv`).
- `LobbyTypeCorrect`: in particular there is always a channel nobody is on.

`HandlesProofs`, for every number of threads, scopes and boards below the number of handles (`HandleAssumption`, which stands for fewer than
2^32 boards opened in one process):

- `ResultsStayMine`; `ClosedHandlesStayClosed`, since handles are given out in increasing order and do not wrap (`HandleInv`);
  `DocumentsStayInScope`; `PanicsAreAlone`; `HandlesTypeCorrect`.
- `OperationsHandedOutOnce`: an operation is in one batch, in one thread's unread result, handed out, or gone with a board or a
  panic, and never in two of these. `OnceInv` says that the places are apart and that new operations are numbered
  above all before them (`NumbersIssued`); `Moves` sorts the calls into the ways an operation can move: issued, handed
  to a thread, read by the host, lost.

What is left to TLC: liveness (`EverybodyLearns`, `EverythingIsRecorded`, `GhostsFade`, `CapIsNotForever`), for which the provers
have no fairness; and the properties of `History`. `NothingDurableIsLost` is the one that a run refutes.

## 5. What is not modelled, and the plan

Not modelled:

- geometry, hit testing, rendering, the clipboard and its formats, pointer gestures: presentation, without state others read;
- wire names, serialisation and the types of property values (`prop.rs`, `kboard.js`): values are atoms here. A malformed frame is one that
  is refused;
- `kb_alloc` and `kb_free`, pointers and lengths: the memory of the host;
- HTTP headers, static files, the statistics page, logging: no state;
- the roster of `ports.rs` and the `scopes` and `count` queries of the store: they only read;
- signatures: a grant is a record that nobody can forge; `verify` compares its parts;
- power loss that drops committed transactions (`synchronous = NORMAL`): a stop here keeps what was committed;
- edits of an element, or an undo of its deletion, that arrive after its tombstone was collected: the contract of
  `collect_tombstones` leaves them to the host, and no host in this repository collects.

Order in which the project grew: replication and its proofs; the store and its proofs; the server; snapshots; history; then keys and paint
order, the rate budget, presence, the lobby, handles, and the in-memory ports as a specification of the store.

What would come next: `MintedIsNew` and `UndoWins` as theorems, with the invariant of `Replicas` and one that says that a board's ids are
below its counter; `HistoryWalks` for one user; `TickTimes` as n ticks; and replicas that collect tombstones while edits are in
flight, once a host in the code does.
