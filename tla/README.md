# Verification of the Paralls runtime

TLA+ models of the concurrent and durable core of the backend in
`src/backend/app`, TLC runs that check them on small instances, and TLAPS proofs
for every value of the constants. Paths below are relative to
`src/backend/app` unless they start with `src/`.

## How to run

    tlc -config StoreLifecycle.cfg MCDurableEventStore     # and so on, see "Runs"
    tlapm DurableEventStoreProofs.tla                      # and the others with theorems

The modules with theorems are those named `*Proofs` and `ExecutionCredit`. From
nothing, the two about the runtime process take about twenty minutes each.

`PROJECT.json` lists the runs, the theorems, which source lines every definition
models ("map"), the hazards of the code and the properties that watch them, and
for every property a mutant: a plausible bug, written beside the definition it
replaces (`Put_KeepsPermit` beside `Put`), that makes TLC find the property
violated.

## 1. The system

The backend is one Python process (or two: a transport parent and a runtime
child joined by IPC) that serves a Godot client. Almost all of its state belongs
to one *owner thread*; asyncio tasks, provider threads and WebSocket handlers
hand it commands and wait. Facts are durable in SQLite first and are published
to in-process subscribers from an outbox afterwards.

| Component | State it keeps | Operations | What makes it correct |
|---|---|---|---|
| **Durable event store** `gameplay/event_store.py` | transactions, events, outbox rows, stream heads, last sequence, idempotency results; open transaction, group flags, write readiness | `append_batch`, `group_commit`, `mark_outbox_*`, `mark_projection_refreshed`, `set_write_readiness`, load at start | no torn batch, numbering without holes, one commit per key, answers stay true, groups all or nothing, optimistic reads are current |
| **Outbox dispatcher** `gameplay/dispatcher.py` | page cursor, high water mark; rows of the store | `dispatch_pending`, `_refresh_pending` | at least once, nothing delivered is published again, refresh after delivery, a pass leaves nothing untried behind a bad entry |
| **Runtime execution owner** `services/runtime_execution.py` | queue, `_accepting`, Futures, owner thread, failure | `submit`, `submit_admitted`, nested submission, `stop`, finalizer | no accepted command is lost, permits are conserved, resources close after draining, `True` from `stop` is final |
| **Execution credit** `services/runtime_execution.py` 19-73 | semaphore and counters shared by two processes, lock with a deadline | `acquire`, `release`, `snapshot` | statistics known to an error that is bounded, or "unknown"; nobody blocks on a dead holder |
| **Runtime process / IPC** `services/runtime_process.py`, websocket handler of `services/runtime_asgi.py`, session of `main.websocket_endpoint` | pending correlations, binding revisions, connection barriers, send tasks, four queues | connect, envelope, enqueue, deliver, disconnect, close; the child's receive and control loops | permits follow commands, requests run under their binding and complete in order, nothing of an old binding is written, no session without its websocket |
| **Character cognition driver** `character_agent/services/cognition_driver.py`, `cognition_coordinator.py`, `cognition_admission.py` | durable progress of each admission; leases, active calls, retry times | `poll`, `preempt_actor`, `close` | slots and leases come back, late answers write nothing, every admission ends |
| **Dialogue continuation, provider slots** `services/dialogue_continuation.py` | turns, tickets, receipts; four slots | begin, advance, cancel, disconnect; acquire, submit, close | stale results write nothing, a running call keeps its slot |
| **Activation locks** `character_agent/runtime/runtime_loop.py` | one lease per actor, at most four | begin, finish, reset | one holder per actor, no lease survives its work |
| **Siming pipeline** `services/siming_driver.py` etc. | jobs, tokens, slots | same protocol as cognition | prepared jobs are submitted or given back |
| **Population cadence driver** `world_runtime/population_driver.py` | clock, windows, pause generation, confirmed tick | advance, pause, resume, catch-up, replay | windows in order and once, stale targets dropped |
| **Population continuity** `population_continuity/*` | cadence stream, receipts, two checkpoint generations, hot table; member ledger, activation | publish a window, confirm, restore | windows in order and once, one good generation is enough to start |
| **Godot mirror delivery** `gameplay/godot_mirror_delivery.py` | cursors, acknowledgements | deliver, ack, resync | no gap in what the engine saw |
| **Authority event bus** `services/authority_event_bus.py` | bounded history, identities, subscribers | publish, subscribe, query | duplicates dropped while remembered, fan-out order |
| **Replay and projections** `gameplay/replay.py`, `projection_startup.py` | checkpoints, projections | restore, replay, rebuild | projection equals a full replay |
| **Embodied sessions and settlement** `services/embodied_*` | sessions, settlements | start, step, settle, cancel | one settlement per session, through the store |
| **World storage** `world_runtime/storage_lease.py`, `replay_checkpoint.py` | a file lock, checkpoints | acquire, release, write | one process per world |
| Graph stores, model gateways, TTS, transport, debug stream, `main.py`, Godot client | domain data, HTTP, wiring | | I/O or wiring: seen as the environment of the others |

How they interact:

- Every writer reaches the event store through a command of the *owner thread*
  (`RuntimeExecution`), which in the two-process setup arrives over IPC with a
  permit of `ExecutionCredit` that the parent acquired.
- A committed transaction leaves outbox rows and perhaps a request to refresh
  projections; the dispatcher publishes them on the authority bus, whose
  subscribers run inside the publication and may commit again.
- A websocket of the parent has a session in the child; frames go down the
  commands queue, receipts and disconnects down the controls queue, answers and
  reports come back on results, messages for the socket on notifications. The four
  queues are FIFO each and unordered among each other.
- The cadence driver calls the publisher within commands of the owner thread; the
  publisher writes the cadence stream of the event store, publishes on the bus,
  advances the hot table and saves receipts and checkpoints.
- The cognition, Siming and dialogue parts run their model calls on threads
  outside the owner, within four shared provider slots, and keep a lease on the
  actor while they work; a player takes the actor over from the cognition driver.

The behaviours that are hard: a failure or a crash at any statement or at COMMIT;
the answer given inside a group before its COMMIT; pages read ahead of
publications that commit again; a last submission against `stop`; permits whose
acquirer and releaser are in different processes; commands that the owner runs
between two halves of an asyncio step; expiry, retry and preemption of the same
work; a disconnect that overtakes its connect, a binding that moves while a message
is written; a window that is delivered and not confirmed when the process dies, and a
restore that dies again. `PROJECT.json` lists each at its line.

## 2. The modules

| Module | Models | Rests on |
|---|---|---|
| `GameplayLedger` | what the store promises: an append-only ledger of batches, each admissible after the earlier ones, and answers it supports | |
| `DurableEventStore` | the store | refines `GameplayLedger` |
| `DurableEventStoreProofs` | theorems about it, among them that it implements the ledger | |
| `OutboxDispatch` | the dispatcher over the store's rows | the store seen as atomic calls |
| `OutboxDispatchProofs` | theorems about it | |
| `RuntimeExecution` | the owner thread, with the credit of IPC commands | the credit seen as a counter |
| `RuntimeExecutionProofs` | theorems about it | |
| `ExecutionCredit` | that counter in detail, with its theorem | |
| `CognitionDriver` | the cognition task, leases, slots, preemption | the owner's commands seen as atomic |
| `CognitionDriverProofs` | theorems about it | |
| `CadenceLedger` | what the publication of windows promises | |
| `CadencePublication` | the publisher with its store rows, the bus, the hot table, the checkpoints | the store seen as calls that may raise |
| `PopulationCadence` | the driver's task, pauses, time, crash and restart | extends `CadencePublication`, refines `CadenceLedger` |
| `PopulationCadenceProofs` | theorems about both | |
| `RuntimeChannels` | the queues between the two processes, the credit, whether the child lives | |
| `RuntimeParent` | `RuntimeProcess` and the websocket handler | the channels |
| `RuntimeChild` | `_run_child`, its connections and the session of a websocket | the channels; the owner thread seen as a FIFO of calls |
| `RuntimeProcess` | both and the disturbances | |
| `RuntimeProcessProofs` | theorems about the two processes: types, permits, the fence, sessions | |
| `RuntimeDeliveryProofs` | theorems about what they agree on and what a client is sent | `RuntimeProcessProofs` |
| `MC*` | the small instances | |

### DurableEventStore

`tables` is the committed database and `work` the database inside the open
transaction, equal to it when none is open. `owner` is the holder of the store's
lock and of the transaction; `group`, `groupFailed`, `writeReady` are the code's
flags. A call is three steps: `CallAppend` fixes the batch with revisions the
writer read some time before (`ReadHeads`); `Reject`, `Replay` or `WriteRows`
does what `_prepare_append` and `_write_delta` do, in the order of the code
(idempotency before revisions before identities), and `WriteFails` stops after
any prefix of the statements or within one that inserts several rows; `Commit` and `CommitFails` end the transaction
outside a group. `CommitFails` covers both outcomes of a COMMIT that raised.
Inside a group, answers go to `answers` and become reliable (`acked`) only with
`GroupCommit`. `Crash` keeps `tables` and loses everything else. An
`AtomicEventBatch` is reduced to its identities, streams, expected and read
revisions, outbox entries and refresh hint. Payloads, digest computation,
Pydantic validation and the in-memory mirror of the tables are left out.

`GameplayLedger` says the same without transactions, flags or stored heads: a
set of batches with their results, extended by batches that `MayFollow`, and
answers only to what it holds.

### OutboxDispatch

`stack` holds the passes that run, a subscriber's nested pass above the one that
published; each frame is a pass's high water mark, cursor, page read ahead,
remaining limit and what it attempted (the code's lists `published` and `failed`, and
the transactions it asked a refresh for). The two production dispatchers are constants
(`Dispatchers`): the general one of `main.py`, without topic or limit, which
refreshes; the one of `population_continuity/runtime_publication.py`, topic
cadence, limit 1, with a transform. (That module marks refreshes itself at
245-252; its pass therefore has `refresh |-> FALSE`.) `Publish` runs the
subscribers, `PublishFails` is an exception anywhere in it, `StoreFails` one in a
read or a mark, whose COMMIT may be durable nevertheless (`RefreshFails` likewise),
`Crash` loses the passes. The attempt count is left out: marks
increment it and no decision reads it.

### RuntimeExecution

`_submit` checks `_accepting` and takes a permit under the lock
(`EnterSubmit`, `EnterAdmitted`), puts the command in the queue (`Put`) and
registers the callback that returns the permit (`Register`): three steps, as the
owner takes commands out of the queue without that lock and may even finish one
before its callback is registered. The owner is a program counter over `_run`,
`_drain` and `_execute`. `Reserve` and `Refund` are the parent's acquire and the
child's release of an IPC command; `Cancel` is a caller that cancels its Future;
`stop` is called from outside with a timeout that may expire, and from the owner.
The future `closed` of `start` is never cancelled by any caller and is not
modelled. Loss of the child process is not modelled either.

### ExecutionCredit

One step per statement that another process can see: the semaphore, the lock with
its deadline (`TryLock` may always give up), the two counters, the failure mark.
A caller may be killed before any of them (`Die`): one that holds the lock keeps it
(nobody frees the lock of a dead process, and the two counters it was updating are then
never read again), and one that moved its permit without the lock never marks the
statistics (phase `lost`). The second makes the reported peak wrong for good, so no
property says that it is exact: `StatisticsBounded` says by how much it may be off.

### CognitionDriver

A command of the driver runs on the owner thread as one step (`ListKeys`,
`Accept`, `Prepare`, `Close`); what the asyncio task does with the answer is the
next step (`Accepted`, `Prepared`), and any other command, such as a player's
`PlayerTurn` (`preempt_actor` and the player's own activation), may run between.
`PlayerFails` is the preemption of a goal proposal whose lease expired while its command
ran: `_stale` raises, the player gets no turn and the lease stays until the driver,
which the same expiry ends, releases it.
`progress` is the durable stage and status of each admission; what `_prepare`
does in one command (entry, effects, freezing a request) is collapsed into its
outcomes: a request to submit, an end, a stale admission, or "later". `Init`
allows the statuses an earlier process may have left. `lease` stands for `_handles` and
`_activation_handles`, which change in the same commands. `slot` is a slot with
its call: a slot closed while its call runs gives its permit back only when
the call ends. Cancellation of the task is noticed at every await, after the
command it waited for, as `_owner` waits. `ExpiresInside` is a goal proposal that
expires within the command that handles it. An optional pin that changed is a
choice of `AcceptStale` and `PrepareStale`.

### CadencePublication, PopulationCadence

A window is its end, counted in windows. `log` is the cadence stream, `delivered`
and `domainDone` the outbox rows, `receipts` and `slots` the receipt and the two
alternating recovery checkpoints; they survive a crash. `step` is where
`RuntimeCadencePublisher.__call__` stands: `Begin` answers a window that is confirmed or
refuses one out of order; `NoDomainDue` and `DispatchDomain` are `_dispatch_domains`, first
and last; `Admit` is the transaction with both outbox rows; `Publish` and
`MarkDelivered` are `dispatch_pending(limit=1)` with the fan-out; `ConfirmHot` and
`SaveReceipt` are `_confirm`. `StoreCall` lets every store call raise before or after its
effect is durable. A call runs within one command of the owner thread, so nothing
interleaves with it but a crash. `Refused`, `Suffix` and `Replayed` are
`_restore`: the newest usable generation, the tail that may follow it, the windows
confirmed again. The control of the task is in `PopulationCadence`: `Observe` fixes the
target of an iteration, `DropTarget` notices a mode change between two windows,
`CallPublisher`, `Advance`, `Notify` and `Reject` are `tick`, `Rest` computes the sleep.
`wall` chooses between the profile with a wall period and the production profile.

Left out: authorisation and the pins of a window, the contents of projections and of a
domain message (it is due or not, `DueWindows`), the migration of the time profile, the
member ledger, and damage to receipts and to the stream itself, with the checks of `_restore`
that only such damage can fail (the outbox anchor, the domain admission of the last
window). A redelivered event equals the first one (the code compares digests). A
container that is no valid checkpoint is a `malformed` slot and skipped; one that cannot
be decompressed is `unreadable`, and `_restore` raises; a checkpoint whose
anchor fails is not `Usable`. A clean stop loses the same memory as a crash between two
commands. Time within a command is modelled after it.

### RuntimeProcess

A connection of the model is one websocket, as neither `connection_ref` nor
`connection_generation` comes back. The parent's worker is a program counter over
`process_frames`; `Connect`, `SendEnvelope`, `Enqueue` are the calls it makes,
`EndWorker` the handler's `finally`. `sends` is `_send_tasks`: `BeginWrite` makes the
checks of `_deliver` under the send lock, `Write` is the socket, `FinishDelivery` the
receipt to the child. `Read*` are the branches of `_read_results`.
In the child, `Receive*` are the branches of `receive`, `Control*` those of `control`;
`chan[c].at` is where the session of `websocket_endpoint` stands, from `receive_json`
through `admitted_commands.join()`, the call of the owner thread, `synchronize_binding`
and the answer, to its `finally`. `syncs` are the publications of binding revisions in
flight, `admitted` and `pump` the enqueued commands and the task that completes them,
`sending` the message under the session's `send_lock`. `Cancel` is `task.cancel()` at
each of these awaits. An envelope that changes the binding (`Rebind`), a completion withheld for its authorisation (`Withhold`) and a revocation from elsewhere
(`Revoke`) are choices.

Left out: HTTP requests, health reports and the start of the child; the clock of leases
(a write on a bound connection may fail); the mirror, dialogue and debug tasks of a
session; batches of the pump; what a command does. The queues are never full in the
instance: with a full controls queue and a full results queue each side would wait for the
other, which the code ends only by the 15 seconds of `close`.

`readers` are `_read_results` and `_read_notifications`. A failure does not stop them: they
go on with the tables cleared, so that an answer still queued is unknown and the reader
fails the process a second time (`Reject`), which replaces the reason. A reader ends then,
at "stopped", or when `close` has seen the child's death (`ChildEnded`, `EndClose`). The
death of the *parent*, which the child's `watch_parent` notices, is not modelled, as nothing
of what is stated here outlives the parent. `ReceiveConnect` contains the calls of the
owner with which a session begins and the late setting of `runtime_enqueue`
(`main.py:3504-3506`, `3703`, `4139-4140`). A request admitted between the end of a
cancelled pump and the drain of its queue (`main.py:4357-4363`) may be dropped there without a
report in the code; in the model it starts the pump again. The parent forgets its entry at
the disconnect in either case.

## 3. Runs

| Run | Instance | What it shows |
|---|---|---|
| `StoreLifecycle` | 1 writer, 3 commands, 2 streams; 365 thousand states | `NoTornBatch`, `AckedIsDurable`, `LedgerOnlyGrows`, `GroupAllOrNothing` under every failure point |
| `StoreRace` | 2 writers, 3 commands that share a stream or an identity; 2.7 million states | `NumberingContiguous`, `ReadsWereCurrent`, `AtMostOncePerKey`, and that the store implements the ledger |
| `OutboxPasses` | 3 transactions, 3 entries, one never publishable, 3 further faults | what passes may publish; that they return, and then leave no entry untried and no due refresh unasked |
| `OutboxNested` | the same, passes nested two deep | `DoneWasPublishedAndRefreshed` still holds |
| `Execution` | 2 local commands and 1 over IPC, 2 permits, queue of 1 | conservation, no loss, orderly closing, and that commands, permits and `stop` come to an end |
| `Credit` | 3 callers, 2 permits, 1 failed statistic | how far a reported peak may be off, and that calls return, with kills at any statement |
| `CreditSnapshot` | the same | finding: a snapshot may pair a new use with an old peak |
| `Cognition` | 1 ordinary admission and 1 goal of one actor, 2 actors, 1 slot, 1 lease, 1 retry, slots lent to others; 151 thousand states | slots and leases are conserved and come back, ends are final, ordinary admissions end unless an expired goal proposal took the last slot for good |
| `CognitionHandoff` | the same with 2 slots | finding: a preemption can end the driver |
| `CognitionGoal` | the same with 2 slots | finding: an expired goal proposal never ends |
| `PopulationCadence` | 2 subscribers, history of 2, a checkpoint every 2 windows, 5 windows, 3 faults, 2 pauses or resumes, both profiles; 4.9 million states | windows in order and once for the store, the subscribers and the bus; paused time is not caught up; one usable generation is enough, if both can be read |
| `RuntimeProcess` | 1 websocket, 3 frames, 1 request id, 1 disturbance; 708 thousand states | permits, bindings, the order of completions, fencing, no orphan session, nothing held when idle |

`TypeOK` of the modules without a type invariant in their run (`OutboxDispatch`,
`ExecutionCredit`, `CognitionDriver`, `PopulationCadence`, `RuntimeProcess`) was checked on
the same instances.

### Why the bounds are enough

- *Store.* The hazards need: two events of one batch on one stream, an outbox row,
  two streams, a read set that differs from the write set, a key used with two
  digests, one transaction or event identity under two keys, and two writers with
  old views. The two instances contain each of these, the lifecycle with all
  failures and the race with all interleavings (failures included). More commands
  would repeat these pairs.
- *Outbox.* `PageSize` 2 with three entries makes a pass read a second page, stop
  within a page and read ahead; the transactions are one with two entries, one with
  a compact record, one without entries. `MaxFaults` bounds crashes and chance
  failures; `Poison` failures are not bounded. `MaxDepth` bounds nesting.
- *Execution.* Two permits for three commands and a queue of one reach "no permit",
  "queue full" with an own and with a transferred permit, and a command that
  finishes before its callback is registered. Each command is submitted once.
- *Credit.* Three callers are needed for a killed holder, one that gives up on it
  and one that looks. `MaxFailed` stops new calls after failures, so that the drift
  of the counters stays finite. `CHECK_DEADLOCK FALSE`, as all callers may be dead.
- *Cognition.* One ordinary admission and one goal contend for an actor and for the only
  slot, and the second actor lets the player use up the only lease. A goal proposal that
  expires takes every slot there is, and slots lent to others (`MaxOthers`) empty the pool
  as well. The page of 32 pending admissions is never full. With two slots, so that both
  calls run at once, the same properties hold (279 thousand states), and so they do for two
  goal proposals and an ordinary admission on two slots (1.8 million states, one actor, no
  retry). The slots that others take are finitely many: dialogues that take every slot as
  soon as it is free would hold up an admission as well. Three admissions and two actors
  without liveness (15 million states) satisfy the same safety properties.
- *Population.* Five windows with a checkpoint every two write both generations and
  one of them again. A damaged newest generation and a restore that dies while it
  rewrites it take three faults with the crash before them, which the run has (checked by
  asking TLC for such a behaviour); four faults, without pauses and domain work and with one
  subscriber and six windows (180 thousand states), satisfy `OneGenerationSuffices` as well.
  With `Period` 1 the task may fall behind the clock by more windows than one iteration may
  run (`CatchUpLimit` 2). The profile with a wall period, `Period` 2, three mode changes,
  one fault, six windows and `MaxTime` 7 (754 thousand states) satisfies the same
  properties. The time bound stops the model, hence `CHECK_DEADLOCK FALSE` and no
  liveness.
- *Process.* Three frames are two requests around an envelope or two envelopes around a
  request, so an admission waits for a barrier, a completion waits for its admission,
  and a request id is used again. `Capacity` 8 is more than the instance needs. Two
  disturbances (4.4 million states) satisfy the same properties. Two websockets
  share only the tables' room, the credit and the owner thread; without frames and with two
  disturbances (69 thousand states) they satisfy them as well, and no instance with frames
  was run to its end. `CHECK_DEADLOCK FALSE`, as clients need not send.

Where the next-state relation never stops by itself, deadlock is checked. In
`RuntimeExecution` the end is a stuttering step that requires every thread to have
come to its end.

### Fairness

- *Outbox:* a pass that runs goes on (`WF` of `Step`), being sequential code. Nobody has
  to ask for a pass: the code asks at startup (`main.py:2246`), after gameplay commands,
  in the embodied services and per population window (`runtime_publication.py`), and no
  timer does, so that an entry is delivered in the end is not something the code
  promises. What it promises is said of each pass that returns (`EveryEntryTried`,
  `EveryRefreshAsked`).
- *Execution:* the owner thread runs; a command that may nest again and again ends
  in the end (`SF` of its return); a thread inside `_submit`'s lock, a thread that
  cancels and the child's receive loop go on. Nobody has to submit, cancel or stop.
- *Credit:* callers that are alive go on. Nobody has to release the lock.
- *Cognition:* the owner thread and the event loop go on, a provider call ends (its
  HTTP client has a timeout), other users give slots back, and time passes. A player need
  not come, nor leave.
- *Process:* `FairSpec` (both event loops, the owner and the queues' feeder threads run)
  is used outside the runs: with two frames (84 thousand states) `DisconnectEnds` and
  `RequestEnds` of `MCRuntimeProcess` hold, `ShutdownDrains` does not (below). `QuietMeansReleased` says the safety half of it: in
  a state where neither process can do anything, nothing is held.

### Findings

1. `CreditSnapshot`: a call that gave up on the statistics lock moves the semaphore
   before it marks the statistics as failed, so `snapshot` can report one permit in
   use and a peak of zero, while its comment says it reads consistent values.
2. `CognitionHandoff`: `poll` keeps a snapshot of `_active` across awaits;
   `preempt_actor` pops the same key on the owner thread; line 245 then raises
   `KeyError` and the cognition of every actor stops.
3. `CognitionGoal`: a goal proposal holds no lease during its model call; after its
   expiry no lease can be had, and without one it is neither accepted nor made
   stale. If its call ran, the slot is never returned either, and as many such proposals as
   slots (four) leave none to ordinary admissions and dialogues: `OrdinaryEnds` has to
   except that state (`Stuck`).

Found while modelling, with a counterexample of TLC where one is possible, and part of no
run. The statements of the first four are in the `MC*` modules; the instances are those of
`CognitionHandoff`, `PopulationCadence`, `RuntimeProcess` with one frame, and
`RuntimeProcess` under `FairSpec`.

4. `PreemptedIsCancelled`: a preemption between the answer of `_prepare` and the submit
   does not cancel the call, which starts for an admission that is stale by then
   (`cognition_driver.py:253-262`).
5. `BadContainerIsSkipped`: a checkpoint container that cannot be decompressed any more makes
   `_restore` raise, although the other generation is good; the comment at
   `runtime_publication.py:274` says that a bad container must not prevent reading it.
6. `IdleIsDrained`: a worker cancelled in `envelope` leaves its barrier to the child's
   report, as a cancellation is no `Exception` (`runtime_process.py:258`). If the child
   refuses that envelope because the disconnect has overtaken it and ended the session, no
   report comes, and `_disconnect` clears only the requests. The entry stays until the
   process ends, and the table of 128 shrinks. `wait_for_process_drain` in
   `src/scripts/verification/verify_population_service_isolation.py` waits for a parent
   without one, which then never comes.
7. `ShutdownDrains`: `close` sets `_closing_event` first; from then on `_read_results` drops
   the receipt of a binding revision (`runtime_process.py:468`), while the session's
   `finally` waits for the publication of its revocation (`main.py:4396-4397`). A child
   whose session is revoked at that moment never stops by itself and is terminated after 15
   seconds, its owner thread with it. The comment at `runtime_process.py:795` says control
   goes on serving the sessions there are.
8. `src/docs/runtime-enqueue-protocol.md:15` says of `accepted=true` that the command entered
   the owner's bounded queue; the parent sends it when the command entered the IPC queue,
   and the child may still refuse it (`ReceiveEnqueue`; the socket is closed then).
9. `task.cancel()` reaches the session although its `finally` is inside a shielded
   `CancelScope`, which shields against cancel scopes only: a disconnect while it waits for
   the pump (`main.py:4359`) skips the unbinding (`Cancel` at "pumpWait").
10. In the production profile a pause and a resume while the first command of an iteration
   waits for the owner are counted as active time (`observed_at` is `iteration_started`,
   `population_driver.py:312`), the milliseconds of that wait. `CatchUpOnlyForActiveTime`
   is therefore stated for the wall profile.

With other instances, and part of no run: with `MaxDepth` 2
`UndeliveredMeansRefreshPending` and `DeliveredNotPublishedAgain` fail, as the outer
pass goes on with a page it read before the inner one. No production subscriber
starts a pass, which is why these two are checked with depth 1.

## 4. Proofs

All theorems are about `Spec`, any constants that satisfy the modules' named
assumptions, and unbounded behaviours.

**RuntimeExecution.** `TypeCorrect`, `CreditIsConserved`, `NothingIsLost`,
`ClosesAfterDraining`, `StopIsFinal`, for any finite set of commands, capacity and
queue length. The inductive invariant adds to the properties themselves:
`OwnerTask` (the owner has a task exactly in the program counters that work on
one, and its Future has ended in "notify" and "stats"), `CallbackAfterReturn` (no callback
before `_submit` returned) and `StoppedIsDead`. `ClosesDrained` alone is not
inductive: it needs that a command inside the locked section keeps the owner from
leaving its loop, and that an accepted command is in the queue or in the owner's
hands (`NoCommandLost`). `CreditStep` and `PermitsAddUp` turn each action's change
of one command's claim into the change of the cardinality; `QueueMembers` says
what appending to and taking from the queue does to membership.

**DurableEventStore.** `TypeCorrect`, `ExactlyOnce`, `AnswersAreDurable`,
`NothingIsDropped`, `GroupsAreWhole`, `BatchesAreWhole`, `NumbersHaveNoHole`, `CitedHeadsHeld`. For the
first four the invariant is `ControlOK /\ TablesOK /\ WrittenIsOwn /\
Backed`: the tables are well formed with one transaction per key and identity; a
writer in "written" owns the transaction and its batch is in `work`; `work`
extends `tables` and equals it while nobody owns the lock; reliable answers are
supported by `tables`, answers inside a group that has not failed by `work`. Exactly-once needs the
second state of the database: `AtMostOncePerKey` of `tables` says nothing about
what a COMMIT brings in. `StatementsAdd` and `MarksKeepRows` say what
the SQL statements and the marks do to the tables; `ExtendsTransitive` and
`SupportsMonotone` carry answers from a table to any that extends it.

`GroupsAreWhole` (`GroupAllOrNothing`) adds `FailedDooms`: a group that told a failure is
doomed, and stays so until its scope closes. A group that is not doomed commits `work`,
which supports every answer it gave; a doomed one leaves `tables` as they were.

The other three say that the committed tables are `Sound`: `Whole`, `Numbered` and
`Current`. `SoundInv` asks the same of the open transaction unless its group is doomed,
since a failed statement leaves a torn batch there that only a rollback removes; that a
doomed group cannot commit is what keeps it out of `tables`. `BatchNumbered` is the
counting: the rows of a batch are in bijection with its events (`RowsOfBatch`), and the
revisions a batch adds to a stream are 1..n beyond its head (`PlacesRanked`, from the
lemmas `RankOrders` and `RankOnto`). `BatchCurrent` needs the numbering: the head before a batch is
the number of rows below its first sequence.

**GameplayLedger.** `StoreImplementsLedger`: `DurableEventStore` implements it, with the
committed transactions without their refresh state as the ledger. `LaidInv` says that
"last" and the heads, which the tables keep incrementally, are the counts the ledger takes
from its batches, that each batch may follow the earlier ones, and that the open
transaction, unless doomed, has only batches beyond the committed ones (`Beyond`). The
last part is why a COMMIT, also one of unknown outcome, is one step of the ledger.

**OutboxDispatch.** `DoneNeedsPublication` for passes nested to any depth;
`SnapshotIsAccepted` and `PublishedOnce` under the stated `MaxDepth = 1`. The first rests
on `Published` (an entry that is marked delivered, or that a pass is about to mark, was
sent). The others need what a pass knows of its page: the entries read
ahead come after the cursor in their order (`PageIsOrdered`) and are undelivered, as
nobody else marks them (`Alone`), and the stored rows agree with the marks (`Stored`).
The proofs need the set of entries to be finite (`OutboxAssumption`), as a database's is.

**ExecutionCredit.** `ReportedStatisticsBounded`, for any finite set of callers, any
capacity and kills at any statement. The
invariant says who may have changed the counters without the semaphore or the other way
round: `LockOwner` (the holder of the lock is the one caller inside the locked section)
and `Bounded` (what the counters lack is the step that caller is at and the updates that
were moved without the lock and are not marked, whose number the lemmas `UnmarkedSame`
and `UnmarkedOneMore` follow).

**CognitionDriver.** `SlotsAreConserved`, `NothingHeldAfterClose`, `EndedForGood`, for any
keys, actors and numbers of slots and leases. `Balance` counts slots; `TaskKnows` says
what the task's program counter implies about the admission in its hands between the
owner's commands; `SlotsKnown` that a slot in use belongs to an active admission or is
closed under a running call. Balance alone does not tell whose slots are left at
the end. `GoalsUnleased` adds that no goal proposal has a lease and a running call, so that a
preemption that fails closes no slot under a running call of an admission that goes on.

**PopulationCadence.** `CadenceImplementsLedger` (the refinement of `CadenceLedger`) and
`SubscribersSeeInOrder`, for any number of subscribers, limits, due windows and faults.
The inductive invariant `IInv` adds to `SeenInOrder`: `Ordered` (the window of revision i is
i), `Rows` (only the newest window may be undelivered or unconfirmed, at most one domain
message is open), `Ticks` (the confirmed tick of a live process is at most one window
behind the stream, and everything up to it has a receipt), `Stands` (what the call has
established where it stands) and `Seen` (every subscriber knows a window whose row is about
to be marked). The
properties alone are not inductive: that a window is admitted only after the one before is
confirmed follows from the confirmed tick, which a restart recomputes from checkpoints.

`WindowsStoredOnce` (`StoredOncePerBus`) is stated for a bus that remembers two identities
of the type or more; `main.py:2068` sets two. What can be published again is the newest window while its row is undelivered; once
stored, it is still remembered, as at most one domain message was stored after it (`Recent`).
With a history of one it fails: the property's mutant evicts one identity too many. `PausedTimeNotCaughtUp`
(`CatchUpOnlyForActiveTime`) rests on `Budget`: the windows run so far, those up to the
origin of a catch-up and those up to its target all cost no more than the unpaused time,
the last two while no pause has come since the task last looked (`Steady`); this is
why the check between two windows must compare the pause generation and not only the mode.

**RuntimeProcess.** For any websockets, request ids, capacities, frames and disturbances.
`RuntimeProcessProofs` begins with the types of all variables (`TypeInv`), and what each
action does to each field of `conn`, `worker` and `chan`; the rest cites those lemmas
instead of the actions; it ends with the first half of the argument about bindings. The
last three theorems are in `RuntimeDeliveryProofs`.
- `TypesCorrect` and `PermitsAreAccounted`: command numbers grow along the queue and the
  child takes them in order (`CommandsOrdered`), so a step adds or takes one command of a
  known kind, and `PermitsInv` counts permits, queued requests and the owner's queue.
- `OldBindingsAreFenced` (`FenceHolds`): `FenceInv` says that the child never knows of a
  revision the parent has not taken over, that no receipt on its way says more, that a
  message being written has the parent's revision, and that a send bears the name of its
  connection and kind. A binding that moves cancels the writes of the old one first, which
  is the case a write in progress depends on.
- `NoSessionIsOrphaned` (`NoOrphanSession`): `OrphanInv` says when a session is excluded
  (`NoneComes`: it is not there, and a connect on its way will be ignored because the
  child remembers the disconnect), and that whatever makes the parent give a connection up
  excludes it: a refused connect (`ReportsTrue`), the end the child reports, also for a
  disconnect that overtook its connect. It needs that a connect has a number of its own, which
  its disconnect repeats (`ConnectsNumbered`), and that a session begins once (`BeginsOnce`). TLC
  checked the invariant with one websocket and with two.
- `BindingIsKept` (`BindingKept`): the revision a request carries is the parent's, so the
  proof is that the parent's is the session's when the request passes, and that the session
  does not rebind before the command has ended. `BindingInv` has six parts. The envelopes
  of a connection are handled and reported in order (`EnvelopesInOrder`), therefore the
  newest barrier stands for every envelope that is queued, with the session, or reported
  and not yet read (`BarriersHold`), and a request that passes it finds none. A session
  that handles no envelope has published its last revision and heard of it
  (`SessionsPlaced`), the parent is not ahead of it (`RevisionsBehind`), and what the child
  knows the parent has taken over (`FenceInv`, the invariant above). In the
  other direction an envelope behind a request waits: it is behind it in the queue, and in
  the session its call waits until nothing admitted is left (`RequestsWait`); a session
  rebinds only at the end of such a call, so `RevisionKept` survives.
- `NoProtocolErrorArises` (`NoProtocolFailure`): the first failure is never a protocol
  error. (After another failure has cleared the futures, a queued answer is one, which the
  model reaches.) The parent takes three things for a protocol error, and `AgreementInv`
  has a part against each, the first one as long as nothing has failed. An answer nobody awaits:
  while the parent runs, the commands queued and the answers on their way are about
  pending calls, and each call has one of them (`AnswersAwaited`). A binding that is not
  the next revision, or is valid again after a revocation: at most one report of a session
  is on its way, or the receipt for it; the report is the revision after the parent's as
  long as the connection lives, and the session's publications are the revisions after the
  one it knows, without a hole (`StatesFollow`). A message that is being sent already: the
  messages on their way have different identities (`NoticesOnce`), since a session hands
  over one at a time, about an envelope or a command later than all it sent
  (`SessionSends`). A cancelled wait frees the lock before the receipt is back, so a later
  message may be out beside an earlier one, or the receipt for it; the numbers make that
  harmless.
- `CompletionsAreInOrder` (`CompletionsInOrder`): `DeliveryInv`, above all the others. The
  order: at most one completion of a session is on its way (`OneAtATime`), because the
  lock is held until the receipt is taken, and what frees it sooner leaves a session that
  sends none any more (a publication of its binding was lost, or its cancelled pump is
  gone); so what is still to be written is about a later command than what was
  (`Unwritten`), though each message is written by a task of its own. The admission first:
  everything that leads to a completion, from the command in the queue to the send task,
  is about a request whose admission was written or that keeps its place in the parent's
  table unacknowledged (`AdmissionsFirst`), unless its connection is closed, and then
  nothing of it is written. The place is freed by the end of the request only after the
  acknowledgement, which is what makes the wait of `_deliver` for it safe.

TLC checked the inductive invariants of the last two on `MCRuntimeProcess` before they
were proved.

**Only model-checked:** `QuietMeansReleased` of `RuntimeProcess`, which uses `ENABLED`;
`OneGenerationSuffices` of `PopulationCadence`, as the slots a restore rewrites are a
recursion over the tail; every liveness property. Liveness under
fairness and `ENABLED` are out of the prover's reach, as is induction over recursive data;
no module here declares a `RECURSIVE` operator.

## 5. Not modelled

- Crash recovery from a damaged database, the migration of legacy snapshots,
  history queries, archive and checkpoints of the store: linear code without
  interleaving. The in-memory store is the same preparation without
  transactions.
- `GameplayBusSequenceConsumer`, which only tests use.
- Of the IPC protocol: HTTP requests, health reports, the start of the child, full
  queues and the death of the parent (`watch_parent`); of a session: its mirror, dialogue
  and debug tasks, its calls of the owner before the first frame, and a request admitted
  between the end of its cancelled pump and the drain of the queue.
- Of the population: the member ledger, the activation of actors, the contents of
  windows, and the migration of the time profile.
- The failing release of an activation lock in the cognition driver
  (`cognition_activation_cleanup_pending`), and the delivery of completed
  admissions to the transport.
- The parts marked `not_modelled` in `PROJECT.json`, with the reason there.

## 6. Plan

Done: the store with its ledger, the outbox, the execution owner and its credit, the
cognition driver, the population cadence, the two processes; proofs about all of them.
Left, in this order:

1. **RuntimeProcess:** HTTP requests, full queues and the start of the child; an abstract
   specification "each request is answered at most once, under its own binding".
2. **Authority bus:** the routing of topics and queries over the bounded history, composed
   with `OutboxDispatch` in place of `sent`. `CadencePublication` has the fan-out, the
   history and the identities of the population topic only.
3. **Dialogue turns** on the slots and leases of `CognitionDriver`, and the **Siming**
   pipeline, which follows the same protocol with tokens.
4. **Godot mirror delivery, embodied sessions, the member ledger.**
