# Reaper: models, checks and proofs

TLA+ modules for Reaper, a durable-promise runtime in Python over PostgreSQL.
They are read beside the code: every action names the behaviour it stands for,
and `PROJECT.json` maps each definition to the lines it models.

- [The system](#the-system)
- [What is modelled where](#what-is-modelled-where)
- [The store](#the-store)
- [Tasks and replay](#tasks-and-replay)
- [The pool](#the-pool)
- [A skeleton process](#a-skeleton-process)
- [Supervision](#supervision)
- [Runs](#runs)
- [Disagreements between the code and what it says](#disagreements)
- [Proofs](#proofs)
- [Not modelled](#not-modelled)

## The system

A client submits *calls* and *timers* to tables in PostgreSQL. Each has a row in
`promises`; a call also has a row in `tasks`. A pool of *skeleton* processes
claims tasks, replays the durable function, and settles, retries or suspends it.
Maintenance skeletons sweep deadlines and delete old graphs.

| Component | State | Operations | Talks to | Hard behaviours | What makes it correct |
|---|---|---|---|---|---|
| Durable store (`schema.sql`, `*/queries/*.sql`) | promises, tasks, waits; `pending_waits`, `failures` | SUBMIT_CALLS, SUBMIT_TIMER, CLAIM, LOCK_PROMISE, SETTLE, RETRY, SUSPEND_TASK, PROCESS_DUE, DELETE_EXPIRED | every session, by rows and row locks | a statement's snapshot is older than the rows it locks; several statements count the same counter down; a claimed task's deadline passes; ids come back after deletion | a suspended task is resumed when, and only when, what it awaits has settled; a promise settles once; a claim is exclusive; only settled graphs are deleted |
| Task claims (`tasks/__init__.py`) | one transaction from claim to outcome | submit, settle, retry, suspend, release | store, database | rollback at any point; submissions coalesced between coroutines | everything an attempt did appears at once or not at all |
| Database cleanup (`database/__init__.py`) | a leased connection | acquire, commit, release, close | claims, listener | cancellation between two cleanup steps | no connection goes back with an open transaction |
| Durable functions (`promise.py`) | replay context, schedule of children | call, spawn, join, sleep, suspend | claims | the order of submissions must be the same in every replay | ids are deterministic; a result is used only when it is settled |
| Worker loops (`worker.py`) | backoff, excluded functions | poll_tasks, poll_maintenance | claims, skeleton | a poll that fails, a stop in the middle of a task | one failing poll does not end the loop |
| Listener (`postgres.py`) | connection, generation, probe | listen, probe, recycle, wait | workers | notifications lost while no connection listens | a worker polls after every gap |
| Reaper core (`control.py`) | slots by descriptor, expected spawns, job queue | START, RECOVER, SPAWNED, SPAWN_FAILED, READY, SUBMIT, RESULT, EOF, SEND_FAILED, CLOSE, DEADLINE | pool driver, by effects | events about an older owner of a descriptor; spawns in flight when the pool closes | never more than `target`; a job in one place; no job next to an idle slot |
| Pool driver (`pool.py`, `SkeletonPool`) | slot objects, retired slots, jobs and their futures, recovery, circuits | start, submit, drive, read_slot, lose, recover_after, send_run, finish_close, monitor_heartbeats | core, children, clients | `drive` suspends between two effects; readers are cancelled; threads reap children | a job's future is always settled; close ends; capacity comes back |
| Skeleton child (`pool.py`, `skeleton.py`) | lifecycle reducer, current work | child_loop, service_child_loop, watch_parent | driver, by a socket and a death pipe | the parent dies or goes silent | a child ends when its parent does |
| Control messages (`pool.py`) | per-socket lock | send_message, read_message | driver, child | partial reads | a message is read whole or not at all |
| Process integration (`cli.py`, `systemd.py`, `settings.py`, `log.py`, ...) | none to speak of | start up, notify | — | — | pure I/O |

`PROJECT.json` lists, under `hazards`, each place where one of these behaviours
bites, with the properties aimed at it.

## What is modelled where

| Module | Models | Extends / instantiates |
|---|---|---|
| `DurablePromises` | what the author of a durable function may rely on (abstract) | — |
| `ReaperStore` | tables and transactions | instantiates `DurablePromises` with a refinement mapping |
| `TaskExecution` | one claim: its connection, its transaction, the submissions and the outcome | — |
| `DurableReplay` | a durable function that is run, suspended and run again from the start | extends `TaskExecution` |
| `ReaperCore` | the pure reducer of `control.py` | — |
| `SkeletonPool` | the asynchronous driver, the children and the clients of one pool | extends `ReaperCore` |
| `SkeletonLifecycle` | the reducer of `skeleton.py` | — |
| `TaskListener` | the listening connection of `postgres.py` and the tasks it hears of | — |
| `SkeletonService` | a skeleton process: main coroutine, service, control socket, listener | extends `SkeletonLifecycle`, `TaskListener` |
| `HeartbeatWatch` | `HeartbeatWatch.observe` and `monitor_heartbeats` | — |
| `FaultCircuit` | the circuit for service faults | — |
| `Supervision` | both, over the same skeletons | extends `HeartbeatWatch`, `FaultCircuit` |
| `MCReaperStore`, `MCDurableReplay`, `MCSkeletonPool`, `MCSkeletonService`, `MCSupervision` | small instances for TLC | each extends its module |
| `MCPoolLive` | two pools of different size in one instance | extends `SkeletonPool`, and instantiates it with a larger target |
| `ReaperStoreProofs`, `DurableReplayProofs`, `SkeletonPoolProofs`, `SkeletonServiceProofs`, `SupervisionProofs` | theorems | each extends its module |
| `ReplayResultProofs` | what a durable function resolves with | extends `DurableReplayProofs` |
| `SkeletonDriverProofs` | the driver's tables, and which slots it gives up | extends `SkeletonPoolProofs` |
| `SkeletonJobsProofs` | no job of the pool is lost, and no slot object is out of date | extends `SkeletonDriverProofs` |

The layers meet where one stands in for another. `ReaperStore` has many tasks and
no functions: its `SubmitChildren` and `SettleScan` may happen in any order a
function could choose. `DurableReplay` has one task, its function and its
coroutines, and keeps of the store what this task sees. `SkeletonService` has the
loop that claims tasks, with a whole claim as a few steps. `SkeletonPool` has the
parent of such processes, which are there no more than what they write to their
socket and when they end.

Definitions called "mutant of ..." stand right before the definition they are a
faulty version of. No other definition uses one. Put in the place of the
original, each makes the property it is listed with fail, which shows that the
property depends on that piece of the code.

## The store

`ReaperStore` has one session per worker and per maintenance skeleton. A session
is a connection running one transaction under READ COMMITTED. An action is one
statement, or half of one: taking the statement's snapshot (`...Scan`), and its
effect once its row locks are granted (`...Lock`, `...Commit`).

| Code | Model |
|---|---|
| `promises.state`, no row | `promises[x]`, `"absent"` |
| rows of `tasks`, `pending_waits`, `failures` | `tasks`, `pendingWaits`, `failures` |
| rows of `waits` | `waits[waiter]`, a set of awaited ids |
| a due or expired timestamp | `due`; `delete_after` in the past: `retired` |
| FOR UPDATE locks | `lockedTasks`, `lockedPromises` |
| uncommitted inserts of a transaction | `born` |
| a statement's snapshot of `waits` | `snapshot` |
| SUBMIT_CALLS, SUBMIT_TIMER of a client | `Submit` |
| CLAIM | `ClaimTask` |
| submissions inside a claim | `SubmitChildren` |
| LOCK_PROMISE, then SETTLE | `LockPromise`, `SettleScan`, `SettleCommit` |
| RETRY with failures left / used up | `RetryAgain` / `RetryScan`, `RetryLock`, `RetryCommit` |
| SUSPEND_TASK | `SuspendLock`, `SuspendCommit` |
| PROCESS_DUE | `SweepScan`, `SweepLock`, `SweepCommit` |
| DELETE_EXPIRED | `CollectScan`, `CollectCommit` |
| any failure of a session | `Rollback`, `Abort` |

Decisions worth knowing:

- `ClaimTask` scans and locks in one step. Whatever changes a task row also moves
  `available_at` past the timestamp of the claiming statement, so PostgreSQL's
  recheck of a row that changed in between refuses it; splitting the step adds
  nothing but a failed claim.
- The locks of one statement are granted together. PostgreSQL grants them one by
  one and may deadlock; it then aborts a transaction, which is `Rollback` or
  `Abort`, both enabled at every point.
- The locks on waiter rows are merged into the commit of the statement that
  takes them, because the statement reads nothing else after them.
- SKIP LOCKED with LIMIT may pass over any row, so `SweepLock` picks any subset
  of the candidates that it may lock.
- A row that a statement has updated is not deleted by the same statement:
  PostgreSQL skips the second change. `SettleAndWake` keeps a woken row in
  `tasks` for that reason.
- When `CollectCommit` removes a graph, its ids leave the targets and snapshots of
  other sessions: a row inserted later under the same id is another row.
- `Outcomes`, `Expiring` and `Collectable` say which outcomes, deadlines and
  retentions a workload has; they let a run isolate one mechanism. `Children`
  and `MayAwait` bound the graph a function may build.

**Properties.** `NeverResumedEarly`: no function runs while something it
suspended on is pending. `WaitsCovered`: `pending_waits` never drops below the
number of unsettled promises awaited. `ExactWaitCount`: when no attempt
fails and no deadline passes, it is exactly that number, so no wake is lost.
`NoLostWake`: a task that counts waits has something left to wait for (it
fails, see below). `ClaimKeepsTask`: neither a sweep nor another worker takes a
task away from its claim. `CallsHaveTasks`: a pending call has the task row
that claims and sweeps look for. `SettledIsFinal` and `PendingNeverDeleted` are
action properties. `DeadlineHonoured` is the liveness property: a promise past
its deadline does not stay pending if workers leave its rows alone.

**Refinement.** `ImplementsDurablePromises`: with `running` mapped to the tasks
held by workers and `awaiting` to the `waits` rows of pending calls, every
behaviour of the store is one of `DurablePromises`.

**Fairness.** `poll_maintenance` runs PROCESS_DUE for ever, whatever the sweep
before it did (`worker.py:260-299`), so each sweeper takes its three steps
under weak fairness. Strong fairness per row says that SKIP LOCKED and LIMIT do
not pass over the same free row in every sweep: the candidates are ordered by
deadline and each sweep settles what it locks, so a row reaches the front.
Workers get no fairness at all: they may crash or stop anywhere.

## Tasks and replay

`TaskExecution` is one claim. The coroutines that use its connection queue for
`operation_lock` (`lock`, the holder first); a statement is sent and answered in
two steps (`busy`), so that the end of the claim, a cancellation or a failure can
come between. `DurableReplay` is the function in it, which is started from its
beginning with every claim and has to come out the same.

| Code | Model |
|---|---|
| the row of the task with its waits and failures | `row` |
| the children of the task, by call index | `db`; those of the open transaction: `mine` |
| the outcome recorded in the open transaction | `drawn` |
| `TaskExecution.finished`, `pending_submissions`, `submission_task` | `finished`, `pending`, `flushing` |
| `TaskClaim.__aenter__` | `ClaimTask`, `ClaimNothing`, `ClaimFails` |
| `submit`, `flush_submissions` | `Submit`, `FlushSubmissions` |
| `ensure_open`, then the statement, then its answer | `Sends` / `Refused`, `Answered` / `StatementFails` |
| `cancel_submissions` | `CancelSubmissions` |
| `finish_transaction` | `CommitTransaction`, `CommitLost`, `RollBack`, `TransactionRefused` |
| `release_connection`; the pool terminates a connection that is not clean | `ReleaseConnection`; `StatementDies` |
| `settled_at` taken inside SETTLE, RETRY or PROCESS_DUE of a child | `ChildStamps` |
| the commit of that settlement | `ChildSettles` |
| `Context`: call index, memo | `index`, `memo` |
| `invoke` | `StartCalls`, `PromisesArrive` |
| `sleep` | `StartSleep` |
| `gather`, `join`, `fanout`, `mapreduce` | `Gathers` |
| `first` | `Winners`, `TakesFirst` |
| `execute` | `Ends` and what uses it |
| `settle_execution` | `SettleExecution`, `OutcomeRecorded`, `OutcomeFails` |
| cancellation of the worker | `Stopped` |

Decisions worth knowing:

- A function is a sequence of stages: calls of which it takes all or the first, or
  a timer. It branches on what it has learnt, which are the winners of its firsts
  (`history`): everything else it knows is the same in every run. A fingerprint
  is what the call depends on: the history, and for a timer its due time.
- The memo of a claim holds what the task waits for, as CLAIM returns it. Every
  other promise is submitted again and found.
- A task that holds the lock sends its statement before COMMIT or ROLLBACK is
  answered (`Settled`). asyncpg refuses the end of a transaction while a
  statement is on its way, and the pool terminates such a connection.
- `MaxTroubles` bounds database errors, timeouts, retries and cancellations.
- `release_connection` does not touch `operation_lock`: coroutines of the execution
  that still wait for it are refused when they run, and a statement on its way ends
  with its connection (`StatementDies`). They have a lock and a connection of their
  own, and are over before the next claim has its answers to BEGIN and CLAIM
  (`MayClaim`), which is why one `lock` in the model is enough.
- A settlement takes its time in one step, inside its statement, and becomes visible
  in another, with its commit. So children may become visible in another order than
  that of their times, and a run in between may have seen fewer of them. `clock` is
  the server's, which does not go back; `Lapses` says by how many ticks two
  settlements may differ, `PerMilli` how many ticks a millisecond has. Times are
  compared as the code does: rounded down by CLAIM, rounded to nearest otherwise.
- `contested` is auxiliary: a promise of a `first` settled with a time that is not at
  least a millisecond later than that of another one that had settled before. Then
  the winner of the `first` depends on when it is looked at; see
  [Disagreements](#disagreements).
- A child settles although the suspension on it is being committed: SUSPEND_TASK's
  lock on the awaited promises is not a guard of `ChildSettles`, which only allows
  more behaviours here. `ReaperStore` has that lock.

**Properties.** `ResultIsPlain`: however often a function was suspended, retried
or cut off, it resolves with resolved promises only, and with what one plain run
gives unless settlements of one of its firsts were contested.
`DatabaseTroubleNeverRejects`: an error of the database ends a run and never becomes
the rejection of the promise. `OnlyForgottenTimersConflict`: a run asks for the same
work under the same id as the runs before it, with two known exceptions, forgotten
timers and contested firsts. `OutcomeCommittable`: an outcome that was recorded can
be committed; no batch that comes late has the connection or has failed its
transaction, whatever is still queued for `operation_lock`.
`NoChildAfterOutcome` and `ChildrenComeWithOutcome`: the outcome is the last word
of its transaction, and children appear with it or not at all. `TaskSettles`: the
task settles in the end.

**Fairness.** The worker's loop claims for ever, and whatever a claim waits for is
answered or fails (`WF_vars(Worker)`). Children are run by others, who settle each
in the end (`WF_vars(Child(i))`); `store_deadlines` shows that a deadline
alone already guarantees this.

## The pool

`ReaperCore` is the reducer of `control.py`: one action per event over its state,
and one operator per event that gives the effects the event asks for.

`SkeletonPool` is the driver. `drive()` performs effects in order and suspends
only at three of them: SPAWN (a thread makes the process), DROP (when another
task's reader has to be cancelled first) and REAP (a thread waits for the
child). A task that is inside `drive` is a *fiber* with the effects it has left
(`todo`), and `turn` says which fiber the event loop is running. Everything a
fiber does before it suspends happens without another fiber in between, as on
an asyncio loop. Children and threads move only when the loop is free: a fiber
does not look at them before it suspends, so nothing is lost.

| Code | Model |
|---|---|
| `ReaperCore.slots`, `pending_spawns`, `queue`, `next_gen`, `closing` | `slots`, `pendingSpawns`, `queue`, `nextGen`, `coreClosing` |
| `SkeletonPool.slots`, `retired_slots` | `slotOf`, `retired` |
| `Slot.state`, `Slot.job_id` (refreshed by `sync_slots`) | `seen` |
| `Slot.reader` | `reader` |
| `jobs` and their futures | `jobs`, `future` |
| `recovery_task`, `pre_ready_failures`, `startup_error` | `recovery`, `preReadyFailures`, `startupError` |
| the socket's file descriptor, open or closed | `fdOf`, `open` |
| tasks created and not begun | `tasks` |
| `drive`, effect by effect | `DriveSpawn` ... `ReapReturns` |
| `start`, `finish_start` | `Start`, `StartDriven`, `StartReady`, `StartRaises` |
| `submit` | `Submit`, `SubmitDriven` |
| `read_slot`, `lose`, `reader_done` | `Read`, `ReadDriven`, `LoseTask`, `LoseDriven` |
| `send_run`, `send_stop` | `SendTask`, `SendDriven` |
| `schedule_recovery`, `recover_after` | `ScheduleRecovery`, `Recover`, `RecoverDriven` |
| `close`, `finish_close` | `Close`, `CloseStops` ... `CloseEnds` |
| `child_loop`, `watch_parent`, the heartbeat's kill | `ChildReady` ... `ChildGarbles`, `ChildDies` |

Decisions worth knowing:

- An identity is a descriptor and a generation. Generations are never used twice;
  a spawn gets any descriptor that is not open, so descriptors are used again.
- The reducer dispatches after every event. The previous dispatch left either no
  idle slot or no queued job and an event adds at most one of them, so one
  dispatched job per event is all there can be; `NothingToDispatch` confirms it.
- `MaxGen` caps generations. In every run that is checked for safety it is
  `Target + MaxFaults` or more, in which case the cap is never reached.
- `MaxFaults` bounds the children that die or garble and the spawns that fail.
  `MaxPreReady` is 2 or more where the code has 5, so that two faults open the
  circuit; `Recoveries` bounds the `recover_after` tasks that drive at once.
- A child's crash and the kill of the heartbeat monitor are the same step: the
  monitor only kills the process, and the reader notices.
- A message is sent in one step. Runtime hooks are the null hooks, logging and the
  values of results are left out; a job is its id and whether it succeeded.
- A reader cancelled by the timeout of `close` loses the effects it had left.
- DROP, CLOSE_CONTROL, CLOSE_DEATH, KILL and REAP do nothing about a slot that is in
  neither table (`DriveSkip`, `DriveClose`), which is so once `finish_close` has
  cleared `slots`. DROP holds the slot object while it waits for the cancelled
  reader, and drops that object whatever became of the tables (`DriveDrop`).
- The pool of one run has its own children only: pools that are nested in another
  are not composed with it.

**Properties.** `CoreAsserts`: what `assert_invariants` asserts after every
event, in every interleaving of the driver. `NothingToDispatch`: no job waits
next to an idle slot. `TablesAgree`: driver and reducer agree on the owner of a
descriptor whenever the loop is free. `SeenIsCurrent`: so do their views of a
slot. `JobsAccounted`: a pending job is queued, in a slot, or about to be
settled. `OnlyFailedSlotsLost`: a working skeleton is not given up because of an
event about an older owner of its descriptor. `CloseReturns`, `NothingLeft`: the
pool closes, and leaves no child and no socket, with one exception (`Forgotten`):
a child that came too late and whose DROP stands behind another SPAWN when
`finish_close` clears the tables, see [Disagreements](#disagreements). `CapacityRestored`,
`JobsSettle`: after the last fault the pool is complete again and jobs settle.

**Fairness.** The event loop runs every task that can go on (`LoopFairness`);
every workload has finitely many steps, so weak fairness of the whole loop is
enough. A child whose death pipe is closed or that was killed ends: the child's
`watch_parent` sends itself SIGTERM, so `CloseReturns` and `NothingLeft` rest on
user code that does not keep SIGTERM from ending the process.
`CapacityRestored` and `JobsSettle` also assume that children answer
(`ChildFairness`, their hypothesis): the heartbeat monitor kills those that hang.

## A skeleton process

`SkeletonService` is a child from its start to its end, in one of three roles: a
worker and a maintenance skeleton run `service_child_loop`, which starts its
service again after every failure; a general skeleton runs `child_loop`.
`SkeletonLifecycle` is the reducer every report passes through; it raises in the
coroutine that reports out of order (`refused`). `TaskListener` is the session
that LISTENs, with the tasks that are ready and those of them no notification was
sent for (`quiet`: a rollback elsewhere, or nobody listened).

| Code | Model |
|---|---|
| `SkeletonCore.phase`, `task_id`, `listener` | `phase`, `owned`, `listener` |
| `PostgresListener`: connection, `notified` | `session`, `notified`; a notification under way: `sent` |
| `service_child_loop`, the `healthy` event, `stop_task` | `main`, `healthy`, `stop` |
| `poll_tasks`, `excluded` | `service`, `excluded`; the open claim: `holding` |
| connect, arm, wait, maintain, receive, close | `Connect`, `Arm`, `Wait`, `Maintain`, `Receive`, `Close` |
| first wait, FAULT and backoff, STOP | `TellHealthy`, `ServiceEnded`, `BackoffEnds`, `CancelService`, `ServiceCancelled` |
| the loop of `poll_tasks` | `OpenListener` ... `WaitForWork`, `CloseListener` |
| the loop of `poll_maintenance` | `MaintenanceReady` ... `Sleep` |
| an exception, a cancellation | `ServiceFails`, `ServiceStops` |
| death of the process | `Killed` |

A poll that finds nothing and the moment its answer arrives are two steps
(`ClaimFindsNothing`, `NothingClaimed`): a task that becomes ready in between is
what the event is cleared early for. Rates and timeouts only say when something
happens, so a probe, a recycling or the fallback may happen at any wait.

**Properties.** `ReducerAccepts`: wherever a service is cancelled, fails or starts
again, no report is refused and `assert_invariants` holds. `OnlyRunningHolds`: a
skeleton that says it is idle, in backoff or stopping holds no claim.
`NothingLeftBehind`: a service that ended leaves neither claim nor session to the
next. `NoMissedWork`: a worker that waits on a working session has polled after
every notification. `StopObeyed`: a process told to stop ends. `WorkTaken`: a
worker takes every task it can run, notified or not.

**Fairness.** The coroutines of one event loop each go on when they can (`Main`,
`Service`, `ServiceStops`, `StopRead`, `Delivery`); a wait ends by its timeout.
Nothing makes STOP arrive or a task appear. For a general
skeleton, whose `child_loop` runs the user's work itself, `WF_vars(Main)` also says
that this work ends; a worker or maintenance service is cancelled instead.
`holding` is the client's view of the claim: the answer to CLAIM and the report of it
are one step, and the row lock is taken slightly earlier. `WorkTaken` is checked
with one task the worker can run: starvation of one task by others is outside it. `MaxTroubles` makes failures finite,
which `WorkTaken` needs: a database that is never reachable gives no work.

## Supervision

`HeartbeatWatch` follows one slot. Time is a set of ages that grow together: since
the last probe, since the count began (`unchanged_since`), and, as history, since
the child last wrote its marker (`silent`) and since the monitor has watched
without being held up (`watched`). `HeldUp` is a parent that does not run for
longer than the timeout; `Hangs` blocks the child's loop; `Probe` is one pass of
`monitor_heartbeats` over the slot. `FaultCircuit` counts faults that services
report, in rounds: `record_service_fault` is `Fault` and `PermanentFault`,
`clear_service_faults` is `Healthy`, and `Refill` puts the next generation into a
slot, while `service_fault_slots` still holds the one before. `Supervision` puts
both over the same skeletons: a child that hangs reports nothing, and one that is
killed is replaced.

**Properties.** `KillsOnlySilent`, `KillsOnlyWatched`: a child is killed for its
silence only if it wrote nothing for the whole timeout, and only after a timeout
of probes in time. `HungIsReplaced`: one that hangs does not stay.
`CircuitEarned`, `CircuitNotByOne`: faults that are not permanent open the circuit
only after as many reports as `Rounds` rounds of the whole pool have, from as many
skeletons as the pool has slots. The first counts reports: a skeleton that reports
twice in a round counts twice, which the code's set of slots does not do.

**Fairness.** Time goes on, the monitor runs at its rate, and a process killed with
SIGKILL ends. `MaxHeld` makes the pauses of the parent finite: one that is held up
before every probe kills nobody, as it should.

## Runs

Every run sets `CHECK_DEADLOCK FALSE`: a store with no work left, or a pool with
no request, rests. Symmetry is used only in safety runs, where all that a
permutation exchanges is treated alike.

| Run | Instance | Question |
|---|---|---|
| `store_calls` | root, two children, one grandchild; 3 workers; settle and suspend only | are the wait counters exact? |
| `store_sweeps` | root, a call and a timer; 2 workers, 2 sweepers that also collect; retries; deadlines of the call and the timer, retention of the graph; ids submitted again | do claims, counters and settlements survive sweeps in the middle, do stale candidates do harm, does retention remove settled graphs only, and is `DurablePromises` implemented? |
| `store_deadlines` | the same graph; 1 worker, 1 sweeper, fair | is every deadline honoured? |
| `durable_replay` | three functions with firsts, gathers and timers; 4 children, 2 failures, 3 troubles, 2 ticks in a millisecond, settlements a tick apart that commit in any order | is the result that of a plain run unless a first was contested, can each outcome be committed, does an interrupted claim leave anything, and does the task settle? |
| `pool_close` | 1 slot, 2 descriptors, 2 jobs, 2 faults, close at any time | do the assertions of the reducer hold, is every job accounted for, and do events about old owners of a descriptor do harm? |
| `pool_live` | two pools: 1 slot, 1 job and 1 fault; 3 slots whose children never answer; close at any time, fair | does `close` return and leave nothing, even if children never answer? If they do, does capacity come back and does the job settle? |
| `service` | each role; a task it can run and one it cannot; 3 troubles, fair | are reports in order and is nothing left behind or missed, wherever it fails or is stopped? |
| `supervision` | 2 slots, 3 generations, timeout 2, 2 rounds, 2 fault signatures, fair | are only silent children killed, and is the circuit earned? |

The largest, `pool_close`, has 1.1 million distinct states, the others fewer than
400,000.

Why the bounds are enough. A lost or early wake needs a settler, a suspender and
a promise between them; three workers and four promises give a waiter that is
itself awaited, and a promise with two waiters. A stale candidate needs two
sessions with a snapshot of the same row; a promise that comes back needs one
deletion and one submission. A descriptor used again needs one slot lost and one
spawn while the older owner is still being torn down. Two faults give a loss
during the recovery of another, and two jobs a queue behind one slot. A drive with
SPAWNs behind one that `close` overtakes needs three slots: `finish_close` waits for
the reader of the first while the second comes too late and its DROP is queued
behind the third. `pool_live` has that pool next to the one with a job and a fault.
Its children never answer, which leaves the drive of `start` and that of `close`;
each gets a descriptor of its own. `CapacityRestored` and `JobsSettle` concern the
other pool, as children that do not answer are outside their hypothesis. When the
children of the pool of three answer as well, it has 114,134 states in which
`CloseReturns` and `NothingLeft` hold too; with descriptors exchanged, 699,836.
`MaxFailures = 2` has both outcomes of RETRY. A wrong winner needs a `first` of two
in a run that is repeated after the other of the two has settled as well, and a
stage after it that depends on the winner; with two ticks in a millisecond two
settlements may be apart by less, and commit in either order. Three troubles give a
run that is cut off, one that is retried and one that is cut off again. Two slots
and three generations let a skeleton report, be replaced and its successor report in
the same round; two rounds let a fault of another kind come between. What is proved
does not depend on any of these bounds.

## Disagreements

Four runs end in a violation: the code does not do what its comments or tests say.

- `lost_wake_retry` — RETRY rejects a promise, when its failures are used up, in
  one statement. Its snapshot of `waits` may be older than a suspension that
  commits while RETRY waits for the promise row: the suspended task is never
  counted down. SETTLE runs LOCK_PROMISE first, exactly against this
  (`tasks/__init__.py:134-136`). PROCESS_DUE has the same gap: with a timer,
  one worker, one sweeper, `Outcomes <- NoRetry` and only the timer in
  `Expiring`, TLC finds a suspension that commits between the sweep's snapshot
  and its locks and is not woken.
- `deleted_pending` — DELETE_EXPIRED looks for pending children in the snapshot it
  takes before locking the root. A child submitted by a client in between is
  deleted by the cascade.
- `orphaned_future` — a slot dies with its job; the FAIL of that job stands behind
  the reaping of the child. `finish_close` overtakes it, clears `jobs`, and the
  submitter's future is never settled.
- `impossible_slots` — after a successful start the recovery circuit opens without
  closing the pool or setting `failure_event`: jobs go on waiting for a slot
  that will not come.

Five observations that contradict no sentence of the repository
strongly enough to be one of these:

- A `first` that is repeated may take another winner. `settled_at` is taken inside
  the statement (`settle.sql:5`, `retry.sql:29`, `process_due.sql:39,50`) and
  becomes visible with the commit: a child stamped earlier may become visible after
  one stamped later, when a run has already gone on with the latter. If that run is
  retried, `first` (`promise.py:720-725`) takes the earlier one, and what the
  function asks for next conflicts with what the first run has committed under the
  same ids. The same happens to settlements less than a millisecond apart, because
  CLAIM rounds times down and `settled_order` (`promise.py:300-305`) rounds to
  nearest. Without `contested`, TLC violates `ResultIsPlain` and
  `OnlyForgottenTimersConflict`; with it, they say that nothing else can go wrong.
- A child can be forgotten by `close`. A start drives `[SPAWN 1, SPAWN 2, SPAWN 3]`;
  `close` comes and waits for the reader of the first; the second spawn returns,
  comes too late, and its DROP ... REAP are queued behind SPAWN 3 (`pool.py:1261`);
  `finish_close` ends and clears `slots` (`pool.py:1160`); then DROP, CLOSE_CONTROL,
  CLOSE_DEATH and REAP find no slot (`pool.py:1299`, `1309`) and do nothing: the
  process, its control socket, its death pipe and its heartbeat descriptor stay.
  `NothingLeft` excepts exactly these children; without the exception TLC violates
  it in the pool of three of `pool_live`.
- `first` inside a task suspends on all its promises, and a suspended task is
  resumed when all of them have settled: it chooses the earliest, it does not
  save the wait for the others.
- A timer that a run committed without suspending on it (a retry after the timer)
  is asked for again with another due time: the conflict rejects the task. This
  is the exception in `OnlyForgottenTimersConflict`.
- A claim that rolls back while a batch is on its way ends with its connection
  terminated by the pool rather than reset (`TransactionRefused`).

A task that lost its wake is not stuck for ever: it times out at its own deadline
(`store_deadlines`). `ExactWaitCount` holds where these gaps cannot open.

## Proofs

Every theorem holds for all values of the constants that its module's assumption
allows: any number of ids, graphs, workers, sweepers, descriptors, jobs, tasks,
functions, faults and rounds. The assumptions say no more than the code or its
schema ensures: ids are finite and belong to the graph of a root, a function
submits children of its own graph and awaits promises of it, a session is a
worker or a sweeper (`StoreAssumption`); bounds are natural numbers, and special
values are not ordinary ones (the others; in `SkeletonPool` 0 stands for "no
descriptor", so it is not one). Each proof has the same shape: an
inductive invariant, a lemma per action or group of actions, the theorems last.

| Module | Theorem | States |
|---|---|---|
| `ReaperStoreProofs` | `TypeCorrect`, `InductiveInvariant` | `TypeOK`, `IInv` |
| | `CountersCoverWaits` | `WaitsCovered` |
| | `ResumedOnlyWhenSettled` | `NeverResumedEarly` |
| | `ClaimsAreExclusive` | `ClaimKeepsTask` |
| | `PendingCallsHaveTasks` | `CallsHaveTasks` |
| | `SettlementIsFinal` | `SettledIsFinal` |
| | `CountersAreExact`, `NoWakeIsLost` | `ExactWaitCount` and `NoLostWake`, when functions only settle or suspend and no deadline passes |
| | `TablesImplementPromises` | `ImplementsDurablePromises`, when clients submit roots only |
| | `PendingPromisesStay` | `PendingNeverDeleted`, under the same hypothesis |
| `DurableReplayProofs` | `Invariance`, `TypeCorrect` | `IInv`, `TypeOK` |
| | `OutcomesCommittable` | `OutcomeCommittable` |
| | `DatabaseTroubleIsRetried` | `DatabaseTroubleNeverRejects` |
| | `OutcomeIsLast` | `NoChildAfterOutcome` |
| | `OutcomeBringsChildren` | `ChildrenComeWithOutcome` |
| `ReplayResultProofs` | `ResultInvariance` | `LastInv` |
| | `ReplayIsPlain` | `ResultIsPlain` |
| | `ConflictsAreForgottenTimers` | `OnlyForgottenTimersConflict` |
| `SkeletonPoolProofs` | `Invariance` | `IInv` |
| | `AssertionsHold` | `CoreAsserts` |
| | `DispatchIsComplete` | `NothingToDispatch` |
| `SkeletonDriverProofs` | `DriverInvariance`, `TypeCorrect` | `DriverInv`, `TypeOK` |
| | `TablesAlwaysAgree` | `TablesAgree` |
| | `WorkingSlotsStay` | `OnlyFailedSlotsLost` |
| `SkeletonJobsProofs` | `AccountInvariance` | `AccountInv` |
| | `JobsAlwaysAccounted` | `JobsAccounted` |
| | `CopiesInvariance` | `CopiesInv` |
| | `SlotsAreCurrent` | `SeenIsCurrent` |
| `SkeletonServiceProofs` | `Invariance`, `TypesCorrect` | `IInv`, `TypeOK` |
| | `ReportsInOrder` | `ReducerAccepts` |
| | `ClaimsReported` | `OnlyRunningHolds` |
| | `ServicesCleanUp` | `NothingLeftBehind` |
| | `NotificationsSeen` | `NoMissedWork` |
| `SupervisionProofs` | `Invariance`, `TypesCorrect` | `IInv`, `TypeOK` |
| | `CircuitIsEarned`, `CircuitIsNotByOne` | `CircuitEarned`, `CircuitNotByOne` |
| | `OnlySilentKilled`, `OnlyWatchedKilled` | `KillsOnlySilent`, `KillsOnlyWatched` |

**The store.** `WaitsCovered` is not inductive. A settlement counts a waiter down
by the rows of its *snapshot*, so the argument needs that a snapshot never shows a
row that is not there (`SnapshotInv`); that holds because a live waiter's rows are
never deleted and a row deleted by retention leaves every snapshot, which needs
that only task rows have waits and that waits stay in one graph (`RowsInv`). That
two settlements do not count the same promise twice rests on row locks being
exclusive (`LocksInv`) and on what a transaction knows of its own rows in each
phase (`WorkerInv`, `SweeperInv`): a claimed task is pending and counts no waits,
and the promise being settled is locked. `BornInv` says that uncommitted inserts
are invisible and belong to one session. `SightInv` says that SETTLE, after
LOCK_PROMISE, sees every waiter of its promise.

**No lost wake.** `SightInv` is also why `ExactWaitCount` holds: a settlement
counts down exactly the waiters there are. It says nothing of RETRY and
PROCESS_DUE, whose snapshot is older than their lock, hence the hypothesis
`NoLateSnapshots`, without which `lost_wake_retry` is a counterexample. `WakeInv`
adds that no session is in a phase of those statements and that a row that is
inserted finds no counter.

**The refinement.** The steps that are hard are the deletion of a graph and the
suspension. `DurablePromises` deletes settled graphs only, so a graph that a
DELETE_EXPIRED has found must stay settled until it is deleted (`CollectInv`):
whoever creates a promise in it is a pending function of the same graph
(`ExecInv`), and no promise outlives its root (`RootInv`). A client that submits
into the graph of another breaks exactly this, as `deleted_pending` shows, so
`RootsOnly` is a hypothesis.

**Claims and replay.** `ConnectionInv` ties the batches, the running statement and
the transaction to the phase of the claim: a statement is sent only in an open
transaction without an outcome, or is left on a connection that is terminated, so a
recorded outcome has the connection for itself. An outcome must change the row for its
children to come with it: a suspension must await something new (`Moves`), which
follows from all that was awaited before being settled and known to the function
(`WaitedInv`), and for `first` from a least element among the settled promises. An
error of the database is known to a function only when its transaction can record
nothing any more (`ErrorInv`).

**The result of a function.** `ResultIsPlain` speaks of the row of the task alone,
yet it relates every run there ever was to the program. The argument is about one
notion: `Led(t, s, h)`, a run that finds the promises `t` comes to stage `s`
having learnt `h`. A `first` it passed was won by a promise that resolved (`Won`),
and, as long as nothing is contested, by the earliest of those that have settled.
Three facts carry the argument. Tables only grow, settled promises stay, and until a
first is contested what settles in it does so later than everything before it, so a
run that was led somewhere is led there by every later table (`Follows`, `LedLater`).
Two runs that come to the same stage have learnt the same, unless contested
(`LedUnique`). What was learnt at an earlier stage is the beginning of what is known
(`LedShorter`). The invariant then says of everything that carries a history that it
was led to where it is: the function on its way (`LearntInv`), a batch and each
request for `operation_lock`, be it queued or being served (`RequestInv`), each call
in the transaction or committed (`CallsInv`), the result, the outcome and the row
(`ResultInv`). Around it, `TypeInv` and `StampInv` hold the clock against the
promises, `BatchInv` and `QueueInv` say that a function asks for one thing at a time
and that what it asks belongs to its stage, `MemoInv` that the memo agrees with what
the transaction sees, and `OrderInv` that a settlement a `first` did not see comes
after those it saw. That the rounded times of a first have the order of the exact
ones, whichever way they are rounded, rests on two things: a millisecond apart,
they are rounded to different values (`RoundingKeepsOrder`), and the promises of one
first are all rounded in the same way, because a task waits for all of them or for
none (`AwaitInv`). `ConflictInv` adds that what conflicts is a timer no stage awaits
any more, or follows a contested first (`Excused`). There is no hypothesis on how
often promises settle or in which order; the conclusion names the case in which it
is weaker. That the ids of a stage are within `MaxChildren` is assumed of the
functions (`ReplayAssumption`): it is a bound of the model, not of the code.

**The pool.** The reducer is proved correct in the hands of the driver: every step
of `SkeletonPool` changes the reducer by one of its events or not at all
(`EventsOnly`), and every event keeps `CoreInv`. `JobsInv` keeps a job in one
place, `GensInv` generations unique and the pool within its target. That one
dispatched job is all there is to dispatch (`OneIsEnough`) holds because an event
adds one idle slot or one job to a state with nothing to dispatch. `SocketsInv`
is what the driver contributes: a process that is being made has a descriptor.

**The driver.** What a fiber has left to do was decided by an event that may be
long past when it is done: slots were lost, the pool closed, the descriptor given
to another child. `TablesAgree` and `OnlyFailedSlotsLost` hold because of what can
no longer change. A generation is *gone* once it was asked for, is expected no
more and has no slot; gone stays gone (`GoneStays`), and what a fiber clears away
is gone (`GoneInv`), so clearing it away late disturbs nobody. A generation is
spawned once, by one fiber, before it has a reader (`SpawnInv`), so the slot that
is entered is new and no task about an older generation can name it. `PlaceInv`
ties the three tables together: a slot of the reducer has its object under its
descriptor, with an open socket and a reader that was started, and two open
sockets have different descriptors; the kernel gives a descriptor again only when
its socket was closed, and that is done to slots that are gone. `PhaseInv` says how
far `close` is; what `finish_close` drains is in the set it waits for. The first
part of the module brings each action into a form that says which fiber runs and
what it has to do then (`Loses`, `Hands`, `Entered`, `Fills`), with the lemmas about
the reducer's events at the end of `SkeletonPoolProofs`; `CoreMoves`, `Shapes`,
`Turns` and `TableMoves` then say in one place what a step can do to the
generations, to the lists of effects, to the running fiber and to the tables.

**No lost job.** A job moves from the queue to a slot, from the slot to the list of
effects of some `drive`, and from there to its future. Most of the way this is the
shape of the events (`HandsHold`, `LosesHold`, `FreesHold`: a dispatch, a loss and
an answer leave the job in the one place or the other). What has to be argued is
that nobody overwrites a list that has a settlement in it, and that no job comes to
a reducer that has already given its jobs back. `RestInv` says where `drive` can
be suspended: only at SPAWN, DROP and REAP, with nothing behind them but FAIL and
what clears away. So a run is still to be sent only while the loop runs the fiber
that sends it, and a cancelled reader has no RESOLVE left. The list of
`CloseKills` replaces those of the readers that `finish_close` cancels: `ReaderInv`
says that a reader clears away its own slot and nothing else, and that one
`finish_close` still waits for has no settlement left. The list that is hard is
that of a sender: its task could fail when its skeleton has been given another run,
and then lose the slot anew. `FlightInv` excludes it: a skeleton has one run at a
time, in one place (to be sent, in its task, in the socket, with the child, or on
its way back), its slot waits for no other meanwhile, and a sender that has
something to do has given its skeleton up. `QuietInv` says what each phase of
`close` still does, and that a closing reducer has no job. The module brings lists
(`Starts`), slots (`SlotChanges`), runs to be sent (`SendsNew`) and messages
(`ProcessMoves`) each into the few forms in which a step can change them.

**Slot objects.** `SeenIsCurrent` alone is not inductive: an event changes a slot of
the reducer, and its object only when `drive` calls `sync_slots`. `SeenInv` says that
between the two the loop stays with the fiber: its next effect is one that `drive`
performs without suspending, or it is a reader at the end of its list, and both end
in `sync_slots` (`SyncCurrent`). The one other writer is `send_run`, in a task of its
own, long after the dispatch that created it: what it writes is the job of the slot
only if the slot has had no other since. `RunInv` says so, with one exception. Until
`finish_close` has performed its FAIL effects `jobs` still knows jobs whose slots have
none, and no task runs in that time. A run that is to be sent was given to its slot by
a dispatch (`RunsMoves`), `FlightInv` keeps the slot from changing under it, and a job
that is not submitted is nowhere (`OldInv`), so that no job is submitted after its run.

**A skeleton process.** `PhaseInv` relates the phase of the reducer to the places
of two coroutines, of which either may be interrupted; an interruption leaves the
phase where it was until FAULT or STOP is reported, both of which are accepted
anywhere. `SessionInv` says where no session is left. `SightInv` is the invariant
behind `NoMissedWork`: from the answer of an empty poll to the wait, whatever
became ready has set or will set the event.

**Supervision.** `HeartInv`: an unchanged marker was not written since the count
began, and the count never runs longer than the monitor has watched. `CircuitInv`:
reports cover the full rounds and the one under way, and every member of the
latter has reported.

**Only model-checked.** Liveness, which is outside what the prover does with
fairness and ENABLED: `DeadlineHonoured`, `CloseReturns`, `NothingLeft`,
`CapacityRestored`, `JobsSettle`, `TaskSettles`, `StopObeyed`, `WorkTaken`,
`HungIsReplaced`.

## Not modelled

- Pools nested in a pool: `start` starts them one by one and closes those it
  started when one fails, `close` closes them last, and a `close` during such a
  start returns at once. A start cancelled while a spawn is in its thread.
- Framing and pickling of control messages. A broken frame makes the reader lose
  its slot, which is modelled (`ChildGarbles`).
- `PostgresPool`, and connections leased for a single statement.
- Clients outside a task: the values `submit_calls` returns, polling for a result,
  and the validation of inputs and results in `promise.py`.
- Functions that make calls from several coroutines whose steps interleave
  differently in each run: their call indexes are not determined by the program.
- Lock order of the store's statements one row at a time: a deadlock is broken by
  PostgreSQL's detector, and the models let any transaction abort instead.
- The reuse of process ids between the reaping of a child and the kill of its
  process group.
- Argument parsing, settings, hooks, logging and `sd_notify` (pure I/O and
  validation), PostgreSQL's own recovery, benchmarks, deployment and examples.
