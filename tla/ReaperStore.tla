----------------------------- MODULE ReaperStore -----------------------------
(***************************************************************************)
(* The durable store of Reaper: the tables promises, tasks and waits, and  *)
(* the transactions that clients, workers and maintenance skeletons run    *)
(* on them under READ COMMITTED.  An action is one statement, or one of    *)
(* the two halves of a statement: taking its snapshot (Scan) and, once the *)
(* row locks it asks for are granted, its effect (Lock, Commit).           *)
(*                                                                         *)
(* A row lock is held from the action that takes it to the end of the      *)
(* transaction.  The locks one statement asks for are granted together;    *)
(* PostgreSQL breaks the deadlocks that follow from granting them one by   *)
(* one by aborting a transaction, which Rollback and Abort do here.        *)
(***************************************************************************)
EXTENDS Naturals, FiniteSets

CONSTANTS
  Ids,          \* promise ids
  Root,         \* the root of the graph each id belongs to
  Timers,       \* the ids submitted as timers
  Children,     \* the ids each durable function may submit
  MayAwait,     \* the ids each durable function may suspend on
  External,     \* the ids clients submit
  Workers,      \* task skeletons
  Sweepers,     \* maintenance skeletons
  MaxFailures,  \* max_failures of every task
  Outcomes,     \* the outcomes durable functions have in this workload
  Expiring,     \* the ids whose due_at or expires_at may pass
  Collectable   \* the roots whose delete_after may pass

Roots == {x \in Ids : Root[x] = x}

AllOutcomes == {"settle", "retry", "suspend"}

ASSUME StoreAssumption ==
  /\ IsFiniteSet(Ids)
  /\ Root \in [Ids -> Ids] /\ \A x \in Ids : Root[x] \in Roots
  /\ Timers \subseteq Ids /\ External \subseteq Ids
  /\ Children \in [Ids -> SUBSET Ids]
  /\ \A t \in Ids : \A c \in Children[t] : Root[c] = Root[t] /\ c \notin Roots
  /\ MayAwait \in [Ids -> SUBSET Ids]
  /\ \A t \in Ids : \A a \in MayAwait[t] : Root[a] = Root[t] /\ a # t
  /\ Workers \cap Sweepers = {}
  /\ MaxFailures \in Nat \ {0}
  /\ Outcomes \subseteq AllOutcomes
  /\ Expiring \subseteq Ids /\ Collectable \subseteq Roots

VARIABLES
  promises,      \* promises.state of each id, "absent" when it has no row
  tasks,         \* the ids with a row in tasks
  pendingWaits,  \* tasks.pending_waits
  failures,      \* tasks.failures
  waits,         \* the awaited_ids of each waiter_id in waits
  due,           \* the ids whose due_at or expires_at has passed
  retired,       \* the roots whose delete_after has passed
  pc,            \* where each session is in its transaction
  target,        \* the rows a session's statement found: a claim, or candidates
  lockedTasks,   \* the tasks rows each session holds FOR UPDATE
  lockedPromises,\* the promises rows each session holds FOR UPDATE
  born,          \* the promises each session inserted and has not committed
  snapshot       \* the waits rows each session's statement sees

table == <<promises, tasks, pendingWaits, failures, waits>>
clock == <<due, retired>>
locks == <<lockedTasks, lockedPromises>>
vars == <<table, clock, pc, target, locks, born, snapshot>>

Sessions == Workers \cup Sweepers
Terminal == {"resolved", "rejected", "timed_out"}
States == Terminal \cup {"absent", "pending"}
WorkerPhases == {"idle", "running", "locked", "settling",
                 "exhausting", "exhausted", "suspending"}
SweeperPhases == {"idle", "sweeping", "swept", "collecting"}

NoWaits == [x \in Ids |-> {}]
Graph(R) == {x \in Ids : Root[x] \in R}

\* The type of the state.
TypeOK ==
  /\ promises \in [Ids -> States]
  /\ tasks \subseteq Ids
  /\ pendingWaits \in [Ids -> Nat]
  /\ failures \in [Ids -> Nat]
  /\ waits \in [Ids -> SUBSET Ids]
  /\ due \subseteq Ids
  /\ retired \subseteq Roots
  /\ pc \in [Sessions -> WorkerPhases \cup SweeperPhases]
  /\ target \in [Sessions -> SUBSET Ids]
  /\ lockedTasks \in [Sessions -> SUBSET Ids]
  /\ lockedPromises \in [Sessions -> SUBSET Ids]
  /\ born \in [Sessions -> SUBSET Ids]
  /\ snapshot \in [Sessions -> [Ids -> SUBSET Ids]]

Init ==
  /\ promises = [x \in Ids |-> "absent"]
  /\ tasks = {}
  /\ pendingWaits = [x \in Ids |-> 0]
  /\ failures = [x \in Ids |-> 0]
  /\ waits = NoWaits
  /\ due = {} /\ retired = {}
  /\ pc = [x \in Sessions |-> "idle"]
  /\ target = [x \in Sessions |-> {}]
  /\ lockedTasks = [x \in Sessions |-> {}]
  /\ lockedPromises = [x \in Sessions |-> {}]
  /\ born = [x \in Sessions |-> {}]
  /\ snapshot = [x \in Sessions |-> NoWaits]

-----------------------------------------------------------------------------
(* Rows and locks                                                            *)

Pending(x) == promises[x] = "pending"
Exists(x) == promises[x] # "absent"

\* No other session holds the row of task t.
TaskFree(s, t) == \A o \in Sessions \ {s} : t \notin lockedTasks[o]

\* No other session holds the row of promise x FOR UPDATE.  This is what an
\* UPDATE and a foreign key check (FOR KEY SHARE) wait for.
PromiseFree(s, x) == \A o \in Sessions \ {s} : x \notin lockedPromises[o]

\* FOR UPDATE waits for foreign key checks too: an uncommitted child keeps its
\* root row locked FOR KEY SHARE.
PromiseLockable(s, x) ==
  /\ PromiseFree(s, x)
  /\ \A o \in Sessions \ {s} : \A c \in born[o] : Root[c] # x

\* An INSERT waits for an uncommitted INSERT of the same id.
Uncontested(s, N) == \A o \in Sessions \ {s} : N \cap born[o] = {}

\* Foreign keys: a child needs its root row, and no lock against reading it.
RootHeld(s, N) ==
  \A x \in N \ Roots : Exists(Root[x]) /\ PromiseFree(s, Root[x])

\* The tables once the promises of N are inserted; calls have a task row.
Inserted(N) == [x \in Ids |-> IF x \in N THEN "pending" ELSE promises[x]]
NewTasks(N) == N \ Timers

\* A row deleted from tasks takes its counters and its waits with it.
WithoutRows(f, R, empty) == [x \in Ids |-> IF x \in R THEN empty ELSE f[x]]

-----------------------------------------------------------------------------
(* Waking the waiters of a set S of promises being settled: the CTEs         *)
(* waiter_changes, locked_waiters and ready of SETTLE, RETRY and PROCESS_DUE.*)
(* The waits rows are those of the statement's snapshot; the tasks rows are  *)
(* locked first and read as they are then.                                   *)

WaitersOf(S, seen) == {v \in tasks : seen[v] \cap S # {}}

Woken(S, seen) == {v \in WaitersOf(S, seen) : pendingWaits[v] > 0}

\* Mutant of WaitsLeft: every waits row of the waiter counts as settled, without
\* GREATEST(..., 0).
WaitsLeftUnclipped(v, S, seen) == pendingWaits[v] - Cardinality(seen[v])

WaitsLeft(v, S, seen) ==
  LET settled == Cardinality(seen[v] \cap S)
  IN  IF pendingWaits[v] > settled THEN pendingWaits[v] - settled ELSE 0

\* Settle S with the states of result, wake its waiters and remove the task
\* rows of R.  A row woken by this very statement is not removed: PostgreSQL
\* skips the second change one statement makes to a row.
SettleAndWake(s, S, result, R) ==
  LET seen == snapshot[s]
      gone == R \ Woken(S, seen)
      left == [v \in Ids |-> IF v \in Woken(S, seen) THEN WaitsLeft(v, S, seen)
                                                     ELSE pendingWaits[v]]
  IN  /\ \A v \in WaitersOf(S, seen) : TaskFree(s, v)
      /\ promises' = [x \in Ids |-> IF x \in S THEN result[x] ELSE Inserted(born[s])[x]]
      /\ tasks' = (tasks \cup NewTasks(born[s])) \ gone
      /\ pendingWaits' = WithoutRows(left, gone, 0)
      /\ failures' = WithoutRows(failures, gone, 0)
      /\ waits' = WithoutRows(waits, gone, {})

\* The end of a transaction.
Release(s) ==
  /\ pc' = [pc EXCEPT ![s] = "idle"]
  /\ target' = [target EXCEPT ![s] = {}]
  /\ lockedTasks' = [lockedTasks EXCEPT ![s] = {}]
  /\ lockedPromises' = [lockedPromises EXCEPT ![s] = {}]
  /\ born' = [born EXCEPT ![s] = {}]
  /\ snapshot' = [snapshot EXCEPT ![s] = NoWaits]

GoTo(s, from, to) == pc[s] = from /\ pc' = [pc EXCEPT ![s] = to]

TakeSnapshot(s) == snapshot' = [snapshot EXCEPT ![s] = waits]

-----------------------------------------------------------------------------
(* Clients and time                                                          *)

\* A client submits calls or a timer, in a transaction of its own; ids that
\* exist already are returned as they are.
Submit(N) ==
  /\ N # {} /\ N \subseteq {x \in External : ~Exists(x)}
  /\ \A s \in Sessions : N \cap born[s] = {}
  /\ \A x \in N \ Roots : \A s \in Sessions :
       Exists(Root[x]) /\ Root[x] \notin lockedPromises[s]
  /\ promises' = Inserted(N)
  /\ tasks' = tasks \cup NewTasks(N)
  /\ UNCHANGED <<pendingWaits, failures, waits, clock, pc, target, locks, born, snapshot>>

DeadlinePasses(x) ==
  /\ x \in Expiring \ due
  /\ Pending(x)
  /\ due' = due \cup {x}
  /\ UNCHANGED <<table, retired, pc, target, locks, born, snapshot>>

\* delete_after is later than the root's own deadline.
RetentionPasses(r) ==
  /\ r \in Collectable \ retired
  /\ Exists(r) /\ (Pending(r) => r \in due)
  /\ retired' = retired \cup {r}
  /\ UNCHANGED <<table, due, pc, target, locks, born, snapshot>>

-----------------------------------------------------------------------------
(* Workers: one transaction from the claim to the outcome                    *)

\* CLAIM locks a ready row it can have at once.  A row that changed since the
\* statement began is refused, because every change sets available_at to a
\* later time, so scan and lock are one action.
ClaimTask(w, t) ==
  /\ t \in tasks /\ pendingWaits[t] = 0
  /\ Pending(t) /\ t \notin due
  /\ TaskFree(w, t)
  /\ GoTo(w, "idle", "running")
  /\ target' = [target EXCEPT ![w] = {t}]
  /\ lockedTasks' = [lockedTasks EXCEPT ![w] = {t}]
  /\ UNCHANGED <<table, clock, lockedPromises, born, snapshot>>

\* The running function submits a batch of calls, or a timer.
SubmitChildren(w, t, N) ==
  /\ pc[w] = "running" /\ target[w] = {t}
  /\ N # {} /\ N \subseteq {c \in Children[t] : ~Exists(c)} \ born[w]
  /\ Uncontested(w, N) /\ RootHeld(w, N)
  /\ born' = [born EXCEPT ![w] = @ \cup N]
  /\ UNCHANGED <<table, clock, pc, target, locks, snapshot>>

\* Mutant of LockPromise: SETTLE runs without the lock taken before it.
LockPromiseForgotten(w, t) ==
  /\ "settle" \in Outcomes
  /\ target[w] = {t} /\ GoTo(w, "running", "locked")
  /\ Pending(t) /\ t \in tasks
  /\ UNCHANGED <<table, clock, target, locks, born, snapshot>>

\* complete_task and reject_task: LOCK_PROMISE, then SETTLE, then the commit.
LockPromise(w, t) ==
  /\ "settle" \in Outcomes
  /\ target[w] = {t} /\ GoTo(w, "running", "locked")
  /\ Pending(t) /\ t \in tasks
  /\ PromiseLockable(w, t)
  /\ lockedPromises' = [lockedPromises EXCEPT ![w] = {t}]
  /\ UNCHANGED <<table, clock, target, lockedTasks, born, snapshot>>

SettleScan(w) ==
  /\ GoTo(w, "locked", "settling")
  /\ TakeSnapshot(w)
  /\ UNCHANGED <<table, clock, target, locks, born>>

SettleCommit(w, v) ==
  /\ pc[w] = "settling"
  /\ SettleAndWake(w, target[w], [x \in Ids |-> v], target[w])
  /\ Release(w)
  /\ UNCHANGED clock

\* retry_task: RETRY is one statement, which rejects the promise once its
\* failures are used up.  Its snapshot is taken before it waits for the row.
RetryScan(w, t) ==
  /\ "retry" \in Outcomes
  /\ target[w] = {t} /\ GoTo(w, "running", "exhausting")
  /\ Pending(t) /\ failures[t] + 1 >= MaxFailures
  /\ TakeSnapshot(w)
  /\ UNCHANGED <<table, clock, target, locks, born>>

RetryLock(w, t) ==
  /\ target[w] = {t} /\ GoTo(w, "exhausting", "exhausted")
  /\ PromiseFree(w, t)
  /\ lockedPromises' = [lockedPromises EXCEPT ![w] = {t}]
  /\ UNCHANGED <<table, clock, target, lockedTasks, born, snapshot>>

RetryCommit(w) ==
  /\ pc[w] = "exhausted"
  /\ SettleAndWake(w, target[w], [x \in Ids |-> "rejected"], target[w])
  /\ Release(w)
  /\ UNCHANGED clock

RetryAgain(w, t) ==
  /\ "retry" \in Outcomes
  /\ pc[w] = "running" /\ target[w] = {t}
  /\ Pending(t) /\ failures[t] + 1 < MaxFailures
  /\ failures' = [failures EXCEPT ![t] = @ + 1]
  /\ promises' = Inserted(born[w])
  /\ tasks' = tasks \cup NewTasks(born[w])
  /\ Release(w)
  /\ UNCHANGED <<pendingWaits, waits, clock>>

\* suspend_task: the awaited rows are locked FOR UPDATE and counted, then the
\* waits rows are inserted; their foreign key reads the waiter's promise row.
SuspendLock(w, t, A) ==
  /\ "suspend" \in Outcomes
  /\ target[w] = {t} /\ GoTo(w, "running", "suspending")
  /\ A # {} /\ A \subseteq MayAwait[t]
  /\ \A a \in A : (Exists(a) /\ PromiseLockable(w, a)) \/ a \in born[w]
  /\ lockedPromises' = [lockedPromises EXCEPT ![w] = A]
  /\ UNCHANGED <<table, clock, target, lockedTasks, born, snapshot>>

\* Mutant of SuspendCommit: the calls of this very transaction are not counted.
SuspendCommitUncounted(w, t) ==
  /\ pc[w] = "suspending" /\ target[w] = {t}
  /\ PromiseFree(w, t)
  /\ LET A == lockedPromises[w]
     IN  /\ waits' = [waits EXCEPT ![t] = @ \cup A]
         /\ pendingWaits' = [pendingWaits EXCEPT ![t] =
              Cardinality({a \in A : Pending(a)})]
  /\ promises' = Inserted(born[w])
  /\ tasks' = tasks \cup NewTasks(born[w])
  /\ Release(w)
  /\ UNCHANGED <<failures, clock>>

SuspendCommit(w, t) ==
  /\ pc[w] = "suspending" /\ target[w] = {t}
  /\ PromiseFree(w, t)
  /\ LET A == lockedPromises[w]
     IN  /\ waits' = [waits EXCEPT ![t] = @ \cup A]
         /\ pendingWaits' = [pendingWaits EXCEPT ![t] =
              Cardinality({a \in A : Pending(a) \/ a \in born[w]})]
  /\ promises' = Inserted(born[w])
  /\ tasks' = tasks \cup NewTasks(born[w])
  /\ Release(w)
  /\ UNCHANGED <<failures, clock>>

\* A claim that ends without an outcome is rolled back: the function is
\* unavailable, an error leaves the claim, the process or its connection dies,
\* a database timeout fires, or PostgreSQL aborts it to break a deadlock.
Rollback(w) ==
  /\ pc[w] # "idle"
  /\ Release(w)
  /\ UNCHANGED <<table, clock>>

-----------------------------------------------------------------------------
(* Maintenance                                                               *)

\* Mutant of SweepScan: only the rows of tasks are searched.
SweepScanTasksOnly(s) ==
  LET found == {x \in due : Pending(x) /\ x \in tasks}
  IN  /\ found # {}
      /\ GoTo(s, "idle", "sweeping")
      /\ target' = [target EXCEPT ![s] = found]
      /\ TakeSnapshot(s)
      /\ UNCHANGED <<table, clock, locks, born>>

\* PROCESS_DUE: due timers and tasks in the statement's snapshot.
SweepScan(s) ==
  LET found == {x \in due : Pending(x) /\ (x \in Timers \/ x \in tasks)}
  IN  /\ found # {}
      /\ GoTo(s, "idle", "sweeping")
      /\ target' = [target EXCEPT ![s] = found]
      /\ TakeSnapshot(s)
      /\ UNCHANGED <<table, clock, locks, born>>

\* Mutant of SweepLock: claimed tasks are not skipped.
SweepLockClaimed(s, T, P) ==
  /\ GoTo(s, "sweeping", "swept")
  /\ T \subseteq target[s] \cap tasks
  /\ P \subseteq {x \in T \cup (target[s] \cap Timers) :
                    Pending(x) /\ PromiseLockable(s, x)}
  /\ lockedTasks' = [lockedTasks EXCEPT ![s] = T]
  /\ lockedPromises' = [lockedPromises EXCEPT ![s] = P]
  /\ UNCHANGED <<table, clock, target, born, snapshot>>

\* FOR UPDATE SKIP LOCKED: T and P are the tasks and promises rows it locks.
\* A row that is gone or no longer pending is left out, and so is one that
\* another session holds.  Any other may be left out too: LIMIT cuts the scan
\* short, and a session waiting for one of several rows holds the others.
SweepLock(s, T, P) ==
  /\ GoTo(s, "sweeping", "swept")
  /\ T \subseteq {x \in target[s] \cap tasks : TaskFree(s, x)}
  /\ P \subseteq {x \in T \cup (target[s] \cap Timers) :
                    Pending(x) /\ PromiseLockable(s, x)}
  /\ lockedTasks' = [lockedTasks EXCEPT ![s] = T]
  /\ lockedPromises' = [lockedPromises EXCEPT ![s] = P]
  /\ UNCHANGED <<table, clock, target, born, snapshot>>

\* Mutant of SweepCommit: every locked task is deleted, settled or not.
SweepCommitAllTasks(s) ==
  /\ pc[s] = "swept"
  /\ SettleAndWake(s, lockedPromises[s],
       [x \in Ids |-> IF x \in Timers THEN "resolved" ELSE "timed_out"],
       lockedTasks[s])
  /\ Release(s)
  /\ UNCHANGED clock

SweepCommit(s) ==
  /\ pc[s] = "swept"
  /\ SettleAndWake(s, lockedPromises[s],
       [x \in Ids |-> IF x \in Timers THEN "resolved" ELSE "timed_out"],
       lockedPromises[s] \ Timers)
  /\ Release(s)
  /\ UNCHANGED clock

\* Mutant of CollectScan: the children of the root are not looked at.
CollectScanRootsOnly(s) ==
  LET doomed == {r \in retired : promises[r] \in Terminal}
  IN  /\ doomed # {}
      /\ GoTo(s, "idle", "collecting")
      /\ target' = [target EXCEPT ![s] = doomed]
      /\ UNCHANGED <<table, clock, locks, born, snapshot>>

\* DELETE_EXPIRED: retired roots of settled graphs in the statement's snapshot.
CollectScan(s) ==
  LET doomed == {r \in retired : promises[r] \in Terminal
                                  /\ \A x \in Graph({r}) : ~Pending(x)}
  IN  /\ doomed # {}
      /\ GoTo(s, "idle", "collecting")
      /\ target' = [target EXCEPT ![s] = doomed]
      /\ UNCHANGED <<table, clock, locks, born, snapshot>>

\* Mutants of CollectCommit: the rows are found again by id, whichever row has it
\* now; the waits rows survive the tasks they belong to.
CollectCommitById(s) ==
  LET R == {r \in target[s] : PromiseLockable(s, r)}
      gone == Graph(R)
  IN  /\ pc[s] = "collecting"
      /\ \A x \in gone : TaskFree(s, x) /\ PromiseFree(s, x)
      /\ promises' = WithoutRows(promises, gone, "absent")
      /\ tasks' = tasks \ gone
      /\ pendingWaits' = WithoutRows(pendingWaits, gone, 0)
      /\ failures' = WithoutRows(failures, gone, 0)
      /\ waits' = WithoutRows(waits, gone, {})
      /\ due' = due \ gone /\ retired' = retired \ gone
      /\ pc' = [pc EXCEPT ![s] = "idle"]
      /\ target' = [target EXCEPT ![s] = {}]
      /\ snapshot' = [o \in Sessions |-> WithoutRows(snapshot[o], gone, {})]
      /\ UNCHANGED <<locks, born>>

CollectCommitKeepsWaits(s) ==
  LET R == {r \in target[s] : PromiseLockable(s, r)}
      gone == Graph(R)
  IN  /\ pc[s] = "collecting"
      /\ \A x \in gone : TaskFree(s, x) /\ PromiseFree(s, x)
      /\ promises' = WithoutRows(promises, gone, "absent")
      /\ tasks' = tasks \ gone
      /\ pendingWaits' = WithoutRows(pendingWaits, gone, 0)
      /\ failures' = WithoutRows(failures, gone, 0)
      /\ due' = due \ gone /\ retired' = retired \ gone
      /\ pc' = [pc EXCEPT ![s] = "idle"]
      /\ target' = [o \in Sessions |-> IF o = s THEN {} ELSE target[o] \ gone]
      /\ UNCHANGED <<waits, locks, born, snapshot>>

\* The roots still unlocked are deleted and the deletion cascades over their
\* graphs.  A row inserted again later is not the row an older snapshot shows.
CollectCommit(s) ==
  LET R == {r \in target[s] : PromiseLockable(s, r)}
      gone == Graph(R)
  IN  /\ pc[s] = "collecting"
      /\ \A x \in gone : TaskFree(s, x) /\ PromiseFree(s, x)
      /\ promises' = WithoutRows(promises, gone, "absent")
      /\ tasks' = tasks \ gone
      /\ pendingWaits' = WithoutRows(pendingWaits, gone, 0)
      /\ failures' = WithoutRows(failures, gone, 0)
      /\ waits' = WithoutRows(waits, gone, {})
      /\ due' = due \ gone /\ retired' = retired \ gone
      /\ pc' = [pc EXCEPT ![s] = "idle"]
      /\ target' = [o \in Sessions |-> IF o = s THEN {} ELSE target[o] \ gone]
      /\ snapshot' = [o \in Sessions |-> WithoutRows(snapshot[o], gone, {})]
      /\ UNCHANGED <<locks, born>>

\* A maintenance statement fails: a deadlock, a timeout, a lost connection.
Abort(s) ==
  /\ pc[s] # "idle"
  /\ Release(s)
  /\ UNCHANGED <<table, clock>>

-----------------------------------------------------------------------------

WorkerStep(w) ==
  \/ \E t \in Ids :
       \/ ClaimTask(w, t)
       \/ \E N \in SUBSET Children[t] : SubmitChildren(w, t, N)
       \/ LockPromise(w, t)
       \/ RetryScan(w, t)
       \/ RetryLock(w, t)
       \/ RetryAgain(w, t)
       \/ \E A \in SUBSET MayAwait[t] : SuspendLock(w, t, A)
       \/ SuspendCommit(w, t)
  \/ SettleScan(w)
  \/ \E v \in {"resolved", "rejected"} : SettleCommit(w, v)
  \/ RetryCommit(w)
  \/ Rollback(w)

SweeperStep(s) ==
  \/ SweepScan(s)
  \/ \E T \in SUBSET target[s], P \in SUBSET target[s] : SweepLock(s, T, P)
  \/ SweepCommit(s)
  \/ CollectScan(s)
  \/ CollectCommit(s)
  \/ Abort(s)

Next ==
  \/ \E N \in SUBSET External : Submit(N)
  \/ \E x \in Ids : DeadlinePasses(x) \/ RetentionPasses(x)
  \/ \E w \in Workers : WorkerStep(w)
  \/ \E s \in Sweepers : SweeperStep(s)

Spec == Init /\ [][Next]_vars

-----------------------------------------------------------------------------
(* Properties                                                                *)

Awaited(t) == {a \in waits[t] : Pending(a)}

\* A function never runs while a promise it suspended on is unsettled: the
\* replay would find no result for it.  CLAIM looks at pending_waits alone, so
\* this rests on every decrement of the counter by concurrent settlements.
NeverResumedEarly ==
  \A w \in Workers : \A t \in target[w] : Awaited(t) = {}

\* pending_waits is never below the number of unsettled promises awaited.
WaitsCovered ==
  \A t \in tasks : Cardinality(Awaited(t)) <= pendingWaits[t]

\* pending_waits is exactly that number, so no wake is lost: when functions
\* only settle or suspend, LOCK_PROMISE keeps every waiter in SETTLE's sight.
ExactWaitCount ==
  \A t \in tasks : pendingWaits[t] = Cardinality(Awaited(t))

\* A task that still counts waits has a promise left to wait for; otherwise
\* nothing but its deadline ever touches it again.
NoLostWake ==
  \A t \in tasks : Pending(t) /\ pendingWaits[t] > 0 => Awaited(t) # {}

\* While a worker holds a task nothing else settles its promise or removes its
\* row: not a sweep whose deadline passed, and not another worker.
ClaimKeepsTask ==
  \A w \in Workers : pc[w] # "idle" => target[w] \subseteq {t \in tasks : Pending(t)}

\* A pending call has its task row: CLAIM and PROCESS_DUE find calls by that
\* row only, so a call without one would stay pending for ever.
CallsHaveTasks ==
  \A x \in Ids \ Timers : Pending(x) => x \in tasks

\* A settled promise keeps its state until retention removes its graph.
SettledIsFinal ==
  [][\A x \in Ids : promises[x] \in Terminal =>
       promises'[x] \in {promises[x], "absent"}]_vars

\* Retention deletes terminal promises only.
PendingNeverDeleted ==
  [][\A x \in Ids : Pending(x) => promises'[x] # "absent"]_vars

\* The tables and transactions implement DurablePromises.
Promises == INSTANCE DurablePromises WITH
  state <- promises,
  awaiting <- [t \in Ids |-> IF Pending(t) THEN waits[t] ELSE {}],
  running <- UNION {target[w] : w \in Workers}

ImplementsDurablePromises == Promises!Spec

\* No worker holds a row of x, nor keeps its root row from being locked.
LeftAlone(x) ==
  \A w \in Workers :
    /\ x \notin lockedTasks[w] \cup lockedPromises[w]
    /\ \A c \in born[w] : Root[c] # x

\* poll_maintenance sweeps again and again, whatever happened to the sweep
\* before, and SKIP LOCKED with LIMIT does not pass over the same free row in
\* every one of them.  Workers are not assumed to do anything.
Fairness ==
  \A s \in Sweepers :
    /\ WF_vars(SweepScan(s))
    /\ WF_vars(\E T, P \in SUBSET target[s] : SweepLock(s, T, P))
    /\ WF_vars(SweepCommit(s))
    /\ \A x \in Ids :
         /\ SF_vars(\E T, P \in SUBSET target[s] : x \in P /\ SweepLock(s, T, P))
         /\ SF_vars(x \in lockedPromises[s] /\ SweepCommit(s))

FairSpec == Spec /\ Fairness

\* A promise past its deadline is settled, even when its wake was lost, unless
\* workers lock its rows again and again.
DeadlineHonoured ==
  \A x \in Ids : <>[](x \in due /\ Pending(x)) => []<>~LeftAlone(x)


=============================================================================
