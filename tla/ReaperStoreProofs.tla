-------------------------- MODULE ReaperStoreProofs --------------------------
(***************************************************************************)
(* Proofs about ReaperStore, for every set of ids, graphs, workers and     *)
(* maintenance skeletons: the inductive invariant IInv, and from it the    *)
(* safety properties of ReaperStore.  The last sections prove that no wake *)
(* is lost when LOCK_PROMISE precedes every settlement: without RETRY and  *)
(* without deadlines, whose single statements take their snapshot before   *)
(* they have the promise's row, pending_waits is exactly the number of     *)
(* unsettled promises awaited; and that the tables and transactions        *)
(* implement DurablePromises.                                              *)
(***************************************************************************)
EXTENDS ReaperStore, FiniteSetTheorems, TLAPS

-----------------------------------------------------------------------------
(* The inductive invariant                                                   *)

\* Rows: a task row has its promise row and is no timer's, only task rows have
\* waits, and a waits row names a promise of the same graph.
RowsInv ==
  /\ \A x \in tasks : Exists(x) /\ x \notin Timers
  /\ \A x \in Ids : x \notin tasks => waits[x] = {}
  /\ \A x \in Ids : \A a \in waits[x] : Exists(a) /\ Root[a] = Root[x]

\* Uncommitted inserts are invisible, each to one session only.
BornInv ==
  /\ \A s \in Sessions : \A x \in born[s] : ~Exists(x)
  /\ \A s, o \in Sessions : s # o => born[s] \cap born[o] = {}

\* Row locks are exclusive, and a locked promise row exists.
LocksInv ==
  /\ \A s, o \in Sessions : s # o => lockedTasks[s] \cap lockedTasks[o] = {}
  /\ \A s, o \in Sessions : s # o => lockedPromises[s] \cap lockedPromises[o] = {}
  /\ \A s \in Sessions : \A x \in lockedPromises[s] : Exists(x) \/ x \in born[s]

\* What a worker's transaction knows in each phase.
WorkerInv ==
  \A w \in Workers :
    /\ pc[w] \in WorkerPhases
    /\ lockedTasks[w] = target[w]
    /\ pc[w] = "idle" => target[w] = {}
    /\ pc[w] # "idle" => \E t \in Ids : target[w] = {t}
    /\ \A t \in target[w] : t \in tasks /\ Pending(t) /\ pendingWaits[t] = 0
    /\ pc[w] \in {"idle", "running", "exhausting"} => lockedPromises[w] = {}
    /\ pc[w] \in {"locked", "settling", "exhausted"} => lockedPromises[w] = target[w]
    /\ pc[w] = "suspending" =>
         \A t \in target[w] : \A a \in lockedPromises[w] : Root[a] = Root[t]

\* What a maintenance statement knows in each phase.
SweeperInv ==
  \A s \in Sweepers :
    /\ pc[s] \in SweeperPhases
    /\ born[s] = {}
    /\ pc[s] # "swept" => lockedTasks[s] = {} /\ lockedPromises[s] = {}
    /\ \A x \in lockedPromises[s] : Pending(x) /\ (x \in Timers \/ x \in lockedTasks[s])

\* A snapshot shows no waits row that is not there: rows of a live waiter are
\* never deleted, and a promise deleted by retention leaves every snapshot.
SnapshotInv ==
  \A s \in Sessions : \A x \in Ids :
    (x \in tasks \/ ~Exists(x)) => snapshot[s][x] \subseteq waits[x]

\* LOCK_PROMISE before SETTLE: the statement sees every waiter of its promise.
SightInv ==
  \A w \in Workers : pc[w] = "settling" =>
    \A v \in tasks : waits[v] \cap target[w] \subseteq snapshot[w][v]

IInv ==
  /\ TypeOK /\ RowsInv /\ BornInv /\ LocksInv /\ WorkerInv /\ SweeperInv
  /\ SnapshotInv /\ SightInv /\ CallsHaveTasks /\ WaitsCovered
-----------------------------------------------------------------------------
(* Facts about the operators                                                 *)

\* Counting promises: a set of ids has a number of elements, and a smaller set
\* no larger one.
LEMMA Counting ==
  ASSUME NEW X \in SUBSET Ids, NEW Y \in SUBSET X
  PROVE  /\ IsFiniteSet(X) /\ IsFiniteSet(Y)
         /\ Cardinality(X) \in Nat /\ Cardinality(Y) \in Nat
         /\ Cardinality(Y) <= Cardinality(X)
         /\ Cardinality(X \ Y) = Cardinality(X) - Cardinality(Y)
<1>1. IsFiniteSet(X) /\ IsFiniteSet(Y)
  BY StoreAssumption, FS_Subset
<1>2. X \cap Y = Y
  OBVIOUS
<1>3. Cardinality(X) \in Nat /\ Cardinality(Y) \in Nat
  BY <1>1, FS_CardinalityType
<1>4. Cardinality(Y) <= Cardinality(X)
  BY <1>1, FS_Subset
<1>5. Cardinality(X \ Y) = Cardinality(X) - Cardinality(X \cap Y)
  BY <1>1, FS_Difference
<1> QED
  BY <1>1, <1>2, <1>3, <1>4, <1>5

\* The counter a woken waiter is left with.
LEMMA WaitsLeftValue ==
  ASSUME TypeOK, NEW v \in Ids, NEW S \in SUBSET Ids,
         NEW seen \in [Ids -> SUBSET Ids]
  PROVE  /\ WaitsLeft(v, S, seen) \in Nat
         /\ WaitsLeft(v, S, seen) >= pendingWaits[v] - Cardinality(seen[v] \cap S)
         /\ pendingWaits[v] >= Cardinality(seen[v] \cap S) =>
              WaitsLeft(v, S, seen) = pendingWaits[v] - Cardinality(seen[v] \cap S)
<1> DEFINE settled == seen[v] \cap S
<1>1. Cardinality(settled) \in Nat
  <2>1. settled \in SUBSET Ids
    OBVIOUS
  <2> QED
    BY <2>1, Counting
<1>2. pendingWaits[v] \in Nat
  BY DEF TypeOK
<1>3. WaitsLeft(v, S, seen) = IF pendingWaits[v] > Cardinality(settled)
                              THEN pendingWaits[v] - Cardinality(settled) ELSE 0
  BY DEF WaitsLeft
<1> QED
  BY <1>1, <1>2, <1>3

\* The types of the tables after a settlement.
LEMMA SettleType ==
  ASSUME TypeOK, NEW s \in Sessions, NEW S \in SUBSET Ids, NEW R \in SUBSET Ids,
         NEW result \in [Ids -> Terminal],
         SettleAndWake(s, S, result, R)
  PROVE  /\ promises' \in [Ids -> States]
         /\ tasks' \subseteq Ids
         /\ pendingWaits' \in [Ids -> Nat]
         /\ failures' \in [Ids -> Nat]
         /\ waits' \in [Ids -> SUBSET Ids]
<1> DEFINE seen == snapshot[s]
           gone == R \ Woken(S, seen)
           left == [v \in Ids |-> IF v \in Woken(S, seen) THEN WaitsLeft(v, S, seen)
                                                          ELSE pendingWaits[v]]
<1>1. seen \in [Ids -> SUBSET Ids]
  BY DEF TypeOK
<1>2. left \in [Ids -> Nat]
  BY <1>1, WaitsLeftValue DEF TypeOK
<1>3. gone \subseteq Ids
  OBVIOUS
<1>4. /\ promises' = [x \in Ids |-> IF x \in S THEN result[x] ELSE Inserted(born[s])[x]]
      /\ tasks' = (tasks \cup NewTasks(born[s])) \ gone
      /\ pendingWaits' = WithoutRows(left, gone, 0)
      /\ failures' = WithoutRows(failures, gone, 0)
      /\ waits' = WithoutRows(waits, gone, {})
  BY DEF SettleAndWake
<1> HIDE DEF left, gone, seen
<1>5. promises' \in [Ids -> States]
  BY <1>4 DEF TypeOK, Inserted, States
<1>6. tasks' \subseteq Ids
  BY <1>4 DEF TypeOK, NewTasks
<1>7. pendingWaits' \in [Ids -> Nat]
  BY <1>2, <1>4 DEF WithoutRows
<1>8. failures' \in [Ids -> Nat] /\ waits' \in [Ids -> SUBSET Ids]
  BY <1>4 DEF TypeOK, WithoutRows
<1> QED
  BY <1>5, <1>6, <1>7, <1>8

\* The type of a session that has ended its transaction.
LEMMA ReleaseType ==
  ASSUME TypeOK, NEW s \in Sessions, Release(s)
  PROVE  /\ pc' \in [Sessions -> WorkerPhases \cup SweeperPhases]
         /\ target' \in [Sessions -> SUBSET Ids]
         /\ lockedTasks' \in [Sessions -> SUBSET Ids]
         /\ lockedPromises' \in [Sessions -> SUBSET Ids]
         /\ born' \in [Sessions -> SUBSET Ids]
         /\ snapshot' \in [Sessions -> [Ids -> SUBSET Ids]]
BY DEF TypeOK, Release, NoWaits, WorkerPhases

-----------------------------------------------------------------------------
(* Type correctness                                                          *)

LEMMA WorkerType ==
  ASSUME TypeOK, NEW w \in Workers, WorkerStep(w)
  PROVE  TypeOK'
<1> USE DEF TypeOK, GoTo, WorkerPhases, table, clock, locks
<1>0. w \in Sessions
  BY DEF Sessions
<1>1. ASSUME NEW t \in Ids, ClaimTask(w, t) PROVE TypeOK'
  BY <1>0, <1>1 DEF ClaimTask
<1>2. ASSUME NEW t \in Ids, NEW N \in SUBSET Children[t], SubmitChildren(w, t, N)
      PROVE TypeOK'
  BY <1>0, <1>2, StoreAssumption DEF SubmitChildren
<1>3. ASSUME NEW t \in Ids, LockPromise(w, t) PROVE TypeOK'
  BY <1>0, <1>3 DEF LockPromise
<1>4. ASSUME NEW t \in Ids, RetryScan(w, t) PROVE TypeOK'
  BY <1>0, <1>4 DEF RetryScan, TakeSnapshot
<1>5. ASSUME NEW t \in Ids, RetryLock(w, t) PROVE TypeOK'
  BY <1>0, <1>5 DEF RetryLock
<1>6. ASSUME NEW t \in Ids, RetryAgain(w, t) PROVE TypeOK'
  <2>1. promises' \in [Ids -> States]
    BY <1>6 DEF RetryAgain, Inserted, States
  <2>2. tasks' \subseteq Ids /\ failures' \in [Ids -> Nat]
    BY <1>0, <1>6 DEF RetryAgain, NewTasks
  <2>3. Release(w) /\ UNCHANGED <<pendingWaits, waits, clock>>
    BY <1>6 DEF RetryAgain
  <2> QED
    BY <1>0, <2>1, <2>2, <2>3, ReleaseType
<1>7. ASSUME NEW t \in Ids, NEW A \in SUBSET MayAwait[t], SuspendLock(w, t, A)
      PROVE TypeOK'
  BY <1>0, <1>7, StoreAssumption DEF SuspendLock
<1>8. ASSUME NEW t \in Ids, SuspendCommit(w, t) PROVE TypeOK'
  <2> DEFINE A == lockedPromises[w]
             U == {a \in A : Pending(a) \/ a \in born[w]}
  <2>1. promises' \in [Ids -> States]
    BY <1>8 DEF SuspendCommit, Inserted, States
  <2>2. tasks' \subseteq Ids /\ waits' \in [Ids -> SUBSET Ids]
    BY <1>0, <1>8 DEF SuspendCommit, NewTasks
  <2>3. Cardinality(U) \in Nat
    <3>1. U \in SUBSET Ids
      BY <1>0
    <3> QED
      BY <3>1, Counting
  <2>4. pendingWaits' = [pendingWaits EXCEPT ![t] = Cardinality(U)]
    BY <1>8 DEF SuspendCommit
  <2>5. pendingWaits' \in [Ids -> Nat]
    BY <2>3, <2>4
  <2>6. Release(w) /\ UNCHANGED <<failures, clock>>
    BY <1>8 DEF SuspendCommit
  <2> QED
    BY <1>0, <2>1, <2>2, <2>5, <2>6, ReleaseType
<1>9. CASE SettleScan(w)
  BY <1>0, <1>9 DEF SettleScan, TakeSnapshot
<1>10. ASSUME NEW v \in {"resolved", "rejected"}, SettleCommit(w, v) PROVE TypeOK'
  <2>1. [x \in Ids |-> v] \in [Ids -> Terminal] /\ target[w] \in SUBSET Ids
    BY <1>0 DEF Terminal
  <2>2. SettleAndWake(w, target[w], [x \in Ids |-> v], target[w])
    BY <1>10 DEF SettleCommit
  <2>3. Release(w) /\ UNCHANGED clock
    BY <1>10 DEF SettleCommit
  <2> HIDE DEF TypeOK
  <2>4. /\ promises' \in [Ids -> States] /\ tasks' \subseteq Ids
        /\ pendingWaits' \in [Ids -> Nat] /\ failures' \in [Ids -> Nat]
        /\ waits' \in [Ids -> SUBSET Ids]
    BY <1>0, <2>1, <2>2, SettleType
  <2> QED
    BY <1>0, <2>3, <2>4, ReleaseType DEF TypeOK
<1>11. CASE RetryCommit(w)
  <2>1. [x \in Ids |-> "rejected"] \in [Ids -> Terminal] /\ target[w] \in SUBSET Ids
    BY <1>0 DEF Terminal
  <2>2. SettleAndWake(w, target[w], [x \in Ids |-> "rejected"], target[w])
    BY <1>11 DEF RetryCommit
  <2>3. Release(w) /\ UNCHANGED clock
    BY <1>11 DEF RetryCommit
  <2> HIDE DEF TypeOK
  <2>4. /\ promises' \in [Ids -> States] /\ tasks' \subseteq Ids
        /\ pendingWaits' \in [Ids -> Nat] /\ failures' \in [Ids -> Nat]
        /\ waits' \in [Ids -> SUBSET Ids]
    BY <1>0, <2>1, <2>2, SettleType
  <2> QED
    BY <1>0, <2>3, <2>4, ReleaseType DEF TypeOK
<1>12. CASE Rollback(w)
  BY <1>0, <1>12, ReleaseType DEF Rollback
<1> HIDE DEF TypeOK, GoTo, WorkerPhases, table, clock, locks
<1> QED
  BY <1>1, <1>2, <1>3, <1>4, <1>5, <1>6, <1>7, <1>8, <1>9, <1>10, <1>11, <1>12
  DEF WorkerStep

LEMMA SweeperType ==
  ASSUME TypeOK, NEW s \in Sweepers, SweeperStep(s)
  PROVE  TypeOK'
<1> USE DEF TypeOK, GoTo, SweeperPhases, table, clock, locks
<1>0. s \in Sessions
  BY DEF Sessions
<1>1. CASE SweepScan(s)
  BY <1>0, <1>1 DEF SweepScan, TakeSnapshot
<1>2. ASSUME NEW T \in SUBSET target[s], NEW P \in SUBSET target[s], SweepLock(s, T, P)
      PROVE TypeOK'
  BY <1>0, <1>2 DEF SweepLock
<1>3. CASE SweepCommit(s)
  <2> DEFINE result == [x \in Ids |-> IF x \in Timers THEN "resolved" ELSE "timed_out"]
  <2>1. result \in [Ids -> Terminal]
    BY DEF Terminal
  <2>2. lockedPromises[s] \in SUBSET Ids /\ lockedPromises[s] \ Timers \in SUBSET Ids
    BY <1>0
  <2>3. SettleAndWake(s, lockedPromises[s], result, lockedPromises[s] \ Timers)
    BY <1>3 DEF SweepCommit
  <2>4. Release(s) /\ UNCHANGED clock
    BY <1>3 DEF SweepCommit
  <2> HIDE DEF TypeOK, result
  <2>5. /\ promises' \in [Ids -> States] /\ tasks' \subseteq Ids
        /\ pendingWaits' \in [Ids -> Nat] /\ failures' \in [Ids -> Nat]
        /\ waits' \in [Ids -> SUBSET Ids]
    BY <1>0, <2>1, <2>2, <2>3, SettleType
  <2> QED
    BY <1>0, <2>4, <2>5, ReleaseType DEF TypeOK
<1>4. CASE CollectScan(s)
  BY <1>0, <1>4 DEF CollectScan, Roots
<1>5. CASE CollectCommit(s)
  BY <1>0, <1>5 DEF CollectCommit, WithoutRows, Graph, States
<1>6. CASE Abort(s)
  BY <1>0, <1>6, ReleaseType DEF Abort
<1> HIDE DEF TypeOK, GoTo, SweeperPhases, table, clock, locks
<1> QED
  BY <1>1, <1>2, <1>3, <1>4, <1>5, <1>6 DEF SweeperStep

LEMMA TypeStep == TypeOK /\ [Next]_vars => TypeOK'
<1> SUFFICES ASSUME TypeOK, [Next]_vars PROVE TypeOK'
  OBVIOUS
<1>1. ASSUME NEW N \in SUBSET External, Submit(N) PROVE TypeOK'
  BY <1>1, StoreAssumption DEF TypeOK, Submit, Inserted, NewTasks, States, clock, locks
<1>2. ASSUME NEW x \in Ids, DeadlinePasses(x) PROVE TypeOK'
  BY <1>2 DEF TypeOK, DeadlinePasses, table, locks
<1>3. ASSUME NEW x \in Ids, RetentionPasses(x) PROVE TypeOK'
  BY <1>3, StoreAssumption DEF TypeOK, RetentionPasses, table, locks
<1>4. CASE UNCHANGED vars
  BY <1>4 DEF TypeOK, vars, table, clock, locks
<1> QED
  BY <1>1, <1>2, <1>3, <1>4, WorkerType, SweeperType DEF Next

LEMMA TypeInit == Init => TypeOK
BY DEF Init, TypeOK, States, NoWaits, WorkerPhases

\* The store keeps the types of its tables and sessions.
THEOREM TypeCorrect == Spec => []TypeOK
BY TypeInit, TypeStep, PTL DEF Spec

-----------------------------------------------------------------------------
(* The inductive invariant: steps that leave the tables alone                *)

LEMMA InvInit == Init => IInv
<1> SUFFICES ASSUME Init PROVE IInv
  OBVIOUS
<1>1. TypeOK
  BY TypeInit
<1>2. RowsInv /\ BornInv /\ LocksInv
  BY DEF Init, RowsInv, BornInv, LocksInv, NoWaits, Exists
<1>3. WorkerInv /\ SweeperInv
  BY DEF Init, WorkerInv, SweeperInv, WorkerPhases, SweeperPhases, Sessions
<1>4. SnapshotInv /\ SightInv /\ CallsHaveTasks /\ WaitsCovered
  BY DEF Init, SnapshotInv, SightInv, CallsHaveTasks, WaitsCovered, NoWaits, Sessions, Pending
<1> QED
  BY <1>1, <1>2, <1>3, <1>4 DEF IInv

\* The conjuncts of IInv that are about the tables alone.
LEMMA TableFrame ==
  ASSUME IInv, UNCHANGED table
  PROVE  RowsInv' /\ CallsHaveTasks' /\ WaitsCovered'
BY DEF IInv, RowsInv, CallsHaveTasks, WaitsCovered, Awaited, Exists, Pending, table

\* A session that ends its transaction without touching the tables.
LEMMA ReleaseFrame ==
  ASSUME IInv, NEW s \in Sessions, Release(s), UNCHANGED <<table, clock>>, TypeOK'
  PROVE  IInv'
<1> USE DEF IInv, Release
<1>1. RowsInv' /\ CallsHaveTasks' /\ WaitsCovered'
  BY TableFrame
<1>2. BornInv' /\ LocksInv'
  BY DEF TypeOK, BornInv, LocksInv, table, Exists
<1>3. WorkerInv'
  BY StoreAssumption DEF TypeOK, WorkerInv, table, Pending, WorkerPhases, Sessions
<1>4. SweeperInv'
  BY StoreAssumption DEF TypeOK, SweeperInv, table, Pending, SweeperPhases, Sessions
<1>5. SnapshotInv' /\ SightInv'
  BY DEF TypeOK, SnapshotInv, SightInv, table, Exists, NoWaits, Sessions
<1> QED
  BY <1>1, <1>2, <1>3, <1>4, <1>5

LEMMA ClaimInv ==
  ASSUME IInv, NEW w \in Workers, NEW t \in Ids, ClaimTask(w, t), TypeOK'
  PROVE  IInv'
<1> USE DEF IInv, ClaimTask, GoTo
<1>0. w \in Sessions
  BY DEF Sessions
<1>1. RowsInv' /\ CallsHaveTasks' /\ WaitsCovered'
  BY TableFrame
<1>2. BornInv' /\ LocksInv'
  BY <1>0 DEF TypeOK, BornInv, LocksInv, table, Exists, TaskFree
<1>3. WorkerInv'
  BY <1>0, StoreAssumption DEF TypeOK, WorkerInv, table, Pending, WorkerPhases, Sessions
<1>4. SweeperInv'
  BY <1>0, StoreAssumption DEF TypeOK, SweeperInv, table, Pending, SweeperPhases, Sessions
<1>5. SnapshotInv' /\ SightInv'
  BY <1>0 DEF TypeOK, SnapshotInv, SightInv, table, Exists, NoWaits, Sessions
<1> QED
  BY <1>1, <1>2, <1>3, <1>4, <1>5

LEMMA SubmitChildrenInv ==
  ASSUME IInv, NEW w \in Workers, NEW t \in Ids, NEW N \in SUBSET Children[t],
         SubmitChildren(w, t, N), TypeOK'
  PROVE  IInv'
<1> USE DEF IInv, SubmitChildren
<1>0. w \in Sessions /\ w \notin Sweepers
  BY StoreAssumption DEF Sessions
<1>1. RowsInv' /\ CallsHaveTasks' /\ WaitsCovered'
  BY TableFrame
<1>2. BornInv' /\ LocksInv'
  BY <1>0 DEF TypeOK, BornInv, LocksInv, table, locks, Exists, Uncontested
<1>3. WorkerInv' /\ SweeperInv'
  BY <1>0 DEF TypeOK, WorkerInv, SweeperInv, table, locks, Pending, Sessions
<1>4. SnapshotInv' /\ SightInv'
  BY DEF SnapshotInv, SightInv, table, Exists
<1> QED
  BY <1>1, <1>2, <1>3, <1>4

LEMMA LockPromiseInv ==
  ASSUME IInv, NEW w \in Workers, NEW t \in Ids, LockPromise(w, t), TypeOK'
  PROVE  IInv'
<1> USE DEF IInv, LockPromise, GoTo
<1>0. w \in Sessions /\ w \notin Sweepers
  BY StoreAssumption DEF Sessions
<1>1. RowsInv' /\ CallsHaveTasks' /\ WaitsCovered'
  BY TableFrame
<1>2. BornInv' /\ LocksInv'
  BY <1>0 DEF TypeOK, BornInv, LocksInv, table, Exists, Pending, PromiseLockable, PromiseFree
<1>3. WorkerInv'
  BY <1>0 DEF TypeOK, WorkerInv, table, Pending, WorkerPhases, Sessions
<1>4. SweeperInv'
  BY <1>0 DEF TypeOK, SweeperInv, table, Pending, Sessions
<1>5. SnapshotInv' /\ SightInv'
  BY <1>0 DEF TypeOK, SnapshotInv, SightInv, table, Exists, Sessions
<1> QED
  BY <1>1, <1>2, <1>3, <1>4, <1>5

LEMMA SettleScanInv ==
  ASSUME IInv, NEW w \in Workers, SettleScan(w), TypeOK'
  PROVE  IInv'
<1> USE DEF IInv, SettleScan, GoTo, TakeSnapshot
<1>0. w \in Sessions /\ w \notin Sweepers
  BY StoreAssumption DEF Sessions
<1>1. RowsInv' /\ CallsHaveTasks' /\ WaitsCovered'
  BY TableFrame
<1>2. BornInv' /\ LocksInv'
  BY <1>0 DEF TypeOK, BornInv, LocksInv, table, locks, Exists
<1>3. WorkerInv'
  BY <1>0 DEF TypeOK, WorkerInv, table, locks, Pending, WorkerPhases, Sessions
<1>4. SweeperInv'
  BY <1>0 DEF TypeOK, SweeperInv, table, locks, Pending, Sessions
<1>5. SnapshotInv' /\ SightInv'
  BY <1>0 DEF TypeOK, SnapshotInv, SightInv, table, Exists, Sessions
<1> QED
  BY <1>1, <1>2, <1>3, <1>4, <1>5

LEMMA RetryScanInv ==
  ASSUME IInv, NEW w \in Workers, NEW t \in Ids, RetryScan(w, t), TypeOK'
  PROVE  IInv'
<1> USE DEF IInv, RetryScan, GoTo, TakeSnapshot
<1>0. w \in Sessions /\ w \notin Sweepers
  BY StoreAssumption DEF Sessions
<1>1. RowsInv' /\ CallsHaveTasks' /\ WaitsCovered'
  BY TableFrame
<1>2. BornInv' /\ LocksInv'
  BY <1>0 DEF TypeOK, BornInv, LocksInv, table, locks, Exists
<1>3. WorkerInv'
  BY <1>0 DEF TypeOK, WorkerInv, table, locks, Pending, WorkerPhases, Sessions
<1>4. SweeperInv'
  BY <1>0 DEF TypeOK, SweeperInv, table, locks, Pending, Sessions
<1>5. SnapshotInv' /\ SightInv'
  BY <1>0 DEF TypeOK, SnapshotInv, SightInv, table, Exists, Sessions
<1> QED
  BY <1>1, <1>2, <1>3, <1>4, <1>5

LEMMA RetryLockInv ==
  ASSUME IInv, NEW w \in Workers, NEW t \in Ids, RetryLock(w, t), TypeOK'
  PROVE  IInv'
<1> USE DEF IInv, RetryLock, GoTo
<1>0. w \in Sessions /\ w \notin Sweepers
  BY StoreAssumption DEF Sessions
<1>1. RowsInv' /\ CallsHaveTasks' /\ WaitsCovered'
  BY TableFrame
<1>2. BornInv' /\ LocksInv'
  BY <1>0 DEF TypeOK, BornInv, LocksInv, WorkerInv, table, Exists, Pending, PromiseFree
<1>3. WorkerInv'
  BY <1>0 DEF TypeOK, WorkerInv, table, Pending, WorkerPhases, Sessions
<1>4. SweeperInv'
  BY <1>0 DEF TypeOK, SweeperInv, table, Pending, Sessions
<1>5. SnapshotInv' /\ SightInv'
  BY <1>0 DEF TypeOK, SnapshotInv, SightInv, table, Exists, Sessions
<1> QED
  BY <1>1, <1>2, <1>3, <1>4, <1>5

LEMMA SuspendLockInv ==
  ASSUME IInv, NEW w \in Workers, NEW t \in Ids, NEW A \in SUBSET MayAwait[t],
         SuspendLock(w, t, A), TypeOK'
  PROVE  IInv'
<1> USE DEF IInv, SuspendLock, GoTo
<1>0. w \in Sessions /\ w \notin Sweepers
  BY StoreAssumption DEF Sessions
<1>1. RowsInv' /\ CallsHaveTasks' /\ WaitsCovered'
  BY TableFrame
<1>2. \A o \in Sessions \ {w} : A \cap lockedPromises[o] = {}
  BY <1>0 DEF BornInv, LocksInv, PromiseLockable, PromiseFree
<1>3. BornInv' /\ LocksInv'
  BY <1>0, <1>2 DEF TypeOK, BornInv, LocksInv, table, Exists
<1>4. WorkerInv'
  BY <1>0, StoreAssumption DEF TypeOK, WorkerInv, table, Pending, WorkerPhases, Sessions
<1>5. SweeperInv'
  BY <1>0 DEF TypeOK, SweeperInv, table, Pending, Sessions
<1>6. SnapshotInv' /\ SightInv'
  BY <1>0 DEF TypeOK, SnapshotInv, SightInv, table, Exists, Sessions
<1> QED
  BY <1>1, <1>3, <1>4, <1>5, <1>6

LEMMA SweepScanInv ==
  ASSUME IInv, NEW s \in Sweepers, SweepScan(s), TypeOK'
  PROVE  IInv'
<1> USE DEF IInv, SweepScan, GoTo, TakeSnapshot
<1>0. s \in Sessions /\ s \notin Workers
  BY StoreAssumption DEF Sessions
<1>1. RowsInv' /\ CallsHaveTasks' /\ WaitsCovered'
  BY TableFrame
<1>2. BornInv' /\ LocksInv'
  BY DEF BornInv, LocksInv, table, locks, Exists
<1>3. WorkerInv'
  BY <1>0 DEF TypeOK, WorkerInv, table, locks, Pending, Sessions
<1>4. SweeperInv'
  BY <1>0 DEF TypeOK, SweeperInv, SweeperPhases, table, locks, Pending, Sessions
<1>5. SnapshotInv' /\ SightInv'
  BY <1>0 DEF TypeOK, SnapshotInv, SightInv, table, Exists, Sessions
<1> QED
  BY <1>1, <1>2, <1>3, <1>4, <1>5

LEMMA SweepLockInv ==
  ASSUME IInv, NEW s \in Sweepers, NEW T \in SUBSET target[s], NEW P \in SUBSET target[s],
         SweepLock(s, T, P), TypeOK'
  PROVE  IInv'
<1> USE DEF IInv, SweepLock, GoTo
<1>0. s \in Sessions /\ s \notin Workers
  BY StoreAssumption DEF Sessions
<1>1. RowsInv' /\ CallsHaveTasks' /\ WaitsCovered'
  BY TableFrame
<1>2. /\ \A o \in Sessions \ {s} : T \cap lockedTasks[o] = {}
      /\ \A o \in Sessions \ {s} : P \cap lockedPromises[o] = {}
      /\ \A x \in P : Pending(x) /\ (x \in T \/ x \in Timers)
  BY <1>0 DEF TaskFree, PromiseLockable, PromiseFree
<1>3. BornInv' /\ LocksInv'
  BY <1>0, <1>2 DEF TypeOK, BornInv, LocksInv, table, Exists, Pending
<1>4. WorkerInv'
  BY <1>0 DEF TypeOK, WorkerInv, table, Pending, Sessions
<1>5. SweeperInv'
  BY <1>0, <1>2 DEF TypeOK, SweeperInv, SweeperPhases, table, Pending, Sessions
<1>6. SnapshotInv' /\ SightInv'
  BY <1>0 DEF TypeOK, SnapshotInv, SightInv, table, Exists, Sessions
<1> QED
  BY <1>1, <1>3, <1>4, <1>5, <1>6

LEMMA CollectScanInv ==
  ASSUME IInv, NEW s \in Sweepers, CollectScan(s), TypeOK'
  PROVE  IInv'
<1> USE DEF IInv, CollectScan, GoTo
<1>0. s \in Sessions /\ s \notin Workers
  BY StoreAssumption DEF Sessions
<1>1. RowsInv' /\ CallsHaveTasks' /\ WaitsCovered'
  BY TableFrame
<1>2. BornInv' /\ LocksInv'
  BY DEF BornInv, LocksInv, table, locks, Exists
<1>3. WorkerInv'
  BY <1>0 DEF TypeOK, WorkerInv, table, locks, Pending, Sessions
<1>4. SweeperInv'
  BY <1>0 DEF TypeOK, SweeperInv, SweeperPhases, table, locks, Pending, Sessions
<1>5. SnapshotInv' /\ SightInv'
  BY <1>0 DEF TypeOK, SnapshotInv, SightInv, table, Exists, Sessions
<1> QED
  BY <1>1, <1>2, <1>3, <1>4, <1>5

LEMMA ClockInv ==
  ASSUME IInv, NEW x \in Ids, DeadlinePasses(x) \/ RetentionPasses(x), TypeOK'
  PROVE  IInv'
<1> USE DEF IInv, DeadlinePasses, RetentionPasses
<1>1. RowsInv' /\ CallsHaveTasks' /\ WaitsCovered'
  BY TableFrame
<1>2. BornInv' /\ LocksInv' /\ WorkerInv' /\ SweeperInv'
  BY DEF BornInv, LocksInv, WorkerInv, SweeperInv, table, locks, Exists, Pending
<1>3. SnapshotInv' /\ SightInv'
  BY DEF SnapshotInv, SightInv, table, Exists
<1> QED
  BY <1>1, <1>2, <1>3

-----------------------------------------------------------------------------
(* The inductive invariant: steps that change the tables                     *)

\* Inserting promises adds nothing to what any waiter awaits, and a task just
\* inserted awaits nothing.
LEMMA InsertAwaited ==
  ASSUME TypeOK, RowsInv, NEW N \in SUBSET Ids, \A x \in N : ~Exists(x),
         promises' = Inserted(N), UNCHANGED waits
  PROVE  /\ \A v \in Ids : Awaited(v)' = Awaited(v)
         /\ \A v \in N : Awaited(v)' = {}
<1>1. \A v \in Ids : \A a \in waits[v] : Pending(a)' <=> Pending(a)
  BY DEF TypeOK, RowsInv, Inserted, Exists, Pending
<1>2. \A v \in N : waits[v] = {}
  BY DEF RowsInv
<1> QED
  BY <1>1, <1>2 DEF Awaited

\* A committed insert keeps every conjunct that is not about the session.
LEMMA InsertFrame ==
  ASSUME IInv, TypeOK', NEW N \in SUBSET Ids, \A x \in N : ~Exists(x),
         promises' = Inserted(N), tasks' = tasks \cup NewTasks(N), UNCHANGED waits
  PROVE  /\ RowsInv' /\ CallsHaveTasks'
         /\ \A x \in Ids : Exists(x) => Exists(x)'
         /\ \A x \in Ids : Pending(x) => Pending(x)'
         /\ \A x \in Ids : (x \in tasks' \/ ~Exists(x)') => (x \in tasks \/ ~Exists(x))
         /\ \A x \in tasks' : x \in tasks \/ waits'[x] = {}
<1>1. \A x \in Ids : Exists(x) => Exists(x)'
  BY DEF Inserted, Exists
<1>2. \A x \in Ids : Pending(x) => Pending(x)'
  BY DEF Inserted, Pending
<1>3. RowsInv'
  BY <1>1 DEF IInv, TypeOK, RowsInv, NewTasks, Inserted, Exists
<1>4. CallsHaveTasks'
  BY DEF IInv, CallsHaveTasks, Inserted, NewTasks, Pending
<1> QED
  BY <1>1, <1>2, <1>3, <1>4 DEF IInv, RowsInv, NewTasks

LEMMA SubmitInv ==
  ASSUME IInv, NEW N \in SUBSET External, Submit(N), TypeOK'
  PROVE  IInv'
<1>0. N \in SUBSET Ids /\ \A x \in N : ~Exists(x)
  BY StoreAssumption DEF Submit
<1>1. /\ promises' = Inserted(N) /\ tasks' = tasks \cup NewTasks(N)
      /\ UNCHANGED <<pendingWaits, failures, waits, clock, pc, target, locks, born, snapshot>>
      /\ \A s \in Sessions : N \cap born[s] = {}
  BY DEF Submit
<1>2. /\ RowsInv' /\ CallsHaveTasks'
      /\ \A x \in Ids : Exists(x) => Exists(x)'
      /\ \A x \in Ids : Pending(x) => Pending(x)'
      /\ \A x \in Ids : (x \in tasks' \/ ~Exists(x)') => (x \in tasks \/ ~Exists(x))
      /\ \A x \in tasks' : x \in tasks \/ waits'[x] = {}
  BY <1>0, <1>1, InsertFrame
<1>3. BornInv' /\ LocksInv'
  BY <1>0, <1>1, <1>2 DEF IInv, TypeOK, BornInv, LocksInv, locks, Inserted, Exists
<1>4. WorkerInv' /\ SweeperInv'
  BY <1>1, <1>2 DEF IInv, TypeOK, WorkerInv, SweeperInv, locks, Sessions
<1>5. SnapshotInv' /\ SightInv'
  BY <1>1, <1>2 DEF IInv, SnapshotInv, SightInv
<1>6. WaitsCovered'
  <2> SUFFICES ASSUME NEW v \in tasks' PROVE Cardinality(Awaited(v)') <= pendingWaits'[v]
    BY DEF WaitsCovered
  <2>1. v \in Ids /\ pendingWaits'[v] \in Nat /\ pendingWaits' = pendingWaits
    BY <1>1 DEF TypeOK
  <2>2. /\ \A u \in Ids : Awaited(u)' = Awaited(u)
        /\ \A u \in N : Awaited(u)' = {}
    BY <1>0, <1>1, InsertAwaited DEF IInv
  <2>3. CASE v \in tasks
    BY <2>1, <2>2, <2>3 DEF IInv, WaitsCovered
  <2>4. CASE v \in N
    BY <2>1, <2>2, <2>4, FS_EmptySet
  <2> QED
    BY <1>1, <2>3, <2>4 DEF NewTasks
<1> QED
  BY <1>2, <1>3, <1>4, <1>5, <1>6 DEF IInv

\* The sessions after session s committed inserts of its own and released its
\* locks, given what its commit left of the tables.
LEMMA CommitFrame ==
  ASSUME IInv, NEW s \in Sessions, Release(s), TypeOK',
         RowsInv',
         \A x \in Ids : Exists(x) => Exists(x)',
         \A x \in Ids : Exists(x)' => Exists(x) \/ x \in born[s],
         \A o \in Workers \ {s} : \A t \in target[o] :
           t \in tasks' /\ Pending(t)' /\ pendingWaits'[t] = 0,
         \A o \in Sweepers \ {s} : \A x \in lockedPromises[o] : Pending(x)',
         \A x \in Ids : (x \in tasks' \/ ~Exists(x)') =>
           waits[x] \subseteq waits'[x] /\ (x \in tasks \/ ~Exists(x)),
         \A o \in Workers \ {s} : pc[o] = "settling" =>
           \A v \in tasks' : waits'[v] \cap target[o] \subseteq waits[v] \cap target[o]
  PROVE  BornInv' /\ LocksInv' /\ WorkerInv' /\ SweeperInv' /\ SnapshotInv' /\ SightInv'
<1> USE DEF IInv, Release
<1>1. BornInv' /\ LocksInv'
  BY DEF TypeOK, BornInv, LocksInv
<1>2. WorkerInv'
  BY StoreAssumption DEF TypeOK, WorkerInv, WorkerPhases, Sessions
<1>3. SweeperInv'
  BY StoreAssumption DEF TypeOK, SweeperInv, SweeperPhases, Sessions
<1>4. SnapshotInv'
  BY DEF TypeOK, SnapshotInv, NoWaits
<1>5. SightInv'
  <2> SUFFICES ASSUME NEW o \in Workers, pc'[o] = "settling", NEW v \in tasks'
               PROVE  waits'[v] \cap target'[o] \subseteq snapshot'[o][v]
    BY DEF SightInv
  <2>1. o # s /\ o \in Sessions
    BY DEF TypeOK, Sessions
  <2>2. target'[o] = target[o] /\ snapshot'[o] = snapshot[o] /\ pc[o] = "settling"
    BY <2>1 DEF TypeOK
  <2>3. v \in Ids
    BY DEF TypeOK
  <2>4. CASE v \in tasks
    BY <2>1, <2>2, <2>4 DEF SightInv
  <2>5. CASE v \notin tasks
    BY <2>1, <2>2, <2>3, <2>5 DEF RowsInv
  <2> QED
    BY <2>4, <2>5
<1> QED
  BY <1>1, <1>2, <1>3, <1>4, <1>5

LEMMA RetryAgainInv ==
  ASSUME IInv, NEW w \in Workers, NEW t \in Ids, RetryAgain(w, t), TypeOK'
  PROVE  IInv'
<1> DEFINE N == born[w]
<1>0. w \in Sessions /\ N \in SUBSET Ids /\ \A x \in N : ~Exists(x)
  BY DEF Sessions, IInv, TypeOK, BornInv
<1>1. /\ promises' = Inserted(N) /\ tasks' = tasks \cup NewTasks(N)
      /\ UNCHANGED <<pendingWaits, waits>> /\ Release(w)
  BY DEF RetryAgain
<1> HIDE DEF N
<1>2. /\ RowsInv' /\ CallsHaveTasks'
      /\ \A x \in Ids : Exists(x) => Exists(x)'
      /\ \A x \in Ids : Pending(x) => Pending(x)'
      /\ \A x \in Ids : (x \in tasks' \/ ~Exists(x)') => (x \in tasks \/ ~Exists(x))
      /\ \A x \in tasks' : x \in tasks \/ waits'[x] = {}
  BY <1>0, <1>1, InsertFrame
<1>3. \A x \in Ids : Exists(x)' => Exists(x) \/ x \in born[w]
  BY <1>1 DEF Inserted, Exists, N
<1>4. \A o \in Workers : \A u \in target[o] :
        u \in tasks' /\ Pending(u)' /\ pendingWaits'[u] = 0
  BY <1>1, <1>2 DEF IInv, TypeOK, WorkerInv, Sessions
<1>5. \A o \in Sweepers : \A x \in lockedPromises[o] : Pending(x)'
  BY <1>2 DEF IInv, TypeOK, SweeperInv, Sessions
<1>6. BornInv' /\ LocksInv' /\ WorkerInv' /\ SweeperInv' /\ SnapshotInv' /\ SightInv'
  BY <1>0, <1>1, <1>2, <1>3, <1>4, <1>5, CommitFrame
<1>7. WaitsCovered'
  <2> SUFFICES ASSUME NEW v \in tasks' PROVE Cardinality(Awaited(v)') <= pendingWaits'[v]
    BY DEF WaitsCovered
  <2>1. v \in Ids /\ pendingWaits'[v] \in Nat /\ pendingWaits' = pendingWaits
    BY <1>1 DEF TypeOK
  <2>2. /\ \A u \in Ids : Awaited(u)' = Awaited(u)
        /\ \A u \in N : Awaited(u)' = {}
    BY <1>0, <1>1, InsertAwaited DEF IInv
  <2>3. CASE v \in tasks
    BY <2>1, <2>2, <2>3 DEF IInv, WaitsCovered
  <2>4. CASE v \in N
    BY <2>1, <2>2, <2>4, FS_EmptySet
  <2> QED
    BY <1>1, <2>3, <2>4 DEF NewTasks
<1> QED
  BY <1>2, <1>6, <1>7 DEF IInv

\* A task whose counter is at zero awaits nothing.
LEMMA ZeroAwaitsNothing ==
  ASSUME IInv, NEW t \in tasks, pendingWaits[t] = 0
  PROVE  Awaited(t) = {}
<1>1. t \in Ids /\ Awaited(t) \in SUBSET Ids
  BY DEF IInv, TypeOK, Awaited
<1>2. IsFiniteSet(Awaited(t)) /\ Cardinality(Awaited(t)) \in Nat
  BY <1>1, Counting
<1>3. Cardinality(Awaited(t)) <= 0
  BY DEF IInv, WaitsCovered
<1> QED
  BY <1>2, <1>3, FS_EmptySet

LEMMA SuspendCommitInv ==
  ASSUME IInv, NEW w \in Workers, NEW t \in Ids, SuspendCommit(w, t), TypeOK'
  PROVE  IInv'
<1> DEFINE N == born[w]
           A == lockedPromises[w]
           U == {a \in A : Pending(a) \/ a \in N}
<1>0. w \in Sessions /\ N \in SUBSET Ids /\ A \in SUBSET Ids /\ \A x \in N : ~Exists(x)
  BY DEF Sessions, IInv, TypeOK, BornInv
<1>1. /\ promises' = Inserted(N) /\ tasks' = tasks \cup NewTasks(N)
      /\ waits' = [waits EXCEPT ![t] = @ \cup A]
      /\ pendingWaits' = [pendingWaits EXCEPT ![t] = Cardinality(U)]
      /\ Release(w) /\ pc[w] = "suspending" /\ target[w] = {t}
  BY DEF SuspendCommit
<1>2. /\ t \in tasks /\ pendingWaits[t] = 0 /\ Exists(t)
      /\ \A a \in A : Root[a] = Root[t] /\ (Exists(a) \/ a \in N)
      /\ \A o \in Sessions \ {w} : t \notin lockedTasks[o] /\ A \cap lockedPromises[o] = {}
  BY <1>0, <1>1 DEF IInv, WorkerInv, LocksInv, RowsInv
<1> HIDE DEF N, A
<1>3. /\ \A x \in Ids : Exists(x)' <=> Exists(x) \/ x \in N
      /\ \A x \in Ids : Pending(x)' <=> Pending(x) \/ x \in N
  BY <1>0, <1>1 DEF Inserted, Exists, Pending
<1>4. /\ \A v \in Ids : v # t => waits'[v] = waits[v] /\ pendingWaits'[v] = pendingWaits[v]
      /\ waits'[t] = waits[t] \cup A /\ pendingWaits'[t] = Cardinality(U)
  BY <1>1 DEF IInv, TypeOK
<1>5. RowsInv'
  BY <1>0, <1>1, <1>2, <1>3, <1>4 DEF IInv, TypeOK, RowsInv, NewTasks, Inserted
<1>6. CallsHaveTasks'
  BY <1>1, <1>3 DEF IInv, CallsHaveTasks, NewTasks
<1>7. BornInv' /\ LocksInv' /\ WorkerInv' /\ SweeperInv' /\ SnapshotInv' /\ SightInv'
  <2>1. \A o \in Workers \ {w} : \A u \in target[o] :
          u \in tasks' /\ Pending(u)' /\ pendingWaits'[u] = 0
    <3> SUFFICES ASSUME NEW o \in Workers \ {w}, NEW u \in target[o]
                 PROVE  u \in tasks' /\ Pending(u)' /\ pendingWaits'[u] = 0
      OBVIOUS
    <3>1. u \in Ids /\ u \in tasks /\ Pending(u) /\ pendingWaits[u] = 0 /\ u # t
      BY <1>2 DEF IInv, TypeOK, WorkerInv, Sessions
    <3> QED
      BY <1>1, <1>3, <1>4, <3>1
  <2>2. \A o \in Sweepers \ {w} : \A x \in lockedPromises[o] : Pending(x)'
    BY <1>3 DEF IInv, TypeOK, SweeperInv, Sessions
  <2>3. \A x \in Ids : (x \in tasks' \/ ~Exists(x)') =>
          waits[x] \subseteq waits'[x] /\ (x \in tasks \/ ~Exists(x))
    BY <1>0, <1>1, <1>2, <1>3, <1>4 DEF NewTasks
  <2>4. \A o \in Workers \ {w} : pc[o] = "settling" =>
          \A v \in tasks' : waits'[v] \cap target[o] \subseteq waits[v] \cap target[o]
    <3> SUFFICES ASSUME NEW o \in Workers \ {w}, pc[o] = "settling", NEW v \in tasks'
                 PROVE  waits'[v] \cap target[o] \subseteq waits[v] \cap target[o]
      OBVIOUS
    <3>1. A \cap target[o] = {}
      BY <1>2 DEF IInv, WorkerInv, Sessions
    <3>2. v \in Ids
      BY DEF TypeOK
    <3> QED
      BY <1>4, <3>1, <3>2
  <2>5. \A x \in Ids : Exists(x)' => Exists(x) \/ x \in born[w]
    BY <1>3 DEF N
  <2> QED
    BY <1>0, <1>1, <1>3, <1>5, <2>1, <2>2, <2>3, <2>4, <2>5, CommitFrame
<1>8. WaitsCovered'
  <2> SUFFICES ASSUME NEW v \in tasks' PROVE Cardinality(Awaited(v)') <= pendingWaits'[v]
    BY DEF WaitsCovered
  <2>1. v \in Ids /\ pendingWaits'[v] \in Nat
    BY DEF TypeOK
  <2>2. CASE v = t
    <3>1. Awaited(t) = {}
      BY <1>2, ZeroAwaitsNothing
    <3>2. \A a \in waits[t] : ~Pending(a) /\ a \notin N
      BY <1>0, <3>1 DEF IInv, RowsInv, Awaited
    <3>3. \A a \in waits[t] \cup A : a \in Ids
      BY <1>0 DEF IInv, TypeOK
    <3>4. Awaited(t)' = U
      BY <1>3, <1>4, <3>2, <3>3 DEF Awaited
    <3> QED
      BY <1>4, <2>1, <2>2, <3>4
  <2>3. CASE v # t /\ v \in tasks
    <3>1. Awaited(v)' = Awaited(v)
      BY <1>0, <1>3, <1>4, <2>1, <2>3 DEF IInv, TypeOK, RowsInv, Awaited
    <3> QED
      BY <1>4, <2>1, <2>3, <3>1 DEF IInv, WaitsCovered
  <2>4. CASE v # t /\ v \notin tasks
    <3>1. waits'[v] = {}
      BY <1>4, <2>1, <2>4 DEF IInv, RowsInv
    <3>2. Awaited(v)' = {}
      BY <3>1 DEF Awaited
    <3> QED
      BY <2>1, <3>2, FS_EmptySet
  <2> QED
    BY <2>2, <2>3, <2>4
<1> QED
  BY <1>5, <1>6, <1>7, <1>8 DEF IInv

\* What settling S does to the waiters: the settled promises leave what each of
\* them awaits, and each counter drops by no more than that.
LEMMA SettleWaits ==
  ASSUME IInv, TypeOK', NEW s \in Sessions, NEW S \in SUBSET Ids, NEW R \in SUBSET S,
         NEW result \in [Ids -> Terminal], SettleAndWake(s, S, result, R),
         \A x \in S : Pending(x)
  PROVE  WaitsCovered'
<1> DEFINE seen == snapshot[s]
           N == born[s]
           gone == R \ Woken(S, seen)
           left == [v \in Ids |-> IF v \in Woken(S, seen) THEN WaitsLeft(v, S, seen)
                                                          ELSE pendingWaits[v]]
<1>0. /\ N \in SUBSET Ids /\ \A x \in N : ~Exists(x)
      /\ seen \in [Ids -> SUBSET Ids] /\ gone \subseteq S
  BY DEF IInv, TypeOK, BornInv
<1>1. /\ promises' = [x \in Ids |-> IF x \in S THEN result[x] ELSE Inserted(N)[x]]
      /\ tasks' = (tasks \cup NewTasks(N)) \ gone
      /\ pendingWaits' = WithoutRows(left, gone, 0)
      /\ waits' = WithoutRows(waits, gone, {})
  BY DEF SettleAndWake
<1> SUFFICES ASSUME NEW v \in tasks' PROVE Cardinality(Awaited(v)') <= pendingWaits'[v]
  BY DEF WaitsCovered
<1>2. /\ v \in Ids /\ v \notin gone /\ waits'[v] = waits[v]
      /\ pendingWaits'[v] = left[v] /\ pendingWaits'[v] \in Nat
  BY <1>1 DEF TypeOK, WithoutRows
<1>3. CASE v \notin tasks
  <2>1. waits[v] = {}
    BY <1>2, <1>3 DEF IInv, RowsInv
  <2>2. Awaited(v)' = {}
    BY <1>2, <2>1 DEF Awaited
  <2> QED
    BY <1>2, <2>2, FS_EmptySet
<1>4. CASE v \in tasks
  <2>1. /\ waits[v] \in SUBSET Ids
        /\ \A a \in waits[v] : Exists(a)
    BY <1>2 DEF IInv, TypeOK, RowsInv
  <2>2. \A a \in waits[v] : Pending(a)' <=> Pending(a) /\ a \notin S
    BY <1>0, <1>1, <2>1 DEF Pending, Inserted, Terminal
  <2>3. Awaited(v)' = Awaited(v) \ (Awaited(v) \cap S)
    BY <1>2, <2>2 DEF Awaited
  <2>4. seen[v] \cap S \subseteq Awaited(v) \cap S
    BY <1>2, <1>4 DEF IInv, SnapshotInv, Awaited
  <2> DEFINE D == Awaited(v) \cap S
  <2>5. Awaited(v) \in SUBSET Ids /\ D \in SUBSET Awaited(v) /\ D \in SUBSET Ids
    BY <2>1 DEF Awaited
  <2>6. /\ Cardinality(Awaited(v)) \in Nat /\ Cardinality(D) \in Nat
        /\ Cardinality(Awaited(v) \ D) = Cardinality(Awaited(v)) - Cardinality(D)
    BY <2>5, Counting
  <2>7. /\ Cardinality(seen[v] \cap S) \in Nat
        /\ Cardinality(seen[v] \cap S) <= Cardinality(D)
    BY <2>4, <2>5, Counting
  <2>8. Cardinality(Awaited(v)) <= pendingWaits[v] /\ pendingWaits[v] \in Nat
    BY <1>2, <1>4 DEF IInv, TypeOK, WaitsCovered
  <2>9. left[v] >= pendingWaits[v] - Cardinality(seen[v] \cap S)
    <3>1. TypeOK
      BY DEF IInv
    <3>2. WaitsLeft(v, S, seen) >= pendingWaits[v] - Cardinality(seen[v] \cap S)
      BY <1>0, <1>2, <3>1, WaitsLeftValue
    <3>3. left[v] = IF v \in Woken(S, seen) THEN WaitsLeft(v, S, seen) ELSE pendingWaits[v]
      BY <1>2
    <3> HIDE DEF left, seen
    <3> QED
      BY <2>7, <2>8, <3>2, <3>3
  <2> HIDE DEF D, left, seen
  <2>10. Cardinality(Awaited(v)') = Cardinality(Awaited(v)) - Cardinality(D)
    BY <2>3, <2>6 DEF D
  <2> QED
    BY <1>2, <2>6, <2>7, <2>8, <2>9, <2>10
<1> QED
  BY <1>3, <1>4

LEMMA SettleInv ==
  ASSUME IInv, TypeOK', NEW s \in Sessions, NEW S \in SUBSET Ids, NEW R \in SUBSET S,
         NEW result \in [Ids -> Terminal], SettleAndWake(s, S, result, R), Release(s),
         S \subseteq lockedPromises[s], \A x \in S : Pending(x),
         \A o \in Workers \ {s} : target[o] \cap S = {}
  PROVE  IInv'
<1> DEFINE seen == snapshot[s]
           N == born[s]
           gone == R \ Woken(S, seen)
           left == [v \in Ids |-> IF v \in Woken(S, seen) THEN WaitsLeft(v, S, seen)
                                                          ELSE pendingWaits[v]]
<1>0. /\ N \in SUBSET Ids /\ \A x \in N : ~Exists(x)
      /\ gone \subseteq S /\ N \cap S = {}
  BY DEF IInv, TypeOK, BornInv, Exists, Pending
<1>1. /\ promises' = [x \in Ids |-> IF x \in S THEN result[x] ELSE Inserted(N)[x]]
      /\ tasks' = (tasks \cup NewTasks(N)) \ gone
      /\ pendingWaits' = WithoutRows(left, gone, 0)
      /\ waits' = WithoutRows(waits, gone, {})
      /\ \A v \in WaitersOf(S, seen) : TaskFree(s, v)
  BY DEF SettleAndWake
<1>2. /\ \A x \in Ids : Exists(x)' <=> Exists(x) \/ x \in N
      /\ \A x \in Ids : Pending(x)' <=> (Pending(x) \/ x \in N) /\ x \notin S
  BY <1>0, <1>1 DEF Inserted, Exists, Pending, Terminal
<1>3. \A x \in Ids : waits'[x] = IF x \in gone THEN {} ELSE waits[x]
  BY <1>1 DEF WithoutRows
<1>4. \A x \in Ids : x \notin gone /\ x \notin Woken(S, seen) =>
        pendingWaits'[x] = pendingWaits[x]
  BY <1>1 DEF WithoutRows
<1>5. \A v \in Woken(S, seen) : TaskFree(s, v) /\ pendingWaits[v] > 0
  BY <1>1 DEF Woken
<1> HIDE DEF gone, left, seen, N
<1>6. RowsInv'
  BY <1>0, <1>1, <1>2, <1>3 DEF IInv, TypeOK, RowsInv, NewTasks
<1>7. CallsHaveTasks'
  BY <1>0, <1>1, <1>2 DEF IInv, CallsHaveTasks, NewTasks
<1>8. WaitsCovered'
  BY SettleWaits
<1>9. BornInv' /\ LocksInv' /\ WorkerInv' /\ SweeperInv' /\ SnapshotInv' /\ SightInv'
  <2>1. \A o \in Workers \ {s} : \A u \in target[o] :
          u \in tasks' /\ Pending(u)' /\ pendingWaits'[u] = 0
    <3> SUFFICES ASSUME NEW o \in Workers \ {s}, NEW u \in target[o]
                 PROVE  u \in tasks' /\ Pending(u)' /\ pendingWaits'[u] = 0
      OBVIOUS
    <3>1. /\ u \in Ids /\ u \in tasks /\ Pending(u) /\ pendingWaits[u] = 0
          /\ u \notin S
      BY DEF IInv, TypeOK, WorkerInv, Sessions
    <3>2. u \notin gone /\ u \notin Woken(S, seen)
      BY <1>0, <1>5, <3>1
    <3> QED
      BY <1>1, <1>2, <1>4, <3>1, <3>2
  <2>2. \A o \in Sweepers \ {s} : \A x \in lockedPromises[o] : Pending(x)'
    <3> SUFFICES ASSUME NEW o \in Sweepers \ {s}, NEW x \in lockedPromises[o]
                 PROVE  Pending(x)'
      OBVIOUS
    <3>1. x \in Ids /\ Pending(x) /\ x \notin S
      BY DEF IInv, TypeOK, SweeperInv, LocksInv, Sessions
    <3> QED
      BY <1>2, <3>1
  <2>3. \A x \in Ids : (x \in tasks' \/ ~Exists(x)') =>
          waits[x] \subseteq waits'[x] /\ (x \in tasks \/ ~Exists(x))
    <3> SUFFICES ASSUME NEW x \in Ids, x \in tasks' \/ ~Exists(x)'
                 PROVE  waits[x] \subseteq waits'[x] /\ (x \in tasks \/ ~Exists(x))
      OBVIOUS
    <3>1. x \notin gone
      BY <1>0, <1>1, <1>2 DEF Exists, Pending
    <3> QED
      BY <1>0, <1>1, <1>2, <1>3, <3>1 DEF NewTasks
  <2>4. \A o \in Workers \ {s} : pc[o] = "settling" =>
          \A v \in tasks' : waits'[v] \cap target[o] \subseteq waits[v] \cap target[o]
    BY <1>3 DEF TypeOK
  <2>5. \A x \in Ids : Exists(x)' => Exists(x) \/ x \in born[s]
    BY <1>2 DEF N
  <2> QED
    BY <1>2, <1>6, <2>1, <2>2, <2>3, <2>4, <2>5, CommitFrame
<1> QED
  BY <1>6, <1>7, <1>8, <1>9 DEF IInv
LEMMA SettleCommitInv ==
  ASSUME IInv, NEW w \in Workers, NEW v \in {"resolved", "rejected"},
         SettleCommit(w, v), TypeOK'
  PROVE  IInv'
<1>1. /\ w \in Sessions /\ target[w] \in SUBSET Ids /\ lockedPromises[w] = target[w]
      /\ \A x \in target[w] : Pending(x)
      /\ \A o \in Workers \ {w} : target[o] \cap target[w] = {}
  BY DEF SettleCommit, IInv, TypeOK, WorkerInv, LocksInv, Sessions
<1>2. [x \in Ids |-> v] \in [Ids -> Terminal]
  BY DEF Terminal
<1> QED
  BY <1>1, <1>2, SettleInv DEF SettleCommit

LEMMA RetryCommitInv ==
  ASSUME IInv, NEW w \in Workers, RetryCommit(w), TypeOK'
  PROVE  IInv'
<1>1. /\ w \in Sessions /\ target[w] \in SUBSET Ids /\ lockedPromises[w] = target[w]
      /\ \A x \in target[w] : Pending(x)
      /\ \A o \in Workers \ {w} : target[o] \cap target[w] = {}
  BY DEF RetryCommit, IInv, TypeOK, WorkerInv, LocksInv, Sessions
<1>2. [x \in Ids |-> "rejected"] \in [Ids -> Terminal]
  BY DEF Terminal
<1> QED
  BY <1>1, <1>2, SettleInv DEF RetryCommit

LEMMA SweepCommitInv ==
  ASSUME IInv, NEW s \in Sweepers, SweepCommit(s), TypeOK'
  PROVE  IInv'
<1> DEFINE S == lockedPromises[s]
           result == [x \in Ids |-> IF x \in Timers THEN "resolved" ELSE "timed_out"]
<1>1. /\ s \in Sessions /\ s \notin Workers /\ S \in SUBSET Ids
      /\ \A x \in S : Pending(x) /\ (x \in Timers \/ x \in lockedTasks[s])
  BY StoreAssumption DEF IInv, TypeOK, SweeperInv, Sessions
<1>2. \A o \in Workers \ {s} : target[o] \cap S = {}
  <2> SUFFICES ASSUME NEW o \in Workers, NEW x \in target[o], x \in S PROVE FALSE
    OBVIOUS
  <2>1. x \in lockedTasks[o] /\ x \notin Timers /\ o \in Sessions /\ o # s
    BY <1>1 DEF IInv, WorkerInv, RowsInv, Sessions
  <2> QED
    BY <1>1, <2>1 DEF IInv, LocksInv
<1>3. result \in [Ids -> Terminal] /\ S \ Timers \in SUBSET S
  BY DEF Terminal
<1>4. SettleAndWake(s, S, result, S \ Timers) /\ Release(s)
  BY DEF SweepCommit
<1> HIDE DEF S, result
<1>5. S \subseteq lockedPromises[s]
  BY DEF S
<1> QED
  BY <1>1, <1>2, <1>3, <1>4, <1>5, SettleInv

LEMMA CollectCommitInv ==
  ASSUME IInv, NEW s \in Sweepers, CollectCommit(s), TypeOK'
  PROVE  IInv'
<1> DEFINE R == {r \in target[s] : PromiseLockable(s, r)}
           gone == Graph(R)
<1>0. s \in Sessions /\ s \notin Workers
  BY StoreAssumption DEF Sessions
<1>1. /\ pc[s] = "collecting"
      /\ \A x \in gone : TaskFree(s, x) /\ PromiseFree(s, x)
      /\ promises' = WithoutRows(promises, gone, "absent")
      /\ tasks' = tasks \ gone
      /\ pendingWaits' = WithoutRows(pendingWaits, gone, 0)
      /\ waits' = WithoutRows(waits, gone, {})
      /\ pc' = [pc EXCEPT ![s] = "idle"]
      /\ target' = [o \in Sessions |-> IF o = s THEN {} ELSE target[o] \ gone]
      /\ snapshot' = [o \in Sessions |-> WithoutRows(snapshot[o], gone, {})]
      /\ UNCHANGED <<locks, born>>
  BY DEF CollectCommit
<1>2. \A x, y \in Ids : Root[x] = Root[y] => (x \in gone <=> y \in gone)
  BY DEF Graph
<1>3. gone \subseteq Ids
  BY DEF Graph
<1> HIDE DEF gone, R
<1>4. /\ \A x \in Ids : promises'[x] = IF x \in gone THEN "absent" ELSE promises[x]
      /\ \A x \in Ids : waits'[x] = IF x \in gone THEN {} ELSE waits[x]
      /\ \A x \in Ids \ gone : pendingWaits'[x] = pendingWaits[x]
      /\ \A o \in Sessions : \A x \in Ids :
           snapshot'[o][x] = IF x \in gone THEN {} ELSE snapshot[o][x]
  BY <1>1 DEF WithoutRows
<1>5. /\ \A o \in Sessions : lockedTasks[o] \cap gone = {}
      /\ \A o \in Sessions : lockedPromises[o] \cap gone = {}
  BY <1>0, <1>1 DEF IInv, SweeperInv, TaskFree, PromiseFree
<1>6. RowsInv'
  BY <1>1, <1>2, <1>3, <1>4 DEF IInv, TypeOK, RowsInv, Exists
<1>7. BornInv' /\ LocksInv'
  BY <1>1, <1>4, <1>5 DEF IInv, TypeOK, BornInv, LocksInv, locks, Exists
<1>8. WorkerInv'
  <2>1. \A w \in Workers : target'[w] = target[w] /\ pc'[w] = pc[w]
    BY <1>0, <1>1, <1>5 DEF IInv, TypeOK, WorkerInv, Sessions
  <2>2. \A w \in Workers : \A t \in target[w] : t \in Ids /\ t \notin gone
    BY <1>5 DEF IInv, TypeOK, WorkerInv, Sessions
  <2>3. \A w \in Workers : \A t \in target[w] :
          t \in tasks' /\ Pending(t)' /\ pendingWaits'[t] = 0
    BY <1>1, <1>4, <2>2 DEF IInv, WorkerInv, Pending
  <2>4. lockedTasks' = lockedTasks /\ lockedPromises' = lockedPromises
    BY <1>1 DEF locks
  <2> SUFFICES ASSUME NEW w \in Workers
               PROVE  /\ pc[w] \in WorkerPhases
                      /\ lockedTasks[w] = target[w]
                      /\ pc[w] = "idle" => target[w] = {}
                      /\ pc[w] # "idle" => \E t \in Ids : target[w] = {t}
                      /\ pc[w] \in {"idle", "running", "exhausting"} =>
                           lockedPromises[w] = {}
                      /\ pc[w] \in {"locked", "settling", "exhausted"} =>
                           lockedPromises[w] = target[w]
                      /\ pc[w] = "suspending" => \A t \in target[w] :
                           \A a \in lockedPromises[w] : Root[a] = Root[t]
    BY <2>1, <2>3, <2>4 DEF WorkerInv
  <2> QED
    BY DEF IInv, WorkerInv
<1>9. SweeperInv'
  BY <1>0, <1>1, <1>4, <1>5 DEF IInv, TypeOK, SweeperInv, SweeperPhases, Sessions, locks, Pending
<1>10. SnapshotInv'
  BY <1>1, <1>4 DEF IInv, SnapshotInv, Exists
<1>11. SightInv'
  <2> SUFFICES ASSUME NEW w \in Workers, pc'[w] = "settling", NEW v \in tasks'
               PROVE  waits'[v] \cap target'[w] \subseteq snapshot'[w][v]
    BY DEF SightInv
  <2>1. w \in Sessions /\ pc[w] = "settling" /\ target'[w] \subseteq target[w]
    BY <1>0, <1>1 DEF IInv, TypeOK, Sessions
  <2>2. v \in tasks /\ v \in Ids /\ v \notin gone
    BY <1>1 DEF IInv, TypeOK
  <2> QED
    BY <1>4, <2>1, <2>2 DEF IInv, SightInv
<1>12. CallsHaveTasks'
  BY <1>1, <1>4 DEF IInv, CallsHaveTasks, Pending
<1>13. WaitsCovered'
  <2> SUFFICES ASSUME NEW v \in tasks' PROVE Cardinality(Awaited(v)') <= pendingWaits'[v]
    BY DEF WaitsCovered
  <2>1. v \in tasks /\ v \in Ids /\ v \notin gone
    BY <1>1 DEF IInv, TypeOK
  <2>2. \A a \in waits[v] : a \in Ids /\ a \notin gone
    BY <1>2, <2>1 DEF IInv, TypeOK, RowsInv
  <2>3. Awaited(v)' = Awaited(v)
    BY <1>4, <2>1, <2>2 DEF Awaited, Pending
  <2> QED
    BY <1>4, <2>1, <2>3 DEF IInv, WaitsCovered
<1> QED
  BY <1>6, <1>7, <1>8, <1>9, <1>10, <1>11, <1>12, <1>13 DEF IInv

-----------------------------------------------------------------------------
(* The theorems                                                              *)

LEMMA InvStep == IInv /\ [Next]_vars => IInv'
<1> SUFFICES ASSUME IInv, [Next]_vars PROVE IInv'
  OBVIOUS
<1>0. TypeOK'
  BY TypeStep DEF IInv
<1>1. ASSUME NEW w \in Workers, WorkerStep(w) PROVE IInv'
  <2>1. CASE Rollback(w)
    BY <1>0, <2>1, ReleaseFrame DEF Rollback, Sessions
  <2> QED
    BY <1>0, <1>1, <2>1, ClaimInv, SubmitChildrenInv, LockPromiseInv, SettleScanInv,
       SettleCommitInv, RetryScanInv, RetryLockInv, RetryCommitInv, RetryAgainInv,
       SuspendLockInv, SuspendCommitInv
    DEF WorkerStep
<1>2. ASSUME NEW s \in Sweepers, SweeperStep(s) PROVE IInv'
  <2>1. CASE Abort(s)
    BY <1>0, <2>1, ReleaseFrame DEF Abort, Sessions
  <2> QED
    BY <1>0, <1>2, <2>1, SweepScanInv, SweepLockInv, SweepCommitInv, CollectScanInv,
       CollectCommitInv
    DEF SweeperStep
<1>3. CASE UNCHANGED vars
  <2>1. RowsInv' /\ CallsHaveTasks' /\ WaitsCovered'
    BY <1>3, TableFrame DEF vars
  <2>2. BornInv' /\ LocksInv' /\ WorkerInv' /\ SweeperInv' /\ SnapshotInv' /\ SightInv'
    BY <1>3 DEF IInv, vars, table, clock, locks, BornInv, LocksInv, WorkerInv, SweeperInv,
       SnapshotInv, SightInv, Exists, Pending
  <2> QED
    BY <1>0, <2>1, <2>2 DEF IInv
<1> QED
  BY <1>0, <1>1, <1>2, <1>3, SubmitInv, ClockInv DEF Next

\* The inductive invariant holds in every reachable state.
THEOREM InductiveInvariant == Spec => []IInv
BY InvInit, InvStep, PTL DEF Spec

\* No settlement, however it interleaves, drops pending_waits below the number
\* of unsettled promises its task awaits.
THEOREM CountersCoverWaits == Spec => []WaitsCovered
<1>1. IInv => WaitsCovered
  BY DEF IInv
<1> QED
  BY <1>1, InductiveInvariant, PTL

\* CLAIM never resumes a function whose awaited promises are not all settled.
THEOREM ResumedOnlyWhenSettled == Spec => []NeverResumedEarly
<1>1. IInv => NeverResumedEarly
  <2> SUFFICES ASSUME IInv, NEW w \in Workers, NEW t \in target[w]
               PROVE  Awaited(t) = {}
    BY DEF NeverResumedEarly
  <2>1. t \in tasks /\ pendingWaits[t] = 0
    BY DEF IInv, WorkerInv
  <2> QED
    BY <2>1, ZeroAwaitsNothing
<1> QED
  BY <1>1, InductiveInvariant, PTL

\* A worker keeps the task it claimed: no deadline sweep, no retention and no
\* other worker settles or removes it before the claim ends.
THEOREM ClaimsAreExclusive == Spec => []ClaimKeepsTask
<1>1. IInv => ClaimKeepsTask
  BY DEF IInv, WorkerInv, ClaimKeepsTask
<1> QED
  BY <1>1, InductiveInvariant, PTL

\* No interleaving leaves a pending call without the task row that CLAIM and
\* PROCESS_DUE look for.
THEOREM PendingCallsHaveTasks == Spec => []CallsHaveTasks
<1>1. IInv => CallsHaveTasks
  BY DEF IInv
<1> QED
  BY <1>1, InductiveInvariant, PTL

\* A settlement changes pending promises only, and inserts new ones.
LEMMA SettleFinal ==
  ASSUME IInv, NEW s \in Sessions, NEW S \in SUBSET Ids, NEW R \in SUBSET S,
         NEW result \in [Ids -> Terminal], SettleAndWake(s, S, result, R),
         \A x \in S : Pending(x)
  PROVE  \A x \in Ids : promises[x] \in Terminal => promises'[x] = promises[x]
<1>1. \A x \in Ids : promises'[x] = IF x \in S THEN result[x] ELSE Inserted(born[s])[x]
  BY DEF SettleAndWake
<1>2. \A x \in Ids : promises[x] \in Terminal => x \notin S /\ x \notin born[s]
  BY DEF IInv, BornInv, Terminal, Pending, Exists
<1> QED
  BY <1>1, <1>2 DEF Inserted

LEMMA FinalStep ==
  ASSUME IInv, [Next]_vars
  PROVE  \A x \in Ids : promises[x] \in Terminal => promises'[x] \in {promises[x], "absent"}
<1> DEFINE Goal == \A x \in Ids : promises[x] \in Terminal =>
                     promises'[x] \in {promises[x], "absent"}
<1>0. ASSUME promises' = promises PROVE Goal
  BY <1>0
<1>1. ASSUME NEW N \in SUBSET Ids, \A x \in N : ~Exists(x), promises' = Inserted(N)
      PROVE  Goal
  BY <1>1 DEF Inserted, Exists, Terminal
<1>2. ASSUME NEW N \in SUBSET External, Submit(N) PROVE Goal
  BY <1>1, <1>2, StoreAssumption DEF Submit
<1>3. ASSUME NEW w \in Workers, WorkerStep(w) PROVE Goal
  <2>1. born[w] \in SUBSET Ids /\ \A x \in born[w] : ~Exists(x)
    BY DEF IInv, TypeOK, BornInv, Sessions
  <2>2. ASSUME NEW t \in Ids, RetryAgain(w, t) \/ SuspendCommit(w, t) PROVE Goal
    BY <1>1, <2>1, <2>2 DEF RetryAgain, SuspendCommit
  <2>3. /\ w \in Sessions /\ target[w] \in SUBSET Ids
        /\ \A x \in target[w] : Pending(x)
    BY DEF IInv, TypeOK, WorkerInv, Sessions
  <2>4. ASSUME NEW v \in {"resolved", "rejected"}, SettleCommit(w, v) PROVE Goal
    <3>1. [x \in Ids |-> v] \in [Ids -> Terminal]
      BY DEF Terminal
    <3> QED
      BY <2>3, <2>4, <3>1, SettleFinal DEF SettleCommit
  <2>5. CASE RetryCommit(w)
    <3>1. [x \in Ids |-> "rejected"] \in [Ids -> Terminal]
      BY DEF Terminal
    <3> QED
      BY <2>3, <2>5, <3>1, SettleFinal DEF RetryCommit
  <2>6. \/ promises' = promises
        \/ \E t \in Ids : RetryAgain(w, t) \/ SuspendCommit(w, t)
        \/ \E v \in {"resolved", "rejected"} : SettleCommit(w, v)
        \/ RetryCommit(w)
    BY <1>3 DEF WorkerStep, ClaimTask, SubmitChildren, LockPromise, SettleScan, RetryScan,
       RetryLock, SuspendLock, Rollback, table
  <2> QED
    BY <1>0, <2>2, <2>4, <2>5, <2>6
<1>4. ASSUME NEW s \in Sweepers, SweeperStep(s) PROVE Goal
  <2>1. CASE SweepCommit(s)
    <3> DEFINE result == [x \in Ids |-> IF x \in Timers THEN "resolved" ELSE "timed_out"]
    <3>1. /\ s \in Sessions /\ lockedPromises[s] \in SUBSET Ids
          /\ \A x \in lockedPromises[s] : Pending(x)
          /\ lockedPromises[s] \ Timers \in SUBSET lockedPromises[s]
      BY DEF IInv, TypeOK, SweeperInv, Sessions
    <3>2. result \in [Ids -> Terminal]
      BY DEF Terminal
    <3>3. SettleAndWake(s, lockedPromises[s], result, lockedPromises[s] \ Timers)
      BY <2>1 DEF SweepCommit
    <3> HIDE DEF result
    <3> QED
      BY <3>1, <3>2, <3>3, SettleFinal
  <2>2. CASE CollectCommit(s)
    BY <2>2 DEF CollectCommit, WithoutRows
  <2>3. promises' = promises \/ SweepCommit(s) \/ CollectCommit(s)
    BY <1>4 DEF SweeperStep, SweepScan, SweepLock, CollectScan, Abort, table
  <2> QED
    BY <1>0, <2>1, <2>2, <2>3
<1>5. ASSUME NEW x \in Ids, DeadlinePasses(x) \/ RetentionPasses(x) PROVE Goal
  BY <1>0, <1>5 DEF DeadlinePasses, RetentionPasses, table
<1>6. CASE UNCHANGED vars
  BY <1>0, <1>6 DEF vars, table
<1> QED
  BY <1>2, <1>3, <1>4, <1>5, <1>6 DEF Next

\* A settled promise is never settled again, nor made pending again, by a
\* statement that read it before another one settled it.
THEOREM SettlementIsFinal == Spec => SettledIsFinal
<1>1. IInv /\ [Next]_vars =>
        [\A x \in Ids : promises[x] \in Terminal =>
           promises'[x] \in {promises[x], "absent"}]_vars
  BY FinalStep
<1> QED
  BY <1>1, InductiveInvariant, PTL DEF Spec, SettledIsFinal

-----------------------------------------------------------------------------
(* No lost wake, when every settlement locks its promise first               *)

\* Functions settle or suspend, and no deadline passes.
NoLateSnapshots == "retry" \notin Outcomes /\ Expiring = {}

\* No statement settles a promise from a snapshot older than its lock.
LockedFirst ==
  /\ due = {}
  /\ \A w \in Workers : pc[w] \notin {"exhausting", "exhausted"}
  /\ \A s \in Sweepers : pc[s] \notin {"sweeping", "swept"}

\* The counters of rows that are not there, as an INSERT finds them.
NoCounter == \A x \in Ids \ tasks : pendingWaits[x] = 0

WakeInv == IInv /\ LockedFirst /\ NoCounter /\ ExactWaitCount

-----------------------------------------------------------------------------
(* No lost wake: the phases                                                  *)

\* No step settles from an old snapshot.
LEMMA PhasesStep ==
  ASSUME NoLateSnapshots, WakeInv, [Next]_vars
  PROVE  LockedFirst'
<1> USE DEF WakeInv, LockedFirst
<1>1. ASSUME NEW w \in Workers, WorkerStep(w) PROVE LockedFirst'
  <2>0. w \in Sessions /\ w \notin Sweepers
    BY StoreAssumption DEF Sessions
  <2>1. UNCHANGED due
    BY <1>1 DEF WorkerStep, ClaimTask, SubmitChildren, LockPromise, SettleScan, SettleCommit,
       RetryScan, RetryLock, RetryCommit, RetryAgain, SuspendLock, SuspendCommit, Rollback, clock
  <2>2. pc' = pc \/ \E p \in WorkerPhases \ {"exhausting", "exhausted"} :
                      pc' = [pc EXCEPT ![w] = p]
    BY <1>1 DEF NoLateSnapshots, WorkerStep, ClaimTask, SubmitChildren, LockPromise, SettleScan,
       SettleCommit, RetryScan, RetryLock, RetryCommit, RetryAgain, SuspendLock, SuspendCommit,
       Rollback, Release, GoTo, WorkerPhases
  <2> QED
    BY <2>0, <2>1, <2>2 DEF IInv, TypeOK, Sessions
<1>2. ASSUME NEW s \in Sweepers, SweeperStep(s) PROVE LockedFirst'
  <2>0. s \in Sessions /\ s \notin Workers
    BY StoreAssumption DEF Sessions
  <2>1. due' \subseteq due
    BY <1>2 DEF SweeperStep, SweepScan, SweepLock, SweepCommit, CollectScan, CollectCommit,
       Abort, clock
  <2>2. pc' = pc \/ \E p \in {"idle", "collecting"} : pc' = [pc EXCEPT ![s] = p]
    BY <1>2 DEF SweeperStep, SweepScan, SweepLock, SweepCommit, CollectScan, CollectCommit,
       Abort, Release, GoTo
  <2> QED
    BY <2>0, <2>1, <2>2 DEF IInv, TypeOK, Sessions
<1>3. ASSUME NEW N \in SUBSET External, Submit(N) PROVE LockedFirst'
  BY <1>3 DEF Submit, clock
<1>4. ASSUME NEW x \in Ids, DeadlinePasses(x) \/ RetentionPasses(x) PROVE LockedFirst'
  BY <1>4 DEF NoLateSnapshots, DeadlinePasses, RetentionPasses
<1>5. CASE UNCHANGED vars
  BY <1>5 DEF vars, clock
<1> QED
  BY <1>1, <1>2, <1>3, <1>4, <1>5 DEF Next

-----------------------------------------------------------------------------
(* No lost wake: the counters                                                *)

\* Rows inserted start with a counter of zero and await nothing.
LEMMA InsertExact ==
  ASSUME WakeInv, NEW N \in SUBSET Ids, \A x \in N : ~Exists(x), promises' = Inserted(N),
         tasks' = tasks \cup NewTasks(N), UNCHANGED <<pendingWaits, waits>>
  PROVE  NoCounter' /\ ExactWaitCount'
<1>1. /\ \A v \in Ids : Awaited(v)' = Awaited(v)
      /\ \A v \in N : Awaited(v)' = {}
  BY InsertAwaited DEF WakeInv, IInv
<1>2. \A x \in N : x \notin tasks
  BY DEF WakeInv, IInv, RowsInv
<1>3. NoCounter'
  BY DEF WakeInv, NoCounter
<1>4. ExactWaitCount'
  <2> SUFFICES ASSUME NEW v \in tasks' PROVE pendingWaits'[v] = Cardinality(Awaited(v)')
    BY DEF ExactWaitCount
  <2>1. CASE v \in tasks
    BY <1>1, <2>1 DEF WakeInv, ExactWaitCount, IInv, TypeOK
  <2>2. CASE v \in N
    BY <1>1, <1>2, <2>2, FS_EmptySet DEF WakeInv, NoCounter
  <2> QED
    BY <2>1, <2>2 DEF NewTasks
<1> QED
  BY <1>3, <1>4

\* A settlement that sees every waiter takes what it settles from each count.
LEMMA SettleExact ==
  ASSUME WakeInv, NEW w \in Workers, NEW v \in {"resolved", "rejected"},
         SettleCommit(w, v), TypeOK'
  PROVE  NoCounter' /\ ExactWaitCount'
<1> DEFINE S == target[w]
           seen == snapshot[w]
           N == born[w]
           result == [x \in Ids |-> v]
           gone == S \ Woken(S, seen)
           left == [u \in Ids |-> IF u \in Woken(S, seen) THEN WaitsLeft(u, S, seen)
                                                          ELSE pendingWaits[u]]
<1>0. /\ w \in Sessions /\ pc[w] = "settling"
      /\ S \in SUBSET Ids /\ N \in SUBSET Ids /\ seen \in [Ids -> SUBSET Ids]
      /\ \A x \in N : ~Exists(x) /\ x \notin tasks
      /\ \A x \in S : Pending(x)
  BY DEF SettleCommit, WakeInv, IInv, TypeOK, BornInv, RowsInv, WorkerInv, Sessions
<1>1. /\ promises' = [x \in Ids |-> IF x \in S THEN result[x] ELSE Inserted(N)[x]]
      /\ tasks' = (tasks \cup NewTasks(N)) \ gone
      /\ pendingWaits' = WithoutRows(left, gone, 0)
      /\ waits' = WithoutRows(waits, gone, {})
  BY DEF SettleCommit, SettleAndWake
<1>2. NoCounter'
  <2> SUFFICES ASSUME NEW x \in Ids \ tasks' PROVE pendingWaits'[x] = 0
    BY DEF NoCounter
  <2>1. CASE x \in gone
    BY <1>1, <2>1 DEF WithoutRows
  <2>2. CASE x \notin gone
    <3>1. x \notin tasks
      BY <1>1, <2>2
    <3>2. x \notin Woken(S, seen)
      BY <3>1 DEF Woken, WaitersOf
    <3> QED
      BY <1>1, <2>2, <3>1, <3>2 DEF WithoutRows, WakeInv, NoCounter
  <2> QED
    BY <2>1, <2>2
<1>3. ExactWaitCount'
  <2> SUFFICES ASSUME NEW u \in tasks' PROVE pendingWaits'[u] = Cardinality(Awaited(u)')
    BY DEF ExactWaitCount
  <2>1. /\ u \in Ids /\ u \notin gone /\ waits'[u] = waits[u] /\ pendingWaits'[u] = left[u]
    BY <1>1 DEF TypeOK, WithoutRows
  <2>2. CASE u \notin tasks
    <3>1. waits[u] = {} /\ pendingWaits[u] = 0 /\ u \notin Woken(S, seen)
      BY <2>1, <2>2 DEF WakeInv, IInv, RowsInv, NoCounter, Woken, WaitersOf
    <3>2. Awaited(u)' = {}
      BY <2>1, <3>1 DEF Awaited
    <3> QED
      BY <2>1, <3>1, <3>2, FS_EmptySet
  <2>3. CASE u \in tasks
    <3>1. waits[u] \in SUBSET Ids /\ \A a \in waits[u] : Exists(a)
      BY <2>1 DEF WakeInv, IInv, TypeOK, RowsInv
    <3>2. \A a \in waits[u] : Pending(a)' <=> Pending(a) /\ a \notin S
      BY <1>0, <1>1, <3>1 DEF Pending, Inserted
    <3> DEFINE D == Awaited(u) \cap S
    <3>3. Awaited(u)' = Awaited(u) \ D
      BY <2>1, <3>2 DEF Awaited
    <3>4. seen[u] \cap S = D
      <4>1. seen[u] \subseteq waits[u]
        BY <1>0, <2>1, <2>3 DEF WakeInv, IInv, SnapshotInv
      <4>2. waits[u] \cap S \subseteq seen[u]
        BY <1>0, <2>3 DEF WakeInv, IInv, SightInv
      <4> QED
        BY <1>0, <4>1, <4>2 DEF Awaited
    <3>5. Awaited(u) \in SUBSET Ids /\ D \in SUBSET Awaited(u)
      BY <3>1 DEF Awaited
    <3> HIDE DEF D
    <3>6. /\ Cardinality(Awaited(u)) \in Nat /\ Cardinality(D) \in Nat
          /\ Cardinality(D) <= Cardinality(Awaited(u))
          /\ Cardinality(Awaited(u) \ D) = Cardinality(Awaited(u)) - Cardinality(D)
      BY <3>5, Counting
    <3>7. pendingWaits[u] = Cardinality(Awaited(u))
      BY <2>3 DEF WakeInv, ExactWaitCount
    <3>8. CASE u \in Woken(S, seen)
      <4>1. WaitsLeft(u, S, seen) = pendingWaits[u] - Cardinality(D)
        <5>1. TypeOK
          BY DEF WakeInv, IInv
        <5>2. pendingWaits[u] >= Cardinality(seen[u] \cap S)
          BY <3>4, <3>6, <3>7
        <5> QED
          BY <1>0, <2>1, <3>4, <5>1, <5>2, WaitsLeftValue
      <4>2. left[u] = WaitsLeft(u, S, seen)
        BY <2>1, <3>8
      <4> HIDE DEF left
      <4> QED
        BY <2>1, <3>3, <3>6, <3>7, <4>1, <4>2
    <3>9. CASE u \notin Woken(S, seen)
      <4>1. D = {}
        <5>1. CASE seen[u] \cap S = {}
          BY <3>4, <5>1
        <5>2. CASE seen[u] \cap S # {}
          <6>1. ~(pendingWaits[u] > 0)
            BY <2>3, <3>9, <5>2 DEF Woken, WaitersOf
          <6>2. Cardinality(D) = 0 /\ IsFiniteSet(D)
            <7>1. D \in SUBSET Ids
              BY <3>5
            <7>2. IsFiniteSet(D)
              BY <7>1, Counting
            <7> QED
              BY <3>6, <3>7, <6>1, <7>2
          <6> QED
            BY <6>2, FS_EmptySet
        <5> QED
          BY <5>1, <5>2
      <4>2. left[u] = pendingWaits[u]
        BY <2>1, <3>9
      <4> HIDE DEF left
      <4> QED
        BY <2>1, <3>3, <3>7, <4>1, <4>2
    <3> QED
      BY <3>8, <3>9
  <2> QED
    BY <2>2, <2>3
<1> QED
  BY <1>2, <1>3

\* SUSPEND counts what it has locked, the calls of its own transaction too.
LEMMA SuspendExact ==
  ASSUME WakeInv, NEW w \in Workers, NEW t \in Ids, SuspendCommit(w, t), TypeOK'
  PROVE  NoCounter' /\ ExactWaitCount'
<1> DEFINE N == born[w]
           A == lockedPromises[w]
           U == {a \in A : Pending(a) \/ a \in N}
<1>0. w \in Sessions /\ N \in SUBSET Ids /\ A \in SUBSET Ids /\ \A x \in N : ~Exists(x)
  BY DEF Sessions, WakeInv, IInv, TypeOK, BornInv
<1>1. /\ promises' = Inserted(N) /\ tasks' = tasks \cup NewTasks(N)
      /\ waits' = [waits EXCEPT ![t] = @ \cup A]
      /\ pendingWaits' = [pendingWaits EXCEPT ![t] = Cardinality(U)]
      /\ target[w] = {t}
  BY DEF SuspendCommit
<1>2. t \in tasks /\ pendingWaits[t] = 0
  BY <1>1 DEF WakeInv, IInv, WorkerInv
<1> HIDE DEF N, A
<1>3. \A x \in Ids : Pending(x)' <=> Pending(x) \/ x \in N
  BY <1>0, <1>1 DEF Inserted, Pending
<1>4. /\ \A v \in Ids : v # t => waits'[v] = waits[v] /\ pendingWaits'[v] = pendingWaits[v]
      /\ waits'[t] = waits[t] \cup A /\ pendingWaits'[t] = Cardinality(U)
  BY <1>1 DEF WakeInv, IInv, TypeOK
<1>5. NoCounter'
  BY <1>1, <1>2, <1>4 DEF WakeInv, NoCounter
<1>6. ExactWaitCount'
  <2> SUFFICES ASSUME NEW v \in tasks' PROVE pendingWaits'[v] = Cardinality(Awaited(v)')
    BY DEF ExactWaitCount
  <2>1. v \in Ids
    BY DEF TypeOK
  <2>2. CASE v = t
    <3>1. Awaited(t) = {}
      BY <1>2, ZeroAwaitsNothing DEF WakeInv
    <3>2. \A a \in waits[t] : a \in Ids /\ ~Pending(a) /\ a \notin N
      BY <1>0, <3>1 DEF WakeInv, IInv, TypeOK, RowsInv, Awaited
    <3>3. Awaited(t)' = U
      BY <1>0, <1>3, <1>4, <3>2 DEF Awaited
    <3> QED
      BY <1>4, <2>2, <3>3
  <2>3. CASE v # t /\ v \in tasks
    <3>1. Awaited(v)' = Awaited(v)
      BY <1>0, <1>3, <1>4, <2>1, <2>3 DEF WakeInv, IInv, TypeOK, RowsInv, Awaited
    <3> QED
      BY <1>4, <2>1, <2>3, <3>1 DEF WakeInv, ExactWaitCount
  <2>4. CASE v # t /\ v \notin tasks
    <3>1. waits'[v] = {} /\ pendingWaits'[v] = 0
      BY <1>4, <2>1, <2>4 DEF WakeInv, IInv, RowsInv, NoCounter
    <3>2. Awaited(v)' = {}
      BY <3>1 DEF Awaited
    <3> QED
      BY <3>1, <3>2, FS_EmptySet
  <2> QED
    BY <2>2, <2>3, <2>4
<1> QED
  BY <1>5, <1>6

\* A deletion takes whole graphs, so what a task left there awaits stays.
LEMMA CollectExact ==
  ASSUME WakeInv, NEW s \in Sweepers, CollectCommit(s), TypeOK'
  PROVE  NoCounter' /\ ExactWaitCount'
<1> DEFINE gone == Graph({r \in target[s] : PromiseLockable(s, r)})
<1>1. /\ promises' = WithoutRows(promises, gone, "absent")
      /\ tasks' = tasks \ gone
      /\ pendingWaits' = WithoutRows(pendingWaits, gone, 0)
      /\ waits' = WithoutRows(waits, gone, {})
      /\ \A x, y \in Ids : Root[x] = Root[y] => (x \in gone <=> y \in gone)
  BY DEF CollectCommit, Graph
<1> HIDE DEF gone
<1>2. NoCounter'
  BY <1>1 DEF WakeInv, NoCounter, WithoutRows
<1>3. ExactWaitCount'
  <2> SUFFICES ASSUME NEW v \in tasks' PROVE pendingWaits'[v] = Cardinality(Awaited(v)')
    BY DEF ExactWaitCount
  <2>1. v \in tasks /\ v \in Ids /\ v \notin gone
    BY <1>1 DEF WakeInv, IInv, TypeOK
  <2>2. \A a \in waits[v] : a \in Ids /\ a \notin gone
    BY <1>1, <2>1 DEF WakeInv, IInv, TypeOK, RowsInv
  <2>3. Awaited(v)' = Awaited(v) /\ pendingWaits'[v] = pendingWaits[v]
    BY <1>1, <2>1, <2>2 DEF Awaited, Pending, WithoutRows
  <2> QED
    BY <2>1, <2>3 DEF WakeInv, ExactWaitCount
<1> QED
  BY <1>2, <1>3

LEMMA WakeStep ==
  ASSUME NoLateSnapshots
  PROVE  WakeInv /\ [Next]_vars => WakeInv'
<1> SUFFICES ASSUME WakeInv, [Next]_vars PROVE NoCounter' /\ ExactWaitCount'
  BY InvStep, PhasesStep DEF WakeInv
<1>0. TypeOK'
  BY TypeStep DEF WakeInv, IInv
<1>1. ASSUME UNCHANGED <<promises, tasks, pendingWaits, waits>>
      PROVE  NoCounter' /\ ExactWaitCount'
  BY <1>1 DEF WakeInv, NoCounter, ExactWaitCount, Awaited, Pending
<1>2. ASSUME NEW N \in SUBSET External, Submit(N) PROVE NoCounter' /\ ExactWaitCount'
  <2>1. N \in SUBSET Ids /\ \A x \in N : ~Exists(x)
    BY <1>2, StoreAssumption DEF Submit
  <2> QED
    BY <1>2, <2>1, InsertExact DEF Submit
<1>3. ASSUME NEW w \in Workers, WorkerStep(w) PROVE NoCounter' /\ ExactWaitCount'
  <2>1. \/ UNCHANGED table
        \/ \E t \in Ids : SuspendCommit(w, t)
        \/ \E v \in {"resolved", "rejected"} : SettleCommit(w, v)
    BY <1>3 DEF NoLateSnapshots, WakeInv, LockedFirst, WorkerStep, ClaimTask, SubmitChildren,
       LockPromise, SettleScan, RetryScan, RetryLock, RetryCommit, RetryAgain, SuspendLock,
       Rollback
  <2> QED
    BY <1>0, <1>1, <2>1, SuspendExact, SettleExact DEF table
<1>4. ASSUME NEW s \in Sweepers, SweeperStep(s) PROVE NoCounter' /\ ExactWaitCount'
  <2>1. UNCHANGED table \/ CollectCommit(s)
    BY <1>4 DEF WakeInv, LockedFirst, SweeperStep, SweepScan, SweepLock, SweepCommit,
       CollectScan, Abort
  <2> QED
    BY <1>0, <1>1, <2>1, CollectExact DEF table
<1>5. ASSUME NEW x \in Ids, DeadlinePasses(x) \/ RetentionPasses(x)
      PROVE  NoCounter' /\ ExactWaitCount'
  BY <1>1, <1>5 DEF DeadlinePasses, RetentionPasses, table
<1>6. CASE UNCHANGED vars
  BY <1>1, <1>6 DEF vars, table
<1> QED
  BY <1>2, <1>3, <1>4, <1>5, <1>6 DEF Next

LEMMA WakeInit == Init => WakeInv
<1> SUFFICES ASSUME Init PROVE WakeInv
  OBVIOUS
<1>1. LockedFirst /\ NoCounter /\ ExactWaitCount
  BY DEF Init, LockedFirst, NoCounter, ExactWaitCount, Sessions
<1> QED
  BY <1>1, InvInit DEF WakeInv

-----------------------------------------------------------------------------
(* No lost wake: the theorems                                                *)

LEMMA WakeInvariant ==
  ASSUME NoLateSnapshots
  PROVE  Spec => []WakeInv
BY WakeInit, WakeStep, PTL DEF Spec

\* With LOCK_PROMISE before SETTLE no settlement misses a waiter that another
\* transaction has just added: the counter and the waits rows agree for ever.
THEOREM CountersAreExact ==
  ASSUME NoLateSnapshots
  PROVE  Spec => []ExactWaitCount
<1>1. WakeInv => ExactWaitCount
  BY DEF WakeInv
<1> QED
  BY <1>1, WakeInvariant, PTL

\* So a task that still counts waits has a promise left to wake it.  RETRY and
\* PROCESS_DUE are why this needs its hypothesis.
THEOREM NoWakeIsLost ==
  ASSUME NoLateSnapshots
  PROVE  Spec => []NoLostWake
<1>1. WakeInv => NoLostWake
  <2> SUFFICES ASSUME WakeInv, NEW t \in tasks, pendingWaits[t] > 0 PROVE Awaited(t) # {}
    BY DEF NoLostWake
  <2>1. pendingWaits[t] = Cardinality(Awaited(t))
    BY DEF WakeInv, ExactWaitCount
  <2> QED
    BY <2>1, FS_EmptySet
<1> QED
  BY <1>1, WakeInvariant, PTL

-----------------------------------------------------------------------------
(* The refinement: the tables and transactions implement DurablePromises     *)
(* when clients submit roots only.  A client that submits a promise into the *)
(* graph of another one can have it deleted while it is pending, so the      *)
(* theorem does not hold without that hypothesis.                            *)

\* Clients submit the roots of graphs; children come from durable functions.
RootsOnly == External \subseteq Roots

\* The refinement mapping of Promises, by name.
Awaiting == [t \in Ids |-> IF Pending(t) THEN waits[t] ELSE {}]
Running == UNION {target[w] : w \in Workers}

-----------------------------------------------------------------------------
(* The inductive invariant of the refinement                                 *)

\* No promise outlives the root of its graph.
RootInv == \A x \in Ids : Exists(x) => Exists(Root[x])

\* A transaction creates and awaits what its own function may.
ExecInv ==
  \A w \in Workers :
    /\ pc[w] = "idle" => born[w] = {}
    /\ \A t \in target[w] :
         /\ born[w] \subseteq Children[t]
         /\ pc[w] = "suspending" => lockedPromises[w] \subseteq MayAwait[t]

\* The graphs a DELETE_EXPIRED found stay settled until it deletes them: what
\* creates promises in a graph is a pending function of that graph.
CollectInv ==
  \A s \in Sweepers : pc[s] = "collecting" =>
    \A r \in target[s] :
      r \in Roots /\ Exists(r) /\ \A x \in Ids : Root[x] = r => ~Pending(x)

RefInv == IInv /\ RootInv /\ ExecInv /\ CollectInv

-----------------------------------------------------------------------------
(* How a step changes the promises                                           *)

\* The promises of B appear, others may settle, and none disappears.
Grows(B) ==
  /\ \A x \in Ids : Exists(x)' <=> Exists(x) \/ x \in B
  /\ \A x \in Ids : Pending(x)' => Pending(x) \/ x \in B
  /\ \A x \in B : ~Exists(x)
  /\ \A x \in B : Root[x] = x \/ \E t \in Ids : Pending(t) /\ Root[t] = Root[x]

\* A transaction that inserts what its function created and settles S.
LEMMA SettleGrows ==
  ASSUME RefInv, NEW s \in Sessions, NEW S \in SUBSET Ids,
         NEW result \in [Ids -> Terminal], NEW R \in SUBSET Ids,
         SettleAndWake(s, S, result, R), \A x \in S : Pending(x),
         \A x \in born[s] : \E t \in Ids : Pending(t) /\ Root[t] = Root[x]
  PROVE  Grows(born[s])
<1>1. \A x \in Ids : promises'[x] = IF x \in S THEN result[x] ELSE Inserted(born[s])[x]
  BY DEF SettleAndWake
<1>2. \A x \in born[s] : ~Exists(x) /\ x \notin S
  BY DEF RefInv, IInv, BornInv, Pending, Exists
<1>3. \A x \in Ids : Exists(x)' <=> Exists(x) \/ x \in born[s]
  BY <1>1, <1>2 DEF Inserted, Terminal, Exists, Pending
<1>4. \A x \in Ids : Pending(x)' => Pending(x) \/ x \in born[s]
  BY <1>1 DEF Inserted, Terminal, Pending
<1> QED
  BY <1>2, <1>3, <1>4 DEF Grows

LEMMA InsertGrows ==
  ASSUME NEW N \in SUBSET Ids, promises' = Inserted(N), \A x \in N : ~Exists(x),
         \A x \in N : Root[x] = x \/ \E t \in Ids : Pending(t) /\ Root[t] = Root[x]
  PROVE  Grows(N)
<1>1. \A x \in Ids : promises'[x] = IF x \in N THEN "pending" ELSE promises[x]
  BY DEF Inserted
<1> QED
  BY <1>1 DEF Grows, Exists, Pending

\* What a worker has not committed belongs to the graph of its pending task.
LEMMA BornBelongs ==
  ASSUME RefInv, NEW w \in Workers
  PROVE  /\ w \in Sessions /\ born[w] \in SUBSET Ids /\ target[w] \in SUBSET Ids
         /\ \A x \in born[w] : ~Exists(x)
         /\ \A t \in target[w] : Pending(t) /\ t \in tasks
         /\ \A x \in born[w] : \E t \in target[w] : t \in Ids /\ Pending(t) /\ Root[t] = Root[x]
<1>1. /\ w \in Sessions /\ born[w] \in SUBSET Ids /\ target[w] \in SUBSET Ids
      /\ \A x \in born[w] : ~Exists(x)
      /\ \A t \in target[w] : Pending(t) /\ t \in tasks
  BY DEF RefInv, IInv, TypeOK, BornInv, WorkerInv, Sessions
<1>2. ASSUME NEW x \in born[w]
      PROVE  \E t \in target[w] : t \in Ids /\ Pending(t) /\ Root[t] = Root[x]
  <2>1. pc[w] # "idle"
    BY <1>2 DEF RefInv, ExecInv
  <2>2. PICK t \in Ids : target[w] = {t}
    BY <2>1 DEF RefInv, IInv, WorkerInv
  <2>3. x \in Children[t] /\ Pending(t)
    BY <1>1, <1>2, <2>2 DEF RefInv, ExecInv
  <2>4. Root[x] = Root[t]
    BY <2>3, StoreAssumption
  <2> QED
    BY <2>2, <2>3, <2>4
<1> QED
  BY <1>1, <1>2

\* Every step but a deletion only adds promises, to graphs that are alive.
LEMMA StepGrows ==
  ASSUME RootsOnly, RefInv, [Next]_vars,
         \A s \in Sweepers : ~CollectCommit(s)
  PROVE  \E B \in SUBSET Ids : Grows(B)
<1>0. ASSUME promises' = promises PROVE Grows({})
  BY <1>0 DEF Grows, Exists, Pending
<1>1. ASSUME NEW N \in SUBSET External, Submit(N) PROVE Grows(N)
  <2>1. N \in SUBSET Ids /\ \A x \in N : ~Exists(x) /\ Root[x] = x
    BY <1>1, StoreAssumption DEF Submit, RootsOnly, Roots
  <2> QED
    BY <1>1, <2>1, InsertGrows DEF Submit
<1>2. ASSUME NEW w \in Workers, WorkerStep(w) PROVE \E B \in SUBSET Ids : Grows(B)
  <2>1. /\ w \in Sessions /\ born[w] \in SUBSET Ids /\ target[w] \in SUBSET Ids
        /\ \A x \in born[w] : ~Exists(x)
        /\ \A x \in target[w] : Pending(x)
        /\ \A x \in born[w] : \E t \in Ids : Pending(t) /\ Root[t] = Root[x]
    BY BornBelongs
  <2>2. ASSUME NEW t \in Ids, RetryAgain(w, t) \/ SuspendCommit(w, t) PROVE Grows(born[w])
    <3>1. promises' = Inserted(born[w])
      BY <2>2 DEF RetryAgain, SuspendCommit
    <3> QED
      BY <2>1, <3>1, InsertGrows
  <2>3. ASSUME NEW v \in {"resolved", "rejected"}, SettleCommit(w, v) PROVE Grows(born[w])
    <3>1. [x \in Ids |-> v] \in [Ids -> Terminal]
      BY DEF Terminal
    <3> QED
      BY <2>1, <2>3, <3>1, SettleGrows DEF SettleCommit
  <2>4. CASE RetryCommit(w)
    <3>1. [x \in Ids |-> "rejected"] \in [Ids -> Terminal]
      BY DEF Terminal
    <3>2. Grows(born[w])
      BY <2>1, <2>4, <3>1, SettleGrows DEF RetryCommit
    <3> QED
      BY <2>1, <3>2
  <2>5. \/ promises' = promises
        \/ \E t \in Ids : RetryAgain(w, t) \/ SuspendCommit(w, t)
        \/ \E v \in {"resolved", "rejected"} : SettleCommit(w, v)
        \/ RetryCommit(w)
    BY <1>2 DEF WorkerStep, ClaimTask, SubmitChildren, LockPromise, SettleScan, RetryScan,
       RetryLock, SuspendLock, Rollback, table
  <2> QED
    BY <1>0, <2>1, <2>2, <2>3, <2>4, <2>5
<1>3. ASSUME NEW s \in Sweepers, SweeperStep(s) PROVE \E B \in SUBSET Ids : Grows(B)
  <2>1. CASE SweepCommit(s)
    <3> DEFINE result == [x \in Ids |-> IF x \in Timers THEN "resolved" ELSE "timed_out"]
    <3>1. /\ s \in Sessions /\ lockedPromises[s] \in SUBSET Ids /\ born[s] = {}
          /\ \A x \in lockedPromises[s] : Pending(x)
          /\ lockedPromises[s] \ Timers \in SUBSET Ids
      BY DEF RefInv, IInv, TypeOK, SweeperInv, Sessions
    <3>2. result \in [Ids -> Terminal]
      BY DEF Terminal
    <3>3. SettleAndWake(s, lockedPromises[s], result, lockedPromises[s] \ Timers)
      BY <2>1 DEF SweepCommit
    <3> HIDE DEF result
    <3>4. Grows(born[s])
      BY <3>1, <3>2, <3>3, SettleGrows
    <3> QED
      BY <3>1, <3>4
  <2>2. promises' = promises \/ SweepCommit(s)
    BY <1>3 DEF SweeperStep, SweepScan, SweepLock, CollectScan, Abort, table
  <2> QED
    BY <1>0, <2>1, <2>2
<1>4. ASSUME NEW x \in Ids, DeadlinePasses(x) \/ RetentionPasses(x) PROVE Grows({})
  BY <1>0, <1>4 DEF DeadlinePasses, RetentionPasses, table
<1>5. CASE UNCHANGED vars
  BY <1>0, <1>5 DEF vars, table
<1>6. {} \in SUBSET Ids /\ \A N \in SUBSET External : N \in SUBSET Ids
  BY StoreAssumption
<1> QED
  BY <1>1, <1>2, <1>3, <1>4, <1>5, <1>6 DEF Next

\* A deletion takes whole graphs, of roots that its scan found, and leaves
\* every worker's claim and locks alone.
Deletes(s, R) ==
  /\ R = {r \in target[s] : PromiseLockable(s, r)}
  /\ pc[s] = "collecting" /\ R \subseteq Roots
  /\ \A x \in Ids : promises'[x] = IF Root[x] \in R THEN "absent" ELSE promises[x]
  /\ \A x \in Ids : waits'[x] = IF Root[x] \in R THEN {} ELSE waits[x]
  /\ \A x \in Ids : Root[x] \in R => ~Pending(x) /\ x \notin Running
  /\ target' = [o \in Sessions |-> IF o = s THEN {} ELSE target[o] \ Graph(R)]
  /\ pc' = [pc EXCEPT ![s] = "idle"]
  /\ UNCHANGED <<locks, born>>

LEMMA CollectDeletes ==
  ASSUME RefInv, NEW s \in Sweepers, CollectCommit(s)
  PROVE  \E R \in SUBSET Ids : Deletes(s, R)
<1> DEFINE R == {r \in target[s] : PromiseLockable(s, r)}
<1>1. s \in Sessions /\ target[s] \in SUBSET Ids /\ R \in SUBSET Ids
  BY DEF RefInv, IInv, TypeOK, Sessions
<1>2. /\ pc[s] = "collecting"
      /\ promises' = WithoutRows(promises, Graph(R), "absent")
      /\ waits' = WithoutRows(waits, Graph(R), {})
      /\ target' = [o \in Sessions |-> IF o = s THEN {} ELSE target[o] \ Graph(R)]
      /\ pc' = [pc EXCEPT ![s] = "idle"]
      /\ UNCHANGED <<locks, born>>
  BY DEF CollectCommit
<1>3. \A r \in R : r \in Roots /\ \A x \in Ids : Root[x] = r => ~Pending(x)
  BY <1>2 DEF RefInv, CollectInv
<1> HIDE DEF R
<1>4. \A x \in Ids : /\ promises'[x] = IF Root[x] \in R THEN "absent" ELSE promises[x]
                     /\ waits'[x] = IF Root[x] \in R THEN {} ELSE waits[x]
  BY <1>2 DEF WithoutRows, Graph
<1>5. \A x \in Running : Pending(x)
  BY DEF Running, RefInv, IInv, WorkerInv
<1> QED
  BY <1>1, <1>2, <1>3, <1>4, <1>5 DEF Deletes, R

-----------------------------------------------------------------------------
(* The invariant of the refinement is inductive                              *)

LEMMA RootStep ==
  ASSUME RootsOnly, RefInv, [Next]_vars
  PROVE  RootInv'
<1> SUFFICES ASSUME NEW x \in Ids, Exists(x)' PROVE Exists(Root[x])'
  BY DEF RootInv
<1>0. Root[x] \in Ids /\ Root[x] \in Roots /\ Root[Root[x]] = Root[x]
  BY StoreAssumption DEF Roots
<1>1. CASE \A s \in Sweepers : ~CollectCommit(s)
  <2>1. PICK B \in SUBSET Ids : Grows(B)
    BY <1>1, StepGrows
  <2>2. CASE Exists(x)
    BY <1>0, <2>1, <2>2 DEF RefInv, RootInv, Grows
  <2>3. CASE x \in B /\ Root[x] = x
    BY <2>3
  <2>4. CASE x \in B /\ \E t \in Ids : Pending(t) /\ Root[t] = Root[x]
    <3>1. Exists(Root[x])
      BY <2>4 DEF RefInv, RootInv, Pending, Exists
    <3> QED
      BY <1>0, <2>1, <3>1 DEF Grows
  <2> QED
    BY <2>1, <2>2, <2>3, <2>4 DEF Grows
<1>2. ASSUME NEW s \in Sweepers, CollectCommit(s) PROVE Exists(Root[x])'
  <2>1. PICK R \in SUBSET Ids : Deletes(s, R)
    BY <1>2, CollectDeletes
  <2>2. Root[x] \notin R /\ Exists(x)
    BY <2>1 DEF Deletes, Exists
  <2> QED
    BY <1>0, <2>1, <2>2 DEF Deletes, Exists, RefInv, RootInv
<1> QED
  BY <1>1, <1>2

\* A session is not touched by the steps of the others, except that a deletion
\* takes the deleted rows from what it has found.
SessionFrame(o) ==
  /\ pc'[o] = pc[o] /\ born'[o] = born[o] /\ lockedPromises'[o] = lockedPromises[o]
  /\ target'[o] \subseteq target[o]

LEMMA WorkerFrame ==
  ASSUME RefInv, NEW w \in Workers, WorkerStep(w), NEW o \in Sessions \ {w}
  PROVE  SessionFrame(o)
<1>0. w \in Sessions
  BY DEF Sessions
<1> QED
  BY <1>0 DEF RefInv, IInv, TypeOK, WorkerStep, ClaimTask, SubmitChildren, LockPromise,
     SettleScan, SettleCommit, RetryScan, RetryLock, RetryCommit, RetryAgain, SuspendLock,
     SuspendCommit, Rollback, Release, GoTo, locks, SessionFrame

LEMMA SweeperFrame ==
  ASSUME RefInv, NEW s \in Sweepers, SweeperStep(s), NEW o \in Sessions \ {s}
  PROVE  SessionFrame(o)
<1>0. s \in Sessions /\ TypeOK
  BY DEF Sessions, RefInv, IInv
<1>1. CASE SweepScan(s) \/ SweepCommit(s) \/ Abort(s)
  BY <1>0, <1>1 DEF TypeOK, SweepScan, SweepCommit, Abort, Release, GoTo, locks, SessionFrame
<1>2. ASSUME NEW T \in SUBSET target[s], NEW P \in SUBSET target[s], SweepLock(s, T, P)
      PROVE  SessionFrame(o)
  BY <1>0, <1>2 DEF TypeOK, SweepLock, GoTo, SessionFrame
<1>3. CASE CollectScan(s)
  BY <1>0, <1>3 DEF TypeOK, CollectScan, GoTo, locks, SessionFrame
<1>4. CASE CollectCommit(s)
  BY <1>0, <1>4 DEF TypeOK, CollectCommit, locks, SessionFrame
<1> QED
  BY <1>1, <1>2, <1>3, <1>4 DEF SweeperStep

\* The steps of clients and of time touch no session.
LEMMA OutsideFrame ==
  ASSUME RefInv, NEW o \in Sessions,
         \/ \E N \in SUBSET External : Submit(N)
         \/ \E x \in Ids : DeadlinePasses(x) \/ RetentionPasses(x)
         \/ UNCHANGED vars
  PROVE  SessionFrame(o)
BY DEF Submit, DeadlinePasses, RetentionPasses, vars, locks, SessionFrame

\* What a transaction knows of its own function, after its own steps.
LEMMA ExecOwn ==
  ASSUME RefInv, NEW w \in Workers, WorkerStep(w)
  PROVE  /\ pc'[w] = "idle" => born'[w] = {}
         /\ \A t \in target'[w] :
              /\ born'[w] \subseteq Children[t]
              /\ pc'[w] = "suspending" => lockedPromises'[w] \subseteq MayAwait[t]
<1> DEFINE Goal == /\ pc'[w] = "idle" => born'[w] = {}
                   /\ \A t \in target'[w] :
                        /\ born'[w] \subseteq Children[t]
                        /\ pc'[w] = "suspending" => lockedPromises'[w] \subseteq MayAwait[t]
<1>0. /\ w \in Sessions
      /\ pc[w] = "idle" => born[w] = {}
      /\ \A t \in target[w] : born[w] \subseteq Children[t]
  BY DEF Sessions, RefInv, ExecInv
<1>1. ASSUME Release(w) PROVE Goal
  BY <1>0, <1>1 DEF RefInv, IInv, TypeOK, Release
<1>2. ASSUME NEW t \in Ids, ClaimTask(w, t) PROVE Goal
  BY <1>0, <1>2 DEF RefInv, IInv, TypeOK, ClaimTask, GoTo
<1>3. ASSUME NEW t \in Ids, NEW N \in SUBSET Children[t], SubmitChildren(w, t, N) PROVE Goal
  BY <1>0, <1>3 DEF RefInv, IInv, TypeOK, SubmitChildren
<1>4. ASSUME NEW t \in Ids, LockPromise(w, t) \/ RetryScan(w, t) \/ RetryLock(w, t) PROVE Goal
  BY <1>0, <1>4 DEF RefInv, IInv, TypeOK, LockPromise, RetryScan, RetryLock, GoTo
<1>5. ASSUME NEW t \in Ids, NEW A \in SUBSET MayAwait[t], SuspendLock(w, t, A) PROVE Goal
  BY <1>0, <1>5 DEF RefInv, IInv, TypeOK, SuspendLock, GoTo
<1>6. ASSUME SettleScan(w) PROVE Goal
  BY <1>0, <1>6 DEF RefInv, IInv, TypeOK, SettleScan, GoTo, locks
<1> HIDE DEF Goal
<1>7. ASSUME NEW t \in Ids, RetryAgain(w, t) \/ SuspendCommit(w, t) PROVE Goal
  BY <1>1, <1>7 DEF RetryAgain, SuspendCommit
<1>8. ASSUME NEW v \in {"resolved", "rejected"}, SettleCommit(w, v) PROVE Goal
  BY <1>1, <1>8 DEF SettleCommit
<1>9. ASSUME RetryCommit(w) \/ Rollback(w) PROVE Goal
  BY <1>1, <1>9 DEF RetryCommit, Rollback
<1>10. Goal
  BY <1>2, <1>3, <1>4, <1>5, <1>6, <1>7, <1>8, <1>9 DEF WorkerStep
<1> QED
  BY <1>10 DEF Goal

LEMMA ExecStep ==
  ASSUME RefInv, [Next]_vars
  PROVE  ExecInv'
<1> SUFFICES ASSUME NEW w \in Workers
             PROVE  /\ pc'[w] = "idle" => born'[w] = {}
                    /\ \A t \in target'[w] :
                         /\ born'[w] \subseteq Children[t]
                         /\ pc'[w] = "suspending" => lockedPromises'[w] \subseteq MayAwait[t]
  BY DEF ExecInv
<1>0. w \in Sessions /\ w \notin Sweepers
  BY StoreAssumption DEF Sessions
<1>1. CASE WorkerStep(w)
  BY <1>1, ExecOwn
<1>2. CASE ~WorkerStep(w)
  <2>1. SessionFrame(w)
    <3>1. ASSUME NEW o \in Workers, WorkerStep(o) PROVE SessionFrame(w)
      BY <1>0, <1>2, <3>1, WorkerFrame
    <3>2. ASSUME NEW o \in Sweepers, SweeperStep(o) PROVE SessionFrame(w)
      BY <1>0, <3>2, SweeperFrame
    <3> QED
      BY <1>0, <3>1, <3>2, OutsideFrame DEF Next
  <2> QED
    BY <2>1 DEF RefInv, ExecInv, SessionFrame
<1> QED
  BY <1>1, <1>2

LEMMA CollectStep ==
  ASSUME RootsOnly, RefInv, [Next]_vars
  PROVE  CollectInv'
<1> SUFFICES ASSUME NEW s \in Sweepers, pc'[s] = "collecting", NEW r \in target'[s]
             PROVE  r \in Roots /\ Exists(r)' /\ \A x \in Ids : Root[x] = r => ~Pending(x)'
  BY DEF CollectInv
<1>0. s \in Sessions
  BY DEF Sessions
<1>1. CASE CollectScan(s)
  <2>1. r \in retired /\ promises[r] \in Terminal /\ \A x \in Graph({r}) : ~Pending(x)
    BY <1>0, <1>1 DEF RefInv, IInv, TypeOK, CollectScan
  <2>2. r \in Roots /\ promises' = promises
    BY <1>1, <2>1 DEF RefInv, IInv, TypeOK, CollectScan, table
  <2> QED
    BY <2>1, <2>2 DEF Exists, Pending, Terminal, Graph
<1>2. CASE ~CollectScan(s)
  <2>1. SessionFrame(s) /\ ~CollectCommit(s)
    <3>0. s \notin Workers
      BY StoreAssumption
    <3>1. ASSUME NEW o \in Workers, WorkerStep(o) PROVE SessionFrame(s)
      BY <1>0, <3>0, <3>1, WorkerFrame
    <3>2. ASSUME NEW o \in Sweepers, SweeperStep(o), o # s PROVE SessionFrame(s)
      BY <1>0, <3>2, SweeperFrame
    <3>3. ASSUME SweeperStep(s) PROVE pc'[s] # "collecting"
      BY <1>0, <1>2, <3>3 DEF RefInv, IInv, TypeOK, SweeperStep, SweepScan, SweepLock,
         SweepCommit, CollectCommit, Abort, Release, GoTo
    <3>4. SessionFrame(s)
      BY <1>0, <3>1, <3>2, <3>3, OutsideFrame DEF Next
    <3> QED
      BY <3>3, <3>4 DEF SweeperStep
  <2>2. /\ pc[s] = "collecting" /\ r \in target[s]
        /\ r \in Roots /\ Exists(r) /\ \A x \in Ids : Root[x] = r => ~Pending(x)
    BY <2>1 DEF SessionFrame, RefInv, CollectInv
  <2>3. Root[r] = r /\ r \in Ids
    BY <2>2 DEF Roots
  <2>4. CASE \A o \in Sweepers : ~CollectCommit(o)
    <3>1. PICK B \in SUBSET Ids : Grows(B)
      BY <2>4, StepGrows
    <3>2. \A x \in B : Root[x] # r
      BY <2>2, <3>1 DEF Grows
    <3> QED
      BY <2>2, <2>3, <3>1, <3>2 DEF Grows
  <2>5. ASSUME NEW o \in Sweepers, CollectCommit(o)
        PROVE  Exists(r)' /\ \A x \in Ids : Root[x] = r => ~Pending(x)'
    <3>1. PICK R \in SUBSET Ids : Deletes(o, R)
      BY <2>5, CollectDeletes
    <3>2. o # s /\ r \notin Graph(R)
      BY <1>0, <2>1, <2>5, <3>1 DEF Deletes
    <3> QED
      BY <2>2, <2>3, <3>1, <3>2 DEF Deletes, Graph, Exists, Pending
  <2> QED
    BY <2>2, <2>4, <2>5
<1> QED
  BY <1>1, <1>2

LEMMA RefInit == Init => RefInv
<1> SUFFICES ASSUME Init PROVE RefInv
  OBVIOUS
<1>1. RootInv /\ ExecInv /\ CollectInv
  BY DEF Init, RootInv, ExecInv, CollectInv, Exists, Sessions
<1> QED
  BY <1>1, InvInit DEF RefInv

LEMMA RefStep ==
  ASSUME RootsOnly
  PROVE  RefInv /\ [Next]_vars => RefInv'
<1> SUFFICES ASSUME RefInv, [Next]_vars PROVE RefInv'
  OBVIOUS
<1>1. IInv'
  BY InvStep DEF RefInv
<1> QED
  BY <1>1, RootStep, ExecStep, CollectStep DEF RefInv

-----------------------------------------------------------------------------
(* Every step maps to a step of DurablePromises or to a stutter              *)

\* What an insertion by a transaction means to the author of the function.
LEMMA InsertMaps ==
  ASSUME RefInv, NEW N \in SUBSET Ids, \A x \in N : ~Exists(x),
         \A x \in N : Root[x] = x \/ \E t \in Ids : Pending(t) /\ Root[t] = Root[x]
  PROVE  /\ Promises!MayCreate(N)
         /\ Promises!Created(N) = Inserted(N)
         /\ \A x \in N : waits[x] = {}
<1>1. \A x \in N : Root[x] \in N \/ promises[Root[x]] # "absent"
  BY DEF RefInv, RootInv, Exists, Pending
<1>2. \A x \in N : x \notin tasks
  BY DEF RefInv, IInv, RowsInv
<1> QED
  BY <1>1, <1>2 DEF RefInv, IInv, RowsInv, Exists, Inserted, Promises!MayCreate, Promises!Created

\* The end of a claim: its task, which no other worker runs, runs no longer.
LEMMA RunningEnds ==
  ASSUME RefInv, NEW w \in Workers, NEW t \in Ids, target[w] = {t}, Release(w)
  PROVE  t \in Running /\ Running' = Running \ {t}
<1>0. w \in Sessions
  BY DEF Sessions
<1>1. target' = [target EXCEPT ![w] = {}]
  BY DEF Release
<1>2. \A o \in Workers \ {w} : t \notin target[o] /\ target'[o] = target[o]
  BY <1>0, <1>1 DEF RefInv, IInv, TypeOK, LocksInv, WorkerInv, Sessions
<1>3. target'[w] = {}
  BY <1>0, <1>1 DEF RefInv, IInv, TypeOK
<1> QED
  BY <1>2, <1>3 DEF Running

LEMMA ClaimMaps ==
  ASSUME RefInv, NEW w \in Workers, NEW t \in Ids, ClaimTask(w, t)
  PROVE  Promises!Start(t)
<1>0. w \in Sessions
  BY DEF Sessions
<1>1. /\ t \in tasks /\ pendingWaits[t] = 0 /\ Pending(t) /\ TaskFree(w, t)
      /\ pc[w] = "idle" /\ target' = [target EXCEPT ![w] = {t}]
      /\ promises' = promises /\ waits' = waits
  BY DEF ClaimTask, GoTo, table
<1>2. t \notin Timers
  BY <1>1 DEF RefInv, IInv, RowsInv
<1>3. \A o \in Workers : t \notin target[o]
  BY <1>0, <1>1 DEF RefInv, IInv, WorkerInv, TaskFree, Sessions
<1>4. Running' = Running \cup {t}
  <2>1. \A o \in Workers : target'[o] = IF o = w THEN {t} ELSE target[o]
    BY <1>0, <1>1 DEF RefInv, IInv, TypeOK, Sessions
  <2>2. target[w] = {}
    BY <1>1 DEF RefInv, IInv, WorkerInv
  <2> QED
    BY <2>1, <2>2 DEF Running
<1>5. \A a \in waits[t] : promises[a] \in Terminal
  <2>1. Awaited(t) = {}
    BY <1>1, ZeroAwaitsNothing DEF RefInv
  <2>2. \A a \in waits[t] : a \in Ids /\ Exists(a) /\ ~Pending(a)
    BY <2>1 DEF RefInv, IInv, TypeOK, RowsInv, Awaited
  <2> QED
    BY <2>2 DEF RefInv, IInv, TypeOK, States, Exists, Pending
<1>6. UNCHANGED Awaiting
  BY <1>1 DEF Awaiting, Pending
<1> QED
  BY <1>1, <1>2, <1>3, <1>4, <1>5, <1>6
  DEF Promises!Start, Promises!Settled, Terminal, Running, Awaiting, Pending

\* complete_task, reject_task and an exhausted retry_task.
LEMMA FinishMaps ==
  ASSUME RefInv, NEW w \in Workers, NEW t \in Ids, target[w] = {t},
         NEW v \in {"resolved", "rejected"},
         SettleAndWake(w, {t}, [x \in Ids |-> v], {t}), Release(w)
  PROVE  \E N \in SUBSET Ids : Promises!Finish(t, N, v)
<1> DEFINE gone == {t} \ Woken({t}, snapshot[w])
<1>0. PICK N \in SUBSET Ids : N = born[w]
  BY BornBelongs
<1>1. /\ w \in Sessions /\ N \subseteq Children[t] /\ t \notin N
      /\ \A x \in N : ~Exists(x)
      /\ \A x \in N : \E u \in Ids : Pending(u) /\ Root[u] = Root[x]
  BY <1>0, BornBelongs DEF RefInv, ExecInv, Pending, Exists
<1>2. /\ Promises!MayCreate(N) /\ Promises!Created(N) = Inserted(N)
      /\ \A x \in N : waits[x] = {}
  BY <1>1, InsertMaps
<1>3. t \in Running /\ Running' = Running \ {t}
  BY RunningEnds
<1>4. /\ promises' = [x \in Ids |-> IF x \in {t} THEN [y \in Ids |-> v][x] ELSE Inserted(N)[x]]
      /\ waits' = WithoutRows(waits, gone, {})
  BY <1>0 DEF SettleAndWake
<1>5. promises' = [Inserted(N) EXCEPT ![t] = v]
  BY <1>4 DEF Inserted
<1>6. \A x \in Ids : x # t => waits'[x] = waits[x]
  BY <1>4 DEF WithoutRows
<1> HIDE DEF gone
<1>7. Awaiting' = [Awaiting EXCEPT ![t] = {}]
  <2>1. \A x \in Ids : x # t => (Pending(x)' <=> Pending(x) \/ x \in N)
    BY <1>4 DEF Inserted, Pending
  <2>2. ~Pending(t)'
    BY <1>4 DEF Pending
  <2>3. ASSUME NEW x \in Ids, x # t
        PROVE  (IF Pending(x) THEN waits[x] ELSE {})' = IF Pending(x) THEN waits[x] ELSE {}
    <3>1. x \in N => ~Pending(x) /\ waits[x] = {}
      BY <1>1, <1>2 DEF Exists, Pending
    <3> QED
      BY <1>6, <2>1, <2>3, <3>1
  <2> QED
    BY <2>2, <2>3 DEF Awaiting
<1>8. N \subseteq Children[t] /\ promises' = [Promises!Created(N) EXCEPT ![t] = v]
  BY <1>1, <1>2, <1>5
<1> QED
  BY <1>2, <1>3, <1>7, <1>8 DEF Promises!Finish, Running, Awaiting

LEMMA AgainMaps ==
  ASSUME RefInv, NEW w \in Workers, NEW t \in Ids, RetryAgain(w, t)
  PROVE  \E N \in SUBSET Ids : Promises!Again(t, N)
<1>0. /\ target[w] = {t} /\ promises' = Inserted(born[w]) /\ waits' = waits /\ Release(w)
  BY DEF RetryAgain
<1>01. PICK N \in SUBSET Ids : N = born[w]
  BY BornBelongs
<1>1. /\ N \subseteq Children[t] /\ promises' = Inserted(N)
      /\ \A x \in N : ~Exists(x)
      /\ \A x \in N : \E u \in Ids : Pending(u) /\ Root[u] = Root[x]
  BY <1>0, <1>01, BornBelongs DEF RefInv, ExecInv
<1>2. /\ Promises!MayCreate(N) /\ Promises!Created(N) = Inserted(N)
      /\ \A x \in N : waits[x] = {}
  BY <1>1, InsertMaps
<1>3. t \in Running /\ Running' = Running \ {t}
  BY <1>0, RunningEnds
<1>4. Awaiting' = Awaiting
  <2>1. \A x \in Ids : Pending(x)' <=> Pending(x) \/ x \in N
    BY <1>1 DEF Inserted, Pending
  <2> QED
    BY <1>0, <1>1, <1>2, <2>1 DEF Awaiting
<1> QED
  BY <1>0, <1>1, <1>2, <1>3, <1>4 DEF Promises!Again, Running, Awaiting

LEMMA SuspendMaps ==
  ASSUME RefInv, NEW w \in Workers, NEW t \in Ids, SuspendCommit(w, t)
  PROVE  \E N \in SUBSET Ids : \E A \in SUBSET Ids : Promises!Suspend(t, N, A)
<1>01. PICK N \in SUBSET Ids : N = born[w]
  BY BornBelongs
<1>02. PICK A \in SUBSET Ids : A = lockedPromises[w]
  BY DEF RefInv, IInv, TypeOK, Sessions
<1>0. /\ pc[w] = "suspending" /\ target[w] = {t} /\ promises' = Inserted(N)
      /\ waits' = [waits EXCEPT ![t] = @ \cup A] /\ Release(w)
  BY <1>01, <1>02 DEF SuspendCommit
<1>1. /\ w \in Sessions /\ N \subseteq Children[t] /\ Pending(t)
      /\ \A x \in N : ~Exists(x)
      /\ \A x \in N : \E u \in Ids : Pending(u) /\ Root[u] = Root[x]
  BY <1>0, <1>01, BornBelongs DEF RefInv, ExecInv
<1>2. /\ A \subseteq MayAwait[t]
      /\ \A a \in A : Exists(a) \/ a \in N
  BY <1>0, <1>1, <1>01, <1>02 DEF RefInv, ExecInv, IInv, LocksInv
<1>3. /\ Promises!MayCreate(N) /\ Promises!Created(N) = Inserted(N)
      /\ \A x \in N : waits[x] = {}
  BY <1>1, InsertMaps
<1>4. t \in Running /\ Running' = Running \ {t}
  BY <1>0, RunningEnds
<1>5. Awaiting' = [Awaiting EXCEPT ![t] = @ \cup A]
  <2>1. \A x \in Ids : Pending(x)' <=> Pending(x) \/ x \in N
    BY <1>0 DEF Inserted, Pending
  <2>2. \A x \in Ids : waits'[x] = IF x = t THEN waits[x] \cup A ELSE waits[x]
    BY <1>0 DEF RefInv, IInv, TypeOK
  <2>3. t \notin N
    BY <1>1 DEF Exists, Pending
  <2> QED
    BY <1>1, <1>3, <2>1, <2>2, <2>3 DEF Awaiting
<1> QED
  BY <1>0, <1>1, <1>2, <1>3, <1>4, <1>5 DEF Promises!Suspend, Running, Awaiting, Exists

LEMMA SubmitMaps ==
  ASSUME RootsOnly, RefInv, NEW N \in SUBSET External, Submit(N)
  PROVE  N \in SUBSET Ids /\ Promises!Create(N)
<1>1. N \in SUBSET Ids /\ \A x \in N : ~Exists(x) /\ Root[x] = x
  BY StoreAssumption DEF Submit, RootsOnly, Roots
<1>2. /\ Promises!MayCreate(N) /\ Promises!Created(N) = Inserted(N)
      /\ \A x \in N : waits[x] = {}
  BY <1>1, InsertMaps
<1>3. promises' = Inserted(N) /\ waits' = waits /\ target' = target
  BY DEF Submit
<1>4. Awaiting' = Awaiting
  <2>1. \A x \in Ids : Pending(x)' <=> Pending(x) \/ x \in N
    BY <1>3 DEF Inserted, Pending
  <2> QED
    BY <1>1, <1>2, <1>3, <2>1 DEF Awaiting
<1>5. Running' = Running
  BY <1>3 DEF Running
<1> QED
  BY <1>1, <1>2, <1>3, <1>4, <1>5 DEF Promises!Create, Running, Awaiting

LEMMA SweepMaps ==
  ASSUME RefInv, NEW s \in Sweepers, SweepCommit(s)
  PROVE  \E S \in SUBSET Ids : Promises!Expire(S)
<1>0. s \in Sessions /\ s \notin Workers
  BY StoreAssumption DEF Sessions
<1>01. PICK S \in SUBSET Ids : S = lockedPromises[s]
  BY <1>0 DEF RefInv, IInv, TypeOK
<1> DEFINE gone == (S \ Timers) \ Woken(S, snapshot[s])
           result == [x \in Ids |-> IF x \in Timers THEN "resolved" ELSE "timed_out"]
<1>1. /\ born[s] = {}
      /\ \A x \in S : Pending(x) /\ (x \in Timers \/ x \in lockedTasks[s])
  BY <1>0, <1>01 DEF RefInv, IInv, TypeOK, SweeperInv
<1>2. \A x \in S : x \notin Running
  <2> SUFFICES ASSUME NEW o \in Workers, NEW x \in target[o], x \in S PROVE FALSE
    BY DEF Running
  <2>1. x \in lockedTasks[o] /\ x \notin Timers /\ o \in Sessions /\ o # s
    BY <1>0 DEF RefInv, IInv, WorkerInv, RowsInv, Sessions
  <2> QED
    BY <1>0, <1>1, <2>1 DEF RefInv, IInv, LocksInv
<1>3. /\ promises' = [x \in Ids |-> IF x \in S THEN result[x] ELSE Inserted(born[s])[x]]
      /\ waits' = WithoutRows(waits, gone, {})
      /\ Release(s)
  BY <1>01 DEF SweepCommit, SettleAndWake
<1>4. promises' = [x \in Ids |-> IF x \in S
                                 THEN IF x \in Timers THEN "resolved" ELSE "timed_out"
                                 ELSE promises[x]]
  BY <1>1, <1>3 DEF Inserted
<1>5. \A x \in Ids : x \notin S => waits'[x] = waits[x]
  BY <1>3 DEF WithoutRows
<1> HIDE DEF gone, result
<1>6. Awaiting' = [x \in Ids |-> IF x \in S THEN {} ELSE Awaiting[x]]
  BY <1>4, <1>5 DEF Awaiting, Pending
<1>7. Running' = Running
  <2>1. \A o \in Workers : target'[o] = target[o]
    BY <1>0, <1>3 DEF Release, RefInv, IInv, TypeOK, Sessions
  <2> QED
    BY <2>1 DEF Running
<1> QED
  BY <1>1, <1>2, <1>4, <1>6, <1>7 DEF Promises!Expire, Running, Awaiting, Pending

LEMMA CollectMaps ==
  ASSUME RefInv, NEW s \in Sweepers, CollectCommit(s)
  PROVE  \E R \in SUBSET {x \in Ids : Root[x] = x} : Promises!Forget(R)
<1>0. s \in Sessions /\ s \notin Workers
  BY StoreAssumption DEF Sessions
<1>1. PICK R \in SUBSET Ids : Deletes(s, R)
  BY CollectDeletes
<1>2. R \in SUBSET {x \in Ids : Root[x] = x}
  BY <1>1 DEF Deletes, Roots
<1>3. \A x \in Ids : Root[x] \in R => promises[x] # "pending" /\ x \notin Running
  BY <1>1 DEF Deletes, Pending
<1>4. promises' = [x \in Ids |-> IF Root[x] \in R THEN "absent" ELSE promises[x]]
  <2>1. promises' = WithoutRows(promises, Graph({r \in target[s] : PromiseLockable(s, r)}),
                                "absent")
    BY DEF CollectCommit
  <2> QED
    BY <1>1, <2>1 DEF Deletes, WithoutRows, Graph
<1>5. Awaiting' = Awaiting
  BY <1>1 DEF Deletes, Awaiting, Pending
<1>6. Running' = Running
  <2>1. \A o \in Workers : target[o] \cap Graph(R) = {}
    BY <1>3 DEF Graph, Running
  <2>2. \A o \in Workers : target'[o] = target[o]
    BY <1>0, <1>1, <2>1 DEF Deletes, Sessions
  <2> QED
    BY <2>2 DEF Running
<1>7. Promises!Forget(R)
  BY <1>3, <1>4, <1>5, <1>6 DEF Promises!Forget, Running, Awaiting
<1> QED
  BY <1>2, <1>7

LEMMA WorkerMaps ==
  ASSUME RefInv, NEW w \in Workers, WorkerStep(w)
  PROVE  Promises!Next \/ UNCHANGED <<promises, Awaiting, Running>>
<1>1. ASSUME NEW t \in Ids, ClaimTask(w, t) PROVE Promises!Next
  BY <1>1, ClaimMaps DEF Promises!Next
<1>2. ASSUME NEW t \in Ids, RetryAgain(w, t) PROVE Promises!Next
  BY <1>2, AgainMaps DEF Promises!Next
<1>3. ASSUME NEW t \in Ids, SuspendCommit(w, t) PROVE Promises!Next
  BY <1>3, SuspendMaps DEF Promises!Next
<1>4. ASSUME NEW v \in {"resolved", "rejected"},
             SettleAndWake(w, target[w], [x \in Ids |-> v], target[w]),
             Release(w), pc[w] # "idle"
      PROVE  Promises!Next
  <2>1. PICK t \in Ids : target[w] = {t}
    BY <1>4 DEF RefInv, IInv, WorkerInv
  <2>2. \E N \in SUBSET Ids : Promises!Finish(t, N, v)
    BY <1>4, <2>1, FinishMaps
  <2> QED
    BY <2>2 DEF Promises!Next
<1>5. ASSUME NEW v \in {"resolved", "rejected"}, SettleCommit(w, v) PROVE Promises!Next
  BY <1>4, <1>5 DEF SettleCommit
<1>6. CASE RetryCommit(w)
  BY <1>4, <1>6 DEF RetryCommit
<1>7. CASE Rollback(w)
  <2>1. PICK t \in Ids : target[w] = {t}
    BY <1>7 DEF Rollback, RefInv, IInv, WorkerInv
  <2>2. promises' = promises /\ Awaiting' = Awaiting /\ Release(w)
    BY <1>7 DEF Rollback, table, Awaiting, Pending
  <2>3. t \in Running /\ Running' = Running \ {t}
    BY <2>1, <2>2, RunningEnds
  <2>4. Promises!Stop(t)
    BY <2>2, <2>3 DEF Promises!Stop, Running, Awaiting
  <2> QED
    BY <2>4 DEF Promises!Next
<1>8. ASSUME UNCHANGED <<promises, waits, target>>
      PROVE  UNCHANGED <<promises, Awaiting, Running>>
  BY <1>8 DEF Awaiting, Running, Pending
<1>9. ASSUME NEW t \in Ids, NEW N \in SUBSET Children[t], SubmitChildren(w, t, N)
      PROVE  UNCHANGED <<promises, waits, target>>
  BY <1>9 DEF SubmitChildren, table
<1>10. ASSUME NEW t \in Ids, NEW A \in SUBSET MayAwait[t], SuspendLock(w, t, A)
       PROVE  UNCHANGED <<promises, waits, target>>
  BY <1>10 DEF SuspendLock, table
<1>11. ASSUME NEW t \in Ids, LockPromise(w, t) \/ RetryScan(w, t) \/ RetryLock(w, t)
       PROVE  UNCHANGED <<promises, waits, target>>
  BY <1>11 DEF LockPromise, RetryScan, RetryLock, table
<1>12. ASSUME SettleScan(w) PROVE UNCHANGED <<promises, waits, target>>
  BY <1>12 DEF SettleScan, table
<1> QED
  BY <1>1, <1>2, <1>3, <1>5, <1>6, <1>7, <1>8, <1>9, <1>10, <1>11, <1>12 DEF WorkerStep

LEMMA SweeperMaps ==
  ASSUME RefInv, NEW s \in Sweepers, SweeperStep(s)
  PROVE  Promises!Next \/ UNCHANGED <<promises, Awaiting, Running>>
<1>0. s \in Sessions /\ s \notin Workers
  BY StoreAssumption DEF Sessions
<1>1. CASE SweepCommit(s)
  BY <1>1, SweepMaps DEF Promises!Next
<1>2. CASE CollectCommit(s)
  BY <1>2, CollectMaps DEF Promises!Next
<1>3. ASSUME promises' = promises, waits' = waits,
             \A o \in Workers : target'[o] = target[o]
      PROVE  UNCHANGED <<promises, Awaiting, Running>>
  BY <1>3 DEF Awaiting, Running, Pending
<1>4. ASSUME \/ SweepScan(s) \/ CollectScan(s) \/ Abort(s)
             \/ \E T \in SUBSET target[s], P \in SUBSET target[s] : SweepLock(s, T, P)
      PROVE  /\ promises' = promises /\ waits' = waits
             /\ \A o \in Workers : target'[o] = target[o]
  BY <1>0, <1>4 DEF RefInv, IInv, TypeOK, SweepScan, SweepLock, CollectScan, Abort, Release,
     table, Sessions
<1> QED
  BY <1>1, <1>2, <1>3, <1>4 DEF SweeperStep

LEMMA StepMaps ==
  ASSUME RootsOnly, RefInv, [Next]_vars
  PROVE  Promises!Next \/ UNCHANGED <<promises, Awaiting, Running>>
<1>1. ASSUME NEW N \in SUBSET External, Submit(N) PROVE Promises!Next
  BY <1>1, SubmitMaps DEF Promises!Next
<1>2. ASSUME \/ \E x \in Ids : DeadlinePasses(x) \/ RetentionPasses(x)
             \/ UNCHANGED vars
      PROVE  UNCHANGED <<promises, Awaiting, Running>>
  BY <1>2 DEF DeadlinePasses, RetentionPasses, vars, table, Awaiting, Running, Pending
<1> QED
  BY <1>1, <1>2, WorkerMaps, SweeperMaps DEF Next

-----------------------------------------------------------------------------
(* The theorems                                                              *)

LEMMA RefinementInvariant ==
  ASSUME RootsOnly
  PROVE  Spec => []RefInv
BY RefInit, RefStep, PTL DEF Spec

\* Whatever the interleaving of submissions, claims, settlements, deadlines
\* and deletions, the tables and transactions behave as DurablePromises says.
THEOREM TablesImplementPromises ==
  ASSUME RootsOnly
  PROVE  Spec => ImplementsDurablePromises
<1>1. Init => Promises!Init
  BY DEF Init, Promises!Init, NoWaits, Sessions, Pending
<1>2. RefInv /\ [Next]_vars => [Promises!Next]_(Promises!vars)
  <2> SUFFICES ASSUME RefInv, [Next]_vars PROVE [Promises!Next]_(Promises!vars)
    OBVIOUS
  <2>1. Promises!Next \/ UNCHANGED <<promises, Awaiting, Running>>
    BY StepMaps
  <2> QED
    BY <2>1 DEF Promises!vars, Awaiting, Running
<1> QED
  BY <1>1, <1>2, RefinementInvariant, PTL DEF Spec, ImplementsDurablePromises, Promises!Spec

\* Retention deletes no promise that is still pending, although the scan that
\* found its graph settled and the deletion are two moments.
THEOREM PendingPromisesStay ==
  ASSUME RootsOnly
  PROVE  Spec => PendingNeverDeleted
<1>1. RefInv /\ [Next]_vars =>
        [\A x \in Ids : Pending(x) => promises'[x] # "absent"]_vars
  <2> SUFFICES ASSUME RefInv, [Next]_vars, NEW x \in Ids, Pending(x)
               PROVE  promises'[x] # "absent"
    OBVIOUS
  <2>1. CASE \A s \in Sweepers : ~CollectCommit(s)
    BY <2>1, StepGrows DEF Grows, Exists, Pending
  <2>2. ASSUME NEW s \in Sweepers, CollectCommit(s) PROVE promises'[x] # "absent"
    BY <2>2, CollectDeletes DEF Deletes, Pending
  <2> QED
    BY <2>1, <2>2
<1> QED
  BY <1>1, RefinementInvariant, PTL DEF Spec, PendingNeverDeleted
=============================================================================
