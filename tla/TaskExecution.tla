---------------------------- MODULE TaskExecution ----------------------------
(***************************************************************************)
(* tasks/__init__.py and database/__init__.py: one claimed task, the       *)
(* connection and the transaction it is executed in, the submissions its   *)
(* function makes, and the outcome.                                        *)
(*                                                                         *)
(* The store is reduced to what one task sees of it (ReaperStore has the   *)
(* rest): its own row, and the promises of the children its function asks  *)
(* for.  A child is known by its call index, which is what tells the ids   *)
(* of one task's children apart.  asyncpg and the server are external.     *)
(*                                                                         *)
(* The coroutines that use the connection take operation_lock first.  A    *)
(* request at the head of lock holds it; busy says that its statement is   *)
(* on its way.                                                             *)
(***************************************************************************)
EXTENDS Naturals, Sequences, FiniteSets

CONSTANTS
  MaxChildren,   \* the highest call index
  MaxFailures,   \* max_failures
  MaxTroubles    \* bound: database errors, timeouts, retries and cancellations

ASSUME ExecutionAssumption ==
  MaxChildren \in Nat /\ MaxFailures \in Nat \ {0} /\ MaxTroubles \in Nat

Ids == 1..MaxChildren

VARIABLES
  row,        \* the task and its promise, as committed
  db,         \* the promises of its children, as committed
  mine,       \* the promises the open transaction has inserted
  drawn,      \* the outcome the open transaction has recorded
  tx,         \* the transaction of the claim's connection
  claim,      \* where TaskClaim is
  raised,     \* whether an exception leaves the body of the claim
  finished,   \* TaskExecution.finished
  pending,    \* TaskExecution.pending_submissions
  flushing,   \* whether TaskExecution.submission_task is set
  lock,       \* TaskExecution.operation_lock: its holder, then those who wait
  busy,       \* whether a statement of the holder is on its way
  troubles    \* how many troubles there were

store == <<row, db>>
session == <<mine, drawn, tx>>
submissions == <<pending, flushing>>
executionVars == <<row, db, mine, drawn, tx, claim, raised, finished, pending, flushing,
                   lock, busy, troubles>>

\* A promise as invoke() sees it.  fp stands for its fingerprint: what the
\* function had learnt when it made the call, or for a timer its due time.
Promise(state, fp, stamp) == [state |-> state, fp |-> fp, stamp |-> stamp]
Absent == Promise("absent", <<>>, 0)
Nothing == [i \in Ids |-> Absent]

\* Result: what execute() makes of a run of the function.
Result(state, awaited, error, value) ==
  [state |-> state, awaited |-> awaited, error |-> error, value |-> value]
NoResult == Result("none", {}, "none", <<>>)

\* Lists of submissions, and requests for operation_lock.
NoCalls == [ids |-> {}, fp |-> <<>>]
Request(op, ids, fp) == [op |-> op, ids |-> ids, fp |-> fp]

Terminal == {"resolved", "rejected"}

\* What a statement of the open transaction sees.
Visible(i) == IF mine[i] # Absent THEN mine[i] ELSE db[i]

\* Mutant of Claimable: a promise that was rejected does not count as settled.
ClaimableIfResolved ==
  row.state = "pending" /\ \A i \in row.waits : Visible(i).state = "resolved"

\* CLAIM finds the task: it is pending, and every promise it waits for settled.
Claimable == row.state = "pending" /\ \A i \in row.waits : Visible(i).state \in Terminal

Trouble == troubles < MaxTroubles /\ troubles' = troubles + 1

ExecutionInit ==
  /\ row = [state |-> "pending", waits |-> {}, failures |-> 0, error |-> "none", value |-> <<>>]
  /\ db = Nothing /\ mine = Nothing /\ drawn = NoResult /\ tx = "none"
  /\ claim = "idle" /\ raised = FALSE /\ finished = FALSE
  /\ pending = NoCalls /\ flushing = FALSE /\ lock = <<>> /\ busy = FALSE
  /\ troubles = 0

-----------------------------------------------------------------------------
(* TaskClaim.__aenter__                                                      *)

\* What the last execution has left behind has a lock and a connection of its own,
\* and is over before the answers to BEGIN and CLAIM arrive.
MayClaim == claim = "idle" /\ lock = <<>> /\ ~busy

\* A connection, a transaction, and the row lock of the task.
ClaimTask ==
  /\ MayClaim /\ Claimable
  /\ claim' = "held" /\ tx' = "open" /\ raised' = FALSE /\ finished' = FALSE
  /\ UNCHANGED <<store, mine, drawn, submissions, lock, busy, troubles>>

\* There is nothing to claim: the transaction is rolled back.
ClaimNothing ==
  /\ MayClaim /\ ~Claimable
  /\ claim' = "ending" /\ tx' = "open" /\ raised' = FALSE /\ finished' = FALSE
  /\ UNCHANGED <<store, mine, drawn, submissions, lock, busy, troubles>>

\* The transaction cannot be started, or CLAIM fails.
ClaimFails ==
  /\ MayClaim /\ Trouble
  /\ claim' = "ending" /\ tx' \in {"none", "failed", "lost"}
  /\ raised' = TRUE /\ finished' = FALSE
  /\ UNCHANGED <<store, mine, drawn, submissions, lock, busy>>

-----------------------------------------------------------------------------
(* TaskExecution                                                             *)

\* submit, for the calls the function starts in one turn of the event loop.
Submit(ids, fp) ==
  /\ ~finished
  /\ pending' = [ids |-> pending.ids \cup ids, fp |-> fp]
  /\ flushing' = TRUE

\* flush_submissions, after its sleep(0): the batch asks for the lock.
FlushSubmissions ==
  /\ flushing
  /\ lock' = Append(lock, Request("submit", pending.ids, pending.fp))
  /\ pending' = NoCalls /\ flushing' = FALSE
  /\ UNCHANGED <<store, session, claim, raised, finished, busy, troubles>>

\* timer, complete, reject, retry and suspend ask for the lock.
AskLock(op, ids, fp) == lock' = Append(lock, Request(op, ids, fp))

\* Mutant of Sends: ensure_open is not called.
SendsUnchecked(op) ==
  /\ lock # <<>> /\ Head(lock).op = op /\ ~busy
  /\ tx = "open"
  /\ busy' = TRUE
  /\ UNCHANGED <<store, session, claim, raised, finished, submissions, lock, troubles>>

\* The holder passes ensure_open and sends its statement.
Sends(op) ==
  /\ lock # <<>> /\ Head(lock).op = op /\ ~busy
  /\ ~finished /\ tx = "open"
  /\ busy' = TRUE
  /\ UNCHANGED <<store, session, claim, raised, finished, submissions, lock, troubles>>

\* The holder does not pass ensure_open, or the connection takes no statement.
Refused(op) ==
  /\ lock # <<>> /\ Head(lock).op = op /\ ~busy
  /\ finished \/ tx # "open"
  /\ lock' = Tail(lock)
  /\ UNCHANGED <<store, session, finished, submissions, busy, troubles>>

\* The statement of the holder is answered.
Answered(op) ==
  /\ lock # <<>> /\ Head(lock).op = op /\ busy /\ tx = "open"
  /\ lock' = Tail(lock) /\ busy' = FALSE

\* SUBMIT_CALLS and SUBMIT_TIMER insert what is not there yet.
Inserted(ids, fp) ==
  [i \in Ids |-> IF i \in ids /\ Visible(i) = Absent THEN Promise("pending", fp, 0) ELSE mine[i]]

\* A row that was there has another fingerprint: IdempotencyConflictError.
Conflict(ids, fp) == \E i \in ids : Visible(i) # Absent /\ Visible(i).fp # fp

\* Mutant of StatementFails: the transaction can be used after the failure.
StatementFailsAlone(op) ==
  /\ Answered(op) /\ Trouble
  /\ UNCHANGED <<store, session, finished, submissions>>

\* The statement fails, and with it the transaction or the connection.
StatementFails(op) ==
  /\ Answered(op) /\ Trouble
  /\ tx' \in {"failed", "lost"}
  /\ UNCHANGED <<store, mine, drawn, finished, submissions>>

\* The answer to the statement of an outcome.
RecordOutcome(result) ==
  /\ Answered("settle")
  /\ drawn' = result /\ finished' = TRUE
  /\ UNCHANGED <<store, mine, tx, submissions, troubles>>

\* The coroutine that waits for op is cancelled: it leaves the queue, and a
\* statement on its way is carried out or cancelled by the server.
Withdrawn(op) ==
  LET places == {n \in 1..Len(lock) : lock[n].op = op}
  IN  IF places = {} THEN lock
      ELSE LET n == CHOOSE n \in places : TRUE
           IN  SubSeq(lock, 1, n - 1) \o SubSeq(lock, n + 1, Len(lock))
HoldsLock(op) == lock # <<>> /\ Head(lock).op = op

-----------------------------------------------------------------------------
(* TaskClaim.__aexit__, finish_transaction, release_connection               *)

\* cancel_submissions stops a batch that has not been taken from the list yet.
CancelSubmissions ==
  /\ claim = "exiting"
  /\ claim' = "ending" /\ pending' = NoCalls /\ flushing' = FALSE
  /\ UNCHANGED <<store, session, raised, finished, lock, busy, troubles>>

\* Mutant of Commits: the claim is committed however its body ended.
CommitsAnyway == TRUE

Commits == ~raised /\ finished

\* Mutant of Recorded: one attempt too many.
RecordedOnceMore(result) ==
  LET exhausted == result.state = "retry" /\ row.failures >= MaxFailures
  IN  [state |-> CASE result.state \in Terminal -> result.state
                   [] exhausted -> "rejected"
                   [] OTHER -> "pending",
       waits |-> row.waits \cup result.awaited,
       failures |-> IF result.state = "retry" THEN row.failures + 1 ELSE row.failures,
       error |-> IF result.state = "rejected" \/ exhausted THEN result.error ELSE "none",
       value |-> result.value]

\* What the outcome makes of the row of the task.
Recorded(result) ==
  LET exhausted == result.state = "retry" /\ row.failures + 1 >= MaxFailures
  IN  [state |-> CASE result.state \in Terminal -> result.state
                   [] exhausted -> "rejected"
                   [] OTHER -> "pending",
       waits |-> row.waits \cup result.awaited,
       failures |-> IF result.state = "retry" THEN row.failures + 1 ELSE row.failures,
       error |-> IF result.state = "rejected" \/ exhausted THEN result.error ELSE "none",
       value |-> result.value]

\* A task that is ready to run does so before the answer to COMMIT or ROLLBACK
\* arrives: its statement, if it can send one, is on its way.
Settled == busy \/ lock = <<>>

CommitTransaction ==
  /\ claim = "ending" /\ Commits /\ Settled /\ ~busy /\ tx = "open"
  /\ row' = Recorded(drawn) /\ db' = [i \in Ids |-> IF mine[i] # Absent THEN mine[i] ELSE db[i]]
  /\ mine' = Nothing /\ drawn' = NoResult /\ tx' = "none"
  /\ claim' = "releasing"
  /\ UNCHANGED <<raised, finished, submissions, lock, busy, troubles>>

\* The connection is lost while it commits: the server has done so or not.
CommitLost ==
  /\ claim = "ending" /\ Commits /\ Settled /\ ~busy /\ tx = "open" /\ Trouble
  /\ \/ /\ row' = Recorded(drawn)
        /\ db' = [i \in Ids |-> IF mine[i] # Absent THEN mine[i] ELSE db[i]]
     \/ UNCHANGED store
  /\ mine' = Nothing /\ drawn' = NoResult /\ tx' = "lost"
  /\ claim' = "releasing" /\ raised' = TRUE
  /\ UNCHANGED <<finished, submissions, lock, busy>>

RollBack ==
  /\ claim = "ending" /\ ~Commits /\ Settled /\ ~busy
  /\ mine' = Nothing /\ drawn' = NoResult
  /\ tx' = IF tx = "lost" THEN "lost" ELSE "none"
  /\ claim' = "releasing"
  /\ UNCHANGED <<store, raised, finished, submissions, lock, busy, troubles>>

\* Another statement is on its way: asyncpg refuses COMMIT and ROLLBACK.
TransactionRefused ==
  /\ claim = "ending" /\ busy
  /\ claim' = "releasing" /\ raised' = TRUE
  /\ UNCHANGED <<store, session, finished, submissions, lock, busy, troubles>>

\* The connection goes back to the pool; one that is busy or lost, or that has
\* a transaction, cannot be reset, and the pool terminates it.  The coroutines of
\* the execution keep their places at its lock: they are refused when they run.
ReleaseConnection ==
  /\ claim = "releasing"
  /\ claim' = "idle" /\ tx' = "none" /\ mine' = Nothing /\ drawn' = NoResult
  /\ UNCHANGED <<store, raised, finished, submissions, lock, busy, troubles>>

\* A statement that was on its way ends with the connection.
StatementDies ==
  /\ claim = "idle" /\ busy
  /\ lock' = Tail(lock) /\ busy' = FALSE
  /\ UNCHANGED <<store, session, claim, raised, finished, submissions, troubles>>
=============================================================================
