---------------------------- MODULE DurableReplay ----------------------------
(***************************************************************************)
(* promise.py and worker.run_claimed_task: a durable function as it is     *)
(* run, suspended and run again from the start, in the claim transactions  *)
(* of TaskExecution.                                                       *)
(*                                                                         *)
(* A function is a sequence of stages.  A stage makes one or more calls at *)
(* once, or sleeps, and the function goes on with the outcome:             *)
(*   gather   all of the calls, of which it takes the results              *)
(*   first    the first of the calls, of which it takes the result         *)
(*   sleep    a durable timer                                              *)
(* join, fanout and mapreduce are gathers, one after the other; an awaited *)
(* call is a gather of one.  What a function has learnt (history) are the  *)
(* winners of its firsts: all else that it knows is the same in every run. *)
(***************************************************************************)
EXTENDS TaskExecution

CONSTANTS
  Programs,      \* the functions: sequences of [op |-> ..., calls |-> ...]
  PerMilli,      \* how many ticks of the clock a millisecond has
  Lapses         \* how many ticks may go by between two settlements

\* How many calls a function has made when it comes to a stage.
Before(p) ==
  LET calls[n \in 1..(Len(p) + 1)] == IF n = 1 THEN 0 ELSE calls[n - 1] + p[n - 1].calls
  IN  calls

\* MaxChildren is no bound on what a function does: it numbers all of its calls.
ASSUME ReplayAssumption ==
  /\ Programs \subseteq Seq([op : {"gather", "first", "sleep"}, calls : Nat \ {0}]) \ {<<>>}
  /\ \A p \in Programs : Before(p)[Len(p) + 1] <= MaxChildren
  /\ PerMilli \in Nat \ {0} /\ Lapses \subseteq Nat

VARIABLES
  program,    \* the function of the task
  attempt,    \* how many times it has been started
  body,       \* what the coroutine of the claim is doing
  stage,      \* the stage the function is in
  index,      \* Context.call_index before that stage
  memo,       \* Context.memo
  history,    \* what the function has learnt
  result,     \* the Result of execute
  clock,      \* the time of the server, in ticks
  stamps,     \* the times that settlements under way have taken, or 0
  contested   \* auxiliary: whether the winner of a first depends on when it was looked at

settling == <<clock, stamps, contested>>
run == <<attempt, stage, index, memo, history>>
bodyVars == <<run, body, result>>
vars == <<executionVars, bodyVars, program, settling>>

Stage == program[stage]
StageIds == (index + 1)..(index + Stage.calls)
Known == {i \in Ids : memo[i] # Absent}
Result0 == result = NoResult

Init ==
  /\ ExecutionInit
  /\ program \in Programs
  /\ attempt = 0 /\ body = "none" /\ stage = 1 /\ index = 0
  /\ memo = Nothing /\ history = <<>> /\ result = NoResult
  /\ clock = 1 /\ stamps = [i \in Ids |-> 0] /\ contested = FALSE

-----------------------------------------------------------------------------
(* run_claimed_task, up to the call of the function                          *)

\* A new Context counts its calls from 0.
StartsAfresh ==
  attempt' = attempt + 1 /\ stage' = 1 /\ index' = 0 /\ history' = <<>>

\* The claim brings the promises the task has waited for.
Preload == [i \in Ids |-> IF i \in row.waits THEN Visible(i) ELSE Absent]

Claim ==
  /\ ClaimTask
  /\ StartsAfresh
  /\ memo' = Preload
  /\ body' = "running" /\ result' = NoResult
  /\ UNCHANGED <<program, settling>>

\* The worker polls and there is nothing, or the claim fails.
NoClaim == (ClaimNothing \/ ClaimFails) /\ UNCHANGED <<bodyVars, program, settling>>

\* The skeleton has not loaded this version: the claim is given back.
FunctionUnavailable ==
  /\ body = "running" /\ stage = 1 /\ Result0 /\ Trouble
  /\ body' = "none" /\ claim' = "exiting"
  /\ UNCHANGED <<run, result, store, session, raised, finished, submissions, lock, busy,
                 program, settling>>

-----------------------------------------------------------------------------
(* The function                                                              *)

Ends(r) == body' = "over" /\ result' = r /\ UNCHANGED run
Rejects(error) == Ends(Result("rejected", {}, error, <<>>))
Retries(error) == Ends(Result("retry", {}, error, <<>>))
Suspends(ids) == Ends(Result("suspended", ids, "none", <<>>))

\* Mutant of CallInput: the time of the attempt is part of the fingerprint.
CallInputWithAttempt == Append(history, attempt)

\* What the fingerprint of a call depends on (expires_at is left out of it).
CallInput == history

\* invoke: calls that are not in the memo are submitted, in one turn.
StartCalls ==
  /\ body = "running" /\ Stage.op # "sleep"
  /\ body' = "calls"
  /\ LET missing == StageIds \ Known
     IN  IF missing = {} THEN UNCHANGED submissions ELSE Submit(missing, CallInput)
  /\ UNCHANGED <<run, result, store, session, claim, raised, finished, lock, busy, troubles,
                 program, settling>>

\* sleep: the due time is part of the fingerprint, and another in each attempt.
StartSleep ==
  /\ body = "running" /\ Stage.op = "sleep"
  /\ LET missing == StageIds \ Known
     IN  IF missing = {}
         THEN body' = "calls" /\ UNCHANGED lock
         ELSE body' = "timer" /\ AskLock("timer", missing, <<attempt>>)
  /\ UNCHANGED <<run, result, store, session, claim, raised, finished, submissions, busy,
                 troubles, program, settling>>

\* The function raises RetryableError.
Raises ==
  /\ body = "running" /\ Trouble /\ Retries("retryable")
  /\ UNCHANGED <<store, session, claim, raised, finished, submissions, lock, busy,
                 program, settling>>

GoesOn(learnt) ==
  IF stage < Len(program)
  THEN /\ body' = "running" /\ stage' = stage + 1 /\ index' = index + Stage.calls
       /\ history' = learnt
       /\ UNCHANGED <<attempt, memo, result>>
  ELSE Ends(Result("resolved", {}, "none", learnt))

Pending(ids) == {i \in ids : memo[i].state = "pending"}

\* gather, or a sleep: every promise has to be settled.
Gathers ==
  IF Pending(StageIds) # {} THEN Suspends(Pending(StageIds))
  ELSE IF \E i \in StageIds : memo[i].state = "rejected" THEN Rejects("child")
  ELSE GoesOn(history)

\* Promise.settled_order, in milliseconds: CLAIM rounds down the times of the
\* promises that were waited for, and round() is used for the others.
SettledOrder(i) ==
  (IF i \in row.waits THEN memo[i].stamp ELSE memo[i].stamp + PerMilli \div 2) \div PerMilli

\* Mutant of Winners: any settled promise will do.
WinnersAny == StageIds \ Pending(StageIds)

\* min() over promises that are collected in the order of a set.
Winners ==
  LET settled == StageIds \ Pending(StageIds)
  IN  {w \in settled : \A i \in settled : SettledOrder(w) <= SettledOrder(i)}

TakesFirst ==
  IF Winners = {} THEN Suspends(StageIds)
  ELSE \E w \in Winners :
         IF memo[w].state = "rejected" THEN Rejects("child") ELSE GoesOn(Append(history, w))

\* Every call of the stage has its promise.
Evaluate ==
  /\ body = "calls" /\ StageIds \subseteq Known
  /\ IF Stage.op = "first" THEN TakesFirst ELSE Gathers
  /\ UNCHANGED <<executionVars, program, settling>>

\* asyncio.timeout: the wait of the function is cancelled.  A batch that is
\* flushed goes on; a timer's own statement is carried out or cancelled.
TimesOut ==
  /\ body \in {"calls", "timer"} /\ Trouble
  /\ Retries("timeout")
  /\ IF body = "timer"
     THEN /\ lock' = Withdrawn("timer")
          /\ IF HoldsLock("timer") /\ busy
             THEN /\ busy' = FALSE
                  /\ \/ tx' = "failed" /\ UNCHANGED mine
                     \/ mine' = Inserted(Head(lock).ids, Head(lock).fp) /\ UNCHANGED tx
             ELSE UNCHANGED <<busy, mine, tx>>
     ELSE UNCHANGED <<lock, busy, mine, tx>>
  /\ UNCHANGED <<store, drawn, claim, raised, finished, submissions, program, settling>>

-----------------------------------------------------------------------------
(* The statements of the function                                            *)

Flush == FlushSubmissions /\ UNCHANGED <<bodyVars, program, settling>>

Send == /\ \E op \in {"submit", "timer", "settle"} : Sends(op)
        /\ UNCHANGED <<bodyVars, program, settling>>

\* The coroutine that made the request still waits for the answer.
Awaits(op) == body = (IF op = "submit" THEN "calls" ELSE "timer")

\* The answer: promises for the memo, or IdempotencyConflictError.  The rows
\* that did not conflict have been inserted in both cases.
PromisesArrive(op) ==
  /\ Answered(op)
  /\ LET q == Head(lock)
     IN  /\ mine' = Inserted(q.ids, q.fp)
         /\ IF ~Awaits(op) THEN UNCHANGED bodyVars
            ELSE IF Conflict(q.ids, q.fp) THEN Rejects("conflict")
            ELSE /\ body' = "calls"
                 /\ memo' = [i \in Ids |-> IF i \in q.ids
                                           THEN IF Visible(i) = Absent
                                                THEN Promise("pending", q.fp, 0) ELSE Visible(i)
                                           ELSE memo[i]]
                 /\ UNCHANGED <<attempt, stage, index, history, result>>
  /\ UNCHANGED <<store, drawn, tx, claim, raised, finished, submissions, troubles,
                 program, settling>>

\* The statement fails: the function gets the error and is rejected for it.
PromisesFail(op) ==
  /\ StatementFails(op)
  /\ IF Awaits(op) THEN Rejects("database") ELSE UNCHANGED bodyVars
  /\ UNCHANGED <<claim, raised, program, settling>>

\* ensure_open or asyncpg refuses.
PromisesRefused(op) ==
  /\ Refused(op)
  /\ IF Awaits(op) THEN Rejects("database") ELSE UNCHANGED bodyVars
  /\ UNCHANGED <<claim, raised, program, settling>>

-----------------------------------------------------------------------------
(* settle_execution, and the end of the claim                                *)

SettleExecution ==
  /\ body = "over" /\ body' = "settling"
  /\ AskLock("settle", {}, <<>>)
  /\ UNCHANGED <<run, result, store, session, claim, raised, finished, submissions, busy,
                 troubles, program, settling>>

Leaves(exception) == body' = "none" /\ claim' = "exiting" /\ raised' = exception

OutcomeRecorded ==
  /\ body = "settling" /\ RecordOutcome(result) /\ Leaves(FALSE)
  /\ UNCHANGED <<run, result, program, settling>>

OutcomeFails ==
  /\ body = "settling"
  /\ StatementFails("settle") \/ Refused("settle")
  /\ Leaves(TRUE)
  /\ UNCHANGED <<run, result, program, settling>>

\* The worker is stopped: CancelledError passes through the function, or
\* through settle_execution.
Stopped ==
  /\ body # "none" /\ Trouble /\ Leaves(TRUE)
  /\ lock' = Withdrawn(IF body = "timer" THEN "timer" ELSE "settle")
  /\ IF busy /\ ~HoldsLock("submit")
     THEN /\ busy' = FALSE
          /\ \/ tx' = "failed" /\ UNCHANGED <<mine, drawn>>
             \/ /\ mine' = Inserted(Head(lock).ids, Head(lock).fp)
                /\ drawn' = IF HoldsLock("settle") THEN result ELSE drawn
                /\ UNCHANGED tx
     ELSE UNCHANGED <<busy, session>>
  /\ UNCHANGED <<run, result, store, finished, submissions, program, settling>>

EndOfClaim ==
  /\ \/ CancelSubmissions \/ CommitTransaction \/ CommitLost \/ RollBack
     \/ TransactionRefused \/ ReleaseConnection \/ StatementDies
  /\ UNCHANGED <<bodyVars, program, settling>>

-----------------------------------------------------------------------------
(* The children, whose settlements are transactions of their own             *)

\* The calls of a stage of the program, and how many firsts come before it.
IdsOf(s) == (Before(program)[s] + 1)..(Before(program)[s] + program[s].calls)
FirstsBefore(s) == Cardinality({n \in 1..(s - 1) : program[n].op = "first"})

\* The statement of a settlement takes the time: its own time for a call, that of
\* the sweep for what PROCESS_DUE settles, which several may share.  A settlement
\* that is rolled back leaves nothing behind.
ChildStamps(i) ==
  /\ db[i].state = "pending" /\ stamps[i] = 0
  /\ \E lapse \in Lapses : clock' = clock + lapse /\ stamps' = [stamps EXCEPT ![i] = clock']
  /\ UNCHANGED <<executionVars, bodyVars, program, contested>>

\* A promise of a first settles when another has done so, which is not at least
\* a millisecond older: whoever has looked in between may have seen another winner.
Contests(i) ==
  \E s \in 1..Len(program) :
    /\ program[s].op = "first" /\ i \in IdsOf(s)
    /\ \E k \in IdsOf(s) : db[k].state \in Terminal /\ stamps[i] < db[k].stamp + PerMilli

\* COMMIT makes it visible.
ChildSettles(i) ==
  /\ db[i].state = "pending" /\ stamps[i] # 0
  /\ \E state \in Terminal :
       db' = [db EXCEPT ![i] = Promise(state, @.fp, stamps[i])]
  /\ stamps' = [stamps EXCEPT ![i] = 0]
  /\ contested' = (contested \/ Contests(i))
  /\ UNCHANGED <<row, session, claim, raised, finished, submissions, lock, busy, troubles,
                 bodyVars, program, clock>>

Child(i) == ChildStamps(i) \/ ChildSettles(i)

Worker ==
  \/ Claim \/ NoClaim \/ FunctionUnavailable
  \/ StartCalls \/ StartSleep \/ Raises \/ Evaluate \/ TimesOut
  \/ Flush \/ Send
  \/ \E op \in {"submit", "timer"} : PromisesArrive(op) \/ PromisesFail(op) \/ PromisesRefused(op)
  \/ SettleExecution \/ OutcomeRecorded \/ OutcomeFails \/ Stopped
  \/ EndOfClaim

Next == Worker \/ \E i \in Ids : Child(i)

\* Skeletons poll for ever, and the children are run by others.
Fairness == WF_vars(Worker) /\ \A i \in Ids : WF_vars(Child(i))

Spec == Init /\ [][Next]_vars
FairSpec == Spec /\ Fairness

-----------------------------------------------------------------------------
(* Properties                                                                *)

\* The state variables keep their types.
Promises == [state : {"absent", "pending"} \cup Terminal, fp : Seq(Nat), stamp : Nat]
TypeOK ==
  /\ row.state \in {"pending"} \cup Terminal /\ row.waits \subseteq Ids
  /\ row.failures \in 0..MaxFailures
  /\ db \in [Ids -> Promises] /\ mine \in [Ids -> Promises] /\ memo \in [Ids -> Promises]
  /\ tx \in {"none", "open", "failed", "lost"}
  /\ claim \in {"idle", "held", "exiting", "ending", "releasing"}
  /\ body \in {"none", "running", "calls", "timer", "over", "settling"}
  /\ raised \in BOOLEAN /\ finished \in BOOLEAN /\ flushing \in BOOLEAN /\ busy \in BOOLEAN
  /\ pending.ids \subseteq Ids /\ troubles \in 0..MaxTroubles
  /\ stage \in 1..Len(program) /\ index \in 0..MaxChildren
  /\ clock \in Nat \ {0} /\ stamps \in [Ids -> 0..clock] /\ contested \in BOOLEAN
  /\ result.state \in {"none", "suspended", "retry"} \cup Terminal

\* A function that was suspended, retried and cut off by failures any number
\* of times resolves with what one plain run of it would give: each gather and
\* sleep saw its promises resolved, each first took one that was resolved, and,
\* unless settlements of a first were contested, the earliest of its promises,
\* and every call was created by a run that had learnt the same.
\* (Context, invoke, gather, first, execute.)
ResultIsPlain ==
  row.state = "resolved" =>
    \A s \in 1..Len(program) :
      LET learnt == SubSeq(row.value, 1, FirstsBefore(s))
          w == row.value[FirstsBefore(s) + 1]
      IN  /\ IF program[s].op = "first"
             THEN w \in IdsOf(s) /\ db[w].state = "resolved"
             ELSE \A i \in IdsOf(s) : db[i].state = "resolved"
          /\ ~contested =>
               /\ program[s].op # "sleep" => \A i \in IdsOf(s) : db[i].fp = learnt
               /\ program[s].op = "first" =>
                    \A i \in IdsOf(s) \ {w} :
                      db[i].state \in Terminal => db[w].stamp < db[i].stamp

\* A failing database never rejects a task: the error ends the function, but
\* the rejection cannot be recorded in the transaction that failed, and the
\* task is claimed again.  (execute, settle_execution, TaskClaim.__aexit__.)
DatabaseTroubleNeverRejects == row.error # "database"

\* The ids a run asks for are never taken by different work of an earlier run,
\* with two exceptions: a timer that was committed by a run that did not suspend
\* on it, which the next run creates again with another due time; and what comes
\* after a first whose settlements were contested.
OnlyForgottenTimersConflict ==
  row.error = "conflict" =>
    \/ contested
    \/ \E s \in 1..Len(program) :
         program[s].op = "sleep" /\ \E i \in IdsOf(s) : db[i] # Absent /\ i \notin row.waits

\* An outcome that was recorded can be committed: no batch of the execution has
\* got the connection after it, whose statement COMMIT would be refused for, and
\* none has failed the transaction.  (ensure_open, operation_lock, TaskClaim.__aexit__.)
OutcomeCommittable ==
  claim \in {"exiting", "ending"} /\ Commits => ~busy /\ tx = "open"

\* After the outcome nothing more is inserted: what it says of the children is
\* the last word of its transaction.  (TaskExecution.ensure_open.)
NoChildAfterOutcome == [][finished /\ finished' /\ tx = "open" /\ tx' = "open" => mine' = mine]_vars

\* The children of a run appear together with its outcome or not at all.
ChildrenComeWithOutcome ==
  [][\A i \in Ids : db[i] = Absent /\ db'[i] # Absent =>
       finished /\ row' # row]_vars

\* However it was disturbed, the task settles in the end.
TaskSettles == <>(row.state \in Terminal)
=============================================================================
