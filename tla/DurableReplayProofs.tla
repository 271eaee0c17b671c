------------------------- MODULE DurableReplayProofs -------------------------
(***************************************************************************)
(* Proofs about DurableReplay, for every set of functions and every number *)
(* of children, failures and disturbances: a claim leaves neither a        *)
(* statement nor half of a transaction behind, what the database does      *)
(* wrong is not taken for the outcome of a function, and every variable    *)
(* has its type.                                                           *)
(***************************************************************************)
EXTENDS DurableReplay, WellFoundedInduction, FiniteSetTheorems, TLAPS

-----------------------------------------------------------------------------
(* The inductive invariant                                                   *)

\* Tables of promises, by call index.
Table(f) == f = [i \in Ids |-> f[i]] /\ \A i \in Ids : f[i].stamp \in Nat

\* What the other parts need to know of the types.
ShapeInv ==
  /\ Table(db) /\ Table(mine) /\ Table(memo)
  /\ row.waits \subseteq Ids /\ row.failures \in Nat
  /\ program \in Programs /\ stage \in 1..Len(program) /\ index \in Nat
  /\ clock \in Nat \ {0} /\ stamps \in [Ids -> 0..clock] /\ contested \in BOOLEAN

\* The function runs while the claim is held, and up to its outcome.
CoroutineInv ==
  /\ claim = "held" <=> body # "none"
  /\ body # "none" => ~finished /\ row.state = "pending"

\* Statements are sent in an open transaction that has no outcome, and one that is
\* left is on a connection that is terminated; a claim that is over has sent all of
\* its batches or dropped them; a recorded outcome has an open transaction.
ConnectionInv ==
  /\ busy => (tx = "open" /\ ~finished) \/ claim = "idle"
  /\ claim = "idle" => tx = "none"
  /\ claim \in {"idle", "ending", "releasing"} => ~flushing /\ pending = NoCalls
  /\ claim \in {"exiting", "ending"} /\ Commits => tx = "open"

\* What a task has waited for stays settled, and its function knows it.
WaitedInv ==
  body # "none" =>
    \A i \in row.waits : Visible(i).state \in Terminal /\ memo[i].state \in Terminal

\* An outcome that changes the row of the task: it settles the task, counts an
\* attempt, or waits for something new.
Moves(r) ==
  /\ r.state \in {"suspended", "retry"} \cup Terminal
  /\ r.awaited \subseteq Ids
  /\ r.state = "suspended" => ~(r.awaited \subseteq row.waits)

OutcomeInv ==
  /\ body \in {"over", "settling"} => Moves(result)
  /\ claim \in {"exiting", "ending"} /\ Commits => Moves(drawn) /\ row.state = "pending"

\* An error of the database is known to the function only when its transaction
\* can record nothing any more.
ErrorInv ==
  /\ body # "none" /\ result.error = "database" => tx # "open"
  /\ drawn.error # "database"
  /\ DatabaseTroubleNeverRejects

IInv == ShapeInv /\ CoroutineInv /\ ConnectionInv /\ WaitedInv /\ OutcomeInv /\ ErrorInv

-----------------------------------------------------------------------------
(* Operators                                                                 *)

\* A set of natural numbers has a least one.
LEMMA LeastNatural ==
  ASSUME NEW T, T \subseteq Nat, T # {}
  PROVE  \E m \in T : \A n \in T : m <= n
<1> DEFINE R == OpToRel(<, Nat)
<1>1. IsWellFoundedOn(R, Nat)
  BY NatLessThanWellFounded
<1>2. \E m \in T : \A n \in T : ~(<<n, m>> \in R)
  <2> HIDE DEF R
  <2> QED BY <1>1, WFMin
<1>3. PICK m \in T : \A n \in T : ~(<<n, m>> \in R)
  BY <1>2
<1>4. ASSUME NEW n \in T PROVE m <= n
  <2>1. ~(n < m)
    BY <1>3, <1>4 DEF OpToRel
  <2> QED BY <2>1, <1>4
<1> QED BY <1>3, <1>4

\* Settlement orders are natural numbers.
LEMMA OrderIsNatural ==
  ASSUME Table(memo), NEW i \in Ids
  PROVE  SettledOrder(i) \in Nat
<1>1. memo[i].stamp \in Nat
  BY DEF Table
<1>2. PerMilli \in Nat \ {0} /\ 2 \in Nat \ {0}
  BY ReplayAssumption
<1>3. \A n \in Nat : \A d \in Nat \ {0} : n \div d \in Nat
  BY SMT
<1>4. memo[i].stamp + PerMilli \div 2 \in Nat
  BY <1>1, <1>2, <1>3
<1> QED BY <1>1, <1>2, <1>3, <1>4 DEF SettledOrder

\* A stage makes at least one call.
LEMMA StagesCall ==
  ASSUME ShapeInv
  PROVE  StageIds # {} /\ Stage.calls \in Nat \ {0} /\ StageIds \subseteq Nat
<1> DEFINE stages == [op : {"gather", "first", "sleep"}, calls : Nat \ {0}]
<1>1. program \in Seq(stages)
  BY ReplayAssumption DEF ShapeInv
<1>2. program[stage] \in stages
  <2> HIDE DEF stages
  <2> QED BY <1>1 DEF ShapeInv
<1>3. Stage.calls \in Nat \ {0} /\ index \in Nat
  BY <1>2 DEF Stage, ShapeInv
<1>4. index + 1 \in StageIds
  BY <1>3 DEF StageIds
<1> QED BY <1>3, <1>4 DEF StageIds

\* first has a winner as soon as one of its promises has settled.
LEMMA SettledWins ==
  ASSUME ShapeInv, StageIds \subseteq Ids, Winners = {}
  PROVE  Pending(StageIds) = StageIds
<1> DEFINE settled == StageIds \ Pending(StageIds)
           orders == {SettledOrder(i) : i \in settled}
<1> SUFFICES ASSUME settled # {} PROVE FALSE
  BY DEF Pending
<1>1. orders \subseteq Nat
  BY OrderIsNatural DEF ShapeInv
<1>2. PICK m \in orders : \A n \in orders : m <= n
  <2>1. orders # {}
    OBVIOUS
  <2> HIDE DEF orders
  <2> QED BY <1>1, <2>1, LeastNatural
<1>3. PICK w \in settled : m = SettledOrder(w)
  OBVIOUS
<1>4. w \in Winners
  BY <1>2, <1>3 DEF Winners
<1> QED BY <1>4

\* Inserting keeps what is there, and the table stays a table.
LEMMA InsertedTable ==
  ASSUME Table(mine), NEW ids, NEW fp, mine' = Inserted(ids, fp), db' = db
  PROVE  /\ Table(mine)'
         /\ \A i \in Ids : Visible(i).state \in Terminal => Visible(i)' = Visible(i)
<1>1. Absent.state = "absent" /\ Promise("pending", fp, 0).stamp = 0
  BY DEF Absent, Promise
<1>2. \A i \in Ids : mine'[i] = IF i \in ids /\ Visible(i) = Absent
                               THEN Promise("pending", fp, 0) ELSE mine[i]
  BY DEF Inserted
<1>3. Table(mine)'
  <2>1. mine' = [i \in Ids |-> mine'[i]]
    BY DEF Inserted
  <2>2. \A i \in Ids : mine'[i].stamp \in Nat
    BY <1>1, <1>2 DEF Table
  <2> QED BY <2>1, <2>2 DEF Table
<1>4. ASSUME NEW i \in Ids, Visible(i).state \in Terminal PROVE Visible(i)' = Visible(i)
  <2>1. Visible(i) # Absent
    BY <1>1, <1>4 DEF Terminal
  <2>2. mine'[i] = mine[i]
    BY <1>2, <2>1
  <2> QED BY <2>2 DEF Visible
<1> QED BY <1>3, <1>4

-----------------------------------------------------------------------------
(* Each group of steps keeps the invariant                                   *)

\* The initial states satisfy it.
LEMMA InitInv == Init => IInv
<1> SUFFICES ASSUME Init PROVE IInv
  OBVIOUS
<1>1. Absent.stamp = 0 /\ Nothing = [i \in Ids |-> Absent]
  BY DEF Absent, Promise, Nothing
<1>2. Table(Nothing)
  BY <1>1 DEF Table
<1>3. program \in Programs /\ 1 \in 1..Len(program)
  <2>1. program \in Programs /\ program # <<>>
    BY ReplayAssumption DEF Init
  <2>2. \E S : program \in Seq(S)
    BY <2>1, ReplayAssumption
  <2> QED BY <2>1, <2>2
<1>4. ShapeInv
  <2>1. clock \in Nat \ {0} /\ stamps \in [Ids -> 0..clock] /\ contested \in BOOLEAN
    <3>1. clock = 1 /\ stamps = [i \in Ids |-> 0]
      BY DEF Init
    <3>2. clock \in Nat \ {0} /\ 0 \in 0..clock
      BY <3>1
    <3>3. stamps \in [Ids -> 0..clock]
      BY <3>1, <3>2, Zenon
    <3>4. contested \in BOOLEAN
      BY DEF Init
    <3> QED BY <3>2, <3>3, <3>4
  <2>2. /\ db = Nothing /\ mine = Nothing /\ memo = Nothing
        /\ row.waits = {} /\ row.failures = 0 /\ stage = 1 /\ index = 0
    BY DEF Init, ExecutionInit
  <2>3. Table(db) /\ Table(mine) /\ Table(memo)
    BY <1>2, <2>2
  <2>4. row.waits \subseteq Ids /\ row.failures \in Nat /\ index \in Nat
    BY <2>2
  <2>5. stage \in 1..Len(program)
    BY <1>3, <2>2
  <2> QED BY <1>3, <2>1, <2>3, <2>4, <2>5 DEF ShapeInv
<1>5. CoroutineInv /\ ConnectionInv /\ WaitedInv /\ OutcomeInv /\ ErrorInv
  BY DEF Init, ExecutionInit, CoroutineInv, ConnectionInv, WaitedInv, OutcomeInv, ErrorInv,
         NoResult, Result, DatabaseTroubleNeverRejects
<1> QED BY <1>4, <1>5 DEF IInv

\* The claim is taken, or ends before there is an execution.
LEMMA ClaimSteps ==
  ASSUME IInv, Claim \/ NoClaim \/ FunctionUnavailable
  PROVE  IInv'
<1> USE DEF IInv, CoroutineInv, ConnectionInv, WaitedInv, OutcomeInv, ErrorInv, MayClaim,
            DatabaseTroubleNeverRejects, store, session, submissions, run, bodyVars, Commits,
            Moves, settling
<1>1. CASE Claim
  <2> USE <1>1 DEF Claim, ClaimTask, StartsAfresh
  <2>1. Table(memo)'
    <3>1. memo' = [i \in Ids |-> memo'[i]]
      BY DEF Preload
    <3>2. Absent.stamp = 0
      BY DEF Absent, Promise
    <3>3. \A i \in Ids : memo'[i] = Visible(i) \/ memo'[i] = Absent
      BY DEF Preload
    <3>4. \A i \in Ids : Visible(i).stamp \in Nat
      BY DEF ShapeInv, Table, Visible
    <3> QED BY <3>1, <3>2, <3>3, <3>4 DEF Table
  <2>2. ShapeInv'
    <3>1. 1 \in 1..Len(program)
      BY DEF ShapeInv
    <3>2. Table(db)' /\ Table(mine)'
      BY DEF ShapeInv, Table
    <3> QED BY <2>1, <3>1, <3>2 DEF ShapeInv
  <2>3. CoroutineInv'
    BY DEF Claimable
  <2>4. ConnectionInv'
    OBVIOUS
  <2>5. WaitedInv'
    <3>1. \A i \in row.waits : Visible(i).state \in Terminal /\ i \in Ids
      BY DEF Claimable, ShapeInv
    <3>2. \A i \in row.waits : memo'[i] = Visible(i) /\ Visible(i)' = Visible(i)
      BY <3>1 DEF Preload, Visible
    <3> QED BY <3>1, <3>2
  <2>6. OutcomeInv' /\ ErrorInv'
    BY DEF NoResult, Result
  <2> QED BY <2>2, <2>3, <2>4, <2>5, <2>6
<1>2. CASE NoClaim
  <2> USE <1>2 DEF NoClaim, ClaimNothing, ClaimFails, Trouble
  <2>1. ShapeInv'
    BY DEF ShapeInv, Table
  <2>2. CoroutineInv' /\ ConnectionInv' /\ WaitedInv' /\ OutcomeInv' /\ ErrorInv'
    OBVIOUS
  <2> QED BY <2>1, <2>2
<1>3. CASE FunctionUnavailable
  <2> USE <1>3 DEF FunctionUnavailable, Trouble
  <2>1. ShapeInv'
    BY DEF ShapeInv, Table
  <2>2. CoroutineInv' /\ ConnectionInv' /\ WaitedInv' /\ OutcomeInv' /\ ErrorInv'
    OBVIOUS
  <2> QED BY <2>1, <2>2
<1> QED BY <1>1, <1>2, <1>3

\* The function makes calls, evaluates what came of them, or is cut off.
LEMMA FunctionSteps ==
  ASSUME IInv, StartCalls \/ StartSleep \/ Raises \/ Evaluate \/ TimesOut
  PROVE  IInv'
<1> USE DEF IInv, CoroutineInv, ConnectionInv, WaitedInv, OutcomeInv, ErrorInv,
            DatabaseTroubleNeverRejects, store, session, submissions, run, Commits, Trouble,
            settling
<1>1. CASE StartCalls
  <2> USE <1>1 DEF StartCalls, Submit
  <2>1. ShapeInv' /\ WaitedInv'
    BY DEF ShapeInv, Table, Visible
  <2>2. CoroutineInv' /\ ConnectionInv' /\ OutcomeInv' /\ ErrorInv'
    BY DEF Moves
  <2> QED BY <2>1, <2>2
<1>2. CASE StartSleep
  <2> USE <1>2 DEF StartSleep, AskLock
  <2>1. ShapeInv' /\ WaitedInv'
    BY DEF ShapeInv, Table, Visible
  <2>2. CoroutineInv' /\ ConnectionInv' /\ OutcomeInv' /\ ErrorInv'
    BY DEF Moves
  <2> QED BY <2>1, <2>2
<1>3. CASE Raises
  <2> USE <1>3 DEF Raises, Retries, Ends, Result
  <2>1. ShapeInv' /\ WaitedInv'
    BY DEF ShapeInv, Table, Visible
  <2>2. CoroutineInv' /\ ConnectionInv' /\ OutcomeInv' /\ ErrorInv'
    BY DEF Moves
  <2> QED BY <2>1, <2>2
<1>4. CASE Evaluate
  <2>1. /\ body = "calls" /\ UNCHANGED <<executionVars, program, settling>>
        /\ StageIds \subseteq Known
    BY <1>4 DEF Evaluate
  <2>2. StageIds \subseteq Ids
    BY <2>1 DEF Known
  <2>3. \/ Suspends(Pending(StageIds)) /\ Pending(StageIds) # {}
        \/ Suspends(StageIds) /\ Winners = {}
        \/ Rejects("child")
        \/ \E learnt : GoesOn(learnt)
    BY <1>4 DEF Evaluate, Gathers, TakesFirst
  <2>4. ASSUME NEW ids \in SUBSET StageIds, Suspends(ids), Pending(ids) # {}
        PROVE  IInv'
    <3>1. result'.state = "suspended" /\ result'.awaited = ids /\ result'.error = "none"
      BY <2>4 DEF Suspends, Ends, Result
    <3>2. ~(ids \subseteq row.waits)
      <4>1. PICK i \in ids : memo[i].state = "pending"
        BY <2>4 DEF Pending
      <4>2. i \notin row.waits
        BY <2>1, <4>1 DEF Terminal
      <4> QED BY <4>1, <4>2
    <3>3. Moves(result)'
      BY <2>1, <2>2, <2>4, <3>1, <3>2 DEF Moves, executionVars
    <3>4. ShapeInv' /\ WaitedInv'
      BY <2>1, <2>4 DEF ShapeInv, Table, Visible, Suspends, Ends, executionVars
    <3>5. CoroutineInv' /\ ConnectionInv' /\ OutcomeInv' /\ ErrorInv'
      BY <2>1, <2>4, <3>1, <3>3 DEF Suspends, Ends, executionVars, Moves
    <3> QED BY <3>4, <3>5
  <2>5. CASE Suspends(Pending(StageIds)) /\ Pending(StageIds) # {}
    <3>1. Pending(Pending(StageIds)) = Pending(StageIds)
      BY DEF Pending
    <3>2. Pending(StageIds) \in SUBSET StageIds
      BY DEF Pending
    <3> QED BY <2>4, <2>5, <3>1, <3>2
  <2>6. CASE Suspends(StageIds) /\ Winners = {}
    <3>1. Pending(StageIds) # {}
      BY <2>2, <2>6, SettledWins, StagesCall
    <3> QED BY <2>4, <2>6, <3>1
  <2>7. CASE Rejects("child")
    <3>1. ShapeInv' /\ WaitedInv'
      BY <2>1, <2>7 DEF ShapeInv, Table, Visible, Rejects, Ends, executionVars
    <3>2. CoroutineInv' /\ ConnectionInv' /\ OutcomeInv' /\ ErrorInv'
      BY <2>1, <2>7 DEF Rejects, Ends, Result, executionVars, Moves, Terminal
    <3> QED BY <3>1, <3>2
  <2>8. ASSUME NEW learnt, GoesOn(learnt) PROVE IInv'
    <3>1. CASE stage < Len(program)
      <4>1. stage + 1 \in 1..Len(program)
        <5>1. Len(program) \in Nat
          <6>1. \E S : program \in Seq(S)
            BY ReplayAssumption DEF ShapeInv
          <6> QED BY <6>1
        <5> QED BY <3>1, <5>1 DEF ShapeInv
      <4>2. index + Stage.calls \in Nat
        BY StagesCall DEF ShapeInv
      <4>3. /\ body' = "running" /\ stage' = stage + 1 /\ index' = index + Stage.calls
            /\ UNCHANGED <<memo, result>>
        BY <2>8, <3>1 DEF GoesOn
      <4>4. ShapeInv' /\ WaitedInv'
        BY <2>1, <4>1, <4>2, <4>3 DEF ShapeInv, Table, Visible, executionVars
      <4>5. CoroutineInv' /\ ConnectionInv' /\ OutcomeInv' /\ ErrorInv'
        BY <2>1, <4>3 DEF executionVars, Moves
      <4> QED BY <4>4, <4>5
    <3>2. CASE ~(stage < Len(program))
      <4>1. Ends(Result("resolved", {}, "none", learnt))
        BY <2>8, <3>2 DEF GoesOn
      <4>2. ShapeInv' /\ WaitedInv'
        BY <2>1, <4>1 DEF ShapeInv, Table, Visible, Ends, executionVars
      <4>3. CoroutineInv' /\ ConnectionInv' /\ OutcomeInv' /\ ErrorInv'
        BY <2>1, <4>1 DEF Ends, Result, executionVars, Moves, Terminal
      <4> QED BY <4>2, <4>3
    <3> QED BY <3>1, <3>2
  <2> QED BY <2>3, <2>5, <2>6, <2>7, <2>8
<1>5. CASE TimesOut
  <2>1. /\ body \in {"calls", "timer"} /\ Retries("timeout")
        /\ UNCHANGED <<row, db, drawn, claim, raised, finished, pending, flushing, program,
                       settling>>
    BY <1>5 DEF TimesOut
  <2>2. \/ UNCHANGED <<busy, mine, tx>>
        \/ busy /\ busy' = FALSE /\ UNCHANGED mine
        \/ busy /\ busy' = FALSE /\ mine' = Inserted(Head(lock).ids, Head(lock).fp) /\ UNCHANGED tx
    BY <1>5 DEF TimesOut
  <2>3. Table(mine)' /\ \A i \in Ids : Visible(i).state \in Terminal => Visible(i)' = Visible(i)
    BY <2>1, <2>2, InsertedTable DEF ShapeInv, Table, Visible
  <2>4. ShapeInv'
    BY <2>1, <2>3 DEF ShapeInv, Table, Retries, Ends
  <2>5. WaitedInv'
    BY <2>1, <2>3 DEF ShapeInv, Retries, Ends
  <2>6. CoroutineInv' /\ ConnectionInv' /\ OutcomeInv' /\ ErrorInv'
    BY <2>1, <2>2 DEF Retries, Ends, Result, Moves
  <2> QED BY <2>4, <2>5, <2>6
<1> QED BY <1>1, <1>2, <1>3, <1>4, <1>5

\* The statements of the function are sent, answered or refused.
LEMMA StatementSteps ==
  ASSUME IInv, NEW op \in {"submit", "timer"},
         Flush \/ Send \/ PromisesArrive(op) \/ PromisesFail(op) \/ PromisesRefused(op)
  PROVE  IInv'
<1> USE DEF IInv, CoroutineInv, ConnectionInv, WaitedInv, OutcomeInv, ErrorInv,
            DatabaseTroubleNeverRejects, store, session, submissions, run, bodyVars, settling,
            Commits,
            Trouble, Answered, Moves
<1>1. CASE Flush
  <2> USE <1>1 DEF Flush, FlushSubmissions
  <2>1. ShapeInv' /\ WaitedInv'
    BY DEF ShapeInv, Table, Visible
  <2>2. CoroutineInv' /\ ConnectionInv' /\ OutcomeInv' /\ ErrorInv'
    OBVIOUS
  <2> QED BY <2>1, <2>2
<1>2. CASE Send
  <2>1. /\ lock # <<>> /\ tx = "open" /\ ~finished /\ busy' = TRUE
        /\ UNCHANGED <<store, session, claim, raised, finished, submissions, lock, bodyVars,
                       program, settling>>
    BY <1>2 DEF Send, Sends
  <2>2. ShapeInv' /\ WaitedInv'
    BY <2>1 DEF ShapeInv, Table, Visible
  <2>3. CoroutineInv' /\ ConnectionInv' /\ OutcomeInv' /\ ErrorInv'
    BY <2>1
  <2> QED BY <2>2, <2>3
<1>3. CASE PromisesArrive(op)
  <2> DEFINE q == Head(lock)
  <2>1. /\ busy /\ busy' = FALSE /\ mine' = Inserted(q.ids, q.fp)
        /\ UNCHANGED <<row, db, drawn, tx, claim, raised, finished, pending, flushing, program,
                       settling>>
    BY <1>3 DEF PromisesArrive
  <2>2. lock # <<>>
    BY <1>3 DEF PromisesArrive
  <2>3. Table(mine)' /\ \A i \in Ids : Visible(i).state \in Terminal => Visible(i)' = Visible(i)
    BY <2>1, InsertedTable DEF ShapeInv
  <2>4. \/ UNCHANGED bodyVars
        \/ Awaits(op) /\ Rejects("conflict")
        \/ /\ Awaits(op) /\ body' = "calls"
           /\ memo' = [i \in Ids |-> IF i \in q.ids
                                     THEN IF Visible(i) = Absent
                                          THEN Promise("pending", q.fp, 0) ELSE Visible(i)
                                     ELSE memo[i]]
           /\ UNCHANGED <<attempt, stage, index, history, result>>
    BY <1>3 DEF PromisesArrive
  <2>5. Awaits(op) => body # "none" /\ body \notin {"over", "settling"}
    BY DEF Awaits
  <2>6. /\ Table(memo)' /\ stage' = stage /\ index' = index
        /\ body # "none" => \A i \in row.waits : memo'[i].state \in Terminal
    <3>1. CASE memo' = memo
      BY <2>1, <2>4, <3>1 DEF ShapeInv, Table, Rejects, Ends
    <3>2. CASE memo' # memo
      <4>1. memo' = [i \in Ids |-> IF i \in q.ids
                                   THEN IF Visible(i) = Absent
                                        THEN Promise("pending", q.fp, 0) ELSE Visible(i)
                                   ELSE memo[i]]
        BY <2>4, <3>2 DEF Rejects, Ends
      <4>2. \A i \in Ids : Visible(i).stamp \in Nat
        BY DEF ShapeInv, Table, Visible
      <4>3. Absent.state = "absent" /\ Promise("pending", q.fp, 0).stamp = 0
        BY DEF Absent, Promise
      <4>4. \A i \in Ids : memo'[i].stamp \in Nat
        BY <4>1, <4>2, <4>3 DEF ShapeInv, Table
      <4>5. memo' = [i \in Ids |-> memo'[i]]
        BY <4>1
      <4>6. body # "none" => \A i \in row.waits : memo'[i].state \in Terminal
        BY <4>1, <4>3 DEF ShapeInv, Terminal
      <4> QED BY <2>4, <4>4, <4>5, <4>6 DEF Table, Rejects, Ends
    <3> QED BY <3>1, <3>2
  <2>7. ShapeInv'
    BY <2>1, <2>3, <2>6 DEF ShapeInv, Table
  <2>8. body' # "none" => body # "none"
    BY <2>4, <2>5
  <2>9. WaitedInv'
    BY <2>1, <2>3, <2>6, <2>8 DEF ShapeInv
  <2>10. CoroutineInv' /\ ConnectionInv'
    BY <2>1, <2>2, <2>4, <2>5 DEF Rejects, Ends
  <2>11. OutcomeInv' /\ ErrorInv'
    BY <2>1, <2>4, <2>5 DEF Rejects, Ends, Result, Terminal
  <2> QED BY <2>7, <2>9, <2>10, <2>11
<1>4. CASE PromisesFail(op) \/ PromisesRefused(op)
  <2>1. /\ tx' = tx \/ tx' \in {"failed", "lost"}
        /\ lock # <<>>
        /\ UNCHANGED <<row, db, mine, drawn, claim, raised, finished, pending, flushing,
                       program, settling>>
    BY <1>4 DEF PromisesFail, PromisesRefused, StatementFails, Refused
  <2>2. ~busy'
    BY <1>4 DEF PromisesFail, PromisesRefused, StatementFails, Refused
  <2>3. \/ UNCHANGED bodyVars
        \/ Awaits(op) /\ Rejects("database")
    BY <1>4 DEF PromisesFail, PromisesRefused
  <2>4. Awaits(op) => body # "none" /\ body \notin {"over", "settling"}
    BY DEF Awaits
  <2>5. Awaits(op) => tx' # "open"
    BY <1>4, <2>4 DEF PromisesFail, PromisesRefused, StatementFails, Refused
  <2>6. ShapeInv' /\ WaitedInv'
    BY <2>1, <2>3, <2>4 DEF ShapeInv, Table, Visible, Rejects, Ends
  <2>60. tx' = tx \/ (~finished /\ claim # "idle")
    BY <1>4 DEF PromisesFail, PromisesRefused, StatementFails, Refused
  <2>7. CoroutineInv' /\ ConnectionInv'
    <3>1. CoroutineInv'
      BY <2>1, <2>3, <2>4 DEF Rejects, Ends
    <3>2. ConnectionInv'
      BY <2>1, <2>2, <2>60
    <3> QED BY <3>1, <3>2
  <2>8. OutcomeInv' /\ ErrorInv'
    BY <2>1, <2>3, <2>4, <2>5 DEF Rejects, Ends, Result, Terminal
  <2> QED BY <2>6, <2>7, <2>8
<1> QED BY <1>1, <1>2, <1>3, <1>4

\* The outcome is recorded, or the body of the claim is left by an exception.
LEMMA OutcomeSteps ==
  ASSUME IInv, SettleExecution \/ OutcomeRecorded \/ OutcomeFails \/ Stopped
  PROVE  IInv'
<1> USE DEF IInv, CoroutineInv, ConnectionInv, WaitedInv, OutcomeInv, ErrorInv,
            DatabaseTroubleNeverRejects, store, session, submissions, run, settling, Commits,
            Trouble, Answered, Moves
<1>1. CASE SettleExecution
  <2> USE <1>1 DEF SettleExecution, AskLock
  <2>1. ShapeInv' /\ WaitedInv'
    BY DEF ShapeInv, Table, Visible
  <2>2. CoroutineInv' /\ ConnectionInv' /\ OutcomeInv' /\ ErrorInv'
    OBVIOUS
  <2> QED BY <2>1, <2>2
<1>2. CASE OutcomeRecorded
  <2> USE <1>2 DEF OutcomeRecorded, RecordOutcome, Leaves
  <2>1. ShapeInv' /\ WaitedInv'
    BY DEF ShapeInv, Table, Visible
  <2>2. CoroutineInv' /\ ConnectionInv' /\ OutcomeInv' /\ ErrorInv'
    OBVIOUS
  <2> QED BY <2>1, <2>2
<1>3. CASE OutcomeFails
  <2> USE <1>3 DEF OutcomeFails, StatementFails, Refused, Leaves
  <2>1. ShapeInv' /\ WaitedInv'
    BY DEF ShapeInv, Table, Visible
  <2>2. CoroutineInv' /\ ConnectionInv' /\ OutcomeInv' /\ ErrorInv'
    OBVIOUS
  <2> QED BY <2>1, <2>2
<1>4. CASE Stopped
  <2>1. /\ body # "none" /\ Leaves(TRUE)
        /\ UNCHANGED <<row, db, finished, pending, flushing, program, settling, run, result>>
    BY <1>4 DEF Stopped
  <2>2. \/ UNCHANGED <<busy, mine, drawn, tx>>
        \/ busy /\ busy' = FALSE /\ UNCHANGED <<mine, drawn>>
        \/ /\ busy /\ busy' = FALSE /\ UNCHANGED tx /\ drawn' \in {drawn, result}
           /\ mine' = Inserted(Head(lock).ids, Head(lock).fp)
    BY <1>4 DEF Stopped
  <2>3. Table(mine)'
    BY <2>1, <2>2, InsertedTable DEF ShapeInv, Table
  <2>4. ShapeInv'
    BY <2>1, <2>3 DEF ShapeInv, Table
  <2>5. CoroutineInv' /\ ConnectionInv' /\ WaitedInv' /\ OutcomeInv' /\ ErrorInv'
    BY <2>1, <2>2 DEF Leaves
  <2> QED BY <2>4, <2>5
<1> QED BY <1>1, <1>2, <1>3, <1>4

\* The claim ends: its batch is cancelled, its transaction is committed, rolled
\* back or lost, and its connection goes back.
LEMMA EndSteps ==
  ASSUME IInv, EndOfClaim
  PROVE  IInv'
<1> USE DEF IInv, CoroutineInv, ConnectionInv, WaitedInv, OutcomeInv, ErrorInv,
            DatabaseTroubleNeverRejects, store, session, submissions, run, bodyVars, settling,
            Commits,
            Moves
<1>1. Table(Nothing)
  BY DEF Table, Nothing, Absent, Promise
<1>2. NoResult.error = "none"
  BY DEF NoResult, Result
<1>3. UNCHANGED <<attempt, stage, index, memo, history, body, result, program, settling>>
  BY DEF EndOfClaim
<1>4. CASE CancelSubmissions
  <2> USE <1>4 DEF CancelSubmissions
  <2>1. ShapeInv' /\ WaitedInv'
    BY <1>3 DEF ShapeInv, Table, Visible
  <2>2. CoroutineInv' /\ ConnectionInv' /\ OutcomeInv' /\ ErrorInv'
    BY <1>3
  <2> QED BY <2>1, <2>2
<1>5. CASE CommitTransaction \/ CommitLost
  <2>1. /\ claim = "ending" /\ claim' = "releasing" /\ Commits /\ tx = "open" /\ ~busy
        /\ mine' = Nothing /\ drawn' = NoResult
        /\ UNCHANGED <<finished, pending, flushing, lock, busy>>
    BY <1>5 DEF CommitTransaction, CommitLost
  <2>2. \/ UNCHANGED <<row, db>>
        \/ /\ row' = Recorded(drawn)
           /\ db' = [i \in Ids |-> IF mine[i] # Absent THEN mine[i] ELSE db[i]]
    BY <1>5 DEF CommitTransaction, CommitLost
  <2>3. Moves(drawn)
    BY <2>1
  <2>4. row'.waits \subseteq Ids /\ row'.failures \in Nat
    BY <2>2, <2>3 DEF Recorded, ShapeInv
  <2>5. row'.error # "database"
    <3>1. CASE UNCHANGED row
      BY <3>1
    <3>2. CASE row' = Recorded(drawn)
      <4>1. row'.error \in {drawn.error, "none"}
        BY <3>2 DEF Recorded
      <4> QED BY <4>1
    <3> QED BY <2>2, <3>1, <3>2
  <2>6. Table(db)'
    <3>1. CASE UNCHANGED db
      BY <3>1 DEF ShapeInv, Table
    <3>2. CASE db' = [i \in Ids |-> IF mine[i] # Absent THEN mine[i] ELSE db[i]]
      <4>1. \A i \in Ids : db'[i].stamp \in Nat
        BY <3>2 DEF ShapeInv, Table
      <4>2. db' = [i \in Ids |-> db'[i]]
        BY <3>2
      <4> QED BY <4>1, <4>2 DEF Table
    <3> QED BY <2>2, <3>1, <3>2
  <2>7. Table(mine)' /\ Table(memo)'
    BY <1>1, <1>3, <2>1 DEF ShapeInv, Table
  <2>8. ShapeInv'
    BY <1>3, <2>4, <2>6, <2>7 DEF ShapeInv
  <2>9. CoroutineInv' /\ ConnectionInv' /\ WaitedInv'
    BY <1>3, <2>1
  <2>10. OutcomeInv' /\ ErrorInv'
    BY <1>2, <1>3, <2>1, <2>5
  <2> QED BY <2>8, <2>9, <2>10
<1>6. CASE RollBack \/ TransactionRefused \/ ReleaseConnection \/ StatementDies
  <2>1. /\ claim' \in {"releasing", "idle"} /\ claim \in {"ending", "releasing", "idle"}
        /\ \/ UNCHANGED <<mine, drawn>>
           \/ mine' = Nothing /\ drawn' = NoResult
        /\ UNCHANGED <<row, db, finished, pending, flushing>>
    BY <1>6 DEF RollBack, TransactionRefused, ReleaseConnection, StatementDies
  <2>2. busy' => /\ busy
               /\ \/ tx' = tx /\ claim # "idle" /\ claim' # "idle"
                  \/ tx' = "none" /\ claim' = "idle"
    BY <1>6 DEF RollBack, TransactionRefused, ReleaseConnection, StatementDies
  <2>3. ShapeInv'
    BY <1>1, <1>3, <2>1 DEF ShapeInv, Table
  <2>4. CoroutineInv' /\ ConnectionInv' /\ WaitedInv'
    <3>1. body = "none" /\ body' = "none"
      BY <1>3, <2>1
    <3>2. ConnectionInv'
      <4>1. busy' => (tx' = "open" /\ ~finished') \/ claim' = "idle"
        BY <2>1, <2>2
      <4>2. ~flushing' /\ pending' = NoCalls
        BY <2>1
      <4>3. claim' = "idle" => tx' = "none"
        BY <1>6, <2>1 DEF RollBack, TransactionRefused, ReleaseConnection, StatementDies
      <4> QED BY <2>1, <4>1, <4>2, <4>3
    <3> QED BY <2>1, <3>1, <3>2
  <2>5. OutcomeInv' /\ ErrorInv'
    BY <1>2, <1>3, <2>1
  <2> QED BY <2>3, <2>4, <2>5
<1> QED BY <1>4, <1>5, <1>6 DEF EndOfClaim

\* A settlement takes its time.
LEMMA StampSteps ==
  ASSUME IInv, NEW i \in Ids, ChildStamps(i)
  PROVE  IInv'
<1>1. PICK lapse \in Lapses : clock' = clock + lapse /\ stamps' = [stamps EXCEPT ![i] = clock']
  BY DEF ChildStamps
<1>2. UNCHANGED <<row, db, mine, drawn, tx, claim, raised, finished, pending, flushing, lock,
                  busy, body, stage, index, memo, result, program, contested>>
  BY DEF ChildStamps, executionVars, bodyVars, run
<1>3. lapse \in Nat
  BY ReplayAssumption
<1>4. clock' \in Nat \ {0} /\ stamps' \in [Ids -> 0..clock']
  <2>1. clock' \in Nat \ {0} /\ clock <= clock' /\ clock \in Nat
    BY <1>1, <1>3 DEF IInv, ShapeInv
  <2>2. \A j \in Ids : stamps[j] \in 0..clock
    BY DEF IInv, ShapeInv
  <2>3. \A j \in Ids : stamps'[j] \in 0..clock'
    BY <1>1, <2>1, <2>2 DEF IInv, ShapeInv
  <2>4. stamps' = [j \in Ids |-> stamps'[j]]
    BY <1>1 DEF IInv, ShapeInv
  <2> QED BY <2>1, <2>3, <2>4
<1>5. ShapeInv'
  BY <1>2, <1>4 DEF IInv, ShapeInv, Table
<1>6. WaitedInv'
  BY <1>2 DEF IInv, WaitedInv, Visible
<1>7. CoroutineInv' /\ ConnectionInv' /\ OutcomeInv' /\ ErrorInv'
  BY <1>2 DEF IInv, CoroutineInv, ConnectionInv, OutcomeInv, ErrorInv, Commits, Moves,
              DatabaseTroubleNeverRejects
<1> QED BY <1>5, <1>6, <1>7 DEF IInv

\* A child settles.
LEMMA ChildSteps ==
  ASSUME IInv, NEW i \in Ids, ChildSettles(i)
  PROVE  IInv'
<1>1. PICK state \in Terminal : db' = [db EXCEPT ![i] = Promise(state, @.fp, stamps[i])]
  BY DEF ChildSettles
<1>2. /\ UNCHANGED <<row, mine, drawn, tx, claim, raised, finished, pending, flushing, lock,
                     busy, body, stage, index, memo, result, program, clock>>
      /\ stamps' = [stamps EXCEPT ![i] = 0] /\ contested' = (contested \/ Contests(i))
  BY DEF ChildSettles, session, submissions, bodyVars, run
<1>3. \A j \in Ids : db'[j] = IF j = i THEN Promise(state, db[i].fp, stamps[i]) ELSE db[j]
  BY <1>1 DEF IInv, ShapeInv, Table
<1>4. /\ Promise(state, db[i].fp, stamps[i]).state = state
      /\ Promise(state, db[i].fp, stamps[i]).stamp = stamps[i]
  BY DEF Promise
<1>5. ShapeInv'
  <2>1. db' = [j \in Ids |-> db'[j]]
    BY <1>1 DEF IInv, ShapeInv, Table
  <2>2. stamps[i] \in Nat /\ clock \in Nat
    BY DEF IInv, ShapeInv
  <2>3. \A j \in Ids : db'[j].stamp \in Nat
    BY <1>3, <1>4, <2>2 DEF IInv, ShapeInv, Table
  <2>4. stamps' \in [Ids -> 0..clock']
    BY <1>2, <2>2 DEF IInv, ShapeInv
  <2>5. contested' \in BOOLEAN
    BY <1>2, Zenon
  <2> QED BY <1>2, <2>1, <2>3, <2>4, <2>5 DEF IInv, ShapeInv, Table
<1>6. WaitedInv'
  <2>1. \A j \in Ids : Visible(j).state \in Terminal => Visible(j)'.state \in Terminal
    BY <1>2, <1>3, <1>4 DEF Visible
  <2> QED BY <1>2, <2>1 DEF IInv, ShapeInv, WaitedInv
<1>7. CoroutineInv' /\ ConnectionInv' /\ OutcomeInv' /\ ErrorInv'
  BY <1>2 DEF IInv, CoroutineInv, ConnectionInv, OutcomeInv, ErrorInv, Commits, Moves,
              DatabaseTroubleNeverRejects
<1> QED BY <1>5, <1>6, <1>7 DEF IInv

\* Steps in which nothing happens.
LEMMA StutterSteps ==
  ASSUME IInv, UNCHANGED vars
  PROVE  IInv'
<1>1. UNCHANGED <<row, db, mine, drawn, tx, claim, raised, finished, pending, flushing, lock,
                  busy, body, stage, index, memo, result, program, settling>>
  BY DEF vars, executionVars, bodyVars, run
<1>2. ShapeInv'
  BY <1>1 DEF IInv, ShapeInv, Table, settling
<1>3. WaitedInv'
  BY <1>1 DEF IInv, WaitedInv, Visible
<1>4. CoroutineInv' /\ ConnectionInv' /\ OutcomeInv' /\ ErrorInv'
  BY <1>1 DEF IInv, CoroutineInv, ConnectionInv, OutcomeInv, ErrorInv, Commits, Moves,
              DatabaseTroubleNeverRejects
<1> QED BY <1>2, <1>3, <1>4 DEF IInv

\* Every step keeps the invariant.
LEMMA StepInv == IInv /\ [Next]_vars => IInv'
<1> SUFFICES ASSUME IInv, [Next]_vars PROVE IInv'
  OBVIOUS
<1>1. CASE Claim \/ NoClaim \/ FunctionUnavailable
  BY <1>1, ClaimSteps
<1>2. CASE StartCalls \/ StartSleep \/ Raises \/ Evaluate \/ TimesOut
  BY <1>2, FunctionSteps
<1>3. CASE Flush \/ Send \/ \E op \in {"submit", "timer"} :
             PromisesArrive(op) \/ PromisesFail(op) \/ PromisesRefused(op)
  BY <1>3, StatementSteps
<1>4. CASE SettleExecution \/ OutcomeRecorded \/ OutcomeFails \/ Stopped
  BY <1>4, OutcomeSteps
<1>5. CASE EndOfClaim
  BY <1>5, EndSteps
<1>6. CASE \E i \in Ids : Child(i)
  BY <1>6, StampSteps, ChildSteps DEF Child
<1>7. CASE UNCHANGED vars
  BY <1>7, StutterSteps
<1> QED BY <1>1, <1>2, <1>3, <1>4, <1>5, <1>6, <1>7 DEF Next, Worker

-----------------------------------------------------------------------------
(* Theorems                                                                  *)

\* The inductive invariant holds in every reachable state: it ties the coroutine
\* of a function to its claim, its transaction and its memo.
THEOREM Invariance == Spec => []IInv
<1> QED BY InitInv, StepInv, PTL DEF Spec

\* An outcome that was recorded can be committed: no statement is on its way, and no
\* batch of the execution can have failed the transaction after it.  (ensure_open,
\* operation_lock, TaskClaim.__aexit__.)
THEOREM OutcomesCommittable == Spec => []OutcomeCommittable
<1>1. IInv => OutcomeCommittable
  BY DEF IInv, ConnectionInv, OutcomeCommittable, Commits
<1> QED BY <1>1, Invariance, PTL

\* What the database does wrong never becomes the error of a rejected task.
\* (execute, settle_execution.)
THEOREM DatabaseTroubleIsRetried == Spec => []DatabaseTroubleNeverRejects
<1>1. IInv => DatabaseTroubleNeverRejects
  BY DEF IInv, ErrorInv
<1> QED BY <1>1, Invariance, PTL

\* After the outcome is recorded, the transaction inserts no child any more:
\* a statement of the task would have to be on its way.  (ensure_open.)
THEOREM OutcomeIsLast == Spec => NoChildAfterOutcome
<1>1. ASSUME IInv, [Next]_vars, finished, finished', tx = "open", tx' = "open"
      PROVE  mine' = mine
  <2>1. ~busy
    BY <1>1 DEF IInv, ConnectionInv
  <2>2. body = "none"
    BY <1>1 DEF IInv, CoroutineInv
  <2> USE <1>1, <2>1, <2>2 DEF store, session
  <2>3. CASE Claim \/ NoClaim \/ FunctionUnavailable
    BY <2>3 DEF Claim, ClaimTask, NoClaim, ClaimNothing, ClaimFails, FunctionUnavailable
  <2>4. CASE StartCalls \/ StartSleep \/ Raises \/ Evaluate \/ TimesOut
    BY <2>4 DEF StartCalls, StartSleep, Raises, Evaluate, TimesOut
  <2>5. CASE Flush \/ Send \/ \E op \in {"submit", "timer"} :
               PromisesArrive(op) \/ PromisesFail(op) \/ PromisesRefused(op)
    BY <2>5 DEF Flush, FlushSubmissions, Send, Sends, PromisesArrive, PromisesFail,
                PromisesRefused, Answered, StatementFails, Refused
  <2>6. CASE SettleExecution \/ OutcomeRecorded \/ OutcomeFails \/ Stopped
    BY <2>6 DEF SettleExecution, OutcomeRecorded, OutcomeFails, Stopped, RecordOutcome,
                Answered, StatementFails, Refused
  <2>7. CASE EndOfClaim
    BY <2>7 DEF EndOfClaim, CancelSubmissions, CommitTransaction, CommitLost, RollBack,
                TransactionRefused, ReleaseConnection, StatementDies
  <2>8. CASE \E i \in Ids : Child(i)
    BY <2>8 DEF Child, ChildStamps, ChildSettles, executionVars
  <2>9. CASE UNCHANGED vars
    BY <2>9 DEF vars, executionVars
  <2> QED BY <2>3, <2>4, <2>5, <2>6, <2>7, <2>8, <2>9 DEF Next, Worker
<1>2. IInv /\ [Next]_vars =>
        [finished /\ finished' /\ tx = "open" /\ tx' = "open" => mine' = mine]_vars
  BY <1>1
<1> QED BY <1>2, Invariance, PTL DEF Spec, NoChildAfterOutcome

\* The children a function has asked for become visible in the step that commits
\* an outcome which changes the row of its task: a suspension waits for something
\* the task has not waited for, a retry counts, and all else settles the task.
\* (invoke, gather, first, settle_execution, finish_transaction.)
THEOREM OutcomeBringsChildren == Spec => ChildrenComeWithOutcome
<1>1. ASSUME IInv, [Next]_vars, NEW i \in Ids, db[i] = Absent, db'[i] # Absent
      PROVE  finished /\ row' # row
  <2>1. CommitTransaction \/ CommitLost
    <3> USE <1>1 DEF store
    <3>1. CASE Claim \/ NoClaim \/ FunctionUnavailable
      BY <3>1 DEF Claim, ClaimTask, NoClaim, ClaimNothing, ClaimFails, FunctionUnavailable
    <3>2. CASE StartCalls \/ StartSleep \/ Raises \/ Evaluate \/ TimesOut
      BY <3>2 DEF StartCalls, StartSleep, Raises, Evaluate, TimesOut, executionVars
    <3>3. CASE Flush \/ Send \/ \E op \in {"submit", "timer"} :
                 PromisesArrive(op) \/ PromisesFail(op) \/ PromisesRefused(op)
      BY <3>3 DEF Flush, FlushSubmissions, Send, Sends, PromisesArrive, PromisesFail,
                  PromisesRefused, StatementFails, Refused
    <3>4. CASE SettleExecution \/ OutcomeRecorded \/ OutcomeFails \/ Stopped
      BY <3>4 DEF SettleExecution, OutcomeRecorded, OutcomeFails, Stopped, RecordOutcome,
                  StatementFails, Refused
    <3>5. CASE EndOfClaim
      BY <3>5 DEF EndOfClaim, CancelSubmissions, RollBack, TransactionRefused,
                  ReleaseConnection, StatementDies
    <3>6. ASSUME NEW j \in Ids, ChildSettles(j) PROVE FALSE
      <4>1. db[j].state = "pending"
        BY <3>6 DEF ChildSettles
      <4>2. Absent.state = "absent"
        BY DEF Absent, Promise
      <4>3. i # j
        BY <4>1, <4>2
      <4>4. db'[i] = db[i]
        <5>1. PICK state \in Terminal : db' = [db EXCEPT ![j] = Promise(state, @.fp, stamps[j])]
          BY <3>6 DEF ChildSettles
        <5> QED BY <4>3, <5>1 DEF IInv, ShapeInv, Table
      <4> QED BY <4>4
    <3>7. CASE UNCHANGED vars \/ \E j \in Ids : ChildStamps(j)
      BY <3>7 DEF vars, executionVars, ChildStamps
    <3> QED BY <3>1, <3>2, <3>3, <3>4, <3>5, <3>6, <3>7 DEF Next, Worker, Child
  <2>2. claim = "ending" /\ Commits /\ (row' = Recorded(drawn) \/ UNCHANGED <<row, db>>)
    BY <2>1 DEF CommitTransaction, CommitLost, store
  <2>3. row' = Recorded(drawn)
    BY <1>1, <2>2
  <2>4. Moves(drawn) /\ row.state = "pending" /\ row.failures \in Nat
    BY <1>1, <2>2 DEF IInv, OutcomeInv, ShapeInv
  <2>5. CASE drawn.state \in Terminal
    <3> DEFINE exhausted == drawn.state = "retry" /\ row.failures + 1 >= MaxFailures
    <3>1. row'.state = CASE drawn.state \in Terminal -> drawn.state
                         [] exhausted -> "rejected"
                         [] OTHER -> "pending"
      BY <2>3 DEF Recorded
    <3>2. row'.state = drawn.state
      <4>1. ~exhausted
        BY <2>5 DEF Terminal
      <4> HIDE DEF exhausted
      <4> QED BY <2>5, <3>1, <4>1
    <3> QED BY <2>2, <2>4, <2>5, <3>2 DEF Commits, Terminal
  <2>6. CASE drawn.state = "retry"
    <3>1. row'.failures = row.failures + 1
      BY <2>3, <2>6 DEF Recorded
    <3>2. row'.failures # row.failures
      BY <2>4, <3>1
    <3> QED BY <2>2, <3>2 DEF Commits
  <2>7. CASE drawn.state = "suspended"
    <3>1. row'.waits = row.waits \cup drawn.awaited
      BY <2>3 DEF Recorded
    <3>2. row'.waits # row.waits
      BY <2>4, <2>7, <3>1 DEF Moves
    <3> QED BY <2>2, <3>2 DEF Commits
  <2> QED BY <2>4, <2>5, <2>6, <2>7 DEF Moves
<1>2. IInv /\ [Next]_vars =>
        [\A i \in Ids : db[i] = Absent /\ db'[i] # Absent => finished /\ row' # row]_vars
  BY <1>1
<1> QED BY <1>2, Invariance, PTL DEF Spec, ChildrenComeWithOutcome

-----------------------------------------------------------------------------
(* Programs                                                                  *)

\* The stages of a function, and how many there are.
LEMMA ProgramShape ==
  ASSUME NEW p \in Programs
  PROVE  /\ Len(p) \in Nat \ {0}
         /\ \A s \in 1..Len(p) :
              p[s].calls \in Nat \ {0} /\ p[s].op \in {"gather", "first", "sleep"}
<1> DEFINE stages == [op : {"gather", "first", "sleep"}, calls : Nat \ {0}]
<1>1. p \in Seq(stages) /\ p # <<>>
  BY ReplayAssumption
<1>2. \A s \in 1..Len(p) : p[s] \in stages
  <2> HIDE DEF stages
  <2> QED BY <1>1
<1>3. Len(p) \in Nat \ {0}
  <2> HIDE DEF stages
  <2> QED BY <1>1
<1> QED BY <1>2, <1>3

\* The recursion of Before has a solution, for as many stages as one likes.
LEMMA CallsExist ==
  ASSUME NEW p, NEW k \in Nat
  PROVE  \E f : f = [n \in 1..k |-> IF n = 1 THEN 0 ELSE f[n - 1] + p[n - 1].calls]
<1> DEFINE Solved(m) ==
      \E f : f = [n \in 1..m |-> IF n = 1 THEN 0 ELSE f[n - 1] + p[n - 1].calls]
           failing == {m \in Nat : ~Solved(m)}
<1> SUFFICES ASSUME failing # {} PROVE FALSE
  OBVIOUS
<1>1. PICK m \in failing : \A n \in failing : m <= n
  <2>1. failing \subseteq Nat
    OBVIOUS
  <2> HIDE DEF failing
  <2> QED BY <2>1, LeastNatural
<1>2. m # 0
  <2>1. \A n \in 1..0 : FALSE
    OBVIOUS
  <2>2. <<>> = [n \in 1..0 |-> IF n = 1 THEN 0 ELSE <<>>[n - 1] + p[n - 1].calls]
    BY <2>1
  <2>3. Solved(0)
    BY <2>2
  <2> QED BY <2>3
<1>3. PICK f : f = [n \in 1..(m - 1) |-> IF n = 1 THEN 0 ELSE f[n - 1] + p[n - 1].calls]
  <2>1. m - 1 \in Nat /\ ~(m <= m - 1)
    BY <1>2
  <2>2. Solved(m - 1)
    BY <1>1, <2>1
  <2> QED BY <2>2
<1>4. \A n \in 1..(m - 1) : f[n] = IF n = 1 THEN 0 ELSE f[n - 1] + p[n - 1].calls
  BY <1>3
<1> DEFINE g == [n \in 1..m |-> IF n = m THEN IF m = 1 THEN 0 ELSE f[m - 1] + p[m - 1].calls
                               ELSE f[n]]
<1>5. ASSUME NEW n \in 1..m
      PROVE  g[n] = IF n = 1 THEN 0 ELSE g[n - 1] + p[n - 1].calls
  <2>1. CASE n = m
    BY <2>1, <1>2
  <2>2. CASE n # m
    <3>1. n \in 1..(m - 1) /\ n - 1 # m
      BY <2>2
    <3>2. n # 1 => n - 1 \in 1..(m - 1)
      BY <3>1
    <3> QED BY <1>4, <2>2, <3>1, <3>2
  <2> QED BY <2>1, <2>2
<1>6. g = [n \in 1..m |-> IF n = 1 THEN 0 ELSE g[n - 1] + p[n - 1].calls]
  BY <1>5
<1>7. Solved(m)
  <2> HIDE DEF g
  <2> QED BY <1>6
<1> QED BY <1>7

\* What Before counts.
LEMMA BeforeCounts ==
  ASSUME NEW p \in Programs
  PROVE  /\ Before(p)[1] = 0
         /\ \A s \in 1..Len(p) : Before(p)[s + 1] = Before(p)[s] + p[s].calls
<1> DEFINE calls == CHOOSE f : f = [n \in 1..(Len(p) + 1) |->
                                      IF n = 1 THEN 0 ELSE f[n - 1] + p[n - 1].calls]
<1>1. Before(p) = calls
  BY DEF Before
<1>2. Len(p) + 1 \in Nat
  BY ProgramShape
<1>3. calls = [n \in 1..(Len(p) + 1) |-> IF n = 1 THEN 0 ELSE calls[n - 1] + p[n - 1].calls]
  BY <1>2, CallsExist
<1> HIDE DEF calls
<1>4. calls[1] = 0
  BY <1>2, <1>3
<1>5. ASSUME NEW s \in 1..Len(p) PROVE calls[s + 1] = calls[s] + p[s].calls
  <2>1. s + 1 \in 1..(Len(p) + 1) /\ s + 1 # 1 /\ (s + 1) - 1 = s
    BY ProgramShape
  <2> QED BY <1>3, <2>1
<1> QED BY <1>1, <1>4, <1>5

\* Calls are counted upwards: those of a stage lie between its count and the
\* counts of all that come later.
LEMMA BeforeGrows ==
  ASSUME NEW p \in Programs, NEW s \in 1..(Len(p) + 1)
  PROVE  /\ Before(p)[s] \in Nat
         /\ \A r \in 1..(s - 1) : Before(p)[r] + p[r].calls <= Before(p)[s]
<1> DEFINE Grows(m) == /\ Before(p)[m] \in Nat
                       /\ \A r \in 1..(m - 1) : Before(p)[r] + p[r].calls <= Before(p)[m]
           failing == {m \in 1..(Len(p) + 1) : ~Grows(m)}
<1> SUFFICES ASSUME failing # {} PROVE FALSE
  OBVIOUS
<1>1. PICK m \in failing : \A n \in failing : m <= n
  <2>1. failing \subseteq Nat
    OBVIOUS
  <2> HIDE DEF failing
  <2> QED BY <2>1, LeastNatural
<1>2. CASE m = 1
  <2>1. Before(p)[1] = 0 /\ 1..(1 - 1) = {}
    BY BeforeCounts
  <2>2. Grows(1)
    BY <2>1
  <2> QED BY <1>2, <2>2
<1>3. CASE m # 1
  <2>1. PICK l \in 1..Len(p) : m = l + 1
    <3>1. m - 1 \in 1..Len(p) /\ m = (m - 1) + 1
      BY <1>3, ProgramShape
    <3> QED BY <3>1
  <2>2. Grows(l)
    <3>1. l \in 1..(Len(p) + 1) /\ ~(m <= l)
      BY <2>1, ProgramShape
    <3> QED BY <1>1, <3>1
  <2>3. Before(p)[m] = Before(p)[l] + p[l].calls
    BY <2>1, BeforeCounts
  <2>4. p[l].calls \in Nat \ {0}
    BY ProgramShape
  <2>50. Before(p)[l] \in Nat
    BY <2>2
  <2>5. ASSUME NEW r \in 1..(m - 1) PROVE Before(p)[r] + p[r].calls <= Before(p)[m]
    <3>1. CASE r = l
      BY <2>2, <2>3, <2>4, <3>1
    <3>2. CASE r # l
      <4>1. r \in 1..(l - 1)
        BY <2>1, <3>2
      <4>2. Before(p)[r] + p[r].calls <= Before(p)[l]
        BY <2>2, <4>1
      <4>3. r \in 1..Len(p) /\ r \in 1..(Len(p) + 1)
        BY <2>1, <4>1
      <4>4. Before(p)[r] \in Nat
        <5>1. Grows(r)
          BY <1>1, <2>1, <4>1, <4>3
        <5> QED BY <5>1
      <4>5. p[r].calls \in Nat
        BY <4>3, ProgramShape
      <4> HIDE DEF Grows, failing
      <4> QED BY <2>50, <2>3, <2>4, <4>2, <4>4, <4>5
    <3> QED BY <3>1, <3>2
  <2>6. Before(p)[m] \in Nat
    BY <2>2, <2>3, <2>4
  <2>7. Grows(m)
    BY <2>5, <2>6
  <2> QED BY <2>7
<1> QED BY <1>2, <1>3

\* Every call of a function has its number, and no two stages share one.
LEMMA StagesApart ==
  ASSUME program \in Programs, NEW s \in 1..Len(program)
  PROVE  /\ IdsOf(s) \subseteq Ids
         /\ \A r \in 1..Len(program) : \A i \in IdsOf(r) : i \in IdsOf(s) => r = s
<1>1. /\ Len(program) \in Nat \ {0}
      /\ \A r \in 1..Len(program) : program[r].calls \in Nat \ {0}
  BY ProgramShape
<1>2. \A r \in 1..(Len(program) + 1) : Before(program)[r] \in Nat
  BY BeforeGrows
<1>3. \A r \in 1..Len(program) : \A q \in 1..(r - 1) :
        Before(program)[q] + program[q].calls <= Before(program)[r]
  <2> TAKE r \in 1..Len(program)
  <2>1. r \in 1..(Len(program) + 1)
    BY <1>1
  <2> QED BY <2>1, BeforeGrows
<1>4. Before(program)[s] + program[s].calls <= Before(program)[Len(program) + 1]
  <2>1. Len(program) + 1 \in 1..(Len(program) + 1) /\ s \in 1..((Len(program) + 1) - 1)
    BY <1>1
  <2> QED BY <2>1, BeforeGrows
<1>5. Before(program)[Len(program) + 1] <= MaxChildren /\ MaxChildren \in Nat
  BY ReplayAssumption, ExecutionAssumption
<1>6. s \in 1..(Len(program) + 1) /\ Len(program) + 1 \in 1..(Len(program) + 1)
  BY <1>1
<1>7. Before(program)[s] \in Nat /\ Before(program)[Len(program) + 1] \in Nat
  BY <1>2, <1>6
<1>8. IdsOf(s) \subseteq Ids
  BY <1>1, <1>4, <1>5, <1>7 DEF IdsOf, Ids
<1>9. ASSUME NEW r \in 1..Len(program), NEW i \in IdsOf(r), i \in IdsOf(s), r # s PROVE FALSE
  <2>1. r \in 1..(Len(program) + 1) /\ (r \in 1..(s - 1) \/ s \in 1..(r - 1))
    BY <1>1, <1>9
  <2>2. Before(program)[r] \in Nat /\ program[r].calls \in Nat /\ program[s].calls \in Nat
    BY <1>1, <1>2, <2>1
  <2>3. \/ Before(program)[r] + program[r].calls <= Before(program)[s]
        \/ Before(program)[s] + program[s].calls <= Before(program)[r]
    BY <1>3, <2>1
  <2> QED BY <1>7, <1>9, <2>2, <2>3 DEF IdsOf
<1> QED BY <1>8, <1>9

-----------------------------------------------------------------------------
(* Types                                                                     *)

\* What the open transaction sees.
View == [i \in Ids |-> Visible(i)]

\* Two promises of the same first.
Rivals(i, k) ==
  \E s \in 1..Len(program) : program[s].op = "first" /\ i \in IdsOf(s) /\ k \in IdsOf(s)

\* The tables t became u: what there was is there, and what had settled stays.  As long
\* as no first is contested, its promises settle in the order of their times, and at
\* least a millisecond apart.
Later(t, u) ==
  /\ Table(u)
  /\ \A i \in Ids :
       /\ t[i] # Absent => u[i] # Absent /\ u[i].fp = t[i].fp
       /\ t[i].state \in Terminal => u[i] = t[i]
  /\ ~contested' =>
       \A i, k \in Ids :
         Rivals(i, k) /\ u[i].state \in Terminal /\ t[i].state \notin Terminal
                      /\ t[k].state \in Terminal
           => t[k].stamp + PerMilli <= u[i].stamp

\* A task keeps its function, and what was contested stays so.
LEMMA ProgramStays ==
  ASSUME [Next]_vars
  PROVE  program' = program /\ (contested => contested')
<1>1. ASSUME NEW i \in Ids, Child(i) PROVE program' = program /\ (contested => contested')
  <2>1. CASE ChildStamps(i)
    <3>1. program' = program /\ contested' = contested
      BY <2>1 DEF ChildStamps
    <3> QED BY <3>1
  <2>2. CASE ChildSettles(i)
    <3>1. program' = program /\ contested' = (contested \/ Contests(i))
      BY <2>2 DEF ChildSettles
    <3>2. contested => contested'
      <4> HIDE DEF Contests
      <4>1. contested' = (contested \/ Contests(i))
        BY <3>1
      <4> QED BY <4>1, Zenon
    <3> QED BY <3>1, <3>2
  <2> QED BY <1>1, <2>1, <2>2 DEF Child
<1>2. CASE UNCHANGED <<program, settling>>
  BY <1>2 DEF settling
<1>3. CASE Claim \/ NoClaim \/ FunctionUnavailable \/ StartCalls \/ StartSleep \/ Raises
           \/ Evaluate \/ TimesOut \/ Flush \/ Send
  BY <1>2, <1>3 DEF Claim, NoClaim, FunctionUnavailable, StartCalls, StartSleep, Raises,
                    Evaluate, TimesOut, Flush, Send
<1>4. ASSUME NEW op \in {"submit", "timer"},
             PromisesArrive(op) \/ PromisesFail(op) \/ PromisesRefused(op)
      PROVE  UNCHANGED <<program, settling>>
  BY <1>4 DEF PromisesArrive, PromisesFail, PromisesRefused
<1>5. CASE SettleExecution \/ OutcomeRecorded \/ OutcomeFails \/ Stopped \/ EndOfClaim
           \/ UNCHANGED vars
  BY <1>2, <1>5 DEF SettleExecution, OutcomeRecorded, OutcomeFails, Stopped, EndOfClaim, vars
<1> QED BY <1>1, <1>2, <1>3, <1>4, <1>5 DEF Next, Worker

\* The requests for operation_lock.
Requests == [op : {"submit", "timer", "settle"}, ids : SUBSET Ids, fp : Seq(Nat)]

\* The row of the task: as long as it is pending, another failure is allowed.
RowTypes ==
  /\ row.state \in {"pending"} \cup Terminal /\ row.waits \subseteq Ids
  /\ row.failures \in 0..MaxFailures
  /\ row.state = "pending" => row.failures < MaxFailures

\* Tables of promises.
TableTypes ==
  db \in [Ids -> Promises] /\ mine \in [Ids -> Promises] /\ memo \in [Ids -> Promises]

\* Variables that have one of a few values.
ModeTypes ==
  /\ tx \in {"none", "open", "failed", "lost"}
  /\ claim \in {"idle", "held", "exiting", "ending", "releasing"}
  /\ body \in {"none", "running", "calls", "timer", "over", "settling"}
  /\ raised \in BOOLEAN /\ finished \in BOOLEAN /\ flushing \in BOOLEAN /\ busy \in BOOLEAN
  /\ troubles \in 0..MaxTroubles
  /\ result.state \in {"none", "suspended", "retry"} \cup Terminal

\* Where the function is, and what it asks the database for.
RunTypes ==
  /\ stage \in 1..Len(program) /\ index = Before(program)[stage]
  /\ attempt \in Nat /\ history \in Seq(Nat)
  /\ pending.ids \subseteq Ids /\ pending.fp \in Seq(Nat)
  /\ lock \in Seq(Requests)
  /\ busy => lock # <<>>

\* The open transaction inserts what is not there, and takes it back when it is
\* not committed.
TableInv ==
  /\ claim = "idle" => mine = Nothing
  /\ \A i \in Ids :
       /\ db[i] # Absent => db[i].state \in {"pending"} \cup Terminal
       /\ mine[i] # Absent => mine[i].state = "pending" /\ db[i] = Absent

\* All of it.  With IInv and StampInv it is inductive.
TypeInv == RowTypes /\ TableTypes /\ ModeTypes /\ RunTypes /\ TableInv

\* The calls of the stage are those its number of calls says.
LEMMA StageNumbers ==
  ASSUME ShapeInv, RunTypes
  PROVE  /\ StageIds = IdsOf(stage) /\ StageIds \subseteq Ids /\ StageIds \subseteq Nat
         /\ Stage.calls \in Nat \ {0}
<1>1. StageIds = IdsOf(stage)
  BY DEF StageIds, IdsOf, Stage, RunTypes
<1>2. StageIds \subseteq Ids
  BY <1>1, StagesApart DEF ShapeInv
<1> QED BY <1>1, <1>2, StagesCall

\* A request that is withdrawn leaves the others.
LEMMA WithdrawnLeaves ==
  ASSUME NEW S, lock \in Seq(S), NEW op
  PROVE  /\ Withdrawn(op) \in Seq(S)
         /\ lock # <<>> /\ lock[1].op # op => Withdrawn(op) # <<>>
<1> DEFINE places == {n \in 1..Len(lock) : lock[n].op = op}
           n == CHOOSE n \in places : TRUE
<1>1. CASE places = {}
  BY <1>1 DEF Withdrawn
<1>2. CASE places # {}
  <2>1. n \in places
    BY <1>2
  <2>2. Withdrawn(op) = SubSeq(lock, 1, n - 1) \o SubSeq(lock, n + 1, Len(lock))
    BY <1>2 DEF Withdrawn
  <2>3. n \in 1..Len(lock) /\ lock[n].op = op /\ Len(lock) \in Nat
    BY <2>1
  <2> HIDE DEF n, places
  <2>4. /\ SubSeq(lock, 1, n - 1) \in Seq(S) /\ SubSeq(lock, n + 1, Len(lock)) \in Seq(S)
        /\ Len(SubSeq(lock, 1, n - 1)) = n - 1
    BY <2>3
  <2>5. Withdrawn(op) \in Seq(S)
    BY <2>2, <2>4
  <2>6. ASSUME lock[1].op # op PROVE Withdrawn(op) # <<>>
    <3>1. Len(SubSeq(lock, 1, n - 1)) >= 1
      BY <2>3, <2>4, <2>6
    <3>2. Len(Withdrawn(op)) >= 1
      BY <2>2, <2>4, <3>1
    <3> QED BY <3>2
  <2> QED BY <2>5, <2>6
<1> QED BY <1>1, <1>2

\* What a step does to the tables: nothing; it inserts for the holder of the lock;
\* it commits; it takes back what was not committed; or a child settles.
Inserts ==
  /\ UNCHANGED <<row, db>> /\ busy /\ (tx = "open" \/ body # "none")
  /\ mine' = Inserted(Head(lock).ids, Head(lock).fp)
Comes ==
  /\ claim = "ending" /\ claim' = "releasing" /\ Commits /\ lock = <<>>
  /\ row' = Recorded(drawn) /\ db' = View /\ mine' = Nothing /\ UNCHANGED lock
Drops ==
  /\ claim \in {"ending", "releasing"} /\ claim' \in {"releasing", "idle"} /\ tx' # "open"
  /\ mine' = Nothing /\ UNCHANGED <<row, db>>

\* Every step does one of these things to the tables.
LEMMA TableSteps ==
  ASSUME [Next]_vars
  PROVE  \/ UNCHANGED <<row, db, mine>>
         \/ Inserts \/ Comes \/ Drops
         \/ \E i \in Ids : ChildSettles(i)
<1> USE DEF store, session
<1>1. CASE Claim \/ NoClaim \/ FunctionUnavailable
  BY <1>1 DEF Claim, ClaimTask, NoClaim, ClaimNothing, ClaimFails, FunctionUnavailable
<1>2. CASE StartCalls \/ StartSleep \/ Raises \/ Evaluate
  BY <1>2 DEF StartCalls, StartSleep, Raises, Evaluate, executionVars
<1>3. CASE TimesOut
  BY <1>3 DEF TimesOut, Inserts
<1>4. CASE Flush \/ Send
  BY <1>4 DEF Flush, FlushSubmissions, Send, Sends
<1>5. ASSUME NEW op \in {"submit", "timer"}, PromisesArrive(op)
      PROVE  Inserts
  BY <1>5 DEF PromisesArrive, Answered, Inserts
<1>6. ASSUME NEW op \in {"submit", "timer"}, PromisesFail(op) \/ PromisesRefused(op)
      PROVE  UNCHANGED <<row, db, mine>>
  BY <1>6 DEF PromisesFail, PromisesRefused, StatementFails, Refused
<1>7. CASE SettleExecution \/ OutcomeRecorded \/ OutcomeFails
  BY <1>7 DEF SettleExecution, OutcomeRecorded, OutcomeFails, RecordOutcome, StatementFails,
              Refused
<1>8. CASE Stopped
  BY <1>8 DEF Stopped, Inserts
<1>9. CASE EndOfClaim
  <2>1. CASE CancelSubmissions \/ TransactionRefused \/ StatementDies
    BY <1>9, <2>1 DEF EndOfClaim, CancelSubmissions, TransactionRefused, StatementDies
  <2>2. CASE CommitTransaction \/ CommitLost
    <3>1. View = [i \in Ids |-> IF mine[i] # Absent THEN mine[i] ELSE db[i]]
      BY DEF View, Visible
    <3> QED BY <1>9, <2>2, <3>1
            DEF EndOfClaim, CommitTransaction, CommitLost, Comes, Drops, Settled
  <2>3. CASE RollBack \/ ReleaseConnection
    BY <1>9, <2>3 DEF EndOfClaim, RollBack, ReleaseConnection, Drops, Settled
  <2> QED BY <1>9, <2>1, <2>2, <2>3 DEF EndOfClaim
<1>10. CASE UNCHANGED vars \/ \E i \in Ids : ChildStamps(i)
  BY <1>10 DEF vars, executionVars, ChildStamps
<1> QED BY <1>1, <1>2, <1>3, <1>4, <1>5, <1>6, <1>7, <1>8, <1>9, <1>10 DEF Next, Worker, Child

\* The promises of a first that is not contested settle at least a millisecond apart.
StampInv ==
  ~contested =>
    \A i, k \in Ids :
      Rivals(i, k) /\ i # k /\ db[i].state \in Terminal /\ db[k].state \in Terminal
        => \/ db[i].stamp + PerMilli <= db[k].stamp
           \/ db[k].stamp + PerMilli <= db[i].stamp

\* What a transaction sees, in the states the tables can be in.
LEMMA ViewFacts ==
  ASSUME TableTypes, TableInv
  PROVE  /\ Table(db) /\ Table(View)
         /\ \A i \in Ids :
              /\ View[i] = IF mine[i] # Absent THEN mine[i] ELSE db[i]
              /\ View[i] # Absent => View[i].state \in {"pending"} \cup Terminal
              /\ View[i].state \in Terminal <=> db[i].state \in Terminal
              /\ db[i] # Absent => View[i] = db[i]
              /\ mine[i].state \notin Terminal /\ View[i] \in Promises
         /\ Absent.state = "absent"
<1>1. \A i \in Ids : View[i] = IF mine[i] # Absent THEN mine[i] ELSE db[i]
  BY DEF View, Visible
<1>2. Absent.state = "absent" /\ Absent.state \notin Terminal
  BY DEF Absent, Promise, Terminal
<1>3. \A i \in Ids : db[i] \in Promises /\ mine[i] \in Promises
  BY DEF TableTypes
<1>4. \A p \in Promises : p.stamp \in Nat
  BY DEF Promises
<1>5. Table(db)
  BY <1>3, <1>4 DEF TableTypes, Table
<1>6. Table(View)
  <2>1. \A i \in Ids : View[i].stamp \in Nat
    BY <1>1, <1>3, <1>4
  <2>2. View = [i \in Ids |-> View[i]]
    BY DEF View
  <2> QED BY <2>1, <2>2 DEF Table
<1>7. \A i \in Ids : mine[i].state \notin Terminal
  BY <1>2 DEF TableInv, Terminal
<1>8. ASSUME NEW i \in Ids
      PROVE  /\ View[i] # Absent => View[i].state \in {"pending"} \cup Terminal
             /\ View[i].state \in Terminal <=> db[i].state \in Terminal
             /\ db[i] # Absent => View[i] = db[i]
             /\ View[i] \in Promises
  <2>1. CASE mine[i] # Absent
    BY <1>1, <1>2, <1>3, <1>7, <2>1 DEF TableInv
  <2>2. CASE mine[i] = Absent
    BY <1>1, <1>2, <1>3, <2>2 DEF TableInv
  <2> QED BY <2>1, <2>2
<1> QED BY <1>1, <1>2, <1>5, <1>6, <1>7, <1>8

\* An insertion, in what the transaction sees.
LEMMA InsertsView ==
  ASSUME TableTypes, TableInv, NEW ids, NEW fp, mine' = Inserted(ids, fp), db' = db
  PROVE  /\ \A i \in Ids : /\ mine'[i] = IF i \in ids /\ View[i] = Absent
                                         THEN Promise("pending", fp, 0) ELSE mine[i]
                           /\ View'[i] = IF i \in ids /\ View[i] = Absent
                                         THEN Promise("pending", fp, 0) ELSE View[i]
         /\ Later(View, View')
         /\ Promise("pending", fp, 0).state = "pending" /\ Promise("pending", fp, 0).fp = fp
         /\ Promise("pending", fp, 0) # Absent
<1> DEFINE new == Promise("pending", fp, 0)
<1>1. /\ new.state = "pending" /\ new.fp = fp /\ new # Absent
      /\ Absent.state \notin Terminal /\ new.state \notin Terminal
  <2>1. new.state = "pending" /\ Absent.state = "absent"
    BY DEF Promise, Absent
  <2> QED BY <2>1 DEF Promise, Terminal
<1> HIDE DEF new
<1>2. \A i \in Ids : /\ View[i] = IF mine[i] # Absent THEN mine[i] ELSE db[i]
                     /\ View'[i] = IF mine'[i] # Absent THEN mine'[i] ELSE db[i]
                     /\ mine'[i] = IF i \in ids /\ View[i] = Absent THEN new ELSE mine[i]
  BY DEF View, Visible, Inserted, new
<1>3. \A i \in Ids : View'[i] = IF i \in ids /\ View[i] = Absent THEN new ELSE View[i]
  BY <1>1, <1>2
<1>4. Table(View')
  <2>1. View' = [i \in Ids |-> View'[i]]
    BY DEF View
  <2>2. new.stamp = 0
    BY DEF new, Promise
  <2>3. \A i \in Ids : View[i].stamp \in Nat
    BY ViewFacts DEF Table
  <2>4. \A i \in Ids : View'[i].stamp \in Nat
    BY <1>3, <2>2, <2>3
  <2> QED BY <2>1, <2>4 DEF Table
<1>5. Later(View, View')
  BY <1>1, <1>3, <1>4 DEF Later
<1> QED BY <1>1, <1>2, <1>3, <1>5 DEF new

\* A child that settles, in what the transaction sees.
LEMMA ChildView ==
  ASSUME IInv, TableTypes, TableInv, NEW i \in Ids, ChildSettles(i)
  PROVE  /\ \E state \in Terminal : \A j \in Ids :
              /\ db'[j] = IF j = i THEN Promise(state, db[i].fp, stamps[i]) ELSE db[j]
              /\ View'[j] = IF j = i THEN Promise(state, db[i].fp, stamps[i]) ELSE View[j]
         /\ db[i].state = "pending" /\ View[i] = db[i] /\ db' = [j \in Ids |-> db'[j]]
         /\ stamps[i] \in Nat
         /\ ~contested' => \A k \in Ids : Rivals(i, k) /\ db[k].state \in Terminal
                                           => db[k].stamp + PerMilli <= stamps[i]
         /\ Later(db, db') /\ Later(View, View')
<1>1. PICK state \in Terminal : db' = [db EXCEPT ![i] = Promise(state, @.fp, stamps[i])]
  BY DEF ChildSettles
<1> DEFINE new == Promise(state, db[i].fp, stamps[i])
<1>2. /\ new.state = state /\ new.fp = db[i].fp /\ new.stamp = stamps[i]
      /\ Absent.state \notin Terminal /\ db[i].state = "pending" /\ Absent.state = "absent"
  BY DEF Promise, Absent, Terminal, ChildSettles
<1>3. \A j \in Ids : db'[j] = IF j = i THEN new ELSE db[j]
  BY <1>1 DEF TableTypes
<1>30. db' = [j \in Ids |-> db'[j]]
  BY <1>1 DEF TableTypes
<1> HIDE DEF new
<1>4. mine' = mine /\ contested' = (contested \/ Contests(i))
  BY DEF ChildSettles, session
<1>5. new # Absent /\ db[i] # Absent /\ mine[i] = Absent
  BY <1>2 DEF TableInv
<1>6. \A j \in Ids : /\ View[j] = IF mine[j] # Absent THEN mine[j] ELSE db[j]
                     /\ View'[j] = IF mine[j] # Absent THEN mine[j] ELSE db'[j]
  BY <1>4 DEF View, Visible
<1>7. View[i] = db[i] /\ \A j \in Ids : View'[j] = IF j = i THEN new ELSE View[j]
  BY <1>3, <1>5, <1>6
<1>8. stamps[i] \in Nat /\ PerMilli \in Nat /\ \A k \in Ids : db[k].stamp \in Nat
  BY ReplayAssumption DEF IInv, ShapeInv, Table
<1>9. ASSUME ~contested', NEW k \in Ids, Rivals(i, k), db[k].state \in Terminal
      PROVE  db[k].stamp + PerMilli <= stamps[i]
  <2>1. ~Contests(i)
    BY <1>4, <1>9
  <2>2. ~(stamps[i] < db[k].stamp + PerMilli)
    BY <1>9, <2>1 DEF Contests, Rivals
  <2> QED BY <1>8, <2>2
<1>10. \A k \in Ids : View[k].state \in Terminal => db[k].state \in Terminal /\ View[k] = db[k]
  BY ViewFacts DEF Terminal
<1>11. db[i].state \notin Terminal /\ View[i].state \notin Terminal
  BY <1>2, <1>7 DEF Terminal
<1>12. Later(db, db')
  <2>1. \A j \in Ids : /\ db[j] # Absent => db'[j] # Absent /\ db'[j].fp = db[j].fp
                       /\ db[j].state \in Terminal => db'[j] = db[j]
    BY <1>2, <1>3, <1>5, <1>11
  <2>2. ASSUME ~contested', NEW j \in Ids, NEW k \in Ids, Rivals(j, k),
               db'[j].state \in Terminal, db[j].state \notin Terminal, db[k].state \in Terminal
        PROVE  db[k].stamp + PerMilli <= db'[j].stamp
    <3>1. j = i
      BY <1>3, <2>2
    <3> QED BY <1>2, <1>3, <1>9, <2>2, <3>1
  <2>3. Table(db')
    <3>1. \A j \in Ids : db'[j].stamp \in Nat
      BY <1>2, <1>3, <1>8
    <3> QED BY <1>30, <3>1 DEF Table
  <2> QED BY <2>1, <2>2, <2>3 DEF Later
<1>13. Later(View, View')
  <2>1. \A j \in Ids : /\ View[j] # Absent => View'[j] # Absent /\ View'[j].fp = View[j].fp
                       /\ View[j].state \in Terminal => View'[j] = View[j]
    BY <1>2, <1>5, <1>7, <1>11
  <2>2. ASSUME ~contested', NEW j \in Ids, NEW k \in Ids, Rivals(j, k),
               View'[j].state \in Terminal, View[j].state \notin Terminal,
               View[k].state \in Terminal
        PROVE  View[k].stamp + PerMilli <= View'[j].stamp
    <3>1. j = i
      BY <1>7, <2>2
    <3> QED BY <1>2, <1>7, <1>9, <1>10, <2>2, <3>1
  <2>3. Table(View')
    <3>1. View' = [j \in Ids |-> View'[j]]
      BY DEF View
    <3>2. \A j \in Ids : View[j].stamp \in Nat
      BY ViewFacts DEF Table
    <3>3. \A j \in Ids : View'[j].stamp \in Nat
      BY <1>2, <1>7, <1>8, <3>2
    <3> QED BY <3>1, <3>3 DEF Table
  <2> QED BY <2>1, <2>2, <2>3 DEF Later
<1>14. \A j \in Ids : /\ db'[j] = IF j = i THEN new ELSE db[j]
                      /\ View'[j] = IF j = i THEN new ELSE View[j]
  BY <1>3, <1>7
<1> QED BY <1>2, <1>30, <1>7, <1>8, <1>9, <1>12, <1>13, <1>14 DEF new

\* The tables only grow, and what has settled stays.  What is taken back was seen
\* by a transaction that is over.
LEMMA TablesGrow ==
  ASSUME IInv, TableTypes, TableInv, [Next]_vars
  PROVE  Later(db, db') /\ (Drops \/ Later(View, View'))
<1>1. Later(db, db) /\ Later(View, View)
  BY ViewFacts DEF Later
<1>2. Later(db, View)
  BY ViewFacts DEF Later, Terminal
<1>3. CASE UNCHANGED <<row, db, mine>>
  <2>1. View' = View
    BY <1>3 DEF View, Visible
  <2> QED BY <1>1, <1>3, <2>1
<1>4. CASE Inserts
  BY <1>1, <1>4, InsertsView DEF Inserts
<1>5. CASE Comes
  <2>1. View' = View
    BY <1>5 DEF Comes, View, Visible, Nothing
  <2> QED BY <1>1, <1>2, <1>5, <2>1 DEF Comes
<1>6. CASE Drops
  BY <1>1, <1>6 DEF Drops
<1>7. CASE \E i \in Ids : ChildSettles(i)
  BY <1>7, ChildView
<1> QED BY <1>3, <1>4, <1>5, <1>6, <1>7, TableSteps

\* A claim is idle when it was or when its connection has gone back.
LEMMA IdleSteps ==
  ASSUME ModeTypes, [Next]_vars, claim' = "idle"
  PROVE  claim = "idle" \/ mine' = Nothing
<1> USE DEF store, session, ModeTypes
<1>1. CASE Claim \/ NoClaim \/ FunctionUnavailable
  BY <1>1 DEF Claim, ClaimTask, NoClaim, ClaimNothing, ClaimFails, FunctionUnavailable
<1>2. CASE StartCalls \/ StartSleep \/ Raises \/ Evaluate \/ TimesOut
  BY <1>2 DEF StartCalls, StartSleep, Raises, Evaluate, executionVars, TimesOut
<1>3. CASE Flush \/ Send
  BY <1>3 DEF Flush, FlushSubmissions, Send, Sends
<1>4. ASSUME NEW op \in {"submit", "timer"},
             PromisesArrive(op) \/ PromisesFail(op) \/ PromisesRefused(op)
      PROVE  claim' = claim
  BY <1>4 DEF PromisesArrive, PromisesFail, PromisesRefused
<1>5. CASE SettleExecution \/ OutcomeRecorded \/ OutcomeFails \/ Stopped
  BY <1>5 DEF SettleExecution, OutcomeRecorded, OutcomeFails, Stopped, Leaves
<1>6. CASE EndOfClaim
  BY <1>6 DEF EndOfClaim, CancelSubmissions, TransactionRefused, CommitTransaction, CommitLost,
              RollBack, ReleaseConnection, StatementDies
<1>7. CASE \E i \in Ids : Child(i)
  BY <1>7 DEF Child, ChildStamps, ChildSettles, executionVars
<1>8. CASE UNCHANGED vars
  BY <1>8 DEF vars, executionVars
<1> QED BY <1>1, <1>2, <1>3, <1>4, <1>5, <1>6, <1>7, <1>8 DEF Next, Worker

\* The row of the task keeps its type: the last attempt that is allowed rejects it.
LEMMA RowSteps ==
  ASSUME IInv, RowTypes, [Next]_vars
  PROVE  RowTypes'
<1>1. CASE UNCHANGED row
  BY <1>1 DEF RowTypes
<1>2. CASE Comes
  <2>1. row' = Recorded(drawn) /\ Moves(drawn) /\ row.state = "pending"
    BY <1>2 DEF Comes, IInv, OutcomeInv
  <2>2. row'.waits = row.waits \cup drawn.awaited
    BY <2>1 DEF Recorded
  <2>3. row'.failures = IF drawn.state = "retry" THEN row.failures + 1 ELSE row.failures
    BY <2>1 DEF Recorded
  <2>4. row'.state = CASE drawn.state \in Terminal -> drawn.state
                       [] drawn.state = "retry" /\ row.failures + 1 >= MaxFailures -> "rejected"
                       [] OTHER -> "pending"
    BY <2>1 DEF Recorded
  <2>5. row.failures \in Nat /\ row.failures < MaxFailures /\ MaxFailures \in Nat
    BY <2>1, ExecutionAssumption DEF RowTypes
  <2>6. CASE drawn.state \in Terminal
    <3>1. row'.state = drawn.state /\ drawn.state # "retry" /\ drawn.state # "pending"
      BY <2>4, <2>6 DEF Terminal
    <3> QED BY <2>1, <2>2, <2>3, <2>5, <2>6, <3>1 DEF RowTypes, Moves
  <2>7. CASE drawn.state = "retry" /\ row.failures + 1 >= MaxFailures
    <3>1. row'.state = "rejected"
      BY <2>4, <2>7 DEF Terminal
    <3> QED BY <2>1, <2>2, <2>3, <2>5, <2>7, <3>1 DEF RowTypes, Moves, Terminal
  <2>8. CASE /\ drawn.state \notin Terminal
             /\ ~(drawn.state = "retry" /\ row.failures + 1 >= MaxFailures)
    <3>1. row'.state = "pending"
      BY <2>4, <2>8
    <3> QED BY <2>1, <2>2, <2>3, <2>5, <2>8, <3>1 DEF RowTypes, Moves
  <2> QED BY <2>6, <2>7, <2>8
<1>3. CASE \E i \in Ids : ChildSettles(i)
  BY <1>1, <1>3 DEF ChildSettles
<1> QED BY <1>1, <1>2, <1>3, TableSteps DEF Inserts, Drops

\* Who holds the lock has made a proper request.
LEMMA HolderTypes ==
  ASSUME RunTypes, lock # <<>>
  PROVE  Head(lock) \in Requests /\ Head(lock) = lock[1] /\ Tail(lock) \in Seq(Requests)
BY DEF RunTypes

\* The promises that are made.
LEMMA PromiseTypes ==
  /\ Absent \in Promises /\ Nothing \in [Ids -> Promises]
  /\ \A fp \in Seq(Nat) : Promise("pending", fp, 0) \in Promises
  /\ \A fp \in Seq(Nat) : \A state \in Terminal : \A n \in Nat : Promise(state, fp, n) \in Promises
<1>1. <<>> \in Seq(Nat)
  OBVIOUS
<1>2. Absent \in Promises
  BY <1>1 DEF Absent, Promise, Promises
<1> QED BY <1>2 DEF Promise, Promises, Nothing

\* Tables of promises stay what they are.
LEMMA TableTypesSteps ==
  ASSUME IInv, TypeInv, StampInv, [Next]_vars
  PROVE  TableTypes'
<1> USE DEF TypeInv
<1>1. View \in [Ids -> Promises]
  BY ViewFacts DEF View
<1>2. mine' \in [Ids -> Promises]
  <2>1. CASE mine' = mine \/ mine' = Nothing
    BY <2>1, PromiseTypes DEF TableTypes
  <2>2. CASE Inserts
    <3>1. Head(lock).fp \in Seq(Nat)
      BY <2>2, HolderTypes DEF Inserts, RunTypes, Requests
    <3>2. mine' = [i \in Ids |-> mine'[i]]
      BY <2>2 DEF Inserts, Inserted
    <3>3. \A i \in Ids : mine'[i] \in Promises
      BY <2>2, <3>1, PromiseTypes, InsertsView DEF Inserts, TableTypes
    <3> QED BY <3>2, <3>3
  <2>3. CASE \E i \in Ids : ChildSettles(i)
    BY <2>1, <2>3 DEF ChildSettles, session
  <2> QED BY <2>1, <2>2, <2>3, TableSteps DEF Comes, Drops
<1>3. db' \in [Ids -> Promises]
  <2>1. CASE db' = db \/ db' = View
    BY <1>1, <2>1 DEF TableTypes
  <2>2. ASSUME NEW i \in Ids, ChildSettles(i) PROVE db' \in [Ids -> Promises]
    <3>1. db' = [j \in Ids |-> db'[j]]
      BY <2>2, ChildView
    <3>2. PICK state \in Terminal : \A j \in Ids :
            db'[j] = IF j = i THEN Promise(state, db[i].fp, stamps[i]) ELSE db[j]
      BY <2>2, ChildView
    <3>3. db[i].fp \in Seq(Nat) /\ stamps[i] \in Nat
      BY <2>2, ChildView DEF TableTypes, Promises
    <3>4. \A j \in Ids : db'[j] \in Promises
      BY <3>2, <3>3, PromiseTypes DEF TableTypes
    <3> QED BY <3>1, <3>4
  <2> QED BY <2>1, <2>2, TableSteps DEF Inserts, Comes, Drops
<1>4. memo' \in [Ids -> Promises]
  <2>1. CASE memo' = memo
    BY <2>1 DEF TableTypes
  <2>2. CASE Claim
    <3>1. memo' = [i \in Ids |-> IF i \in row.waits THEN View[i] ELSE Absent]
      BY <2>2 DEF Claim, Preload, View
    <3> QED BY <1>1, <3>1, PromiseTypes
  <2>3. ASSUME NEW op \in {"submit", "timer"}, PromisesArrive(op) PROVE memo' \in [Ids -> Promises]
    <3> DEFINE q == Head(lock)
    <3>1. \/ memo' = memo
          \/ memo' = [i \in Ids |-> IF i \in q.ids
                                    THEN IF View[i] = Absent
                                         THEN Promise("pending", q.fp, 0) ELSE View[i]
                                    ELSE memo[i]]
      BY <2>3 DEF PromisesArrive, bodyVars, run, Rejects, Ends, View
    <3>2. q.fp \in Seq(Nat)
      BY <2>3, HolderTypes DEF PromisesArrive, Answered, Requests
    <3> HIDE DEF q
    <3> QED BY <1>1, <2>1, <3>1, <3>2, PromiseTypes DEF TableTypes
  <2>4. CASE NoClaim \/ FunctionUnavailable
    BY <2>1, <2>4 DEF NoClaim, bodyVars, run, FunctionUnavailable
  <2>5. CASE StartCalls \/ StartSleep \/ Raises \/ TimesOut
    BY <2>1, <2>5 DEF StartCalls, StartSleep, Raises, TimesOut, run, Retries, Ends
  <2>6. CASE Evaluate
    BY <2>1, <2>6 DEF Evaluate, TakesFirst, Gathers, GoesOn, Rejects, Suspends, Ends, run
  <2>7. CASE Flush \/ Send
    BY <2>1, <2>7 DEF Flush, Send, bodyVars, run
  <2>8. ASSUME NEW op \in {"submit", "timer"}, PromisesFail(op) \/ PromisesRefused(op)
        PROVE memo' = memo
    BY <2>8 DEF PromisesFail, PromisesRefused, bodyVars, run, Rejects, Ends
  <2>9. CASE SettleExecution \/ OutcomeRecorded \/ OutcomeFails \/ Stopped
    BY <2>1, <2>9 DEF SettleExecution, OutcomeRecorded, OutcomeFails, Stopped, run
  <2>10. CASE EndOfClaim
    BY <2>1, <2>10 DEF EndOfClaim, bodyVars, run
  <2>11. CASE \E i \in Ids : Child(i)
    BY <2>1, <2>11 DEF Child, ChildStamps, ChildSettles, bodyVars, run
  <2>12. CASE UNCHANGED vars
    BY <2>1, <2>12 DEF vars, bodyVars, run
  <2> QED BY <2>1, <2>2, <2>3, <2>4, <2>5, <2>6, <2>7, <2>8, <2>9, <2>10, <2>11, <2>12
          DEF Next, Worker
<1> QED BY <1>2, <1>3, <1>4 DEF TableTypes

\* The open transaction inserts only what is not there.
LEMMA TableInvSteps ==
  ASSUME IInv, TypeInv, StampInv, [Next]_vars
  PROVE  TableInv'
<1> USE DEF TypeInv
<1>1. claim' = "idle" => mine' = Nothing
  <2>1. CASE claim # "idle"
    BY <2>1, IdleSteps
  <2>2. CASE claim = "idle"
    <3>1. body = "none" /\ tx # "open" /\ mine = Nothing
      BY <2>2 DEF IInv, CoroutineInv, ConnectionInv, TableInv
    <3>2. CASE \E i \in Ids : ChildSettles(i)
      BY <3>1, <3>2 DEF ChildSettles, session
    <3> QED BY <3>1, <3>2, TableSteps DEF Inserts, Comes, Drops
  <2> QED BY <2>1, <2>2
<1> DEFINE Fits == \A i \in Ids :
             /\ db'[i] # Absent => db'[i].state \in {"pending"} \cup Terminal
             /\ mine'[i] # Absent => mine'[i].state = "pending" /\ db'[i] = Absent
<1>2. CASE UNCHANGED <<row, db, mine>>
  <2>1. Fits
    BY <1>2 DEF TableInv
  <2> QED BY <1>1, <2>1 DEF TableInv
<1>3. CASE Inserts
  <2>1. ASSUME NEW i \in Ids, View[i] = Absent PROVE db[i] = Absent
    BY <2>1, ViewFacts
  <2>2. Fits
    BY <1>3, <2>1, InsertsView DEF Inserts, TableInv
  <2> QED BY <1>1, <2>2 DEF TableInv
<1>4. CASE Comes \/ Drops
  <2>1. \A i \in Ids : mine'[i] = Absent
    BY <1>4 DEF Comes, Drops, Nothing
  <2>2. \A i \in Ids : db'[i] # Absent => db'[i].state \in {"pending"} \cup Terminal
    BY <1>4, ViewFacts DEF Comes, Drops, TableInv
  <2>3. Fits
    BY <2>1, <2>2
  <2> QED BY <1>1, <2>3 DEF TableInv
<1>5. ASSUME NEW i \in Ids, ChildSettles(i) PROVE Fits
  <2>1. PICK state \in Terminal : \A j \in Ids :
          db'[j] = IF j = i THEN Promise(state, db[i].fp, stamps[i]) ELSE db[j]
    BY <1>5, ChildView
  <2>2. mine' = mine /\ db[i].state = "pending" /\ Absent.state = "absent"
    BY <1>5, ViewFacts DEF ChildSettles, session
  <2>3. db[i] # Absent /\ Promise(state, db[i].fp, stamps[i]).state = state
    BY <2>2 DEF Promise
  <2> HIDE DEF Fits
  <2>4. ASSUME NEW j \in Ids
        PROVE  /\ db'[j] # Absent => db'[j].state \in {"pending"} \cup Terminal
               /\ mine'[j] # Absent => mine'[j].state = "pending" /\ db'[j] = Absent
    <3>1. CASE j = i
      BY <2>1, <2>2, <2>3, <3>1 DEF TableInv
    <3>2. CASE j # i
      BY <2>1, <2>2, <3>2 DEF TableInv
    <3> QED BY <3>1, <3>2
  <2> QED BY <2>4 DEF Fits
<1>6. CASE \E i \in Ids : ChildSettles(i)
  BY <1>1, <1>5, <1>6 DEF TableInv
<1> QED BY <1>2, <1>3, <1>4, <1>6, TableSteps

\* The settlements of a first stay apart until they are contested.
LEMMA ApartSteps ==
  ASSUME IInv, TypeInv, StampInv, [Next]_vars
  PROVE  StampInv'
<1> USE DEF TypeInv
<1> SUFFICES ASSUME ~contested', NEW i \in Ids, NEW k \in Ids, Rivals(i, k)', i # k,
                    db'[i].state \in Terminal, db'[k].state \in Terminal
             PROVE  \/ db'[i].stamp + PerMilli <= db'[k].stamp
                    \/ db'[k].stamp + PerMilli <= db'[i].stamp
  BY DEF StampInv
<1>1. ~contested /\ Rivals(i, k) /\ Rivals(k, i)
  <2>1. program' = program /\ ~contested
    BY ProgramStays
  <2>2. \E s \in 1..Len(program) : program[s].op = "first" /\ i \in IdsOf(s) /\ k \in IdsOf(s)
    BY <2>1 DEF Rivals, IdsOf
  <2> QED BY <2>1, <2>2 DEF Rivals
<1>2. Later(db, db')
  BY TablesGrow
<1>3. CASE db[i].state \in Terminal /\ db[k].state \in Terminal
  BY <1>1, <1>2, <1>3 DEF StampInv, Later
<1>4. CASE db[i].state \notin Terminal /\ db[k].state \in Terminal
  <2>1. db'[k] = db[k] /\ db[k].stamp + PerMilli <= db'[i].stamp
    BY <1>1, <1>2, <1>4 DEF Later
  <2> QED BY <2>1
<1>5. CASE db[i].state \in Terminal /\ db[k].state \notin Terminal
  <2>1. db'[i] = db[i] /\ db[i].stamp + PerMilli <= db'[k].stamp
    BY <1>1, <1>2, <1>5 DEF Later
  <2> QED BY <2>1
<1>6. CASE db[i].state \notin Terminal /\ db[k].state \notin Terminal
  <2>1. ~Comes /\ db' # db
    <3>1. db' # db
      BY <1>6
    <3>2. ~Comes
      BY <1>6, ViewFacts DEF Comes
    <3> QED BY <3>1, <3>2
  <2>2. PICK j \in Ids : ChildSettles(j)
    BY <2>1, TableSteps DEF Inserts, Drops
  <2>3. \A l \in Ids : l # j => db'[l] = db[l]
    BY <2>2, ChildView
  <2> QED BY <1>6, <2>3
<1> QED BY <1>3, <1>4, <1>5, <1>6

\* Steps keep the types of the other variables.
LEMMA ModeSteps ==
  ASSUME ModeTypes, [Next]_vars
  PROVE  ModeTypes'
<1> DEFINE Words ==
             /\ tx \in {"none", "open", "failed", "lost"}
             /\ claim \in {"idle", "held", "exiting", "ending", "releasing"}
             /\ body \in {"none", "running", "calls", "timer", "over", "settling"}
             /\ troubles \in 0..MaxTroubles
             /\ result.state \in {"none", "suspended", "retry"} \cup Terminal
           Flags == raised \in BOOLEAN /\ finished \in BOOLEAN /\ flushing \in BOOLEAN
                    /\ busy \in BOOLEAN
<1>0. Words /\ Flags
  BY DEF ModeTypes
<1> SUFFICES Words' /\ Flags'
  BY DEF ModeTypes
<1> USE ExecutionAssumption DEF store, session, submissions, run, bodyVars, Trouble
<1>1. CASE Claim \/ NoClaim \/ FunctionUnavailable
  <2>1. Words'
    BY <1>0, <1>1 DEF Claim, ClaimTask, NoClaim, ClaimNothing, ClaimFails, FunctionUnavailable,
                      NoResult, Result
  <2>2. Flags'
    BY <1>0, <1>1 DEF Claim, ClaimTask, NoClaim, ClaimNothing, ClaimFails, FunctionUnavailable
  <2> QED BY <2>1, <2>2
<1>2. CASE StartCalls \/ StartSleep
  <2>1. UNCHANGED <<tx, claim, raised, finished, busy, troubles, result>>
    BY <1>2 DEF StartCalls, StartSleep
  <2>2. body' \in {"calls", "timer"} /\ flushing' \in {flushing, TRUE}
    BY <1>2 DEF StartCalls, Submit, StartSleep
  <2>3. Words'
    BY <1>0, <2>1, <2>2
  <2>4. Flags'
    BY <1>0, <2>1, <2>2
  <2> QED BY <2>3, <2>4
<1>3. CASE Raises \/ TimesOut
  <2>1. result'.state = "retry" /\ body' = "over"
    BY <1>3 DEF Raises, TimesOut, Retries, Ends, Result
  <2>2. tx' \in {tx, "failed"} /\ troubles' \in 0..MaxTroubles /\ claim' = claim
    BY <1>0, <1>3 DEF Raises, TimesOut
  <2>3. Flags'
    BY <1>0, <1>3 DEF Raises, TimesOut
  <2> QED BY <1>0, <2>1, <2>2, <2>3
<1>4. CASE Evaluate
  <2>1. UNCHANGED <<tx, claim, raised, finished, flushing, busy, troubles>>
    BY <1>4 DEF Evaluate, executionVars
  <2>2. /\ body' \in {"over", "running"}
        /\ result'.state \in {"suspended", "resolved", "rejected", result.state}
    BY <1>4 DEF Evaluate, TakesFirst, Gathers, GoesOn, Rejects, Suspends, Ends, Result
  <2> QED BY <1>0, <2>1, <2>2 DEF Terminal
<1>5. CASE Flush \/ Send
  <2>1. UNCHANGED <<tx, claim, raised, finished, troubles, body, result>>
    BY <1>5 DEF Flush, FlushSubmissions, Send, Sends
  <2>2. flushing' \in BOOLEAN /\ busy' \in BOOLEAN
    BY <1>0, <1>5 DEF Flush, FlushSubmissions, Send, Sends
  <2> QED BY <1>0, <2>1, <2>2
<1>6. ASSUME NEW op \in {"submit", "timer"},
             PromisesArrive(op) \/ PromisesFail(op) \/ PromisesRefused(op)
      PROVE  Words' /\ Flags'
  <2>1. tx' \in {tx, "failed", "lost"} /\ troubles' \in 0..MaxTroubles /\ claim' = claim
    BY <1>0, <1>6 DEF PromisesArrive, PromisesFail, PromisesRefused, StatementFails, Refused
  <2>2. \/ body' = body /\ result' = result
        \/ body' = "over" /\ result'.state = "rejected"
        \/ body' = "calls" /\ result' = result
    BY <1>6 DEF PromisesArrive, PromisesFail, PromisesRefused, Rejects, Ends, Result
  <2>3. raised' = raised /\ finished' = finished /\ flushing' = flushing
    BY <1>6 DEF PromisesArrive, PromisesFail, PromisesRefused, StatementFails, Refused
  <2>4. ~busy'
    BY <1>6 DEF PromisesArrive, PromisesFail, PromisesRefused, Answered, StatementFails, Refused
  <2>5. busy' \in BOOLEAN
    BY <1>0, <1>6 DEF PromisesArrive, PromisesFail, PromisesRefused, Answered, StatementFails,
                      Refused
  <2> QED BY <1>0, <2>1, <2>2, <2>3, <2>5 DEF Terminal
<1>7. CASE SettleExecution
  BY <1>0, <1>7 DEF SettleExecution
<1>8. CASE OutcomeRecorded \/ OutcomeFails \/ Stopped
  <2>1. body' = "none" /\ claim' = "exiting" /\ raised' \in BOOLEAN /\ result' = result
    BY <1>8 DEF OutcomeRecorded, OutcomeFails, Stopped, Leaves
  <2>2. tx' \in {tx, "failed", "lost"} /\ troubles' \in 0..MaxTroubles
    <3>1. CASE OutcomeRecorded
      BY <1>0, <3>1 DEF OutcomeRecorded, RecordOutcome
    <3>2. CASE StatementFails("settle")
      BY <1>0, <3>2 DEF StatementFails
    <3>3. CASE Refused("settle")
      BY <1>0, <3>3 DEF Refused
    <3>4. CASE Stopped
      BY <1>0, <3>4 DEF Stopped
    <3> QED BY <1>8, <3>1, <3>2, <3>3, <3>4 DEF OutcomeFails
  <2>3. finished' \in BOOLEAN /\ flushing' \in BOOLEAN /\ busy' \in BOOLEAN
    <3>1. CASE OutcomeRecorded
      BY <1>0, <3>1 DEF OutcomeRecorded, RecordOutcome, Answered
    <3>2. CASE OutcomeFails
      BY <1>0, <3>2 DEF OutcomeFails, Answered, StatementFails, Refused
    <3>3. CASE Stopped
      BY <1>0, <3>3 DEF Stopped
    <3> QED BY <1>8, <3>1, <3>2, <3>3
  <2> QED BY <1>0, <2>1, <2>2, <2>3
<1>9. CASE EndOfClaim
  <2>1. UNCHANGED <<body, result>>
    BY <1>9 DEF EndOfClaim
  <2>2. /\ claim' \in {"ending", "releasing", "idle"} /\ tx' \in {tx, "none", "lost"}
        /\ troubles' \in 0..MaxTroubles
    BY <1>0, <1>9 DEF EndOfClaim, CancelSubmissions, TransactionRefused, ReleaseConnection,
                      CommitTransaction, CommitLost, RollBack, StatementDies
  <2>3. Flags'
    BY <1>0, <1>9 DEF EndOfClaim, CancelSubmissions, TransactionRefused, ReleaseConnection,
                      CommitTransaction, CommitLost, RollBack, StatementDies
  <2> QED BY <1>0, <2>1, <2>2, <2>3
<1>10. CASE \E i \in Ids : Child(i)
  BY <1>0, <1>10 DEF Child, ChildStamps, ChildSettles, executionVars
<1>11. CASE UNCHANGED vars
  BY <1>0, <1>11 DEF vars, executionVars
<1> QED BY <1>1, <1>2, <1>3, <1>4, <1>5, <1>6, <1>7, <1>8, <1>9, <1>10, <1>11 DEF Next, Worker

\* Where the function is changes when it starts and when it goes on.
StaysPut == UNCHANGED <<stage, index, attempt, history, program>>

\* Steps keep the place of the function, its batch and the queue for the lock.
LEMMA RunSteps ==
  ASSUME IInv, TypeInv, [Next]_vars
  PROVE  RunTypes'
<1> DEFINE Where == stage \in 1..Len(program) /\ index = Before(program)[stage]
                    /\ attempt \in Nat /\ history \in Seq(Nat)
           Batch == pending.ids \subseteq Ids /\ pending.fp \in Seq(Nat)
           Queue == lock \in Seq(Requests) /\ (busy => lock # <<>>)
<1>0. Where /\ Batch /\ Queue /\ program \in Programs
  BY DEF TypeInv, RunTypes, IInv, ShapeInv
<1>01. NoCalls.ids = {} /\ NoCalls.fp = <<>> /\ <<>> \in Seq(Nat) /\ <<>> \in Seq(Requests)
  BY DEF NoCalls
<1>02. \A q \in Requests : Append(lock, q) \in Seq(Requests) /\ Append(lock, q) # <<>>
  BY <1>0
<1>03. ASSUME lock # <<>> PROVE Tail(lock) \in Seq(Requests)
  BY <1>03, HolderTypes DEF TypeInv
<1>04. \A op : Withdrawn(op) \in Seq(Requests)
  BY <1>0, WithdrawnLeaves
<1>05. StageIds \subseteq Ids
  BY StageNumbers DEF TypeInv, IInv
<1>06. StaysPut => Where'
  BY <1>0 DEF StaysPut
<1>07. UNCHANGED pending => Batch'
  BY <1>0
<1>08. UNCHANGED <<lock, busy>> => Queue'
  BY <1>0
<1> SUFFICES Where' /\ Batch' /\ Queue'
  BY DEF RunTypes
<1>1. CASE Claim
  <2>1. stage' = 1 /\ index' = 0 /\ attempt' = attempt + 1 /\ history' = <<>> /\ program' = program
    BY <1>1 DEF Claim, StartsAfresh
  <2>2. Before(program)[1] = 0 /\ 1 \in 1..Len(program)
    BY <1>0, BeforeCounts, ProgramShape
  <2>3. Where'
    BY <1>0, <1>01, <2>1, <2>2
  <2>4. UNCHANGED <<pending, lock, busy>>
    BY <1>1 DEF Claim, ClaimTask, submissions
  <2> QED BY <1>07, <1>08, <2>3, <2>4
<1>2. CASE NoClaim \/ FunctionUnavailable
  <2>1. StaysPut /\ UNCHANGED <<pending, lock, busy>>
    BY <1>2 DEF NoClaim, FunctionUnavailable, ClaimNothing, ClaimFails, submissions, bodyVars,
                run, StaysPut
  <2> QED BY <1>06, <1>07, <1>08, <2>1
<1>3. CASE StartCalls
  <2>1. StaysPut /\ UNCHANGED <<lock, busy>>
    BY <1>3 DEF StartCalls, run, StaysPut
  <2>2. \/ UNCHANGED pending
        \/ pending' = [ids |-> pending.ids \cup (StageIds \ Known), fp |-> history]
    BY <1>3 DEF StartCalls, Submit, submissions, CallInput
  <2>3. Batch'
    BY <1>0, <1>05, <1>07, <2>2
  <2> QED BY <1>06, <1>08, <2>1, <2>3
<1>4. CASE StartSleep
  <2>1. StaysPut /\ UNCHANGED <<pending, busy>>
    BY <1>4 DEF StartSleep, run, StaysPut, submissions
  <2>2. \/ UNCHANGED lock
        \/ lock' = Append(lock, Request("timer", StageIds \ Known, <<attempt>>))
    BY <1>4 DEF StartSleep, AskLock
  <2>3. Request("timer", StageIds \ Known, <<attempt>>) \in Requests
    BY <1>0, <1>05 DEF Request, Requests
  <2>4. Queue'
    BY <1>0, <1>02, <2>1, <2>2, <2>3
  <2> QED BY <1>06, <1>07, <2>1, <2>4
<1>5. CASE Raises
  <2>1. StaysPut /\ UNCHANGED <<pending, lock, busy>>
    BY <1>5 DEF Raises, Retries, Ends, submissions, run, StaysPut
  <2> QED BY <1>06, <1>07, <1>08, <2>1
<1>6. CASE Evaluate
  <2>1. UNCHANGED <<pending, lock, busy, program>> /\ StageIds \subseteq Known
    BY <1>6 DEF Evaluate, executionVars
  <2>2. \/ StaysPut
        \/ \E learnt : GoesOn(learnt) /\ learnt = history
        \/ \E w \in StageIds : GoesOn(Append(history, w))
    BY <1>6, <2>1 DEF Evaluate, TakesFirst, Gathers, Winners, Rejects, Suspends, Ends, run, StaysPut
  <2>3. ASSUME NEW learnt \in Seq(Nat), GoesOn(learnt) PROVE Where'
    <3>1. CASE stage < Len(program)
      <4>1. /\ stage' = stage + 1 /\ index' = index + Stage.calls /\ attempt' = attempt
            /\ history' = learnt
        BY <2>3, <3>1 DEF GoesOn
      <4>2. Before(program)[stage + 1] = Before(program)[stage] + program[stage].calls
        BY <1>0, BeforeCounts
      <4>3. stage + 1 \in 1..Len(program)
        BY <1>0, <3>1, ProgramShape
      <4> QED BY <1>0, <2>1, <4>1, <4>2, <4>3 DEF Stage
    <3>2. CASE ~(stage < Len(program))
      <4>1. StaysPut
        BY <2>1, <2>3, <3>2 DEF GoesOn, Ends, run, StaysPut
      <4> QED BY <1>06, <4>1
    <3> QED BY <3>1, <3>2
  <2>4. \A w \in StageIds : Append(history, w) \in Seq(Nat)
    <3>1. StageIds \subseteq Nat
      BY StageNumbers DEF TypeInv, IInv
    <3> QED BY <1>0, <3>1
  <2>5. Where'
    BY <1>0, <1>06, <2>2, <2>3, <2>4
  <2> QED BY <1>07, <1>08, <2>1, <2>5
<1>7. CASE TimesOut
  <2>1. StaysPut /\ UNCHANGED pending
    BY <1>7 DEF TimesOut, Retries, Ends, submissions, run, StaysPut
  <2>2. \/ UNCHANGED <<lock, busy>>
        \/ /\ lock' = Withdrawn("timer")
           /\ HoldsLock("timer") /\ busy => ~busy'
           /\ ~(HoldsLock("timer") /\ busy) => busy' = busy
    BY <1>7 DEF TimesOut
  <2>3. Queue'
    <3>1. CASE UNCHANGED <<lock, busy>>
      BY <1>08, <3>1
    <3>2. CASE lock' = Withdrawn("timer") /\ ~busy'
      BY <1>04, <3>2
    <3>3. CASE lock' = Withdrawn("timer") /\ busy /\ ~HoldsLock("timer")
      <4>1. lock # <<>> /\ lock[1].op # "timer"
        BY <1>0, <3>3 DEF HoldsLock
      <4>2. Withdrawn("timer") # <<>>
        BY <1>0, <4>1, WithdrawnLeaves
      <4> QED BY <1>04, <3>3, <4>2
    <3> QED BY <2>2, <3>1, <3>2, <3>3
  <2> QED BY <1>06, <1>07, <2>1, <2>3
<1>8. CASE Flush
  <2>1. /\ StaysPut /\ UNCHANGED busy /\ pending' = NoCalls
        /\ lock' = Append(lock, Request("submit", pending.ids, pending.fp))
    BY <1>8 DEF Flush, FlushSubmissions, bodyVars, run, StaysPut
  <2>2. Request("submit", pending.ids, pending.fp) \in Requests
    BY <1>0 DEF Request, Requests
  <2>3. Queue' /\ Batch'
    BY <1>01, <1>02, <2>1, <2>2
  <2> QED BY <1>06, <2>1, <2>3
<1>9. CASE Send
  <2>1. StaysPut /\ UNCHANGED <<pending, lock>> /\ lock # <<>>
    BY <1>9 DEF Send, Sends, submissions, bodyVars, run, StaysPut
  <2> QED BY <1>0, <1>06, <1>07, <2>1
<1>10. ASSUME NEW op \in {"submit", "timer"},
              PromisesArrive(op) \/ PromisesFail(op) \/ PromisesRefused(op)
       PROVE  Where' /\ Batch' /\ Queue'
  <2>1. StaysPut /\ UNCHANGED pending
    BY <1>10 DEF PromisesArrive, PromisesFail, PromisesRefused, StatementFails, Refused,
                 submissions, bodyVars, run, StaysPut, Rejects, Ends
  <2>2. lock # <<>> /\ lock' = Tail(lock) /\ ~busy'
    BY <1>10 DEF PromisesArrive, PromisesFail, PromisesRefused, Answered, StatementFails, Refused
  <2> QED BY <1>03, <1>06, <1>07, <2>1, <2>2
<1>11. CASE SettleExecution
  <2>1. StaysPut /\ UNCHANGED <<pending, busy>>
    BY <1>11 DEF SettleExecution, run, StaysPut, submissions
  <2>2. lock' = Append(lock, Request("settle", {}, <<>>))
    BY <1>11 DEF SettleExecution, AskLock
  <2>3. Request("settle", {}, <<>>) \in Requests
    BY <1>01 DEF Request, Requests
  <2> QED BY <1>02, <1>06, <1>07, <2>1, <2>2, <2>3
<1>12. CASE OutcomeRecorded \/ OutcomeFails
  <2>1. StaysPut /\ UNCHANGED pending
    BY <1>12 DEF OutcomeRecorded, OutcomeFails, RecordOutcome, StatementFails, Refused,
                 submissions, run, StaysPut
  <2>2. lock # <<>> /\ lock' = Tail(lock) /\ ~busy'
    <3>1. CASE OutcomeRecorded
      BY <3>1 DEF OutcomeRecorded, RecordOutcome, Answered
    <3>2. CASE StatementFails("settle")
      BY <3>2 DEF StatementFails, Answered
    <3>3. CASE Refused("settle")
      BY <3>3 DEF Refused
    <3> QED BY <1>12, <3>1, <3>2, <3>3 DEF OutcomeFails
  <2> QED BY <1>03, <1>06, <1>07, <2>1, <2>2
<1>13. CASE Stopped
  <2> DEFINE op == IF body = "timer" THEN "timer" ELSE "settle"
  <2>1. StaysPut /\ UNCHANGED pending
    BY <1>13 DEF Stopped, submissions, run, StaysPut
  <2>2. /\ lock' = Withdrawn(op)
        /\ busy /\ ~HoldsLock("submit") => ~busy'
        /\ ~(busy /\ ~HoldsLock("submit")) => busy' = busy
    BY <1>13 DEF Stopped
  <2>3. op # "submit"
    OBVIOUS
  <2> HIDE DEF op
  <2>4. CASE ~busy'
    BY <1>04, <1>06, <1>07, <2>1, <2>2, <2>4
  <2>5. CASE busy /\ HoldsLock("submit")
    <3>1. lock # <<>> /\ lock[1].op # op
      BY <1>0, <2>3, <2>5 DEF HoldsLock
    <3>2. Withdrawn(op) # <<>>
      BY <1>0, <3>1, WithdrawnLeaves
    <3> QED BY <1>04, <1>06, <1>07, <2>1, <2>2, <3>2
  <2> QED BY <2>2, <2>4, <2>5
<1>14. CASE EndOfClaim
  <2>1. StaysPut /\ pending' \in {pending, NoCalls}
    BY <1>14 DEF EndOfClaim, CancelSubmissions, CommitTransaction, CommitLost, RollBack,
                 TransactionRefused, ReleaseConnection, StatementDies, submissions, bodyVars, run,
                 StaysPut
  <2>2. \/ lock' = lock /\ busy' = busy
        \/ lock # <<>> /\ lock' = Tail(lock) /\ ~busy'
    <3>1. CASE ReleaseConnection
      BY <3>1 DEF ReleaseConnection
    <3>5. CASE StatementDies
      BY <1>0, <3>5 DEF StatementDies
    <3>2. CASE CancelSubmissions \/ TransactionRefused
      BY <3>2 DEF CancelSubmissions, TransactionRefused
    <3>3. CASE CommitTransaction \/ CommitLost
      BY <3>3 DEF CommitTransaction, CommitLost
    <3>4. CASE RollBack
      BY <3>4 DEF RollBack
    <3> QED BY <1>14, <3>1, <3>2, <3>3, <3>4, <3>5 DEF EndOfClaim
  <2>3. Queue'
    <3>1. CASE lock' = lock /\ busy' = busy
      BY <1>08, <3>1
    <3>2. CASE lock # <<>> /\ lock' = Tail(lock) /\ ~busy'
      BY <1>03, <3>2
    <3> QED BY <2>2, <3>1, <3>2
  <2>4. Batch'
    BY <1>0, <1>01, <2>1
  <2> QED BY <1>06, <2>1, <2>3, <2>4
<1>15. CASE (\E i \in Ids : Child(i)) \/ UNCHANGED vars
  <2>1. StaysPut /\ UNCHANGED <<pending, lock, busy>>
    BY <1>15 DEF Child, ChildStamps, ChildSettles, vars, executionVars, submissions, bodyVars,
                 run, StaysPut
  <2> QED BY <1>06, <1>07, <1>08, <2>1
<1> QED BY <1>1, <1>2, <1>3, <1>4, <1>5, <1>6, <1>7, <1>8, <1>9, <1>10, <1>11, <1>12, <1>13,
           <1>14, <1>15 DEF Next, Worker

\* The initial states have these types.
LEMMA TypeInit == Init => TypeInv /\ StampInv
<1> SUFFICES ASSUME Init PROVE TypeInv /\ StampInv
  OBVIOUS
<1>1. db = Nothing /\ mine = Nothing /\ memo = Nothing
  BY DEF Init, ExecutionInit
<1>2. \A i \in Ids : Nothing[i] = Absent /\ Absent.state \notin Terminal
  BY DEF Nothing, Absent, Promise, Terminal
<1>3. program \in Programs /\ stage = 1 /\ index = 0
  BY DEF Init
<1>4. RowTypes
  BY ExecutionAssumption DEF Init, ExecutionInit, RowTypes
<1>5. TableTypes /\ TableInv /\ StampInv
  BY <1>1, <1>2, PromiseTypes DEF TableTypes, TableInv, StampInv
<1>6. ModeTypes
  <2>1. /\ tx = "none" /\ claim = "idle" /\ body = "none" /\ troubles = 0
        /\ result.state = "none"
    BY DEF Init, ExecutionInit, NoResult, Result
  <2>2. /\ raised \in BOOLEAN /\ finished \in BOOLEAN
        /\ flushing \in BOOLEAN /\ busy \in BOOLEAN
    BY DEF Init, ExecutionInit
  <2>3. /\ tx \in {"none", "open", "failed", "lost"}
        /\ claim \in {"idle", "held", "exiting", "ending", "releasing"}
        /\ body \in {"none", "running", "calls", "timer", "over", "settling"}
        /\ troubles \in 0..MaxTroubles
        /\ result.state \in {"none", "suspended", "retry"} \cup Terminal
    BY <2>1, ExecutionAssumption
  <2> QED BY <2>2, <2>3 DEF ModeTypes
<1>7. RunTypes
  <2>1. 1 \in 1..Len(program) /\ Before(program)[1] = 0
    BY <1>3, BeforeCounts, ProgramShape
  <2>2. /\ attempt = 0 /\ history = <<>> /\ pending.ids = {} /\ pending.fp = <<>> /\ lock = <<>>
        /\ ~busy
    BY DEF Init, ExecutionInit, NoCalls
  <2>3. <<>> \in Seq(Nat) /\ <<>> \in Seq(Requests)
    OBVIOUS
  <2> QED BY <1>3, <2>1, <2>2, <2>3 DEF RunTypes
<1> QED BY <1>4, <1>5, <1>6, <1>7 DEF TypeInv

\* Every step keeps them.
LEMMA TypeStep == IInv /\ TypeInv /\ StampInv /\ [Next]_vars => TypeInv' /\ StampInv'
BY RowSteps, TableTypesSteps, ModeSteps, RunSteps, TableInvSteps, ApartSteps DEF TypeInv

\* They hold in every reachable state.
LEMMA TypesHold == Spec => [](IInv /\ TypeInv /\ StampInv)
<1> QED BY InitInv, StepInv, TypeInit, TypeStep, PTL DEF Spec

\* The variables keep their types.
THEOREM TypeCorrect == Spec => []TypeOK
<1>1. IInv /\ TypeInv => TypeOK
  <2> SUFFICES ASSUME IInv, TypeInv PROVE TypeOK
    OBVIOUS
  <2>1. index \in 0..MaxChildren
    <3>1. program \in Programs /\ stage \in 1..(Len(program) + 1) /\ Len(program) \in Nat
      BY ProgramShape DEF TypeInv, RunTypes, IInv, ShapeInv
    <3>2. index \in Nat
      BY DEF IInv, ShapeInv
    <3>3. StageIds \subseteq Ids /\ index + 1 \in StageIds
      BY StageNumbers DEF TypeInv, IInv, ShapeInv, StageIds
    <3> QED BY <3>2, <3>3, ExecutionAssumption DEF Ids
  <2>2. clock \in Nat \ {0} /\ stamps \in [Ids -> 0..clock] /\ contested \in BOOLEAN
    BY DEF IInv, ShapeInv
  <2> QED BY <2>1, <2>2 DEF TypeOK, TypeInv, RowTypes, TableTypes, ModeTypes, RunTypes
<1> QED BY <1>1, TypesHold, PTL
=============================================================================
