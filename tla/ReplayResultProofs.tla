-------------------------- MODULE ReplayResultProofs --------------------------
(***************************************************************************)
(* Proofs about what a durable function resolves with, for every set of    *)
(* functions and every number of children, failures and disturbances: the  *)
(* result is that of one plain run, however often the function was run.    *)
(*                                                                         *)
(* Led(t, s, h) says what a run that finds the promises t has learnt when  *)
(* it comes to stage s.  Tables only grow and settled promises stay, so it *)
(* is kept (LedLater), and as long as no first is contested, no two runs   *)
(* can come to the same stage with different histories (LedUnique).  The   *)
(* invariant says that the function on its way, each request it has made,  *)
(* each call that was inserted, the result, the outcome that is recorded   *)
(* and the row of the task are led to where they are by the promises of    *)
(* the task.                                                               *)
(***************************************************************************)
EXTENDS DurableReplayProofs

-----------------------------------------------------------------------------
(* What a function learns                                                    *)

\* How FirstsBefore counts.
LEMMA FirstsCount ==
  ASSUME NEW s \in Nat \ {0}
  PROVE  /\ FirstsBefore(1) = 0 /\ FirstsBefore(s) \in Nat
         /\ FirstsBefore(s + 1) = FirstsBefore(s) + (IF program[s].op = "first" THEN 1 ELSE 0)
         /\ \A p \in 1..s : FirstsBefore(p) <= FirstsBefore(s)
         /\ \A p \in 1..(s - 1) :
              program[p].op = "first" => FirstsBefore(p) + 1 \in 1..FirstsBefore(s)
<1> DEFINE firsts(r) == {n \in 1..(r - 1) : program[n].op = "first"}
<1>1. \A r \in Nat \ {0} : IsFiniteSet(firsts(r)) /\ Cardinality(firsts(r)) \in Nat
  <2> TAKE r \in Nat \ {0}
  <2>1. r - 1 \in Nat /\ 1 \in Int
    OBVIOUS
  <2>2. IsFiniteSet(1..(r - 1))
    BY <2>1, FS_Interval
  <2>3. firsts(r) \subseteq 1..(r - 1)
    OBVIOUS
  <2> HIDE DEF firsts
  <2>4. IsFiniteSet(firsts(r))
    BY <2>2, <2>3, FS_Subset
  <2> QED BY <2>4, FS_CardinalityType
<1>2. \A r \in Nat \ {0} : FirstsBefore(r) = Cardinality(firsts(r))
  BY DEF FirstsBefore
<1>3. firsts(1) = {}
  OBVIOUS
<1>4. firsts(s + 1) = IF program[s].op = "first" THEN firsts(s) \cup {s} ELSE firsts(s)
  OBVIOUS
<1>5. s \notin firsts(s) /\ s + 1 \in Nat \ {0}
  OBVIOUS
<1>6. ASSUME NEW p \in 1..(s - 1), program[p].op = "first"
      PROVE  /\ firsts(p) \cup {p} \subseteq firsts(s) /\ p \notin firsts(p)
             /\ p \in Nat \ {0}
  BY <1>6
<1>60. \A p \in 1..s : firsts(p) \subseteq firsts(s) /\ p \in Nat \ {0}
  OBVIOUS
<1> HIDE DEF firsts
<1>61. \A p \in 1..s : FirstsBefore(p) <= FirstsBefore(s)
  BY <1>1, <1>2, <1>60, FS_Subset
<1>7. FirstsBefore(1) = 0
  BY <1>2, <1>3, FS_EmptySet
<1>8. FirstsBefore(s + 1) = FirstsBefore(s) + (IF program[s].op = "first" THEN 1 ELSE 0)
  <2>1. Cardinality(firsts(s) \cup {s}) = Cardinality(firsts(s)) + 1
    BY <1>1, <1>5, FS_AddElement
  <2>2. Cardinality(firsts(s)) \in Nat
    BY <1>1
  <2> QED BY <1>2, <1>4, <1>5, <2>1, <2>2
<1>9. ASSUME NEW p \in 1..(s - 1), program[p].op = "first"
      PROVE  FirstsBefore(p) + 1 \in 1..FirstsBefore(s)
  <2>1. Cardinality(firsts(p) \cup {p}) = Cardinality(firsts(p)) + 1
    BY <1>1, <1>6, <1>9, FS_AddElement
  <2>2. Cardinality(firsts(p) \cup {p}) <= Cardinality(firsts(s))
    BY <1>1, <1>6, <1>9, FS_Subset
  <2>3. Cardinality(firsts(p)) \in Nat /\ Cardinality(firsts(s)) \in Nat
    BY <1>1, <1>6, <1>9
  <2> QED BY <1>2, <1>6, <1>9, <2>1, <2>2, <2>3
<1> QED BY <1>1, <1>2, <1>61, <1>7, <1>8, <1>9

\* The promises of a stage are such that a function that has learnt h went on from it:
\* all of them were resolved, or h has one that was, and the earliest of them unless
\* they were contested.
Won(t, p, h) ==
  /\ IdsOf(p) \subseteq Ids /\ \A i \in IdsOf(p) : t[i] # Absent
  /\ IF program[p].op = "first"
     THEN LET w == h[FirstsBefore(p) + 1]
          IN  /\ w \in IdsOf(p) /\ t[w].state = "resolved"
              /\ ~contested =>
                   \A i \in IdsOf(p) \ {w} : t[i].state \in Terminal => t[w].stamp < t[i].stamp
     ELSE \A i \in IdsOf(p) : t[i].state = "resolved"

\* A function that finds the promises t comes to stage s, and then has learnt h.
Led(t, s, h) ==
  h \in Seq(Nat) /\ Len(h) = FirstsBefore(s) /\ \A p \in 1..(s - 1) : Won(t, p, h)

\* The number of the stage after the last.
Whole == Len(program) + 1

\* What a step leaves of the function, and makes of its promises.
Follows(t, u) == program' = program /\ (contested => contested') /\ Later(t, u)

\* A stage that was passed would be passed again.
LEMMA WonLater ==
  ASSUME NEW t, NEW u, Follows(t, u), NEW p \in 1..Len(program), NEW h, Won(t, p, h)
  PROVE  Won(u, p, h)'
<1>0. IdsOf(p)' = IdsOf(p) /\ FirstsBefore(p)' = FirstsBefore(p) /\ program' = program
  BY DEF Follows, IdsOf, FirstsBefore
<1>1. /\ IdsOf(p) \subseteq Ids
      /\ \A i \in IdsOf(p) : t[i] # Absent
      /\ \A i \in IdsOf(p) : u[i] # Absent
      /\ \A i \in IdsOf(p) : t[i].state = "resolved" => u[i] = t[i]
  BY DEF Won, Follows, Later, Terminal
<1>2. CASE program[p].op = "first"
  <2> DEFINE w == h[FirstsBefore(p) + 1]
  <2>1. /\ w \in IdsOf(p) /\ t[w].state = "resolved"
        /\ ~contested =>
             \A i \in IdsOf(p) \ {w} : t[i].state \in Terminal => t[w].stamp < t[i].stamp
    BY <1>2 DEF Won
  <2> HIDE DEF w
  <2>2. u[w] = t[w] /\ t[w].state \in Terminal
    BY <1>1, <2>1 DEF Terminal
  <2>3. ASSUME ~contested', NEW i \in IdsOf(p) \ {w}, u[i].state \in Terminal
        PROVE  u[w].stamp < u[i].stamp
    <3>1. i \in Ids /\ w \in Ids /\ ~contested
      BY <1>1, <2>1, <2>3 DEF Follows
    <3>2. CASE t[i].state \in Terminal
      BY <2>1, <2>2, <3>1, <3>2 DEF Follows, Later
    <3>3. CASE t[i].state \notin Terminal
      <4>1. Rivals(i, w)
        BY <1>2, <2>1 DEF Rivals
      <4>2. t[w].stamp + PerMilli <= u[i].stamp
        BY <2>2, <2>3, <3>1, <3>3, <4>1 DEF Follows, Later
      <4>3. u[w].stamp \in Nat /\ u[i].stamp \in Nat /\ PerMilli \in Nat \ {0}
        BY <3>1, ReplayAssumption DEF Follows, Later, Table
      <4> QED BY <2>2, <4>2, <4>3
    <3> QED BY <3>2, <3>3
  <2>4. /\ w \in IdsOf(p) /\ u[w].state = "resolved"
        /\ ~contested' =>
             \A i \in IdsOf(p) \ {w} : u[i].state \in Terminal => u[w].stamp < u[i].stamp
    BY <2>1, <2>2, <2>3
  <2> USE DEF w
  <2> QED BY <1>0, <1>1, <1>2, <2>4 DEF Won
<1>3. CASE program[p].op # "first"
  BY <1>0, <1>1, <1>3 DEF Won
<1> QED BY <1>2, <1>3

\* What a function has learnt, it would learn again.
LEMMA LedLater ==
  ASSUME NEW t, NEW u, Follows(t, u), NEW s \in 1..Whole, program \in Programs,
         NEW h, Led(t, s, h)
  PROVE  Led(u, s, h)'
<1>1. FirstsBefore(s)' = FirstsBefore(s)
  BY DEF Follows, FirstsBefore
<1>2. \A p \in 1..(s - 1) : p \in 1..Len(program)
  BY ProgramShape DEF Whole
<1>3. \A p \in 1..(s - 1) : Won(u, p, h)'
  BY <1>2, WonLater DEF Led
<1> QED BY <1>1, <1>3 DEF Led

\* Two runs that come to the same stage have learnt the same there, if no first was
\* contested.
LEMMA LedUnique ==
  ASSUME ~contested, program \in Programs, NEW t, Table(t), NEW s \in 1..Whole,
         NEW h, Led(t, s, h), NEW g, Led(t, s, g)
  PROVE  h = g
<1>0. Len(program) \in Nat
  BY ProgramShape
<1> DEFINE Agree(m) == \A k \in 1..FirstsBefore(m) : h[k] = g[k]
           failing == {m \in 1..s : ~Agree(m)}
<1>1. ASSUME failing # {} PROVE FALSE
  <2>1. PICK m \in failing : \A n \in failing : m <= n
    <3>1. failing \subseteq Nat
      OBVIOUS
    <3> HIDE DEF failing
    <3> QED BY <1>1, <3>1, LeastNatural
  <2>2. m # 1
    <3>1. FirstsBefore(1) = 0
      BY FirstsCount
    <3>2. Agree(1)
      BY <3>1
    <3> QED BY <3>2
  <2>3. PICK l \in 1..(s - 1) : m = l + 1
    <3>1. m - 1 \in 1..(s - 1) /\ m = (m - 1) + 1
      BY <1>0, <2>2 DEF Whole
    <3> QED BY <3>1
  <2>4. Agree(l)
    <3>1. l \in 1..s /\ ~(m <= l)
      BY <1>0, <2>3 DEF Whole
    <3> QED BY <2>1, <3>1
  <2>5. /\ FirstsBefore(m) = FirstsBefore(l) + (IF program[l].op = "first" THEN 1 ELSE 0)
        /\ FirstsBefore(l) \in Nat
    <3>1. l \in Nat \ {0}
      BY <1>0, <2>3 DEF Whole
    <3> QED BY <2>3, <3>1, FirstsCount
  <2>6. CASE program[l].op # "first"
    <3>1. Agree(m)
      BY <2>4, <2>5, <2>6
    <3> QED BY <3>1
  <2>7. CASE program[l].op = "first"
    <3> DEFINE v == h[FirstsBefore(l) + 1]
               w == g[FirstsBefore(l) + 1]
    <3>1. Won(t, l, h) /\ Won(t, l, g)
      BY <2>3 DEF Led
    <3>2. /\ v \in IdsOf(l) /\ w \in IdsOf(l) /\ IdsOf(l) \subseteq Ids
          /\ t[v].state = "resolved" /\ t[w].state = "resolved"
          /\ \A i \in IdsOf(l) \ {v} : t[i].state \in Terminal => t[v].stamp < t[i].stamp
          /\ \A i \in IdsOf(l) \ {w} : t[i].state \in Terminal => t[w].stamp < t[i].stamp
      BY <2>7, <3>1 DEF Won
    <3>3. v = w
      <4> HIDE DEF v, w
      <4>1. t[v].stamp \in Nat /\ t[w].stamp \in Nat
        BY <3>2 DEF Table
      <4> QED BY <3>2, <4>1 DEF Terminal
    <3>4. ASSUME NEW k \in 1..FirstsBefore(m) PROVE h[k] = g[k]
      <4>1. k \in 1..FirstsBefore(l) \/ k = FirstsBefore(l) + 1
        BY <2>5, <2>7
      <4> QED BY <2>4, <3>3, <4>1
    <3>5. Agree(m)
      BY <3>4
    <3> QED BY <3>5
  <2> QED BY <2>6, <2>7
<1>2. Agree(s)
  <2>1. s \in 1..s
    BY <1>0 DEF Whole
  <2> QED BY <1>1, <2>1
<1>3. /\ h \in Seq(Nat) /\ g \in Seq(Nat)
      /\ Len(h) = FirstsBefore(s) /\ Len(g) = FirstsBefore(s)
  BY DEF Led
<1>4. \A k \in 1..Len(h) : h[k] = g[k]
  BY <1>2, <1>3
<1> QED BY <1>3, <1>4

\* The beginning of a sequence.
LEMMA Prefix ==
  ASSUME NEW S, NEW l \in Seq(S), NEW n \in Nat, n <= Len(l)
  PROVE  /\ SubSeq(l, 1, n) \in Seq(S) /\ Len(SubSeq(l, 1, n)) = n
         /\ \A k \in 1..n : SubSeq(l, 1, n)[k] = l[k]
<1>1. Len(SubSeq(l, 1, n)) = n
  <2>1. Len(SubSeq(l, 1, n)) = IF 1 <= n THEN n - 1 + 1 ELSE 0
    OBVIOUS
  <2> QED BY <2>1
<1>2. SubSeq(l, 1, n) \in Seq(S)
  OBVIOUS
<1>3. ASSUME NEW k \in 1..n PROVE SubSeq(l, 1, n)[k] = l[k]
  BY <1>1, <1>3
<1> QED BY <1>1, <1>2, <1>3

\* What a function had learnt at an earlier stage is the beginning of what it knows.
LEMMA LedShorter ==
  ASSUME program \in Programs, NEW t, NEW s \in 1..Whole, NEW h, Led(t, s, h), NEW r \in 1..s
  PROVE  Led(t, r, SubSeq(h, 1, FirstsBefore(r)))
<1>0. Len(program) \in Nat /\ s \in Nat \ {0} /\ r \in Nat \ {0}
  BY ProgramShape DEF Whole
<1> DEFINE g == SubSeq(h, 1, FirstsBefore(r))
<1>1. /\ h \in Seq(Nat) /\ Len(h) = FirstsBefore(s)
      /\ FirstsBefore(r) \in Nat /\ FirstsBefore(r) <= FirstsBefore(s)
  BY <1>0, FirstsCount DEF Led
<1>2. g \in Seq(Nat) /\ Len(g) = FirstsBefore(r) /\ \A k \in 1..FirstsBefore(r) : g[k] = h[k]
  <2>1. h \in Seq(Nat) /\ FirstsBefore(r) \in Nat /\ FirstsBefore(r) <= Len(h)
    BY <1>1
  <2> QED BY <2>1, Prefix
<1> HIDE DEF g
<1>3. ASSUME NEW p \in 1..(r - 1) PROVE Won(t, p, g)
  <2>1. Won(t, p, h)
    BY <1>0 DEF Led
  <2>2. CASE program[p].op = "first"
    <3>1. FirstsBefore(p) + 1 \in 1..FirstsBefore(r)
      BY <1>0, <2>2, FirstsCount
    <3> QED BY <1>2, <2>1, <3>1 DEF Won
  <2>3. CASE program[p].op # "first"
    BY <2>1, <2>3 DEF Won
  <2> QED BY <2>2, <2>3
<1>4. Led(t, r, g)
  BY <1>2, <1>3 DEF Led
<1> QED BY <1>4 DEF g

\* A gather or a sleep that is passed teaches nothing.
LEMMA LedGoesOn ==
  ASSUME program \in Programs, NEW t, NEW s \in 1..Len(program), NEW h, Led(t, s, h),
         program[s].op # "first", Won(t, s, h)
  PROVE  Led(t, s + 1, h)
<1>0. Len(program) \in Nat /\ s \in Nat \ {0}
  BY ProgramShape
<1>1. FirstsBefore(s + 1) = FirstsBefore(s) /\ FirstsBefore(s) \in Nat
  <2>1. /\ FirstsBefore(s + 1) = FirstsBefore(s) + (IF program[s].op = "first" THEN 1 ELSE 0)
        /\ FirstsBefore(s) \in Nat
    BY <1>0, FirstsCount
  <2>2. (IF program[s].op = "first" THEN 1 ELSE 0) = 0
    OBVIOUS
  <2> QED BY <2>1, <2>2
<1>2. \A p \in 1..((s + 1) - 1) : p \in 1..(s - 1) \/ p = s
  BY <1>0
<1> QED BY <1>1, <1>2 DEF Led

\* A first teaches one of its promises, the earliest unless they were contested.
LEMMA LedTakes ==
  ASSUME program \in Programs, NEW t, NEW s \in 1..Len(program), NEW h, Led(t, s, h),
         program[s].op = "first", IdsOf(s) \subseteq Ids, \A i \in IdsOf(s) : t[i] # Absent,
         NEW w \in IdsOf(s), t[w].state = "resolved",
         ~contested =>
           \A i \in IdsOf(s) \ {w} : t[i].state \in Terminal => t[w].stamp < t[i].stamp
  PROVE  Led(t, s + 1, Append(h, w))
<1>0. Len(program) \in Nat /\ s \in Nat \ {0} /\ w \in Nat
  BY ProgramShape DEF Ids
<1>1. FirstsBefore(s + 1) = FirstsBefore(s) + 1 /\ FirstsBefore(s) \in Nat
  BY <1>0, FirstsCount
<1> DEFINE g == Append(h, w)
<1>2. /\ g \in Seq(Nat) /\ Len(g) = FirstsBefore(s + 1)
      /\ g[FirstsBefore(s) + 1] = w
      /\ \A k \in 1..FirstsBefore(s) : g[k] = h[k]
  BY <1>0, <1>1 DEF Led
<1> HIDE DEF g
<1>3. Won(t, s, g)
  BY <1>2 DEF Won
<1>4. ASSUME NEW p \in 1..(s - 1) PROVE Won(t, p, g)
  <2>1. Won(t, p, h)
    BY <1>0 DEF Led
  <2>2. CASE program[p].op = "first"
    <3>1. FirstsBefore(p) + 1 \in 1..FirstsBefore(s)
      BY <1>0, <2>2, FirstsCount
    <3> QED BY <1>2, <2>1, <3>1 DEF Won
  <2>3. CASE program[p].op # "first"
    BY <2>1, <2>3 DEF Won
  <2> QED BY <2>2, <2>3
<1>5. \A p \in 1..((s + 1) - 1) : p \in 1..(s - 1) \/ p = s
  BY <1>0
<1>6. Led(t, s + 1, g)
  BY <1>2, <1>3, <1>4, <1>5 DEF Led
<1> QED BY <1>6 DEF g

-----------------------------------------------------------------------------
(* A function that is on its way                                             *)

\* The function is on its way, or waits for an answer.
Alive == body \in {"running", "calls", "timer"}

\* The calls of the stage that are not in the memo.
Missing == StageIds \ Known

\* No coroutine of the task asks for anything.
Quiet == lock = <<>> /\ ~flushing /\ pending = NoCalls

\* A batch that is not to be flushed is empty.
BatchInv == ~flushing => pending = NoCalls

\* What a function waits for is asked for once.
QueueInv ==
  /\ body = "running" => Quiet
  /\ body = "calls" /\ Missing = {} => Quiet
  /\ body = "calls" /\ Missing # {} =>
       /\ Stage.op # "sleep"
       /\ \/ flushing /\ pending = [ids |-> Missing, fp |-> history] /\ lock = <<>>
          \/ ~flushing /\ pending = NoCalls /\ lock = <<Request("submit", Missing, history)>>
  /\ body = "timer" =>
       /\ Stage.op = "sleep" /\ Missing # {} /\ ~flushing /\ pending = NoCalls
       /\ lock = <<Request("timer", Missing, <<attempt>>)>>

\* Steps of which nothing can be seen from the task.
Unseen == UNCHANGED vars \/ \E i \in Ids : ChildStamps(i)

\* They leave everything but the time where it is.
LEMMA UnseenLeaves ==
  ASSUME Unseen
  PROVE  UNCHANGED <<executionVars, bodyVars, program, contested>> /\ View' = View
BY DEF Unseen, vars, settling, ChildStamps, executionVars, View, Visible

\* A batch changes when calls are made, and is taken away when it is flushed or
\* cancelled.
LEMMA BatchMoves ==
  ASSUME [Next]_vars
  PROVE  \/ UNCHANGED <<pending, flushing>>
         \/ StartCalls /\ flushing'
         \/ pending' = NoCalls /\ ~flushing'
<1> USE DEF submissions
<1>1. CASE StartCalls
  BY <1>1 DEF StartCalls, Submit
<1>2. CASE Flush \/ CancelSubmissions
  BY <1>2 DEF Flush, FlushSubmissions, CancelSubmissions
<1>3. CASE Claim \/ NoClaim \/ FunctionUnavailable
  BY <1>3 DEF Claim, ClaimTask, NoClaim, ClaimNothing, ClaimFails, FunctionUnavailable
<1>4. CASE StartSleep \/ Raises \/ Evaluate \/ TimesOut \/ Send
  BY <1>4 DEF StartSleep, Raises, Evaluate, executionVars, TimesOut, Send, Sends
<1>5. ASSUME NEW op \in {"submit", "timer"},
             PromisesArrive(op) \/ PromisesFail(op) \/ PromisesRefused(op)
      PROVE  UNCHANGED <<pending, flushing>>
  BY <1>5 DEF PromisesArrive, PromisesFail, PromisesRefused, StatementFails, Refused
<1>6. CASE SettleExecution \/ OutcomeRecorded \/ OutcomeFails \/ Stopped
  BY <1>6 DEF SettleExecution, OutcomeRecorded, OutcomeFails, Stopped, RecordOutcome,
              StatementFails, Refused
<1>7. CASE EndOfClaim
  BY <1>2, <1>7 DEF EndOfClaim, TransactionRefused, CommitTransaction, CommitLost,
                    RollBack, ReleaseConnection, StatementDies
<1>8. CASE (\E i \in Ids : ChildSettles(i)) \/ Unseen
  BY <1>8, UnseenLeaves DEF ChildSettles, executionVars
<1> QED BY <1>1, <1>2, <1>3, <1>4, <1>5, <1>6, <1>7, <1>8 DEF Next, Worker, Child, Unseen

\* It stays so.
LEMMA BatchSteps ==
  ASSUME BatchInv, [Next]_vars
  PROVE  BatchInv'
BY BatchMoves DEF BatchInv

\* The steps after which the function is still on its way.
Proceeds(learnt) == Evaluate /\ stage < Len(program) /\ GoesOn(learnt)
Arrives(op) == Awaits(op) /\ PromisesArrive(op) /\ ~Conflict(Head(lock).ids, Head(lock).fp)

\* Only the coroutine of the function is in the queue when it waits.
LEMMA HolderWaits ==
  ASSUME QueueInv, Alive, lock # <<>>, NEW op \in {"submit", "timer"}, Head(lock).op = op
  PROVE  /\ Awaits(op) /\ ~flushing /\ pending = NoCalls /\ Missing # {}
         /\ Len(lock) = 1 /\ Tail(lock) = <<>>
         /\ op = "submit" => lock = <<Request("submit", Missing, history)>> /\ Stage.op # "sleep"
         /\ op = "timer" => lock = <<Request("timer", Missing, <<attempt>>)>> /\ Stage.op = "sleep"
<1>1. body # "running" /\ ~Quiet /\ body \in {"calls", "timer"}
  BY DEF QueueInv, Alive, Quiet
<1>2. CASE body = "calls"
  <2>1. /\ Missing # {} /\ Stage.op # "sleep" /\ ~flushing /\ pending = NoCalls
        /\ lock = <<Request("submit", Missing, history)>>
    BY <1>1, <1>2 DEF QueueInv
  <2>2. /\ Head(lock) = Request("submit", Missing, history) /\ Len(lock) = 1
        /\ Tail(lock) = <<>>
    BY <2>1
  <2>3. op = "submit"
    BY <2>2 DEF Request
  <2> QED BY <1>2, <2>1, <2>2, <2>3 DEF Awaits
<1>3. CASE body = "timer"
  <2>1. /\ Missing # {} /\ Stage.op = "sleep" /\ ~flushing /\ pending = NoCalls
        /\ lock = <<Request("timer", Missing, <<attempt>>)>>
    BY <1>3 DEF QueueInv
  <2>2. /\ Head(lock) = Request("timer", Missing, <<attempt>>) /\ Len(lock) = 1
        /\ Tail(lock) = <<>>
    BY <2>1
  <2>3. op = "timer"
    BY <2>2 DEF Request
  <2> QED BY <1>3, <2>1, <2>2, <2>3 DEF Awaits
<1> QED BY <1>1, <1>2, <1>3

\* A function is on its way after these steps only.
LEMMA AliveSteps ==
  ASSUME IInv, TypeInv, QueueInv, [Next]_vars, Alive'
  PROVE  \/ Claim \/ StartCalls \/ StartSleep
         \/ \E learnt : Proceeds(learnt)
         \/ Alive /\ (Flush \/ Send)
         \/ \E op \in {"submit", "timer"} : Arrives(op)
         \/ Alive /\ \E i \in Ids : ChildSettles(i)
         \/ Alive /\ Unseen
<1>0. /\ body' \in {"running", "calls", "timer"}
      /\ claim # "held" => body = "none"
      /\ body' = body => Alive
  BY DEF Alive, IInv, CoroutineInv
<1> USE DEF bodyVars
<1>1. CASE NoClaim \/ FunctionUnavailable
  <2>1. ~FunctionUnavailable
    BY <1>0 DEF FunctionUnavailable
  <2>2. claim = "idle" /\ body' = body
    BY <1>1, <2>1 DEF NoClaim, ClaimNothing, ClaimFails, MayClaim
  <2> QED BY <1>0, <2>2
<1>2. CASE Raises \/ TimesOut
  BY <1>0, <1>2 DEF Raises, TimesOut, Retries, Ends
<1>3. CASE Evaluate
  <2>1. \E learnt : GoesOn(learnt)
    BY <1>0, <1>3 DEF Evaluate, Gathers, TakesFirst, Suspends, Rejects, Ends
  <2>2. stage < Len(program)
    BY <1>0, <2>1 DEF GoesOn, Ends
  <2> QED BY <1>3, <2>1, <2>2 DEF Proceeds
<1>4. CASE Flush \/ Send
  <2>1. body' = body
    BY <1>4 DEF Flush, Send
  <2> QED BY <1>0, <1>4, <2>1
<1>5. ASSUME NEW op \in {"submit", "timer"},
             PromisesArrive(op) \/ PromisesFail(op) \/ PromisesRefused(op)
      PROVE  Arrives(op)
  <2>1. lock # <<>> /\ Head(lock).op = op
    BY <1>5 DEF PromisesArrive, PromisesFail, PromisesRefused, Answered, StatementFails, Refused
  <2>2. Awaits(op)
    <3>1. CASE Alive
      BY <2>1, <3>1, HolderWaits
    <3>2. CASE ~Alive
      <4>1. body' # body
        BY <1>0, <3>2
      <4> QED BY <1>5, <4>1 DEF PromisesArrive, PromisesFail, PromisesRefused
    <3> QED BY <3>1, <3>2
  <2>3. PromisesArrive(op) /\ ~Conflict(Head(lock).ids, Head(lock).fp)
    BY <1>0, <1>5, <2>2 DEF PromisesArrive, PromisesFail, PromisesRefused, Rejects, Ends
  <2> QED BY <2>2, <2>3 DEF Arrives
<1>6. CASE SettleExecution \/ OutcomeRecorded \/ OutcomeFails \/ Stopped
  BY <1>0, <1>6 DEF SettleExecution, OutcomeRecorded, OutcomeFails, Stopped, Leaves
<1>7. CASE EndOfClaim
  <2>1. claim # "held" /\ body' = body
    BY <1>7 DEF EndOfClaim, CancelSubmissions, TransactionRefused, CommitTransaction,
                CommitLost, RollBack, ReleaseConnection, StatementDies
  <2> QED BY <1>0, <2>1
<1>8. CASE (\E i \in Ids : ChildSettles(i)) \/ Unseen
  <2>1. body' = body
    BY <1>8, UnseenLeaves DEF ChildSettles
  <2> QED BY <1>0, <1>8, <2>1
<1> QED BY <1>1, <1>2, <1>3, <1>4, <1>5, <1>6, <1>7, <1>8 DEF Next, Worker, Child, Unseen

\* What a function that was waiting knows of the calls of its stage.
MemoInv == Alive => \A i \in Ids :
  /\ memo[i] # Absent =>
       /\ memo[i].state \in {"pending"} \cup Terminal /\ View[i] # Absent
       /\ memo[i].state \in Terminal => memo[i] = View[i]
       /\ i <= index \/ i \in row.waits \/ (body = "calls" /\ Missing = {} /\ i \in StageIds)
  /\ mine[i] # Absent => memo[i] # Absent

\* Steps that leave the function and its memo where they are.
Keeps == UNCHANGED <<row, mine, memo, stage, index, history, attempt, program>>

\* Then the same calls are missing.
LEMMA KeepsMissing ==
  ASSUME Keeps
  PROVE  Missing' = Missing /\ Stage' = Stage /\ StageIds' = StageIds
BY DEF Keeps, Missing, StageIds, Stage, Known

\* Most of the steps of a function that is on its way are such steps.
LEMMA StartsKeep ==
  ASSUME StartCalls \/ StartSleep \/ Flush \/ Send \/ (\E i \in Ids : ChildSettles(i))
         \/ Unseen
  PROVE  Keeps
<1> USE DEF store, session, run, bodyVars, Keeps
<1>1. CASE StartCalls \/ StartSleep
  BY <1>1 DEF StartCalls, StartSleep
<1>2. CASE Flush \/ Send
  BY <1>2 DEF Flush, FlushSubmissions, Send, Sends
<1>3. CASE \E i \in Ids : ChildSettles(i)
  BY <1>3 DEF ChildSettles
<1>4. CASE Unseen
  BY <1>4, UnseenLeaves DEF executionVars
<1> QED BY <1>1, <1>2, <1>3, <1>4

\* What an answer brings: every call of the stage has its promise.
LEMMA ArrivalFacts ==
  ASSUME IInv, TypeInv, QueueInv, NEW op \in {"submit", "timer"}, Arrives(op)
  PROVE  /\ Alive /\ body' = "calls" /\ lock' = <<>> /\ Missing # {} /\ Missing' = {}
         /\ StageIds' = StageIds /\ Stage' = Stage
         /\ Head(lock).ids = Missing /\ db' = db
         /\ mine' = Inserted(Missing, Head(lock).fp)
         /\ \A i \in Ids : memo'[i] = IF i \in Missing
                                      THEN IF View[i] = Absent
                                           THEN Promise("pending", Head(lock).fp, 0) ELSE View[i]
                                      ELSE memo[i]
         /\ UNCHANGED <<row, stage, index, history, attempt, program, pending, flushing>>
<1> DEFINE q == Head(lock)
<1>1. Alive /\ lock # <<>> /\ q.op = op
  BY DEF Arrives, Awaits, Alive, PromisesArrive, Answered
<1>2. /\ q.ids = Missing /\ Tail(lock) = <<>> /\ Missing # {}
  <2>1. \/ lock = <<Request("submit", Missing, history)>>
        \/ lock = <<Request("timer", Missing, <<attempt>>)>>
    BY <1>1, HolderWaits
  <2>2. Missing # {} /\ Tail(lock) = <<>>
    BY <1>1, HolderWaits
  <2> QED BY <2>1, <2>2 DEF Request
<1>3. /\ mine' = Inserted(q.ids, q.fp) /\ body' = "calls" /\ lock' = Tail(lock)
      /\ memo' = [i \in Ids |-> IF i \in q.ids
                                THEN IF Visible(i) = Absent
                                     THEN Promise("pending", q.fp, 0) ELSE Visible(i)
                                ELSE memo[i]]
      /\ UNCHANGED <<attempt, stage, index, history, row, db, pending, flushing, program>>
  BY DEF Arrives, PromisesArrive, Answered, store, submissions
<1>4. \A i \in Ids : memo'[i] = IF i \in Missing
                                THEN IF View[i] = Absent
                                     THEN Promise("pending", q.fp, 0) ELSE View[i]
                                ELSE memo[i]
  BY <1>2, <1>3 DEF View
<1>5. StageIds' = StageIds /\ Stage' = Stage
  BY <1>3 DEF StageIds, Stage
<1>6. Missing' = {}
  <2>1. Promise("pending", q.fp, 0) # Absent
    BY DEF Promise, Absent
  <2>2. StageIds \subseteq Ids
    BY StageNumbers DEF IInv, TypeInv
  <2>3. \A i \in StageIds : memo'[i] # Absent
    BY <1>4, <2>1, <2>2 DEF Missing, Known
  <2> QED BY <1>5, <2>2, <2>3 DEF Missing, Known
<1> QED BY <1>1, <1>2, <1>3, <1>4, <1>5, <1>6

\* The function goes on to the next stage.
LEMMA ProceedFacts ==
  ASSUME NEW learnt, Proceeds(learnt)
  PROVE  /\ body = "calls" /\ Missing = {} /\ body' = "running" /\ stage' = stage + 1
         /\ index' = index + Stage.calls /\ history' = learnt
         /\ UNCHANGED <<executionVars, program, attempt, memo>>
BY DEF Proceeds, Evaluate, GoesOn, Missing

\* A function comes to another stage when it starts and when it proceeds.
LEMMA StageMoves ==
  ASSUME [Next]_vars
  PROVE  StaysPut \/ Claim \/ \E learnt : Proceeds(learnt)
<1> USE DEF bodyVars, run, StaysPut
<1>1. CASE NoClaim \/ FunctionUnavailable
  BY <1>1 DEF NoClaim, FunctionUnavailable
<1>2. CASE StartCalls \/ StartSleep \/ Raises \/ TimesOut
  BY <1>2 DEF StartCalls, StartSleep, Raises, TimesOut, Retries, Ends
<1>3. CASE Evaluate
  <2>1. program' = program
    BY <1>3 DEF Evaluate
  <2>2. UNCHANGED run \/ \E learnt : GoesOn(learnt)
    BY <1>3 DEF Evaluate, TakesFirst, Gathers, Rejects, Suspends, Ends
  <2>3. ASSUME NEW learnt, GoesOn(learnt), ~(stage < Len(program)) PROVE UNCHANGED run
    BY <2>3 DEF GoesOn, Ends
  <2> QED BY <1>3, <2>1, <2>2, <2>3 DEF Proceeds
<1>4. CASE Flush \/ Send
  BY <1>4 DEF Flush, Send
<1>5. ASSUME NEW op \in {"submit", "timer"},
             PromisesArrive(op) \/ PromisesFail(op) \/ PromisesRefused(op)
      PROVE  StaysPut
  BY <1>5 DEF PromisesArrive, PromisesFail, PromisesRefused, Rejects, Ends
<1>6. CASE SettleExecution \/ OutcomeRecorded \/ OutcomeFails \/ Stopped
  BY <1>6 DEF SettleExecution, OutcomeRecorded, OutcomeFails, Stopped
<1>7. CASE EndOfClaim
  BY <1>7 DEF EndOfClaim
<1>8. CASE (\E i \in Ids : ChildSettles(i)) \/ Unseen
  BY <1>8, UnseenLeaves DEF ChildSettles
<1> QED BY <1>1, <1>2, <1>3, <1>4, <1>5, <1>6, <1>7, <1>8 DEF Next, Worker, Child, Unseen

\* A function that waits keeps its one place in the queue.
LEMMA QueueSteps ==
  ASSUME IInv, TypeInv, QueueInv, [Next]_vars
  PROVE  QueueInv'
<1> SUFFICES ASSUME Alive' PROVE QueueInv'
  BY DEF QueueInv, Alive
<1>1. CASE Claim
  <2>1. /\ body' = "running" /\ claim = "idle" /\ lock = <<>>
        /\ UNCHANGED <<lock, flushing, pending>>
    BY <1>1 DEF Claim, ClaimTask, MayClaim, submissions
  <2> QED BY <2>1 DEF IInv, ConnectionInv, QueueInv, Quiet
<1>2. CASE StartCalls
  <2>1. body = "running" /\ body' = "calls" /\ Keeps /\ UNCHANGED lock /\ Stage.op # "sleep"
    BY <1>2, StartsKeep DEF StartCalls
  <2>2. \/ Missing = {} /\ UNCHANGED <<pending, flushing>>
        \/ /\ Missing # {} /\ flushing'
           /\ pending' = [ids |-> pending.ids \cup Missing, fp |-> history]
    BY <1>2 DEF StartCalls, Submit, submissions, Missing, CallInput
  <2>3. Quiet /\ pending.ids = {}
    BY <2>1 DEF QueueInv, Quiet, NoCalls
  <2> QED BY <2>1, <2>2, <2>3, KeepsMissing DEF QueueInv, Quiet, Keeps
<1>3. CASE StartSleep
  <2>1. body = "running" /\ Keeps /\ UNCHANGED <<pending, flushing>> /\ Stage.op = "sleep"
    BY <1>3, StartsKeep DEF StartSleep, submissions
  <2>2. \/ Missing = {} /\ body' = "calls" /\ UNCHANGED lock
        \/ /\ Missing # {} /\ body' = "timer"
           /\ lock' = Append(lock, Request("timer", Missing, <<attempt>>))
    BY <1>3 DEF StartSleep, AskLock, Missing
  <2>3. Quiet
    BY <2>1 DEF QueueInv
  <2>4. CASE Missing = {}
    BY <2>1, <2>2, <2>3, <2>4, KeepsMissing DEF QueueInv, Quiet
  <2>5. CASE Missing # {}
    <3>1. lock' = <<Request("timer", Missing, <<attempt>>)>>
      BY <2>2, <2>3, <2>5 DEF Quiet
    <3> QED BY <2>1, <2>2, <2>3, <2>5, <3>1, KeepsMissing DEF QueueInv, Quiet, Keeps
  <2> QED BY <2>4, <2>5
<1>4. ASSUME NEW learnt, Proceeds(learnt) PROVE QueueInv'
  <2>1. /\ body = "calls" /\ Missing = {} /\ body' = "running"
        /\ UNCHANGED <<lock, pending, flushing>>
    BY <1>4, ProceedFacts DEF executionVars
  <2> QED BY <2>1 DEF QueueInv, Quiet
<1>5. CASE Alive /\ Flush
  <2>1. /\ flushing /\ ~flushing' /\ pending' = NoCalls /\ Keeps /\ body' = body
        /\ lock' = Append(lock, Request("submit", pending.ids, pending.fp))
    BY <1>5, StartsKeep DEF Flush, FlushSubmissions, bodyVars
  <2>2. /\ body = "calls" /\ Missing # {} /\ Stage.op # "sleep" /\ lock = <<>>
        /\ pending = [ids |-> Missing, fp |-> history]
    BY <1>5, <2>1 DEF QueueInv, Alive, Quiet
  <2>3. lock' = <<Request("submit", Missing, history)>>
    BY <2>1, <2>2
  <2> QED BY <2>1, <2>2, <2>3, KeepsMissing DEF QueueInv, Keeps
<1>6. ASSUME NEW op \in {"submit", "timer"}, Arrives(op) PROVE QueueInv'
  <2>1. body' = "calls" /\ lock' = <<>> /\ Missing' = {} /\ UNCHANGED <<pending, flushing>>
    BY <1>6, ArrivalFacts
  <2>2. ~flushing /\ pending = NoCalls
    <3>1. Alive /\ lock # <<>> /\ Head(lock).op = op
      BY <1>6 DEF Arrives, Awaits, Alive, PromisesArrive, Answered
    <3> QED BY <3>1, HolderWaits
  <2> QED BY <2>1, <2>2 DEF QueueInv, Quiet
<1>7. CASE Send \/ (\E i \in Ids : ChildSettles(i)) \/ Unseen
  <2>1. Keeps /\ UNCHANGED <<body, lock, pending, flushing>>
    BY <1>7, StartsKeep, UnseenLeaves
       DEF Send, Sends, ChildSettles, executionVars, submissions, bodyVars
  <2> QED BY <2>1, KeepsMissing DEF QueueInv, Quiet, Keeps
<1> QED BY <1>1, <1>2, <1>3, <1>4, <1>5, <1>6, <1>7, AliveSteps

\* A promise of a first that settles later than it is looked at settles after all that
\* were settled then, unless they are contested.
OrderInv ==
  body = "calls" /\ Missing = {} /\ Stage.op = "first" /\ ~contested =>
    \A i, k \in StageIds :
      memo[i].state = "pending" /\ View[i].state \in Terminal /\ memo[k].state \in Terminal
        => memo[k].stamp < View[i].stamp

\* A function that comes to a stage has waited for what the memo has of it.
LEMMA OnlyWaited ==
  ASSUME IInv, TypeInv, MemoInv, Alive, ~(body = "calls" /\ Missing = {}),
         NEW i \in StageIds, memo[i] # Absent
  PROVE  memo[i].state \in Terminal
<1>1. i \in Ids
  BY StageNumbers DEF IInv, TypeInv
<1>2. index \in Nat /\ i \in (index + 1)..(index + Stage.calls) /\ Stage.calls \in Nat
  BY StageNumbers DEF IInv, TypeInv, ShapeInv, StageIds
<1>3. ~(i <= index)
  BY <1>2
<1>4. i \in row.waits
  BY <1>1, <1>3 DEF MemoInv
<1> QED BY <1>4 DEF IInv, WaitedInv, Alive

\* The memo stays in accordance with what the transaction sees.
LEMMA MemoSteps ==
  ASSUME IInv, TypeInv, StampInv, QueueInv, MemoInv, [Next]_vars
  PROVE  MemoInv'
<1> SUFFICES ASSUME Alive' PROVE MemoInv'
  BY DEF MemoInv
<1>0. Terminal = {"resolved", "rejected"} /\ TableTypes /\ TableInv /\ index \in Nat
  BY DEF TypeInv, Terminal, IInv, ShapeInv
<1>1. CASE Claim
  <2>1. /\ claim = "idle" /\ body' = "running" /\ UNCHANGED <<row, mine, db>>
        /\ \A i \in row.waits : View[i].state \in Terminal /\ i \in Ids
        /\ memo' = [i \in Ids |-> IF i \in row.waits THEN View[i] ELSE Absent]
    BY <1>1 DEF Claim, ClaimTask, MayClaim, Claimable, Preload, View, IInv, ShapeInv, store
  <2>2. View' = View /\ mine' = Nothing
    BY <2>1 DEF View, Visible, TypeInv, TableInv
  <2>3. \A i \in Ids : View[i].state \in Terminal => View[i] # Absent
    BY DEF Absent, Promise, Terminal
  <2> QED BY <2>1, <2>2, <2>3 DEF MemoInv, Nothing
<1>2. CASE StartCalls \/ StartSleep
  <2>1. Keeps /\ View' = View /\ body = "running"
    BY <1>2, StartsKeep DEF StartCalls, StartSleep, Keeps, View, Visible, store, session
  <2> QED BY <2>1 DEF MemoInv, Keeps, Alive
<1>3. ASSUME NEW learnt, Proceeds(learnt) PROVE MemoInv'
  <2>1. /\ body = "calls" /\ body' = "running" /\ index' = index + Stage.calls
        /\ UNCHANGED <<row, mine, memo>> /\ View' = View
    BY <1>3, ProceedFacts DEF executionVars, View, Visible
  <2>2. Stage.calls \in Nat
    BY StageNumbers DEF IInv, TypeInv
  <2>3. \A i \in StageIds : i <= index'
    BY <2>1 DEF StageIds
  <2>4. \A i \in Ids : i \in Nat /\ (i <= index => i <= index')
    BY <1>0, <2>1, <2>2 DEF Ids
  <2> QED BY <2>1, <2>3, <2>4 DEF MemoInv, Alive
<1>4. CASE Alive /\ (Flush \/ Send \/ Unseen)
  <2>1. Keeps /\ View' = View /\ body' = body
    BY <1>4, StartsKeep, UnseenLeaves
       DEF Flush, FlushSubmissions, Send, Sends, bodyVars, Keeps, View, Visible, store, session
  <2> QED BY <1>4, <2>1, KeepsMissing DEF MemoInv, Keeps, Alive
<1>5. ASSUME NEW op \in {"submit", "timer"}, Arrives(op) PROVE MemoInv'
  <2> DEFINE fp == Head(lock).fp
             new == Promise("pending", fp, 0)
  <2>1. /\ Alive /\ body' = "calls" /\ Missing # {} /\ Missing' = {} /\ StageIds' = StageIds
        /\ db' = db /\ mine' = Inserted(Missing, fp) /\ UNCHANGED <<row, index>>
        /\ \A i \in Ids : memo'[i] = IF i \in Missing
                                     THEN IF View[i] = Absent THEN new ELSE View[i]
                                     ELSE memo[i]
    BY <1>5, ArrivalFacts
  <2>2. /\ \A i \in Ids : /\ mine'[i] = IF i \in Missing /\ View[i] = Absent THEN new ELSE mine[i]
                          /\ View'[i] = IF i \in Missing /\ View[i] = Absent THEN new ELSE View[i]
        /\ new # Absent /\ new.state = "pending"
    BY <1>0, <2>1, InsertsView
  <2>3. Missing \subseteq StageIds
    BY DEF Missing
  <2>4. \A i \in Ids : View[i] # Absent => View[i].state \in {"pending"} \cup Terminal
    BY <1>0, ViewFacts
  <2> HIDE DEF new
  <2>5. ASSUME NEW i \in Ids
        PROVE  /\ memo'[i] # Absent =>
                    /\ memo'[i].state \in {"pending"} \cup Terminal /\ View'[i] # Absent
                    /\ memo'[i].state \in Terminal => memo'[i] = View'[i]
                    /\ i <= index \/ i \in row.waits \/ i \in StageIds
               /\ mine'[i] # Absent => memo'[i] # Absent
    <3>1. CASE i \in Missing
      <4>1. memo'[i] = View'[i] /\ View'[i] # Absent /\ i \in StageIds
        BY <2>1, <2>2, <2>3, <3>1
      <4>2. View'[i].state \in {"pending"} \cup Terminal
        BY <2>2, <2>4, <3>1
      <4> QED BY <4>1, <4>2
    <3>2. CASE i \notin Missing
      <4>1. memo'[i] = memo[i] /\ mine'[i] = mine[i] /\ View'[i] = View[i]
        BY <2>1, <2>2, <3>2
      <4> QED BY <2>1, <4>1 DEF MemoInv
    <3> QED BY <3>1, <3>2
  <2> QED BY <2>1, <2>5 DEF MemoInv
<1>6. ASSUME Alive, NEW c \in Ids, ChildSettles(c) PROVE MemoInv'
  <2>1. Keeps /\ body' = body
    BY <1>6, StartsKeep DEF ChildSettles, bodyVars
  <2>2. Later(View, View')
    BY <1>0, <1>6, ChildView
  <2>3. \A i \in Ids : /\ View[i] # Absent => View'[i] # Absent
                       /\ View[i].state \in Terminal => View'[i] = View[i]
    BY <2>2 DEF Later
  <2> QED BY <1>6, <2>1, <2>3, KeepsMissing DEF MemoInv, Keeps, Alive
<1> QED BY <1>1, <1>2, <1>3, <1>4, <1>5, <1>6, AliveSteps

\* A promise that is looked at too early stays the later one.
LEMMA OrderSteps ==
  ASSUME IInv, TypeInv, StampInv, QueueInv, MemoInv, OrderInv, [Next]_vars
  PROVE  OrderInv'
<1> SUFFICES ASSUME body' = "calls", Missing' = {} PROVE OrderInv'
  BY DEF OrderInv
<1>0. /\ Alive' /\ TableTypes /\ TableInv /\ StageIds \subseteq Ids
      /\ StageIds = IdsOf(stage) /\ stage \in 1..Len(program)
  BY StageNumbers DEF Alive, TypeInv, IInv, ShapeInv
<1>1. ~Claim /\ \A learnt : ~Proceeds(learnt)
  BY ProceedFacts DEF Claim
<1>2. CASE StartCalls \/ StartSleep
  <2>1. Keeps /\ body = "running" /\ Alive
    BY <1>2, StartsKeep DEF StartCalls, StartSleep, Alive
  <2>2. Missing = {} /\ StageIds' = StageIds /\ memo' = memo
    BY <2>1, KeepsMissing DEF Keeps
  <2>3. \A i \in StageIds : memo[i].state \in Terminal
    BY <2>1, <2>2, OnlyWaited DEF Missing, Known
  <2> QED BY <2>2, <2>3 DEF OrderInv, Terminal
<1>3. CASE Alive /\ (Flush \/ Send \/ Unseen)
  <2>1. Keeps /\ View' = View /\ body' = body
    BY <1>3, StartsKeep, UnseenLeaves
       DEF Flush, FlushSubmissions, Send, Sends, bodyVars, Keeps, View, Visible, store, session
  <2>2. contested => contested'
    BY ProgramStays
  <2> QED BY <2>1, <2>2, KeepsMissing DEF OrderInv, Keeps
<1>4. ASSUME NEW op \in {"submit", "timer"}, Arrives(op) PROVE OrderInv'
  <2> DEFINE fp == Head(lock).fp
             new == Promise("pending", fp, 0)
  <2>1. /\ Alive /\ Missing # {} /\ StageIds' = StageIds
        /\ db' = db /\ mine' = Inserted(Missing, fp)
        /\ \A i \in Ids : memo'[i] = IF i \in Missing
                                     THEN IF View[i] = Absent THEN new ELSE View[i]
                                     ELSE memo[i]
    BY <1>4, ArrivalFacts
  <2>2. /\ \A i \in Ids : View'[i] = IF i \in Missing /\ View[i] = Absent THEN new ELSE View[i]
        /\ new.state = "pending"
    BY <1>0, <2>1, InsertsView
  <2> HIDE DEF new
  <2>3. ASSUME NEW i \in StageIds, memo'[i].state = "pending" PROVE View'[i].state \notin Terminal
    <3>1. CASE i \in Missing
      BY <1>0, <2>1, <2>2, <2>3, <3>1 DEF Terminal
    <3>2. CASE i \notin Missing
      <4>1. memo'[i] = memo[i] /\ memo[i] # Absent
        BY <1>0, <2>1, <3>2 DEF Missing, Known
      <4>2. memo[i].state \in Terminal
        BY <2>1, <4>1, OnlyWaited
      <4> QED BY <2>3, <4>1, <4>2 DEF Terminal
    <3> QED BY <3>1, <3>2
  <2> QED BY <2>1, <2>3 DEF OrderInv
<1>5. ASSUME NEW c \in Ids, ChildSettles(c), Stage.op = "first", ~contested' PROVE OrderInv'
  <2>1. Keeps /\ body' = body
    BY <1>5, StartsKeep DEF ChildSettles, bodyVars
  <2>2. /\ body = "calls" /\ Missing = {} /\ StageIds' = StageIds /\ memo' = memo /\ Alive
        /\ ~contested
    BY <1>5, <2>1, KeepsMissing, ProgramStays DEF Keeps, Alive
  <2>3. Later(View, View')
    BY <1>0, <1>5, ChildView
  <2>4. ASSUME NEW i \in StageIds, NEW k \in StageIds,
               memo[i].state = "pending", View'[i].state \in Terminal, memo[k].state \in Terminal
        PROVE  memo[k].stamp < View'[i].stamp
    <3>1. memo[k] = View[k] /\ i \in Ids /\ k \in Ids
      BY <1>0, <2>2, <2>4 DEF MemoInv, Absent, Promise, Terminal
    <3>2. CASE View[i].state \in Terminal
      BY <1>5, <2>2, <2>3, <2>4, <3>1, <3>2 DEF Later, OrderInv
    <3>3. CASE View[i].state \notin Terminal
      <4>1. Rivals(i, k)
        BY <1>0, <1>5 DEF Rivals, Stage
      <4>2. View[k].stamp + PerMilli <= View'[i].stamp
        BY <1>5, <2>3, <2>4, <3>1, <3>3, <4>1 DEF Later
      <4>3. View[k].stamp \in Nat /\ View'[i].stamp \in Nat /\ PerMilli \in Nat \ {0}
        BY <1>0, <2>3, <3>1, ViewFacts, ReplayAssumption DEF Later, Table
      <4> QED BY <3>1, <4>2, <4>3
    <3> QED BY <3>2, <3>3
  <2> QED BY <2>2, <2>4 DEF OrderInv
<1>6. CASE ~(Stage.op = "first" /\ ~contested') /\ \E c \in Ids : ChildSettles(c)
  <2>1. Stage' = Stage
    BY <1>6, StartsKeep, KeepsMissing
  <2> QED BY <1>6, <2>1 DEF OrderInv
<1> QED BY <1>0, <1>1, <1>2, <1>3, <1>4, <1>5, <1>6, AliveSteps

\* What the function has learnt is what its calls say.
LearntInv == Alive => Led(View, stage, history)

\* Times that are a millisecond apart are rounded down to different ones.
LEMMA RoundingKeepsOrder ==
  ASSUME NEW P \in Nat \ {0}, NEW x \in Nat, NEW y \in Nat, x + P <= y
  PROVE  x \div P < y \div P
<1>1. PICK q \in Nat : q = x \div P
  BY SMT
<1>2. PICK r \in Nat : r = y \div P
  BY SMT
<1>3. P * q <= x /\ x < P * (q + 1) /\ P * r <= y /\ y < P * (r + 1)
  BY <1>1, <1>2, SMT
<1>4. ASSUME r <= q PROVE FALSE
  <2>1. P * (r + 1) <= P * (q + 1)
    BY <1>4
  <2>2. P * (q + 1) = P * q + P
    BY SMT
  <2> QED BY <1>3, <2>1, <2>2
<1> QED BY <1>1, <1>2, <1>4

\* A task waits for all of the promises of a first, or for none.
Evenly(ids) ==
  \A s \in 1..Len(program) :
    program[s].op = "first" => IdsOf(s) \subseteq ids \/ IdsOf(s) \cap ids = {}

\* So their times are rounded in the same way.
AwaitInv ==
  /\ Evenly(row.waits)
  /\ body \in {"over", "settling"} => Evenly(result.awaited)
  /\ claim \in {"exiting", "ending"} /\ Commits => Evenly(drawn.awaited)

\* Promises of a first that is not contested are taken in the order of their times.
LEMMA OrderIsStamp ==
  ASSUME IInv, TypeInv, AwaitInv, Stage.op = "first",
         NEW i \in StageIds, NEW k \in StageIds, memo[i].stamp + PerMilli <= memo[k].stamp
  PROVE  SettledOrder(i) < SettledOrder(k)
<1>1. /\ StageIds = IdsOf(stage) /\ StageIds \subseteq Ids /\ stage \in 1..Len(program)
      /\ program[stage].op = "first"
  BY StageNumbers DEF IInv, ShapeInv, TypeInv, Stage
<1>2. /\ memo[i].stamp \in Nat /\ memo[k].stamp \in Nat /\ PerMilli \in Nat \ {0}
      /\ PerMilli \div 2 \in Nat
  BY <1>1, ReplayAssumption DEF IInv, ShapeInv, Table
<1>3. i \in row.waits <=> k \in row.waits
  BY <1>1 DEF AwaitInv, Evenly
<1> DEFINE half == PerMilli \div 2
           early == IF i \in row.waits THEN memo[i].stamp ELSE memo[i].stamp + half
           late == IF k \in row.waits THEN memo[k].stamp ELSE memo[k].stamp + half
<1>4. early \in Nat /\ late \in Nat /\ early + PerMilli <= late
  <2> HIDE DEF half
  <2>1. half \in Nat
    BY <1>2 DEF half
  <2> QED BY <1>2, <1>3, <2>1
<1>5. SettledOrder(i) = early \div PerMilli /\ SettledOrder(k) = late \div PerMilli
  BY DEF SettledOrder
<1> HIDE DEF early, late
<1> QED BY <1>2, <1>4, <1>5, RoundingKeepsOrder

\* What the function takes from its calls is what any run would take from them.
LEMMA EvaluateLearns ==
  ASSUME IInv, TypeInv, StampInv, AwaitInv, MemoInv, OrderInv, LearntInv, Evaluate
  PROVE  \/ \E ids : Suspends(ids)
         \/ Rejects("child")
         \/ \E learnt : GoesOn(learnt) /\ Led(View, stage + 1, learnt)
<1>1. /\ body = "calls" /\ Missing = {} /\ Alive /\ StageIds \subseteq Known
      /\ IF Stage.op = "first" THEN TakesFirst ELSE Gathers
  BY DEF Evaluate, Missing, Alive
<1>2. /\ StageIds = IdsOf(stage) /\ StageIds \subseteq Ids
      /\ program \in Programs /\ stage \in 1..Len(program) /\ Table(memo)
      /\ TableTypes /\ TableInv
  BY StageNumbers DEF IInv, ShapeInv, TypeInv
<1>3. Led(View, stage, history)
  BY <1>1 DEF LearntInv
<1>4. \A i \in StageIds :
        /\ memo[i].state \in {"pending"} \cup Terminal /\ View[i] # Absent
        /\ memo[i].state \in Terminal => memo[i] = View[i]
  BY <1>1, <1>2 DEF MemoInv, Known
<1>5. CASE Stage.op # "first" /\ Pending(StageIds) = {}
           /\ ~(\E i \in StageIds : memo[i].state = "rejected")
  <2>1. \A i \in StageIds : View[i].state = "resolved"
    BY <1>4, <1>5 DEF Pending, Terminal
  <2>2. program[stage].op # "first"
    BY <1>5 DEF Stage
  <2>3. Won(View, stage, history)
    BY <1>2, <1>4, <2>1, <2>2 DEF Won
  <2>4. Led(View, stage + 1, history)
    BY <1>2, <1>3, <2>2, <2>3, LedGoesOn
  <2>5. GoesOn(history)
    BY <1>1, <1>5 DEF Gathers
  <2> QED BY <2>4, <2>5
<1>6. ASSUME Stage.op = "first", NEW w \in Winners, memo[w].state # "rejected",
             GoesOn(Append(history, w))
      PROVE  Led(View, stage + 1, Append(history, w))
  <2> DEFINE settled == StageIds \ Pending(StageIds)
  <2>1. w \in settled /\ \A i \in settled : SettledOrder(w) <= SettledOrder(i)
    BY DEF Winners
  <2>2. w \in StageIds /\ memo[w].state = "resolved" /\ memo[w] = View[w] /\ w \in Ids
    BY <1>2, <1>4, <1>6, <2>1 DEF Pending, Terminal
  <2>3. ASSUME ~contested, NEW i \in IdsOf(stage) \ {w}, View[i].state \in Terminal
        PROVE  View[w].stamp < View[i].stamp
    <3>1. i \in StageIds /\ i \in Ids /\ i # w
      BY <1>2
    <3>2. CASE memo[i].state = "pending"
      BY <1>1, <1>6, <2>2, <2>3, <3>1, <3>2 DEF OrderInv, Terminal
    <3>3. CASE memo[i].state \in Terminal
      <4>1. SettledOrder(w) <= SettledOrder(i)
        BY <2>1, <3>1, <3>3 DEF Pending, Terminal
      <4>2. memo[i] = View[i]
        BY <1>4, <3>1, <3>3
      <4>3. \/ View[w].stamp + PerMilli <= View[i].stamp
            \/ View[i].stamp + PerMilli <= View[w].stamp
        <5>1. /\ db[w].state \in Terminal /\ db[i].state \in Terminal
              /\ View[w] = db[w] /\ View[i] = db[i]
          BY <1>2, <2>2, <2>3, <3>1, ViewFacts DEF Terminal
        <5>2. Rivals(w, i)
          BY <1>2, <1>6, <2>2, <3>1 DEF Rivals, Stage
        <5> QED BY <2>2, <2>3, <3>1, <5>1, <5>2 DEF StampInv
      <4>4. /\ View[w].stamp \in Nat /\ View[i].stamp \in Nat /\ PerMilli \in Nat \ {0}
            /\ SettledOrder(w) \in Nat /\ SettledOrder(i) \in Nat
        BY <1>2, <2>2, <3>1, ViewFacts, OrderIsNatural, ReplayAssumption DEF Table
      <4>5. ~(View[i].stamp + PerMilli <= View[w].stamp)
        <5>1. ASSUME View[i].stamp + PerMilli <= View[w].stamp
              PROVE  SettledOrder(i) < SettledOrder(w)
          BY <1>6, <2>2, <3>1, <4>2, <5>1, OrderIsStamp
        <5> QED BY <4>1, <4>4, <5>1
      <4> QED BY <4>3, <4>4, <4>5
    <3> QED BY <1>4, <3>1, <3>2, <3>3
  <2>4. w \in IdsOf(stage) /\ View[w].state = "resolved" /\ program[stage].op = "first"
    BY <1>2, <1>6, <2>2 DEF Stage
  <2>5. IdsOf(stage) \subseteq Ids /\ \A i \in IdsOf(stage) : View[i] # Absent
    BY <1>2, <1>4
  <2> QED BY <1>2, <1>3, <2>3, <2>4, <2>5, LedTakes
<1>7. CASE Stage.op # "first"
  <2>1. \/ Suspends(Pending(StageIds))
        \/ Rejects("child")
        \/ Pending(StageIds) = {} /\ ~(\E i \in StageIds : memo[i].state = "rejected")
    BY <1>1, <1>7 DEF Gathers
  <2> QED BY <1>5, <1>7, <2>1
<1>8. CASE Stage.op = "first"
  <2>1. \/ Suspends(StageIds)
        \/ Rejects("child")
        \/ \E w \in Winners : memo[w].state # "rejected" /\ GoesOn(Append(history, w))
    BY <1>1, <1>8 DEF TakesFirst
  <2> QED BY <1>6, <1>8, <2>1
<1> QED BY <1>7, <1>8

\* What the function has learnt stays what its calls say.
LEMMA LearntSteps ==
  ASSUME IInv, TypeInv, StampInv, AwaitInv, QueueInv, MemoInv, OrderInv, LearntInv, [Next]_vars
  PROVE  LearntInv'
<1> SUFFICES ASSUME Alive' PROVE Led(View, stage, history)'
  BY DEF LearntInv
<1>0. /\ program' = program /\ program \in Programs /\ TableTypes /\ TableInv
      /\ stage \in 1..Whole /\ stage + 1 \in 1..Whole
      /\ Drops \/ Follows(View, View')
  BY ProgramStays, TablesGrow, ProgramShape DEF TypeInv, IInv, ShapeInv, Whole, Follows
<1>1. CASE Claim
  <2>1. stage' = 1 /\ history' = <<>>
    BY <1>1 DEF Claim, StartsAfresh
  <2>2. Len(history') = FirstsBefore(stage)'
    <3>1. FirstsBefore(1) = 0
      BY FirstsCount
    <3>2. FirstsBefore(stage)' = FirstsBefore(1)
      BY <1>0, <2>1 DEF FirstsBefore
    <3> QED BY <2>1, <3>1, <3>2
  <2>3. history' \in Seq(Nat) /\ 1..(stage' - 1) = {}
    BY <2>1
  <2> QED BY <2>2, <2>3 DEF Led
<1>2. CASE Alive /\ stage' = stage /\ history' = history
  <2>1. Led(View, stage, history)
    BY <1>2 DEF LearntInv
  <2>2. ~Drops
    BY <1>2 DEF Drops, IInv, CoroutineInv, Alive
  <2> QED BY <1>0, <1>2, <2>1, <2>2, LedLater
<1>3. CASE StartCalls \/ StartSleep
  BY <1>2, <1>3, StartsKeep DEF StartCalls, StartSleep, Alive, Keeps
<1>4. ASSUME NEW learnt, Proceeds(learnt) PROVE Led(View, stage, history)'
  <2>1. /\ body' = "running" /\ stage' = stage + 1 /\ stage < Len(program)
        /\ Evaluate /\ ~Drops
    BY <1>4, ProceedFacts DEF executionVars, Proceeds, Drops, IInv, CoroutineInv
  <2>2. PICK h : GoesOn(h) /\ Led(View, stage + 1, h)
    BY <2>1, EvaluateLearns DEF Suspends, Rejects, Ends
  <2>3. history' = h
    BY <2>1, <2>2 DEF GoesOn
  <2> QED BY <1>0, <2>1, <2>2, <2>3, LedLater
<1>5. ASSUME NEW op \in {"submit", "timer"}, Arrives(op) PROVE Led(View, stage, history)'
  BY <1>2, <1>5, ArrivalFacts
<1>6. CASE Alive /\ (Flush \/ Send \/ (\E i \in Ids : ChildSettles(i)) \/ Unseen)
  BY <1>2, <1>6, StartsKeep DEF Keeps
<1> QED BY <1>1, <1>3, <1>4, <1>5, <1>6, AliveSteps

-----------------------------------------------------------------------------
(* Requests and calls                                                        *)

\* A request of the function asks for calls of its stage, and says what it had
\* learnt when it made them.
Sound(q) ==
  /\ q.op = "settle" => q.ids = {}
  /\ q.ids \subseteq IdsOf(stage)
  /\ q.op = "submit" => Stage.op # "sleep" /\ Led(View, stage, q.fp)
  /\ q.op = "timer" => Stage.op = "sleep"

\* The requests that wait, or hold the lock.
Asked == {lock[n] : n \in 1..Len(lock)}

\* All requests of an open transaction are sound, those that are not sent yet as well.
RequestInv ==
  tx = "open" =>
    /\ \A q \in Asked : Sound(q)
    /\ flushing => Sound(Request("submit", pending.ids, pending.fp))

\* The requests in a queue that one is added to, or taken from.
LEMMA QueueElements ==
  ASSUME NEW S, NEW l \in Seq(S)
  PROVE  /\ \A q : \A n \in 1..Len(Append(l, q)) :
              Append(l, q)[n] = q \/ \E m \in 1..Len(l) : Append(l, q)[n] = l[m]
         /\ l # <<>> => \A n \in 1..Len(Tail(l)) : \E m \in 1..Len(l) : Tail(l)[n] = l[m]
<1>1. ASSUME NEW q, NEW n \in 1..Len(Append(l, q))
      PROVE  Append(l, q)[n] = q \/ \E m \in 1..Len(l) : Append(l, q)[n] = l[m]
  <2>1. n = Len(l) + 1 \/ n \in 1..Len(l)
    OBVIOUS
  <2>2. Append(l, q)[Len(l) + 1] = q /\ \A m \in 1..Len(l) : Append(l, q)[m] = l[m]
    OBVIOUS
  <2> QED BY <2>1, <2>2
<1>2. ASSUME l # <<>>, NEW n \in 1..Len(Tail(l))
      PROVE  \E m \in 1..Len(l) : Tail(l)[n] = l[m]
  <2>1. n + 1 \in 1..Len(l) /\ Tail(l)[n] = l[n + 1]
    BY <1>2
  <2> QED BY <2>1
<1> QED BY <1>1, <1>2

\* The requests in a queue that one is taken out of.
LEMMA RestElements ==
  ASSUME NEW S, NEW l \in Seq(S), NEW k \in 1..Len(l),
         NEW n \in 1..Len(SubSeq(l, 1, k - 1) \o SubSeq(l, k + 1, Len(l)))
  PROVE  \E m \in 1..Len(l) : (SubSeq(l, 1, k - 1) \o SubSeq(l, k + 1, Len(l)))[n] = l[m]
<1> DEFINE a == SubSeq(l, 1, k - 1)
           b == SubSeq(l, k + 1, Len(l))
<1>1. /\ a \in Seq(S) /\ Len(a) = k - 1 /\ \A m \in 1..(k - 1) : a[m] = l[m]
      /\ k \in Nat /\ Len(l) \in Nat /\ k <= Len(l)
  OBVIOUS
<1>2. b \in Seq(S) /\ Len(b) = Len(l) - k /\ \A m \in 1..(Len(l) - k) : b[m] = l[k + m]
  <2>1. CASE k = Len(l)
    BY <1>1, <2>1
  <2>2. CASE k < Len(l)
    <3>1. k + 1 \in 1..Len(l) /\ Len(l) \in 1..Len(l) /\ (k + 1) <= Len(l)
      BY <1>1, <2>2
    <3>2. b \in Seq(S)
      BY <3>1
    <3>3. Len(b) = Len(l) - k
      <4>1. Len(b) = Len(l) - (k + 1) + 1
        BY <3>1
      <4> HIDE DEF b
      <4> QED BY <1>1, <4>1
    <3>4. ASSUME NEW m \in 1..(Len(l) - k) PROVE b[m] = l[k + m]
      <4>1. m \in 1..(Len(l) - (k + 1) + 1)
        BY <1>1, <3>4
      <4>2. b[m] = l[(k + 1) + m - 1]
        BY <3>1, <4>1
      <4> HIDE DEF b
      <4>3. (k + 1) + m - 1 = k + m
        BY <1>1, <3>4
      <4> QED BY <4>2, <4>3
    <3> HIDE DEF b
    <3> QED BY <3>2, <3>3, <3>4
  <2>3. k = Len(l) \/ k < Len(l)
    BY <1>1
  <2> HIDE DEF b
  <2> QED BY <2>1, <2>2, <2>3
<1> HIDE DEF a, b
<1>3. Len(a \o b) = Len(l) - 1 /\ \A m \in 1..Len(a \o b) :
        (a \o b)[m] = IF m <= k - 1 THEN a[m] ELSE b[m - (k - 1)]
  <2>1. /\ Len(a \o b) = Len(a) + Len(b)
        /\ \A m \in 1..(Len(a) + Len(b)) :
             (a \o b)[m] = IF m <= Len(a) THEN a[m] ELSE b[m - Len(a)]
    <3>1. a \in Seq(S) /\ b \in Seq(S)
      BY <1>1, <1>2
    <3> QED BY <3>1
  <2>2. Len(a) = k - 1 /\ Len(b) = Len(l) - k
    BY <1>1, <1>2
  <2>3. Len(a) + Len(b) = Len(l) - 1
    BY <1>1, <2>2
  <2>4. Len(a \o b) = Len(l) - 1
    BY <2>1, <2>3
  <2> QED BY <2>1, <2>2, <2>3, <2>4
<1>4. n \in 1..Len(a \o b)
  BY DEF a, b
<1>5. CASE n <= k - 1
  <2>1. n \in 1..(k - 1) /\ n \in 1..Len(l)
    BY <1>1, <1>4, <1>5
  <2>2. (a \o b)[n] = l[n]
    BY <1>1, <1>3, <1>4, <1>5, <2>1
  <2> QED BY <2>1, <2>2 DEF a, b
<1>6. CASE ~(n <= k - 1)
  <2>1. n - (k - 1) \in 1..(Len(l) - k) /\ k + (n - (k - 1)) \in 1..Len(l)
    BY <1>1, <1>3, <1>4, <1>6
  <2>2. (a \o b)[n] = l[k + (n - (k - 1))]
    BY <1>2, <1>3, <1>4, <1>6, <2>1
  <2> QED BY <2>1, <2>2 DEF a, b
<1> QED BY <1>5, <1>6

\* What a step adds to the requests that are waiting.
LEMMA AskedMoves ==
  ASSUME RunTypes, [Next]_vars
  PROVE  \/ Asked' \subseteq Asked
         \/ StartSleep /\ Asked' \subseteq Asked \cup {Request("timer", Missing, <<attempt>>)}
         \/ Flush /\ Asked' \subseteq Asked \cup {Request("submit", pending.ids, pending.fp)}
         \/ SettleExecution /\ Asked' \subseteq Asked \cup {Request("settle", {}, <<>>)}
<1>0. lock \in Seq(Requests)
  BY DEF RunTypes
<1>1. lock' = lock \/ lock' = <<>> => Asked' \subseteq Asked
  BY DEF Asked
<1>2. ASSUME NEW q, lock' = Append(lock, q) PROVE Asked' \subseteq Asked \cup {q}
  BY <1>0, <1>2, QueueElements DEF Asked
<1>3. ASSUME lock # <<>>, lock' = Tail(lock) PROVE Asked' \subseteq Asked
  BY <1>0, <1>3, QueueElements DEF Asked
<1>4. ASSUME NEW op, lock' = Withdrawn(op) PROVE Asked' \subseteq Asked
  <2> DEFINE places == {n \in 1..Len(lock) : lock[n].op = op}
             k == CHOOSE n \in places : TRUE
  <2>1. CASE places = {}
    BY <1>1, <1>4, <2>1 DEF Withdrawn
  <2>2. CASE places # {}
    <3>1. k \in places
      BY <2>2
    <3>2. lock' = SubSeq(lock, 1, k - 1) \o SubSeq(lock, k + 1, Len(lock))
      BY <1>4, <2>2 DEF Withdrawn
    <3>3. k \in 1..Len(lock)
      BY <3>1
    <3> HIDE DEF k, places
    <3>4. \A n \in 1..Len(lock') : \E m \in 1..Len(lock) : lock'[n] = lock[m]
      BY <1>0, <3>2, <3>3, RestElements
    <3> QED BY <3>4 DEF Asked
  <2> QED BY <2>1, <2>2
<1> HIDE DEF Asked
<1>5. CASE Claim \/ NoClaim \/ FunctionUnavailable
  <2>1. lock' = lock
    BY <1>5 DEF Claim, ClaimTask, NoClaim, ClaimNothing, ClaimFails, FunctionUnavailable
  <2> QED BY <1>1, <2>1
<1>6. CASE StartSleep
  <2>1. \/ lock' = lock
        \/ Missing # {} /\ lock' = Append(lock, Request("timer", Missing, <<attempt>>))
    BY <1>6 DEF StartSleep, AskLock, Missing
  <2> QED BY <1>1, <1>2, <1>6, <2>1
<1>7. CASE StartCalls \/ Raises \/ Evaluate \/ Send
  <2>1. lock' = lock
    BY <1>7 DEF StartCalls, Raises, Evaluate, executionVars, Send, Sends
  <2> QED BY <1>1, <2>1
<1>8. CASE TimesOut \/ Stopped
  <2>1. lock' = lock \/ \E op : lock' = Withdrawn(op)
    BY <1>8 DEF TimesOut, Stopped
  <2> QED BY <1>1, <1>4, <2>1
<1>9. CASE Flush
  BY <1>2, <1>9 DEF Flush, FlushSubmissions
<1>10. CASE SettleExecution
  BY <1>2, <1>10 DEF SettleExecution, AskLock
<1>11. ASSUME NEW op \in {"submit", "timer"},
              PromisesArrive(op) \/ PromisesFail(op) \/ PromisesRefused(op)
       PROVE  Asked' \subseteq Asked
  <2>1. lock # <<>> /\ lock' = Tail(lock)
    BY <1>11 DEF PromisesArrive, PromisesFail, PromisesRefused, Answered, StatementFails, Refused
  <2> QED BY <1>3, <2>1
<1>12. CASE OutcomeRecorded \/ OutcomeFails
  <2>1. lock # <<>> /\ lock' = Tail(lock)
    <3>1. CASE OutcomeRecorded
      BY <3>1 DEF OutcomeRecorded, RecordOutcome, Answered
    <3>2. CASE StatementFails("settle")
      BY <3>2 DEF StatementFails, Answered
    <3>3. CASE Refused("settle")
      BY <3>3 DEF Refused
    <3> QED BY <1>12, <3>1, <3>2, <3>3 DEF OutcomeFails
  <2> QED BY <1>3, <2>1
<1>13. CASE EndOfClaim
  <2>1. CASE CancelSubmissions \/ TransactionRefused \/ ReleaseConnection
    BY <1>1, <2>1 DEF CancelSubmissions, TransactionRefused, ReleaseConnection
  <2>2. CASE CommitTransaction \/ CommitLost \/ RollBack
    BY <1>1, <2>2 DEF CommitTransaction, CommitLost, RollBack
  <2>3. CASE StatementDies
    BY <1>3, <2>3 DEF StatementDies, RunTypes
  <2> QED BY <1>13, <2>1, <2>2, <2>3 DEF EndOfClaim
<1>14. CASE (\E i \in Ids : ChildSettles(i)) \/ Unseen
  <2>1. lock' = lock
    BY <1>14, UnseenLeaves DEF ChildSettles, executionVars
  <2> QED BY <1>1, <2>1
<1> QED BY <1>5, <1>6, <1>7, <1>8, <1>9, <1>10, <1>11, <1>12, <1>13, <1>14
    DEF Next, Worker, Child, Unseen

\* A transaction begins when no coroutine of the task asks for anything.
LEMMA OpenSteps ==
  ASSUME IInv, [Next]_vars, tx # "open", tx' = "open"
  PROVE  lock' = <<>> /\ ~flushing'
<1> USE DEF session
<1>1. CASE Claim \/ NoClaim
  <2>1. MayClaim /\ UNCHANGED <<lock, flushing>>
    BY <1>1 DEF Claim, ClaimTask, NoClaim, ClaimNothing, ClaimFails, submissions
  <2> QED BY <2>1 DEF MayClaim, IInv, ConnectionInv
<1>2. CASE FunctionUnavailable \/ StartCalls \/ StartSleep \/ Raises \/ Evaluate \/ TimesOut
  BY <1>2 DEF FunctionUnavailable, StartCalls, StartSleep, Raises, Evaluate, executionVars,
              TimesOut
<1>3. CASE Flush \/ Send
  BY <1>3 DEF Flush, FlushSubmissions, Send, Sends
<1>4. ASSUME NEW op \in {"submit", "timer"},
             PromisesArrive(op) \/ PromisesFail(op) \/ PromisesRefused(op)
      PROVE  FALSE
  BY <1>4 DEF PromisesArrive, PromisesFail, PromisesRefused, StatementFails, Refused
<1>5. CASE SettleExecution \/ OutcomeRecorded
  BY <1>5 DEF SettleExecution, OutcomeRecorded, RecordOutcome
<1>6. CASE OutcomeFails \/ Stopped
  BY <1>6 DEF OutcomeFails, StatementFails, Refused, Stopped
<1>7. CASE EndOfClaim
  BY <1>7 DEF EndOfClaim, CancelSubmissions, TransactionRefused, CommitTransaction, CommitLost,
              RollBack, ReleaseConnection, StatementDies
<1>8. CASE (\E i \in Ids : ChildSettles(i)) \/ Unseen
  BY <1>8, UnseenLeaves DEF ChildSettles, executionVars
<1> QED BY <1>1, <1>2, <1>3, <1>4, <1>5, <1>6, <1>7, <1>8 DEF Next, Worker, Child, Unseen

\* Requests stay sound: they are withdrawn when the function leaves their stage.
LEMMA RequestSteps ==
  ASSUME IInv, TypeInv, StampInv, QueueInv, BatchInv, LearntInv, RequestInv, [Next]_vars
  PROVE  RequestInv'
<1> SUFFICES ASSUME tx' = "open" PROVE RequestInv'
  BY DEF RequestInv
<1>0. /\ program' = program /\ TableTypes /\ TableInv /\ RunTypes /\ program \in Programs
      /\ (contested => contested') /\ stage \in 1..Whole
  BY ProgramStays, ProgramShape DEF TypeInv, IInv, ShapeInv, Whole
<1>1. CASE lock' = <<>> /\ ~flushing'
  <2>1. Asked' = {}
    BY <1>1 DEF Asked
  <2> QED BY <1>1, <2>1 DEF RequestInv
<1>2. CASE tx # "open"
  BY <1>1, <1>2, OpenSteps
<1>3. ASSUME tx = "open", Claim \/ \E learnt : Proceeds(learnt) PROVE RequestInv'
  <2>1. ~Claim
    BY <1>3 DEF Claim, ClaimTask, MayClaim, IInv, ConnectionInv
  <2>2. ASSUME NEW learnt, Proceeds(learnt) PROVE lock' = <<>> /\ ~flushing'
    BY <2>2, ProceedFacts DEF QueueInv, Quiet, executionVars
  <2> QED BY <1>1, <1>3, <2>1, <2>2
<1>4. CASE tx = "open" /\ StaysPut
  <2>1. Follows(View, View') /\ stage' = stage /\ Stage' = Stage
    BY <1>0, <1>4, TablesGrow DEF StaysPut, Stage, Follows, Drops
  <2>2. IdsOf(stage)' = IdsOf(stage)
    BY <1>0, <2>1 DEF IdsOf
  <2>3. ASSUME NEW q, Sound(q) PROVE Sound(q)'
    <3>1. q.op = "submit" => Led(View, stage, q.fp)'
      BY <1>0, <2>1, <2>3, LedLater DEF Sound
    <3> QED BY <2>1, <2>2, <2>3, <3>1 DEF Sound
  <2>4. IdsOf(stage) = StageIds
    BY StageNumbers DEF IInv, TypeInv
  <2>5. \A q \in Asked' : Sound(q)
    <3>1. CASE Asked' \subseteq Asked
      BY <1>4, <3>1 DEF RequestInv
    <3>2. CASE StartSleep /\ Asked' \subseteq Asked \cup {Request("timer", Missing, <<attempt>>)}
      <4>1. Sound(Request("timer", Missing, <<attempt>>))
        BY <2>4, <3>2 DEF Sound, Request, Missing, StartSleep
      <4> QED BY <1>4, <3>2, <4>1 DEF RequestInv
    <3>3. CASE Flush /\ Asked' \subseteq Asked \cup {Request("submit", pending.ids, pending.fp)}
      BY <1>4, <3>3 DEF RequestInv, Flush, FlushSubmissions
    <3>4. CASE SettleExecution /\ Asked' \subseteq Asked \cup {Request("settle", {}, <<>>)}
      <4>1. Sound(Request("settle", {}, <<>>))
        BY DEF Sound, Request
      <4> QED BY <1>4, <3>4, <4>1 DEF RequestInv
    <3> QED BY <1>0, <3>1, <3>2, <3>3, <3>4, AskedMoves
  <2>6. flushing' => Sound(Request("submit", pending'.ids, pending'.fp))
    <3>1. CASE UNCHANGED <<pending, flushing>>
      BY <1>4, <3>1 DEF RequestInv
    <3>2. CASE StartCalls
      <4>1. body = "running" /\ Stage.op # "sleep" /\ Quiet /\ Alive
        BY <3>2 DEF StartCalls, QueueInv, Alive
      <4>2. \/ UNCHANGED <<pending, flushing>>
            \/ pending' = [ids |-> pending.ids \cup Missing, fp |-> history]
        BY <3>2 DEF StartCalls, Submit, submissions, Missing, CallInput
      <4>3. pending.ids = {} /\ ~flushing /\ Missing \subseteq StageIds
        BY <4>1 DEF Quiet, NoCalls, Missing
      <4>4. Led(View, stage, history)
        BY <4>1 DEF LearntInv
      <4>5. Sound(Request("submit", Missing, history))
        BY <2>4, <4>1, <4>3, <4>4 DEF Sound, Request
      <4>6. CASE UNCHANGED flushing
        BY <4>3, <4>6
      <4>7. CASE pending' = [ids |-> pending.ids \cup Missing, fp |-> history]
        <5>1. pending'.ids = Missing /\ pending'.fp = history
          BY <4>3, <4>7
        <5> QED BY <4>5, <5>1
      <4> QED BY <4>2, <4>6, <4>7
    <3> QED BY <3>1, <3>2, BatchMoves
  <2>7. \A q \in Asked' : Sound(q)'
    BY <2>3, <2>5
  <2>8. flushing' => Sound(Request("submit", pending.ids, pending.fp))'
    BY <2>3, <2>6 DEF Request
  <2> QED BY <2>7, <2>8 DEF RequestInv
<1> QED BY <1>2, <1>3, <1>4, StageMoves

\* Every call that was made was made by a run that had learnt the same.
CallsPlain(t) ==
  \A s \in 1..Len(program) : program[s].op # "sleep" =>
    \A i \in IdsOf(s) : t[i] # Absent => Led(t, s, t[i].fp)

\* That goes for the calls that are committed, and for those the transaction sees.
CallsInv == CallsPlain(db) /\ CallsPlain(View)

\* It stays true when it is true of the calls that are new.
LEMMA CallsLater ==
  ASSUME NEW t, NEW u, Follows(t, u), program \in Programs, CallsPlain(t),
         \A s \in 1..Len(program) : program[s].op # "sleep" =>
           \A i \in IdsOf(s) : t[i] = Absent /\ u[i] # Absent => Led(u, s, u[i].fp)'
  PROVE  CallsPlain(u)'
<1>0. program' = program /\ Len(program) \in Nat /\ \A s : IdsOf(s)' = IdsOf(s)
  BY ProgramShape DEF Follows, IdsOf
<1>1. ASSUME NEW s \in 1..Len(program), program[s].op # "sleep",
             NEW i \in IdsOf(s), u[i] # Absent
      PROVE  Led(u, s, u[i].fp)'
  <2>1. i \in Ids /\ s \in 1..Whole
    BY <1>0, StagesApart DEF Whole
  <2>2. CASE t[i] # Absent
    <3>1. Led(t, s, t[i].fp) /\ u[i].fp = t[i].fp
      BY <1>1, <2>1, <2>2 DEF CallsPlain, Follows, Later
    <3> QED BY <2>1, <3>1, LedLater
  <2> QED BY <1>1, <2>2
<1> QED BY <1>0, <1>1 DEF CallsPlain

\* Only a sound request inserts calls.
LEMMA CallsSteps ==
  ASSUME IInv, TypeInv, StampInv, RequestInv, CallsInv, [Next]_vars
  PROVE  CallsInv'
<1>0. /\ program' = program /\ program \in Programs /\ TableTypes /\ TableInv /\ RunTypes
      /\ \A s \in 1..Len(program) : IdsOf(s) \subseteq Ids
      /\ \A s \in 1..Len(program) : s \in 1..Whole
      /\ Follows(db, db') /\ (Drops \/ Follows(View, View'))
  BY ProgramStays, StagesApart, ProgramShape, TablesGrow
     DEF IInv, ShapeInv, TypeInv, Whole, Follows
<1>1. CASE UNCHANGED <<row, db, mine>> \/ \E c \in Ids : ChildSettles(c)
  <2>1. /\ \A i \in Ids : db[i] = Absent => db'[i] = Absent
        /\ \A i \in Ids : View[i] = Absent => View'[i] = Absent
    <3>1. CASE UNCHANGED <<row, db, mine>>
      BY <3>1 DEF View, Visible
    <3>2. ASSUME NEW c \in Ids, ChildSettles(c)
          PROVE  \A i \in Ids : /\ db[i] = Absent => db'[i] = Absent
                                /\ View[i] = Absent => View'[i] = Absent
      <4>1. /\ \A i \in Ids : i # c => db'[i] = db[i] /\ View'[i] = View[i]
            /\ View[c] = db[c] /\ db[c].state = "pending"
        BY <1>0, <3>2, ChildView
      <4>2. db[c] # Absent /\ View[c] # Absent
        BY <4>1 DEF Absent, Promise
      <4> QED BY <4>1, <4>2
    <3> QED BY <1>1, <3>1, <3>2
  <2>2. ~Drops \/ View' = View
    BY <1>1 DEF Drops, ChildSettles, View, Visible, session
  <2>3. Follows(View, View')
    <3>1. Later(View, View)
      BY <1>0, ViewFacts DEF Later
    <3> QED BY <1>0, <2>2, <3>1, ProgramStays DEF Follows
  <2>4. CallsPlain(db)' /\ CallsPlain(View)'
    BY <1>0, <2>1, <2>3, CallsLater DEF CallsInv
  <2> QED BY <2>4 DEF CallsInv
<1>2. CASE Inserts
  <2> DEFINE q == Head(lock)
  <2>1. db' = db /\ mine' = Inserted(q.ids, q.fp) /\ lock # <<>> /\ tx = "open"
    BY <1>0, <1>2 DEF Inserts, RunTypes, IInv, ConnectionInv, CoroutineInv
  <2>2. q \in Requests /\ q = lock[1] /\ 1 \in 1..Len(lock)
    BY <1>0, <2>1, HolderTypes DEF RunTypes
  <2>3. Sound(q)
    BY <2>1, <2>2 DEF RequestInv, Asked
  <2>4. Later(View, View') /\ \A i \in Ids :
          View'[i] = IF i \in q.ids /\ View[i] = Absent
                     THEN Promise("pending", q.fp, 0) ELSE View[i]
    BY <1>0, <2>1, InsertsView
  <2>5. Promise("pending", q.fp, 0).fp = q.fp
    BY DEF Promise
  <2> HIDE DEF q
  <2>6. Follows(View, View')
    BY <1>0, <2>4, ProgramStays DEF Follows
  <2>7. ASSUME NEW s \in 1..Len(program), program[s].op # "sleep",
               NEW i \in IdsOf(s), View[i] = Absent, View'[i] # Absent
        PROVE  Led(View, s, View[i].fp)'
    <3>1. i \in q.ids /\ View'[i].fp = q.fp
      BY <1>0, <2>4, <2>5, <2>7
    <3>2. i \in IdsOf(stage) /\ stage \in 1..Len(program)
      BY <1>0, <2>3, <3>1 DEF Sound, RunTypes
    <3>3. s = stage
      BY <1>0, <2>7, <3>2, StagesApart
    <3>4. q.op = "submit"
      BY <2>2, <2>3, <2>7, <3>1, <3>3 DEF Requests, Sound, Stage
    <3>5. Led(View, s, q.fp)
      BY <2>3, <3>3, <3>4 DEF Sound
    <3> QED BY <1>0, <2>6, <3>1, <3>5, LedLater
  <2>8. CallsPlain(View)' /\ CallsPlain(db)'
    BY <1>0, <2>1, <2>7, <2>6, CallsLater DEF CallsInv
  <2> QED BY <2>8 DEF CallsInv
<1>3. CASE Comes
  <2>1. db' = View /\ View' = View
    BY <1>3 DEF Comes, View, Visible, Nothing
  <2>2. Follows(View, View')
    BY <1>0, <2>1, ViewFacts, ProgramStays DEF Follows, Later
  <2>3. CallsPlain(View)'
    BY <1>0, <2>1, <2>2, CallsLater DEF CallsInv
  <2> QED BY <2>1, <2>3 DEF CallsInv, CallsPlain
<1>4. CASE Drops
  <2>1. db' = db /\ mine' = Nothing
    BY <1>4 DEF Drops
  <2>2. db = [i \in Ids |-> db[i]]
    BY DEF IInv, ShapeInv, Table
  <2>3. View' = db /\ db' = db
    BY <2>1, <2>2 DEF View, Visible, Nothing
  <2>4. CallsPlain(db)'
    BY <1>0, <2>1, CallsLater DEF CallsInv
  <2> QED BY <2>3, <2>4 DEF CallsInv, CallsPlain
<1> QED BY <1>1, <1>2, <1>3, <1>4, TableSteps

\* How a result comes about.
LEMMA ResultMoves ==
  ASSUME IInv, [Next]_vars, body' \in {"over", "settling"}
  PROVE  \/ result' = result /\ body \in {"over", "settling"}
         \/ result'.state # "resolved" /\ result'.error # "conflict" /\ result'.awaited = {}
         \/ Evaluate /\ result'.error # "conflict"
         \/ \E op \in {"submit", "timer"} :
              /\ PromisesArrive(op) /\ Awaits(op) /\ Conflict(Head(lock).ids, Head(lock).fp)
              /\ result' = Result("rejected", {}, "conflict", <<>>)
<1> USE DEF bodyVars
<1>1. CASE Claim \/ FunctionUnavailable \/ StartCalls \/ StartSleep
  BY <1>1 DEF Claim, FunctionUnavailable, StartCalls, StartSleep
<1>2. CASE NoClaim
  BY <1>2 DEF NoClaim
<1>3. CASE Raises \/ TimesOut
  <2>1. Ends(Result("retry", {}, "retryable", <<>>)) \/ Ends(Result("retry", {}, "timeout", <<>>))
    BY <1>3 DEF Raises, TimesOut, Retries
  <2> QED BY <2>1 DEF Ends, Result
<1>4. CASE Evaluate
  <2>1. \/ \E ids : Suspends(ids)
        \/ Rejects("child")
        \/ \E learnt : GoesOn(learnt)
    BY <1>4 DEF Evaluate, TakesFirst, Gathers
  <2>2. ASSUME NEW learnt, GoesOn(learnt) PROVE result'.error # "conflict"
    <3>1. Ends(Result("resolved", {}, "none", learnt))
      BY <2>2 DEF GoesOn
    <3> QED BY <3>1 DEF Ends, Result
  <2> QED BY <1>4, <2>1, <2>2 DEF Suspends, Rejects, Ends, Result
<1>5. CASE Flush \/ Send
  BY <1>5 DEF Flush, Send
<1>6. ASSUME NEW op \in {"submit", "timer"}, PromisesArrive(op)
      PROVE  \/ result' = result /\ body' = body
             \/ /\ Awaits(op) /\ Conflict(Head(lock).ids, Head(lock).fp)
                /\ result' = Result("rejected", {}, "conflict", <<>>)
  BY <1>6 DEF PromisesArrive, Rejects, Ends
<1>7. ASSUME NEW op \in {"submit", "timer"}, PromisesFail(op) \/ PromisesRefused(op)
      PROVE  \/ result' = result /\ body' = body
             \/ result'.state # "resolved" /\ result'.error # "conflict" /\ result'.awaited = {}
  BY <1>7 DEF PromisesFail, PromisesRefused, Rejects, Ends, Result
<1>8. CASE SettleExecution \/ OutcomeRecorded \/ OutcomeFails \/ Stopped
  BY <1>8 DEF SettleExecution, OutcomeRecorded, OutcomeFails, Stopped, Leaves
<1>9. CASE EndOfClaim
  BY <1>9 DEF EndOfClaim
<1>10. CASE (\E i \in Ids : ChildSettles(i)) \/ Unseen
  BY <1>10, UnseenLeaves DEF ChildSettles
<1> QED BY <1>1, <1>2, <1>3, <1>4, <1>5, <1>6, <1>7, <1>8, <1>9, <1>10
    DEF Next, Worker, Child, Unseen

\* What a claim that is over is going to commit.
LEMMA DrawnMoves ==
  ASSUME IInv, [Next]_vars, claim' \in {"exiting", "ending"}, Commits'
  PROVE  \/ OutcomeRecorded /\ body = "settling" /\ drawn' = result
         \/ claim \in {"exiting", "ending"} /\ Commits /\ drawn' = drawn
<1> USE DEF Commits, session, store
<1>1. CASE Claim \/ NoClaim
  BY <1>1 DEF Claim, ClaimTask, NoClaim, ClaimNothing, ClaimFails
<1>2. CASE FunctionUnavailable \/ StartCalls \/ StartSleep \/ Raises \/ Evaluate \/ TimesOut
  <2>1. finished' = finished /\ body # "none"
    BY <1>2 DEF FunctionUnavailable, StartCalls, StartSleep, Raises, Evaluate, executionVars,
                TimesOut
  <2> QED BY <2>1 DEF IInv, CoroutineInv
<1>3. CASE Flush \/ Send
  BY <1>3 DEF Flush, FlushSubmissions, Send, Sends
<1>4. ASSUME NEW op \in {"submit", "timer"},
             PromisesArrive(op) \/ PromisesFail(op) \/ PromisesRefused(op)
      PROVE  UNCHANGED <<claim, raised, finished, drawn>>
  BY <1>4 DEF PromisesArrive, PromisesFail, PromisesRefused, StatementFails, Refused
<1>5. CASE SettleExecution \/ OutcomeRecorded
  BY <1>5 DEF SettleExecution, OutcomeRecorded, RecordOutcome
<1>6. CASE OutcomeFails \/ Stopped
  BY <1>6 DEF OutcomeFails, Stopped, Leaves
<1>7. CASE EndOfClaim
  BY <1>7 DEF EndOfClaim, CancelSubmissions, TransactionRefused, CommitTransaction, CommitLost,
              RollBack, ReleaseConnection, StatementDies
<1>8. CASE (\E i \in Ids : ChildSettles(i)) \/ Unseen
  BY <1>8, UnseenLeaves DEF ChildSettles, executionVars
<1> QED BY <1>1, <1>2, <1>3, <1>4, <1>5, <1>6, <1>7, <1>8 DEF Next, Worker, Child, Unseen

-----------------------------------------------------------------------------
(* Results and conflicts                                                     *)

\* What a task resolves with is what its calls say.
ResultInv ==
  /\ body \in {"over", "settling"} /\ result.state = "resolved" => Led(View, Whole, result.value)
  /\ claim \in {"exiting", "ending"} /\ Commits /\ drawn.state = "resolved"
       => Led(View, Whole, drawn.value)
  /\ row.state = "resolved" => Led(db, Whole, row.value)

\* A timer was committed and is not waited for.
Forgotten ==
  \E s \in 1..Len(program) :
    program[s].op = "sleep" /\ \E i \in IdsOf(s) : db[i] # Absent /\ i \notin row.waits

\* What a conflict comes from: such a timer, or a first whose settlements were contested.
Excused == contested \/ Forgotten

\* A conflict that is known, is going to be committed or has been is excused, and
\* nothing is awaited with it.
ConflictInv ==
  /\ body \in {"over", "settling"} /\ result.error = "conflict"
       => result.awaited = {} /\ Excused
  /\ claim \in {"exiting", "ending"} /\ Commits /\ drawn.error = "conflict"
       => drawn.awaited = {} /\ Excused
  /\ row.error = "conflict" => Excused

\* What the row of the task becomes.
LEMMA RowMoves ==
  ASSUME [Next]_vars
  PROVE  row' = row \/ (Comes /\ row' = Recorded(drawn))
BY TableSteps DEF Inserts, Comes, Drops, ChildSettles

\* A stage awaits all of its promises, or is no first.
LEMMA EvaluateAwaits ==
  ASSUME IInv, TypeInv, Evaluate, body' \in {"over", "settling"}
  PROVE  Evenly(result'.awaited)
<1>1. /\ StageIds = IdsOf(stage) /\ stage \in 1..Len(program) /\ program \in Programs
      /\ IF Stage.op = "first" THEN TakesFirst ELSE Gathers
  BY StageNumbers DEF IInv, ShapeInv, TypeInv, Evaluate
<1>2. ASSUME NEW s \in 1..Len(program), s # stage PROVE IdsOf(s) \cap StageIds = {}
  BY <1>1, <1>2, StagesApart
<1>3. ASSUME result'.awaited = {} PROVE Evenly(result'.awaited)
  BY <1>3 DEF Evenly
<1>4. ASSUME Rejects("child") \/ \E learnt : GoesOn(learnt) PROVE result'.awaited = {}
  BY <1>4 DEF Rejects, GoesOn, Ends, Result
<1>5. CASE Stage.op = "first"
  <2>1. CASE Suspends(StageIds)
    <3>1. result'.awaited = StageIds
      BY <2>1 DEF Suspends, Ends, Result
    <3> QED BY <1>1, <1>2, <3>1 DEF Evenly
  <2>2. CASE ~Suspends(StageIds)
    BY <1>1, <1>3, <1>4, <1>5, <2>2 DEF TakesFirst
  <2> QED BY <2>1, <2>2
<1>6. CASE Stage.op # "first"
  <2>1. CASE Suspends(Pending(StageIds))
    <3>1. result'.awaited = Pending(StageIds) /\ Pending(StageIds) \subseteq StageIds
      BY <2>1 DEF Suspends, Ends, Result, Pending
    <3>2. ASSUME NEW s \in 1..Len(program), program[s].op = "first"
          PROVE  IdsOf(s) \cap result'.awaited = {}
      <4>1. s # stage
        BY <1>6, <3>2 DEF Stage
      <4> QED BY <1>2, <3>1, <4>1
    <3> QED BY <3>2 DEF Evenly
  <2>2. CASE ~Suspends(Pending(StageIds))
    BY <1>1, <1>3, <1>4, <1>6, <2>2 DEF Gathers
  <2> QED BY <2>1, <2>2
<1> QED BY <1>5, <1>6

\* What a function awaits, and its task waits for, has all of a first or nothing of it.
LEMMA AwaitSteps ==
  ASSUME IInv, TypeInv, AwaitInv, [Next]_vars
  PROVE  AwaitInv'
<1>0. program' = program /\ \A ids : Evenly(ids)' <=> Evenly(ids)
  BY ProgramStays DEF Evenly, IdsOf
<1>1. ASSUME body' \in {"over", "settling"} PROVE Evenly(result'.awaited)
  <2>1. Evenly({})
    BY DEF Evenly
  <2>2. Result("rejected", {}, "conflict", <<>>).awaited = {}
    BY DEF Result
  <2> QED BY <1>1, <2>1, <2>2, ResultMoves, EvaluateAwaits DEF AwaitInv
<1>2. ASSUME claim' \in {"exiting", "ending"}, Commits' PROVE Evenly(drawn'.awaited)
  BY <1>2, DrawnMoves DEF AwaitInv
<1>3. Evenly(row'.waits)
  <2>1. CASE row' = row
    BY <2>1 DEF AwaitInv
  <2>2. CASE Comes /\ row' = Recorded(drawn)
    <3>1. row'.waits = row.waits \cup drawn.awaited
      BY <2>2 DEF Recorded
    <3>2. Evenly(row.waits) /\ Evenly(drawn.awaited)
      BY <2>2 DEF AwaitInv, Comes
    <3> QED BY <3>1, <3>2 DEF Evenly
  <2> QED BY <2>1, <2>2, RowMoves
<1>4. Evenly(row.waits)'
  BY <1>0, <1>3
<1>5. (body \in {"over", "settling"} => Evenly(result.awaited))'
  BY <1>0, <1>1
<1>6. (claim \in {"exiting", "ending"} /\ Commits => Evenly(drawn.awaited))'
  BY <1>0, <1>2
<1> QED BY <1>4, <1>5, <1>6 DEF AwaitInv

\* The result of a function says what its calls say, and so does what is recorded.
LEMMA ResultSteps ==
  ASSUME IInv, IInv', TypeInv, StampInv, AwaitInv, MemoInv, OrderInv, LearntInv, ResultInv,
         [Next]_vars
  PROVE  ResultInv'
<1>0. /\ program' = program /\ program \in Programs /\ TableTypes /\ TableInv
      /\ Whole' = Whole /\ Whole \in 1..Whole
      /\ Follows(db, db') /\ (Drops \/ Follows(View, View'))
  BY ProgramStays, ProgramShape, TablesGrow DEF IInv, ShapeInv, TypeInv, Whole, Follows
<1>1. ASSUME body' \in {"over", "settling"}, result'.state = "resolved"
      PROVE  Led(View, Whole, result.value)'
  <2>1. claim' = "held"
    BY <1>1 DEF IInv, CoroutineInv
  <2>2. ~Drops
    BY <2>1 DEF Drops
  <2>3. CASE result' = result /\ body \in {"over", "settling"}
    <3>1. Led(View, Whole, result.value)
      BY <1>1, <2>3 DEF ResultInv
    <3> QED BY <1>0, <2>2, <2>3, <3>1, LedLater
  <2>4. CASE Evaluate
    <3>1. PICK learnt : GoesOn(learnt) /\ Led(View, stage + 1, learnt)
      BY <1>1, <2>4, EvaluateLearns DEF Suspends, Rejects, Ends, Result
    <3>2. ~(stage < Len(program)) /\ result' = Result("resolved", {}, "none", learnt)
      BY <1>1, <3>1 DEF GoesOn, Ends
    <3>3. stage + 1 = Whole /\ result'.value = learnt
      BY <3>2, ProgramShape DEF IInv, ShapeInv, Whole, Result
    <3> QED BY <1>0, <2>2, <3>1, <3>3, LedLater
  <2>5. \A op : result' = Result("rejected", {}, "conflict", <<>>) => FALSE
    BY <1>1 DEF Result
  <2> QED BY <1>1, <2>3, <2>4, <2>5, ResultMoves
<1>2. ASSUME claim' \in {"exiting", "ending"}, Commits', drawn'.state = "resolved"
      PROVE  Led(View, Whole, drawn.value)'
  <2>1. ~Drops
    <3>1. tx' = "open"
      BY <1>2 DEF IInv, ConnectionInv
    <3> QED BY <3>1 DEF Drops
  <2>2. Led(View, Whole, drawn'.value)
    BY <1>2, DrawnMoves DEF ResultInv
  <2> QED BY <1>0, <2>1, <2>2, LedLater
<1>3. ASSUME row'.state = "resolved" PROVE Led(db, Whole, row.value)'
  <2>1. CASE row' = row
    <3>1. Led(db, Whole, row.value)
      BY <1>3, <2>1 DEF ResultInv
    <3> QED BY <1>0, <2>1, <3>1, LedLater
  <2>2. CASE Comes /\ row' = Recorded(drawn)
    <3>1. drawn.state = "resolved"
      <4>1. row'.state = CASE drawn.state \in Terminal -> drawn.state
                           [] drawn.state = "retry" /\ row.failures + 1 >= MaxFailures -> "rejected"
                           [] OTHER -> "pending"
        BY <2>2 DEF Recorded
      <4> QED BY <1>3, <4>1 DEF Terminal
    <3>2. row'.value = drawn.value /\ db' = View
      BY <2>2 DEF Recorded, Comes
    <3>3. Led(View, Whole, drawn.value)
      BY <2>2, <3>1 DEF ResultInv, Comes
    <3>4. Follows(View, db')
      BY <1>0, <3>2, ViewFacts, ProgramStays DEF Follows, Later
    <3> QED BY <1>0, <3>2, <3>3, <3>4, LedLater
  <2> QED BY <2>1, <2>2, RowMoves
<1> QED BY <1>1, <1>2, <1>3 DEF ResultInv

\* A request conflicts with another attempt's only when a first was contested or when it
\* is a timer that has been forgotten.
LEMMA ConflictForgotten ==
  ASSUME IInv, TypeInv, QueueInv, MemoInv, LearntInv, CallsInv,
         NEW op \in {"submit", "timer"}, lock # <<>>, Head(lock).op = op, Awaits(op),
         Conflict(Head(lock).ids, Head(lock).fp)
  PROVE  Excused
<1> SUFFICES ASSUME ~contested PROVE Forgotten
  BY DEF Excused
<1>1. /\ Alive /\ StageIds = IdsOf(stage) /\ StageIds \subseteq Ids
      /\ program \in Programs /\ stage \in 1..Len(program) /\ TableTypes /\ TableInv
      /\ stage \in 1..Whole
  BY StageNumbers, ProgramShape DEF Alive, Awaits, IInv, ShapeInv, TypeInv, Whole
<1>2. PICK i \in Head(lock).ids : Visible(i) # Absent /\ Visible(i).fp # Head(lock).fp
  BY DEF Conflict
<1>3. CASE op = "submit"
  <2>1. Head(lock) = Request("submit", Missing, history) /\ Stage.op # "sleep"
    <3>1. lock = <<Request("submit", Missing, history)>> /\ Stage.op # "sleep"
      BY <1>1, <1>3, HolderWaits
    <3> QED BY <3>1
  <2>2. i \in Missing /\ Visible(i).fp # history
    BY <1>2, <2>1 DEF Request
  <2>3. i \in IdsOf(stage) /\ i \in Ids /\ View[i] = Visible(i) /\ program[stage].op # "sleep"
    BY <1>1, <2>1, <2>2 DEF Missing, View, Stage
  <2>4. Led(View, stage, View[i].fp) /\ Led(View, stage, history)
    BY <1>1, <1>2, <2>3 DEF CallsInv, CallsPlain, LearntInv
  <2>5. Table(View)
    BY <1>1, ViewFacts
  <2> QED BY <1>1, <2>2, <2>3, <2>4, <2>5, LedUnique
<1>4. CASE op = "timer"
  <2>1. Head(lock).ids = Missing /\ Stage.op = "sleep"
    <3>1. lock = <<Request("timer", Missing, <<attempt>>)>> /\ Stage.op = "sleep"
      BY <1>1, <1>4, HolderWaits
    <3> QED BY <3>1 DEF Request
  <2>2. i \in StageIds /\ i \in Ids /\ memo[i] = Absent
    BY <1>1, <1>2, <2>1 DEF Missing, Known
  <2>3. db[i] # Absent
    BY <1>1, <1>2, <2>2 DEF MemoInv, Visible
  <2>4. i \notin row.waits
    BY <1>1, <2>2 DEF IInv, WaitedInv, Alive, Absent, Promise, Terminal
  <2> QED BY <1>1, <2>1, <2>2, <2>3, <2>4 DEF Forgotten, Stage
<1> QED BY <1>3, <1>4

\* Whatever conflicts is excused, and stays so.
LEMMA ConflictSteps ==
  ASSUME IInv, IInv', TypeInv, StampInv, QueueInv, MemoInv, LearntInv, CallsInv, ConflictInv,
         [Next]_vars
  PROVE  ConflictInv'
<1>0. /\ program' = program /\ program \in Programs /\ TableTypes /\ TableInv
      /\ Later(db, db') /\ (contested => contested') /\ \A s : IdsOf(s)' = IdsOf(s)
  BY ProgramStays, TablesGrow DEF IInv, ShapeInv, TypeInv, IdsOf
<1>1. ASSUME Excused, ~contested', row'.waits = row.waits PROVE Forgotten'
  <2>0. PICK s \in 1..Len(program) :
          program[s].op = "sleep" /\ \E i \in IdsOf(s) : db[i] # Absent /\ i \notin row.waits
    BY <1>0, <1>1 DEF Forgotten, Excused
  <2>1. PICK i \in IdsOf(s) : db[i] # Absent /\ i \notin row.waits
    BY <2>0
  <2>2. i \in Ids
    BY <1>0, StagesApart
  <2>3. db'[i] # Absent
    BY <1>0, <2>1, <2>2 DEF Later
  <2> QED BY <1>0, <1>1, <2>0, <2>1, <2>3 DEF Forgotten
<1>10. ASSUME Excused, row'.waits = row.waits PROVE Excused'
  BY <1>1, <1>10 DEF Excused
<1>2. ASSUME body' \in {"over", "settling"}, result'.error = "conflict"
      PROVE  result'.awaited = {} /\ Excused'
  <2>1. row' = row
    <3>1. claim' = "held"
      BY <1>2 DEF IInv, CoroutineInv
    <3> QED BY <3>1, RowMoves DEF Comes
  <2>2. CASE result' = result /\ body \in {"over", "settling"}
    BY <1>10, <1>2, <2>1, <2>2 DEF ConflictInv
  <2>3. ASSUME NEW op \in {"submit", "timer"}, PromisesArrive(op), Awaits(op),
               Conflict(Head(lock).ids, Head(lock).fp),
               result' = Result("rejected", {}, "conflict", <<>>)
        PROVE  result'.awaited = {} /\ Excused'
    <3>1. lock # <<>> /\ Head(lock).op = op
      BY <2>3 DEF PromisesArrive, Answered
    <3>2. Excused
      BY <2>3, <3>1, ConflictForgotten
    <3> QED BY <1>10, <2>1, <2>3, <3>2 DEF Result
  <2> QED BY <1>2, <2>2, <2>3, ResultMoves
<1>3. ASSUME claim' \in {"exiting", "ending"}, Commits', drawn'.error = "conflict"
      PROVE  drawn'.awaited = {} /\ Excused'
  <2>1. row' = row
    BY <1>3, RowMoves DEF Comes
  <2>2. drawn'.awaited = {} /\ Excused
    BY <1>3, DrawnMoves DEF ConflictInv
  <2> QED BY <1>10, <2>1, <2>2
<1>4. ASSUME row'.error = "conflict" PROVE Excused'
  <2>1. CASE row' = row
    BY <1>10, <1>4, <2>1 DEF ConflictInv
  <2>2. CASE Comes /\ row' = Recorded(drawn)
    <3>1. row'.error \in {drawn.error, "none"} /\ row'.waits = row.waits \cup drawn.awaited
      BY <2>2 DEF Recorded
    <3>2. drawn.error = "conflict"
      BY <1>4, <3>1
    <3>3. drawn.awaited = {} /\ Excused
      BY <2>2, <3>2 DEF ConflictInv, Comes
    <3> QED BY <1>10, <3>1, <3>3
  <2> QED BY <2>1, <2>2, RowMoves
<1> QED BY <1>2, <1>3, <1>4 DEF ConflictInv

-----------------------------------------------------------------------------
(* Theorems                                                                  *)

\* The inductive invariant.
LastInv ==
  /\ IInv /\ TypeInv /\ StampInv /\ BatchInv /\ QueueInv /\ MemoInv /\ OrderInv
  /\ LearntInv /\ RequestInv /\ CallsInv /\ AwaitInv /\ ResultInv /\ ConflictInv

\* The initial states satisfy it.
LEMMA LastInit == Init => LastInv
<1> SUFFICES ASSUME Init PROVE LastInv
  OBVIOUS
<1>1. IInv /\ TypeInv /\ StampInv
  BY InitInv, TypeInit
<1>2. /\ body = "none" /\ claim = "idle" /\ lock = <<>> /\ flushing = FALSE
      /\ pending = NoCalls /\ db = Nothing /\ mine = Nothing
      /\ row.state = "pending" /\ row.error = "none" /\ row.waits = {}
  BY DEF Init, ExecutionInit
<1>3. \A i \in Ids : db[i] = Absent /\ View[i] = Absent
  BY <1>2 DEF View, Visible, Nothing
<1>4. BatchInv /\ QueueInv /\ MemoInv /\ OrderInv /\ LearntInv
  BY <1>2 DEF BatchInv, QueueInv, MemoInv, OrderInv, LearntInv, Alive
<1>5. RequestInv
  <2>1. Asked = {}
    BY <1>2 DEF Asked
  <2> QED BY <1>2, <2>1 DEF RequestInv
<1>6. CallsInv
  <2>1. \A s \in 1..Len(program) : IdsOf(s) \subseteq Ids
    BY <1>1, StagesApart DEF IInv, ShapeInv
  <2> QED BY <1>3, <2>1 DEF CallsInv, CallsPlain
<1>7. AwaitInv /\ ResultInv /\ ConflictInv
  BY <1>2 DEF AwaitInv, Evenly, ResultInv, ConflictInv
<1> QED BY <1>1, <1>4, <1>5, <1>6, <1>7 DEF LastInv

\* Every step keeps it.
LEMMA LastStep == LastInv /\ [Next]_vars => LastInv'
<1> SUFFICES ASSUME LastInv, [Next]_vars PROVE LastInv'
  OBVIOUS
<1>1. IInv' /\ TypeInv' /\ StampInv'
  BY StepInv, TypeStep DEF LastInv
<1>2. BatchInv' /\ QueueInv'
  BY BatchSteps, QueueSteps DEF LastInv
<1>3. MemoInv' /\ OrderInv' /\ LearntInv'
  BY MemoSteps, OrderSteps, LearntSteps DEF LastInv
<1>4. RequestInv' /\ CallsInv'
  BY <1>1, RequestSteps, CallsSteps DEF LastInv
<1>5. AwaitInv' /\ ResultInv' /\ ConflictInv'
  BY <1>1, AwaitSteps, ResultSteps, ConflictSteps DEF LastInv
<1> QED BY <1>1, <1>2, <1>3, <1>4, <1>5 DEF LastInv

\* The calls of a task, its memo, what its function has learnt, its result and the row of
\* the task are in accordance in every reachable state.
\* (Context, invoke, gather, first, execute.)
THEOREM ResultInvariance == Spec => []LastInv
<1>1. LastInv /\ [Next]_vars => LastInv'
  BY LastStep
<1> QED BY <1>1, LastInit, PTL DEF Spec

\* A function that was suspended, retried, timed out or cut off any number of times
\* resolves with what one plain run of it would give: each gather and sleep saw its
\* promises resolved, each first took one that was resolved, and, unless settlements of a
\* first were contested, the earliest of its promises, and every call was made by a run
\* that had learnt the same.  Settlements take their time when they are sent, and become
\* visible later and in any order.  (Context, invoke, gather, first, execute.)
THEOREM ReplayIsPlain == Spec => []ResultIsPlain
<1>1. LastInv => ResultIsPlain
  <2> SUFFICES ASSUME LastInv, row.state = "resolved" PROVE ResultIsPlain
    BY DEF ResultIsPlain
  <2>1. program \in Programs /\ Len(program) \in Nat /\ Table(db)
    BY ProgramShape DEF LastInv, IInv, ShapeInv
  <2>2. Led(db, Whole, row.value)
    BY DEF LastInv, ResultInv
  <2>3. ASSUME NEW s \in 1..Len(program) PROVE Won(db, s, row.value)
    <3>1. s \in 1..(Whole - 1)
      BY <2>1 DEF Whole
    <3> QED BY <2>2, <3>1 DEF Led
  <2>4. ASSUME ~contested, NEW s \in 1..Len(program), program[s].op # "sleep",
               NEW i \in IdsOf(s)
        PROVE  db[i].fp = SubSeq(row.value, 1, FirstsBefore(s))
    <3>1. s \in 1..Whole /\ Whole \in 1..Whole
      BY <2>1 DEF Whole
    <3>2. Led(db, s, SubSeq(row.value, 1, FirstsBefore(s)))
      BY <2>1, <2>2, <3>1, LedShorter
    <3>3. db[i] # Absent
      BY <2>3 DEF Won
    <3>4. Led(db, s, db[i].fp)
      BY <2>4, <3>3 DEF LastInv, CallsInv, CallsPlain
    <3> QED BY <2>1, <2>4, <3>1, <3>2, <3>4, LedUnique
  <2> QED BY <2>3, <2>4 DEF Won, ResultIsPlain
<1> QED BY <1>1, ResultInvariance, PTL

\* A task is rejected with IdempotencyConflictError only for a timer that was committed
\* by a run that did not suspend on it, or after a first whose settlements were contested.
\* (invoke, sleep, submit_timer.)
THEOREM ConflictsAreForgottenTimers == Spec => []OnlyForgottenTimersConflict
<1>1. LastInv => OnlyForgottenTimersConflict
  BY DEF LastInv, ConflictInv, Excused, Forgotten, OnlyForgottenTimersConflict
<1> QED BY <1>1, ResultInvariance, PTL
=============================================================================
