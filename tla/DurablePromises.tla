--------------------------- MODULE DurablePromises ---------------------------
(***************************************************************************)
(* What Reaper promises to the author of a durable function, without the   *)
(* database: promises are created pending, a function runs only when every *)
(* promise it suspended on has settled, at most one attempt of it runs at  *)
(* a time, a promise settles once, a deadline never settles a promise      *)
(* whose function is being run, and a graph is forgotten only when all of  *)
(* it has settled.  ReaperStore is shown to implement this module.         *)
(***************************************************************************)
CONSTANTS
  Ids,        \* promise ids
  Root,       \* the root of the graph each id belongs to
  Timers,     \* the ids of timers: promises no function runs for
  Children,   \* the ids each durable function may create
  MayAwait    \* the ids each durable function may suspend on

VARIABLES
  state,      \* the state of each promise, "absent" when there is none
  awaiting,   \* the promises each pending function has suspended on so far
  running     \* the functions an attempt of which is running

vars == <<state, awaiting, running>>

Settled == {"resolved", "rejected", "timed_out"}

TypeOK ==
  /\ state \in [Ids -> Settled \cup {"absent", "pending"}]
  /\ awaiting \in [Ids -> SUBSET Ids]
  /\ running \subseteq Ids \ Timers

Init ==
  /\ state = [x \in Ids |-> "absent"]
  /\ awaiting = [x \in Ids |-> {}]
  /\ running = {}

\* The states once the promises of N are created: none exists yet, and each of
\* them has a root.
Created(N) == [x \in Ids |-> IF x \in N THEN "pending" ELSE state[x]]

MayCreate(N) ==
  /\ \A x \in N : state[x] = "absent"
  /\ \A x \in N : Root[x] \in N \/ state[Root[x]] # "absent"

\* A client submits root calls or timers.
Create(N) ==
  /\ MayCreate(N)
  /\ state' = Created(N)
  /\ UNCHANGED <<awaiting, running>>

\* An attempt of t begins.
Start(t) ==
  /\ t \notin running \cup Timers
  /\ state[t] = "pending"
  /\ \A a \in awaiting[t] : state[a] \in Settled
  /\ running' = running \cup {t}
  /\ UNCHANGED <<state, awaiting>>

\* An attempt ends with no trace: a crash, a lost connection, a rollback.
Stop(t) ==
  /\ t \in running
  /\ running' = running \ {t}
  /\ UNCHANGED <<state, awaiting>>

\* The attempt settles its promise with v; the promises of N it created appear
\* in the same instant.
Finish(t, N, v) ==
  /\ t \in running
  /\ N \subseteq Children[t] /\ MayCreate(N)
  /\ state' = [Created(N) EXCEPT ![t] = v]
  /\ awaiting' = [awaiting EXCEPT ![t] = {}]
  /\ running' = running \ {t}

\* The attempt failed and another one will be made.
Again(t, N) ==
  /\ t \in running
  /\ N \subseteq Children[t] /\ MayCreate(N)
  /\ state' = Created(N)
  /\ running' = running \ {t}
  /\ UNCHANGED awaiting

\* The attempt suspends until the promises of A have settled.
Suspend(t, N, A) ==
  /\ t \in running
  /\ N \subseteq Children[t] /\ MayCreate(N)
  /\ A \subseteq MayAwait[t]
  /\ \A a \in A : a \in N \/ state[a] # "absent"
  /\ state' = Created(N)
  /\ awaiting' = [awaiting EXCEPT ![t] = @ \cup A]
  /\ running' = running \ {t}

\* Deadlines pass: timers resolve and calls time out, except those running.
Expire(S) ==
  /\ \A x \in S : state[x] = "pending" /\ x \notin running
  /\ state' = [x \in Ids |-> IF x \in S
                             THEN IF x \in Timers THEN "resolved" ELSE "timed_out"
                             ELSE state[x]]
  /\ awaiting' = [x \in Ids |-> IF x \in S THEN {} ELSE awaiting[x]]
  /\ UNCHANGED running

\* Settled graphs whose retention is over are forgotten.
Forget(R) ==
  /\ \A x \in Ids : Root[x] \in R => state[x] # "pending" /\ x \notin running
  /\ state' = [x \in Ids |-> IF Root[x] \in R THEN "absent" ELSE state[x]]
  /\ UNCHANGED <<awaiting, running>>

Next ==
  \/ \E N \in SUBSET Ids : Create(N)
  \/ \E t \in Ids : Start(t) \/ Stop(t)
  \/ \E t \in Ids, N \in SUBSET Ids :
       \/ \E v \in {"resolved", "rejected"} : Finish(t, N, v)
       \/ Again(t, N)
       \/ \E A \in SUBSET Ids : Suspend(t, N, A)
  \/ \E S \in SUBSET Ids : Expire(S)
  \/ \E R \in SUBSET {x \in Ids : Root[x] = x} : Forget(R)

Spec == Init /\ [][Next]_vars
=============================================================================
