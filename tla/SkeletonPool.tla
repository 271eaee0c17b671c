----------------------------- MODULE SkeletonPool -----------------------------
(***************************************************************************)
(* pool.py: the driver that performs the effects ReaperCore asks for, on   *)
(* one event loop, while child processes, helper threads and clients go    *)
(* their own way.                                                          *)
(*                                                                         *)
(* A task of the event loop that is inside drive() is a fiber: the effects *)
(* it has still to perform are todo[fiber].  The loop runs one fiber at a  *)
(* time (turn) and leaves it only where drive() suspends: while a process  *)
(* is being spawned (SPAWN), while the reader of a dropped slot is being   *)
(* cancelled (DROP), and while a child is waited for (REAP).  Children and *)
(* threads move between two turns of the loop: nothing a fiber does before *)
(* it suspends looks at them.                                              *)
(***************************************************************************)
EXTENDS ReaperCore

CONSTANTS
  QueueLimit,    \* queue_limit
  MaxPreReady,   \* MAX_PRE_READY_FAILURES
  MaxFaults,     \* bound: children that die or garble, spawns that fail
  Closes,        \* whether clients close the pool, or startup takes too long
  Recoveries     \* bound: recover_after tasks that drive at the same time

ASSUME PoolAssumption ==
  /\ QueueLimit \in Nat /\ MaxPreReady \in Nat \ {0} /\ MaxFaults \in Nat
  /\ Closes \in BOOLEAN /\ Recoveries \in Nat \ {0}

Loop == <<"loop", 0>>
Starter == <<"start", 0>>
Closer == <<"close", 0>>
Submitter == <<"submit", 0>>
Reader(g) == <<"read", g>>     \* read_slot
Sender(g) == <<"send", g>>     \* send_run
Loser(g) == <<"lose", g>>      \* lose, in a task of its own
Recoverers == {"recover"} \X (1..Recoveries)
Fibers == {Starter, Closer, Submitter} \cup Recoverers
          \cup {"read", "send", "lose"} \X Gens

VARIABLES
  turn,      \* the fiber the event loop runs, Loop between two of them
  todo,      \* the effects each fiber has still to perform
  tasks,     \* tasks that have not begun: send_run, send_stop and lose
  closing,   \* SkeletonPool.closing
  starter,   \* where start() is
  closer,    \* where finish_close() is
  waited,    \* the slots finish_close() has still to go through
  slotOf,    \* SkeletonPool.slots: the generation at each descriptor, or 0
  retired,   \* SkeletonPool.retired_slots
  fdOf,      \* the descriptor each generation's control socket was given
  open,      \* the generations whose control socket is open in the parent
  seen,      \* Slot.state and Slot.job_id
  preReady,  \* the slots lost before they were ready
  reader,    \* Slot.reader
  jobs,      \* SkeletonPool.jobs
  future,    \* what each submitter's future holds
  recovery,  \* whether recovery_task sleeps
  preReadyFailures,
  startupError,
  child,     \* what the process of each generation does, and its job
  mail,      \* messages on their way to the child
  inbox,     \* messages on their way from it
  doomed,    \* children whose death pipe is closed or that were killed
  faults     \* how many faults have happened

event == <<turn, todo, tasks>>
life == <<closing, starter, closer, waited>>
table == <<slotOf, retired, fdOf, open, seen, preReady, reader>>
work == <<jobs, future>>
health == <<recovery, preReadyFailures, startupError>>
process == <<child, mail, inbox, doomed, faults>>
vars == <<core, event, life, table, work, health, process>>

Message(op, j) == [op |-> op, job |-> j]
Task(op, g, j) == [op |-> op, gen |-> g, job |-> j]
Process(s, j) == [is |-> s, job |-> j]
View(s, j) == [state |-> s, job |-> j]

SlotStates == {"starting", "idle", "running", "stopping", "dead"}
AnyJob == Jobs \cup {NoJob}

Effects ==
  [kind : {"SPAWN", "SEND_STOP", "DROP", "CLOSE_CONTROL", "CLOSE_DEATH", "REAP", "KILL"},
   gen : Gens, job : {NoJob}]
  \cup [kind : {"SEND_RUN", "RESOLVE", "FAIL"}, gen : Gens \cup {0}, job : Jobs]

\* The type of the state.
TypeOK ==
  /\ coreClosing \in BOOLEAN /\ nextGen \in 0..MaxGen /\ pendingSpawns \subseteq Gens
  /\ slots \in [Fds -> [gen : Gens \cup {0}, state : SlotStates, job : AnyJob]]
  /\ queue \in Seq(Jobs)
  /\ turn \in Fibers \cup {Loop}
  /\ todo \in [Fibers -> Seq(Effects)]
  /\ tasks \subseteq [op : {"run", "stop", "lose"}, gen : Gens, job : AnyJob]
  /\ closing \in BOOLEAN
  /\ starter \in {"no", "starting", "polling", "up", "failed"}
  /\ closer \in {"no", "called", "stopping", "waiting", "killing", "draining", "closed"}
  /\ waited \subseteq Gens /\ retired \subseteq Gens /\ open \subseteq Gens
  /\ slotOf \in [Fds -> Gens \cup {0}]
  /\ fdOf \in [Gens -> Fds \cup {0}]
  /\ seen \in [Gens -> [state : SlotStates, job : AnyJob]]
  /\ preReady \subseteq Gens
  /\ reader \in [Gens -> {"none", "reading", "done"}]
  /\ jobs \subseteq Jobs
  /\ future \in [Jobs -> {"none", "waiting", "resolved", "failed"}]
  /\ recovery \in BOOLEAN /\ startupError \in BOOLEAN /\ preReadyFailures \in Nat
  /\ child \in [Gens -> [is : {"none", "forking", "booting", "idle", "working",
                               "exited", "reaped"}, job : AnyJob]]
  /\ mail \in [Gens -> Seq([op : {"run", "stop"}, job : AnyJob])]
  /\ inbox \in [Gens -> Seq([op : {"ready", "ok", "error", "bad"}, job : AnyJob])]
  /\ doomed \subseteq Gens /\ faults \in 0..MaxFaults

Init ==
  /\ CoreInit
  /\ turn = Loop /\ todo = [f \in Fibers |-> <<>>] /\ tasks = {}
  /\ closing = FALSE /\ starter = "no" /\ closer = "no" /\ waited = {}
  /\ slotOf = [f \in Fds |-> 0] /\ retired = {} /\ open = {} /\ preReady = {}
  /\ fdOf = [g \in Gens |-> 0]
  /\ seen = [g \in Gens |-> View("starting", NoJob)]
  /\ reader = [g \in Gens |-> "none"]
  /\ jobs = {} /\ future = [j \in Jobs |-> "none"]
  /\ recovery = FALSE /\ preReadyFailures = 0 /\ startupError = FALSE
  /\ child = [g \in Gens |-> Process("none", NoJob)]
  /\ mail = [g \in Gens |-> <<>>] /\ inbox = [g \in Gens |-> <<>>]
  /\ doomed = {} /\ faults = 0

-----------------------------------------------------------------------------
(* Helpers of the driver                                                     *)

InSlots(g) == fdOf[g] # 0 /\ slotOf[fdOf[g]] = g

\* slot_for finds the object of a slot in either table.
SlotFor(g) == InSlots(g) \/ g \in retired

Alive(g) == child[g].is \in {"booting", "idle", "working"}

Fault == faults < MaxFaults /\ faults' = faults + 1

\* sync_slots: the slot objects take the reducer's view; a dropped one is dead.
SyncSlots ==
  seen' = [g \in Gens |->
             IF g \in retired' \ retired THEN View("dead", seen[g].job)
             ELSE IF fdOf'[g] = 0 THEN seen[g]
             ELSE LET f == fdOf'[g]
                  IN  IF slotOf'[f] = g /\ slots'[f].gen = g
                      THEN View(slots'[f].state, slots'[f].job) ELSE seen[g]]

\* Fiber f goes on with effects; the loop runs it.
Run(f, effects) == turn' = f /\ todo' = [todo EXCEPT ![f] = effects]

\* Fiber f has performed its first effect.
Performed(f) == Run(f, Tail(todo[f])) /\ SyncSlots

\* The first effect of fiber f, in its turn and after it suspended.
Heads(f, kind) == todo[f] # <<>> /\ Head(todo[f]).kind = kind
Performs(f, kind) == turn = f /\ Heads(f, kind)
Resumes(f, kind) == turn = Loop /\ Heads(f, kind)
Subject(f) == Head(todo[f]).gen

\* schedule_recovery: a delayed RECOVER, unless too many skeletons in a row were
\* lost before they were ready.
ScheduleRecovery(pre) ==
  LET failed == preReadyFailures + (IF pre THEN 1 ELSE 0)
      opens == pre /\ failed >= MaxPreReady
  IN  IF closing THEN UNCHANGED health
      ELSE /\ preReadyFailures' = failed
           /\ startupError' = (startupError \/ opens)
           /\ recovery' = ~opens

-----------------------------------------------------------------------------
(* drive(), one effect at a time                                             *)

\* spawn_effect begins: the socket pair is made, then a thread spawns.
DriveSpawn(f) ==
  /\ Performs(f, "SPAWN")
  /\ LET g == Subject(f)
     IN  \E d \in Fds \ {fdOf[h] : h \in open} :
           /\ fdOf' = [fdOf EXCEPT ![g] = d]
           /\ open' = open \cup {g}
           /\ child' = [child EXCEPT ![g] = Process("forking", NoJob)]
  /\ turn' = Loop
  /\ UNCHANGED <<core, todo, tasks, life, slotOf, retired, seen, preReady, reader, work,
                 health, mail, inbox, doomed, faults>>

\* The slot is entered, its reader started, and SPAWNED applied.
SpawnSucceeds(f) ==
  /\ Resumes(f, "SPAWN")
  /\ LET g == Subject(f)
     IN  /\ child[g].is = "forking"
         /\ child' = [child EXCEPT ![g] = Process("booting", NoJob)]
         /\ slotOf' = [slotOf EXCEPT ![fdOf[g]] = g]
         /\ reader' = [reader EXCEPT ![g] = "reading"]
         /\ CoreSpawned(fdOf[g], g)
         /\ Run(f, Tail(todo[f]) \o SpawnedEffects(fdOf[g], g))
  /\ UNCHANGED <<retired, fdOf>> /\ SyncSlots
  /\ UNCHANGED <<tasks, life, open, preReady, work, health, mail, inbox, doomed, faults>>

\* Any step of spawn_effect fails: what it opened is closed again.
SpawnFails(f) ==
  /\ Resumes(f, "SPAWN") /\ Fault
  /\ LET g == Subject(f)
     IN  /\ child' = [child EXCEPT ![g] = Process("none", NoJob)]
         /\ open' = open \ {g}
         /\ CoreSpawnFailed(g)
         /\ Run(f, Tail(todo[f]) \o SendRun)
  /\ ScheduleRecovery(TRUE)
  /\ UNCHANGED <<tasks, life, slotOf, retired, fdOf, seen, preReady, reader, work, mail,
                 inbox, doomed>>

\* SEND_RUN and SEND_STOP only create a task.
DriveSend(f) ==
  /\ \E kind \in {"SEND_RUN", "SEND_STOP"} :
       /\ Performs(f, kind)
       /\ tasks' = tasks \cup {Task(IF kind = "SEND_RUN" THEN "run" ELSE "stop",
                                    Subject(f), Head(todo[f]).job)}
  /\ UNCHANGED <<core, slotOf, retired, fdOf>> /\ Performed(f)
  /\ UNCHANGED <<life, open, preReady, reader, work, health, process>>

\* RESOLVE and FAIL settle a future, when the job is still known.
DriveSettle(f) ==
  /\ \E kind \in {"RESOLVE", "FAIL"} :
       /\ Performs(f, kind)
       /\ LET j == Head(todo[f]).job
          IN  /\ jobs' = jobs \ {j}
              /\ future' = IF j \notin jobs THEN future
                           ELSE [future EXCEPT ![j] = IF kind = "RESOLVE" THEN "resolved"
                                                                         ELSE "failed"]
  /\ UNCHANGED <<core, slotOf, retired, fdOf>> /\ Performed(f)
  /\ UNCHANGED <<tasks, life, open, preReady, reader, health, process>>

\* DROP cancels the slot's reader first, unless it is the reader that drops.
CancelReader(f) ==
  /\ Performs(f, "DROP")
  /\ LET g == Subject(f)
     IN  /\ SlotFor(g) /\ reader[g] = "reading" /\ f # Reader(g)
         /\ reader' = [reader EXCEPT ![g] = "done"]
  /\ turn' = Loop
  /\ UNCHANGED <<core, todo, tasks, life, slotOf, retired, fdOf, open, seen, preReady, work,
                 health, process>>

\* What was cancelled is dropped from the object DROP has, whatever became of
\* the tables meanwhile.
DriveDrop(f) ==
  /\ LET g == Subject(f)
     IN  /\ (Performs(f, "DROP") /\ SlotFor(g)) \/ Resumes(f, "DROP")
         /\ reader[g] = "done" \/ f = Reader(g)
         /\ slotOf' = IF InSlots(g) THEN [slotOf EXCEPT ![fdOf[g]] = 0] ELSE slotOf
         /\ retired' = retired \cup {g}
  /\ UNCHANGED <<core, fdOf>> /\ Performed(f)
  /\ UNCHANGED <<tasks, life, open, preReady, reader, work, health, process>>

\* DROP and REAP do nothing about a slot that is in neither table.
DriveSkip(f) ==
  /\ Performs(f, "DROP") \/ Performs(f, "REAP")
  /\ ~SlotFor(Subject(f))
  /\ UNCHANGED <<core, slotOf, retired, fdOf>> /\ Performed(f)
  /\ UNCHANGED <<tasks, life, open, preReady, reader, work, health, process>>

\* CLOSE_CONTROL frees the descriptor; CLOSE_DEATH and KILL end the child.
DriveClose(f) ==
  /\ \E kind \in {"CLOSE_CONTROL", "CLOSE_DEATH", "KILL"} :
       /\ Performs(f, kind)
       /\ LET G == {g \in {Subject(f)} : SlotFor(g)}
          IN  IF kind = "CLOSE_CONTROL" THEN open' = open \ G /\ UNCHANGED doomed
              ELSE doomed' = doomed \cup G /\ UNCHANGED open
  /\ UNCHANGED <<core, slotOf, retired, fdOf>> /\ Performed(f)
  /\ UNCHANGED <<tasks, life, preReady, reader, work, health, child, mail, inbox, faults>>

\* REAP waits for the child in a thread.
DriveReap(f) ==
  /\ Performs(f, "REAP") /\ SlotFor(Subject(f))
  /\ turn' = Loop
  /\ UNCHANGED <<core, todo, tasks, life, table, work, health, process>>

\* waitpid returned: the slot and its process are forgotten.
ReapReturns(f) ==
  /\ Resumes(f, "REAP")
  /\ LET g == Subject(f)
     IN  /\ child[g].is = "exited"
         /\ child' = [child EXCEPT ![g] = Process("reaped", NoJob)]
         /\ mail' = [mail EXCEPT ![g] = <<>>] /\ inbox' = [inbox EXCEPT ![g] = <<>>]
         /\ doomed' = doomed \ {g}
         /\ retired' = retired \ {g}
  /\ UNCHANGED <<core, slotOf, fdOf>> /\ Performed(f)
  /\ UNCHANGED <<tasks, life, open, preReady, reader, work, health, faults>>

Drive(f) ==
  \/ DriveSpawn(f) \/ SpawnSucceeds(f)
  \/ DriveSend(f) \/ DriveSettle(f)
  \/ CancelReader(f) \/ DriveDrop(f) \/ DriveSkip(f)
  \/ DriveClose(f) \/ DriveReap(f) \/ ReapReturns(f)

-----------------------------------------------------------------------------
(* The tasks that call drive(), and what they do when it returns             *)

Returns(f) == turn = f /\ todo[f] = <<>>

\* start(): START, then polling until every slot is idle.
Start ==
  /\ starter = "no" /\ ~closing /\ turn = Loop
  /\ starter' = "starting"
  /\ CoreFill /\ Run(Starter, FillEffects)
  /\ UNCHANGED <<tasks, closing, closer, waited, table, work, health, process>>

StartDriven ==
  /\ Returns(Starter)
  /\ starter' = "polling" /\ turn' = Loop
  /\ UNCHANGED <<core, todo, tasks, closing, closer, waited, table, work, health, process>>

StartReady ==
  /\ turn = Loop /\ starter = "polling"
  /\ Cardinality({f \in Fds : slotOf[f] # 0}) = Target
  /\ \A f \in Fds : slotOf[f] # 0 => seen[slotOf[f]].state = "idle"
  /\ starter' = "up"
  /\ UNCHANGED <<core, event, closing, closer, waited, table, work, health, process>>

\* The recovery circuit opened, the startup timeout passed, or the caller was
\* cancelled: the pool closes.
StartRaises ==
  /\ turn = Loop /\ starter = "polling"
  /\ startupError \/ Closes
  /\ starter' = "failed"
  /\ closing' = TRUE
  /\ closer' = IF closer = "no" THEN "called" ELSE closer
  /\ UNCHANGED <<core, event, waited, table, work, health, process>>

Submit(j) ==
  /\ turn = Loop /\ starter # "no" /\ ~closing
  /\ future[j] = "none" /\ Len(queue) < QueueLimit
  /\ future' = [future EXCEPT ![j] = "waiting"]
  /\ jobs' = jobs \cup {j}
  /\ CoreSubmit(j) /\ Run(Submitter, SendRun)
  /\ UNCHANGED <<tasks, life, table, health, process>>

SubmitDriven ==
  /\ Returns(Submitter) /\ turn' = Loop
  /\ UNCHANGED <<core, todo, tasks, life, table, work, health, process>>

\* recover_after, when its delay is over.
Recover ==
  /\ turn = Loop /\ recovery
  /\ recovery' = FALSE
  /\ LET f == CHOOSE f \in Recoverers : todo[f] = <<>>
     IN  /\ \E h \in Recoverers : todo[h] = <<>>
         /\ IF closing THEN UNCHANGED <<core, turn, todo>>
            ELSE CoreFill /\ Run(f, FillEffects)
  /\ UNCHANGED <<tasks, life, table, work, preReadyFailures, startupError, process>>

RecoverDriven(f) ==
  /\ Returns(f) /\ turn' = Loop
  /\ UNCHANGED <<core, todo, tasks, life, table, work, health, process>>

\* lose(): EOF is applied once, by whoever finds the slot first.
Lose(f, g) ==
  /\ preReady' = IF seen[g].state = "starting" THEN preReady \cup {g} ELSE preReady
  /\ CoreLost(fdOf[g], g) /\ Run(f, LostEffects(fdOf[g], g))

\* read_slot handles one message, or the end of the stream.
Read(g) ==
  /\ turn = Loop /\ reader[g] = "reading" /\ todo[Reader(g)] = <<>>
  /\ InSlots(g)
  /\ \/ /\ inbox[g] = <<>> /\ ~Alive(g)
        /\ Lose(Reader(g), g)
        /\ UNCHANGED <<tasks, reader, health, inbox>>
     \/ /\ inbox[g] # <<>>
        /\ inbox' = [inbox EXCEPT ![g] = Tail(@)]
        /\ LET m == Head(inbox[g])
           IN  \/ /\ m.op = "ready"
                  /\ preReadyFailures' = 0
                  /\ CoreReady(fdOf[g], g) /\ Run(Reader(g), SendRun)
                  /\ UNCHANGED <<tasks, preReady, reader, recovery, startupError>>
               \/ /\ m.op \in {"ok", "error"} /\ seen[g] = View("running", m.job)
                  /\ CoreResult(fdOf[g], g, m.job)
                  /\ Run(Reader(g), ResultEffects(fdOf[g], g, m.job, m.op = "ok"))
                  /\ UNCHANGED <<tasks, preReady, reader, health>>
               \/ /\ m.op \in {"ok", "error"} /\ seen[g] # View("running", m.job)
                  /\ UNCHANGED <<core, event, preReady, reader, health>>
               \/ /\ m.op = "bad"    \* the protocol is broken
                  /\ Lose(Reader(g), g)
                  /\ UNCHANGED <<tasks, reader, health>>
               \/ /\ m.op = "bad"    \* the message raises: reader_done
                  /\ reader' = [reader EXCEPT ![g] = "done"]
                  /\ tasks' = tasks \cup {Task("lose", g, NoJob)}
                  /\ UNCHANGED <<core, turn, todo, preReady, health>>
  /\ UNCHANGED <<life, slotOf, retired, fdOf, open, seen, work, child, mail, doomed,
                 faults>>

\* Mutants of ReadDriven: sync_slots is left out, and the recovery is.
ReadDrivenUnsynced(g) ==
  /\ Returns(Reader(g)) /\ turn' = Loop
  /\ IF InSlots(g) THEN UNCHANGED <<reader, health>>
     ELSE /\ reader' = [reader EXCEPT ![g] = "done"]
          /\ ScheduleRecovery(g \in preReady)
  /\ UNCHANGED <<core, slotOf, retired, fdOf, seen>>
  /\ UNCHANGED <<todo, tasks, life, open, preReady, work, process>>

ReadDrivenForgets(g) ==
  /\ Returns(Reader(g)) /\ turn' = Loop
  /\ reader' = IF InSlots(g) THEN reader ELSE [reader EXCEPT ![g] = "done"]
  /\ UNCHANGED <<core, slotOf, retired, fdOf>> /\ SyncSlots
  /\ UNCHANGED <<todo, tasks, life, open, preReady, work, health, process>>

\* After a loss the reader schedules the recovery and ends.
ReadDriven(g) ==
  /\ Returns(Reader(g)) /\ turn' = Loop
  /\ IF InSlots(g) THEN UNCHANGED <<reader, health>>
     ELSE /\ reader' = [reader EXCEPT ![g] = "done"]
          /\ ScheduleRecovery(g \in preReady)
  /\ UNCHANGED <<core, slotOf, retired, fdOf>> /\ SyncSlots
  /\ UNCHANGED <<todo, tasks, life, open, preReady, work, process>>

\* The task reader_done creates.
LoseTask(g) ==
  /\ turn = Loop /\ Task("lose", g, NoJob) \in tasks
  /\ tasks' = tasks \ {Task("lose", g, NoJob)}
  /\ IF InSlots(g) THEN Lose(Loser(g), g) ELSE UNCHANGED <<core, turn, todo, preReady>>
  /\ UNCHANGED <<life, slotOf, retired, fdOf, open, seen, reader, work, health, process>>

LoseDriven(g) ==
  /\ Returns(Loser(g)) /\ turn' = Loop
  /\ ScheduleRecovery(g \in preReady)
  /\ UNCHANGED <<core, todo, tasks, life, table, work, process>>

\* send_run and send_stop.  A write to a child that is gone fails.
Delivers(t) == t.gen \in open /\ Alive(t.gen)

SendTask(t) ==
  /\ turn = Loop /\ t \in tasks /\ t.op # "lose"
  /\ tasks' = tasks \ {t}
  /\ LET g == t.gen
     IN  \/ /\ ~SlotFor(g) \/ (t.op = "run" /\ t.job \notin jobs)
            /\ UNCHANGED <<core, turn, todo, seen, mail>>
         \/ /\ SlotFor(g) /\ (t.op = "run" => t.job \in jobs)
            /\ seen' = IF t.op = "run" THEN [seen EXCEPT ![g].job = t.job] ELSE seen
            /\ \/ /\ Delivers(t)
                  /\ mail' = [mail EXCEPT ![g] = Append(@, Message(t.op, t.job))]
                  /\ UNCHANGED <<core, turn, todo>>
               \/ /\ ~Delivers(t) /\ t.op = "stop"
                  /\ UNCHANGED <<core, turn, todo, mail>>
               \/ /\ ~Delivers(t) /\ t.op = "run"
                  /\ CoreLost(fdOf[g], g) /\ Run(Sender(g), LostEffects(fdOf[g], g))
                  /\ UNCHANGED mail
  /\ UNCHANGED <<life, slotOf, retired, fdOf, open, preReady, reader, work, health, child,
                 inbox, doomed, faults>>

SendDriven(g) ==
  /\ Returns(Sender(g)) /\ turn' = Loop
  /\ ScheduleRecovery(FALSE)
  /\ UNCHANGED <<core, slotOf, retired, fdOf>> /\ SyncSlots
  /\ UNCHANGED <<todo, tasks, life, open, preReady, reader, work, process>>

-----------------------------------------------------------------------------
(* close()                                                                   *)

\* close() only marks the pool and starts finish_close().
Close ==
  /\ Closes /\ turn = Loop /\ starter # "no" /\ closer = "no"
  /\ closing' = TRUE /\ closer' = "called"
  /\ UNCHANGED <<core, event, starter, waited, table, work, health, process>>

\* finish_close(): the heartbeat and the recovery are cancelled, then CLOSE.
CloseStops ==
  /\ turn = Loop /\ closer = "called"
  /\ closer' = "stopping"
  /\ recovery' = FALSE
  /\ CoreClose /\ Run(Closer, CloseEffects)
  /\ UNCHANGED <<tasks, closing, starter, waited, table, work, preReadyFailures,
                 startupError, process>>

Slotted == {g \in Gens : InSlots(g)}

CloseStopped ==
  /\ Returns(Closer) /\ closer = "stopping"
  /\ closer' = "waiting" /\ waited' = {g \in Slotted : reader[g] # "none"}
  /\ turn' = IF waited' = {} THEN Closer ELSE Loop
  /\ UNCHANGED <<core, todo, tasks, closing, starter, table, work, health, process>>

\* Without a reader to wait for, finish_close() does not suspend.
MayKill == closer = "waiting" /\ IF waited = {} THEN Returns(Closer) ELSE turn = Loop

\* Mutant of CloseKills: there is no timeout.
CloseKillsPatiently ==
  /\ MayKill
  /\ \A g \in waited : reader[g] = "done"
  /\ CoreDeadline /\ Run(Closer, DeadlineEffects)
  /\ closer' = "killing"
  /\ UNCHANGED <<tasks, closing, starter, waited, table, work, health, process>>

\* The readers end, or the timeout passes and they are cancelled wherever they
\* are; then DEADLINE.
CloseKills ==
  /\ MayKill
  /\ CoreDeadline
  /\ LET late == {g \in waited : reader[g] # "done"}
     IN  /\ reader' = [g \in Gens |-> IF g \in late THEN "done" ELSE reader[g]]
         /\ todo' = [f \in Fibers |->
                       IF f = Closer THEN DeadlineEffects
                       ELSE IF \E g \in late : f = Reader(g) THEN <<>> ELSE todo[f]]
  /\ turn' = Closer /\ closer' = "killing"
  /\ UNCHANGED <<tasks, closing, starter, waited, slotOf, retired, fdOf, open, seen,
                 preReady, work, health, process>>

CloseKilled ==
  /\ Returns(Closer) /\ closer = "killing"
  /\ closer' = "draining" /\ waited' = Slotted
  /\ UNCHANGED <<core, event, closing, starter, table, work, health, process>>

\* EOF for every slot that is left, one drive after the other.
CloseDrains(g) ==
  /\ Returns(Closer) /\ closer = "draining" /\ g \in waited
  /\ waited' = waited \ {g}
  /\ CoreLost(fdOf[g], g) /\ Run(Closer, LostEffects(fdOf[g], g))
  /\ UNCHANGED <<tasks, closing, starter, closer, table, work, health, process>>

CloseEnds ==
  /\ Returns(Closer) /\ closer = "draining" /\ waited = {}
  /\ closer' = "closed" /\ turn' = Loop
  /\ slotOf' = [f \in Fds |-> 0]
  /\ jobs' = {}
  /\ UNCHANGED <<core, todo, tasks, closing, starter, waited, retired, fdOf, open, seen,
                 preReady, reader, future, health, process>>

-----------------------------------------------------------------------------
(* Children and threads, between two turns of the loop                       *)

ChildStep(g, c, m, i) ==
  /\ turn = Loop
  /\ child' = [child EXCEPT ![g] = c]
  /\ mail' = [mail EXCEPT ![g] = m]
  /\ inbox' = [inbox EXCEPT ![g] = i]
  /\ UNCHANGED <<core, event, life, table, work, health, doomed>>

\* child_loop announces itself, then takes one message after the other.
ChildReady(g) ==
  /\ child[g].is = "booting"
  /\ ChildStep(g, Process("idle", NoJob), mail[g], Append(inbox[g], Message("ready", NoJob)))
  /\ UNCHANGED faults

ChildTakes(g) ==
  /\ child[g].is = "idle" /\ mail[g] # <<>>
  /\ LET m == Head(mail[g])
     IN  ChildStep(g, IF m.op = "run" THEN Process("working", m.job)
                                      ELSE Process("exited", NoJob), Tail(mail[g]), inbox[g])
  /\ UNCHANGED faults

ChildAnswers(g, op) ==
  /\ child[g].is = "working"
  /\ ChildStep(g, Process("idle", NoJob), mail[g],
               Append(inbox[g], Message(op, child[g].job)))
  /\ UNCHANGED faults

\* A child whose death pipe is closed or that was killed ends; one whose control
\* socket is closed ends when it reads.
ChildEnds(g) ==
  /\ Alive(g)
  /\ g \in doomed \/ (g \notin open /\ child[g].is = "idle" /\ mail[g] = <<>>)
  /\ ChildStep(g, Process("exited", NoJob), mail[g], inbox[g])
  /\ UNCHANGED faults

\* A child crashes, or the heartbeat monitor kills it.
ChildDies(g) ==
  /\ Alive(g) /\ Fault
  /\ ChildStep(g, Process("exited", NoJob), mail[g], inbox[g])

ChildGarbles(g) ==
  /\ Alive(g) /\ Fault
  /\ ChildStep(g, child[g], mail[g], Append(inbox[g], Message("bad", NoJob)))

-----------------------------------------------------------------------------

LoopStep ==
  \/ \E f \in Fibers : Drive(f)
  \/ StartDriven \/ SubmitDriven
  \/ \E f \in Recoverers : RecoverDriven(f)
  \/ Recover
  \/ \E g \in Gens : Read(g) \/ ReadDriven(g) \/ LoseTask(g) \/ LoseDriven(g) \/ SendDriven(g)
  \/ \E t \in tasks : SendTask(t)
  \/ CloseStops \/ CloseStopped \/ CloseKills \/ CloseKilled \/ CloseEnds
  \/ \E g \in Gens : CloseDrains(g)

ChildWorks(g) ==
  \/ ChildReady(g) \/ ChildTakes(g) \/ ChildEnds(g)
  \/ \E op \in {"ok", "error"} : ChildAnswers(g, op)

PoolNext ==
  \/ Start \/ StartReady \/ StartRaises \/ Close
  \/ \E j \in Jobs : Submit(j)
  \/ LoopStep
  \/ \E f \in Fibers : SpawnFails(f)
  \/ \E g \in Gens : ChildWorks(g) \/ ChildDies(g) \/ ChildGarbles(g)

Spec == Init /\ [][PoolNext]_vars

\* The event loop runs every task that can go on, and a child whose death pipe is
\* closed, or that was killed, ends.  Every workload here is finite, so weak
\* fairness of the whole loop leaves no task behind.
LoopFairness ==
  /\ WF_vars(LoopStep \/ StartReady)
  /\ \A g \in Gens : WF_vars(ChildEnds(g))

FairSpec == Spec /\ LoopFairness

\* Children that answer; the heartbeat monitor kills the others (ChildDies).
ChildFairness == \A g \in Gens : WF_vars(ChildWorks(g))

-----------------------------------------------------------------------------
(* Properties                                                                *)

\* The driver and the reducer agree on which skeleton a descriptor belongs to,
\* whenever the loop is free: a slot only one of them knows is either being
\* dropped or, when the pool has closed, forgotten.
TablesAgree ==
  turn = Loop => \A f \in Live : slotOf[f] = slots[f].gen

\* sync_slots: the slot objects, which decide whether a result is accepted and
\* whether a loss counts as one before readiness, never lag behind the reducer
\* when another task can look at them.
SeenIsCurrent ==
  turn = Loop => \A f \in Live :
    slotOf[f] = slots[f].gen => seen[slotOf[f]] = View(slots[f].state, slots[f].job)

\* The job's fate is still being decided: it is queued, a slot has it, or some
\* drive has still to settle it.
Undecided(j) ==
  \/ \E i \in DOMAIN queue : queue[i] = j
  \/ \E f \in Live : slots[f].job = j
  \/ \E f \in Fibers : \E i \in DOMAIN todo[f] :
       todo[f][i].kind \in {"RESOLVE", "FAIL"} /\ todo[f][i].job = j

\* Every pending job is somewhere, so that an event can settle it.
JobsAccounted == \A j \in jobs : Undecided(j)

\* A submitter never waits for a future the pool has no record of.
NoFutureOrphaned == \A j \in Jobs : future[j] = "waiting" => j \in jobs

\* A job is not left waiting in the queue of a pool without slots that will
\* never have one.
NoImpossibleSlots ==
  queue # <<>> /\ starter = "up" /\ ~closing /\ turn = Loop =>
    \/ Live # {} \/ pendingSpawns # {} \/ recovery
    \/ \E f \in Fibers : todo[f] # <<>>

\* The child wrote what its reader cannot take.
Garbled(g) ==
  \/ inbox[g] # <<>> /\ Head(inbox[g]).op = "bad"
  \/ Task("lose", g, NoJob) \in tasks

\* A skeleton that works is not given up: only a child that ended, broke the
\* protocol or belongs to a closing pool loses its slot.  An event about an
\* older owner of the same descriptor does not touch it.
OnlyFailedSlotsLost ==
  [][\A f \in Live :
       LET g == slots[f].gen
       IN  slots'[f].gen # g => closing \/ ~Alive(g) \/ Garbled(g)]_vars

\* close() comes to its end even when no child ever answers.
CloseReturns == closing ~> (closer = "closed")

\* finish_close() has cleared the tables while skeleton g, which came too late,
\* had still to be dropped: the drive that was to do so has other effects to
\* perform first, and will not find the slot.
Forgotten(g) ==
  /\ closer = "closed" /\ ~SlotFor(g)
  /\ \E f \in Fibers : \E i \in DOMAIN todo[f] \ {1} : todo[f][i] = Effect("DROP", g, NoJob)

\* Once the pool is closed every child ends and its control socket is closed,
\* those spawned in the meantime included, with one exception: a child that is
\* forgotten behind another SPAWN of its drive, or what follows one.
\* (spawn_effect, drive, finish_close.)
NothingLeft ==
  \A g \in Gens :
    []~Forgotten(g) =>
      ((closer = "closed") ~> (g \notin open /\ child[g].is # "forking" /\ ~Alive(g)))

\* When faults stop and children answer, the pool is at full strength again, unless
\* it closes or its recovery circuit has opened.
CapacityRestored ==
  ChildFairness =>
    []<>(\/ starter = "no" \/ closing \/ startupError
         \/ /\ Cardinality(Live) = Target
            /\ \A f \in Live : slots[f].state \in {"idle", "running"})

\* A job is settled when children answer, unless the pool closes or its recovery
\* circuit opens.
JobsSettle ==
  ChildFairness =>
    \A j \in Jobs : (future[j] = "waiting") ~> (future[j] # "waiting" \/ closing \/ startupError)
=============================================================================
