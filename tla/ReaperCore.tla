------------------------------ MODULE ReaperCore ------------------------------
(***************************************************************************)
(* control.py: the reducer that decides, event by event, what a pool of    *)
(* skeleton processes does.  Each event of the code is an action over the  *)
(* reducer's state; what it returns is a sequence of effects for the       *)
(* driver.  Every event ends with a dispatch.  The previous dispatch left  *)
(* no idle slot next to a queued job and an event adds at most one of      *)
(* them, so one job is all there is to hand out (NothingToDispatch says    *)
(* that none is left).                                                     *)
(***************************************************************************)
EXTENDS Naturals, Sequences, FiniteSets

CONSTANTS
  Target,   \* how many skeletons the pool keeps
  MaxGen,   \* bound: no generation beyond it is asked for
  Fds,      \* the file descriptors of control sockets
  Jobs,     \* job ids
  NoJob

Gens == 1..MaxGen

ASSUME CoreAssumption ==
  /\ Target \in Nat \ {0} /\ MaxGen \in Nat
  /\ IsFiniteSet(Fds) /\ 0 \notin Fds   \* 0: no descriptor
  /\ NoJob \notin Jobs

VARIABLES
  coreClosing,    \* ReaperCore.closing
  slots,          \* ReaperCore.slots: the slot each descriptor is the key of
  pendingSpawns,  \* generations asked for and not answered
  queue,          \* jobs no slot has taken
  nextGen         \* the last generation asked for

core == <<coreClosing, slots, pendingSpawns, queue, nextGen>>

NoSlot == [gen |-> 0, state |-> "dead", job |-> NoJob]

Slot(g, s, j) == [gen |-> g, state |-> s, job |-> j]

Live == {f \in Fds : slots[f] # NoSlot}

CoreInit ==
  /\ coreClosing = FALSE
  /\ slots = [f \in Fds |-> NoSlot]
  /\ pendingSpawns = {}
  /\ queue = <<>>
  /\ nextGen = 0

\* An effect is about a skeleton generation, a job, or both.
Effect(k, g, j) == [kind |-> k, gen |-> g, job |-> j]

Discard(g) == <<Effect("DROP", g, NoJob), Effect("CLOSE_CONTROL", g, NoJob),
                Effect("CLOSE_DEATH", g, NoJob), Effect("REAP", g, NoJob)>>

\* Mutant of Find: the generation is not compared.
FindByFd(f, g) == slots[f] # NoSlot

\* find: a slot is its descriptor and its generation, since descriptors are
\* used again.
Find(f, g) == slots[f] # NoSlot /\ slots[f].gen = g

-----------------------------------------------------------------------------
(* dispatch and fill, over the slots sl and the queue qu an event leaves     *)

Dispatch(sl, qu) ==
  LET idle == {f \in Fds : sl[f].state = "idle"}
  IN  \/ /\ idle = {} \/ qu = <<>>
         /\ slots' = sl /\ queue' = qu
      \/ /\ idle # {} /\ qu # <<>>
         /\ \E f \in idle : slots' = [sl EXCEPT ![f] = Slot(@.gen, "running", Head(qu))]
         /\ queue' = Tail(qu)

\* The SEND_RUN that the dispatch of this step asks for.
SendRun ==
  LET taken == {f \in Fds : slots'[f].state = "running" /\ slots'[f] # slots[f]}
  IN  IF taken = {} THEN <<>>
      ELSE LET f == CHOOSE f \in taken : TRUE
           IN  <<Effect("SEND_RUN", slots'[f].gen, slots'[f].job)>>

\* How many skeletons are missing when n exist or are on their way.
Missing(n) ==
  IF coreClosing \/ n >= Target THEN 0
  ELSE IF Target - n <= MaxGen - nextGen THEN Target - n ELSE MaxGen - nextGen

\* The generations nextGen + 1, ..., nextGen + n are asked for.
Ask(n, others) ==
  /\ pendingSpawns' = others \cup {g \in Gens : nextGen < g /\ g <= nextGen + n}
  /\ nextGen' = nextGen + n

Spawns(n) == [i \in 1..n |-> Effect("SPAWN", nextGen + i, NoJob)]

-----------------------------------------------------------------------------
(* The events                                                                *)

\* START and RECOVER.
Short == Missing(Cardinality(Live) + Cardinality(pendingSpawns))

CoreFill ==
  /\ Ask(Short, pendingSpawns)
  /\ Dispatch(slots, queue)
  /\ UNCHANGED coreClosing

FillEffects == Spawns(Short) \o SendRun

\* SPAWNED: a child nobody waits for any more is discarded.
Expected(g) == g \in pendingSpawns /\ ~coreClosing

ShortWith(f) == Missing(Cardinality(Live \cup {f}) + Cardinality(pendingSpawns) - 1)

CoreSpawned(f, g) ==
  /\ \/ /\ Expected(g)
        /\ Ask(ShortWith(f), pendingSpawns \ {g})
        /\ Dispatch([slots EXCEPT ![f] = Slot(g, "starting", NoJob)], queue)
     \/ /\ ~Expected(g)
        /\ pendingSpawns' = pendingSpawns \ {g}
        /\ Dispatch(slots, queue)
        /\ UNCHANGED nextGen
  /\ UNCHANGED coreClosing

\* Mutant of SpawnedEffects: a child that came too late is forgotten.
SpawnedEffectsForgotten(f, g) ==
  (IF Expected(g) THEN Spawns(ShortWith(f)) ELSE <<>>) \o SendRun

SpawnedEffects(f, g) ==
  (IF Expected(g) THEN Spawns(ShortWith(f)) ELSE Discard(g)) \o SendRun

CoreSpawnFailed(g) ==
  /\ pendingSpawns' = pendingSpawns \ {g}
  /\ Dispatch(slots, queue)
  /\ UNCHANGED <<coreClosing, nextGen>>

CoreReady(f, g) ==
  /\ Dispatch(IF Find(f, g) /\ slots[f].state = "starting"
              THEN [slots EXCEPT ![f].state = "idle"] ELSE slots, queue)
  /\ UNCHANGED <<coreClosing, pendingSpawns, nextGen>>

Known == {queue[i] : i \in DOMAIN queue} \cup {slots[f].job : f \in Live}

\* Mutant of CoreSubmit: no dispatch follows.
CoreSubmitQueued(j) ==
  /\ queue' = IF coreClosing \/ j \in Known THEN queue ELSE Append(queue, j)
  /\ UNCHANGED <<coreClosing, slots, pendingSpawns, nextGen>>

CoreSubmit(j) ==
  /\ Dispatch(slots, IF coreClosing \/ j \in Known THEN queue ELSE Append(queue, j))
  /\ UNCHANGED <<coreClosing, pendingSpawns, nextGen>>

\* RESULT counts only for the job the slot is running.
Accepts(f, g, j) == Find(f, g) /\ slots[f].state = "running" /\ slots[f].job = j

\* Mutant of CoreResult: no dispatch follows.
CoreResultIdle(f, g, j) ==
  /\ slots' = IF Accepts(f, g, j) THEN [slots EXCEPT ![f] = Slot(g, "idle", NoJob)] ELSE slots
  /\ UNCHANGED <<coreClosing, pendingSpawns, queue, nextGen>>

CoreResult(f, g, j) ==
  /\ Dispatch(IF Accepts(f, g, j) THEN [slots EXCEPT ![f] = Slot(g, "idle", NoJob)] ELSE slots,
              queue)
  /\ UNCHANGED <<coreClosing, pendingSpawns, nextGen>>

ResultEffects(f, g, j, ok) ==
  (IF ~Accepts(f, g, j) THEN <<>>
   ELSE <<Effect(IF ok THEN "RESOLVE" ELSE "FAIL", g, j)>>) \o SendRun

\* Mutant of CoreLost: the slot is marked dead and stays in the table.
CoreLostStays(f, g) ==
  /\ slots' = IF Find(f, g) THEN [slots EXCEPT ![f] = Slot(g, "dead", NoJob)] ELSE slots
  /\ UNCHANGED <<coreClosing, pendingSpawns, queue, nextGen>>

\* EOF and SEND_FAILED: the slot is gone, and its job fails with it.
CoreLost(f, g) ==
  /\ Dispatch(IF Find(f, g) THEN [slots EXCEPT ![f] = NoSlot] ELSE slots, queue)
  /\ UNCHANGED <<coreClosing, pendingSpawns, nextGen>>

\* Mutants of LostEffects: the job of the slot is forgotten, and a job fails even
\* when the slot had none.
LostEffectsSilent(f, g) == IF ~Find(f, g) THEN <<>> ELSE Discard(g)

LostEffectsAlwaysFail(f, g) ==
  IF ~Find(f, g) THEN <<>> ELSE Append(Discard(g), Effect("FAIL", g, slots[f].job))

LostEffects(f, g) ==
  (IF ~Find(f, g) THEN <<>>
   ELSE IF slots[f].job = NoJob THEN Discard(g)
   ELSE Append(Discard(g), Effect("FAIL", g, slots[f].job))) \o SendRun

\* Mutant of CoreClose: pending spawns are still expected.
CoreCloseExpecting ==
  /\ coreClosing' = TRUE
  /\ IF coreClosing THEN UNCHANGED <<slots, queue>>
     ELSE /\ queue' = <<>>
          /\ slots' = [f \in Fds |-> IF f \in Live THEN Slot(slots[f].gen, "stopping", NoJob)
                                                   ELSE NoSlot]
  /\ UNCHANGED <<pendingSpawns, nextGen>>

\* CLOSE: every job fails and every slot is told to stop.
CoreClose ==
  /\ coreClosing' = TRUE
  /\ IF coreClosing THEN UNCHANGED <<slots, queue, pendingSpawns>>
     ELSE /\ queue' = <<>>
          /\ pendingSpawns' = {}
          /\ slots' = [f \in Fds |-> IF f \in Live THEN Slot(slots[f].gen, "stopping", NoJob)
                                                   ELSE NoSlot]
  /\ UNCHANGED nextGen

\* A sequence that lists each descriptor of F once.
Listed(F) == CHOOSE s \in [1..Cardinality(F) -> F] : \A f \in F : \E i \in DOMAIN s : s[i] = f

CloseEffects ==
  LET busy == Listed({f \in Live : slots[f].job # NoJob})
      live == Listed(Live)
  IN  IF coreClosing THEN <<>>
      ELSE [i \in DOMAIN queue |-> Effect("FAIL", 0, queue[i])]
           \o [i \in DOMAIN busy |-> Effect("FAIL", slots[busy[i]].gen, slots[busy[i]].job)]
           \o [i \in DOMAIN live |-> Effect("SEND_STOP", slots[live[i]].gen, NoJob)]

\* DEADLINE: what is left of a closing pool is killed.
CoreDeadline ==
  /\ Dispatch(slots, queue)
  /\ UNCHANGED <<coreClosing, pendingSpawns, nextGen>>

DeadlineEffects ==
  LET live == Listed(Live)
  IN  IF ~coreClosing THEN SendRun
      ELSE [i \in DOMAIN live |-> Effect("KILL", slots[live[i]].gen, NoJob)] \o SendRun

-----------------------------------------------------------------------------
(* What must hold after every event                                          *)

\* The facts assert_invariants checks: the pool never grows past its target, a
\* slot has a job exactly when it runs, no job is in two places, generations
\* are distinct and a closing pool expects no spawn.
CoreAsserts ==
  /\ Cardinality(Live) + Cardinality(pendingSpawns) <= Target
  /\ \A f \in Live : (slots[f].job # NoJob) <=> (slots[f].state = "running")
  /\ \A i, k \in DOMAIN queue : queue[i] = queue[k] => i = k
  /\ \A f \in Live, i \in DOMAIN queue : slots[f].job # queue[i]
  /\ \A f, h \in Live : slots[f].job = slots[h].job /\ slots[f].job # NoJob => f = h
  /\ \A f, h \in Live : slots[f].gen = slots[h].gen => f = h
  /\ \A f \in Live : slots[f].gen \notin pendingSpawns /\ slots[f].gen <= nextGen
  /\ \A g \in pendingSpawns : g <= nextGen
  /\ coreClosing => pendingSpawns = {}

\* No job waits while a slot is idle: dispatch hands out all there is.
NothingToDispatch ==
  queue = <<>> \/ \A f \in Fds : slots[f].state # "idle"
=============================================================================
