------------------------- MODULE SkeletonDriverProofs -------------------------
(***************************************************************************)
(* Proofs about the driver of SkeletonPool, which performs the effects of  *)
(* ReaperCore one by one and awaits between them: its tables agree with    *)
(* the slots of the reducer whenever the loop is free, and no skeleton     *)
(* that works loses its slot, for every size of pool, every set of         *)
(* descriptors and of jobs and any number of faults.                       *)
(***************************************************************************)
EXTENDS SkeletonPoolProofs

-----------------------------------------------------------------------------
(* The inductive invariant, over the tables, the fibers and their effects    *)

\* The tasks the driver leaves to the loop: send_run, send_stop and a lost slot.
TaskSet == {t \in [op : {"run", "stop", "lose"}, gen : Gens, job : AnyJob] :
              t.op = "run" => t.job \in Jobs}

\* What a fiber has to do, and the tasks that wait, have their types.
EventTypes ==
  /\ turn \in Fibers \cup {Loop}
  /\ todo \in [Fibers -> Seq(Doable)]
  /\ tasks \subseteq TaskSet

\* start(), close(), and what the failed starts count up to.
LifeTypes ==
  /\ closing \in BOOLEAN /\ waited \subseteq Gens
  /\ starter \in {"no", "starting", "polling", "up", "failed"}
  /\ closer \in {"no", "called", "stopping", "waiting", "killing", "draining", "closed"}
  /\ recovery \in BOOLEAN /\ startupError \in BOOLEAN /\ preReadyFailures \in Nat
  /\ coreClosing \in BOOLEAN

\* The driver's tables of slot objects, descriptors and reader tasks.
TableTypes ==
  /\ retired \subseteq Gens /\ open \subseteq Gens /\ preReady \subseteq Gens
  /\ slotOf \in [Fds -> Gens \cup {0}]
  /\ fdOf \in [Gens -> Fds \cup {0}]
  /\ seen \in [Gens -> [state : SlotStates, job : AnyJob]]
  /\ reader \in [Gens -> {"none", "reading", "done"}]

\* Accepted jobs and their futures.
WorkTypes ==
  /\ jobs \subseteq Jobs
  /\ future \in [Jobs -> {"none", "waiting", "resolved", "failed"}]

\* The children, their sockets, and what may still go wrong.
ProcessTypes ==
  /\ child \in [Gens -> [is : {"none", "forking", "booting", "idle", "working",
                               "exited", "reaped"}, job : AnyJob]]
  /\ mail \in [Gens -> Seq([op : {"run", "stop"}, job : AnyJob])]
  /\ inbox \in [Gens -> Seq([op : {"ready", "ok", "error", "bad"}, job : AnyJob])]
  /\ doomed \subseteq Gens /\ faults \in 0..MaxFaults

\* The types the proofs use: those of TypeOK, with a child for every SEND_RUN.
PoolTypes == EventTypes /\ LifeTypes /\ TableTypes /\ WorkTypes /\ ProcessTypes

\* The effects that dismantle a slot.
Teardown == {"DROP", "CLOSE_CONTROL", "CLOSE_DEATH", "REAP"}

\* The generation was used and is given up.
Gone(g) == g <= nextGen /\ g \notin pendingSpawns /\ \A f \in Fds : slots[f].gen # g

\* Fiber f has g to spawn.
Asks(f, g) == \E i \in DOMAIN todo[f] : todo[f][i].kind = "SPAWN" /\ todo[f][i].gen = g

\* Fiber f has g to clear away.
Clears(f, g) == \E i \in DOMAIN todo[f] : todo[f][i].kind \in Teardown /\ todo[f][i].gen = g

\* A slot's object has the descriptor the reducer knows it by, its socket is open,
\* and no two open sockets have the same descriptor.
PlaceInv ==
  /\ \A f \in Fds : slots[f] # NoSlot =>
       /\ slotOf[f] = slots[f].gen /\ fdOf[slots[f].gen] = f
       /\ slots[f].gen \in open /\ reader[slots[f].gen] # "none"
  /\ \A g, h \in open : fdOf[g] = fdOf[h] => g = h
  /\ \A d \in Fds : slotOf[d] # 0 => fdOf[slotOf[d]] = d /\ reader[slotOf[d]] # "none"
  /\ \A g \in Gens : reader[g] # "none" => fdOf[g] \in Fds
  /\ \A g \in waited \cup retired : reader[g] # "none"
  /\ \A g \in Gens : turn = Reader(g) \/ todo[Reader(g)] # <<>> => reader[g] # "none"

\* A generation is spawned once: its reader starts when it is entered.
SpawnInv ==
  /\ \A f \in Fibers : \A i, k \in DOMAIN todo[f] :
       todo[f][i].kind = "SPAWN" /\ todo[f][k].kind = "SPAWN"
         /\ todo[f][i].gen = todo[f][k].gen => i = k
  /\ \A f, h \in Fibers, g \in Gens : Asks(f, g) /\ Asks(h, g) => f = h
  /\ \A f \in Fibers, g \in Gens : Asks(f, g) => g <= nextGen /\ reader[g] = "none"
  /\ \A g \in Gens : reader[g] # "none" => g <= nextGen
  /\ \A g \in Gens : child[g].is = "forking" => g \in open /\ reader[g] = "none"

\* What is cleared away is not in use.
GoneInv == \A f \in Fibers, g \in Gens : Clears(f, g) => Gone(g) /\ reader[g] # "none"

\* How far close() is.
PhaseInv ==
  /\ coreClosing <=> closer \notin {"no", "called"}
  /\ closer # "no" => closing
  /\ closer = "draining" => \A f \in Fds : slots[f] # NoSlot => slots[f].gen \in waited
  /\ closer = "closed" => \A f \in Fds : slots[f] = NoSlot

\* What the driver adds to the invariant of the reducer.
TablesInv == PoolTypes /\ PlaceInv /\ SpawnInv /\ GoneInv /\ PhaseInv

\* The inductive invariant of the driver.
DriverInv == CoreInv /\ SocketsInv /\ TablesInv

-----------------------------------------------------------------------------
(* What a fiber does, effect by effect                                       *)

\* The fibers are different.
LEMMA FiberNames ==
  /\ Starter \in Fibers /\ Closer \in Fibers /\ Submitter \in Fibers
  /\ Recoverers \subseteq Fibers /\ Loop \notin Fibers
  /\ Starter # Closer /\ Starter # Submitter /\ Submitter # Closer
  /\ \A f \in Recoverers : f \notin {Starter, Closer, Submitter}
  /\ \A g \in Gens : /\ Reader(g) \in Fibers /\ Sender(g) \in Fibers /\ Loser(g) \in Fibers
                     /\ {Reader(g), Sender(g), Loser(g)}
                          \cap ({Starter, Closer, Submitter} \cup Recoverers) = {}
  /\ \A g, h \in Gens : /\ Reader(g) # Sender(h) /\ Reader(g) # Loser(h) /\ Sender(g) # Loser(h)
                        /\ Reader(g) = Reader(h) => g = h
                        /\ Sender(g) = Sender(h) => g = h
                        /\ Loser(g) = Loser(h) => g = h
BY DEF Fibers, Recoverers, Starter, Closer, Submitter, Loop, Reader, Sender, Loser

\* The slot of a skeleton that works.
LEMMA LiveGens ==
  ASSUME CoreInv
  PROVE  /\ nextGen \in Nat /\ MaxGen \in Nat /\ nextGen <= MaxGen /\ pendingSpawns \subseteq Gens
         /\ slots \in [Fds -> SlotSet] /\ queue \in Seq(Jobs)
         /\ NoSlot.gen = 0 /\ NoSlot.job = NoJob /\ NoSlot.state = "dead"
         /\ \A f \in Fds : /\ slots[f] # NoSlot <=> slots[f].gen # 0
                           /\ slots[f] # NoSlot => /\ slots[f].gen \in Gens
                                                   /\ slots[f].gen <= nextGen
                                                   /\ slots[f].gen \notin pendingSpawns
                           /\ slots[f].gen \in Gens \cup {0} /\ slots[f].job \in AnyJob
                           /\ slots[f].state \in SlotStates
         /\ \A f, h \in Fds : slots[f].gen = slots[h].gen /\ slots[f].gen # 0 => f = h
<1>1. /\ nextGen \in 0..MaxGen /\ MaxGen \in Nat /\ pendingSpawns \subseteq 1..nextGen
      /\ slots \in [Fds -> SlotSet] /\ queue \in Seq(Jobs)
  BY CoreAssumption DEF CoreInv, GensInv, JobsInv
<1>2. NoSlot.gen = 0 /\ NoSlot.job = NoJob /\ NoSlot.state = "dead"
  BY DEF NoSlot
<1>3. \A f \in Fds : slots[f] # NoSlot =>
        slots[f].gen \in 1..nextGen /\ slots[f].gen \notin pendingSpawns
  BY DEF CoreInv, GensInv, LiveIn
<1>4. \A f \in Fds : slots[f] # NoSlot =>
        /\ slots[f].gen \in Gens /\ slots[f].gen <= nextGen
        /\ slots[f].gen \notin pendingSpawns /\ slots[f].gen # 0
  BY <1>1, <1>3 DEF Gens
<1>5. \A f, h \in Fds : slots[f].gen = slots[h].gen /\ slots[f].gen # 0 => f = h
  BY <1>2 DEF CoreInv, GensInv, LiveIn
<1>6. pendingSpawns \subseteq Gens
  BY <1>1 DEF Gens
<1>7. \A f \in Fds : slots[f].job \in AnyJob /\ slots[f].state \in SlotStates
  BY <1>1 DEF SlotSet
<1> QED BY <1>1, <1>2, <1>4, <1>5, <1>6, <1>7

\* What a fiber has to do when the slot of g is lost.
LossEffects(g) ==
  IF slots[fdOf[g]].job = NoJob THEN Discard(g)
  ELSE Append(Discard(g), Effect("FAIL", g, slots[fdOf[g]].job))

\* A fiber loses the slot of g, or finds it lost.
Loses(f, g) ==
  /\ turn' = f
  /\ UNCHANGED <<queue, coreClosing, pendingSpawns, nextGen>>
  /\ \/ /\ slots[fdOf[g]] # NoSlot /\ slots[fdOf[g]].gen = g
        /\ slots' = [slots EXCEPT ![fdOf[g]] = NoSlot]
        /\ todo' = [todo EXCEPT ![f] = LossEffects(g)]
     \/ /\ slots[fdOf[g]].gen # g
        /\ UNCHANGED slots
        /\ todo' = [todo EXCEPT ![f] = <<>>]

\* Lose applies EOF or SEND_FAILED and performs what it asks for.
LEMMA LosesForm ==
  ASSUME CoreInv, NEW g \in Gens, fdOf[g] \in Fds, NEW f, CoreLost(fdOf[g], g),
         Run(f, LostEffects(fdOf[g], g))
  PROVE  Loses(f, g)
BY LostForm DEF Loses, LossEffects, Run

\* One element more.
LEMMA AppendForm ==
  ASSUME NEW S, NEW s \in Seq(S), NEW e \in S
  PROVE  /\ Append(s, e) \in Seq(S) /\ Len(Append(s, e)) = Len(s) + 1
         /\ Append(s, e)[Len(s) + 1] = e
         /\ \A i \in 1..Len(s) : Append(s, e)[i] = s[i]
OBVIOUS

\* A slot is dropped, and one effect more is asked for.
LEMMA DiscardThen ==
  ASSUME NEW g \in Gens, NEW e \in Doable
  PROVE  /\ Append(Discard(g), e) \in Seq(Doable) /\ Len(Append(Discard(g), e)) = 5
         /\ Append(Discard(g), e)[5] = e
         /\ \A i \in 1..4 : Append(Discard(g), e)[i] = Discard(g)[i]
<1>1. Discard(g) \in Seq(Doable) /\ Len(Discard(g)) = 4
  BY DiscardForm
<1>2. ASSUME NEW d, d \in Seq(Doable), Len(d) = 4
      PROVE  /\ Append(d, e) \in Seq(Doable) /\ Len(Append(d, e)) = 5 /\ Append(d, e)[5] = e
             /\ \A i \in 1..4 : Append(d, e)[i] = d[i]
  <2>1. /\ Append(d, e) \in Seq(Doable) /\ Len(Append(d, e)) = Len(d) + 1
        /\ Append(d, e)[Len(d) + 1] = e
        /\ \A i \in 1..Len(d) : Append(d, e)[i] = d[i]
    BY <1>2
  <2> QED BY <1>2, <2>1
<1> QED BY <1>1, <1>2, Zenon

\* What dismantles a slot comes first, and the job it had fails after that.
LEMMA LossForm ==
  ASSUME CoreInv, NEW g \in Gens, fdOf[g] \in Fds
  PROVE  /\ LossEffects(g) \in Seq(Doable) /\ Len(LossEffects(g)) \in {4, 5}
         /\ LossEffects(g)[1] = Effect("DROP", g, NoJob)
         /\ LossEffects(g)[2] = Effect("CLOSE_CONTROL", g, NoJob)
         /\ LossEffects(g)[3] = Effect("CLOSE_DEATH", g, NoJob)
         /\ LossEffects(g)[4] = Effect("REAP", g, NoJob)
         /\ slots[fdOf[g]].job = NoJob <=> Len(LossEffects(g)) = 4
         /\ Len(LossEffects(g)) = 5 =>
              LossEffects(g)[5] = Effect("FAIL", g, slots[fdOf[g]].job)
<1>1. /\ Discard(g) \in Seq(Doable) /\ Len(Discard(g)) = 4
      /\ Discard(g)[1] = Effect("DROP", g, NoJob)
      /\ Discard(g)[2] = Effect("CLOSE_CONTROL", g, NoJob)
      /\ Discard(g)[3] = Effect("CLOSE_DEATH", g, NoJob)
      /\ Discard(g)[4] = Effect("REAP", g, NoJob)
  BY DiscardForm
<1>2. CASE slots[fdOf[g]].job = NoJob
  BY <1>1, <1>2 DEF LossEffects
<1>3. CASE slots[fdOf[g]].job # NoJob
  <2> DEFINE e == Effect("FAIL", g, slots[fdOf[g]].job)
  <2>1. e \in Doable
    <3>1. slots[fdOf[g]].job \in Jobs
      BY <1>3, LiveGens DEF AnyJob
    <3> QED BY <3>1 DEF Effect, Effects, Doable
  <2> HIDE DEF e
  <2>2. /\ Append(Discard(g), e) \in Seq(Doable) /\ Len(Append(Discard(g), e)) = 5
        /\ Append(Discard(g), e)[5] = e
        /\ \A i \in 1..4 : Append(Discard(g), e)[i] = Discard(g)[i]
    BY <2>1, DiscardThen
  <2>3. LossEffects(g) = Append(Discard(g), e)
    BY <1>3 DEF LossEffects, e
  <2>4. LossEffects(g)[5] = Effect("FAIL", g, slots[fdOf[g]].job)
    BY <2>2, <2>3 DEF e
  <2>5. /\ LossEffects(g) \in Seq(Doable) /\ Len(LossEffects(g)) = 5
        /\ \A i \in 1..4 : LossEffects(g)[i] = Discard(g)[i]
    BY <2>2, <2>3
  <2> HIDE DEF LossEffects
  <2> QED BY <1>1, <1>3, <2>4, <2>5
<1> QED BY <1>2, <1>3

\* The fibers' todo lists have their type.
LEMMA TodoSet ==
  ASSUME PoolTypes, NEW f \in Fibers, NEW s \in Seq(Doable), NEW t, t = [todo EXCEPT ![f] = s]
  PROVE  /\ t \in [Fibers -> Seq(Doable)]
         /\ t[f] = s /\ \A h \in Fibers : h # f => t[h] = todo[h]
BY DEF PoolTypes, EventTypes

\* The first effect of a fiber.
LEMMA First ==
  ASSUME PoolTypes, NEW f \in Fibers, NEW kind, Heads(f, kind)
  PROVE  /\ todo[f] \in Seq(Doable) /\ todo[f] # <<>> /\ 1 \in DOMAIN todo[f]
         /\ DOMAIN todo[f] = 1..Len(todo[f]) /\ Len(todo[f]) \in Nat \ {0}
         /\ Head(todo[f]) = todo[f][1] /\ todo[f][1] \in Doable /\ todo[f][1].kind = kind
         /\ Subject(f) = todo[f][1].gen
         /\ Tail(todo[f]) \in Seq(Doable) /\ Len(Tail(todo[f])) = Len(todo[f]) - 1
         /\ DOMAIN Tail(todo[f]) = 1..Len(Tail(todo[f]))
         /\ \A i \in 1..Len(Tail(todo[f])) :
              i + 1 \in 1..Len(todo[f]) /\ Tail(todo[f])[i] = todo[f][i + 1]
<1>1. todo[f] \in Seq(Doable) /\ todo[f] # <<>> /\ Head(todo[f]).kind = kind
  BY DEF PoolTypes, EventTypes, Heads
<1>2. /\ Head(todo[f]) = todo[f][1] /\ 1 \in 1..Len(todo[f]) /\ Head(todo[f]) \in Doable
      /\ Tail(todo[f]) \in Seq(Doable) /\ Len(Tail(todo[f])) = Len(todo[f]) - 1
      /\ Len(todo[f]) \in Nat \ {0}
      /\ \A i \in 1..Len(Tail(todo[f])) :
           i + 1 \in 1..Len(todo[f]) /\ Tail(todo[f])[i] = todo[f][i + 1]
  BY <1>1, TailForm
<1>3. DOMAIN todo[f] = 1..Len(todo[f]) /\ DOMAIN Tail(todo[f]) = 1..Len(Tail(todo[f]))
  BY <1>1, <1>2
<1> QED BY <1>1, <1>2, <1>3 DEF Subject

\* An effect on a skeleton has one.
LEMMA SubjectGen ==
  ASSUME NEW e \in Doable
  PROVE  /\ e.kind \notin {"RESOLVE", "FAIL"} => e.gen \in Gens
         /\ e.kind \in {"SEND_RUN", "RESOLVE", "FAIL"} => e.job \in Jobs
         /\ e.job \in AnyJob /\ e.gen \in Gens \cup {0}
         /\ e.kind \in {"SPAWN", "SEND_STOP", "DROP", "CLOSE_CONTROL", "CLOSE_DEATH", "REAP",
                        "KILL", "SEND_RUN", "RESOLVE", "FAIL"}
BY DEF Doable, Effects, AnyJob

\* Fiber f hands out a job, or none, when the event leaves the slots sl and the
\* queue qu, and pre is what it has to do first.
Hands(f, sl, qu, pre) ==
  /\ turn' = f
  /\ \/ slots' = sl /\ queue' = qu /\ todo' = [todo EXCEPT ![f] = pre]
     \/ \E d \in Fds, j \in Jobs :
          /\ sl[d].state = "idle" /\ qu # <<>> /\ j = Head(qu) /\ queue' = Tail(qu)
          /\ slots' = [sl EXCEPT ![d] = Slot(sl[d].gen, "running", j)]
          /\ todo' = [todo EXCEPT ![f] = pre \o <<Effect("SEND_RUN", sl[d].gen, j)>>]

\* A dispatch in a fiber that has something to do before it.
LEMMA HandsForm ==
  ASSUME NEW sl, NEW qu \in Seq(Jobs), Handed(sl, qu), NEW f, NEW pre \in Seq(Doable),
         Run(f, pre \o SendRun)
  PROVE  Hands(f, sl, qu, pre)
<1>1. CASE slots' = sl /\ queue' = qu /\ SendRun = <<>>
  BY <1>1, NothingMore DEF Hands, Run
<1>2. CASE /\ qu # <<>> /\ queue' = Tail(qu)
           /\ \E d \in Fds :
                /\ sl[d].state = "idle"
                /\ slots' = [sl EXCEPT ![d] = Slot(sl[d].gen, "running", Head(qu))]
                /\ SendRun = <<Effect("SEND_RUN", sl[d].gen, Head(qu))>>
  <2>1. Head(qu) \in Jobs
    BY <1>2
  <2> QED BY <1>2, <2>1 DEF Hands, Run
<1> QED BY <1>1, <1>2 DEF Handed

\* A short list of effects.
LEMMA ShortLists ==
  ASSUME NEW S
  PROVE  /\ <<>> \in Seq(S) /\ \A s : <<>> \o <<s>> = <<s>>
         /\ \A e \in S : <<e>> \in Seq(S) /\ Len(<<e>>) = 1 /\ <<e>>[1] = e
         /\ \A e, x \in S : /\ <<e>> \o <<x>> \in Seq(S) /\ Len(<<e>> \o <<x>>) = 2
                            /\ (<<e>> \o <<x>>)[1] = e /\ (<<e>> \o <<x>>)[2] = x
                            /\ <<e>> \o <<x>> # <<>>
OBVIOUS

\* A spawn that was asked for.
LEMMA Spawning ==
  ASSUME DriverInv, NEW f \in Fibers, Heads(f, "SPAWN")
  PROVE  /\ Subject(f) \in Gens /\ Asks(f, Subject(f)) /\ reader[Subject(f)] = "none"
         /\ Subject(f) <= nextGen
         /\ todo[f] # <<>> /\ todo[f][1].kind = "SPAWN" /\ todo[f][1].gen = Subject(f)
<1>1. /\ todo[f][1] \in Doable /\ todo[f][1].kind = "SPAWN" /\ 1 \in DOMAIN todo[f]
      /\ Subject(f) = todo[f][1].gen /\ todo[f] # <<>>
  BY First DEF DriverInv, TablesInv
<1>2. Subject(f) \in Gens
  BY <1>1, SubjectGen
<1>3. Asks(f, Subject(f))
  BY <1>1 DEF Asks
<1> QED BY <1>1, <1>2, <1>3 DEF DriverInv, TablesInv, SpawnInv

\* A slot that is cleared away.
LEMMA Clearing ==
  ASSUME DriverInv, NEW f \in Fibers, NEW kind \in Teardown, Heads(f, kind)
  PROVE  /\ Subject(f) \in Gens /\ Clears(f, Subject(f)) /\ reader[Subject(f)] # "none"
         /\ Gone(Subject(f))
         /\ todo[f] # <<>> /\ todo[f][1].kind = kind /\ todo[f][1].gen = Subject(f)
<1>1. /\ todo[f][1] \in Doable /\ todo[f][1].kind = kind /\ 1 \in DOMAIN todo[f]
      /\ Subject(f) = todo[f][1].gen /\ todo[f] # <<>>
  BY First DEF DriverInv, TablesInv
<1>2. Subject(f) \in Gens
  BY <1>1, SubjectGen DEF Teardown
<1>3. Clears(f, Subject(f))
  BY <1>1 DEF Clears
<1> QED BY <1>1, <1>2, <1>3 DEF DriverInv, TablesInv, GoneInv

\* SpawnSucceeds: the child is entered, and the effects of SPAWNED follow.
Entered(f, g) ==
  /\ UNCHANGED <<queue, coreClosing>> /\ turn' = f
  /\ \/ /\ g \in pendingSpawns /\ ~coreClosing
        /\ slots' = [slots EXCEPT ![fdOf[g]] = Slot(g, "starting", NoJob)]
        /\ \E n \in Nat :
             /\ nextGen' = nextGen + n /\ nextGen' <= MaxGen
             /\ pendingSpawns' = (pendingSpawns \ {g})
                                   \cup {h \in Gens : nextGen < h /\ h <= nextGen'}
             /\ todo' = [todo EXCEPT ![f] = Tail(todo[f]) \o Spawns(n)]
     \/ /\ ~(g \in pendingSpawns /\ ~coreClosing)
        /\ UNCHANGED <<slots, nextGen>>
        /\ pendingSpawns' = pendingSpawns \ {g}
        /\ todo' = [todo EXCEPT ![f] = Tail(todo[f]) \o Discard(g)]

\* SpawnSucceeds, with the effects SPAWNED asks for.
LEMMA EnteredForm ==
  ASSUME DriverInv, NEW f \in Fibers, SpawnSucceeds(f)
  PROVE  /\ Subject(f) \in Gens /\ fdOf[Subject(f)] \in Fds /\ child[Subject(f)].is = "forking"
         /\ Entered(f, Subject(f))
<1>1. /\ Heads(f, "SPAWN") /\ child[Subject(f)].is = "forking"
      /\ CoreSpawned(fdOf[Subject(f)], Subject(f))
      /\ turn' = f
      /\ todo' = [todo EXCEPT ![f] = Tail(todo[f])
                                       \o SpawnedEffects(fdOf[Subject(f)], Subject(f))]
  BY DEF SpawnSucceeds, Resumes, Run
<1>2. Subject(f) \in Gens
  BY <1>1, Spawning
<1>3. fdOf[Subject(f)] \in Fds
  BY <1>1, <1>2 DEF DriverInv, SocketsInv
<1>4. CoreInv
  BY DEF DriverInv
<1> QED BY <1>1, <1>2, <1>3, <1>4, SpawnedForm DEF Entered, Expected

\* SpawnFails: the effect is performed, and nothing follows.
LEMMA SpawnFailsForm ==
  ASSUME DriverInv, NEW f \in Fibers, SpawnFails(f)
  PROVE  /\ Heads(f, "SPAWN") /\ turn = Loop /\ turn' = f
         /\ UNCHANGED <<slots, queue, coreClosing, nextGen>>
         /\ pendingSpawns' = pendingSpawns \ {Subject(f)}
         /\ todo' = [todo EXCEPT ![f] = Tail(todo[f])]
<1>1. /\ Heads(f, "SPAWN") /\ turn = Loop /\ CoreSpawnFailed(Subject(f)) /\ turn' = f
      /\ todo' = [todo EXCEPT ![f] = Tail(todo[f]) \o SendRun]
  BY DEF SpawnFails, Resumes, Run
<1>2. Tail(todo[f]) \in Seq(Doable)
  BY <1>1, First DEF DriverInv, TablesInv
<1> QED BY <1>1, <1>2, NothingMore, SpawnFailedForm DEF DriverInv

\* Start and Recover: skeletons are asked for.
Fills(f) ==
  /\ UNCHANGED <<slots, queue, coreClosing>> /\ turn' = f
  /\ \E n \in Nat :
       /\ nextGen' = nextGen + n /\ nextGen' <= MaxGen
       /\ pendingSpawns' = pendingSpawns \cup {h \in Gens : nextGen < h /\ h <= nextGen'}
       /\ todo' = [todo EXCEPT ![f] = Spawns(n)]

\* START and RECOVER, whoever applies them.
LEMMA FillsForm ==
  ASSUME DriverInv, NEW f, CoreFill, Run(f, FillEffects)
  PROVE  Fills(f)
BY FillForm DEF DriverInv, Run, Fills

\* Submit.
LEMMA SubmitsForm ==
  ASSUME DriverInv, NEW j \in Jobs, Submit(j)
  PROVE  /\ UNCHANGED <<coreClosing, pendingSpawns, nextGen>>
         /\ \/ /\ UNCHANGED <<slots, queue>> /\ turn' = Submitter
               /\ todo' = [todo EXCEPT ![Submitter] = <<>>] /\ (coreClosing \/ j \in Known)
            \/ Hands(Submitter, slots, Append(queue, j), <<>>) /\ ~coreClosing
<1>1. CoreInv /\ CoreSubmit(j) /\ Run(Submitter, SendRun)
  BY DEF DriverInv, Submit
<1>2. /\ UNCHANGED <<coreClosing, pendingSpawns, nextGen>>
      /\ \/ UNCHANGED <<slots, queue>> /\ SendRun = <<>> /\ (coreClosing \/ j \in Known)
         \/ Handed(slots, Append(queue, j)) /\ ~coreClosing
  BY <1>1, SubmitForm
<1>3. CASE Handed(slots, Append(queue, j)) /\ ~coreClosing
  <2>1. queue \in Seq(Jobs)
    BY DEF DriverInv, CoreInv, JobsInv
  <2>2. Append(queue, j) \in Seq(Jobs)
    BY <2>1
  <2>3. <<>> \in Seq(Doable)
    OBVIOUS
  <2>4. <<>> \o SendRun = SendRun
    <3>1. CASE SendRun = <<>>
      BY <3>1
    <3>2. CASE \E e : SendRun = <<e>>
      BY <3>2, ShortLists
    <3> QED BY <1>3, <3>1, <3>2 DEF Handed
  <2>5. Run(Submitter, <<>> \o SendRun)
    BY <1>1, <2>4
  <2> QED BY <1>2, <1>3, <2>2, <2>3, <2>5, HandsForm
<1> QED BY <1>1, <1>2, <1>3 DEF Run

\* The reader of g handles the message that its child is ready.
Readies(g) ==
  /\ UNCHANGED <<coreClosing, pendingSpawns, nextGen>>
  /\ \/ /\ UNCHANGED <<slots, queue>> /\ turn' = Reader(g)
        /\ todo' = [todo EXCEPT ![Reader(g)] = <<>>]
     \/ /\ slots[fdOf[g]].gen = g /\ slots[fdOf[g]].state = "starting"
        /\ Hands(Reader(g), [slots EXCEPT ![fdOf[g]] = Slot(g, "idle", NoJob)], queue, <<>>)

\* The reader of g handles the answer to job j.
Results(g, j) ==
  /\ UNCHANGED <<coreClosing, pendingSpawns, nextGen>>
  /\ \/ /\ ~Accepts(fdOf[g], g, j) /\ UNCHANGED <<slots, queue>> /\ turn' = Reader(g)
        /\ todo' = [todo EXCEPT ![Reader(g)] = <<>>]
     \/ /\ slots[fdOf[g]] = Slot(g, "running", j) /\ j \in Jobs
        /\ \E kind \in {"RESOLVE", "FAIL"} :
             Hands(Reader(g), [slots EXCEPT ![fdOf[g]] = Slot(g, "idle", NoJob)], queue,
                   <<Effect(kind, g, j)>>)

\* The slots a message leaves.
LEMMA IdleSlot ==
  ASSUME CoreInv, NEW g \in Gens, NEW d \in Fds
  PROVE  [slots EXCEPT ![d] = Slot(g, "idle", NoJob)] \in [Fds -> SlotSet]
<1>1. Slot(g, "idle", NoJob) \in SlotSet
  BY DEF Slot, SlotSet, SlotStates, AnyJob, Gens
<1> QED BY <1>1 DEF CoreInv, JobsInv

\* A READY in the hands of the reader.
LEMMA ReadiesForm ==
  ASSUME DriverInv, NEW g \in Gens, fdOf[g] \in Fds, CoreReady(fdOf[g], g),
         Run(Reader(g), SendRun)
  PROVE  Readies(g)
<1>1. /\ UNCHANGED <<coreClosing, pendingSpawns, nextGen>>
      /\ \/ UNCHANGED <<slots, queue>> /\ SendRun = <<>>
         \/ /\ slots[fdOf[g]].gen = g /\ slots[fdOf[g]].state = "starting"
            /\ Handed([slots EXCEPT ![fdOf[g]] = Slot(g, "idle", NoJob)], queue)
  BY ReadyForm DEF DriverInv
<1>2. CASE /\ slots[fdOf[g]].gen = g /\ slots[fdOf[g]].state = "starting"
           /\ Handed([slots EXCEPT ![fdOf[g]] = Slot(g, "idle", NoJob)], queue)
  <2>1. queue \in Seq(Jobs) /\ <<>> \in Seq(Doable)
    BY DEF DriverInv, CoreInv, JobsInv
  <2>2. <<>> \o SendRun = SendRun
    <3>1. CASE SendRun = <<>>
      BY <3>1
    <3>2. CASE \E e : SendRun = <<e>>
      BY <3>2, ShortLists
    <3> QED BY <1>2, <3>1, <3>2 DEF Handed
  <2>3. Run(Reader(g), <<>> \o SendRun)
    BY <2>2
  <2> QED BY <1>1, <1>2, <2>1, <2>3, HandsForm DEF Readies
<1> QED BY <1>1, <1>2 DEF Readies, Run

\* A RESULT in the hands of the reader.
LEMMA ResultsForm ==
  ASSUME DriverInv, NEW g \in Gens, fdOf[g] \in Fds, NEW j, NEW ok, CoreResult(fdOf[g], g, j),
         Run(Reader(g), ResultEffects(fdOf[g], g, j, ok))
  PROVE  Results(g, j)
<1>1. /\ UNCHANGED <<coreClosing, pendingSpawns, nextGen>>
      /\ \/ /\ ~Accepts(fdOf[g], g, j) /\ UNCHANGED <<slots, queue>>
            /\ ResultEffects(fdOf[g], g, j, ok) = <<>>
         \/ /\ slots[fdOf[g]] = Slot(g, "running", j)
            /\ Handed([slots EXCEPT ![fdOf[g]] = Slot(g, "idle", NoJob)], queue)
            /\ ResultEffects(fdOf[g], g, j, ok)
                 = <<Effect(IF ok THEN "RESOLVE" ELSE "FAIL", g, j)>> \o SendRun
  BY ResultForm DEF DriverInv
<1>2. CASE /\ slots[fdOf[g]] = Slot(g, "running", j)
           /\ Handed([slots EXCEPT ![fdOf[g]] = Slot(g, "idle", NoJob)], queue)
           /\ ResultEffects(fdOf[g], g, j, ok)
                = <<Effect(IF ok THEN "RESOLVE" ELSE "FAIL", g, j)>> \o SendRun
  <2> DEFINE kind == IF ok THEN "RESOLVE" ELSE "FAIL"
             pre == <<Effect(kind, g, j)>>
  <2>1. queue \in Seq(Jobs)
    BY DEF DriverInv, CoreInv, JobsInv
  <2>2. j \in Jobs
    <3>1. slots[fdOf[g]].job = j /\ slots[fdOf[g]].state = "running"
      BY <1>2 DEF Slot
    <3> QED BY <3>1, LiveGens DEF DriverInv, CoreInv, JobsInv, AnyJob
  <2>3. kind \in {"RESOLVE", "FAIL"}
    OBVIOUS
  <2> HIDE DEF kind
  <2>4. Effect(kind, g, j) \in Doable
    BY <2>2, <2>3 DEF Effect, Doable, Effects
  <2>5. pre \in Seq(Doable)
    BY <2>4
  <2>6. Run(Reader(g), pre \o SendRun)
    BY <1>2 DEF kind
  <2> HIDE DEF pre
  <2>7. Hands(Reader(g), [slots EXCEPT ![fdOf[g]] = Slot(g, "idle", NoJob)], queue, pre)
    BY <1>2, <2>1, <2>5, <2>6, HandsForm
  <2> QED BY <1>1, <1>2, <2>2, <2>3, <2>7 DEF Results, pre
<1> QED BY <1>1, <1>2 DEF Results, Run

\* Lose, wherever it is called.
LEMMA LosingForm ==
  ASSUME DriverInv, NEW g \in Gens, reader[g] # "none", NEW f, CoreLost(fdOf[g], g),
         Run(f, LostEffects(fdOf[g], g))
  PROVE  fdOf[g] \in Fds /\ Loses(f, g)
<1>1. fdOf[g] \in Fds
  BY DEF DriverInv, TablesInv, PlaceInv
<1> QED BY <1>1, LosesForm DEF DriverInv

\* A slot somebody can find has, or had, a reader.
LEMMA FoundRead ==
  ASSUME DriverInv, NEW g \in Gens, SlotFor(g)
  PROVE  reader[g] # "none"
<1>1. CASE InSlots(g)
  <2>1. fdOf[g] \in Fds /\ slotOf[fdOf[g]] = g /\ g # 0
    BY <1>1 DEF InSlots, DriverInv, SocketsInv, Gens
  <2> QED BY <2>1 DEF DriverInv, TablesInv, PlaceInv
<1>2. CASE g \in retired
  BY <1>2 DEF DriverInv, TablesInv, PlaceInv
<1> QED BY <1>1, <1>2 DEF SlotFor

\* read_slot, one way after the other.
LEMMA ReadForm ==
  ASSUME DriverInv, NEW g \in Gens, Read(g)
  PROVE  /\ turn = Loop /\ reader[g] = "reading" /\ todo[Reader(g)] = <<>> /\ InSlots(g)
         /\ fdOf[g] \in Fds /\ slotOf[fdOf[g]] = g
         /\ \/ /\ inbox[g] = <<>> /\ ~Alive(g) /\ Loses(Reader(g), g)
               /\ UNCHANGED <<tasks, reader, health, inbox>>
            \/ /\ inbox[g] # <<>> /\ inbox' = [inbox EXCEPT ![g] = Tail(inbox[g])]
               /\ \/ /\ Readies(g) /\ preReadyFailures' = 0
                     /\ UNCHANGED <<tasks, preReady, reader, recovery, startupError>>
                  \/ /\ Head(inbox[g]).op \in {"ok", "error"} /\ Results(g, Head(inbox[g]).job)
                     /\ UNCHANGED <<tasks, preReady, reader, health>>
                  \/ UNCHANGED <<core, event, preReady, reader, health>>
                  \/ /\ Head(inbox[g]).op = "bad" /\ Loses(Reader(g), g)
                     /\ UNCHANGED <<tasks, reader, health>>
                  \/ /\ Head(inbox[g]).op = "bad"
                     /\ reader' = [reader EXCEPT ![g] = "done"]
                     /\ tasks' = tasks \cup {Task("lose", g, NoJob)}
                     /\ UNCHANGED <<core, turn, todo, preReady, health>>
<1>1. /\ turn = Loop /\ reader[g] = "reading" /\ todo[Reader(g)] = <<>> /\ InSlots(g)
      /\ slotOf[fdOf[g]] = g /\ fdOf[g] \in Fds
  BY DEF Read, InSlots, DriverInv, SocketsInv
<1>2. ASSUME Lose(Reader(g), g) PROVE Loses(Reader(g), g)
  BY <1>1, <1>2, LosingForm DEF Lose
<1>3. ASSUME CoreReady(fdOf[g], g), Run(Reader(g), SendRun) PROVE Readies(g)
  BY <1>1, <1>3, ReadiesForm
<1>4. ASSUME CoreResult(fdOf[g], g, Head(inbox[g]).job), 
             Run(Reader(g), ResultEffects(fdOf[g], g, Head(inbox[g]).job, Head(inbox[g]).op = "ok"))
      PROVE  Results(g, Head(inbox[g]).job)
  BY <1>1, <1>4, ResultsForm
<1> QED BY <1>1, <1>2, <1>3, <1>4 DEF Read

\* A preReady set stays one.
LEMMA LosePre ==
  ASSUME NEW f, NEW g \in Gens, Lose(f, g), preReady \subseteq Gens
  PROVE  preReady' \subseteq Gens
BY DEF Lose

\* send_run and send_stop: nothing to send it to, sent, or the slot is lost.
LEMMA SendForm ==
  ASSUME DriverInv, NEW t \in tasks, SendTask(t)
  PROVE  /\ turn = Loop /\ t \in TaskSet /\ t.gen \in Gens /\ t.op \in {"run", "stop"}
         /\ t.job \in AnyJob /\ (t.op = "run" => t.job \in Jobs) /\ tasks' = tasks \ {t}
         /\ \/ UNCHANGED <<core, turn, todo, seen, mail>>
            \/ /\ SlotFor(t.gen) /\ reader[t.gen] # "none" /\ (t.op = "run" => t.job \in jobs)
               /\ seen' = IF t.op = "run" THEN [seen EXCEPT ![t.gen].job = t.job] ELSE seen
               /\ \/ UNCHANGED <<core, turn, todo>> /\ UNCHANGED mail /\ t.op = "stop"
                  \/ /\ UNCHANGED <<core, turn, todo>>
                     /\ mail' = [mail EXCEPT ![t.gen] = Append(mail[t.gen],
                                                                Message(t.op, t.job))]
                  \/ /\ t.op = "run" /\ ~Delivers(t)
                     /\ fdOf[t.gen] \in Fds /\ Loses(Sender(t.gen), t.gen)
                     /\ UNCHANGED mail
<1>1. /\ t \in TaskSet /\ t.gen \in Gens /\ t.op \in {"run", "stop"} /\ t.job \in AnyJob
      /\ t.op = "run" => t.job \in Jobs
  BY DEF DriverInv, TablesInv, PoolTypes, EventTypes, TaskSet, SendTask
<1>2. ASSUME SlotFor(t.gen) PROVE reader[t.gen] # "none"
  BY <1>1, <1>2, FoundRead
<1>3. ASSUME SlotFor(t.gen), CoreLost(fdOf[t.gen], t.gen),
             Run(Sender(t.gen), LostEffects(fdOf[t.gen], t.gen))
      PROVE  fdOf[t.gen] \in Fds /\ Loses(Sender(t.gen), t.gen)
  BY <1>1, <1>2, <1>3, LosingForm
<1> QED BY <1>1, <1>2, <1>3 DEF SendTask

\* The task reader_done creates.
LEMMA LoseTaskForm ==
  ASSUME DriverInv, NEW g \in Gens, LoseTask(g)
  PROVE  /\ turn = Loop /\ tasks' = tasks \ {Task("lose", g, NoJob)}
         /\ \/ UNCHANGED <<core, turn, todo, preReady>>
            \/ InSlots(g) /\ fdOf[g] \in Fds /\ reader[g] # "none" /\ Loses(Loser(g), g)
<1>1. CASE InSlots(g)
  <2>1. reader[g] # "none"
    BY <1>1, FoundRead DEF SlotFor
  <2> QED BY <1>1, <2>1, LosingForm DEF LoseTask, Lose
<1> QED BY <1>1 DEF LoseTask

\* finish_close() drains the slots that are left.
LEMMA DrainForm ==
  ASSUME DriverInv, NEW g \in Gens, CloseDrains(g)
  PROVE  /\ turn = Closer /\ todo[Closer] = <<>> /\ closer = "draining" /\ g \in waited
         /\ waited' = waited \ {g} /\ reader[g] # "none"
         /\ fdOf[g] \in Fds /\ Loses(Closer, g)
<1>1. g \in waited /\ reader[g] # "none"
  BY DEF CloseDrains, DriverInv, TablesInv, PlaceInv
<1> QED BY <1>1, LosingForm DEF CloseDrains, Returns

\* CLOSE is applied once.
LEMMA StopsForm ==
  ASSUME DriverInv, CloseStops
  PROVE  /\ turn = Loop /\ closer = "called" /\ closer' = "stopping" /\ turn' = Closer
         /\ ~coreClosing /\ coreClosing' /\ queue' = <<>> /\ pendingSpawns' = {}
         /\ nextGen' = nextGen
         /\ slots' = [f \in Fds |-> IF f \in Live THEN Slot(slots[f].gen, "stopping", NoJob)
                                    ELSE NoSlot]
         /\ todo' = [todo EXCEPT ![Closer] = CloseEffects]
         /\ CloseEffects \in Seq(Doable)
         /\ \A i \in 1..Len(CloseEffects) : CloseEffects[i].kind \in {"FAIL", "SEND_STOP"}
         /\ \A k \in 1..Len(queue) : \E i \in 1..Len(CloseEffects) :
              CloseEffects[i].kind = "FAIL" /\ CloseEffects[i].job = queue[k]
         /\ \A f \in Fds : slots[f].job # NoJob => \E i \in 1..Len(CloseEffects) :
              CloseEffects[i].kind = "FAIL" /\ CloseEffects[i].job = slots[f].job
         /\ Live # {} => CloseEffects # <<>>
<1>1. /\ turn = Loop /\ closer = "called" /\ closer' = "stopping" /\ CoreClose
      /\ turn' = Closer /\ todo' = [todo EXCEPT ![Closer] = CloseEffects]
  BY DEF CloseStops, Run
<1>2. ~coreClosing /\ CoreInv
  BY <1>1 DEF DriverInv, TablesInv, PhaseInv
<1> HIDE DEF CloseStops
<1> QED BY <1>1, <1>2, CloseForm

\* DEADLINE kills what is left; readers that are late are cancelled.
Late(g) == g \in waited /\ reader[g] # "done"

\* CloseKills: the closer has children to kill, and a late reader nothing to do.
LEMMA KillsForm ==
  ASSUME DriverInv, CloseKills
  PROVE  /\ UNCHANGED core /\ turn \in {Loop, Closer} /\ turn' = Closer /\ closer = "waiting"
         /\ closer' = "killing"
         /\ reader' = [g \in Gens |-> IF Late(g) THEN "done" ELSE reader[g]]
         /\ todo' \in [Fibers -> Seq(Doable)]
         /\ \A i \in DOMAIN todo'[Closer] : todo'[Closer][i].kind = "KILL"
         /\ \A f \in Fibers : f # Closer =>
              IF \E g \in Gens : Late(g) /\ f = Reader(g) THEN todo'[f] = <<>>
                                                          ELSE todo'[f] = todo[f]
<1>1. CoreInv /\ CoreDeadline
  BY DEF DriverInv, CloseKills
<1>2. UNCHANGED core /\ SendRun = <<>>
  BY <1>1, DeadlineForm
<1>3. /\ DeadlineEffects \in Seq(Doable)
      /\ \A i \in 1..Len(DeadlineEffects) : DeadlineEffects[i].kind = "KILL"
  BY <1>1, <1>2, KillForm
<1>4. DOMAIN DeadlineEffects = 1..Len(DeadlineEffects)
  BY <1>3
<1>5. waited \subseteq Gens /\ todo \in [Fibers -> Seq(Doable)]
  BY DEF DriverInv, TablesInv, PoolTypes, EventTypes, LifeTypes
<1>6. /\ reader' = [g \in Gens |-> IF Late(g) THEN "done" ELSE reader[g]]
      /\ todo' = [f \in Fibers |-> IF f = Closer THEN DeadlineEffects
                                   ELSE IF \E g \in Gens : Late(g) /\ f = Reader(g) THEN <<>>
                                   ELSE todo[f]]
  BY <1>5 DEF CloseKills, Late
<1>7. <<>> \in Seq(Doable)
  OBVIOUS
<1>8. todo' \in [Fibers -> Seq(Doable)]
  BY <1>3, <1>5, <1>6, <1>7
<1>9. turn \in {Loop, Closer} /\ turn' = Closer /\ closer = "waiting" /\ closer' = "killing"
  BY DEF CloseKills, MayKill, Returns
<1> QED BY <1>2, <1>3, <1>4, <1>6, <1>8, <1>9, FiberNames

-----------------------------------------------------------------------------
(* Types                                                                     *)

\* An idle slot belongs to a skeleton.
LEMMA IdleGens ==
  ASSUME CoreInv, NEW d \in Fds
  PROVE  /\ slots[d].state = "idle" => slots[d].gen \in Gens
         /\ \A g \in Gens, h \in Fds :
              [slots EXCEPT ![d] = Slot(g, "idle", NoJob)][h].state = "idle"
                => [slots EXCEPT ![d] = Slot(g, "idle", NoJob)][h].gen \in Gens
<1>1. \A h \in Fds : slots[h].state = "idle" => slots[h].gen \in Gens
  BY LiveGens DEF NoSlot
<1>2. slots \in [Fds -> SlotSet] /\ \A g \in Gens : Slot(g, "idle", NoJob).gen = g
  BY DEF CoreInv, JobsInv, Slot
<1> QED BY <1>1, <1>2

\* What a fiber has to do after an event has its type.
LEMMA RunTyped ==
  ASSUME DriverInv, NEW f \in Fibers, NEW s \in Seq(Doable), turn' = f,
         todo' = [todo EXCEPT ![f] = s]
  PROVE  turn' \in Fibers \cup {Loop} /\ todo' \in [Fibers -> Seq(Doable)]
BY TodoSet DEF DriverInv, TablesInv

\* A fiber that loses a slot.
LEMMA LosesTyped ==
  ASSUME DriverInv, NEW f \in Fibers, NEW g \in Gens, fdOf[g] \in Fds, Loses(f, g)
  PROVE  turn' \in Fibers \cup {Loop} /\ todo' \in [Fibers -> Seq(Doable)]
<1>1. LossEffects(g) \in Seq(Doable) /\ <<>> \in Seq(Doable)
  BY LossForm DEF DriverInv
<1> QED BY <1>1, RunTyped DEF Loses

\* A fiber that hands out a job.
LEMMA HandsTyped ==
  ASSUME DriverInv, NEW f \in Fibers, NEW sl, NEW qu, NEW pre \in Seq(Doable),
         \A d \in Fds : sl[d].state = "idle" => sl[d].gen \in Gens, Hands(f, sl, qu, pre)
  PROVE  turn' \in Fibers \cup {Loop} /\ todo' \in [Fibers -> Seq(Doable)]
<1>1. CASE todo' = [todo EXCEPT ![f] = pre]
  BY <1>1, RunTyped DEF Hands
<1>2. ASSUME NEW d \in Fds, NEW j \in Jobs, sl[d].state = "idle",
             todo' = [todo EXCEPT ![f] = pre \o <<Effect("SEND_RUN", sl[d].gen, j)>>]
      PROVE  turn' \in Fibers \cup {Loop} /\ todo' \in [Fibers -> Seq(Doable)]
  <2>1. Effect("SEND_RUN", sl[d].gen, j) \in Doable
    BY <1>2 DEF Effect, Doable, Effects
  <2>2. <<Effect("SEND_RUN", sl[d].gen, j)>> \in Seq(Doable)
    BY <2>1
  <2>3. pre \o <<Effect("SEND_RUN", sl[d].gen, j)>> \in Seq(Doable)
    BY <2>2
  <2> QED BY <1>2, <2>3, RunTyped DEF Hands
<1> QED BY <1>1, <1>2 DEF Hands

\* The effects of SPAWNED follow those that were left.
LEMMA EnteredTyped ==
  ASSUME DriverInv, NEW f \in Fibers, SpawnSucceeds(f)
  PROVE  turn' \in Fibers \cup {Loop} /\ todo' \in [Fibers -> Seq(Doable)]
<1>1. Subject(f) \in Gens /\ Entered(f, Subject(f)) /\ Heads(f, "SPAWN")
  BY EnteredForm DEF SpawnSucceeds, Resumes
<1>2. Tail(todo[f]) \in Seq(Doable)
  BY <1>1, First DEF DriverInv, TablesInv
<1>3. ASSUME NEW n \in Nat, nextGen + n <= MaxGen,
             todo' = [todo EXCEPT ![f] = Tail(todo[f]) \o Spawns(n)]
      PROVE  todo' \in [Fibers -> Seq(Doable)]
  <2>1. Spawns(n) \in Seq(Doable)
    BY <1>3, SpawnsForm DEF DriverInv
  <2>2. Tail(todo[f]) \o Spawns(n) \in Seq(Doable)
    BY <1>2, <2>1, ConcatForm
  <2> QED BY <1>1, <1>3, <2>2, RunTyped DEF Entered
<1>4. ASSUME todo' = [todo EXCEPT ![f] = Tail(todo[f]) \o Discard(Subject(f))]
      PROVE  todo' \in [Fibers -> Seq(Doable)]
  <2>1. Discard(Subject(f)) \in Seq(Doable)
    BY <1>1, DiscardForm
  <2>2. Tail(todo[f]) \o Discard(Subject(f)) \in Seq(Doable)
    BY <1>2, <2>1, ConcatForm
  <2> QED BY <1>1, <1>4, <2>2, RunTyped DEF Entered
<1> QED BY <1>1, <1>3, <1>4 DEF Entered

\* A fiber that asks for skeletons.
LEMMA FillsTyped ==
  ASSUME DriverInv, NEW f \in Fibers, CoreFill, Run(f, FillEffects)
  PROVE  turn' \in Fibers \cup {Loop} /\ todo' \in [Fibers -> Seq(Doable)]
<1>1. Fills(f)
  BY FillsForm
<1>2. PICK n \in Nat : nextGen' = nextGen + n /\ nextGen' <= MaxGen
                       /\ todo' = [todo EXCEPT ![f] = Spawns(n)]
  BY <1>1 DEF Fills
<1>3. Spawns(n) \in Seq(Doable)
  BY <1>2, SpawnsForm DEF DriverInv
<1> QED BY <1>1, <1>2, <1>3, RunTyped DEF Fills

\* What is left of a fiber's effects.
LEMMA PerformedTyped ==
  ASSUME DriverInv, NEW f \in Fibers, NEW kind, Heads(f, kind), turn' = f,
         todo' = [todo EXCEPT ![f] = Tail(todo[f])]
  PROVE  turn' \in Fibers \cup {Loop} /\ todo' \in [Fibers -> Seq(Doable)]
<1>1. Tail(todo[f]) \in Seq(Doable)
  BY First DEF DriverInv, TablesInv
<1> QED BY <1>1, RunTyped

\* An effect that is performed leaves the others.
LEMMA Pops ==
  ASSUME NEW f, DriveSend(f) \/ DriveSettle(f) \/ DriveDrop(f) \/ DriveClose(f) \/ ReapReturns(f)
                \/ DriveSkip(f)
  PROVE  /\ UNCHANGED core /\ turn' = f /\ todo' = [todo EXCEPT ![f] = Tail(todo[f])]
         /\ \E kind \in {"SEND_RUN", "SEND_STOP", "RESOLVE", "FAIL", "DROP", "CLOSE_CONTROL",
                         "CLOSE_DEATH", "KILL", "REAP"} :
              Heads(f, kind) /\ (turn = f \/ turn = Loop)
<1>1. ASSUME DriveSend(f) \/ DriveSettle(f) \/ DriveDrop(f) \/ DriveClose(f) \/ ReapReturns(f)
             \/ DriveSkip(f)
      PROVE  UNCHANGED core /\ turn' = f /\ todo' = [todo EXCEPT ![f] = Tail(todo[f])]
  BY <1>1 DEF DriveSend, DriveSettle, DriveDrop, DriveClose, ReapReturns, DriveSkip, Performed, Run
<1> QED BY <1>1 DEF DriveSend, DriveSettle, DriveDrop, DriveClose, ReapReturns, DriveSkip,
                    Performs, Resumes

\* Every step of the loop that does not run an event.
Elsewhere ==
  \/ StartDriven \/ StartReady \/ StartRaises \/ SubmitDriven \/ Close
  \/ \E f \in Recoverers : RecoverDriven(f)
  \/ \E g \in Gens : ReadDriven(g) \/ LoseDriven(g) \/ SendDriven(g)
  \/ CloseStopped \/ CloseKilled \/ CloseEnds
  \/ \E f \in Fibers : DriveSpawn(f) \/ CancelReader(f) \/ DriveReap(f)

\* What the children do by themselves.
Children == \E g \in Gens : ChildWorks(g) \/ ChildDies(g) \/ ChildGarbles(g)

\* Between two events, and while the children work, the effects stay.
LEMMA ElsewhereForm ==
  ASSUME Elsewhere
  PROVE  UNCHANGED <<core, todo, tasks, mail, inbox, doomed, faults>>
BY DEF Elsewhere, StartDriven, StartReady, StartRaises, SubmitDriven, Close, RecoverDriven,
       ReadDriven, LoseDriven, SendDriven, CloseStopped, CloseKilled, CloseEnds, DriveSpawn,
       CancelReader, DriveReap, event, process

\* A child changes its own process and sockets, and nothing of the driver's.
LEMMA ChildrenForm ==
  ASSUME Children
  PROVE  turn = Loop /\ UNCHANGED <<core, event, life, table, work, health, doomed>>
BY DEF Children, ChildWorks, ChildDies, ChildGarbles, ChildReady, ChildTakes, ChildEnds,
       ChildAnswers, ChildStep

\* The steps of the pool.
LEMMA Steps ==
  ASSUME PoolNext
  PROVE  \/ Elsewhere \/ Children
         \/ \E f \in Fibers : \/ DriveSend(f) \/ DriveSettle(f) \/ DriveDrop(f) \/ DriveClose(f)
                              \/ ReapReturns(f) \/ DriveSkip(f)
         \/ \E f \in Fibers : SpawnSucceeds(f)
         \/ \E f \in Fibers : SpawnFails(f)
         \/ Start \/ Recover
         \/ \E j \in Jobs : Submit(j)
         \/ \E g \in Gens : Read(g) \/ LoseTask(g)
         \/ \E t \in tasks : SendTask(t)
         \/ CloseStops \/ CloseKills
         \/ \E g \in Gens : CloseDrains(g)
BY DEF PoolNext, LoopStep, Drive, Elsewhere, Children

\* Where Recover goes.
LEMMA RecoverForm ==
  ASSUME DriverInv, Recover
  PROVE  /\ turn = Loop /\ UNCHANGED <<tasks, life, table, work, preReadyFailures, startupError,
                                       process>>
         /\ recovery' = FALSE
         /\ \/ UNCHANGED <<core, turn, todo>>
            \/ \E f \in Recoverers : todo[f] = <<>> /\ CoreFill /\ Run(f, FillEffects)
<1> DEFINE r == CHOOSE f \in Recoverers : todo[f] = <<>>
<1>1. /\ \E h \in Recoverers : todo[h] = <<>>
      /\ IF closing THEN UNCHANGED <<core, turn, todo>> ELSE CoreFill /\ Run(r, FillEffects)
  BY DEF Recover
<1>2. r \in Recoverers /\ todo[r] = <<>>
  BY <1>1
<1> HIDE DEF r
<1>3. UNCHANGED <<core, turn, todo>> \/ (CoreFill /\ Run(r, FillEffects))
  BY <1>1
<1> QED BY <1>2, <1>3 DEF Recover

\* The tasks a step leaves.
LEMMA TaskNames ==
  ASSUME NEW g \in Gens
  PROVE  /\ Task("lose", g, NoJob) \in TaskSet /\ \A j \in AnyJob : Task("stop", g, j) \in TaskSet
         /\ \A j \in Jobs : Task("run", g, j) \in TaskSet
BY DEF Task, TaskSet, AnyJob

\* What a fiber has to do, and the tasks that wait, have their types.
LEMMA EventTyped ==
  ASSUME DriverInv, PoolNext
  PROVE  EventTypes'
<1>1. turn \in Fibers \cup {Loop} /\ todo \in [Fibers -> Seq(Doable)] /\ tasks \subseteq TaskSet
  BY DEF DriverInv, TablesInv, PoolTypes, EventTypes
<1>2. <<>> \in Seq(Doable)
  OBVIOUS
<1>3. CASE Elsewhere
  <2>1. turn' \in Fibers \cup {Loop}
    <3>1. turn' = Loop \/ turn' = turn
      BY <1>3 DEF Elsewhere, StartDriven, StartReady, StartRaises, SubmitDriven, Close,
                  RecoverDriven, ReadDriven, LoseDriven, SendDriven, CloseStopped, CloseKilled,
                  CloseEnds, DriveSpawn, CancelReader, DriveReap, event, Returns
    <3> QED BY <1>1, <3>1
  <2> QED BY <1>1, <1>3, <2>1, ElsewhereForm DEF EventTypes
<1>4. CASE Children
  BY <1>1, <1>4, ChildrenForm DEF EventTypes, event
<1>5. ASSUME NEW f \in Fibers,
             DriveSend(f) \/ DriveSettle(f) \/ DriveDrop(f) \/ DriveClose(f) \/ ReapReturns(f)
             \/ DriveSkip(f)
      PROVE  EventTypes'
  <2>1. turn' \in Fibers \cup {Loop} /\ todo' \in [Fibers -> Seq(Doable)]
    BY <1>5, Pops, PerformedTyped
  <2>2. tasks' \subseteq TaskSet
    <3>1. CASE DriveSend(f)
      <4>1. PICK kind \in {"SEND_RUN", "SEND_STOP"} :
              /\ Heads(f, kind)
              /\ tasks' = tasks \cup {Task(IF kind = "SEND_RUN" THEN "run" ELSE "stop",
                                           Subject(f), Head(todo[f]).job)}
        BY <3>1 DEF DriveSend, Performs
      <4>2. /\ todo[f][1] \in Doable /\ todo[f][1].kind = kind /\ Subject(f) = todo[f][1].gen
            /\ Head(todo[f]) = todo[f][1]
        BY <4>1, First DEF DriverInv, TablesInv
      <4>3. Subject(f) \in Gens /\ Head(todo[f]).job \in AnyJob
            /\ (kind = "SEND_RUN" => Head(todo[f]).job \in Jobs)
        BY <4>1, <4>2, SubjectGen
      <4> QED BY <1>1, <4>1, <4>3, TaskNames
    <3>2. CASE DriveSettle(f) \/ DriveDrop(f) \/ DriveClose(f) \/ ReapReturns(f) \/ DriveSkip(f)
      BY <1>1, <3>2 DEF DriveSettle, DriveDrop, DriveClose, ReapReturns, DriveSkip
    <3> QED BY <1>5, <3>1, <3>2
  <2> QED BY <2>1, <2>2 DEF EventTypes
<1>6. ASSUME NEW f \in Fibers, SpawnSucceeds(f) PROVE EventTypes'
  BY <1>1, <1>6, EnteredTyped DEF EventTypes, SpawnSucceeds
<1>7. ASSUME NEW f \in Fibers, SpawnFails(f) PROVE EventTypes'
  BY <1>1, <1>7, SpawnFailsForm, PerformedTyped DEF EventTypes, SpawnFails
<1>8. CASE Start
  BY <1>1, <1>8, FillsTyped, FiberNames DEF EventTypes, Start
<1>9. CASE Recover
  <2>1. CASE UNCHANGED <<core, turn, todo>>
    BY <1>1, <1>9, <2>1, RecoverForm DEF EventTypes
  <2>2. ASSUME NEW f \in Recoverers, CoreFill, Run(f, FillEffects) PROVE EventTypes'
    BY <1>1, <1>9, <2>2, RecoverForm, FillsTyped, FiberNames DEF EventTypes
  <2> QED BY <1>9, <2>1, <2>2, RecoverForm
<1>10. ASSUME NEW j \in Jobs, Submit(j) PROVE EventTypes'
  <2>1. CASE turn' = Submitter /\ todo' = [todo EXCEPT ![Submitter] = <<>>]
    BY <1>1, <1>2, <1>10, <2>1, RunTyped, FiberNames DEF EventTypes, Submit
  <2>2. CASE Hands(Submitter, slots, Append(queue, j), <<>>)
    <3>1. \A d \in Fds : slots[d].state = "idle" => slots[d].gen \in Gens
      BY IdleGens DEF DriverInv
    <3> QED BY <1>1, <1>2, <1>10, <2>2, <3>1, HandsTyped, FiberNames DEF EventTypes, Submit
  <2> QED BY <1>10, <2>1, <2>2, SubmitsForm
<1>11. ASSUME NEW g \in Gens, Read(g) PROVE EventTypes'
  <2>1. Reader(g) \in Fibers /\ fdOf[g] \in Fds /\ CoreInv
    BY <1>11, ReadForm, FiberNames DEF DriverInv
  <2>2. \A d \in Fds : [slots EXCEPT ![fdOf[g]] = Slot(g, "idle", NoJob)][d].state = "idle" =>
                       [slots EXCEPT ![fdOf[g]] = Slot(g, "idle", NoJob)][d].gen \in Gens
    BY <2>1, IdleGens
  <2>3. ASSUME Readies(g) PROVE turn' \in Fibers \cup {Loop} /\ todo' \in [Fibers -> Seq(Doable)]
    BY <1>2, <2>1, <2>2, <2>3, RunTyped, HandsTyped DEF Readies
  <2>4. ASSUME NEW j, Results(g, j)
        PROVE  turn' \in Fibers \cup {Loop} /\ todo' \in [Fibers -> Seq(Doable)]
    <3>1. CASE turn' = Reader(g) /\ todo' = [todo EXCEPT ![Reader(g)] = <<>>]
      BY <1>2, <2>1, <3>1, RunTyped
    <3>2. ASSUME j \in Jobs, NEW kind \in {"RESOLVE", "FAIL"},
                 Hands(Reader(g), [slots EXCEPT ![fdOf[g]] = Slot(g, "idle", NoJob)], queue,
                       <<Effect(kind, g, j)>>)
          PROVE  turn' \in Fibers \cup {Loop} /\ todo' \in [Fibers -> Seq(Doable)]
      <4>1. Effect(kind, g, j) \in Doable
        BY <3>2 DEF Effect, Doable, Effects
      <4>2. <<Effect(kind, g, j)>> \in Seq(Doable)
        BY <4>1
      <4> QED BY <2>1, <2>2, <3>2, <4>2, HandsTyped
    <3> QED BY <2>4, <3>1, <3>2 DEF Results
  <2>5. ASSUME Loses(Reader(g), g)
        PROVE  turn' \in Fibers \cup {Loop} /\ todo' \in [Fibers -> Seq(Doable)]
    BY <2>1, <2>5, LosesTyped
  <2>6. turn' \in Fibers \cup {Loop} /\ todo' \in [Fibers -> Seq(Doable)]
    BY <1>1, <1>11, <2>3, <2>4, <2>5, ReadForm DEF event
  <2>7. tasks' \subseteq TaskSet
    BY <1>1, <1>11, ReadForm, TaskNames DEF event
  <2> QED BY <2>6, <2>7 DEF EventTypes
<1>12. ASSUME NEW g \in Gens, LoseTask(g) PROVE EventTypes'
  <2>1. tasks' \subseteq TaskSet
    BY <1>1, <1>12 DEF LoseTask
  <2>2. CASE UNCHANGED <<core, turn, todo, preReady>>
    BY <1>1, <2>1, <2>2 DEF EventTypes
  <2>3. CASE fdOf[g] \in Fds /\ Loses(Loser(g), g)
    BY <2>1, <2>3, LosesTyped, FiberNames DEF EventTypes
  <2> QED BY <1>12, <2>2, <2>3, LoseTaskForm
<1>13. ASSUME NEW t \in tasks, SendTask(t) PROVE EventTypes'
  <2>1. t.gen \in Gens /\ tasks' \subseteq TaskSet
    BY <1>1, <1>13, SendForm
  <2>2. CASE UNCHANGED <<turn, todo>>
    BY <1>1, <2>1, <2>2 DEF EventTypes
  <2>3. CASE fdOf[t.gen] \in Fds /\ Loses(Sender(t.gen), t.gen)
    BY <2>1, <2>3, LosesTyped, FiberNames DEF EventTypes
  <2> QED BY <1>13, <2>2, <2>3, SendForm
<1>14. CASE CloseStops
  BY <1>1, <1>14, StopsForm, RunTyped, FiberNames DEF EventTypes, CloseStops
<1>15. CASE CloseKills
  BY <1>1, <1>15, KillsForm, FiberNames DEF EventTypes, CloseKills
<1>16. ASSUME NEW g \in Gens, CloseDrains(g) PROVE EventTypes'
  BY <1>1, <1>16, DrainForm, LosesTyped, FiberNames DEF EventTypes, CloseDrains
<1> QED BY <1>3, <1>4, <1>5, <1>6, <1>7, <1>8, <1>9, <1>10, <1>11, <1>12, <1>13, <1>14, <1>15,
           <1>16, Steps

\* What the failed starts count up to.
HealthTypes == recovery \in BOOLEAN /\ startupError \in BOOLEAN /\ preReadyFailures \in Nat

\* A failed start is counted, and brings a recovery or the end of start().
LEMMA ScheduleTyped ==
  ASSUME HealthTypes, NEW pre, ScheduleRecovery(pre)
  PROVE  HealthTypes'
<1> DEFINE failed == preReadyFailures + (IF pre THEN 1 ELSE 0)
           opens == pre /\ failed >= MaxPreReady
<1>1. CASE closing
  BY <1>1 DEF HealthTypes, ScheduleRecovery, health
<1>2. CASE ~closing
  <2>1. /\ preReadyFailures' = failed /\ startupError' = (startupError \/ opens)
        /\ recovery' = ~opens
    BY <1>2 DEF ScheduleRecovery
  <2>2. failed \in Nat
    BY DEF HealthTypes
  <2> HIDE DEF failed, opens
  <2>3. startupError' \in BOOLEAN /\ recovery' \in BOOLEAN
    BY <2>1, Zenon
  <2> QED BY <2>1, <2>2, <2>3 DEF HealthTypes
<1> QED BY <1>1, <1>2

\* The count of failed starts has its type.
LEMMA HealthTyped ==
  ASSUME DriverInv, PoolNext
  PROVE  HealthTypes'
<1>1. HealthTypes
  BY DEF DriverInv, TablesInv, PoolTypes, LifeTypes, HealthTypes
<1>2. CASE Elsewhere
  <2>1. UNCHANGED health \/ \E pre : ScheduleRecovery(pre)
    BY <1>2 DEF Elsewhere, StartDriven, StartReady, StartRaises, SubmitDriven, Close,
                RecoverDriven, ReadDriven, LoseDriven, SendDriven, CloseStopped, CloseKilled,
                CloseEnds, DriveSpawn, CancelReader, DriveReap
  <2> QED BY <1>1, <2>1, ScheduleTyped DEF HealthTypes, health
<1>3. CASE Children
  BY <1>1, <1>3, ChildrenForm DEF HealthTypes, health
<1>4. CASE \E f \in Fibers : \/ DriveSend(f) \/ DriveSettle(f) \/ DriveDrop(f) \/ DriveClose(f)
                             \/ ReapReturns(f) \/ DriveSkip(f) \/ SpawnSucceeds(f)
  BY <1>1, <1>4 DEF DriveSend, DriveSettle, DriveDrop, DriveClose, ReapReturns, DriveSkip,
                    SpawnSucceeds,
                    HealthTypes, health
<1>5. CASE \E f \in Fibers : SpawnFails(f)
  BY <1>1, <1>5, ScheduleTyped DEF SpawnFails
<1>6. CASE Start \/ \E j \in Jobs : Submit(j)
  BY <1>1, <1>6 DEF Start, Submit, HealthTypes, health
<1>7. CASE Recover
  BY <1>1, <1>7 DEF Recover, HealthTypes
<1>8. CASE \E g \in Gens : Read(g)
  BY <1>1, <1>8, ReadForm DEF HealthTypes, health
<1>9. CASE (\E g \in Gens : LoseTask(g) \/ CloseDrains(g)) \/ \E t \in tasks : SendTask(t)
  BY <1>1, <1>9 DEF LoseTask, CloseDrains, SendTask, HealthTypes, health
<1>10. CASE CloseStops \/ CloseKills
  BY <1>1, <1>10 DEF CloseStops, CloseKills, HealthTypes, health
<1> QED BY <1>2, <1>3, <1>4, <1>5, <1>6, <1>7, <1>8, <1>9, <1>10, Steps

\* start() and close() are at one of their points.
LEMMA LifeTyped ==
  ASSUME DriverInv, PoolNext
  PROVE  LifeTypes'
<1>1. HealthTypes'
  BY HealthTyped
<1>2. /\ closing \in BOOLEAN /\ waited \subseteq Gens /\ coreClosing \in BOOLEAN
      /\ starter \in {"no", "starting", "polling", "up", "failed"}
      /\ closer \in {"no", "called", "stopping", "waiting", "killing", "draining", "closed"}
  BY DEF DriverInv, TablesInv, PoolTypes, LifeTypes
<1>3. CASE Elsewhere
  <2>1. coreClosing' \in BOOLEAN
    BY <1>2, <1>3, ElsewhereForm DEF core
  <2>2. /\ closing' \in BOOLEAN /\ waited' \subseteq Gens
        /\ starter' \in {"no", "starting", "polling", "up", "failed"}
        /\ closer' \in {"no", "called", "stopping", "waiting", "killing", "draining", "closed"}
    BY <1>2, <1>3 DEF Elsewhere, StartDriven, StartReady, StartRaises, SubmitDriven, Close,
                RecoverDriven, ReadDriven, LoseDriven, SendDriven, CloseStopped, CloseKilled,
                CloseEnds, DriveSpawn, CancelReader, DriveReap, life, Slotted
  <2> QED BY <1>1, <2>1, <2>2 DEF LifeTypes, HealthTypes
<1>4. CASE Children
  BY <1>1, <1>2, <1>4, ChildrenForm DEF LifeTypes, HealthTypes, life, core
<1>5. coreClosing' \in BOOLEAN
  <2>1. Event
    BY EventsOnly DEF DriverInv, IInv
  <2> QED BY <1>2, <2>1 DEF Event, core, CoreFill, CoreClose, CoreDeadline, CoreSpawned,
                     CoreSpawnFailed, CoreReady, CoreResult, CoreSubmit, CoreLost
<1>6. CASE \E f \in Fibers : \/ DriveSend(f) \/ DriveSettle(f) \/ DriveDrop(f) \/ DriveClose(f)
                             \/ ReapReturns(f) \/ DriveSkip(f) \/ SpawnSucceeds(f) \/ SpawnFails(f)
  BY <1>1, <1>2, <1>5, <1>6 DEF DriveSend, DriveSettle, DriveDrop, DriveClose, ReapReturns,
                                DriveSkip,
     SpawnSucceeds, SpawnFails, LifeTypes, HealthTypes, life
<1>7. CASE Start \/ Recover \/ \E j \in Jobs : Submit(j)
  <2>1. CASE Start
    BY <1>1, <1>2, <1>5, <2>1 DEF Start, LifeTypes, HealthTypes, life
  <2>2. CASE Recover
    BY <1>1, <1>2, <1>5, <2>2, RecoverForm DEF LifeTypes, HealthTypes, life
  <2>3. CASE \E j \in Jobs : Submit(j)
    BY <1>1, <1>2, <1>5, <2>3 DEF Submit, LifeTypes, HealthTypes, life
  <2> QED BY <1>7, <2>1, <2>2, <2>3
<1>8. CASE (\E g \in Gens : Read(g) \/ LoseTask(g) \/ CloseDrains(g))
           \/ \E t \in tasks : SendTask(t)
  <2>1. ASSUME NEW g \in Gens, Read(g) \/ LoseTask(g) PROVE UNCHANGED life
    BY <2>1 DEF Read, LoseTask
  <2>2. ASSUME NEW g \in Gens, CloseDrains(g)
        PROVE  UNCHANGED <<closing, starter, closer>> /\ waited' = waited \ {g}
    BY <2>2 DEF CloseDrains
  <2>3. ASSUME NEW t \in tasks, SendTask(t) PROVE UNCHANGED life
    BY <2>3 DEF SendTask
  <2>4. UNCHANGED <<closing, starter, closer>> /\ waited' \subseteq waited
    BY <1>8, <2>1, <2>2, <2>3 DEF life
  <2> QED BY <1>1, <1>2, <1>5, <2>4 DEF LifeTypes, HealthTypes
<1>9. CASE CloseStops \/ CloseKills
  <2>1. /\ UNCHANGED <<closing, starter, waited>> /\ closer' \in {"stopping", "killing"}
    BY <1>9 DEF CloseStops, CloseKills
  <2> QED BY <1>1, <1>2, <1>5, <2>1 DEF LifeTypes, HealthTypes
<1> QED BY <1>3, <1>4, <1>6, <1>7, <1>8, <1>9, Steps

\* sync_slots gives every object a state and a job.
LEMMA Synced ==
  ASSUME TableTypes, SyncSlots, slots' \in [Fds -> SlotSet], NEW g \in Gens,
         fdOf' \in [Gens -> Fds \cup {0}]
  PROVE  seen' \in [Gens -> [state : SlotStates, job : AnyJob]]
<1>1. \A h \in Gens : seen[h] \in [state : SlotStates, job : AnyJob]
  BY DEF TableTypes
<1>2. \A h \in Gens : View("dead", seen[h].job) \in [state : SlotStates, job : AnyJob]
  BY <1>1 DEF View, SlotStates
<1>3. \A f \in Fds : View(slots'[f].state, slots'[f].job) \in [state : SlotStates, job : AnyJob]
  BY DEF View, SlotSet
<1>4. \A h \in Gens :
        (IF h \in retired' \ retired THEN View("dead", seen[h].job)
         ELSE IF fdOf'[h] = 0 THEN seen[h]
         ELSE LET f == fdOf'[h]
              IN  IF slotOf'[f] = h /\ slots'[f].gen = h
                  THEN View(slots'[f].state, slots'[f].job) ELSE seen[h])
        \in [state : SlotStates, job : AnyJob]
  BY <1>1, <1>2, <1>3
<1> QED BY <1>4 DEF SyncSlots

\* The slots after a step have their type.
LEMMA CoreNext ==
  ASSUME DriverInv, PoolNext
  PROVE  CoreInv' /\ SocketsInv' /\ slots' \in [Fds -> SlotSet]
<1>1. CoreInv'
  BY EventsOnly, EventsKeep DEF DriverInv, IInv
<1> QED BY <1>1, SocketsKept DEF DriverInv, CoreInv, JobsInv

\* The tables have their types.
LEMMA TableTyped ==
  ASSUME DriverInv, PoolNext
  PROVE  TableTypes'
<1>1. TableTypes /\ todo \in [Fibers -> Seq(Doable)]
  BY DEF DriverInv, TablesInv, PoolTypes, EventTypes
<1>2. slots' \in [Fds -> SlotSet]
  BY CoreNext
<1>3. CASE UNCHANGED table
  BY <1>1, <1>3 DEF TableTypes, table
<1>4. ASSUME SyncSlots, retired' \subseteq Gens, fdOf' \in [Gens -> Fds \cup {0}],
             open' \subseteq Gens, preReady' \subseteq Gens,
             slotOf' \in [Fds -> Gens \cup {0}],
             reader' \in [Gens -> {"none", "reading", "done"}]
      PROVE  TableTypes'
  <2>1. CASE Gens = {}
    <3>1. seen' \in [Gens -> [state : SlotStates, job : AnyJob]]
      BY <1>4, <2>1 DEF SyncSlots
    <3> QED BY <1>4, <3>1 DEF TableTypes
  <2>2. CASE Gens # {}
    <3>1. seen' \in [Gens -> [state : SlotStates, job : AnyJob]]
      BY <1>1, <1>2, <1>4, <2>2, Synced
    <3> QED BY <1>4, <3>1 DEF TableTypes
  <2> QED BY <2>1, <2>2
<1>5. ASSUME NEW f \in Fibers, DriveSpawn(f) PROVE TableTypes'
  <2>1. Heads(f, "SPAWN")
    BY <1>5 DEF DriveSpawn, Performs
  <2>2. Subject(f) \in Gens
    BY <2>1, Spawning
  <2> QED BY <1>1, <1>5, <2>2 DEF DriveSpawn, TableTypes
<1>6. ASSUME NEW f \in Fibers, CancelReader(f) PROVE TableTypes'
  BY <1>1, <1>6 DEF CancelReader, TableTypes
<1>7. ASSUME NEW g \in Gens, ReadDriven(g) PROVE TableTypes'
  <2>1. /\ UNCHANGED <<slotOf, retired, fdOf, open, preReady>> /\ SyncSlots
        /\ reader' = reader \/ reader' = [reader EXCEPT ![g] = "done"]
    BY <1>7 DEF ReadDriven
  <2> QED BY <1>1, <1>4, <2>1 DEF TableTypes
<1>8. ASSUME NEW g \in Gens, SendDriven(g) PROVE TableTypes'
  BY <1>1, <1>4, <1>8 DEF SendDriven, TableTypes
<1>9. CASE CloseEnds
  BY <1>1, <1>9 DEF CloseEnds, TableTypes
<1>10. CASE Elsewhere
  BY <1>3, <1>5, <1>6, <1>7, <1>8, <1>9, <1>10
     DEF Elsewhere, StartDriven, StartReady, StartRaises, SubmitDriven, Close,
         RecoverDriven, LoseDriven, CloseStopped, CloseKilled, DriveReap
<1>11. CASE Children
  BY <1>3, <1>11, ChildrenForm
<1>12. ASSUME NEW f \in Fibers,
              DriveSend(f) \/ DriveSettle(f) \/ DriveDrop(f) \/ DriveClose(f) \/ ReapReturns(f)
              \/ DriveSkip(f)
       PROVE  TableTypes'
  <2>1. SyncSlots /\ UNCHANGED <<fdOf, preReady, reader>>
    BY <1>12 DEF DriveSend, DriveSettle, DriveDrop, DriveClose, ReapReturns, DriveSkip, Performed
  <2>2. CASE DriveDrop(f)
    <3>1. Heads(f, "DROP")
      BY <2>2 DEF DriveDrop, Performs, Resumes
    <3>2. Subject(f) \in Gens
      BY <3>1, Clearing DEF Teardown
    <3>3. /\ slotOf' = slotOf \/ slotOf' = [slotOf EXCEPT ![fdOf[Subject(f)]] = 0]
          /\ retired' = retired \cup {Subject(f)} /\ open' = open
      BY <2>2 DEF DriveDrop
    <3> QED BY <1>1, <1>4, <2>1, <3>2, <3>3 DEF TableTypes
  <2>3. CASE ~DriveDrop(f)
    <3>1. UNCHANGED slotOf /\ retired' \subseteq retired /\ open' \subseteq open
      BY <1>12, <2>3 DEF DriveSend, DriveSettle, DriveClose, ReapReturns, DriveSkip
    <3> QED BY <1>1, <1>4, <2>1, <3>1 DEF TableTypes
  <2> QED BY <2>2, <2>3
<1>13. ASSUME NEW f \in Fibers, SpawnSucceeds(f) PROVE TableTypes'
  <2>1. Subject(f) \in Gens
    BY <1>13, EnteredForm
  <2>2. /\ slotOf' = [slotOf EXCEPT ![fdOf[Subject(f)]] = Subject(f)]
        /\ reader' = [reader EXCEPT ![Subject(f)] = "reading"]
        /\ UNCHANGED <<retired, fdOf, open, preReady>> /\ SyncSlots
    BY <1>13 DEF SpawnSucceeds
  <2> QED BY <1>1, <1>4, <2>1, <2>2 DEF TableTypes
<1>14. ASSUME NEW f \in Fibers, SpawnFails(f) PROVE TableTypes'
  BY <1>1, <1>14 DEF SpawnFails, TableTypes
<1>15. CASE Start \/ Recover \/ (\E j \in Jobs : Submit(j)) \/ CloseStops
            \/ \E g \in Gens : CloseDrains(g)
  BY <1>3, <1>15 DEF Start, Recover, Submit, CloseStops, CloseDrains
<1>16. ASSUME NEW g \in Gens, Read(g) \/ LoseTask(g) PROVE TableTypes'
  <2>1. UNCHANGED <<slotOf, retired, fdOf, open, seen>>
    BY <1>16 DEF Read, LoseTask
  <2>2. preReady' \in {preReady, preReady \cup {g}}
    BY <1>16 DEF Read, LoseTask, Lose
  <2>3. reader' = reader \/ reader' = [reader EXCEPT ![g] = "done"]
    BY <1>16, ReadForm DEF LoseTask
  <2> QED BY <1>1, <2>1, <2>2, <2>3 DEF TableTypes
<1>17. ASSUME NEW t \in tasks, SendTask(t) PROVE TableTypes'
  <2>1. t.gen \in Gens /\ t.job \in AnyJob
        /\ (seen' = seen \/ seen' = [seen EXCEPT ![t.gen].job = t.job])
    BY <1>17, SendForm
  <2>2. UNCHANGED <<slotOf, retired, fdOf, open, preReady, reader>>
    BY <1>17 DEF SendTask
  <2>3. seen' \in [Gens -> [state : SlotStates, job : AnyJob]]
    BY <1>1, <2>1 DEF TableTypes
  <2> QED BY <1>1, <2>2, <2>3 DEF TableTypes
<1>18. CASE CloseKills
  <2>1. reader' \in [Gens -> {"none", "reading", "done"}]
    BY <1>1, <1>18, KillsForm DEF TableTypes
  <2> QED BY <1>1, <1>18, <2>1 DEF CloseKills, TableTypes
<1> QED BY <1>10, <1>11, <1>12, <1>13, <1>14, <1>15, <1>16, <1>17, <1>18, Steps

\* Jobs and futures have their types.
LEMMA WorkTyped ==
  ASSUME DriverInv, PoolNext
  PROVE  WorkTypes'
<1>1. WorkTypes
  BY DEF DriverInv, TablesInv, PoolTypes
<1>2. ASSUME UNCHANGED future, jobs' \subseteq jobs PROVE WorkTypes'
  BY <1>1, <1>2 DEF WorkTypes
<1>3. CASE Elsewhere
  BY <1>2, <1>3 DEF Elsewhere, StartDriven, StartReady, StartRaises, SubmitDriven, Close,
                RecoverDriven, ReadDriven, LoseDriven, SendDriven, CloseStopped, CloseKilled,
                CloseEnds, DriveSpawn, CancelReader, DriveReap, work
<1>4. CASE Children
  BY <1>2, <1>4, ChildrenForm DEF work
<1>5. ASSUME NEW f \in Fibers, DriveSettle(f) PROVE WorkTypes'
  <2>1. PICK kind \in {"RESOLVE", "FAIL"} :
          /\ Heads(f, kind)
          /\ LET j == Head(todo[f]).job
             IN  /\ jobs' = jobs \ {j}
                 /\ future' = IF j \notin jobs THEN future
                              ELSE [future EXCEPT ![j] = IF kind = "RESOLVE" THEN "resolved"
                                                                            ELSE "failed"]
    BY <1>5 DEF DriveSettle, Performs
  <2> QED BY <1>1, <2>1 DEF WorkTypes
<1>6. CASE \E f \in Fibers : \/ DriveSend(f) \/ DriveDrop(f) \/ DriveClose(f) \/ ReapReturns(f)
                             \/ DriveSkip(f)
                             \/ SpawnSucceeds(f) \/ SpawnFails(f)
  BY <1>2, <1>6 DEF DriveSend, DriveDrop, DriveClose, ReapReturns, DriveSkip, SpawnSucceeds,
                    SpawnFails, work
<1>7. CASE Start \/ Recover \/ CloseStops \/ CloseKills
  BY <1>2, <1>7 DEF Start, Recover, CloseStops, CloseKills, work
<1>8. ASSUME NEW j \in Jobs, Submit(j) PROVE WorkTypes'
  BY <1>1, <1>8 DEF Submit, WorkTypes
<1>9. CASE (\E g \in Gens : Read(g) \/ LoseTask(g) \/ CloseDrains(g))
           \/ \E t \in tasks : SendTask(t)
  BY <1>2, <1>9 DEF Read, LoseTask, CloseDrains, SendTask, work
<1> QED BY <1>3, <1>4, <1>5, <1>6, <1>7, <1>8, <1>9, Steps

\* The states of a child, the messages to it and those from it.
ChildSet == [is : {"none", "forking", "booting", "idle", "working", "exited", "reaped"},
             job : AnyJob]
MailSet == [op : {"run", "stop"}, job : AnyJob]
InboxSet == [op : {"ready", "ok", "error", "bad"}, job : AnyJob]

\* Processes and messages.
LEMMA ProcessForm ==
  /\ \A s \in {"none", "forking", "booting", "idle", "working", "exited", "reaped"} :
       \A j \in AnyJob : Process(s, j) \in ChildSet /\ Process(s, j).is = s
                         /\ Process(s, j).job = j
  /\ \A j \in AnyJob : /\ \A op \in {"run", "stop"} : Message(op, j) \in MailSet
                       /\ \A op \in {"ready", "ok", "error", "bad"} : Message(op, j) \in InboxSet
  /\ \A op, j : Message(op, j).op = op /\ Message(op, j).job = j
  /\ NoJob \in AnyJob
BY DEF Process, ChildSet, Message, MailSet, InboxSet, AnyJob

\* A fault is counted.
LEMMA Counted ==
  ASSUME faults \in 0..MaxFaults, Fault
  PROVE  faults' \in 0..MaxFaults
BY PoolAssumption DEF Fault

\* What a child does.
ChildMoves(g) ==
  /\ \/ child' = [child EXCEPT ![g] = child[g]]
     \/ \E p \in ChildSet : p.is # "forking" /\ child' = [child EXCEPT ![g] = p]
  /\ \/ mail' = [mail EXCEPT ![g] = mail[g]]
     \/ mail[g] # <<>> /\ mail' = [mail EXCEPT ![g] = Tail(mail[g])]
  /\ \/ inbox' = [inbox EXCEPT ![g] = inbox[g]]
     \/ \E m \in InboxSet : inbox' = [inbox EXCEPT ![g] = Append(inbox[g], m)]
  /\ faults' = faults \/ Fault
  /\ doomed' = doomed

\* The three ways a child moves.
LEMMA ChildForm ==
  ASSUME ProcessTypes, NEW g \in Gens, ChildWorks(g) \/ ChildDies(g) \/ ChildGarbles(g)
  PROVE  ChildMoves(g)
<1>1. child[g] \in ChildSet /\ mail[g] \in Seq(MailSet) /\ inbox[g] \in Seq(InboxSet)
  BY DEF ProcessTypes, ChildSet, MailSet, InboxSet
<1>2. child[g].job \in AnyJob
  BY <1>1 DEF ChildSet
<1>3. CASE ChildReady(g)
  BY <1>3, ProcessForm DEF ChildReady, ChildStep, ChildMoves
<1>4. CASE ChildTakes(g)
  <2>1. mail[g] # <<>> /\ Head(mail[g]) \in MailSet
    BY <1>1, <1>4 DEF ChildTakes
  <2>2. Head(mail[g]).job \in AnyJob
    BY <2>1 DEF MailSet
  <2>3. (IF Head(mail[g]).op = "run" THEN Process("working", Head(mail[g]).job)
                                     ELSE Process("exited", NoJob)) \in ChildSet
    BY <2>2, ProcessForm
  <2>4. (IF Head(mail[g]).op = "run" THEN Process("working", Head(mail[g]).job)
                                     ELSE Process("exited", NoJob)).is # "forking"
    BY <2>2, ProcessForm
  <2> QED BY <1>4, <2>1, <2>3, <2>4 DEF ChildTakes, ChildStep, ChildMoves
<1>5. ASSUME NEW op \in {"ok", "error"}, ChildAnswers(g, op) PROVE ChildMoves(g)
  BY <1>2, <1>5, ProcessForm DEF ChildAnswers, ChildStep, ChildMoves
<1>6. CASE ChildEnds(g)
  BY <1>6, ProcessForm DEF ChildEnds, ChildStep, ChildMoves
<1>7. CASE ChildDies(g)
  BY <1>7, ProcessForm DEF ChildDies, ChildStep, ChildMoves
<1>8. CASE ChildGarbles(g)
  BY <1>1, <1>8, ProcessForm DEF ChildGarbles, ChildStep, ChildMoves
<1> QED BY <1>3, <1>4, <1>5, <1>6, <1>7, <1>8 DEF ChildWorks

\* Processes and their sockets have their types.
LEMMA ProcessTyped ==
  ASSUME DriverInv, PoolNext
  PROVE  ProcessTypes'
<1>1. /\ ProcessTypes /\ child \in [Gens -> ChildSet] /\ mail \in [Gens -> Seq(MailSet)]
      /\ inbox \in [Gens -> Seq(InboxSet)] /\ doomed \subseteq Gens /\ faults \in 0..MaxFaults
  BY DEF DriverInv, TablesInv, PoolTypes, ProcessTypes, ChildSet, MailSet, InboxSet
<1>2. ASSUME child' \in [Gens -> ChildSet], mail' \in [Gens -> Seq(MailSet)],
             inbox' \in [Gens -> Seq(InboxSet)], doomed' \subseteq Gens, faults' \in 0..MaxFaults
      PROVE  ProcessTypes'
  BY <1>2 DEF ProcessTypes, ChildSet, MailSet, InboxSet
<1>3. CASE UNCHANGED process
  BY <1>1, <1>2, <1>3 DEF process
<1>4. ASSUME NEW g \in Gens, ChildWorks(g) \/ ChildDies(g) \/ ChildGarbles(g) PROVE ProcessTypes'
  <2>1. ChildMoves(g)
    BY <1>1, <1>4, ChildForm
  <2>2. child' \in [Gens -> ChildSet]
    BY <1>1, <2>1 DEF ChildMoves
  <2>3. mail' \in [Gens -> Seq(MailSet)]
    <3>1. mail[g] # <<>> => Tail(mail[g]) \in Seq(MailSet)
      BY <1>1
    <3> QED BY <1>1, <2>1, <3>1 DEF ChildMoves
  <2>4. inbox' \in [Gens -> Seq(InboxSet)]
    <3>1. \A m \in InboxSet : Append(inbox[g], m) \in Seq(InboxSet)
      BY <1>1
    <3> QED BY <1>1, <2>1, <3>1 DEF ChildMoves
  <2>5. faults' \in 0..MaxFaults /\ doomed' \subseteq Gens
    BY <1>1, <2>1, Counted DEF ChildMoves
  <2> QED BY <1>2, <2>2, <2>3, <2>4, <2>5
<1>5. ASSUME NEW f \in Fibers, DriveSpawn(f) PROVE ProcessTypes'
  <2>1. child' = [child EXCEPT ![Subject(f)] = Process("forking", NoJob)]
        /\ UNCHANGED <<mail, inbox, doomed, faults>>
    BY <1>5 DEF DriveSpawn
  <2> QED BY <1>1, <1>2, <2>1, ProcessForm
<1>6. CASE Elsewhere
  BY <1>3, <1>5, <1>6 DEF Elsewhere, StartDriven, StartReady, StartRaises, SubmitDriven, Close,
                RecoverDriven, ReadDriven, LoseDriven, SendDriven, CloseStopped, CloseKilled,
                CloseEnds, CancelReader, DriveReap
<1>7. CASE Children
  BY <1>4, <1>7 DEF Children
<1>8. ASSUME NEW f \in Fibers, SpawnSucceeds(f) \/ SpawnFails(f) PROVE ProcessTypes'
  <2>1. /\ \E s \in {"booting", "none"} : child' = [child EXCEPT ![Subject(f)] = Process(s, NoJob)]
        /\ UNCHANGED <<mail, inbox, doomed>> /\ (faults' = faults \/ Fault)
    BY <1>8 DEF SpawnSucceeds, SpawnFails
  <2>2. child' \in [Gens -> ChildSet]
    <3>1. PICK s \in {"booting", "none"} :
            child' = [child EXCEPT ![Subject(f)] = Process(s, NoJob)]
      BY <2>1
    <3>2. Process(s, NoJob) \in ChildSet
      BY ProcessForm
    <3> QED BY <1>1, <3>1, <3>2
  <2> QED BY <1>1, <1>2, <2>1, <2>2, Counted
<1>9. ASSUME NEW f \in Fibers, ReapReturns(f) PROVE ProcessTypes'
  <2>1. /\ child' = [child EXCEPT ![Subject(f)] = Process("reaped", NoJob)]
        /\ mail' = [mail EXCEPT ![Subject(f)] = <<>>]
        /\ inbox' = [inbox EXCEPT ![Subject(f)] = <<>>]
        /\ doomed' \subseteq doomed /\ UNCHANGED faults
    BY <1>9 DEF ReapReturns
  <2>2. child' \in [Gens -> ChildSet]
    BY <1>1, <2>1, ProcessForm
  <2>3. mail' \in [Gens -> Seq(MailSet)] /\ inbox' \in [Gens -> Seq(InboxSet)]
    <3>1. <<>> \in Seq(MailSet) /\ <<>> \in Seq(InboxSet)
      OBVIOUS
    <3> QED BY <1>1, <2>1, <3>1
  <2> QED BY <1>1, <1>2, <2>1, <2>2, <2>3
<1>10. ASSUME NEW f \in Fibers, DriveClose(f) PROVE ProcessTypes'
  <2>1. PICK kind \in {"CLOSE_CONTROL", "CLOSE_DEATH", "KILL"} :
          /\ Heads(f, kind) /\ UNCHANGED <<child, mail, inbox, faults>>
          /\ doomed' \subseteq doomed \cup {Subject(f)}
    BY <1>10 DEF DriveClose, Performs
  <2>2. todo[f][1] \in Doable /\ todo[f][1].kind = kind /\ Subject(f) = todo[f][1].gen
    BY <2>1, First DEF DriverInv, TablesInv
  <2>3. Subject(f) \in Gens
    BY <2>2, SubjectGen
  <2> QED BY <1>1, <1>2, <2>1, <2>3
<1>11. CASE \E f \in Fibers : DriveSend(f) \/ DriveSettle(f) \/ DriveDrop(f) \/ DriveSkip(f)
  BY <1>3, <1>11 DEF DriveSend, DriveSettle, DriveDrop, DriveSkip
<1>12. CASE Start \/ Recover \/ (\E j \in Jobs : Submit(j)) \/ CloseStops \/ CloseKills
            \/ \E g \in Gens : LoseTask(g) \/ CloseDrains(g)
  BY <1>3, <1>12 DEF Start, Recover, Submit, CloseStops, CloseKills, LoseTask, CloseDrains
<1>13. ASSUME NEW g \in Gens, Read(g) PROVE ProcessTypes'
  <2>1. UNCHANGED <<child, mail, doomed, faults>>
    BY <1>13 DEF Read
  <2>2. inbox' = inbox \/ (inbox[g] # <<>> /\ inbox' = [inbox EXCEPT ![g] = Tail(inbox[g])])
    BY <1>13, ReadForm
  <2>3. inbox[g] # <<>> => Tail(inbox[g]) \in Seq(InboxSet)
    BY <1>1
  <2>4. inbox' \in [Gens -> Seq(InboxSet)]
    BY <1>1, <2>2, <2>3
  <2> QED BY <1>1, <1>2, <2>1, <2>4
<1>14. ASSUME NEW t \in tasks, SendTask(t) PROVE ProcessTypes'
  <2>1. /\ t.gen \in Gens /\ t.op \in {"run", "stop"} /\ t.job \in AnyJob
        /\ \/ mail' = mail
           \/ mail' = [mail EXCEPT ![t.gen] = Append(mail[t.gen], Message(t.op, t.job))]
    BY <1>14, SendForm
  <2>2. UNCHANGED <<child, inbox, doomed, faults>>
    BY <1>14 DEF SendTask
  <2>3. Message(t.op, t.job) \in MailSet
    BY <2>1, ProcessForm
  <2>4. Append(mail[t.gen], Message(t.op, t.job)) \in Seq(MailSet)
    BY <1>1, <2>1, <2>3
  <2>5. mail' \in [Gens -> Seq(MailSet)]
    BY <1>1, <2>1, <2>4
  <2> QED BY <1>1, <1>2, <2>2, <2>5
<1> QED BY <1>6, <1>7, <1>8, <1>9, <1>10, <1>11, <1>12, <1>13, <1>14, Steps

\* Every step keeps the types.
LEMMA PoolTyped ==
  ASSUME DriverInv, PoolNext
  PROVE  PoolTypes'
BY EventTyped, LifeTyped, TableTyped, WorkTyped, ProcessTyped DEF PoolTypes

-----------------------------------------------------------------------------
(* Generations                                                               *)

\* The generations of the slots an event leaves.
LEMMA HandsGens ==
  ASSUME NEW f, NEW sl \in [Fds -> SlotSet], NEW qu, NEW pre, Hands(f, sl, qu, pre)
  PROVE  \A d \in Fds : slots'[d].gen = sl[d].gen
<1>1. \A g, s, j : Slot(g, s, j).gen = g
  BY DEF Slot
<1>2. CASE slots' = sl
  BY <1>2
<1>3. ASSUME NEW d \in Fds, NEW j, slots' = [sl EXCEPT ![d] = Slot(sl[d].gen, "running", j)]
      PROVE  \A h \in Fds : slots'[h].gen = sl[h].gen
  BY <1>1, <1>3
<1> QED BY <1>2, <1>3 DEF Hands

\* A slot that becomes idle keeps its generation.
LEMMA IdleGen ==
  ASSUME CoreInv, NEW g, NEW d \in Fds, slots[d].gen = g
  PROVE  \A h \in Fds : [slots EXCEPT ![d] = Slot(g, "idle", NoJob)][h].gen = slots[h].gen
BY DEF CoreInv, JobsInv, Slot

\* A lost slot has none, the others keep theirs.
LEMMA LosesGens ==
  ASSUME CoreInv, NEW f, NEW g, fdOf[g] \in Fds, Loses(f, g)
  PROVE  \A d \in Fds : slots'[d].gen \in {slots[d].gen, 0}
BY DEF Loses, CoreInv, JobsInv, NoSlot

\* What the steps do to the generations.
LEMMA CoreMoves ==
  ASSUME DriverInv, PoolNext
  PROVE  /\ nextGen \in Nat /\ nextGen' \in Nat /\ nextGen <= nextGen' /\ MaxGen \in Nat
         /\ \A h \in pendingSpawns' : h \in pendingSpawns \/ h > nextGen
         /\ \A d \in Fds :
              \/ slots'[d].gen \in {slots[d].gen, 0}
              \/ \E f \in Fibers : /\ SpawnSucceeds(f) /\ Subject(f) \in pendingSpawns
                                   /\ slots'[d].gen = Subject(f)
<1> DEFINE G == /\ nextGen' \in Nat /\ nextGen <= nextGen'
                /\ \A h \in pendingSpawns' : h \in pendingSpawns \/ h > nextGen
                /\ \A d \in Fds :
                     \/ slots'[d].gen \in {slots[d].gen, 0}
                     \/ \E f \in Fibers : /\ SpawnSucceeds(f) /\ Subject(f) \in pendingSpawns
                                          /\ slots'[d].gen = Subject(f)
<1>1. CoreInv /\ nextGen \in Nat /\ MaxGen \in Nat /\ slots \in [Fds -> SlotSet]
      /\ queue \in Seq(Jobs)
  BY LiveGens DEF DriverInv
<1> SUFFICES G
  BY <1>1
<1>2. ASSUME nextGen' = nextGen, pendingSpawns' \subseteq pendingSpawns,
             \A d \in Fds : slots'[d].gen \in {slots[d].gen, 0}
      PROVE  G
  BY <1>1, <1>2
<1>3. CASE UNCHANGED core
  <2>1. nextGen' = nextGen /\ pendingSpawns' = pendingSpawns /\ slots' = slots
    BY <1>3 DEF core
  <2> QED BY <1>1, <2>1
<1>4. ASSUME NEW f, Fills(f) PROVE G
  <2>1. PICK n \in Nat :
          /\ nextGen' = nextGen + n
          /\ pendingSpawns' = pendingSpawns \cup {h \in Gens : nextGen < h /\ h <= nextGen'}
    BY <1>4 DEF Fills
  <2>2. slots' = slots
    BY <1>4 DEF Fills
  <2>3. \A h \in pendingSpawns' : h \in pendingSpawns \/ h > nextGen
    BY <1>1, <2>1 DEF Gens
  <2> QED BY <1>1, <2>1, <2>2, <2>3
<1>5. ASSUME NEW f \in Fibers, SpawnSucceeds(f) PROVE G
  <2>1. Subject(f) \in Gens /\ fdOf[Subject(f)] \in Fds /\ Entered(f, Subject(f))
    BY <1>5, EnteredForm
  <2>2. CASE Subject(f) \in pendingSpawns /\ ~coreClosing
    <3>1. slots' = [slots EXCEPT ![fdOf[Subject(f)]] = Slot(Subject(f), "starting", NoJob)]
      BY <2>1, <2>2 DEF Entered
    <3>2. PICK n \in Nat : /\ nextGen' = nextGen + n
                           /\ pendingSpawns' = (pendingSpawns \ {Subject(f)})
                                 \cup {h \in Gens : nextGen < h /\ h <= nextGen'}
      BY <2>1, <2>2 DEF Entered
    <3>3. \A h \in pendingSpawns' : h \in pendingSpawns \/ h > nextGen
      BY <1>1, <3>2 DEF Gens
    <3>4. \A d \in Fds : slots'[d].gen = slots[d].gen \/ slots'[d].gen = Subject(f)
      BY <1>1, <3>1 DEF Slot
    <3> QED BY <1>1, <1>5, <2>2, <3>2, <3>3, <3>4
  <2>3. CASE ~(Subject(f) \in pendingSpawns /\ ~coreClosing)
    <3>1. slots' = slots /\ nextGen' = nextGen /\ pendingSpawns' \subseteq pendingSpawns
      BY <2>1, <2>3 DEF Entered
    <3> QED BY <1>2, <3>1
  <2> QED BY <2>2, <2>3
<1>6. ASSUME NEW f, NEW g, fdOf[g] \in Fds, Loses(f, g) PROVE G
  <2>1. nextGen' = nextGen /\ pendingSpawns' = pendingSpawns
    BY <1>6 DEF Loses
  <2> QED BY <1>1, <1>2, <1>6, <2>1, LosesGens
<1>7. ASSUME NEW f, NEW sl \in [Fds -> SlotSet], NEW qu, NEW pre, Hands(f, sl, qu, pre),
             \A d \in Fds : sl[d].gen = slots[d].gen, UNCHANGED <<pendingSpawns, nextGen>>
      PROVE  G
  BY <1>2, <1>7, HandsGens
<1>8. ASSUME UNCHANGED <<slots, pendingSpawns, nextGen>> PROVE G
  BY <1>1, <1>8
<1> HIDE DEF G
<1>9. CASE Elsewhere \/ Children
  BY <1>3, <1>9, ElsewhereForm, ChildrenForm
<1>10. CASE \E f \in Fibers : \/ DriveSend(f) \/ DriveSettle(f) \/ DriveDrop(f) \/ DriveClose(f)
                              \/ ReapReturns(f) \/ DriveSkip(f)
  BY <1>3, <1>10, Pops
<1>11. ASSUME NEW f \in Fibers, SpawnFails(f) PROVE G
  <2>1. slots' = slots /\ nextGen' = nextGen /\ pendingSpawns' \subseteq pendingSpawns
    BY <1>11, SpawnFailsForm
  <2> QED BY <1>2, <2>1
<1>12. CASE Start
  BY <1>4, <1>12, FillsForm DEF Start
<1>13. CASE Recover
  <2>1. ASSUME NEW f \in Recoverers, CoreFill, Run(f, FillEffects) PROVE G
    BY <1>4, <2>1, FillsForm
  <2>2. CASE UNCHANGED <<core, turn, todo>>
    BY <1>3, <2>2
  <2> QED BY <1>13, <2>1, <2>2, RecoverForm
<1>14. ASSUME NEW j \in Jobs, Submit(j) PROVE G
  <2>1. CASE Hands(Submitter, slots, Append(queue, j), <<>>)
    BY <1>1, <1>7, <1>14, <2>1, SubmitsForm
  <2>2. CASE ~Hands(Submitter, slots, Append(queue, j), <<>>)
    BY <1>8, <1>14, <2>2, SubmitsForm
  <2> QED BY <2>1, <2>2
<1>15. ASSUME NEW g \in Gens, Read(g) PROVE G
  <2>1. fdOf[g] \in Fds
    BY <1>15, ReadForm
  <2>2. ASSUME slots[fdOf[g]].gen = g, NEW pre, UNCHANGED <<pendingSpawns, nextGen>>,
               Hands(Reader(g), [slots EXCEPT ![fdOf[g]] = Slot(g, "idle", NoJob)], queue, pre)
        PROVE  G
    <3>1. [slots EXCEPT ![fdOf[g]] = Slot(g, "idle", NoJob)] \in [Fds -> SlotSet]
      BY <1>1, <2>1, IdleSlot
    <3>2. \A d \in Fds : [slots EXCEPT ![fdOf[g]] = Slot(g, "idle", NoJob)][d].gen = slots[d].gen
      BY <1>1, <2>1, <2>2, IdleGen
    <3> QED BY <1>7, <2>2, <3>1, <3>2
  <2>3. ASSUME Readies(g) PROVE G
    <3>1. CASE UNCHANGED <<slots, queue>>
      BY <1>8, <2>3, <3>1 DEF Readies
    <3>2. CASE ~UNCHANGED <<slots, queue>>
      BY <2>2, <2>3, <3>2 DEF Readies
    <3> QED BY <3>1, <3>2
  <2>4. ASSUME NEW j, Results(g, j) PROVE G
    <3>1. CASE UNCHANGED <<slots, queue>>
      BY <1>8, <2>4, <3>1 DEF Results
    <3>2. CASE ~UNCHANGED <<slots, queue>>
      <4>1. slots[fdOf[g]].gen = g
        BY <2>4, <3>2 DEF Results, Slot
      <4> QED BY <2>2, <2>4, <3>2, <4>1 DEF Results
    <3> QED BY <3>1, <3>2
  <2>5. ASSUME Loses(Reader(g), g) PROVE G
    BY <1>6, <2>1, <2>5
  <2> QED BY <1>3, <1>15, <2>3, <2>4, <2>5, ReadForm
<1>16. ASSUME NEW g \in Gens, LoseTask(g) PROVE G
  <2>1. CASE UNCHANGED <<core, turn, todo, preReady>>
    BY <1>3, <2>1
  <2> QED BY <1>6, <1>16, <2>1, LoseTaskForm
<1>17. ASSUME NEW t \in tasks, SendTask(t) PROVE G
  <2>1. CASE UNCHANGED core
    BY <1>3, <2>1
  <2>2. CASE fdOf[t.gen] \in Fds /\ Loses(Sender(t.gen), t.gen)
    BY <1>6, <2>2
  <2> QED BY <1>17, <2>1, <2>2, SendForm
<1>18. CASE CloseStops
  <2>1. nextGen' = nextGen /\ pendingSpawns' = {}
        /\ slots' = [f \in Fds |-> IF f \in Live THEN Slot(slots[f].gen, "stopping", NoJob)
                                   ELSE NoSlot]
    BY <1>18, StopsForm
  <2>2. \A d \in Fds : slots'[d].gen \in {slots[d].gen, 0}
    BY <2>1 DEF Slot, NoSlot
  <2> QED BY <1>2, <2>1, <2>2
<1>19. CASE CloseKills
  BY <1>3, <1>19, KillsForm
<1>20. ASSUME NEW g \in Gens, CloseDrains(g) PROVE G
  BY <1>6, <1>20, DrainForm
<1> QED BY <1>5, <1>9, <1>10, <1>11, <1>12, <1>13, <1>14, <1>15, <1>16, <1>17, <1>18, <1>19,
           <1>20, Steps

\* A reader is started once, when its slot is entered.
LEMMA ReadersStay ==
  ASSUME DriverInv, PoolNext, NEW g \in Gens
  PROVE  /\ reader[g] # "none" => reader'[g] # "none"
         /\ reader[g] = "done" => reader'[g] = "done"
         /\ reader[g] = "none" /\ reader'[g] # "none" =>
              \E f \in Fibers : SpawnSucceeds(f) /\ Subject(f) = g
<1>1. reader \in [Gens -> {"none", "reading", "done"}]
  BY DEF DriverInv, TablesInv, PoolTypes, TableTypes
<1>2. CASE UNCHANGED reader
  BY <1>2
<1>3. ASSUME NEW h \in Gens, reader[h] # "none", reader' = [reader EXCEPT ![h] = "done"]
      PROVE  /\ reader[g] # "none" => reader'[g] # "none"
             /\ reader[g] = "done" => reader'[g] = "done"
             /\ reader[g] = "none" => reader'[g] = "none"
  BY <1>1, <1>3
<1>4. ASSUME NEW f \in Fibers, CancelReader(f)
      PROVE  /\ reader[g] # "none" => reader'[g] # "none"
             /\ reader[g] = "done" => reader'[g] = "done"
             /\ reader[g] = "none" => reader'[g] = "none"
  BY <1>1, <1>4 DEF CancelReader
<1>5. ASSUME NEW h \in Gens, ReadDriven(h)
      PROVE  /\ reader[g] # "none" => reader'[g] # "none"
             /\ reader[g] = "done" => reader'[g] = "done"
             /\ reader[g] = "none" => reader'[g] = "none"
  <2>1. turn = Reader(h) /\ (reader' = reader \/ reader' = [reader EXCEPT ![h] = "done"])
    BY <1>5 DEF ReadDriven, Returns
  <2>2. reader[h] # "none"
    BY <2>1 DEF DriverInv, TablesInv, PlaceInv
  <2> QED BY <1>3, <2>1, <2>2
<1>6. CASE Elsewhere
  <2>1. UNCHANGED reader \/ (\E f \in Fibers : CancelReader(f)) \/ \E h \in Gens : ReadDriven(h)
    BY <1>6 DEF Elsewhere, StartDriven, StartReady, StartRaises, SubmitDriven, Close,
                RecoverDriven, LoseDriven, SendDriven, CloseStopped, CloseKilled,
                CloseEnds, DriveSpawn, DriveReap, table
  <2> QED BY <1>2, <1>4, <1>5, <2>1
<1>7. CASE Children
  BY <1>2, <1>7, ChildrenForm DEF table
<1>8. ASSUME NEW f \in Fibers, SpawnSucceeds(f)
      PROVE  /\ reader[g] # "none" => reader'[g] # "none"
             /\ reader[g] = "done" => reader'[g] = "done"
             /\ reader[g] = "none" /\ reader'[g] # "none" => Subject(f) = g
  <2>1. reader' = [reader EXCEPT ![Subject(f)] = "reading"] /\ Heads(f, "SPAWN")
    BY <1>8 DEF SpawnSucceeds, Resumes
  <2>2. reader[Subject(f)] = "none"
    BY <2>1, Spawning
  <2> QED BY <1>1, <2>1, <2>2
<1>9. CASE \E f \in Fibers : \/ DriveSend(f) \/ DriveSettle(f) \/ DriveDrop(f) \/ DriveClose(f)
                             \/ ReapReturns(f) \/ DriveSkip(f) \/ SpawnFails(f)
  BY <1>2, <1>9 DEF DriveSend, DriveSettle, DriveDrop, DriveClose, ReapReturns, DriveSkip,
                    SpawnFails
<1>10. CASE Start \/ Recover \/ (\E j \in Jobs : Submit(j)) \/ CloseStops
            \/ \E h \in Gens : CloseDrains(h)
  BY <1>2, <1>10 DEF Start, Recover, Submit, CloseStops, CloseDrains, table
<1>11. ASSUME NEW h \in Gens, Read(h)
       PROVE  /\ reader[g] # "none" => reader'[g] # "none"
              /\ reader[g] = "done" => reader'[g] = "done"
              /\ reader[g] = "none" => reader'[g] = "none"
  <2>1. reader[h] = "reading" /\ (reader' = reader \/ reader' = [reader EXCEPT ![h] = "done"])
    BY <1>11, ReadForm
  <2> QED BY <1>3, <2>1
<1>12. CASE (\E h \in Gens : LoseTask(h)) \/ \E t \in tasks : SendTask(t)
  BY <1>2, <1>12 DEF LoseTask, SendTask
<1>13. CASE CloseKills
  <2>1. reader' = [h \in Gens |-> IF Late(h) THEN "done" ELSE reader[h]]
    BY <1>13, KillsForm
  <2>2. Late(g) => reader[g] # "none"
    BY DEF Late, DriverInv, TablesInv, PlaceInv
  <2> QED BY <2>1, <2>2
<1> QED BY <1>6, <1>7, <1>8, <1>9, <1>10, <1>11, <1>12, <1>13, Steps

\* Once gone, always gone.
LEMMA GoneStays ==
  ASSUME DriverInv, PoolNext, NEW g \in Gens, Gone(g)
  PROVE  Gone(g)'
<1>1. g \in Nat /\ g # 0
  BY DEF Gens
<1>2. g <= nextGen' /\ g \notin pendingSpawns'
  BY <1>1, CoreMoves DEF Gone
<1>3. \A d \in Fds : slots'[d].gen # g
  BY <1>1, CoreMoves DEF Gone
<1> QED BY <1>2, <1>3 DEF Gone

\* The slot a step drops is gone.
LEMMA LosesGone ==
  ASSUME DriverInv, NEW f, NEW g \in Gens, fdOf[g] \in Fds, slots[fdOf[g]] # NoSlot, Loses(f, g),
         slots[fdOf[g]].gen = g
  PROVE  Gone(g)'
<1>1. /\ slots' = [slots EXCEPT ![fdOf[g]] = NoSlot]
      /\ UNCHANGED <<nextGen, pendingSpawns>>
  BY DEF Loses
<1>2. CoreInv /\ slots \in [Fds -> SlotSet] /\ NoSlot.gen = 0 /\ g # 0
  BY LiveGens DEF DriverInv, Gens
<1>3. \A d \in Fds : d # fdOf[g] => slots[d].gen # g
  BY <1>2, LiveGens
<1>4. \A d \in Fds : slots'[d].gen # g
  BY <1>1, <1>2, <1>3
<1>5. g <= nextGen /\ g \notin pendingSpawns
  BY <1>2, LiveGens
<1> QED BY <1>1, <1>4, <1>5 DEF Gone

\* A list of effects that spawns no generation twice.
SpawnsOnce(s) ==
  \A i, k \in DOMAIN s : s[i].kind = "SPAWN" /\ s[k].kind = "SPAWN" /\ s[i].gen = s[k].gen => i = k

\* The todo list of one fiber changes.
LEMMA SpawnKept ==
  ASSUME DriverInv, PoolNext, NEW f \in Fibers,
         \A h \in Fibers : h # f => todo'[h] = todo[h],
         SpawnsOnce(todo'[f]),
         \A g \in Gens : Asks(f, g)' => Asks(f, g) \/ (g > nextGen /\ g <= nextGen'),
         \A g \in Gens : reader[g] = "none" /\ reader'[g] # "none" => Asks(f, g) /\ ~Asks(f, g)',
         \A g \in Gens : child'[g].is = "forking" => g \in open' /\ reader'[g] = "none"
  PROVE  SpawnInv'
<1>1. SpawnInv /\ nextGen \in Nat /\ nextGen' \in Nat /\ nextGen <= nextGen'
  BY CoreMoves DEF DriverInv, TablesInv
<1>2. \A h \in Fibers : SpawnsOnce(todo'[h])
  BY <1>1 DEF SpawnInv, SpawnsOnce
<1>3. \A h \in Fibers, g \in Gens : h # f => (Asks(h, g)' <=> Asks(h, g))
  BY DEF Asks
<1>4. \A h \in Fibers, g \in Gens : Asks(h, g) => g <= nextGen /\ reader[g] = "none"
  BY <1>1 DEF SpawnInv
<1>5. \A g \in Gens : g \in Nat
  BY DEF Gens
<1>6. \A h, k \in Fibers, g \in Gens : Asks(h, g)' /\ Asks(k, g)' => h = k
  <2>1. \A h, k \in Fibers, g \in Gens : Asks(h, g) /\ Asks(k, g) => h = k
    BY <1>1 DEF SpawnInv
  <2>2. \A g \in Gens : Asks(f, g)' => Asks(f, g) \/ ~(g <= nextGen)
    BY <1>1, <1>5
  <2> QED BY <1>3, <1>4, <2>1, <2>2
<1>7. \A h \in Fibers, g \in Gens : Asks(h, g)' => g <= nextGen' /\ reader'[g] = "none"
  <2> SUFFICES ASSUME NEW h \in Fibers, NEW g \in Gens, Asks(h, g)'
               PROVE  g <= nextGen' /\ reader'[g] = "none"
    OBVIOUS
  <2>1. CASE Asks(h, g)
    <3>1. g <= nextGen' /\ reader[g] = "none"
      BY <1>1, <1>4, <1>5, <2>1
    <3>2. reader'[g] = "none"
      <4>1. ASSUME reader'[g] # "none" PROVE FALSE
        <5>1. Asks(f, g) /\ ~Asks(f, g)'
          BY <3>1, <4>1
        <5>2. h = f
          BY <1>1, <2>1, <5>1 DEF SpawnInv
        <5> QED BY <5>1, <5>2
      <4> QED BY <4>1
    <3> QED BY <3>1, <3>2
  <2>2. CASE ~Asks(h, g)
    <3>1. h = f /\ g > nextGen /\ g <= nextGen'
      BY <1>3, <2>2
    <3>2. reader[g] = "none"
      BY <1>1, <1>5, <3>1 DEF SpawnInv
    <3>3. ~Asks(f, g)
      BY <2>2, <3>1
    <3> QED BY <3>1, <3>2, <3>3
  <2> QED BY <2>1, <2>2
<1>8. \A g \in Gens : reader'[g] # "none" => g <= nextGen'
  <2>1. \A g \in Gens : reader'[g] # "none" => g <= nextGen
    BY <1>1, <1>4 DEF SpawnInv
  <2> QED BY <1>1, <1>5, <2>1
<1> QED BY <1>2, <1>6, <1>7, <1>8 DEF SpawnInv, SpawnsOnce

-----------------------------------------------------------------------------
(* What is asked for, and what is cleared away                               *)

\* Effects that neither spawn nor clear away: a job is handed out last.
Plain(s) ==
  \A i \in DOMAIN s : /\ s[i].kind \in {"SEND_RUN", "SEND_STOP", "RESOLVE", "FAIL", "KILL"}
                      /\ s[i].kind = "SEND_RUN" => i = Len(s)

\* What a fiber that hands out a job has to do is plain.
LEMMA HandsPlain ==
  ASSUME DriverInv, NEW f \in Fibers, NEW sl, NEW qu,
         \A d \in Fds : sl[d].state = "idle" => sl[d].gen \in Gens,
         NEW pre, \/ pre = <<>>
                  \/ \E g \in Gens, j \in Jobs : \E kind \in {"RESOLVE", "FAIL"} :
                       pre = <<Effect(kind, g, j)>>,
         Hands(f, sl, qu, pre)
  PROVE  \E s \in Seq(Doable) : Plain(s) /\ todo' = [todo EXCEPT ![f] = s]
<1>1. \A k, g, j : Effect(k, g, j).kind = k
  BY DEF Effect
<1>2. ASSUME NEW g \in Gens, NEW j \in Jobs, NEW k \in {"RESOLVE", "FAIL", "SEND_RUN"}
      PROVE  Effect(k, g, j) \in Doable
  BY <1>2 DEF Effect, Doable, Effects
<1>3. <<>> \in Seq(Doable) /\ Plain(<<>>)
  BY DEF Plain
<1>4. ASSUME NEW e \in Doable, e.kind \in {"RESOLVE", "FAIL", "SEND_RUN"}
      PROVE  <<e>> \in Seq(Doable) /\ Plain(<<e>>)
  BY <1>4 DEF Plain
<1>5. ASSUME NEW e \in Doable, NEW x \in Doable, e.kind \in {"RESOLVE", "FAIL"},
             x.kind = "SEND_RUN"
      PROVE  <<e>> \o <<x>> \in Seq(Doable) /\ Plain(<<e>> \o <<x>>)
  BY <1>5 DEF Plain
<1>6. pre \in Seq(Doable) /\ Plain(pre)
  BY <1>1, <1>2, <1>3, <1>4
<1>7. CASE todo' = [todo EXCEPT ![f] = pre]
  BY <1>6, <1>7
<1>8. ASSUME NEW d \in Fds, NEW j \in Jobs, sl[d].state = "idle",
             todo' = [todo EXCEPT ![f] = pre \o <<Effect("SEND_RUN", sl[d].gen, j)>>]
      PROVE  \E s \in Seq(Doable) : Plain(s) /\ todo' = [todo EXCEPT ![f] = s]
  <2> DEFINE x == Effect("SEND_RUN", sl[d].gen, j)
  <2>1. x \in Doable /\ x.kind = "SEND_RUN"
    BY <1>1, <1>2, <1>8
  <2> HIDE DEF x
  <2>2. CASE pre = <<>>
    <3>1. pre \o <<x>> = <<x>>
      BY <2>2
    <3>2. <<x>> \in Seq(Doable) /\ Plain(<<x>>)
      BY <1>4, <2>1
    <3> QED BY <1>8, <3>1, <3>2 DEF x
  <2>3. ASSUME NEW g \in Gens, NEW k \in Jobs, NEW kind \in {"RESOLVE", "FAIL"},
               pre = <<Effect(kind, g, k)>>
        PROVE  \E s \in Seq(Doable) : Plain(s) /\ todo' = [todo EXCEPT ![f] = s]
    <3>1. Effect(kind, g, k) \in Doable /\ Effect(kind, g, k).kind = kind
      BY <1>1, <1>2
    <3>2. pre \o <<x>> \in Seq(Doable) /\ Plain(pre \o <<x>>)
      BY <1>5, <2>1, <2>3, <3>1
    <3> QED BY <1>8, <3>2 DEF x
  <2> QED BY <2>2, <2>3
<1> QED BY <1>7, <1>8 DEF Hands

\* Nothing to do is plain.
LEMMA NonePlain ==
  <<>> \in Seq(Doable) /\ Plain(<<>>)
BY DEF Plain

\* The fiber that loses the slot of g has it to clear away.
Clearance(f, g) ==
  /\ reader[g] # "none" /\ fdOf[g] \in Fds /\ slots[fdOf[g]] # NoSlot
  /\ slots[fdOf[g]].gen = g /\ Loses(f, g) /\ todo' = [todo EXCEPT ![f] = LossEffects(g)]

\* A fiber that loses a slot has it to clear away, or nothing to do.
LEMMA LosesShape ==
  ASSUME NEW f \in Fibers, NEW g \in Gens, reader[g] # "none", fdOf[g] \in Fds, Loses(f, g)
  PROVE  \/ \E s \in Seq(Doable) : Plain(s) /\ todo' = [todo EXCEPT ![f] = s]
         \/ Clearance(f, g)
<1>1. CASE todo' = [todo EXCEPT ![f] = <<>>]
  BY <1>1, NonePlain
<1>2. CASE todo' # [todo EXCEPT ![f] = <<>>]
  BY <1>2 DEF Loses, Clearance
<1> QED BY <1>1, <1>2

\* How the todo lists change.
LEMMA Shapes ==
  ASSUME DriverInv, PoolNext
  PROVE  \/ UNCHANGED todo
         \/ \E f \in Fibers, kind \in {"SPAWN", "SEND_RUN", "SEND_STOP", "RESOLVE", "FAIL", "DROP",
                                       "CLOSE_CONTROL", "CLOSE_DEATH", "KILL", "REAP"} :
              Heads(f, kind) /\ todo' = [todo EXCEPT ![f] = Tail(todo[f])]
         \/ \E f \in Fibers : SpawnSucceeds(f)
         \/ \E f \in Fibers : Fills(f)
         \/ \E f \in Fibers : \E s \in Seq(Doable) : Plain(s) /\ todo' = [todo EXCEPT ![f] = s]
         \/ \E f \in Fibers, g \in Gens : Clearance(f, g)
         \/ CloseKills
<1> DEFINE G == \/ UNCHANGED todo
                \/ \E f \in Fibers, kind \in {"SPAWN", "SEND_RUN", "SEND_STOP", "RESOLVE", "FAIL",
                                              "DROP", "CLOSE_CONTROL", "CLOSE_DEATH", "KILL",
                                              "REAP"} :
                     Heads(f, kind) /\ todo' = [todo EXCEPT ![f] = Tail(todo[f])]
                \/ \E f \in Fibers : SpawnSucceeds(f)
                \/ \E f \in Fibers : Fills(f)
                \/ \E f \in Fibers : \E s \in Seq(Doable) :
                     Plain(s) /\ todo' = [todo EXCEPT ![f] = s]
                \/ \E f \in Fibers, g \in Gens : Clearance(f, g)
                \/ CloseKills
<1> SUFFICES G
  OBVIOUS
<1>1. ASSUME UNCHANGED todo PROVE G
  BY <1>1
<1>2. ASSUME NEW f \in Fibers, Fills(f) PROVE G
  BY <1>2
<1>3. ASSUME NEW f \in Fibers, \E s \in Seq(Doable) : Plain(s) /\ todo' = [todo EXCEPT ![f] = s]
      PROVE  G
  BY <1>3
<1>4. ASSUME NEW f \in Fibers, NEW g \in Gens, reader[g] # "none", fdOf[g] \in Fds, Loses(f, g)
      PROVE  G
  BY <1>4, LosesShape
<1>5. ASSUME NEW f \in Fibers, NEW kind \in {"SPAWN", "SEND_RUN", "SEND_STOP", "RESOLVE", "FAIL",
                                              "DROP", "CLOSE_CONTROL", "CLOSE_DEATH", "KILL",
                                              "REAP"},
             Heads(f, kind), todo' = [todo EXCEPT ![f] = Tail(todo[f])]
      PROVE  G
  BY <1>5
<1>6. CASE CloseKills \/ \E f \in Fibers : SpawnSucceeds(f)
  BY <1>6
<1> HIDE DEF G
<1>7. CASE Elsewhere \/ Children
  BY <1>1, <1>7, ElsewhereForm, ChildrenForm DEF event
<1>8. CASE \E f \in Fibers : \/ DriveSend(f) \/ DriveSettle(f) \/ DriveDrop(f) \/ DriveClose(f)
                             \/ ReapReturns(f) \/ DriveSkip(f)
  BY <1>5, <1>8, Pops
<1>9. CASE \E f \in Fibers : SpawnFails(f)
  BY <1>5, <1>9, SpawnFailsForm
<1>10. CASE Start
  BY <1>2, <1>10, FillsForm, FiberNames DEF Start
<1>11. CASE Recover
  <2>1. CASE UNCHANGED <<core, turn, todo>>
    BY <1>1, <2>1
  <2>2. ASSUME NEW f \in Recoverers, CoreFill, Run(f, FillEffects) PROVE G
    BY <1>2, <2>2, FillsForm, FiberNames
  <2> QED BY <1>11, <2>1, <2>2, RecoverForm
<1>12. ASSUME NEW j \in Jobs, Submit(j) PROVE G
  <2>1. Submitter \in Fibers
    BY FiberNames
  <2>2. CASE todo' = [todo EXCEPT ![Submitter] = <<>>]
    BY <1>3, <2>1, <2>2, NonePlain
  <2>3. CASE Hands(Submitter, slots, Append(queue, j), <<>>)
    <3>1. \A d \in Fds : slots[d].state = "idle" => slots[d].gen \in Gens
      BY IdleGens DEF DriverInv
    <3> QED BY <1>3, <2>1, <2>3, <3>1, HandsPlain
  <2> QED BY <1>12, <2>2, <2>3, SubmitsForm
<1>13. ASSUME NEW g \in Gens, Read(g) PROVE G
  <2>1. Reader(g) \in Fibers /\ fdOf[g] \in Fds /\ CoreInv /\ reader[g] # "none"
    BY <1>13, ReadForm, FiberNames DEF DriverInv
  <2>2. \A d \in Fds : [slots EXCEPT ![fdOf[g]] = Slot(g, "idle", NoJob)][d].state = "idle" =>
                       [slots EXCEPT ![fdOf[g]] = Slot(g, "idle", NoJob)][d].gen \in Gens
    BY <2>1, IdleGens
  <2>3. CASE todo' = [todo EXCEPT ![Reader(g)] = <<>>]
    BY <1>3, <2>1, <2>3, NonePlain
  <2>4. ASSUME NEW pre, \/ pre = <<>>
                        \/ \E h \in Gens, j \in Jobs : \E kind \in {"RESOLVE", "FAIL"} :
                             pre = <<Effect(kind, h, j)>>,
               Hands(Reader(g), [slots EXCEPT ![fdOf[g]] = Slot(g, "idle", NoJob)], queue, pre)
        PROVE  G
    BY <1>3, <2>1, <2>2, <2>4, HandsPlain
  <2>5. ASSUME Readies(g) PROVE G
    BY <2>3, <2>4, <2>5 DEF Readies
  <2>6. ASSUME NEW j, Results(g, j) PROVE G
    <3>1. ASSUME j \in Jobs, NEW kind \in {"RESOLVE", "FAIL"},
                 Hands(Reader(g), [slots EXCEPT ![fdOf[g]] = Slot(g, "idle", NoJob)], queue,
                       <<Effect(kind, g, j)>>)
          PROVE  G
      BY <2>4, <3>1
    <3> QED BY <2>3, <2>6, <3>1 DEF Results
  <2>7. CASE Loses(Reader(g), g)
    BY <1>4, <2>1, <2>7
  <2> QED BY <1>1, <1>13, <2>5, <2>6, <2>7, ReadForm DEF event
<1>14. ASSUME NEW g \in Gens, LoseTask(g) PROVE G
  <2>1. CASE UNCHANGED <<core, turn, todo, preReady>>
    BY <1>1, <2>1
  <2> QED BY <1>4, <1>14, <2>1, LoseTaskForm, FiberNames
<1>15. ASSUME NEW t \in tasks, SendTask(t) PROVE G
  <2>1. CASE UNCHANGED todo
    BY <1>1, <2>1
  <2>2. CASE reader[t.gen] # "none" /\ fdOf[t.gen] \in Fds /\ Loses(Sender(t.gen), t.gen)
    <3>1. t.gen \in Gens
      BY <1>15, SendForm
    <3> QED BY <1>4, <2>2, <3>1, FiberNames
  <2> QED BY <1>15, <2>1, <2>2, SendForm
<1>16. CASE CloseStops
  <2>1. /\ CloseEffects \in Seq(Doable) /\ todo' = [todo EXCEPT ![Closer] = CloseEffects]
        /\ \A i \in 1..Len(CloseEffects) : CloseEffects[i].kind \in {"FAIL", "SEND_STOP"}
    BY <1>16, StopsForm
  <2>2. Plain(CloseEffects)
    <3>1. DOMAIN CloseEffects = 1..Len(CloseEffects)
      BY <2>1
    <3> QED BY <2>1, <3>1 DEF Plain
  <2> QED BY <1>3, <2>1, <2>2, FiberNames
<1>17. ASSUME NEW g \in Gens, CloseDrains(g) PROVE G
  BY <1>4, <1>17, DrainForm, FiberNames
<1> QED BY <1>6, <1>7, <1>8, <1>9, <1>10, <1>11, <1>12, <1>13, <1>14, <1>15, <1>16, <1>17, Steps

\* A process that is being made has an open socket and no reader yet.
LEMMA ForkingKept ==
  ASSUME DriverInv, PoolNext, NEW g \in Gens, child'[g].is = "forking"
  PROVE  g \in open' /\ reader'[g] = "none"
<1>1. /\ child \in [Gens -> ChildSet]
      /\ child[g].is = "forking" => g \in open /\ reader[g] = "none"
  BY DEF DriverInv, TablesInv, PoolTypes, ProcessTypes, ChildSet, SpawnInv
<1>2. CASE child[g].is = "forking" /\ g \in open' /\ ~\E f \in Fibers : SpawnSucceeds(f)
  BY <1>1, <1>2, ReadersStay
<1>3. ASSUME UNCHANGED <<child, open>> PROVE g \in open' /\ reader'[g] = "none"
  <2>1. child[g].is = "forking" /\ g \in open'
    BY <1>1, <1>3
  <2>2. ~\E f \in Fibers : SpawnSucceeds(f)
    <3>1. ASSUME NEW f \in Fibers, SpawnSucceeds(f) PROVE FALSE
      <4>1. child[Subject(f)].is = "forking" /\ Subject(f) \in Gens
            /\ child' = [child EXCEPT ![Subject(f)] = Process("booting", NoJob)]
        BY <3>1, EnteredForm DEF SpawnSucceeds
      <4>2. child'[Subject(f)].is = "booting"
        BY <1>1, <4>1, ProcessForm
      <4> QED BY <1>3, <4>1, <4>2
    <3> QED BY <3>1
  <2> QED BY <1>2, <2>1, <2>2
<1>4. ASSUME NEW f \in Fibers, DriveSpawn(f) PROVE g \in open' /\ reader'[g] = "none"
  <2>1. Heads(f, "SPAWN") /\ child' = [child EXCEPT ![Subject(f)] = Process("forking", NoJob)]
        /\ open' = open \cup {Subject(f)} /\ UNCHANGED reader
    BY <1>4 DEF DriveSpawn, Performs
  <2>2. reader[Subject(f)] = "none"
    BY <2>1, Spawning
  <2> QED BY <1>1, <2>1, <2>2
<1>5. CASE Elsewhere
  BY <1>3, <1>4, <1>5 DEF Elsewhere, StartDriven, StartReady, StartRaises, SubmitDriven, Close,
                RecoverDriven, ReadDriven, LoseDriven, SendDriven, CloseStopped, CloseKilled,
                CloseEnds, CancelReader, DriveReap, table, process
<1>6. CASE Children
  <2>1. UNCHANGED <<open, reader>>
    BY <1>6, ChildrenForm DEF table
  <2>2. PICK h \in Gens : ChildMoves(h)
    BY <1>6, ChildForm DEF Children, DriverInv, TablesInv, PoolTypes
  <2>3. child[g].is = "forking"
    BY <1>1, <2>2 DEF ChildMoves
  <2> QED BY <1>1, <2>1, <2>3
<1>7. ASSUME NEW f \in Fibers, SpawnSucceeds(f) \/ SpawnFails(f)
      PROVE  g \in open' /\ reader'[g] = "none"
  <2>1. Heads(f, "SPAWN") /\ Subject(f) \in Gens
    BY <1>7, Spawning DEF SpawnSucceeds, SpawnFails, Resumes
  <2>2. /\ \/ child' = [child EXCEPT ![Subject(f)] = Process("booting", NoJob)]
           \/ child' = [child EXCEPT ![Subject(f)] = Process("none", NoJob)]
        /\ open \ {Subject(f)} \subseteq open'
        /\ (reader' = [reader EXCEPT ![Subject(f)] = "reading"] \/ reader' = reader)
    BY <1>7 DEF SpawnSucceeds, SpawnFails
  <2>3. g # Subject(f)
    BY <1>1, <2>1, <2>2, ProcessForm
  <2>4. reader'[g] = reader[g] /\ child[g].is = "forking"
    <3>1. reader \in [Gens -> {"none", "reading", "done"}]
      BY DEF DriverInv, TablesInv, PoolTypes, TableTypes
    <3> QED BY <1>1, <2>2, <2>3, <3>1
  <2> QED BY <1>1, <2>2, <2>3, <2>4
<1>8. ASSUME NEW f \in Fibers, DriveClose(f) PROVE g \in open' /\ reader'[g] = "none"
  <2>1. UNCHANGED <<child, reader>>
    BY <1>8 DEF DriveClose
  <2>2. CASE open' = open
    BY <1>3, <2>1, <2>2
  <2>3. CASE open' # open
    <3>1. Heads(f, "CLOSE_CONTROL") /\ open \ {Subject(f)} \subseteq open'
      BY <1>8, <2>3 DEF DriveClose, Performs
    <3>2. reader[Subject(f)] # "none"
      BY <3>1, Clearing DEF Teardown
    <3> QED BY <1>1, <2>1, <3>1, <3>2
  <2> QED BY <2>2, <2>3
<1>9. ASSUME NEW f \in Fibers, ReapReturns(f) PROVE g \in open' /\ reader'[g] = "none"
  <2>1. /\ child' = [child EXCEPT ![Subject(f)] = Process("reaped", NoJob)]
        /\ UNCHANGED <<open, reader>>
    BY <1>9 DEF ReapReturns
  <2>2. child[g].is = "forking"
    BY <1>1, <2>1, ProcessForm
  <2> QED BY <1>1, <2>1, <2>2
<1>10. CASE \E f \in Fibers : DriveSend(f) \/ DriveSettle(f) \/ DriveDrop(f) \/ DriveSkip(f)
  BY <1>3, <1>10 DEF DriveSend, DriveSettle, DriveDrop, DriveSkip, process
<1>11. CASE Start \/ Recover \/ (\E j \in Jobs : Submit(j)) \/ CloseStops \/ CloseKills
            \/ \E h \in Gens : Read(h) \/ LoseTask(h) \/ CloseDrains(h)
  BY <1>3, <1>11 DEF Start, Recover, Submit, CloseStops, CloseKills, Read, LoseTask, CloseDrains,
                     table, process
<1>12. CASE \E t \in tasks : SendTask(t)
  BY <1>3, <1>12 DEF SendTask
<1> QED BY <1>5, <1>6, <1>7, <1>8, <1>9, <1>10, <1>11, <1>12, Steps

\* Spawns that are asked for now were not asked for before.
LEMMA AsksSpawns ==
  ASSUME CoreInv, NEW n \in Nat, nextGen + n <= MaxGen
  PROVE  /\ SpawnsOnce(Spawns(n)) /\ DOMAIN Spawns(n) = 1..n
         /\ \A i \in 1..n : /\ Spawns(n)[i].kind = "SPAWN" /\ Spawns(n)[i].gen > nextGen
                            /\ Spawns(n)[i].gen <= nextGen + n /\ Spawns(n)[i].gen \in Gens
<1>1. /\ nextGen \in Nat /\ Spawns(n) \in Seq(Doable) /\ Len(Spawns(n)) = n
      /\ \A i \in 1..n : /\ Spawns(n)[i] = Effect("SPAWN", nextGen + i, NoJob)
                         /\ nextGen + i \in Gens
  BY SpawnsForm, LiveGens
<1>2. DOMAIN Spawns(n) = 1..n
  BY <1>1
<1>3. \A i \in 1..n : Spawns(n)[i].kind = "SPAWN" /\ Spawns(n)[i].gen = nextGen + i
  BY <1>1 DEF Effect
<1> QED BY <1>1, <1>2, <1>3 DEF SpawnsOnce

\* What is left does not spawn twice.
LEMMA TailOnce ==
  ASSUME DriverInv, NEW f \in Fibers, NEW kind, Heads(f, kind)
  PROVE  /\ SpawnsOnce(Tail(todo[f]))
         /\ \A i \in DOMAIN Tail(todo[f]) : Tail(todo[f])[i].kind = "SPAWN" =>
              Asks(f, Tail(todo[f])[i].gen)
         /\ kind = "SPAWN" => \A i \in DOMAIN Tail(todo[f]) :
              Tail(todo[f])[i].kind = "SPAWN" => Tail(todo[f])[i].gen # Subject(f)
<1> DEFINE s == todo[f]  t == Tail(todo[f])
<1>1. /\ 1 \in DOMAIN s /\ DOMAIN s = 1..Len(s) /\ Len(s) \in Nat \ {0} /\ s[1].kind = kind
      /\ Subject(f) = s[1].gen /\ DOMAIN t = 1..Len(t) /\ Len(t) = Len(s) - 1
      /\ \A i \in 1..Len(t) : i + 1 \in 1..Len(s) /\ t[i] = s[i + 1]
  BY First DEF DriverInv, TablesInv
<1>2. \A i, k \in DOMAIN s : s[i].kind = "SPAWN" /\ s[k].kind = "SPAWN" /\ s[i].gen = s[k].gen
        => i = k
  BY DEF DriverInv, TablesInv, SpawnInv
<1>3. \A i \in DOMAIN t : i \in Nat /\ i + 1 \in DOMAIN s /\ i + 1 # 1 /\ t[i] = s[i + 1]
  BY <1>1
<1>4. \A i \in DOMAIN t : t[i].kind = "SPAWN" => Asks(f, t[i].gen)
  BY <1>3 DEF Asks
<1> HIDE DEF s, t
<1>5. SpawnsOnce(t)
  <2> SUFFICES ASSUME NEW i \in DOMAIN t, NEW k \in DOMAIN t, t[i].kind = "SPAWN",
                      t[k].kind = "SPAWN", t[i].gen = t[k].gen
               PROVE  i = k
    BY DEF SpawnsOnce
  <2>1. i + 1 = k + 1
    BY <1>2, <1>3
  <2> QED BY <1>3, <2>1
<1>6. kind = "SPAWN" => \A i \in DOMAIN t : t[i].kind = "SPAWN" => t[i].gen # Subject(f)
  BY <1>1, <1>2, <1>3
<1> QED BY <1>4, <1>5, <1>6 DEF s, t

\* Two lists in a row that spawn different generations.
LEMMA ConcatOnce ==
  ASSUME NEW s \in Seq(Doable), NEW t \in Seq(Doable), SpawnsOnce(s), SpawnsOnce(t),
         \A i \in DOMAIN s, k \in DOMAIN t :
           s[i].kind = "SPAWN" /\ t[k].kind = "SPAWN" => s[i].gen # t[k].gen
  PROVE  /\ SpawnsOnce(s \o t)
         /\ \A i \in DOMAIN (s \o t) : \/ \E k \in DOMAIN s : (s \o t)[i] = s[k]
                                       \/ \E k \in DOMAIN t : (s \o t)[i] = t[k]
<1> DEFINE u == s \o t
<1>1. /\ u \in Seq(Doable) /\ DOMAIN s = 1..Len(s) /\ DOMAIN t = 1..Len(t)
      /\ DOMAIN u = 1..Len(u) /\ Len(s) \in Nat
  BY ConcatForm
<1>2. \A i \in 1..Len(u) : \/ i \in 1..Len(s) /\ u[i] = s[i]
                           \/ i - Len(s) \in 1..Len(t) /\ u[i] = t[i - Len(s)]
  BY ConcatForm
<1> HIDE DEF u
<1>3. \A i \in DOMAIN u : \/ i \in DOMAIN s /\ u[i] = s[i]
                          \/ i - Len(s) \in DOMAIN t /\ u[i] = t[i - Len(s)]
  BY <1>1, <1>2
<1>4. \A i \in DOMAIN u : (\E k \in DOMAIN s : u[i] = s[k]) \/ (\E k \in DOMAIN t : u[i] = t[k])
  BY <1>3
<1>5. SpawnsOnce(u)
  <2> SUFFICES ASSUME NEW i \in DOMAIN u, NEW k \in DOMAIN u, u[i].kind = "SPAWN",
                      u[k].kind = "SPAWN", u[i].gen = u[k].gen
               PROVE  i = k
    BY DEF SpawnsOnce
  <2>1. i \in Nat /\ k \in Nat
    BY <1>1
  <2>2. CASE i \in DOMAIN s /\ u[i] = s[i] /\ k \in DOMAIN s /\ u[k] = s[k]
    BY <2>2 DEF SpawnsOnce
  <2>3. CASE /\ i - Len(s) \in DOMAIN t /\ u[i] = t[i - Len(s)]
             /\ k - Len(s) \in DOMAIN t /\ u[k] = t[k - Len(s)]
    <3>1. i - Len(s) = k - Len(s)
      BY <2>3 DEF SpawnsOnce
    <3> QED BY <1>1, <2>1, <3>1
  <2> QED BY <1>3, <2>2, <2>3
<1> QED BY <1>4, <1>5 DEF u

\* Nothing new is asked for.
LEMMA SpawnShrinks ==
  ASSUME DriverInv, PoolNext,
         \A h \in Fibers : SpawnsOnce(todo'[h]),
         \A h \in Fibers, g \in Gens : Asks(h, g)' => Asks(h, g),
         \A g \in Gens : reader[g] = "none" => reader'[g] = "none"
  PROVE  SpawnInv'
<1>1. SpawnInv /\ nextGen \in Nat /\ nextGen' \in Nat /\ nextGen <= nextGen'
  BY CoreMoves DEF DriverInv, TablesInv
<1>2. \A g \in Gens : g \in Nat
  BY DEF Gens
<1>3. \A g \in Gens : g <= nextGen => g <= nextGen'
  BY <1>1, <1>2
<1>4. \A g \in Gens : reader'[g] # "none" => reader[g] # "none"
  OBVIOUS
<1>5. \A g \in Gens : child'[g].is = "forking" => g \in open' /\ reader'[g] = "none"
  BY ForkingKept
<1>6. \A h, k \in Fibers, g \in Gens : Asks(h, g)' /\ Asks(k, g)' => h = k
  BY <1>1 DEF SpawnInv
<1>7. \A h \in Fibers, g \in Gens : Asks(h, g)' => g <= nextGen' /\ reader'[g] = "none"
  BY <1>1, <1>3 DEF SpawnInv
<1>8. \A g \in Gens : reader'[g] # "none" => g <= nextGen'
  BY <1>1, <1>3, <1>4 DEF SpawnInv
<1>9. \A h \in Fibers : \A i, k \in DOMAIN todo'[h] :
        todo'[h][i].kind = "SPAWN" /\ todo'[h][k].kind = "SPAWN"
          /\ todo'[h][i].gen = todo'[h][k].gen => i = k
  BY DEF SpawnsOnce
<1> QED BY <1>5, <1>6, <1>7, <1>8, <1>9 DEF SpawnInv

\* What clears a slot away.
LEMMA DiscardKinds ==
  ASSUME NEW g \in Gens
  PROVE  /\ Discard(g) \in Seq(Doable) /\ DOMAIN Discard(g) = 1..4 /\ Len(Discard(g)) = 4
         /\ \A i \in 1..4 : Discard(g)[i].kind \in Teardown /\ Discard(g)[i].gen = g
<1>1. \A k, j : Effect(k, g, j).kind = k /\ Effect(k, g, j).gen = g
  BY DEF Effect
<1>2. /\ Discard(g)[1].kind = "DROP" /\ Discard(g)[2].kind = "CLOSE_CONTROL"
      /\ Discard(g)[3].kind = "CLOSE_DEATH" /\ Discard(g)[4].kind = "REAP"
      /\ Discard(g)[1].gen = g /\ Discard(g)[2].gen = g
      /\ Discard(g)[3].gen = g /\ Discard(g)[4].gen = g
  BY <1>1, DiscardForm
<1>3. \A i \in 1..4 : i = 1 \/ i = 2 \/ i = 3 \/ i = 4
  OBVIOUS
<1>4. \A i \in 1..4 : Discard(g)[i].kind \in Teardown /\ Discard(g)[i].gen = g
  BY <1>2, <1>3 DEF Teardown
<1> QED BY <1>4, DiscardForm

\* The child is entered: its generation is not asked for again.
LEMMA SpawnEntered ==
  ASSUME DriverInv, PoolNext, NEW f \in Fibers, SpawnSucceeds(f), NEW g \in Gens,
         Subject(f) = g
  PROVE  SpawnInv'
<1> DEFINE u == Tail(todo[f])
<1>1. /\ Heads(f, "SPAWN") /\ reader' = [reader EXCEPT ![g] = "reading"]
      /\ g \in Gens /\ Entered(f, g) /\ Asks(f, g) /\ g <= nextGen
  BY EnteredForm, Spawning DEF SpawnSucceeds, Resumes
<1>2. /\ u \in Seq(Doable) /\ SpawnsOnce(u) /\ CoreInv
      /\ \A i \in DOMAIN u : u[i].kind = "SPAWN" => Asks(f, u[i].gen) /\ u[i].gen # g
  BY <1>1, First, TailOnce DEF DriverInv, TablesInv
<1>3. /\ todo \in [Fibers -> Seq(Doable)]
      /\ \A h \in Gens : Asks(f, h) => h <= nextGen
      /\ reader \in [Gens -> {"none", "reading", "done"}]
  BY DEF DriverInv, TablesInv, PoolTypes, EventTypes, SpawnInv, TableTypes
<1> HIDE DEF u
<1>4. \A h \in Gens : h \in Nat
  BY DEF Gens
<1>5. \A i \in DOMAIN u : u[i].kind = "SPAWN" => u[i].gen \in Gens
  BY <1>2, SubjectGen
<1>6. nextGen \in Nat /\ nextGen' \in Nat /\ nextGen <= nextGen'
  BY CoreMoves
<1>7. ASSUME NEW x \in Seq(Doable), SpawnsOnce(x), todo' = [todo EXCEPT ![f] = u \o x],
             \A i \in DOMAIN x : x[i].kind = "SPAWN" =>
               x[i].gen \in Gens /\ x[i].gen > nextGen /\ x[i].gen <= nextGen'
      PROVE  SpawnInv'
  <2>1. todo'[f] = u \o x /\ \A h \in Fibers : h # f => todo'[h] = todo[h]
    BY <1>3, <1>7
  <2>2. \A i \in DOMAIN u, k \in DOMAIN x :
          u[i].kind = "SPAWN" /\ x[k].kind = "SPAWN" => u[i].gen # x[k].gen
    <3> SUFFICES ASSUME NEW i \in DOMAIN u, NEW k \in DOMAIN x, u[i].kind = "SPAWN",
                        x[k].kind = "SPAWN"
                 PROVE  u[i].gen # x[k].gen
      OBVIOUS
    <3>1. u[i].gen \in Gens /\ u[i].gen <= nextGen /\ x[k].gen \in Gens /\ x[k].gen > nextGen
      BY <1>2, <1>3, <1>5, <1>7
    <3> QED BY <1>4, <1>6, <3>1
  <2>3. /\ SpawnsOnce(u \o x)
        /\ \A i \in DOMAIN (u \o x) : \/ \E k \in DOMAIN u : (u \o x)[i] = u[k]
                                      \/ \E k \in DOMAIN x : (u \o x)[i] = x[k]
    BY <1>2, <1>7, <2>2, ConcatOnce
  <2>4. \A h \in Gens : Asks(f, h)' => \/ Asks(f, h) /\ h # g
                                       \/ h > nextGen /\ h <= nextGen'
    <3>1. \A h : Asks(f, h)' => \E i \in DOMAIN (u \o x) :
                                  (u \o x)[i].kind = "SPAWN" /\ (u \o x)[i].gen = h
      BY <2>1 DEF Asks
    <3> QED BY <1>2, <1>7, <2>3, <3>1
  <2>5. ~Asks(f, g)'
    BY <1>1, <1>4, <1>6, <2>4
  <2>6. \A h \in Gens : reader[h] = "none" /\ reader'[h] # "none" => h = g
    BY <1>1, <1>3
  <2>7. \A h \in Gens : child'[h].is = "forking" => h \in open' /\ reader'[h] = "none"
    BY ForkingKept
  <2> QED BY <1>1, <2>1, <2>3, <2>4, <2>5, <2>6, <2>7, SpawnKept
<1>8. ASSUME NEW n \in Nat, nextGen' = nextGen + n, nextGen' <= MaxGen,
             todo' = [todo EXCEPT ![f] = u \o Spawns(n)]
      PROVE  SpawnInv'
  BY <1>2, <1>7, <1>8, AsksSpawns, SpawnsForm
<1>9. CASE todo' = [todo EXCEPT ![f] = u \o Discard(g)]
  <2>1. /\ DOMAIN Discard(g) = 1..4 /\ Discard(g) \in Seq(Doable)
        /\ \A i \in 1..4 : Discard(g)[i].kind # "SPAWN"
    BY <1>1, DiscardKinds DEF Teardown
  <2>2. SpawnsOnce(Discard(g))
    BY <2>1 DEF SpawnsOnce
  <2> QED BY <1>7, <1>9, <2>1, <2>2
<1> QED BY <1>1, <1>8, <1>9 DEF Entered, u

\* What clears a slot away.
LEMMA LossKinds ==
  ASSUME CoreInv, NEW g \in Gens, fdOf[g] \in Fds
  PROVE  /\ \A i \in DOMAIN LossEffects(g) :
              LossEffects(g)[i].kind \in Teardown \cup {"FAIL"} /\ LossEffects(g)[i].gen = g
         /\ LossEffects(g) # <<>>
<1>1. /\ LossEffects(g) \in Seq(Doable) /\ Len(LossEffects(g)) \in {4, 5}
      /\ \A i \in 1..4 : LossEffects(g)[i].kind \in Teardown /\ LossEffects(g)[i].gen = g
      /\ Len(LossEffects(g)) = 5 =>
           LossEffects(g)[5].kind = "FAIL" /\ LossEffects(g)[5].gen = g
  <2>1. \A k, j : Effect(k, g, j).kind = k /\ Effect(k, g, j).gen = g
    BY DEF Effect
  <2>2. \A i \in 1..4 : i = 1 \/ i = 2 \/ i = 3 \/ i = 4
    OBVIOUS
  <2> HIDE DEF LossEffects
  <2> QED BY <2>1, <2>2, LossForm DEF Teardown
<1> HIDE DEF LossEffects
<1>2. DOMAIN LossEffects(g) = 1..Len(LossEffects(g))
  BY <1>1
<1>3. \A i \in DOMAIN LossEffects(g) : i \in 1..4 \/ (i = 5 /\ Len(LossEffects(g)) = 5)
  BY <1>1, <1>2
<1>4. LossEffects(g) # <<>>
  BY <1>1
<1> QED BY <1>1, <1>3, <1>4

\* Plain effects, and those that clear a slot away, spawn nothing.
LEMMA SpawnLess ==
  ASSUME NEW f \in Fibers, NEW s, \A i \in DOMAIN s : s[i].kind # "SPAWN",
         todo \in [Fibers -> Seq(Doable)], todo' = [todo EXCEPT ![f] = s]
  PROVE  /\ \A h \in Fibers : h # f => todo'[h] = todo[h]
         /\ SpawnsOnce(todo'[f]) /\ \A g : ~Asks(f, g)'
<1>1. todo'[f] = s /\ \A h \in Fibers : h # f => todo'[h] = todo[h]
  OBVIOUS
<1> QED BY <1>1 DEF SpawnsOnce, Asks

\* No generation is asked for twice.
LEMMA SpawnStep ==
  ASSUME DriverInv, PoolNext
  PROVE  SpawnInv'
<1>1. /\ todo \in [Fibers -> Seq(Doable)] /\ SpawnInv /\ CoreInv
      /\ reader \in [Gens -> {"none", "reading", "done"}]
  BY DEF DriverInv, TablesInv, PoolTypes, EventTypes, TableTypes
<1>2. CASE \E f \in Fibers : SpawnSucceeds(f)
  BY <1>2, SpawnEntered, EnteredForm
<1>3. CASE ~\E f \in Fibers : SpawnSucceeds(f)
  <2>1. \A g \in Gens : reader[g] = "none" => reader'[g] = "none"
    BY <1>3, ReadersStay
  <2>2. \A g \in Gens : child'[g].is = "forking" => g \in open' /\ reader'[g] = "none"
    BY ForkingKept
  <2>3. \A f \in Fibers : SpawnsOnce(todo[f])
    BY <1>1 DEF SpawnInv, SpawnsOnce
  <2>4. CASE UNCHANGED todo
    <3>1. \A f \in Fibers, g \in Gens : Asks(f, g)' => Asks(f, g)
      BY <2>4 DEF Asks
    <3> QED BY <2>1, <2>3, <2>4, <3>1, SpawnShrinks
  <2>5. ASSUME NEW f \in Fibers, NEW kind, Heads(f, kind),
               todo' = [todo EXCEPT ![f] = Tail(todo[f])]
        PROVE  SpawnInv'
    <3>1. todo'[f] = Tail(todo[f]) /\ \A h \in Fibers : h # f => todo'[h] = todo[h]
      BY <1>1, <2>5
    <3>2. SpawnsOnce(todo'[f])
      BY <2>5, <3>1, TailOnce
    <3>3. \A g \in Gens : Asks(f, g)' => Asks(f, g)
      BY <2>5, <3>1, TailOnce DEF Asks
    <3> QED BY <2>1, <2>2, <3>1, <3>2, <3>3, SpawnKept
  <2>6. ASSUME NEW f \in Fibers, Fills(f) PROVE SpawnInv'
    <3>1. PICK n \in Nat : /\ nextGen' = nextGen + n /\ nextGen' <= MaxGen
                           /\ todo' = [todo EXCEPT ![f] = Spawns(n)]
      BY <2>6 DEF Fills
    <3>2. todo'[f] = Spawns(n) /\ \A h \in Fibers : h # f => todo'[h] = todo[h]
      BY <1>1, <3>1
    <3>3. /\ SpawnsOnce(Spawns(n)) /\ DOMAIN Spawns(n) = 1..n
          /\ \A i \in 1..n : Spawns(n)[i].gen > nextGen /\ Spawns(n)[i].gen <= nextGen'
      BY <1>1, <3>1, AsksSpawns
    <3>4. \A g \in Gens : Asks(f, g)' => g > nextGen /\ g <= nextGen'
      BY <3>2, <3>3 DEF Asks
    <3> QED BY <2>1, <2>2, <3>2, <3>3, <3>4, SpawnKept
  <2>7. ASSUME NEW f \in Fibers, NEW s, \A i \in DOMAIN s : s[i].kind # "SPAWN",
               todo' = [todo EXCEPT ![f] = s]
        PROVE  SpawnInv'
    <3>1. /\ \A h \in Fibers : h # f => todo'[h] = todo[h]
          /\ SpawnsOnce(todo'[f]) /\ \A g : ~Asks(f, g)'
      BY <1>1, <2>7, SpawnLess
    <3> QED BY <2>1, <2>2, <3>1, SpawnKept
  <2>8. ASSUME NEW f \in Fibers, NEW g \in Gens, Clearance(f, g) PROVE SpawnInv'
    <3>1. fdOf[g] \in Fds /\ todo' = [todo EXCEPT ![f] = LossEffects(g)]
      BY <2>8 DEF Clearance
    <3>2. \A i \in DOMAIN LossEffects(g) : LossEffects(g)[i].kind # "SPAWN"
      <4>1. \A i \in DOMAIN LossEffects(g) : LossEffects(g)[i].kind \in Teardown \cup {"FAIL"}
        BY <1>1, <3>1, LossKinds
      <4> QED BY <4>1 DEF Teardown
    <3> QED BY <2>7, <3>1, <3>2
  <2>9. CASE CloseKills
    <3>1. \A h \in Fibers : \/ todo'[h] = todo[h] \/ todo'[h] = <<>>
                            \/ \A i \in DOMAIN todo'[h] : todo'[h][i].kind = "KILL"
      BY <2>9, KillsForm
    <3>2. \A h \in Fibers : SpawnsOnce(todo'[h])
      BY <2>3, <3>1 DEF SpawnsOnce
    <3>3. \A h \in Fibers, g \in Gens : Asks(h, g)' => Asks(h, g)
      BY <3>1 DEF Asks
    <3> QED BY <2>1, <3>2, <3>3, SpawnShrinks
  <2>10. ASSUME NEW f \in Fibers, NEW s, Plain(s), todo' = [todo EXCEPT ![f] = s]
         PROVE  SpawnInv'
    BY <2>7, <2>10 DEF Plain
  <2> QED BY <1>3, <2>4, <2>5, <2>6, <2>8, <2>9, <2>10, Shapes
<1> QED BY <1>2, <1>3

\* What is cleared away stays given up.
LEMMA GoneKept ==
  ASSUME DriverInv, PoolNext,
         \A f \in Fibers, g \in Gens :
           Clears(f, g)' => Clears(f, g) \/ (Gone(g)' /\ reader'[g] # "none")
  PROVE  GoneInv'
<1>1. \A f \in Fibers, g \in Gens : Clears(f, g) => Gone(g) /\ reader[g] # "none"
  BY DEF DriverInv, TablesInv, GoneInv
<1>2. \A g \in Gens : Gone(g) => Gone(g)'
  BY GoneStays
<1>3. \A g \in Gens : reader[g] # "none" => reader'[g] # "none"
  BY ReadersStay
<1> QED BY <1>1, <1>2, <1>3 DEF GoneInv

\* What is left to clear away was there before.
LEMMA TailClears ==
  ASSUME DriverInv, NEW f \in Fibers, NEW kind, Heads(f, kind)
  PROVE  \A i \in DOMAIN Tail(todo[f]) : \E k \in DOMAIN todo[f] : Tail(todo[f])[i] = todo[f][k]
BY First DEF DriverInv, TablesInv

\* The child that is entered is discarded, if nobody waits for it.
LEMMA GoneEntered ==
  ASSUME DriverInv, PoolNext, NEW f \in Fibers, SpawnSucceeds(f), NEW g \in Gens,
         Subject(f) = g
  PROVE  GoneInv'
<1> DEFINE u == Tail(todo[f])
<1>1. /\ Heads(f, "SPAWN") /\ reader' = [reader EXCEPT ![g] = "reading"]
      /\ Entered(f, g) /\ g <= nextGen /\ reader[g] = "none"
  BY EnteredForm, Spawning DEF SpawnSucceeds, Resumes
<1>2. /\ u \in Seq(Doable) /\ CoreInv
      /\ \A i \in DOMAIN u : \E k \in DOMAIN todo[f] : u[i] = todo[f][k]
  BY <1>1, First, TailClears DEF DriverInv, TablesInv
<1>3. /\ todo \in [Fibers -> Seq(Doable)] /\ PlaceInv
      /\ reader \in [Gens -> {"none", "reading", "done"}]
  BY DEF DriverInv, TablesInv, PoolTypes, EventTypes, TableTypes
<1> HIDE DEF u
<1>4. ASSUME NEW x \in Seq(Doable), todo' = [todo EXCEPT ![f] = u \o x]
      PROVE  \A h \in Fibers, k \in Gens : Clears(h, k)' =>
               Clears(h, k) \/ \E i \in DOMAIN x : x[i].kind \in Teardown /\ x[i].gen = k
  <2>1. todo'[f] = u \o x /\ \A h \in Fibers : h # f => todo'[h] = todo[h]
    BY <1>3, <1>4
  <2>2. \A i \in DOMAIN (u \o x) : \/ \E k \in DOMAIN u : (u \o x)[i] = u[k]
                                   \/ \E k \in DOMAIN x : (u \o x)[i] = x[k]
    <3>1. /\ DOMAIN u = 1..Len(u) /\ DOMAIN x = 1..Len(x) /\ DOMAIN (u \o x) = 1..Len(u \o x)
          /\ \A i \in 1..Len(u \o x) : \/ i \in 1..Len(u) /\ (u \o x)[i] = u[i]
                                       \/ i - Len(u) \in 1..Len(x) /\ (u \o x)[i] = x[i - Len(u)]
      BY <1>2, ConcatForm
    <3> QED BY <3>1
  <2>3. \A k \in Gens : Clears(f, k)' => \E i \in DOMAIN (u \o x) :
                          (u \o x)[i].kind \in Teardown /\ (u \o x)[i].gen = k
    BY <2>1 DEF Clears
  <2>4. \A h \in Fibers, k \in Gens : h # f => (Clears(h, k)' <=> Clears(h, k))
    BY <2>1 DEF Clears
  <2>5. \A k \in Gens : (\E i \in DOMAIN u : u[i].kind \in Teardown /\ u[i].gen = k) => Clears(f, k)
    BY <1>2 DEF Clears
  <2>6. \A k \in Gens : Clears(f, k)' =>
          Clears(f, k) \/ \E i \in DOMAIN x : x[i].kind \in Teardown /\ x[i].gen = k
    BY <2>2, <2>3, <2>5
  <2> QED BY <2>4, <2>6
<1>5. ASSUME NEW n \in Nat, nextGen' = nextGen + n, nextGen' <= MaxGen,
             todo' = [todo EXCEPT ![f] = u \o Spawns(n)]
      PROVE  GoneInv'
  <2>1. /\ Spawns(n) \in Seq(Doable) /\ DOMAIN Spawns(n) = 1..n
        /\ \A i \in 1..n : Spawns(n)[i].kind = "SPAWN"
    BY <1>2, <1>5, AsksSpawns, SpawnsForm
  <2>2. \A h \in Fibers, k \in Gens : Clears(h, k)' => Clears(h, k)
    BY <1>4, <1>5, <2>1 DEF Teardown
  <2> QED BY <2>2, GoneKept
<1>6. ASSUME UNCHANGED <<slots, nextGen>>, pendingSpawns' = pendingSpawns \ {g},
             todo' = [todo EXCEPT ![f] = u \o Discard(g)]
      PROVE  GoneInv'
  <2>1. /\ Discard(g) \in Seq(Doable) /\ DOMAIN Discard(g) = 1..4
        /\ \A i \in 1..4 : Discard(g)[i].gen = g
    BY DiscardKinds
  <2>2. \A h \in Fibers, k \in Gens : Clears(h, k)' => Clears(h, k) \/ k = g
    BY <1>4, <1>6, <2>1
  <2>3. \A d \in Fds : slots[d].gen # g
    BY <1>1, <1>2, <1>3, LiveGens DEF PlaceInv, Gens
  <2>4. Gone(g)' /\ reader'[g] # "none"
    BY <1>1, <1>3, <1>6, <2>3 DEF Gone
  <2> QED BY <2>2, <2>4, GoneKept
<1> QED BY <1>1, <1>5, <1>6 DEF Entered, u

\* What is cleared away is not in use.
LEMMA GoneStep ==
  ASSUME DriverInv, PoolNext
  PROVE  GoneInv'
<1>1. /\ todo \in [Fibers -> Seq(Doable)] /\ CoreInv
  BY DEF DriverInv, TablesInv, PoolTypes, EventTypes
<1>2. CASE \E f \in Fibers : SpawnSucceeds(f)
  BY <1>2, GoneEntered, EnteredForm
<1>3. CASE UNCHANGED todo
  <2>1. \A f \in Fibers, g \in Gens : Clears(f, g)' => Clears(f, g)
    BY <1>3 DEF Clears
  <2> QED BY <2>1, GoneKept
<1>4. ASSUME NEW f \in Fibers, NEW kind, Heads(f, kind),
             todo' = [todo EXCEPT ![f] = Tail(todo[f])]
      PROVE  GoneInv'
  <2>1. todo'[f] = Tail(todo[f]) /\ \A h \in Fibers : h # f => todo'[h] = todo[h]
    BY <1>1, <1>4
  <2>2. \A i \in DOMAIN todo'[f] : \E k \in DOMAIN todo[f] : todo'[f][i] = todo[f][k]
    BY <1>4, <2>1, TailClears
  <2>3. \A g \in Gens : Clears(f, g)' => Clears(f, g)
    BY <2>2 DEF Clears
  <2>4. \A h \in Fibers, g \in Gens : h # f => (Clears(h, g)' => Clears(h, g))
    BY <2>1 DEF Clears
  <2> QED BY <2>3, <2>4, GoneKept
<1>5. ASSUME NEW f \in Fibers, NEW s, todo' = [todo EXCEPT ![f] = s],
             \A i \in DOMAIN s : s[i].kind \notin Teardown
      PROVE  GoneInv'
  <2>1. todo'[f] = s /\ \A h \in Fibers : h # f => todo'[h] = todo[h]
    BY <1>1, <1>5
  <2>2. \A h \in Fibers, g \in Gens : Clears(h, g)' => Clears(h, g)
    BY <1>5, <2>1 DEF Clears
  <2> QED BY <2>2, GoneKept
<1>6. ASSUME NEW f \in Fibers, Fills(f) PROVE GoneInv'
  <2>1. PICK n \in Nat : /\ nextGen' = nextGen + n /\ nextGen' <= MaxGen
                         /\ todo' = [todo EXCEPT ![f] = Spawns(n)]
    BY <1>6 DEF Fills
  <2>2. \A i \in DOMAIN Spawns(n) : Spawns(n)[i].kind = "SPAWN"
    BY <1>1, <2>1, AsksSpawns
  <2> QED BY <1>5, <2>1, <2>2 DEF Teardown
<1>7. ASSUME NEW f \in Fibers, NEW s, Plain(s), todo' = [todo EXCEPT ![f] = s]
      PROVE  GoneInv'
  BY <1>5, <1>7 DEF Plain, Teardown
<1>8. ASSUME NEW f \in Fibers, NEW g \in Gens, Clearance(f, g) PROVE GoneInv'
  <2>1. /\ fdOf[g] \in Fds /\ todo' = [todo EXCEPT ![f] = LossEffects(g)]
        /\ reader[g] # "none" /\ Gone(g)'
    BY <1>8, LosesGone DEF Clearance
  <2>2. todo'[f] = LossEffects(g) /\ \A h \in Fibers : h # f => todo'[h] = todo[h]
    BY <1>1, <2>1
  <2>3. \A i \in DOMAIN todo'[f] : todo'[f][i].gen = g
    BY <1>1, <2>1, <2>2, LossKinds
  <2>4. \A h \in Fibers, k \in Gens : Clears(h, k)' => Clears(h, k) \/ k = g
    BY <2>2, <2>3 DEF Clears
  <2>5. reader'[g] # "none"
    BY <2>1, ReadersStay
  <2> QED BY <2>1, <2>4, <2>5, GoneKept
<1>9. CASE CloseKills
  <2>1. \A h \in Fibers : \/ todo'[h] = todo[h] \/ todo'[h] = <<>>
                          \/ \A i \in DOMAIN todo'[h] : todo'[h][i].kind = "KILL"
    BY <1>9, KillsForm
  <2>2. \A h \in Fibers, g \in Gens : Clears(h, g)' => Clears(h, g)
    BY <2>1 DEF Clears, Teardown
  <2> QED BY <2>2, GoneKept
<1> QED BY <1>2, <1>3, <1>4, <1>6, <1>7, <1>8, <1>9, Shapes

-----------------------------------------------------------------------------
(* How far close() is                                                        *)

\* How far close() goes in a step.
LEMMA LifeMoves ==
  ASSUME DriverInv, PoolNext
  PROVE  /\ closing => closing'
         /\ \/ UNCHANGED <<closer, waited, coreClosing>>
            \/ UNCHANGED <<waited, core>> /\ closer = "no" /\ closer' = "called" /\ closing'
            \/ CloseStops \/ CloseStopped \/ CloseKills \/ CloseKilled \/ CloseEnds
            \/ \E g \in Gens : CloseDrains(g)
<1> DEFINE G == \/ UNCHANGED <<closer, waited, coreClosing>>
                \/ UNCHANGED <<waited, core>> /\ closer = "no" /\ closer' = "called" /\ closing'
                \/ CloseStops \/ CloseStopped \/ CloseKills \/ CloseKilled \/ CloseEnds
                \/ \E g \in Gens : CloseDrains(g)
           H == (closing => closing') /\ G
<1> SUFFICES H
  OBVIOUS
<1>1. ASSUME closing => closing', UNCHANGED <<closer, waited, coreClosing>> PROVE H
  BY <1>1
<1>2. ASSUME closing => closing', UNCHANGED <<waited, core>>, closer = "no", closer' = "called",
             closing' PROVE H
  BY <1>2
<1>3. ASSUME closing => closing', \/ CloseStops \/ CloseStopped \/ CloseKills \/ CloseKilled
                                  \/ CloseEnds \/ \E g \in Gens : CloseDrains(g) PROVE H
  BY <1>3
<1> HIDE DEF H
<1>4. CASE Elsewhere
  <2>1. UNCHANGED core
    BY <1>4, ElsewhereForm
  <2>2. \/ UNCHANGED life \/ StartDriven \/ StartReady \/ StartRaises \/ Close
        \/ CloseStopped \/ CloseKilled \/ CloseEnds
    BY <1>4 DEF Elsewhere, SubmitDriven, RecoverDriven, ReadDriven, LoseDriven, SendDriven,
                DriveSpawn, CancelReader, DriveReap
  <2>3. CASE UNCHANGED life \/ StartDriven \/ StartReady
    BY <1>1, <2>1, <2>3 DEF life, core, StartDriven, StartReady
  <2>4. CASE StartRaises \/ Close
    BY <1>1, <1>2, <2>1, <2>4 DEF StartRaises, Close, core
  <2>5. CASE CloseStopped \/ CloseKilled \/ CloseEnds
    BY <1>3, <2>5 DEF CloseStopped, CloseKilled, CloseEnds
  <2> QED BY <2>2, <2>3, <2>4, <2>5
<1>5. CASE Children
  BY <1>1, <1>5, ChildrenForm DEF life, core
<1>6. CASE \E f \in Fibers : \/ DriveSend(f) \/ DriveSettle(f) \/ DriveDrop(f) \/ DriveClose(f)
                             \/ ReapReturns(f) \/ DriveSkip(f)
  BY <1>1, <1>6 DEF DriveSend, DriveSettle, DriveDrop, DriveClose, ReapReturns, DriveSkip, life,
                    core
<1>7. ASSUME NEW f \in Fibers, SpawnSucceeds(f) \/ SpawnFails(f) PROVE H
  BY <1>1, <1>7 DEF SpawnSucceeds, SpawnFails, CoreSpawned, CoreSpawnFailed, life
<1>8. CASE Start
  BY <1>1, <1>8 DEF Start, CoreFill
<1>9. CASE Recover
  BY <1>1, <1>9, RecoverForm DEF CoreFill, life, core
<1>10. ASSUME NEW j \in Jobs, Submit(j) PROVE H
  BY <1>1, <1>10 DEF Submit, CoreSubmit, life
<1>11. ASSUME NEW g \in Gens, Read(g) PROVE H
  <2>1. UNCHANGED life
    BY <1>11 DEF Read
  <2>2. UNCHANGED coreClosing
    BY <1>11, ReadForm DEF Readies, Results, Loses, core
  <2> QED BY <1>1, <2>1, <2>2 DEF life
<1>12. ASSUME NEW g \in Gens, LoseTask(g) PROVE H
  <2>1. UNCHANGED coreClosing /\ UNCHANGED life
    BY <1>12, LoseTaskForm DEF Loses, core, LoseTask
  <2> QED BY <1>1, <2>1 DEF life
<1>13. ASSUME NEW t \in tasks, SendTask(t) PROVE H
  <2>1. UNCHANGED coreClosing /\ UNCHANGED life
    BY <1>13, SendForm DEF Loses, core, SendTask
  <2> QED BY <1>1, <2>1 DEF life
<1>14. CASE CloseStops \/ CloseKills \/ \E g \in Gens : CloseDrains(g)
  BY <1>3, <1>14 DEF CloseStops, CloseKills, CloseDrains
<1> QED BY <1>4, <1>5, <1>6, <1>7, <1>8, <1>9, <1>10, <1>11, <1>12, <1>13, <1>14, Steps

\* The slots after a step: those with a generation are in use.
LEMMA LiveNext ==
  ASSUME DriverInv, PoolNext
  PROVE  /\ \A d \in Fds : slots'[d] # NoSlot => slots'[d].gen \in Gens /\ slots'[d].gen # 0
         /\ coreClosing => \A d \in Fds : slots'[d] # NoSlot =>
              slots[d] # NoSlot /\ slots'[d].gen = slots[d].gen
<1>1. /\ nextGen' \in 0..MaxGen /\ MaxGen \in Nat
      /\ \A d \in Fds : slots'[d] # NoSlot => slots'[d].gen \in 1..nextGen'
  BY CoreNext, CoreAssumption DEF CoreInv, GensInv, LiveIn
<1>2. \A d \in Fds : slots'[d] # NoSlot => slots'[d].gen \in Gens /\ slots'[d].gen # 0
  BY <1>1 DEF Gens
<1>3. coreClosing => \A d \in Fds : slots'[d].gen \in {slots[d].gen, 0}
  BY CoreMoves DEF DriverInv, CoreInv
<1>4. CoreInv /\ NoSlot.gen = 0
  BY LiveGens DEF DriverInv
<1> QED BY <1>2, <1>3, <1>4

\* How far close() is.
LEMMA PhaseStep ==
  ASSUME DriverInv, PoolNext
  PROVE  PhaseInv'
<1>1. PhaseInv /\ PlaceInv /\ CoreInv
  BY DEF DriverInv, TablesInv
<1>2. ASSUME closing => closing', UNCHANGED <<closer, waited, coreClosing>> PROVE PhaseInv'
  <2>1. /\ (coreClosing' <=> closer' \notin {"no", "called"}) /\ (closer' # "no" => closing')
    BY <1>1, <1>2 DEF PhaseInv
  <2>2. closer' = "draining" => \A f \in Fds : slots'[f] # NoSlot => slots'[f].gen \in waited'
    BY <1>1, <1>2, LiveNext DEF PhaseInv
  <2>3. closer' = "closed" => \A f \in Fds : slots'[f] = NoSlot
    BY <1>1, <1>2, LiveNext DEF PhaseInv
  <2> QED BY <2>1, <2>2, <2>3 DEF PhaseInv
<1>3. ASSUME closing', UNCHANGED <<waited, core>>, closer = "no", closer' = "called"
      PROVE  PhaseInv'
  BY <1>1, <1>3 DEF PhaseInv, core
<1>4. CASE CloseStops
  <2>1. closer' = "stopping" /\ coreClosing' /\ closing' /\ closing' = closing
    BY <1>1, <1>4, StopsForm DEF CloseStops, PhaseInv
  <2> QED BY <2>1 DEF PhaseInv
<1>5. CASE CloseStopped \/ CloseKills
  <2>1. /\ closer \in {"stopping", "waiting"} /\ closer' \in {"waiting", "killing"}
        /\ UNCHANGED <<closing, coreClosing>>
    BY <1>5, KillsForm DEF CloseStopped, CloseKills, core
  <2> QED BY <1>1, <2>1 DEF PhaseInv
<1>6. CASE CloseKilled
  <2>1. /\ closer = "killing" /\ closer' = "draining" /\ UNCHANGED <<closing, core>>
        /\ waited' = Slotted
    BY <1>6 DEF CloseKilled
  <2>2. \A d \in Fds : slots[d] # NoSlot => slots[d].gen \in Slotted
    BY <1>1, LiveGens, CoreAssumption DEF PlaceInv, Slotted, InSlots
  <2> QED BY <1>1, <2>1, <2>2 DEF PhaseInv, core
<1>7. ASSUME NEW g \in Gens, CloseDrains(g) PROVE PhaseInv'
  <2>1. /\ closer = "draining" /\ closer' = "draining" /\ waited' = waited \ {g}
        /\ fdOf[g] \in Fds /\ Loses(Closer, g) /\ UNCHANGED <<closing, coreClosing>>
    BY <1>7, DrainForm DEF CloseDrains, Loses
  <2>2. \A d \in Fds : slots'[d] # NoSlot => slots[d] = slots'[d] /\ slots[d].gen # g
    <3>1. slots \in [Fds -> SlotSet] /\ g # 0
      BY <1>1, LiveGens DEF Gens
    <3>2. \A d \in Fds : slots[d] # NoSlot /\ slots[d].gen = g => d = fdOf[g]
      BY <1>1 DEF PlaceInv
    <3>3. CASE slots' = [slots EXCEPT ![fdOf[g]] = NoSlot]
      BY <2>1, <3>1, <3>2, <3>3
    <3>4. CASE slots[fdOf[g]].gen # g /\ UNCHANGED slots
      BY <3>2, <3>4
    <3> QED BY <2>1, <3>3, <3>4 DEF Loses
  <2> QED BY <1>1, <2>1, <2>2 DEF PhaseInv
<1>8. CASE CloseEnds
  <2>1. /\ closer = "draining" /\ closer' = "closed" /\ waited = {}
        /\ UNCHANGED <<closing, core, waited>>
    BY <1>8 DEF CloseEnds
  <2> QED BY <1>1, <2>1 DEF PhaseInv, core
<1> QED BY <1>2, <1>3, <1>4, <1>5, <1>6, <1>7, <1>8, LifeMoves

-----------------------------------------------------------------------------
(* Every slot is in its place                                                *)

\* The fiber a step runs: one that has something to do, or that an event begins.
Begins(f) ==
  \/ f \in {Starter, Closer, Submitter} \cup Recoverers
  \/ \E g \in Gens : f \in {Sender(g), Loser(g)} \/ (f = Reader(g) /\ Read(g))

\* The step runs fiber f, and changes what no other fiber has to do.
RunsOnly(f) ==
  /\ turn' = f /\ (todo[f] # <<>> \/ Begins(f))
  /\ \A h \in Fibers : h # f => todo'[h] = todo[h]

\* Only the fiber that runs has its effects changed.
LEMMA Turns ==
  ASSUME DriverInv, PoolNext
  PROVE  \/ turn' \in {turn, Loop} /\ UNCHANGED todo
         \/ \E f \in Fibers : RunsOnly(f)
         \/ CloseKills
<1> DEFINE G == \/ turn' \in {turn, Loop} /\ UNCHANGED todo
                \/ \E f \in Fibers : RunsOnly(f)
                \/ CloseKills
<1> SUFFICES G
  OBVIOUS
<1>1. CASE turn' \in {turn, Loop} /\ UNCHANGED todo
  BY <1>1
<1>2. ASSUME NEW f \in Fibers, todo[f] # <<>> \/ Begins(f), turn' = f, NEW s,
             todo' = [todo EXCEPT ![f] = s]
      PROVE  G
  <2>1. todo = [h \in Fibers |-> todo[h]]
    BY DEF DriverInv, TablesInv, PoolTypes, EventTypes
  <2>2. RunsOnly(f)
    BY <1>2, <2>1 DEF RunsOnly
  <2> QED BY <2>2
<1>3. CASE CloseKills
  BY <1>3
<1> HIDE DEF G
<1>4. CASE Elsewhere
  <2>1. turn' \in {turn, Loop}
    BY <1>4 DEF Elsewhere, StartDriven, StartReady, StartRaises, SubmitDriven, Close,
                RecoverDriven, ReadDriven, LoseDriven, SendDriven, CloseStopped, CloseKilled,
                CloseEnds, DriveSpawn, CancelReader, DriveReap, event, Returns
  <2> QED BY <1>1, <1>4, <2>1, ElsewhereForm
<1>5. CASE Children
  BY <1>1, <1>5, ChildrenForm DEF event
<1>6. ASSUME NEW f \in Fibers, \/ DriveSend(f) \/ DriveSettle(f) \/ DriveDrop(f)
                               \/ DriveClose(f) \/ ReapReturns(f) \/ DriveSkip(f)
      PROVE  G
  <2>1. turn' = f /\ todo' = [todo EXCEPT ![f] = Tail(todo[f])] /\ todo[f] # <<>>
    BY <1>6, Pops DEF Heads
  <2> QED BY <1>2, <2>1
<1>7. ASSUME NEW f \in Fibers, SpawnSucceeds(f) PROVE G
  <2>1. todo[f] # <<>>
    BY <1>7 DEF SpawnSucceeds, Resumes, Heads
  <2> QED BY <1>2, <1>7, <2>1, EnteredForm DEF Entered
<1>8. ASSUME NEW f \in Fibers, SpawnFails(f) PROVE G
  BY <1>2, <1>8, SpawnFailsForm DEF Heads
<1>9. CASE Start
  BY <1>2, <1>9, FiberNames DEF Start, Run, Begins
<1>10. CASE Recover
  <2>1. CASE UNCHANGED <<core, turn, todo>>
    BY <1>1, <2>1
  <2>2. ASSUME NEW f \in Recoverers, Run(f, FillEffects) PROVE G
    BY <1>2, <2>2, FiberNames DEF Run, Begins
  <2> QED BY <1>10, <2>1, <2>2, RecoverForm
<1>11. CASE \E j \in Jobs : Submit(j)
  BY <1>2, <1>11, FiberNames DEF Submit, Run, Begins
<1>12. ASSUME NEW g \in Gens, Read(g) PROVE G
  <2>1. Reader(g) \in Fibers /\ Begins(Reader(g))
    BY <1>12, FiberNames DEF Begins
  <2>2. CASE UNCHANGED <<turn, todo>>
    BY <1>1, <2>2
  <2>3. ASSUME NEW s, turn' = Reader(g), todo' = [todo EXCEPT ![Reader(g)] = s] PROVE G
    BY <1>2, <2>1, <2>3
  <2>4. UNCHANGED <<turn, todo>>
        \/ \E s : turn' = Reader(g) /\ todo' = [todo EXCEPT ![Reader(g)] = s]
    BY <1>12 DEF Read, Lose, Run, event
  <2> QED BY <2>2, <2>3, <2>4
<1>13. ASSUME NEW g \in Gens, LoseTask(g) PROVE G
  <2>1. Loser(g) \in Fibers /\ Begins(Loser(g))
    BY FiberNames DEF Begins
  <2> QED BY <1>1, <1>2, <1>13, <2>1 DEF LoseTask, Lose, Run
<1>14. ASSUME NEW t \in tasks, SendTask(t) PROVE G
  <2>1. t.gen \in Gens
    BY <1>14, SendForm
  <2>2. Sender(t.gen) \in Fibers /\ Begins(Sender(t.gen))
    BY <2>1, FiberNames DEF Begins
  <2> QED BY <1>1, <1>2, <1>14, <2>2 DEF SendTask, Run
<1>15. CASE CloseStops \/ \E g \in Gens : CloseDrains(g)
  <2>1. Closer \in Fibers /\ Begins(Closer)
    BY FiberNames DEF Begins
  <2> QED BY <1>2, <1>15, <2>1 DEF CloseStops, CloseDrains, Run
<1> QED BY <1>3, <1>4, <1>5, <1>6, <1>7, <1>8, <1>9, <1>10, <1>11, <1>12, <1>13, <1>14, <1>15,
           Steps

\* A reader that runs has been started.
LEMMA ReaderRuns ==
  ASSUME DriverInv, PoolNext, NEW g \in Gens, turn' = Reader(g) \/ todo'[Reader(g)] # <<>>
  PROVE  reader'[g] # "none"
<1>1. reader[g] # "none" => reader'[g] # "none"
  BY ReadersStay
<1>2. turn = Reader(g) \/ todo[Reader(g)] # <<>> => reader[g] # "none"
  BY DEF DriverInv, TablesInv, PlaceInv
<1>3. Reader(g) \in Fibers /\ Reader(g) # Loop /\ Reader(g) # Closer
  BY FiberNames
<1>4. CASE turn' \in {turn, Loop} /\ UNCHANGED todo
  BY <1>1, <1>2, <1>3, <1>4
<1>5. ASSUME NEW f \in Fibers, RunsOnly(f) PROVE reader'[g] # "none"
  <2>1. CASE f # Reader(g)
    BY <1>1, <1>2, <1>3, <1>5, <2>1 DEF RunsOnly
  <2>2. CASE f = Reader(g) /\ todo[f] # <<>>
    BY <1>1, <1>2, <2>2
  <2>3. CASE f = Reader(g) /\ Begins(f)
    <3>1. Read(g)
      BY <2>3, FiberNames DEF Begins
    <3>2. reader[g] = "reading"
      BY <3>1 DEF Read
    <3> QED BY <1>1, <3>2
  <2> QED BY <1>5, <2>1, <2>2, <2>3 DEF RunsOnly
<1>6. CASE CloseKills
  <2>1. turn' = Closer /\ (todo'[Reader(g)] = todo[Reader(g)] \/ todo'[Reader(g)] = <<>>)
    BY <1>3, <1>6, KillsForm
  <2> QED BY <1>1, <1>2, <1>3, <2>1
<1> QED BY <1>4, <1>5, <1>6, Turns

\* finish_close() waits for readers that were started.
LEMMA WaitedRead ==
  ASSUME DriverInv, PoolNext, NEW g \in waited'
  PROVE  g \in Gens /\ reader'[g] # "none"
<1>1. waited \subseteq Gens /\ PlaceInv
  BY DEF DriverInv, TablesInv, PoolTypes, LifeTypes
<1>2. CASE g \in waited
  BY <1>1, <1>2, ReadersStay DEF PlaceInv
<1>3. CASE g \notin waited
  <2>1. CASE CloseStopped
    <3>1. g \in Gens /\ reader[g] # "none"
      BY <2>1 DEF CloseStopped, Slotted
    <3> QED BY <3>1, ReadersStay
  <2>2. CASE CloseKilled
    <3>1. g \in Gens /\ InSlots(g)
      BY <2>2 DEF CloseKilled, Slotted
    <3>2. fdOf[g] \in Fds /\ slotOf[fdOf[g]] = g /\ g # 0
      BY <3>1 DEF InSlots, Gens, DriverInv, TablesInv, PoolTypes, TableTypes
    <3>3. reader[g] # "none"
      BY <1>1, <3>2 DEF PlaceInv
    <3> QED BY <3>1, <3>3, ReadersStay
  <2>3. waited' = waited \/ CloseStopped \/ CloseKilled \/ \E h \in Gens : CloseDrains(h)
    BY LifeMoves DEF CloseStops, CloseKills, CloseEnds
  <2>4. ASSUME NEW h \in Gens, CloseDrains(h) PROVE FALSE
    BY <1>3, <2>4 DEF CloseDrains
  <2> QED BY <1>3, <2>1, <2>2, <2>3, <2>4
<1> QED BY <1>2, <1>3

\* The steps that change the tables.
LEMMA TableMoves ==
  ASSUME DriverInv, PoolNext
  PROVE  \/ UNCHANGED <<slotOf, fdOf, open, retired>>
         \/ CloseEnds
         \/ \E f \in Fibers : \/ DriveSpawn(f) \/ SpawnSucceeds(f) \/ SpawnFails(f)
                              \/ DriveDrop(f) \/ DriveClose(f) \/ ReapReturns(f) \/ DriveSkip(f)
<1> DEFINE G == \/ UNCHANGED <<slotOf, fdOf, open, retired>>
                \/ CloseEnds
                \/ \E f \in Fibers : \/ DriveSpawn(f) \/ SpawnSucceeds(f) \/ SpawnFails(f)
                                     \/ DriveDrop(f) \/ DriveClose(f) \/ ReapReturns(f)
                                     \/ DriveSkip(f)
<1> SUFFICES G
  OBVIOUS
<1>1. ASSUME UNCHANGED <<slotOf, fdOf, open, retired>> PROVE G
  BY <1>1
<1>2. ASSUME \/ CloseEnds
             \/ \E f \in Fibers : \/ DriveSpawn(f) \/ SpawnSucceeds(f) \/ SpawnFails(f)
                                  \/ DriveDrop(f) \/ DriveClose(f) \/ ReapReturns(f) \/ DriveSkip(f)
      PROVE G
  BY <1>2
<1> HIDE DEF G
<1>3. CASE Elsewhere
  <2>1. \/ UNCHANGED <<slotOf, fdOf, open, retired>> \/ CloseEnds
        \/ \E f \in Fibers : DriveSpawn(f)
    BY <1>3 DEF Elsewhere, StartDriven, StartReady, StartRaises, SubmitDriven, Close,
                RecoverDriven, ReadDriven, LoseDriven, SendDriven, CloseStopped, CloseKilled,
                CancelReader, DriveReap, table
  <2> QED BY <1>1, <1>2, <2>1
<1>4. CASE Children
  BY <1>1, <1>4, ChildrenForm DEF table
<1>5. CASE \E f \in Fibers : \/ DriveSend(f) \/ DriveSettle(f)
  BY <1>1, <1>5 DEF DriveSend, DriveSettle
<1>6. CASE \E f \in Fibers : \/ SpawnSucceeds(f) \/ SpawnFails(f)
                             \/ DriveDrop(f) \/ DriveClose(f) \/ ReapReturns(f) \/ DriveSkip(f)
  BY <1>2, <1>6
<1>7. CASE Start \/ Recover \/ (\E j \in Jobs : Submit(j)) \/ CloseStops \/ CloseKills
           \/ \E g \in Gens : Read(g) \/ LoseTask(g) \/ CloseDrains(g)
  BY <1>1, <1>7 DEF Start, Recover, Submit, CloseStops, CloseKills, Read, LoseTask, CloseDrains,
                    table
<1>8. CASE \E t \in tasks : SendTask(t)
  BY <1>1, <1>8 DEF SendTask
<1> QED BY <1>3, <1>4, <1>5, <1>6, <1>7, <1>8, Steps

\* Steps that enter no slot keep every slot in its place.
LEMMA PlaceKept ==
  ASSUME DriverInv, PoolNext, ~\E f \in Fibers : SpawnSucceeds(f),
         retired' \subseteq retired \cup {g \in Gens : reader[g] # "none"},
         \A g, h \in open' : fdOf'[g] = fdOf'[h] => g = h,
         \A d \in Fds : slots[d] # NoSlot => slotOf'[d] = slotOf[d] /\ slots[d].gen \in open',
         \A g \in Gens : reader[g] # "none" => fdOf'[g] = fdOf[g],
         \A d \in Fds : slotOf'[d] # 0 => slotOf'[d] = slotOf[d]
  PROVE  PlaceInv'
<1>1. /\ PlaceInv /\ CoreInv /\ retired \subseteq Gens /\ slotOf \in [Fds -> Gens \cup {0}]
  BY DEF DriverInv, TablesInv, PoolTypes, TableTypes
<1>2. \A d \in Fds : slots'[d] # NoSlot => slots[d] # NoSlot /\ slots'[d].gen = slots[d].gen
  <2>1. \A d \in Fds : slots'[d].gen \in {slots[d].gen, 0}
    BY CoreMoves
  <2>2. NoSlot.gen = 0
    BY DEF NoSlot
  <2> QED BY <2>1, <2>2, LiveNext
<1>3. \A g \in Gens : reader'[g] # "none" <=> reader[g] # "none"
  BY ReadersStay
<1>4. \A d \in Fds : slots[d] # NoSlot => slots[d].gen \in Gens
  BY <1>1, LiveGens
<1>5. ASSUME NEW d \in Fds, slots'[d] # NoSlot
      PROVE  /\ slotOf'[d] = slots'[d].gen /\ fdOf'[slots'[d].gen] = d
             /\ slots'[d].gen \in open' /\ reader'[slots'[d].gen] # "none"
  <2>1. slots[d] # NoSlot /\ slots'[d].gen = slots[d].gen /\ slots[d].gen \in Gens
    BY <1>2, <1>4, <1>5
  <2>2. slotOf[d] = slots[d].gen /\ fdOf[slots[d].gen] = d /\ reader[slots[d].gen] # "none"
    BY <1>1, <2>1 DEF PlaceInv
  <2> QED BY <1>3, <2>1, <2>2
<1>6. ASSUME NEW d \in Fds, slotOf'[d] # 0
      PROVE  fdOf'[slotOf'[d]] = d /\ reader'[slotOf'[d]] # "none"
  <2>1. slotOf'[d] = slotOf[d] /\ slotOf[d] \in Gens
    BY <1>1, <1>6
  <2>2. fdOf[slotOf[d]] = d /\ reader[slotOf[d]] # "none"
    BY <1>1, <1>6, <2>1 DEF PlaceInv
  <2> QED BY <1>3, <2>1, <2>2
<1>7. \A g \in Gens : reader'[g] # "none" => fdOf'[g] \in Fds
  BY <1>1, <1>3 DEF PlaceInv
<1>8. \A g \in waited' \cup retired' : reader'[g] # "none"
  <2>1. \A g \in retired' : g \in Gens /\ reader[g] # "none"
    BY <1>1 DEF PlaceInv
  <2> QED BY <1>3, <2>1, WaitedRead
<1>9. \A g \in Gens : turn' = Reader(g) \/ todo'[Reader(g)] # <<>> => reader'[g] # "none"
  BY ReaderRuns
<1>10. \A g, h \in open' : fdOf'[g] = fdOf'[h] => g = h
  OBVIOUS
<1> QED BY <1>5, <1>6, <1>7, <1>8, <1>9, <1>10 DEF PlaceInv, Reader

\* A child is entered in the slot of its descriptor.
LEMMA PlaceEntered ==
  ASSUME DriverInv, PoolNext, NEW f \in Fibers, SpawnSucceeds(f), NEW g \in Gens,
         Subject(f) = g
  PROVE  PlaceInv'
<1>1. /\ PlaceInv /\ CoreInv /\ retired \subseteq Gens /\ slotOf \in [Fds -> Gens \cup {0}]
      /\ reader \in [Gens -> {"none", "reading", "done"}]
  BY DEF DriverInv, TablesInv, PoolTypes, TableTypes
<1>2. /\ Entered(f, g) /\ reader[g] = "none" /\ fdOf[g] \in Fds /\ child[g].is = "forking"
      /\ slotOf' = [slotOf EXCEPT ![fdOf[g]] = g] /\ reader' = [reader EXCEPT ![g] = "reading"]
      /\ UNCHANGED <<retired, fdOf, open>>
  BY EnteredForm, Spawning DEF SpawnSucceeds, Resumes
<1>3. g \in open /\ g # 0
  BY <1>2 DEF DriverInv, TablesInv, SpawnInv, Gens
<1>4. \A h \in Gens : reader[h] # "none" => reader'[h] # "none" /\ h # g
  BY <1>1, <1>2
<1>5. /\ slots \in [Fds -> SlotSet] /\ \A d \in Fds : slots[d] # NoSlot => slots[d].gen \in Gens
  BY <1>1, LiveGens
<1>6. ASSUME NEW d \in Fds, slots[d] # NoSlot
      PROVE  /\ d # fdOf[g] /\ slotOf[d] = slots[d].gen /\ fdOf[slots[d].gen] = d
             /\ slots[d].gen \in open /\ reader[slots[d].gen] # "none"
  <2>1. /\ slotOf[d] = slots[d].gen /\ fdOf[slots[d].gen] = d
        /\ slots[d].gen \in open /\ reader[slots[d].gen] # "none"
    BY <1>1, <1>6 DEF PlaceInv
  <2>2. d # fdOf[g]
    BY <1>1, <1>2, <1>3, <2>1 DEF PlaceInv
  <2> QED BY <2>1, <2>2
<1>7. ASSUME NEW d \in Fds, slots'[d] # NoSlot
      PROVE  /\ slotOf'[d] = slots'[d].gen /\ fdOf'[slots'[d].gen] = d
             /\ slots'[d].gen \in open' /\ reader'[slots'[d].gen] # "none"
  <2>1. CASE d = fdOf[g] /\ slots' = [slots EXCEPT ![fdOf[g]] = Slot(g, "starting", NoJob)]
    <3>1. slots'[d].gen = g
      BY <1>5, <2>1 DEF Slot
    <3> QED BY <1>1, <1>2, <1>3, <2>1, <3>1
  <2>2. CASE slots[d] # NoSlot /\ slots'[d] = slots[d]
    BY <1>1, <1>2, <1>4, <1>5, <1>6, <2>2
  <2> QED BY <1>2, <1>5, <1>7, <2>1, <2>2 DEF Entered
<1>8. ASSUME NEW d \in Fds, slotOf'[d] # 0
      PROVE  fdOf'[slotOf'[d]] = d /\ reader'[slotOf'[d]] # "none"
  <2>1. CASE d = fdOf[g]
    BY <1>1, <1>2, <2>1
  <2>2. CASE d # fdOf[g]
    <3>1. slotOf'[d] = slotOf[d] /\ slotOf[d] \in Gens
      BY <1>1, <1>2, <1>8, <2>2
    <3> QED BY <1>1, <1>2, <1>4, <1>8, <3>1 DEF PlaceInv
  <2> QED BY <2>1, <2>2
<1>9. \A h \in Gens : reader'[h] # "none" => fdOf'[h] \in Fds
  BY <1>1, <1>2 DEF PlaceInv
<1>10. \A h \in waited' \cup retired' : reader'[h] # "none"
  <2>1. \A h \in retired' : h \in Gens /\ reader[h] # "none"
    BY <1>1, <1>2 DEF PlaceInv
  <2> QED BY <1>4, <2>1, WaitedRead
<1>11. \A h \in Gens : turn' = Reader(h) \/ todo'[Reader(h)] # <<>> => reader'[h] # "none"
  BY ReaderRuns
<1>12. \A h, k \in open' : fdOf'[h] = fdOf'[k] => h = k
  BY <1>1, <1>2 DEF PlaceInv
<1> QED BY <1>7, <1>8, <1>9, <1>10, <1>11, <1>12 DEF PlaceInv, Reader

\* Every slot is in its place.
LEMMA PlaceStep ==
  ASSUME DriverInv, PoolNext
  PROVE  PlaceInv'
<1>1. /\ PlaceInv /\ CoreInv /\ PhaseInv /\ retired \subseteq Gens /\ open \subseteq Gens
      /\ slotOf \in [Fds -> Gens \cup {0}] /\ fdOf \in [Gens -> Fds \cup {0}]
  BY DEF DriverInv, TablesInv, PoolTypes, TableTypes
<1>2. CASE \E f \in Fibers : SpawnSucceeds(f)
  BY <1>2, PlaceEntered, EnteredForm
<1>3. CASE ~\E f \in Fibers : SpawnSucceeds(f)
  <2>1. \A d \in Fds : slots[d] # NoSlot =>
          /\ slotOf[d] = slots[d].gen /\ fdOf[slots[d].gen] = d /\ slots[d].gen \in open
          /\ reader[slots[d].gen] # "none"
    BY <1>1 DEF PlaceInv
  <2>2. \A g, h \in open : fdOf[g] = fdOf[h] => g = h
    BY <1>1 DEF PlaceInv
  <2>3. CASE UNCHANGED <<slotOf, fdOf, open, retired>>
    BY <1>3, <2>1, <2>2, <2>3, PlaceKept
  <2>4. CASE CloseEnds
    <3>1. /\ closer = "draining" /\ waited = {} /\ slotOf' = [d \in Fds |-> 0]
          /\ UNCHANGED <<fdOf, open, retired>>
      BY <2>4 DEF CloseEnds
    <3>2. \A d \in Fds : slots[d] = NoSlot
      BY <1>1, <3>1 DEF PhaseInv
    <3> QED BY <1>3, <2>2, <3>1, <3>2, PlaceKept
  <2>5. ASSUME NEW f \in Fibers, DriveSpawn(f) PROVE PlaceInv'
    <3>1. Heads(f, "SPAWN") /\ UNCHANGED <<slotOf, retired>> /\ open' = open \cup {Subject(f)}
      BY <2>5 DEF DriveSpawn, Performs
    <3>2. PICK d \in Fds \ {fdOf[h] : h \in open} : fdOf' = [fdOf EXCEPT ![Subject(f)] = d]
      BY <2>5 DEF DriveSpawn
    <3>3. Subject(f) \in Gens /\ reader[Subject(f)] = "none"
      BY <3>1, Spawning
    <3>4. \A g, h \in open' : fdOf'[g] = fdOf'[h] => g = h
      BY <1>1, <2>2, <3>1, <3>2, <3>3
    <3>5. \A g \in Gens : reader[g] # "none" => fdOf'[g] = fdOf[g]
      BY <1>1, <3>2, <3>3
    <3> QED BY <1>3, <2>1, <3>1, <3>4, <3>5, PlaceKept
  <2>6. ASSUME NEW f \in Fibers, SpawnFails(f) PROVE PlaceInv'
    <3>1. /\ UNCHANGED <<slotOf, fdOf, retired>> /\ open' = open \ {Subject(f)}
          /\ Heads(f, "SPAWN")
      BY <2>6 DEF SpawnFails, Resumes
    <3>2. reader[Subject(f)] = "none"
      BY <3>1, Spawning
    <3>3. \A d \in Fds : slots[d] # NoSlot => slots[d].gen \in open'
      BY <2>1, <3>1, <3>2
    <3> QED BY <1>3, <2>1, <2>2, <3>1, <3>3, PlaceKept
  <2>7. ASSUME NEW f \in Fibers, DriveDrop(f) PROVE PlaceInv'
    <3>1. /\ Heads(f, "DROP") /\ UNCHANGED <<fdOf, open>>
          /\ retired' = retired \cup {Subject(f)}
          /\ slotOf' = IF InSlots(Subject(f)) THEN [slotOf EXCEPT ![fdOf[Subject(f)]] = 0]
                       ELSE slotOf
      BY <2>7 DEF DriveDrop, Performs, Resumes
    <3>2. /\ Subject(f) \in Gens /\ reader[Subject(f)] # "none"
          /\ \A d \in Fds : slots[d].gen # Subject(f)
      BY <3>1, Clearing DEF Teardown, Gone
    <3>3. \A d \in Fds : slots[d] # NoSlot => slotOf'[d] = slotOf[d]
      BY <1>1, <2>1, <3>1, <3>2 DEF InSlots
    <3>4. \A d \in Fds : slotOf'[d] # 0 => slotOf'[d] = slotOf[d]
      BY <1>1, <3>1
    <3>5. retired' \subseteq retired \cup {g \in Gens : reader[g] # "none"}
      BY <3>1, <3>2
    <3> QED BY <1>3, <2>1, <2>2, <3>1, <3>3, <3>4, <3>5, PlaceKept
  <2>8. ASSUME NEW f \in Fibers, DriveClose(f) PROVE PlaceInv'
    <3>1. UNCHANGED <<slotOf, fdOf, retired>> /\ open' \subseteq open
      BY <2>8 DEF DriveClose
    <3>2. open' = open \/ (Heads(f, "CLOSE_CONTROL") /\ open \ {Subject(f)} \subseteq open')
      BY <2>8 DEF DriveClose, Performs
    <3>3. Heads(f, "CLOSE_CONTROL") => \A d \in Fds : slots[d].gen # Subject(f)
      BY Clearing DEF Teardown, Gone
    <3>4. \A d \in Fds : slots[d] # NoSlot => slots[d].gen \in open'
      BY <2>1, <3>2, <3>3
    <3> QED BY <1>3, <2>1, <2>2, <3>1, <3>4, PlaceKept
  <2>9. ASSUME NEW f \in Fibers, ReapReturns(f) \/ DriveSkip(f) PROVE PlaceInv'
    <3>1. UNCHANGED <<slotOf, fdOf, open>> /\ retired' \subseteq retired
      BY <2>9 DEF ReapReturns, DriveSkip
    <3> QED BY <1>3, <2>1, <2>2, <3>1, PlaceKept
  <2> QED BY <1>3, <2>3, <2>4, <2>5, <2>6, <2>7, <2>8, <2>9, TableMoves
<1> QED BY <1>2, <1>3

-----------------------------------------------------------------------------
(* The invariant                                                             *)

\* The slot a step takes from a skeleton was given up for a reason.
LEMMA LossCauses ==
  ASSUME DriverInv, PoolNext, NEW d \in Fds, NEW g, slots[d] # NoSlot, slots[d].gen = g,
         slots'[d].gen # g
  PROVE  closing \/ ~Alive(g) \/ Garbled(g)
<1> DEFINE G == closing \/ ~Alive(g) \/ Garbled(g)
<1>1. /\ CoreInv /\ slots \in [Fds -> SlotSet] /\ queue \in Seq(Jobs) /\ g \in Gens
      /\ slotOf[d] = g /\ fdOf[g] = d /\ g \in open /\ PhaseInv
  BY LiveGens DEF DriverInv, TablesInv, PlaceInv
<1> SUFFICES G
  OBVIOUS
<1>2. ASSUME slots'[d].gen = slots[d].gen PROVE G
  BY <1>2
<1>3. ASSUME NEW f, NEW h \in Gens, fdOf[h] \in Fds, Loses(f, h), h # g PROVE G
  <2>1. CASE slots' = [slots EXCEPT ![fdOf[h]] = NoSlot] /\ slots[fdOf[h]].gen = h
    <3>1. fdOf[h] # d
      BY <1>3, <2>1
    <3> QED BY <1>1, <1>2, <2>1, <3>1
  <2>2. CASE UNCHANGED slots
    BY <1>2, <2>2
  <2> QED BY <1>3, <2>1, <2>2 DEF Loses
<1>4. ASSUME NEW f, NEW sl \in [Fds -> SlotSet], NEW qu, NEW pre, Hands(f, sl, qu, pre),
             \A h \in Fds : sl[h].gen = slots[h].gen
      PROVE  G
  <2>1. slots'[d].gen = slots[d].gen
    BY <1>4, HandsGens
  <2> QED BY <1>2, <2>1
<1>5. ASSUME UNCHANGED slots PROVE G
  BY <1>2, <1>5
<1>6. ASSUME closing \/ ~Alive(g) \/ Garbled(g) PROVE G
  BY <1>6
<1> HIDE DEF G
<1>7. CASE Elsewhere \/ Children
  BY <1>5, <1>7, ElsewhereForm, ChildrenForm DEF core
<1>8. CASE \E f \in Fibers : \/ DriveSend(f) \/ DriveSettle(f) \/ DriveDrop(f) \/ DriveClose(f)
                             \/ ReapReturns(f) \/ DriveSkip(f)
  BY <1>5, <1>8, Pops DEF core
<1>9. ASSUME NEW f \in Fibers, SpawnSucceeds(f) PROVE G
  <2>1. /\ Entered(f, Subject(f)) /\ Subject(f) \in Gens /\ reader[Subject(f)] = "none"
        /\ child[Subject(f)].is = "forking" /\ Subject(f) \in open
    <3>1. Heads(f, "SPAWN")
      BY <1>9 DEF SpawnSucceeds, Resumes
    <3> QED BY <1>9, <3>1, EnteredForm, Spawning DEF DriverInv, TablesInv, SpawnInv
  <2>2. reader[g] # "none"
    BY <1>1 DEF DriverInv, TablesInv, PlaceInv
  <2>3. fdOf[Subject(f)] # d
    BY <1>1, <2>1, <2>2 DEF DriverInv, TablesInv, PlaceInv
  <2>4. CASE slots' = [slots EXCEPT ![fdOf[Subject(f)]] = Slot(Subject(f), "starting", NoJob)]
    BY <1>1, <1>2, <2>3, <2>4
  <2> QED BY <1>5, <2>1, <2>4 DEF Entered
<1>10. ASSUME NEW f \in Fibers, SpawnFails(f) PROVE G
  BY <1>5, <1>10, SpawnFailsForm
<1>11. CASE Start
  BY <1>1, <1>5, <1>11, FillForm DEF Start
<1>12. CASE Recover
  BY <1>1, <1>5, <1>12, RecoverForm, FillForm DEF core
<1>13. ASSUME NEW j \in Jobs, Submit(j) PROVE G
  <2>1. CASE Hands(Submitter, slots, Append(queue, j), <<>>)
    BY <1>1, <1>4, <2>1
  <2> QED BY <1>5, <1>13, <2>1, SubmitsForm
<1>14. ASSUME NEW h \in Gens, Read(h) PROVE G
  <2>1. fdOf[h] \in Fds
    BY <1>14, ReadForm
  <2>2. ASSUME slots[fdOf[h]].gen = h, NEW pre,
               Hands(Reader(h), [slots EXCEPT ![fdOf[h]] = Slot(h, "idle", NoJob)], queue, pre)
        PROVE  G
    <3>1. [slots EXCEPT ![fdOf[h]] = Slot(h, "idle", NoJob)] \in [Fds -> SlotSet]
      BY <1>1, <2>1, IdleSlot
    <3>2. \A k \in Fds : [slots EXCEPT ![fdOf[h]] = Slot(h, "idle", NoJob)][k].gen = slots[k].gen
      BY <1>1, <2>1, <2>2, IdleGen
    <3> QED BY <1>4, <2>2, <3>1, <3>2
  <2>3. ASSUME Readies(h) PROVE G
    BY <1>5, <2>2, <2>3 DEF Readies
  <2>4. ASSUME NEW j, Results(h, j) PROVE G
    <3>1. slots[fdOf[h]] = Slot(h, "running", j) => slots[fdOf[h]].gen = h
      BY DEF Slot
    <3> QED BY <1>5, <2>2, <2>4, <3>1 DEF Results
  <2>5. ASSUME Loses(Reader(h), h), \/ inbox[h] = <<>> /\ ~Alive(h)
                                    \/ inbox[h] # <<>> /\ Head(inbox[h]).op = "bad"
        PROVE  G
    <3>1. CASE h # g
      BY <1>3, <2>1, <2>5, <3>1
    <3>2. CASE h = g
      BY <1>6, <2>5, <3>2 DEF Garbled
    <3> QED BY <3>1, <3>2
  <2> QED BY <1>5, <1>14, <2>3, <2>4, <2>5, ReadForm DEF core
<1>15. ASSUME NEW h \in Gens, LoseTask(h) PROVE G
  <2>1. Task("lose", h, NoJob) \in tasks
    BY <1>15 DEF LoseTask
  <2>2. CASE h = g
    BY <1>6, <2>1, <2>2 DEF Garbled
  <2>3. CASE h # g
    BY <1>3, <1>5, <1>15, <2>3, LoseTaskForm DEF core
  <2> QED BY <2>2, <2>3
<1>16. ASSUME NEW t \in tasks, SendTask(t) PROVE G
  <2>1. t.gen \in Gens
    BY <1>16, SendForm
  <2>2. CASE UNCHANGED core
    BY <1>5, <2>2 DEF core
  <2>3. CASE ~Delivers(t) /\ fdOf[t.gen] \in Fds /\ Loses(Sender(t.gen), t.gen)
    <3>1. CASE t.gen = g
      BY <1>1, <1>6, <2>3, <3>1 DEF Delivers
    <3>2. CASE t.gen # g
      BY <1>3, <2>1, <2>3, <3>2
    <3> QED BY <3>1, <3>2
  <2> QED BY <1>16, <2>2, <2>3, SendForm
<1>17. CASE CloseStops
  BY <1>1, <1>6, <1>17 DEF CloseStops, PhaseInv
<1>18. CASE CloseKills
  BY <1>5, <1>18, KillsForm DEF core
<1>19. ASSUME NEW h \in Gens, CloseDrains(h) PROVE G
  BY <1>1, <1>6, <1>19 DEF CloseDrains, PhaseInv
<1> QED BY <1>7, <1>8, <1>9, <1>10, <1>11, <1>12, <1>13, <1>14, <1>15, <1>16, <1>17, <1>18,
           <1>19, Steps

\* A step keeps the invariant of the driver.
LEMMA DriverKept ==
  ASSUME DriverInv, [PoolNext]_vars
  PROVE  DriverInv'
<1>1. CASE PoolNext
  BY <1>1, CoreNext, PoolTyped, PlaceStep, SpawnStep, GoneStep, PhaseStep DEF DriverInv, TablesInv
<1>2. CASE UNCHANGED vars
  <2>1. IInv'
    BY <1>2, EventsOnly, EventsKeep, SocketsKept DEF DriverInv, IInv
  <2>2. PoolTypes'
    BY <1>2 DEF DriverInv, TablesInv, vars, core, event, life, table, work, health, process,
                PoolTypes, EventTypes, LifeTypes, TableTypes, WorkTypes, ProcessTypes
  <2>3. PlaceInv' /\ SpawnInv' /\ GoneInv' /\ PhaseInv'
    BY <1>2 DEF DriverInv, TablesInv, vars, core, event, life, table, work, health, process,
                PlaceInv, SpawnInv, GoneInv, PhaseInv, Asks, Clears, Gone
  <2> QED BY <2>1, <2>2, <2>3 DEF DriverInv, TablesInv, IInv
<1> QED BY <1>1, <1>2

\* The initial states satisfy it.
LEMMA DriverInit == Init => DriverInv
<1> SUFFICES ASSUME Init PROVE DriverInv
  OBVIOUS
<1>1. CoreInv /\ SocketsInv
  BY InitInv DEF IInv
<1>2. NoJob \in AnyJob /\ <<>> \in Seq(Doable)
  BY DEF AnyJob
<1>3. EventTypes /\ WorkTypes
  BY <1>2 DEF Init, EventTypes, WorkTypes
<1>4. LifeTypes
  BY DEF Init, CoreInit, LifeTypes
<1>5. TableTypes
  BY <1>2 DEF Init, TableTypes, View, SlotStates
<1>6. ProcessTypes
  <2>1. MaxFaults \in Nat
    BY PoolAssumption
  <2>2. \A S : <<>> \in Seq(S)
    OBVIOUS
  <2> QED BY <1>2, <2>1, <2>2 DEF Init, ProcessTypes, Process
<1>7. todo = [f \in Fibers |-> <<>>] /\ turn = Loop /\ reader = [g \in Gens |-> "none"]
  BY DEF Init
<1>8. \A f \in Fibers : todo[f] = <<>> /\ DOMAIN todo[f] = {}
  BY <1>7
<1>9. PlaceInv
  <2>1. \A g \in Gens : turn # Reader(g) /\ todo[Reader(g)] = <<>>
    BY <1>7, <1>8, FiberNames
  <2>2. \A g \in Gens : ~(turn = Reader(g) \/ todo[Reader(g)] # <<>>)
    BY <2>1
  <2> QED BY <1>7, <2>2 DEF Init, CoreInit, PlaceInv
<1>10. SpawnInv
  BY <1>7, <1>8 DEF Init, SpawnInv, Asks, Process
<1>11. GoneInv
  BY <1>8 DEF GoneInv, Clears
<1>12. PhaseInv
  BY DEF Init, CoreInit, PhaseInv
<1> QED BY <1>1, <1>3, <1>4, <1>5, <1>6, <1>9, <1>10, <1>11, <1>12
     DEF DriverInv, TablesInv, PoolTypes

-----------------------------------------------------------------------------
(* Theorems                                                                  *)

\* The inductive invariant: where the slot objects, the sockets, the readers and the
\* effects that are left to perform stand to the reducer's slots, at every await of
\* SkeletonPool and in whatever order its tasks go on.
THEOREM DriverInvariance == Spec => []DriverInv
<1>1. DriverInv /\ [PoolNext]_vars => DriverInv'
  BY DriverKept
<1> QED BY DriverInit, <1>1, PTL DEF Spec

\* Every variable has its type: no effect that is performed late names a skeleton or a
\* descriptor the driver does not know.  (SkeletonPool.drive.)
THEOREM TypeCorrect == Spec => []TypeOK
<1>1. DriverInv => TypeOK
  <2> SUFFICES ASSUME DriverInv PROVE TypeOK
    OBVIOUS
  <2>1. /\ coreClosing \in BOOLEAN /\ nextGen \in 0..MaxGen /\ pendingSpawns \subseteq Gens
        /\ queue \in Seq(Jobs)
    BY LiveGens DEF DriverInv, TablesInv, PoolTypes, LifeTypes, CoreInv, GensInv
  <2>2. slots \in [Fds -> [gen : Gens \cup {0}, state : SlotStates, job : AnyJob]]
    <3>1. slots \in [Fds -> SlotSet] /\ \A f \in Fds : slots[f].gen \in Gens \cup {0}
      BY LiveGens DEF DriverInv
    <3> QED BY <3>1 DEF SlotSet
  <2>3. todo \in [Fibers -> Seq(Effects)]
    <3>1. todo \in [Fibers -> Seq(Doable)] /\ Doable \subseteq Effects
      BY DEF DriverInv, TablesInv, PoolTypes, EventTypes, Doable
    <3>2. \A s \in Seq(Doable) : s \in Seq(Effects)
      BY <3>1
    <3> QED BY <3>1, <3>2
  <2>4. /\ turn \in Fibers \cup {Loop}
        /\ tasks \subseteq [op : {"run", "stop", "lose"}, gen : Gens, job : AnyJob]
    BY DEF DriverInv, TablesInv, PoolTypes, EventTypes, TaskSet
  <2>5. LifeTypes /\ TableTypes /\ WorkTypes /\ ProcessTypes
    BY DEF DriverInv, TablesInv, PoolTypes
  <2> QED BY <2>1, <2>2, <2>3, <2>4, <2>5 DEF TypeOK, LifeTypes, TableTypes, WorkTypes,
                                              ProcessTypes
<1> QED BY <1>1, DriverInvariance, PTL

\* Whenever the loop is free, the slot object found under a descriptor of the reducer
\* is that of the generation the reducer has there: a spawn, a drop or a discard of an
\* older owner of the descriptor is never left half done at an await.
\* (SkeletonPool.slots and ReaperCore.slots; spawn_effect, drop, finish_close.)
THEOREM TablesAlwaysAgree == Spec => []TablesAgree
<1>1. DriverInv => TablesAgree
  BY DEF DriverInv, TablesInv, PlaceInv, TablesAgree, Live
<1> QED BY <1>1, DriverInvariance, PTL

\* A slot is taken only from a child that ended, from one that broke the protocol, or
\* by close(): an event about an older owner of its descriptor, a send that fails late
\* or a reader that ends after the descriptor was used again does not touch it.
\* (lose, read_slot, reader_done, send_run, finish_close.)
THEOREM WorkingSlotsStay == Spec => OnlyFailedSlotsLost
<1> DEFINE A == \A f \in Live : LET g == slots[f].gen
                                IN  slots'[f].gen # g => closing \/ ~Alive(g) \/ Garbled(g)
<1>1. DriverInv /\ [PoolNext]_vars => [A]_vars
  <2> SUFFICES ASSUME DriverInv, PoolNext PROVE A
    OBVIOUS
  <2> QED BY LossCauses DEF Live
<1>2. Spec => [][A]_vars
  BY <1>1, DriverInvariance, PTL DEF Spec
<1> QED BY <1>2 DEF OnlyFailedSlotsLost
=============================================================================
