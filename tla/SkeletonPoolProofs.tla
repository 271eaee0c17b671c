-------------------------- MODULE SkeletonPoolProofs --------------------------
(***************************************************************************)
(* Proofs about ReaperCore in the hands of the driver of SkeletonPool: for *)
(* every size of pool, every set of descriptors and of jobs and any number *)
(* of faults, what assert_invariants asserts holds after every event, and  *)
(* the one job that an event hands out is all there is to hand out.  The   *)
(* lemmas at the end say, event by event, what becomes of the slots and    *)
(* which effects the driver is asked for: SkeletonDriverProofs rests on    *)
(* them.                                                                   *)
(***************************************************************************)
EXTENDS SkeletonPool, FiniteSetTheorems, TLAPS

-----------------------------------------------------------------------------
(* The inductive invariant, over the slots and the queue an event leaves     *)

LiveIn(sl) == {f \in Fds : sl[f] # NoSlot}
IdleIn(sl) == {f \in Fds : sl[f].state = "idle"}
SlotSet == [gen : Nat, state : SlotStates, job : AnyJob]

\* Slots and queue have their types, and every job is in one place.
JobsInv(sl, qu) ==
  /\ sl \in [Fds -> SlotSet] /\ qu \in Seq(Jobs)
  /\ \A f \in Fds : sl[f].state = "dead" => sl[f] = NoSlot
  /\ \A f \in Fds : (sl[f].job # NoJob) <=> (sl[f].state = "running")
  /\ \A i, k \in DOMAIN qu : qu[i] = qu[k] => i = k
  /\ \A f \in Fds, i \in DOMAIN qu : sl[f].job # qu[i]
  /\ \A f, h \in Fds : sl[f].job = sl[h].job /\ sl[f].job # NoJob => f = h

\* One dispatched job is enough.
OneIsEnough(sl, qu) == Len(qu) <= 1 \/ \A f, h \in IdleIn(sl) : f = h

\* Generations are used once, and the pool does not grow past its target.
GensInv(sl, spawns, last) ==
  /\ last \in 0..MaxGen /\ spawns \subseteq 1..last
  /\ \A f, h \in LiveIn(sl) : sl[f].gen = sl[h].gen => f = h
  /\ \A f \in LiveIn(sl) : sl[f].gen \in (1..last) \ spawns
  /\ Cardinality(LiveIn(sl)) + Cardinality(spawns) <= Target

CoreInv ==
  /\ JobsInv(slots, queue) /\ GensInv(slots, pendingSpawns, nextGen)
  /\ NothingToDispatch
  /\ coreClosing => pendingSpawns = {}

\* A process that is being made, or was, has been given a descriptor.
SocketsInv ==
  /\ child = [g \in Gens |-> child[g]] /\ fdOf = [g \in Gens |-> fdOf[g]]
  /\ \A g \in Gens : fdOf[g] # 0 \/ child[g].is = "forking" => fdOf[g] \in Fds

IInv == CoreInv /\ SocketsInv

-----------------------------------------------------------------------------
(* Operators                                                                 *)

\* Dispatching keeps the jobs apart, and leaves none next to an idle slot.
LEMMA Dispatched ==
  ASSUME NEW sl, NEW qu, JobsInv(sl, qu), OneIsEnough(sl, qu), Dispatch(sl, qu)
  PROVE  /\ JobsInv(slots', queue') /\ NothingToDispatch'
         /\ LiveIn(slots') = LiveIn(sl) /\ \A f \in Fds : slots'[f].gen = sl[f].gen
<1>1. CASE /\ IdleIn(sl) = {} \/ qu = <<>>
           /\ slots' = sl /\ queue' = qu
  BY <1>1 DEF IdleIn, NothingToDispatch
<1>2. ASSUME qu # <<>>, queue' = Tail(qu), NEW f \in IdleIn(sl),
             slots' = [sl EXCEPT ![f] = Slot(@.gen, "running", Head(qu))]
      PROVE  /\ JobsInv(slots', queue') /\ NothingToDispatch'
             /\ LiveIn(slots') = LiveIn(sl) /\ \A h \in Fds : slots'[h].gen = sl[h].gen
  <2>1. /\ f \in Fds /\ sl[f].state = "idle" /\ sl[f] \in SlotSet /\ sl \in [Fds -> SlotSet]
        /\ sl[f].job = NoJob
    BY <1>2 DEF IdleIn, JobsInv
  <2>2. /\ qu \in Seq(Jobs) /\ Head(qu) = qu[1] /\ 1 \in DOMAIN qu /\ qu[1] \in Jobs
        /\ queue' \in Seq(Jobs) /\ Len(queue') = Len(qu) - 1 /\ Len(qu) \in Nat \ {0}
        /\ \A i \in DOMAIN queue' : i + 1 \in DOMAIN qu /\ queue'[i] = qu[i + 1] /\ i \in Nat \ {0}
    BY <1>2 DEF JobsInv
  <2>3. \A h \in Fds : slots'[h] = IF h = f THEN Slot(sl[f].gen, "running", qu[1]) ELSE sl[h]
    BY <1>2, <2>1, <2>2
  <2>4. LET s == Slot(sl[f].gen, "running", qu[1])
        IN  /\ s.gen = sl[f].gen /\ s.state = "running" /\ s.job = qu[1] /\ s \in SlotSet
            /\ s # NoSlot
    BY <2>1, <2>2 DEF Slot, SlotSet, SlotStates, AnyJob, NoSlot
  <2>5. slots' \in [Fds -> SlotSet]
    BY <1>2, <2>1, <2>2, <2>4
  <2>6. qu[1] # NoJob
    BY <2>2, CoreAssumption
  <2>7. JobsInv(slots', queue')
    <3>1. \A h \in Fds : /\ slots'[h].state = "dead" => slots'[h] = NoSlot
                         /\ (slots'[h].job # NoJob) <=> (slots'[h].state = "running")
      BY <2>3, <2>4, <2>6 DEF JobsInv
    <3>2. \A i, k \in DOMAIN queue' : queue'[i] = queue'[k] => i = k
      <4>1. \A i, k \in DOMAIN queue' : queue'[i] = queue'[k] => i + 1 = k + 1
        BY <2>2 DEF JobsInv
      <4> QED BY <2>2, <4>1
    <3>3. \A h \in Fds, i \in DOMAIN queue' : slots'[h].job # queue'[i]
      <4> SUFFICES ASSUME NEW h \in Fds, NEW i \in DOMAIN queue'
                   PROVE  slots'[h].job # qu[i + 1]
        BY <2>2
      <4>1. i + 1 \in DOMAIN qu /\ i + 1 # 1
        BY <2>2
      <4>2. qu[i + 1] # qu[1]
        BY <2>2, <4>1 DEF JobsInv
      <4>3. sl[h].job # qu[i + 1]
        BY <4>1 DEF JobsInv
      <4> QED BY <2>3, <2>4, <4>2, <4>3
    <3>4. \A h, k \in Fds : slots'[h].job = slots'[k].job /\ slots'[h].job # NoJob => h = k
      BY <2>2, <2>3, <2>4 DEF JobsInv
    <3> QED BY <2>2, <2>5, <3>1, <3>2, <3>3, <3>4 DEF JobsInv
  <2>8. NothingToDispatch'
    <3>1. CASE Len(qu) <= 1
      <4>1. Len(queue') = 0
        BY <2>2, <3>1
      <4>2. queue' = <<>>
        BY <2>2, <4>1
      <4> QED BY <4>2 DEF NothingToDispatch
    <3>2. CASE \A h, k \in IdleIn(sl) : h = k
      <4>1. \A h \in Fds : sl[h].state = "idle" => h = f
        BY <1>2, <3>2 DEF IdleIn
      <4> QED BY <2>3, <2>4, <4>1 DEF NothingToDispatch
    <3> QED BY <3>1, <3>2 DEF OneIsEnough
  <2>9. sl[f] # NoSlot
    BY <2>1 DEF NoSlot
  <2>10. LiveIn(slots') = LiveIn(sl) /\ \A h \in Fds : slots'[h].gen = sl[h].gen
    BY <2>3, <2>4, <2>9 DEF LiveIn
  <2> QED BY <2>7, <2>8, <2>10
<1> QED BY <1>1, <1>2 DEF Dispatch, IdleIn

\* Generations are not touched by a dispatch.
LEMMA GensKept ==
  ASSUME NEW sl, NEW later, NEW spawns, NEW last, GensInv(sl, spawns, last),
         LiveIn(later) = LiveIn(sl), \A f \in Fds : later[f].gen = sl[f].gen
  PROVE  GensInv(later, spawns, last)
BY DEF GensInv, LiveIn

\* Sets of slots and of expected spawns are finite.
LEMMA Finite ==
  ASSUME NEW sl, NEW spawns, NEW last, GensInv(sl, spawns, last)
  PROVE  /\ IsFiniteSet(LiveIn(sl)) /\ Cardinality(LiveIn(sl)) \in Nat
         /\ IsFiniteSet(spawns) /\ Cardinality(spawns) \in Nat
<1>1. IsFiniteSet(LiveIn(sl))
  BY CoreAssumption, FS_Subset DEF LiveIn
<1>2. IsFiniteSet(spawns)
  <2>1. last \in Int /\ spawns \in SUBSET (1..last)
    BY CoreAssumption DEF GensInv
  <2>2. IsFiniteSet(1..last)
    BY <2>1, FS_Interval
  <2> QED BY <2>1, <2>2, FS_Subset
<1> QED BY <1>1, <1>2, FS_CardinalityType

\* The fill asks for what is missing, with generations nobody had.
LEMMA Asked ==
  ASSUME NEW sl, NEW spawns, GensInv(sl, spawns, nextGen), NEW n,
         n = Missing(Cardinality(LiveIn(sl)) + Cardinality(spawns)), Ask(n, spawns)
  PROVE  /\ GensInv(sl, pendingSpawns', nextGen')
         /\ coreClosing => pendingSpawns' = spawns
<1> DEFINE total == Cardinality(LiveIn(sl)) + Cardinality(spawns)
           new == {g \in Gens : nextGen < g /\ g <= nextGen + n}
<1>1. /\ Cardinality(LiveIn(sl)) \in Nat /\ Cardinality(spawns) \in Nat /\ IsFiniteSet(spawns)
      /\ Target \in Nat /\ MaxGen \in Nat /\ nextGen \in 0..MaxGen
  BY Finite, CoreAssumption DEF GensInv
<1>2. n \in Nat /\ total + n <= Target /\ nextGen + n <= MaxGen /\ (coreClosing => n = 0)
  <2>1. total <= Target
    BY DEF GensInv
  <2> QED BY <1>1, <2>1 DEF Missing
<1>3. new \subseteq (nextGen + 1)..(nextGen + n)
  BY <1>1, <1>2 DEF Gens
<1>4. IsFiniteSet(new) /\ Cardinality(new) \in Nat /\ Cardinality(new) <= n
  <2>1. /\ IsFiniteSet((nextGen + 1)..(nextGen + n))
        /\ Cardinality((nextGen + 1)..(nextGen + n)) = n
    <3>1. nextGen + 1 \in Int /\ nextGen + n \in Int
      BY <1>1, <1>2
    <3>2. IF nextGen + 1 > nextGen + n THEN n = 0 ELSE n = (nextGen + n) - (nextGen + 1) + 1
      BY <1>1, <1>2
    <3> QED BY <3>1, <3>2, FS_Interval
  <2>2. new \in SUBSET ((nextGen + 1)..(nextGen + n))
    BY <1>3
  <2> HIDE DEF new
  <2> QED BY <2>1, <2>2, FS_Subset, FS_CardinalityType
<1>5. Cardinality(spawns \cup new) <= Cardinality(spawns) + n
  <2>1. /\ Cardinality(spawns \cup new)
             = Cardinality(spawns) + Cardinality(new) - Cardinality(spawns \cap new)
        /\ Cardinality(spawns \cap new) \in Nat
    <3> HIDE DEF new
    <3>1. spawns \cap new \in SUBSET spawns
      OBVIOUS
    <3>2. IsFiniteSet(spawns \cap new)
      BY <1>1, <3>1, FS_Subset
    <3> QED BY <1>1, <1>4, <3>2, FS_Union, FS_CardinalityType
  <2> HIDE DEF new
  <2> QED BY <1>1, <1>2, <1>4, <2>1
<1>6. pendingSpawns' = spawns \cup new /\ nextGen' = nextGen + n
  BY DEF Ask
<1>7. Cardinality(LiveIn(sl)) + Cardinality(pendingSpawns') <= Target
  <2>1. Cardinality(pendingSpawns') \in Nat
    <3> HIDE DEF new
    <3> QED BY <1>1, <1>4, <1>6, FS_Union, FS_CardinalityType
  <2> HIDE DEF new
  <2> QED BY <1>1, <1>2, <1>5, <1>6, <2>1
<1>8. nextGen' \in 0..MaxGen /\ pendingSpawns' \subseteq 1..nextGen'
  <2>1. spawns \subseteq 1..nextGen
    BY DEF GensInv
  <2>2. nextGen \in Nat /\ nextGen + n \in 0..MaxGen
    BY <1>1, <1>2
  <2>3. spawns \subseteq 1..(nextGen + n) /\ new \subseteq 1..(nextGen + n)
    BY <1>2, <1>3, <2>1, <2>2
  <2> HIDE DEF new
  <2> QED BY <1>6, <2>2, <2>3
<1>9. \A f \in LiveIn(sl) : sl[f].gen \in (1..nextGen') \ pendingSpawns'
  <2> SUFFICES ASSUME NEW f \in LiveIn(sl)
               PROVE  sl[f].gen \in (1..nextGen') \ pendingSpawns'
    OBVIOUS
  <2>1. sl[f].gen \in (1..nextGen) \ spawns
    BY DEF GensInv
  <2>2. sl[f].gen \notin new
    BY <1>1, <1>2, <2>1 DEF Gens
  <2>3. sl[f].gen \in 1..(nextGen + n)
    BY <1>1, <1>2, <2>1
  <2> HIDE DEF new
  <2> QED BY <1>6, <2>1, <2>2, <2>3
<1>10. coreClosing => pendingSpawns' = spawns
  <2> SUFFICES ASSUME coreClosing PROVE new = {}
    BY <1>6
  <2> QED BY <1>1, <1>2 DEF Gens
<1> QED BY <1>7, <1>8, <1>9, <1>10 DEF GensInv
\* Fewer slots and fewer expected spawns are no trouble.
LEMMA GensShrink ==
  ASSUME NEW sl, NEW less, NEW spawns, NEW fewer, NEW last, GensInv(sl, spawns, last),
         LiveIn(less) \subseteq LiveIn(sl), \A f \in LiveIn(less) : less[f].gen = sl[f].gen,
         fewer \subseteq spawns
  PROVE  GensInv(less, fewer, last)
<1>1. /\ IsFiniteSet(LiveIn(sl)) /\ Cardinality(LiveIn(sl)) \in Nat
      /\ IsFiniteSet(spawns) /\ Cardinality(spawns) \in Nat
  BY Finite
<1>2. LiveIn(less) \in SUBSET LiveIn(sl) /\ fewer \in SUBSET spawns
  OBVIOUS
<1>3. /\ IsFiniteSet(LiveIn(less)) /\ Cardinality(LiveIn(less)) <= Cardinality(LiveIn(sl))
      /\ IsFiniteSet(fewer) /\ Cardinality(fewer) <= Cardinality(spawns)
  BY <1>1, <1>2, FS_Subset
<1>4. Cardinality(LiveIn(less)) \in Nat /\ Cardinality(fewer) \in Nat /\ Target \in Nat
  BY <1>3, FS_CardinalityType, CoreAssumption
<1>5. Cardinality(LiveIn(less)) + Cardinality(fewer) <= Target
  <2>1. Cardinality(LiveIn(sl)) + Cardinality(spawns) <= Target
    BY DEF GensInv
  <2> QED BY <1>1, <1>3, <1>4, <2>1
<1>6. \A f, h \in LiveIn(less) : less[f].gen = less[h].gen => f = h
  BY <1>2 DEF GensInv
<1>7. \A f \in LiveIn(less) : less[f].gen \in (1..last) \ fewer
  BY <1>2 DEF GensInv
<1>8. last \in 0..MaxGen /\ fewer \subseteq 1..last
  BY <1>2 DEF GensInv
<1> QED BY <1>5, <1>6, <1>7, <1>8 DEF GensInv

-----------------------------------------------------------------------------
(* Each event keeps the invariant of the reducer                             *)

\* What an event has to see to before it dispatches.
LEMMA EventKeeps ==
  ASSUME NEW sl, NEW qu, JobsInv(sl, qu), OneIsEnough(sl, qu), Dispatch(sl, qu),
         GensInv(sl, pendingSpawns', nextGen'), coreClosing' => pendingSpawns' = {}
  PROVE  CoreInv'
<1>1. /\ JobsInv(slots', queue') /\ NothingToDispatch'
      /\ LiveIn(slots') = LiveIn(sl) /\ \A f \in Fds : slots'[f].gen = sl[f].gen
  BY Dispatched
<1>2. GensInv(slots', pendingSpawns', nextGen')
  BY <1>1, GensKept
<1> QED BY <1>1, <1>2 DEF CoreInv

\* Between two events nothing is left to dispatch.
LEMMA Rested ==
  ASSUME CoreInv
  PROVE  OneIsEnough(slots, queue) /\ (queue = <<>> \/ IdleIn(slots) = {})
BY DEF CoreInv, NothingToDispatch, OneIsEnough, IdleIn

\* START and RECOVER.
LEMMA FillKeeps == ASSUME CoreInv, CoreFill PROVE CoreInv'
<1>1. Live = LiveIn(slots)
  BY DEF Live, LiveIn
<1>2. /\ GensInv(slots, pendingSpawns', nextGen')
      /\ coreClosing => pendingSpawns' = pendingSpawns
  BY <1>1, Asked DEF CoreInv, CoreFill, Short
<1> QED BY <1>2, Rested, EventKeeps DEF CoreInv, CoreFill

\* SPAWNED: the descriptor matters only when the child is expected.
LEMMA SpawnedKeeps ==
  ASSUME CoreInv, NEW f, NEW g, CoreSpawned(f, g), Expected(g) => f \in Fds
  PROVE  CoreInv'
<1>1. CASE Expected(g)
  <2> DEFINE sl == [slots EXCEPT ![f] = Slot(g, "starting", NoJob)]
             spawns == pendingSpawns \ {g}
  <2>1. f \in Fds /\ g \in pendingSpawns /\ ~coreClosing /\ g \in Nat \ {0}
    BY <1>1 DEF Expected, CoreInv, GensInv
  <2>2. slots \in [Fds -> SlotSet] /\ Slot(g, "starting", NoJob) \in SlotSet
        /\ Slot(g, "starting", NoJob) # NoSlot
    BY <2>1 DEF CoreInv, JobsInv, Slot, SlotSet, SlotStates, AnyJob, NoSlot
  <2>3. /\ sl \in [Fds -> SlotSet]
        /\ \A h \in Fds : sl[h] = IF h = f THEN Slot(g, "starting", NoJob) ELSE slots[h]
    BY <2>1, <2>2
  <2>4. /\ Slot(g, "starting", NoJob).state = "starting"
        /\ Slot(g, "starting", NoJob).job = NoJob /\ Slot(g, "starting", NoJob).gen = g
    BY DEF Slot
  <2>5. JobsInv(sl, queue)
    <3> HIDE DEF sl
    <3>1. queue \in Seq(Jobs) /\ \A i \in DOMAIN queue : queue[i] # NoJob
      BY CoreAssumption DEF CoreInv, JobsInv
    <3>2. \A h \in Fds : /\ sl[h].state = "dead" => sl[h] = NoSlot
                         /\ (sl[h].job # NoJob) <=> (sl[h].state = "running")
      BY <2>3, <2>4 DEF CoreInv, JobsInv
    <3>3. \A h \in Fds, i \in DOMAIN queue : sl[h].job # queue[i]
      BY <2>3, <2>4, <3>1 DEF CoreInv, JobsInv
    <3>4. \A h, k \in Fds : sl[h].job = sl[k].job /\ sl[h].job # NoJob => h = k
      BY <2>3, <2>4 DEF CoreInv, JobsInv
    <3>5. \A i, k \in DOMAIN queue : queue[i] = queue[k] => i = k
      BY DEF CoreInv, JobsInv
    <3> QED BY <2>3, <3>1, <3>2, <3>3, <3>4, <3>5 DEF JobsInv
  <2>6. IdleIn(sl) \subseteq IdleIn(slots)
    <3> HIDE DEF sl
    <3> QED BY <2>3, <2>4 DEF IdleIn
  <2>7. OneIsEnough(sl, queue)
    BY <2>6, Rested DEF OneIsEnough
  <2>8. LiveIn(sl) = LiveIn(slots) \cup {f}
    <3> HIDE DEF sl
    <3> QED BY <2>1, <2>2, <2>3 DEF LiveIn
  <2>9. /\ Cardinality(spawns) = Cardinality(pendingSpawns) - 1
        /\ Cardinality(LiveIn(sl)) <= Cardinality(LiveIn(slots)) + 1
        /\ Cardinality(LiveIn(slots)) \in Nat /\ Cardinality(pendingSpawns) \in Nat
        /\ Cardinality(LiveIn(sl)) \in Nat /\ Cardinality(spawns) \in Nat
    <3>1. /\ IsFiniteSet(LiveIn(slots)) /\ Cardinality(LiveIn(slots)) \in Nat
          /\ IsFiniteSet(pendingSpawns) /\ Cardinality(pendingSpawns) \in Nat
      BY Finite DEF CoreInv
    <3>2. IsFiniteSet(spawns) /\ Cardinality(spawns) = Cardinality(pendingSpawns) - 1
      BY <2>1, <3>1, FS_RemoveElement
    <3>3. /\ IsFiniteSet(LiveIn(slots) \cup {f})
          /\ Cardinality(LiveIn(slots) \cup {f})
               = IF f \in LiveIn(slots) THEN Cardinality(LiveIn(slots))
                 ELSE Cardinality(LiveIn(slots)) + 1
      BY <3>1, FS_AddElement
    <3>4. Cardinality(LiveIn(sl)) \in Nat /\ Cardinality(spawns) \in Nat
      BY <2>8, <3>2, <3>3, FS_CardinalityType
    <3> HIDE DEF sl, spawns
    <3> QED BY <2>8, <3>1, <3>2, <3>3, <3>4
  <2>10. GensInv(sl, spawns, nextGen)
    <3>1. GensInv(slots, pendingSpawns, nextGen) /\ Target \in Nat
      BY CoreAssumption DEF CoreInv
    <3>2. Cardinality(LiveIn(sl)) + Cardinality(spawns) <= Target
      <4>1. Cardinality(LiveIn(slots)) + Cardinality(pendingSpawns) <= Target
        BY <3>1 DEF GensInv
      <4> HIDE DEF sl, spawns
      <4> QED BY <2>9, <3>1, <4>1
    <3>3. \A h \in LiveIn(sl) : sl[h].gen = IF h = f THEN g ELSE slots[h].gen
      <4> HIDE DEF sl
      <4> QED BY <2>3, <2>4 DEF LiveIn
    <3>4. \A h \in LiveIn(sl) : h # f => h \in LiveIn(slots) /\ slots[h].gen # g
      <4> HIDE DEF sl
      <4> QED BY <2>1, <2>8, <3>1 DEF GensInv
    <3>5. \A h, k \in LiveIn(sl) : sl[h].gen = sl[k].gen => h = k
      <4> HIDE DEF sl
      <4> QED BY <3>1, <3>3, <3>4 DEF GensInv
    <3>6. \A h \in LiveIn(sl) : sl[h].gen \in (1..nextGen) \ spawns
      <4> HIDE DEF sl
      <4> QED BY <2>1, <3>1, <3>3, <3>4 DEF GensInv
    <3> HIDE DEF sl
    <3> QED BY <3>1, <3>2, <3>5, <3>6 DEF GensInv
  <2>11. /\ Ask(ShortWith(f), spawns) /\ Dispatch(sl, queue) /\ UNCHANGED coreClosing
    BY <1>1 DEF CoreSpawned
  <2>12. ShortWith(f) = Missing(Cardinality(LiveIn(sl)) + Cardinality(spawns))
    <3>1. Live = LiveIn(slots)
      BY DEF Live, LiveIn
    <3>2. Cardinality(LiveIn(sl)) + Cardinality(spawns)
            = Cardinality(LiveIn(slots) \cup {f}) + Cardinality(pendingSpawns) - 1
      <4> HIDE DEF sl, spawns
      <4> QED BY <2>8, <2>9
    <3> HIDE DEF sl, spawns
    <3> QED BY <3>1, <3>2 DEF ShortWith
  <2>13. GensInv(sl, pendingSpawns', nextGen')
    <3> HIDE DEF sl, spawns
    <3> QED BY <2>10, <2>11, <2>12, Asked
  <2> HIDE DEF sl, spawns
  <2> QED BY <2>1, <2>5, <2>7, <2>11, <2>13, EventKeeps
<1>2. CASE ~Expected(g)
  <2>1. /\ pendingSpawns' = pendingSpawns \ {g} /\ Dispatch(slots, queue)
        /\ UNCHANGED <<nextGen, coreClosing>>
    BY <1>2 DEF CoreSpawned
  <2>2. GensInv(slots, pendingSpawns', nextGen')
    BY <2>1, GensShrink DEF CoreInv
  <2> QED BY <2>1, <2>2, Rested, EventKeeps DEF CoreInv
<1> QED BY <1>1, <1>2

\* SPAWN_FAILED.
LEMMA SpawnFailedKeeps == ASSUME CoreInv, NEW g, CoreSpawnFailed(g) PROVE CoreInv'
<1>1. GensInv(slots, pendingSpawns', nextGen')
  BY GensShrink DEF CoreInv, CoreSpawnFailed
<1> QED BY <1>1, Rested, EventKeeps DEF CoreInv, CoreSpawnFailed

\* A slot that starts or runs becomes idle.
LEMMA IdleAgain ==
  ASSUME CoreInv, NEW f \in Fds, slots[f].state \in {"starting", "running"}, NEW sl,
         sl = [slots EXCEPT ![f] = Slot(slots[f].gen, "idle", NoJob)]
  PROVE  /\ JobsInv(sl, queue) /\ OneIsEnough(sl, queue)
         /\ GensInv(sl, pendingSpawns, nextGen)
<1> DEFINE new == Slot(slots[f].gen, "idle", NoJob)
<1>1. /\ new \in SlotSet /\ new # NoSlot /\ new.state = "idle" /\ new.job = NoJob
      /\ new.gen = slots[f].gen
  BY DEF CoreInv, JobsInv, Slot, SlotSet, SlotStates, AnyJob, NoSlot
<1>2. /\ sl \in [Fds -> SlotSet]
      /\ \A h \in Fds : sl[h] = IF h = f THEN new ELSE slots[h]
  BY <1>1 DEF CoreInv, JobsInv
<1>3. slots[f] # NoSlot
  BY DEF NoSlot
<1> HIDE DEF new
<1>4. JobsInv(sl, queue)
  <2>1. queue \in Seq(Jobs) /\ \A i \in DOMAIN queue : queue[i] # NoJob
    BY CoreAssumption DEF CoreInv, JobsInv
  <2>2. \A h \in Fds : /\ sl[h].state = "dead" => sl[h] = NoSlot
                       /\ (sl[h].job # NoJob) <=> (sl[h].state = "running")
    BY <1>1, <1>2 DEF CoreInv, JobsInv
  <2>3. \A h \in Fds, i \in DOMAIN queue : sl[h].job # queue[i]
    BY <1>1, <1>2, <2>1 DEF CoreInv, JobsInv
  <2>4. \A h, k \in Fds : sl[h].job = sl[k].job /\ sl[h].job # NoJob => h = k
    BY <1>1, <1>2 DEF CoreInv, JobsInv
  <2>5. \A i, k \in DOMAIN queue : queue[i] = queue[k] => i = k
    BY DEF CoreInv, JobsInv
  <2> QED BY <1>2, <2>1, <2>2, <2>3, <2>4, <2>5 DEF JobsInv
<1>5. OneIsEnough(sl, queue)
  <2>1. CASE queue = <<>>
    BY <2>1 DEF OneIsEnough
  <2>2. CASE IdleIn(slots) = {}
    <3>1. \A h \in IdleIn(sl) : h = f
      BY <1>2, <2>2 DEF IdleIn
    <3> QED BY <3>1 DEF OneIsEnough
  <2> QED BY <2>1, <2>2, Rested
<1>6. LiveIn(sl) = LiveIn(slots) /\ \A h \in Fds : sl[h].gen = slots[h].gen
  BY <1>1, <1>2, <1>3 DEF LiveIn
<1> QED BY <1>4, <1>5, <1>6, GensKept DEF CoreInv

\* READY.
LEMMA ReadyKeeps == ASSUME CoreInv, NEW f \in Fds, NEW g, CoreReady(f, g) PROVE CoreInv'
<1>1. CASE Find(f, g) /\ slots[f].state = "starting"
  <2>1. [slots EXCEPT ![f].state = "idle"] = [slots EXCEPT ![f] = Slot(slots[f].gen, "idle", NoJob)]
    <3>1. slots \in [Fds -> SlotSet] /\ slots[f] \in SlotSet /\ slots[f].job = NoJob
      BY <1>1 DEF CoreInv, JobsInv
    <3>2. [slots[f] EXCEPT !.state = "idle"] = Slot(slots[f].gen, "idle", NoJob)
      BY <3>1 DEF SlotSet, Slot
    <3> QED BY <3>1, <3>2
  <2>2. /\ Dispatch([slots EXCEPT ![f] = Slot(slots[f].gen, "idle", NoJob)], queue)
        /\ UNCHANGED <<coreClosing, pendingSpawns, nextGen>>
    BY <1>1, <2>1 DEF CoreReady
  <2> QED BY <1>1, <2>2, IdleAgain, EventKeeps DEF CoreInv
<1>2. CASE ~(Find(f, g) /\ slots[f].state = "starting")
  <2>1. Dispatch(slots, queue) /\ UNCHANGED <<coreClosing, pendingSpawns, nextGen>>
    BY <1>2 DEF CoreReady
  <2> QED BY <2>1, Rested, EventKeeps DEF CoreInv
<1> QED BY <1>1, <1>2

\* RESULT.
LEMMA ResultKeeps ==
  ASSUME CoreInv, NEW f \in Fds, NEW g, NEW j, CoreResult(f, g, j)
  PROVE  CoreInv'
<1>1. CASE Accepts(f, g, j)
  <2>1. g = slots[f].gen /\ slots[f].state = "running"
    BY <1>1 DEF Accepts, Find
  <2>2. /\ Dispatch([slots EXCEPT ![f] = Slot(slots[f].gen, "idle", NoJob)], queue)
        /\ UNCHANGED <<coreClosing, pendingSpawns, nextGen>>
    BY <1>1, <2>1 DEF CoreResult
  <2> QED BY <2>1, <2>2, IdleAgain, EventKeeps DEF CoreInv
<1>2. CASE ~Accepts(f, g, j)
  <2>1. Dispatch(slots, queue) /\ UNCHANGED <<coreClosing, pendingSpawns, nextGen>>
    BY <1>2 DEF CoreResult
  <2> QED BY <2>1, Rested, EventKeeps DEF CoreInv
<1> QED BY <1>1, <1>2

\* SUBMIT.
LEMMA SubmitKeeps == ASSUME CoreInv, NEW j \in Jobs, CoreSubmit(j) PROVE CoreInv'
<1>1. CASE coreClosing \/ j \in Known
  <2>1. Dispatch(slots, queue) /\ UNCHANGED <<coreClosing, pendingSpawns, nextGen>>
    BY <1>1 DEF CoreSubmit
  <2> QED BY <2>1, Rested, EventKeeps DEF CoreInv
<1>2. CASE ~(coreClosing \/ j \in Known)
  <2> DEFINE qu == Append(queue, j)
  <2>1. Dispatch(slots, qu) /\ UNCHANGED <<coreClosing, pendingSpawns, nextGen>>
    BY <1>2 DEF CoreSubmit
  <2>2. queue \in Seq(Jobs) /\ j # NoJob
    BY CoreAssumption DEF CoreInv, JobsInv
  <2>3. /\ qu \in Seq(Jobs) /\ Len(qu) = Len(queue) + 1
        /\ \A i \in DOMAIN qu : IF i \in DOMAIN queue THEN qu[i] = queue[i]
                                ELSE qu[i] = j /\ i = Len(qu)
    BY <2>2
  <2>4. \A i \in DOMAIN queue : queue[i] # j
    BY <1>2 DEF Known
  <2>5. \A h \in Fds : slots[h].job # j
    <3> SUFFICES ASSUME NEW h \in Fds, slots[h].job = j PROVE FALSE
      OBVIOUS
    <3>1. slots[h] # NoSlot
      BY <2>2 DEF NoSlot
    <3> QED BY <1>2, <3>1 DEF Known, Live
  <2>6. JobsInv(slots, qu)
    <3> HIDE DEF qu
    <3>1. \A i, k \in DOMAIN qu : qu[i] = qu[k] => i = k
      BY <2>3, <2>4 DEF CoreInv, JobsInv
    <3>2. \A h \in Fds, i \in DOMAIN qu : slots[h].job # qu[i]
      BY <2>3, <2>5 DEF CoreInv, JobsInv
    <3> QED BY <2>3, <3>1, <3>2 DEF CoreInv, JobsInv
  <2>7. OneIsEnough(slots, qu)
    <3>1. CASE queue = <<>>
      BY <2>3, <3>1 DEF OneIsEnough
    <3>2. CASE IdleIn(slots) = {}
      BY <3>2 DEF OneIsEnough
    <3> QED BY <3>1, <3>2, Rested
  <2> HIDE DEF qu
  <2> QED BY <2>1, <2>6, <2>7, EventKeeps DEF CoreInv
<1> QED BY <1>1, <1>2

\* EOF and SEND_FAILED.
LEMMA LostKeeps == ASSUME CoreInv, NEW f, NEW g, CoreLost(f, g) PROVE CoreInv'
<1>1. CASE Find(f, g)
  <2> DEFINE sl == [slots EXCEPT ![f] = NoSlot]
  <2>1. Dispatch(sl, queue) /\ UNCHANGED <<coreClosing, pendingSpawns, nextGen>>
    BY <1>1 DEF CoreLost
  <2>2. slots \in [Fds -> SlotSet] /\ NoSlot \in SlotSet
        /\ NoSlot.state = "dead" /\ NoSlot.job = NoJob
    BY DEF CoreInv, JobsInv, NoSlot, SlotSet, SlotStates, AnyJob
  <2>3. sl \in [Fds -> SlotSet] /\ \A h \in Fds : sl[h] = IF h = f THEN NoSlot ELSE slots[h]
    BY <2>2
  <2> HIDE DEF sl
  <2>4. queue \in Seq(Jobs) /\ \A i \in DOMAIN queue : queue[i] # NoJob
    BY CoreAssumption DEF CoreInv, JobsInv
  <2>5. JobsInv(sl, queue)
    BY <2>2, <2>3, <2>4 DEF CoreInv, JobsInv
  <2>6. OneIsEnough(sl, queue)
    <3>1. IdleIn(sl) \subseteq IdleIn(slots)
      BY <2>2, <2>3 DEF IdleIn
    <3> QED BY <3>1, Rested DEF OneIsEnough
  <2>7. GensInv(sl, pendingSpawns, nextGen)
    <3>1. LiveIn(sl) \subseteq LiveIn(slots) /\ \A h \in LiveIn(sl) : sl[h].gen = slots[h].gen
      BY <2>3 DEF LiveIn
    <3> QED BY <3>1, GensShrink DEF CoreInv
  <2> QED BY <2>1, <2>5, <2>6, <2>7, EventKeeps DEF CoreInv
<1>2. CASE ~Find(f, g)
  <2>1. Dispatch(slots, queue) /\ UNCHANGED <<coreClosing, pendingSpawns, nextGen>>
    BY <1>2 DEF CoreLost
  <2> QED BY <2>1, Rested, EventKeeps DEF CoreInv
<1> QED BY <1>1, <1>2

\* CLOSE.
LEMMA CloseKeeps == ASSUME CoreInv, CoreClose PROVE CoreInv'
<1>1. CASE coreClosing
  <2>1. UNCHANGED <<slots, queue, pendingSpawns, nextGen>>
    BY <1>1 DEF CoreClose
  <2> QED BY <1>1, <2>1 DEF CoreInv, JobsInv, GensInv, NothingToDispatch, LiveIn
<1>2. CASE ~coreClosing
  <2>1. /\ queue' = <<>> /\ pendingSpawns' = {} /\ nextGen' = nextGen
        /\ slots' = [f \in Fds |-> IF f \in Live THEN Slot(slots[f].gen, "stopping", NoJob)
                                                 ELSE NoSlot]
    BY <1>2 DEF CoreClose
  <2>2. /\ slots \in [Fds -> SlotSet] /\ NoSlot \in SlotSet
        /\ NoSlot.state = "dead" /\ NoSlot.job = NoJob
    BY DEF CoreInv, JobsInv, NoSlot, SlotSet, SlotStates, AnyJob
  <2>3. \A f \in Live : LET s == Slot(slots[f].gen, "stopping", NoJob)
                        IN  /\ s \in SlotSet /\ s # NoSlot /\ s.state = "stopping"
                            /\ s.job = NoJob /\ s.gen = slots[f].gen
    BY <2>2 DEF Slot, NoSlot, SlotSet, SlotStates, AnyJob, Live
  <2>4. /\ slots' \in [Fds -> SlotSet]
        /\ \A f \in Fds : /\ slots'[f].job = NoJob /\ slots'[f].state # "running"
                          /\ slots'[f].state = "dead" => slots'[f] = NoSlot
    BY <2>1, <2>2, <2>3
  <2>5. JobsInv(slots', queue')
    <3>1. queue' \in Seq(Jobs) /\ DOMAIN queue' = {}
      BY <2>1
    <3> QED BY <2>4, <3>1 DEF JobsInv
  <2>6. /\ LiveIn(slots') \subseteq LiveIn(slots)
        /\ \A f \in LiveIn(slots') : slots'[f].gen = slots[f].gen
    BY <2>1, <2>3 DEF LiveIn, Live
  <2>7. GensInv(slots', pendingSpawns', nextGen')
    BY <2>1, <2>6, GensShrink DEF CoreInv
  <2> QED BY <2>1, <2>5, <2>7 DEF CoreInv, NothingToDispatch
<1> QED BY <1>1, <1>2

\* DEADLINE.
LEMMA DeadlineKeeps == ASSUME CoreInv, CoreDeadline PROVE CoreInv'
BY Rested, EventKeeps DEF CoreInv, CoreDeadline
-----------------------------------------------------------------------------
(* The steps of the pool                                                     *)

\* One event, or none.
Event ==
  \/ UNCHANGED core
  \/ CoreFill \/ CoreClose \/ CoreDeadline
  \/ \E f, g : CoreSpawned(f, g) /\ (Expected(g) => f \in Fds)
  \/ \E g : CoreSpawnFailed(g)
  \/ \E f \in Fds : \E g : CoreReady(f, g) \/ \E j : CoreResult(f, g, j)
  \/ \E j \in Jobs : CoreSubmit(j)
  \/ \E f, g : CoreLost(f, g)

\* The driver changes the reducer by its events only, whatever fiber it is in.
LEMMA EventsOnly == ASSUME IInv, [PoolNext]_vars PROVE Event
<1>1. ASSUME NEW f \in Fibers, Drive(f) PROVE Event
  <2>1. CASE SpawnSucceeds(f)
    <3>1. /\ CoreSpawned(fdOf[Subject(f)], Subject(f))
          /\ child[Subject(f)].is = "forking"
      BY <2>1 DEF SpawnSucceeds
    <3>2. Expected(Subject(f)) => Subject(f) \in Gens
      <4>1. GensInv(slots, pendingSpawns, nextGen)
        BY DEF IInv, CoreInv
      <4>2. pendingSpawns \subseteq 1..nextGen /\ nextGen \in 0..MaxGen /\ MaxGen \in Nat
        BY <4>1, CoreAssumption DEF GensInv
      <4>3. pendingSpawns \subseteq Gens
        BY <4>2 DEF Gens
      <4> QED BY <4>3 DEF Expected
    <3>3. Expected(Subject(f)) => fdOf[Subject(f)] \in Fds
      BY <3>1, <3>2 DEF IInv, SocketsInv
    <3> QED BY <3>1, <3>3 DEF Event
  <2>2. CASE ~SpawnSucceeds(f)
    BY <1>1, <2>2 DEF Drive, DriveSpawn, DriveSend, DriveSettle, CancelReader, DriveDrop,
                      DriveClose, DriveReap, ReapReturns, DriveSkip, Event
  <2> QED BY <2>1, <2>2
<1>2. CASE Start \/ StartDriven \/ StartReady \/ StartRaises \/ Close
  BY <1>2 DEF Start, StartDriven, StartReady, StartRaises, Close, Event
<1>3. CASE SubmitDriven \/ \E j \in Jobs : Submit(j)
  BY <1>3 DEF Submit, SubmitDriven, Event
<1>4. CASE Recover \/ \E f \in Recoverers : RecoverDriven(f)
  BY <1>4 DEF Recover, RecoverDriven, Event
<1>5. ASSUME NEW g \in Gens, Read(g) PROVE Event
  <2>1. fdOf[g] \in Fds
    BY <1>5 DEF Read, InSlots, IInv, SocketsInv
  <2>2. \/ UNCHANGED core \/ CoreLost(fdOf[g], g) \/ CoreReady(fdOf[g], g)
        \/ \E j : CoreResult(fdOf[g], g, j)
    BY <1>5 DEF Read, Lose
  <2> QED BY <2>1, <2>2 DEF Event
<1>6. ASSUME NEW g \in Gens, ReadDriven(g) \/ LoseTask(g) \/ LoseDriven(g) \/ SendDriven(g)
      PROVE  Event
  BY <1>6 DEF ReadDriven, LoseTask, Lose, LoseDriven, SendDriven, Event
<1>7. ASSUME NEW t \in tasks, SendTask(t) PROVE Event
  BY <1>7 DEF SendTask, Event
<1>8. CASE CloseStops \/ CloseStopped \/ CloseKills \/ CloseKilled \/ CloseEnds
  BY <1>8 DEF CloseStops, CloseStopped, CloseKills, CloseKilled, CloseEnds, Event
<1>9. ASSUME NEW g \in Gens, CloseDrains(g) PROVE Event
  BY <1>9 DEF CloseDrains, Event
<1>10. ASSUME NEW f \in Fibers, SpawnFails(f) PROVE Event
  BY <1>10 DEF SpawnFails, Event
<1>11. ASSUME NEW g \in Gens, ChildWorks(g) \/ ChildDies(g) \/ ChildGarbles(g) PROVE Event
  BY <1>11 DEF ChildWorks, ChildDies, ChildGarbles, ChildReady, ChildTakes, ChildEnds,
               ChildAnswers, ChildStep, Event
<1>12. CASE UNCHANGED vars
  BY <1>12 DEF vars, Event
<1> QED BY <1>1, <1>2, <1>3, <1>4, <1>5, <1>6, <1>7, <1>8, <1>9, <1>10, <1>11, <1>12
        DEF PoolNext, LoopStep

\* An event keeps the invariant of the reducer.
LEMMA EventsKeep == ASSUME CoreInv, Event PROVE CoreInv'
<1>1. CASE UNCHANGED core
  BY <1>1 DEF core, CoreInv, JobsInv, GensInv, NothingToDispatch, LiveIn
<1> QED BY <1>1, FillKeeps, CloseKeeps, DeadlineKeeps, SpawnedKeeps, SpawnFailedKeeps, ReadyKeeps,
           ResultKeeps, SubmitKeeps, LostKeeps DEF Event

\* A descriptor is given to a process when it is made, and never changed.
LEMMA SocketsKept == ASSUME SocketsInv, [PoolNext]_vars PROVE SocketsInv'
<1>1. ASSUME NEW f \in Fibers, DriveSpawn(f) PROVE SocketsInv'
  <2>1. PICK d \in Fds : /\ fdOf' = [fdOf EXCEPT ![Subject(f)] = d]
                         /\ child' = [child EXCEPT ![Subject(f)] = Process("forking", NoJob)]
    BY <1>1 DEF DriveSpawn
  <2>2. \A g \in Gens : /\ fdOf'[g] = IF g = Subject(f) THEN d ELSE fdOf[g]
                        /\ g # Subject(f) => child'[g] = child[g]
    BY <2>1 DEF SocketsInv
  <2>3. fdOf' = [g \in Gens |-> fdOf'[g]] /\ child' = [g \in Gens |-> child'[g]]
    BY <2>1 DEF SocketsInv
  <2> QED BY <2>2, <2>3 DEF SocketsInv
<1>2. ASSUME UNCHANGED fdOf, NEW g, NEW p, p.is # "forking", child' = [child EXCEPT ![g] = p]
      PROVE  SocketsInv'
  <2>1. \A h \in Gens : child'[h] = IF h = g THEN p ELSE child[h]
    BY <1>2 DEF SocketsInv
  <2>2. child' = [h \in Gens |-> child'[h]]
    BY <1>2 DEF SocketsInv
  <2> QED BY <1>2, <2>1, <2>2 DEF SocketsInv
<1>3. \A s, j : Process(s, j).is = s
  BY DEF Process
<1>4. ASSUME UNCHANGED <<child, fdOf>> PROVE SocketsInv'
  BY <1>4 DEF SocketsInv
<1>5. ASSUME NEW f \in Fibers, Drive(f) \/ SpawnFails(f) PROVE SocketsInv'
  <2>1. CASE DriveSpawn(f)
    BY <1>1, <2>1
  <2>2. CASE SpawnSucceeds(f) \/ SpawnFails(f) \/ ReapReturns(f)
    <3>1. /\ UNCHANGED fdOf
          /\ \E s \in {"booting", "none", "reaped"} :
               child' = [child EXCEPT ![Subject(f)] = Process(s, NoJob)]
      BY <2>2 DEF SpawnSucceeds, SpawnFails, ReapReturns, table
    <3>2. PICK s \in {"booting", "none", "reaped"} :
            child' = [child EXCEPT ![Subject(f)] = Process(s, NoJob)]
      BY <3>1
    <3>3. Process(s, NoJob).is # "forking"
      BY <1>3
    <3> QED BY <1>2, <3>1, <3>2, <3>3
  <2>3. CASE \/ DriveSend(f) \/ DriveSettle(f) \/ CancelReader(f) \/ DriveDrop(f)
             \/ DriveClose(f) \/ DriveReap(f) \/ DriveSkip(f)
    BY <1>4, <2>3 DEF DriveSend, DriveSettle, CancelReader, DriveDrop, DriveClose, DriveReap,
                      DriveSkip, process, table
  <2> QED BY <1>5, <2>1, <2>2, <2>3 DEF Drive
<1>6. ASSUME NEW g \in Gens, ChildWorks(g) \/ ChildDies(g) \/ ChildGarbles(g)
      PROVE  SocketsInv'
  <2>1. CASE ChildGarbles(g)
    <3>1. child' = [child EXCEPT ![g] = child[g]] /\ UNCHANGED fdOf
      BY <2>1 DEF ChildGarbles, ChildStep, table
    <3>2. child' = child
      BY <3>1 DEF SocketsInv
    <3> QED BY <1>4, <3>1, <3>2
  <2>2. CASE ChildWorks(g) \/ ChildDies(g)
    <3>1. /\ UNCHANGED fdOf
          /\ \E s \in {"idle", "working", "exited"} : \E j :
               child' = [child EXCEPT ![g] = Process(s, j)]
      BY <2>2 DEF ChildWorks, ChildDies, ChildReady, ChildTakes, ChildEnds, ChildAnswers,
                  ChildStep, table
    <3>2. PICK s \in {"idle", "working", "exited"} :
            \E j : child' = [child EXCEPT ![g] = Process(s, j)]
      BY <3>1
    <3>3. PICK j : child' = [child EXCEPT ![g] = Process(s, j)]
      BY <3>2
    <3>4. Process(s, j).is # "forking"
      BY <1>3
    <3> QED BY <1>2, <3>1, <3>3, <3>4
  <2> QED BY <1>6, <2>1, <2>2
<1>7. CASE \/ Start \/ StartDriven \/ StartReady \/ StartRaises \/ Close
           \/ SubmitDriven \/ \E j \in Jobs : Submit(j)
           \/ Recover \/ \E f \in Recoverers : RecoverDriven(f)
           \/ CloseStops \/ CloseStopped \/ CloseKills \/ CloseKilled \/ CloseEnds
           \/ UNCHANGED vars
  BY <1>4, <1>7 DEF Start, StartDriven, StartReady, StartRaises, Close, Submit, SubmitDriven,
                    Recover, RecoverDriven, CloseStops, CloseStopped, CloseKills, CloseKilled,
                    CloseEnds, vars, process, table
<1>8. CASE \/ \E g \in Gens : \/ Read(g) \/ ReadDriven(g) \/ LoseTask(g) \/ LoseDriven(g)
                              \/ SendDriven(g) \/ CloseDrains(g)
           \/ \E t \in tasks : SendTask(t)
  BY <1>4, <1>8 DEF Read, ReadDriven, LoseTask, LoseDriven, SendDriven, CloseDrains, SendTask,
                    process, table
<1> QED BY <1>5, <1>6, <1>7, <1>8 DEF PoolNext, LoopStep

\* The initial states satisfy the invariant.
LEMMA InitInv == Init => IInv
<1> SUFFICES ASSUME Init PROVE IInv
  OBVIOUS
<1>1. /\ slots = [f \in Fds |-> NoSlot] /\ queue = <<>> /\ pendingSpawns = {} /\ nextGen = 0
      /\ Target \in Nat /\ MaxGen \in Nat
  BY CoreAssumption DEF Init, CoreInit
<1>2. NoSlot \in SlotSet /\ NoSlot.job = NoJob /\ NoSlot.state = "dead"
  BY DEF NoSlot, SlotSet, SlotStates, AnyJob
<1>3. JobsInv(slots, queue) /\ NothingToDispatch
  BY <1>1, <1>2 DEF JobsInv, NothingToDispatch
<1>4. LiveIn(slots) = {}
  BY <1>1 DEF LiveIn
<1>5. Cardinality(LiveIn(slots)) + Cardinality(pendingSpawns) <= Target
  BY <1>1, <1>4, FS_EmptySet
<1>6. GensInv(slots, pendingSpawns, nextGen)
  BY <1>1, <1>4, <1>5 DEF GensInv
<1>7. SocketsInv
  BY DEF Init, SocketsInv, Process
<1> QED BY <1>1, <1>3, <1>6, <1>7 DEF IInv, CoreInv

-----------------------------------------------------------------------------
(* What the events do to the slots and the queue, and what they ask for      *)

\* An effect a fiber may have to perform: the child of a SEND_RUN exists.
Doable == {e \in Effects : e.kind = "SEND_RUN" => e.gen \in Gens}

\* Nothing is handed out by an event that makes no slot idle and adds no job.
LEMMA Calm ==
  ASSUME CoreInv, NEW sl \in [Fds -> SlotSet], IdleIn(sl) \subseteq IdleIn(slots),
         \A h \in Fds : sl[h] = slots[h] \/ sl[h].state # "running", Dispatch(sl, queue)
  PROVE  slots' = sl /\ queue' = queue /\ SendRun = <<>>
<1>1. queue = <<>> \/ IdleIn(sl) = {}
  BY Rested
<1>2. slots' = sl /\ queue' = queue
  BY <1>1 DEF Dispatch, IdleIn
<1>3. {f \in Fds : slots'[f].state = "running" /\ slots'[f] # slots[f]} = {}
  BY <1>2
<1> QED BY <1>2, <1>3 DEF SendRun

\* One job is handed out, or none.
LEMMA HandsOut ==
  ASSUME NEW sl \in [Fds -> SlotSet], NEW qu \in Seq(Jobs), Dispatch(sl, qu),
         \A h \in Fds : sl[h] = slots[h] \/ sl[h].state # "running",
         \A h \in Fds, i \in DOMAIN qu : slots[h].job # qu[i]
  PROVE  \/ slots' = sl /\ queue' = qu /\ SendRun = <<>>
         \/ /\ qu # <<>> /\ queue' = Tail(qu)
            /\ \E f \in Fds :
                 /\ sl[f].state = "idle"
                 /\ slots' = [sl EXCEPT ![f] = Slot(sl[f].gen, "running", Head(qu))]
                 /\ SendRun = <<Effect("SEND_RUN", sl[f].gen, Head(qu))>>
<1>1. CASE slots' = sl /\ queue' = qu
  <2>1. {f \in Fds : slots'[f].state = "running" /\ slots'[f] # slots[f]} = {}
    BY <1>1
  <2> QED BY <1>1, <2>1 DEF SendRun
<1>2. CASE ~(slots' = sl /\ queue' = qu)
  <2>1. PICK f \in Fds : /\ sl[f].state = "idle"
                         /\ slots' = [sl EXCEPT ![f] = Slot(sl[f].gen, "running", Head(qu))]
    BY <1>2 DEF Dispatch
  <2>2. qu # <<>> /\ queue' = Tail(qu)
    BY <1>2 DEF Dispatch
  <2>3. Head(qu) = qu[1] /\ 1 \in DOMAIN qu
    BY <2>2
  <2>4. /\ slots'[f] = Slot(sl[f].gen, "running", Head(qu))
        /\ \A h \in Fds : h # f => slots'[h] = sl[h]
    BY <2>1
  <2>5. /\ slots'[f].state = "running" /\ slots'[f].gen = sl[f].gen
        /\ slots'[f].job = Head(qu)
    BY <2>4 DEF Slot
  <2>6. slots'[f] # slots[f]
    BY <2>3, <2>5
  <2>7. {h \in Fds : slots'[h].state = "running" /\ slots'[h] # slots[h]} = {f}
    BY <2>4, <2>5, <2>6
  <2>8. SendRun = <<Effect("SEND_RUN", sl[f].gen, Head(qu))>>
    BY <2>5, <2>7 DEF SendRun
  <2> QED BY <2>1, <2>2, <2>8
<1> QED BY <1>1, <1>2

\* START and RECOVER ask for new generations.
LEMMA FillForm ==
  ASSUME CoreInv, CoreFill
  PROVE  /\ UNCHANGED <<slots, queue, coreClosing>>
         /\ Short \in Nat /\ nextGen' = nextGen + Short /\ nextGen' <= MaxGen
         /\ pendingSpawns' = pendingSpawns \cup {g \in Gens : nextGen < g /\ g <= nextGen'}
         /\ FillEffects = Spawns(Short)
<1>1. /\ Cardinality(Live) \in Nat /\ Cardinality(pendingSpawns) \in Nat
      /\ Target \in Nat /\ MaxGen \in Nat /\ nextGen \in 0..MaxGen
  <2>1. Live = LiveIn(slots)
    BY DEF Live, LiveIn
  <2> QED BY <2>1, Finite, CoreAssumption DEF CoreInv, GensInv
<1>2. Short \in Nat /\ nextGen + Short <= MaxGen
  BY <1>1 DEF Short, Missing
<1>3. UNCHANGED <<slots, queue>> /\ SendRun = <<>>
  <2>1. slots \in [Fds -> SlotSet]
    BY DEF CoreInv, JobsInv
  <2> QED BY <2>1, Calm DEF CoreFill
<1>4. Spawns(Short) \o <<>> = Spawns(Short)
  <2>1. Spawns(Short) \in Seq(Effects)
    <3>1. \A i \in 1..Short : Effect("SPAWN", nextGen + i, NoJob) \in Effects
      BY <1>1, <1>2 DEF Effect, Effects, Gens
    <3> HIDE DEF Short
    <3> QED BY <1>2, <3>1 DEF Spawns
  <2> HIDE DEF Spawns
  <2> QED BY <2>1
<1> HIDE DEF Short
<1> QED BY <1>2, <1>3, <1>4 DEF CoreFill, Ask, FillEffects

\* Appending nothing.
LEMMA NothingMore ==
  ASSUME NEW S, NEW s \in Seq(S)
  PROVE  s \o <<>> = s
OBVIOUS

\* What the driver has to do when a slot is gone.
LEMMA DiscardForm ==
  ASSUME NEW g
  PROVE  /\ Len(Discard(g)) = 4 /\ DOMAIN Discard(g) = 1..4
         /\ Discard(g)[1] = Effect("DROP", g, NoJob)
         /\ Discard(g)[2] = Effect("CLOSE_CONTROL", g, NoJob)
         /\ Discard(g)[3] = Effect("CLOSE_DEATH", g, NoJob)
         /\ Discard(g)[4] = Effect("REAP", g, NoJob)
         /\ g \in Gens => Discard(g) \in Seq(Doable)
<1>1. g \in Gens => \A k \in {"DROP", "CLOSE_CONTROL", "CLOSE_DEATH", "REAP"} :
                       Effect(k, g, NoJob) \in Doable
  BY DEF Effect, Effects, Doable
<1> QED BY <1>1 DEF Discard

\* SPAWNED enters the slot and asks for what is missing, or has the child discarded.
LEMMA SpawnedForm ==
  ASSUME CoreInv, NEW f, NEW g \in Gens, CoreSpawned(f, g), Expected(g) => f \in Fds
  PROVE  /\ UNCHANGED <<queue, coreClosing>>
         /\ \/ /\ Expected(g) /\ ShortWith(f) \in Nat
               /\ slots' = [slots EXCEPT ![f] = Slot(g, "starting", NoJob)]
               /\ nextGen' = nextGen + ShortWith(f) /\ nextGen' <= MaxGen
               /\ pendingSpawns' = (pendingSpawns \ {g})
                                     \cup {h \in Gens : nextGen < h /\ h <= nextGen'}
               /\ SpawnedEffects(f, g) = Spawns(ShortWith(f))
            \/ /\ ~Expected(g) /\ UNCHANGED <<slots, nextGen>>
               /\ pendingSpawns' = pendingSpawns \ {g}
               /\ SpawnedEffects(f, g) = Discard(g)
<1>0. slots \in [Fds -> SlotSet]
  BY DEF CoreInv, JobsInv
<1>1. CASE Expected(g)
  <2>1. /\ Cardinality(Live \cup {f}) \in Nat /\ Cardinality(pendingSpawns) \in Nat \ {0}
        /\ Target \in Nat /\ MaxGen \in Nat /\ nextGen \in 0..MaxGen
    <3>1. /\ IsFiniteSet(Live) /\ IsFiniteSet(pendingSpawns)
          /\ Cardinality(pendingSpawns) \in Nat
      <4>1. Live = LiveIn(slots)
        BY DEF Live, LiveIn
      <4> QED BY <4>1, Finite DEF CoreInv
    <3>2. Cardinality(Live \cup {f}) \in Nat
      BY <3>1, FS_AddElement, FS_CardinalityType
    <3>3. Cardinality(pendingSpawns) # 0
      BY <1>1, <3>1, FS_EmptySet DEF Expected
    <3> QED BY <3>1, <3>2, <3>3, CoreAssumption DEF CoreInv, GensInv
  <2>2. ShortWith(f) \in Nat /\ nextGen + ShortWith(f) <= MaxGen
    BY <2>1 DEF ShortWith, Missing
  <2> DEFINE sl == [slots EXCEPT ![f] = Slot(g, "starting", NoJob)]
  <2>3. sl \in [Fds -> SlotSet] /\ \A h \in Fds : sl[h] = slots[h] \/ sl[h].state = "starting"
    <3>1. Slot(g, "starting", NoJob) \in SlotSet /\ Slot(g, "starting", NoJob).state = "starting"
      BY DEF Slot, SlotSet, SlotStates, AnyJob, Gens
    <3> QED BY <1>0, <3>1
  <2>4. Dispatch(sl, queue) /\ Ask(ShortWith(f), pendingSpawns \ {g}) /\ UNCHANGED coreClosing
    BY <1>1 DEF CoreSpawned
  <2>5. IdleIn(sl) \subseteq IdleIn(slots)
    <3> HIDE DEF sl
    <3> QED BY <2>3 DEF IdleIn
  <2>6. slots' = sl /\ queue' = queue /\ SendRun = <<>>
    <3> HIDE DEF sl
    <3> QED BY <2>3, <2>4, <2>5, Calm
  <2>7. SpawnedEffects(f, g) = Spawns(ShortWith(f)) \o <<>>
    BY <1>1, <2>6 DEF SpawnedEffects
  <2>8. Spawns(ShortWith(f)) \in Seq(Effects)
    <3>1. \A i \in 1..ShortWith(f) : Effect("SPAWN", nextGen + i, NoJob) \in Effects
      BY <2>1, <2>2 DEF Effect, Effects, Gens
    <3> HIDE DEF ShortWith
    <3> QED BY <2>2, <3>1 DEF Spawns
  <2>9. SpawnedEffects(f, g) = Spawns(ShortWith(f))
    BY <2>7, <2>8, NothingMore
  <2> HIDE DEF ShortWith
  <2> QED BY <1>1, <2>2, <2>4, <2>6, <2>9 DEF Ask
<1>2. CASE ~Expected(g)
  <2>1. /\ Dispatch(slots, queue) /\ UNCHANGED <<coreClosing, nextGen>>
        /\ pendingSpawns' = pendingSpawns \ {g}
    BY <1>2 DEF CoreSpawned
  <2>2. slots' = slots /\ queue' = queue /\ SendRun = <<>>
    BY <1>0, <2>1, Calm
  <2>3. SpawnedEffects(f, g) = Discard(g) \o <<>>
    BY <1>2, <2>2 DEF SpawnedEffects
  <2>4. SpawnedEffects(f, g) = Discard(g)
    BY <2>3, DiscardForm, NothingMore
  <2> QED BY <1>2, <2>1, <2>2, <2>4
<1> QED BY <1>1, <1>2

\* EOF and SEND_FAILED: the slot is gone, or it already was.
LEMMA LostForm ==
  ASSUME CoreInv, NEW f, NEW g \in Gens, CoreLost(f, g), f \in Fds
  PROVE  /\ UNCHANGED <<queue, coreClosing, pendingSpawns, nextGen>>
         /\ \/ /\ slots[f] # NoSlot /\ slots[f].gen = g
               /\ slots' = [slots EXCEPT ![f] = NoSlot]
               /\ LostEffects(f, g) = IF slots[f].job = NoJob THEN Discard(g)
                                      ELSE Append(Discard(g), Effect("FAIL", g, slots[f].job))
            \/ /\ slots[f].gen # g
               /\ UNCHANGED slots
               /\ LostEffects(f, g) = <<>>
<1>0. slots \in [Fds -> SlotSet] /\ slots[f] \in SlotSet
  BY DEF CoreInv, JobsInv
<1>1. CASE Find(f, g)
  <2> DEFINE sl == [slots EXCEPT ![f] = NoSlot]
  <2>1. sl \in [Fds -> SlotSet] /\ \A h \in Fds : sl[h] = slots[h] \/ sl[h].state = "dead"
    <3>1. NoSlot \in SlotSet /\ NoSlot.state = "dead"
      BY DEF NoSlot, SlotSet, SlotStates, AnyJob
    <3> QED BY <1>0, <3>1
  <2>2. Dispatch(sl, queue) /\ UNCHANGED <<coreClosing, pendingSpawns, nextGen>>
    BY <1>1 DEF CoreLost
  <2>3. IdleIn(sl) \subseteq IdleIn(slots)
    <3> HIDE DEF sl
    <3> QED BY <2>1 DEF IdleIn
  <2>4. slots' = sl /\ queue' = queue /\ SendRun = <<>>
    <3> HIDE DEF sl
    <3> QED BY <2>1, <2>2, <2>3, Calm
  <2>5. Effect("FAIL", g, slots[f].job) \in Effects \/ slots[f].job = NoJob
    BY <1>0 DEF SlotSet, AnyJob, Effect, Effects
  <2>6. CASE slots[f].job = NoJob
    <3>1. LostEffects(f, g) = Discard(g) \o <<>>
      BY <1>1, <2>4, <2>6 DEF LostEffects
    <3>2. LostEffects(f, g) = Discard(g)
      BY <3>1, DiscardForm, NothingMore
    <3> QED BY <1>1, <2>2, <2>4, <2>6, <3>2 DEF Find
  <2>7. CASE slots[f].job # NoJob
    <3> DEFINE s == Append(Discard(g), Effect("FAIL", g, slots[f].job))
    <3>1. LostEffects(f, g) = s \o <<>>
      BY <1>1, <2>4, <2>7 DEF LostEffects
    <3>2. s \in Seq(Effects)
      <4>1. Discard(g) \in Seq(Effects)
        <5>1. Discard(g) \in Seq(Doable) /\ Doable \subseteq Effects
          BY DiscardForm DEF Doable
        <5> HIDE DEF Effects
        <5> QED BY <5>1
      <4> HIDE DEF Effects
      <4> QED BY <2>5, <2>7, <4>1
    <3>3. LostEffects(f, g) = s
      <4> HIDE DEF s
      <4> QED BY <3>1, <3>2, NothingMore
    <3> QED BY <1>1, <2>2, <2>4, <2>7, <3>3 DEF Find
  <2> QED BY <2>6, <2>7
<1>2. CASE ~Find(f, g)
  <2>1. slots[f].gen # g
    BY <1>2 DEF Find, NoSlot, Gens
  <2>2. Dispatch(slots, queue) /\ UNCHANGED <<coreClosing, pendingSpawns, nextGen>>
    BY <1>2 DEF CoreLost
  <2>3. slots' = slots /\ queue' = queue /\ SendRun = <<>>
    BY <1>0, <2>2, Calm
  <2>4. LostEffects(f, g) = <<>>
    BY <1>2, <2>3 DEF LostEffects
  <2> QED BY <2>1, <2>2, <2>3, <2>4
<1> QED BY <1>1, <1>2

\* What a dispatch over sl and qu did.
Handed(sl, qu) ==
  \/ slots' = sl /\ queue' = qu /\ SendRun = <<>>
  \/ /\ qu # <<>> /\ queue' = Tail(qu)
     /\ \E f \in Fds :
          /\ sl[f].state = "idle"
          /\ slots' = [sl EXCEPT ![f] = Slot(sl[f].gen, "running", Head(qu))]
          /\ SendRun = <<Effect("SEND_RUN", sl[f].gen, Head(qu))>>

\* A slot that becomes idle takes the next job.
LEMMA IdleTakes ==
  ASSUME CoreInv, NEW f \in Fds, slots[f].state \in {"starting", "running"}, NEW sl,
         sl = [slots EXCEPT ![f] = Slot(slots[f].gen, "idle", NoJob)], Dispatch(sl, queue)
  PROVE  Handed(sl, queue)
<1>1. JobsInv(sl, queue)
  BY IdleAgain
<1>2. \A h \in Fds : sl[h] = slots[h] \/ sl[h].state # "running"
  <2>1. Slot(slots[f].gen, "idle", NoJob).state = "idle"
    BY DEF Slot
  <2>2. slots \in [Fds -> SlotSet]
    BY DEF CoreInv, JobsInv
  <2> QED BY <2>1, <2>2
<1>3. \A h \in Fds, i \in DOMAIN queue : slots[h].job # queue[i]
  BY DEF CoreInv, JobsInv
<1>4. sl \in [Fds -> SlotSet] /\ queue \in Seq(Jobs)
  BY <1>1 DEF JobsInv
<1> QED BY <1>2, <1>3, <1>4, HandsOut DEF Handed

\* READY.
LEMMA ReadyForm ==
  ASSUME CoreInv, NEW f \in Fds, NEW g \in Gens, CoreReady(f, g)
  PROVE  /\ UNCHANGED <<coreClosing, pendingSpawns, nextGen>>
         /\ \/ UNCHANGED <<slots, queue>> /\ SendRun = <<>>
            \/ /\ slots[f].gen = g /\ slots[f].state = "starting"
               /\ Handed([slots EXCEPT ![f] = Slot(g, "idle", NoJob)], queue)
<1>0. slots \in [Fds -> SlotSet]
  BY DEF CoreInv, JobsInv
<1>1. CASE Find(f, g) /\ slots[f].state = "starting"
  <2>1. [slots EXCEPT ![f].state = "idle"] = [slots EXCEPT ![f] = Slot(slots[f].gen, "idle", NoJob)]
    <3>1. slots[f] \in SlotSet /\ slots[f].job = NoJob
      BY <1>0, <1>1 DEF CoreInv, JobsInv
    <3>2. [slots[f] EXCEPT !.state = "idle"] = Slot(slots[f].gen, "idle", NoJob)
      BY <3>1 DEF SlotSet, Slot
    <3> QED BY <1>0, <3>1, <3>2
  <2>2. /\ Dispatch([slots EXCEPT ![f] = Slot(slots[f].gen, "idle", NoJob)], queue)
        /\ UNCHANGED <<coreClosing, pendingSpawns, nextGen>> /\ slots[f].gen = g
    BY <1>1, <2>1 DEF CoreReady, Find
  <2> QED BY <1>1, <2>2, IdleTakes
<1>2. CASE ~(Find(f, g) /\ slots[f].state = "starting")
  <2>1. Dispatch(slots, queue) /\ UNCHANGED <<coreClosing, pendingSpawns, nextGen>>
    BY <1>2 DEF CoreReady
  <2> QED BY <1>0, <2>1, Calm
<1> QED BY <1>1, <1>2

\* RESULT.
LEMMA ResultForm ==
  ASSUME CoreInv, NEW f \in Fds, NEW g \in Gens, NEW j, NEW ok, CoreResult(f, g, j)
  PROVE  /\ UNCHANGED <<coreClosing, pendingSpawns, nextGen>>
         /\ \/ /\ ~Accepts(f, g, j) /\ UNCHANGED <<slots, queue>>
               /\ ResultEffects(f, g, j, ok) = <<>>
            \/ /\ slots[f] = Slot(g, "running", j)
               /\ Handed([slots EXCEPT ![f] = Slot(g, "idle", NoJob)], queue)
               /\ ResultEffects(f, g, j, ok)
                    = <<Effect(IF ok THEN "RESOLVE" ELSE "FAIL", g, j)>> \o SendRun
<1>0. slots \in [Fds -> SlotSet]
  BY DEF CoreInv, JobsInv
<1>1. CASE Accepts(f, g, j)
  <2>1. slots[f] = Slot(g, "running", j)
    BY <1>0, <1>1 DEF Accepts, Find, SlotSet, Slot
  <2>2. slots[f].state = "running" /\ slots[f].gen = g
    BY <1>1 DEF Accepts, Find
  <2>3. /\ Dispatch([slots EXCEPT ![f] = Slot(g, "idle", NoJob)], queue)
        /\ UNCHANGED <<coreClosing, pendingSpawns, nextGen>>
    BY <1>1 DEF CoreResult
  <2>4. Handed([slots EXCEPT ![f] = Slot(g, "idle", NoJob)], queue)
    BY <2>2, <2>3, IdleTakes
  <2> QED BY <1>1, <2>1, <2>3, <2>4 DEF ResultEffects
<1>2. CASE ~Accepts(f, g, j)
  <2>1. Dispatch(slots, queue) /\ UNCHANGED <<coreClosing, pendingSpawns, nextGen>>
    BY <1>2 DEF CoreResult
  <2>2. slots' = slots /\ queue' = queue /\ SendRun = <<>>
    BY <1>0, <2>1, Calm
  <2>3. ResultEffects(f, g, j, ok) = <<>> \o <<>>
    BY <1>2, <2>2 DEF ResultEffects
  <2>4. ResultEffects(f, g, j, ok) = <<>>
    BY <2>3
  <2> QED BY <1>2, <2>1, <2>2, <2>4
<1> QED BY <1>1, <1>2

\* SUBMIT.
LEMMA SubmitForm ==
  ASSUME CoreInv, NEW j \in Jobs, CoreSubmit(j)
  PROVE  /\ UNCHANGED <<coreClosing, pendingSpawns, nextGen>>
         /\ \/ UNCHANGED <<slots, queue>> /\ SendRun = <<>> /\ (coreClosing \/ j \in Known)
            \/ Handed(slots, Append(queue, j)) /\ ~coreClosing
<1>0. slots \in [Fds -> SlotSet] /\ queue \in Seq(Jobs)
  BY DEF CoreInv, JobsInv
<1>1. CASE coreClosing \/ j \in Known
  <2>1. Dispatch(slots, queue) /\ UNCHANGED <<coreClosing, pendingSpawns, nextGen>>
    BY <1>1 DEF CoreSubmit
  <2> QED BY <1>0, <1>1, <2>1, Calm
<1>2. CASE ~(coreClosing \/ j \in Known)
  <2> DEFINE qu == Append(queue, j)
  <2>1. Dispatch(slots, qu) /\ UNCHANGED <<coreClosing, pendingSpawns, nextGen>>
    BY <1>2 DEF CoreSubmit
  <2>2. /\ qu \in Seq(Jobs)
        /\ \A i \in DOMAIN qu : IF i \in DOMAIN queue THEN qu[i] = queue[i] ELSE qu[i] = j
    BY <1>0
  <2>3. \A h \in Fds : slots[h].job # j
    <3> SUFFICES ASSUME NEW h \in Fds, slots[h].job = j PROVE FALSE
      OBVIOUS
    <3>1. slots[h] # NoSlot
      BY CoreAssumption DEF NoSlot
    <3> QED BY <1>2, <3>1 DEF Known, Live
  <2>4. \A h \in Fds, i \in DOMAIN qu : slots[h].job # qu[i]
    <3> HIDE DEF qu
    <3> QED BY <2>2, <2>3 DEF CoreInv, JobsInv
  <2>5. Handed(slots, qu)
    <3> HIDE DEF qu
    <3> QED BY <1>0, <2>1, <2>2, <2>4, HandsOut DEF Handed
  <2> QED BY <1>2, <2>1, <2>5
<1> QED BY <1>1, <1>2

\* DEADLINE.
LEMMA DeadlineForm ==
  ASSUME CoreInv, CoreDeadline
  PROVE  UNCHANGED core /\ SendRun = <<>>
<1>0. slots \in [Fds -> SlotSet]
  BY DEF CoreInv, JobsInv
<1> QED BY <1>0, Calm DEF CoreDeadline, core

\* SPAWN_FAILED.
LEMMA SpawnFailedForm ==
  ASSUME CoreInv, NEW g, CoreSpawnFailed(g)
  PROVE  /\ UNCHANGED <<slots, queue, coreClosing, nextGen>>
         /\ pendingSpawns' = pendingSpawns \ {g} /\ SendRun = <<>>
<1>0. slots \in [Fds -> SlotSet]
  BY DEF CoreInv, JobsInv
<1> QED BY <1>0, Calm DEF CoreSpawnFailed

\* A list of a finite set.
LEMMA ListedForm ==
  ASSUME NEW F, IsFiniteSet(F)
  PROVE  /\ Cardinality(F) \in Nat /\ Listed(F) \in [1..Cardinality(F) -> F]
         /\ \A f \in F : \E i \in 1..Cardinality(F) : Listed(F)[i] = f
         /\ DOMAIN Listed(F) = 1..Cardinality(F)
<1>1. Cardinality(F) \in Nat /\ ExistsBijection(1..Cardinality(F), F)
  <2>1. Cardinality(F) \in Nat
    BY FS_CardinalityType
  <2>2. IsFiniteSet(1..Cardinality(F)) /\ Cardinality(1..Cardinality(F)) = Cardinality(F)
    BY <2>1, FS_Interval
  <2>3. ExistsBijection(1..Cardinality(F), F)
    BY <2>2, FS_SameCardinalityBij
  <2> QED BY <2>1, <2>3
<1>2. \E s \in [1..Cardinality(F) -> F] : \A f \in F : \E i \in DOMAIN s : s[i] = f
  BY <1>1 DEF ExistsBijection, Bijection, Surjection
<1>3. /\ Listed(F) \in [1..Cardinality(F) -> F]
      /\ \A f \in F : \E i \in DOMAIN Listed(F) : Listed(F)[i] = f
  BY <1>2 DEF Listed
<1> QED BY <1>1, <1>3

\* One sequence after another.
LEMMA ConcatForm ==
  ASSUME NEW S, NEW s \in Seq(S), NEW t \in Seq(S)
  PROVE  /\ s \o t \in Seq(S) /\ Len(s \o t) = Len(s) + Len(t)
         /\ \A i \in 1..Len(s) : (s \o t)[i] = s[i]
         /\ \A i \in 1..Len(t) : (s \o t)[Len(s) + i] = t[i]
         /\ \A i \in 1..Len(s \o t) :
              \/ i \in 1..Len(s) /\ (s \o t)[i] = s[i]
              \/ i - Len(s) \in 1..Len(t) /\ (s \o t)[i] = t[i - Len(s)]
<1>1. s \o t \in Seq(S) /\ Len(s \o t) = Len(s) + Len(t) /\ Len(s) \in Nat /\ Len(t) \in Nat
  OBVIOUS
<1>2. \A i \in 1..Len(s) : (s \o t)[i] = s[i]
  OBVIOUS
<1>3. \A i \in 1..Len(t) : (s \o t)[Len(s) + i] = t[i]
  OBVIOUS
<1>4. ASSUME NEW i \in 1..Len(s \o t)
      PROVE  \/ i \in 1..Len(s) /\ (s \o t)[i] = s[i]
             \/ i - Len(s) \in 1..Len(t) /\ (s \o t)[i] = t[i - Len(s)]
  <2>1. CASE i <= Len(s)
    <3>1. i \in 1..Len(s)
      BY <1>1, <1>4, <2>1
    <3> QED BY <1>2, <3>1
  <2>2. CASE i > Len(s)
    <3>1. i - Len(s) \in 1..Len(t) /\ Len(s) + (i - Len(s)) = i
      BY <1>1, <1>4, <2>2
    <3> QED BY <1>3, <3>1
  <2> QED BY <1>1, <1>4, <2>1, <2>2
<1> QED BY <1>1, <1>2, <1>3, <1>4

\* What is left of a sequence.
LEMMA TailForm ==
  ASSUME NEW S, NEW s \in Seq(S), s # <<>>
  PROVE  /\ Tail(s) \in Seq(S) /\ Len(Tail(s)) = Len(s) - 1 /\ Len(s) \in Nat \ {0}
         /\ Head(s) = s[1] /\ 1 \in 1..Len(s) /\ Head(s) \in S
         /\ \A i \in 1..Len(Tail(s)) : i + 1 \in 1..Len(s) /\ Tail(s)[i] = s[i + 1]
         /\ \A i \in 2..Len(s) : i - 1 \in 1..Len(Tail(s)) /\ Tail(s)[i - 1] = s[i]
<1>1. /\ Tail(s) \in Seq(S) /\ Len(Tail(s)) = Len(s) - 1 /\ Len(s) \in Nat \ {0}
      /\ Head(s) = s[1] /\ Head(s) \in S
  OBVIOUS
<1>2. \A i \in 1..Len(Tail(s)) : i + 1 \in 1..Len(s) /\ Tail(s)[i] = s[i + 1]
  OBVIOUS
<1>3. ASSUME NEW i \in 2..Len(s)
      PROVE  i - 1 \in 1..Len(Tail(s)) /\ Tail(s)[i - 1] = s[i]
  <2>1. i - 1 \in 1..Len(Tail(s)) /\ (i - 1) + 1 = i
    BY <1>1
  <2> QED BY <1>2, <2>1
<1> QED BY <1>1, <1>2, <1>3

\* The spawns that are asked for.
LEMMA SpawnsForm ==
  ASSUME CoreInv, NEW n \in Nat, nextGen + n <= MaxGen
  PROVE  /\ Spawns(n) \in Seq(Doable) /\ Len(Spawns(n)) = n
         /\ \A i \in 1..n : /\ Spawns(n)[i] = Effect("SPAWN", nextGen + i, NoJob)
                            /\ nextGen + i \in Gens /\ nextGen + i > nextGen
<1>1. nextGen \in Nat /\ MaxGen \in Nat
  BY CoreAssumption DEF CoreInv, GensInv
<1>2. \A i \in 1..n : nextGen + i \in Gens /\ nextGen + i > nextGen
  BY <1>1 DEF Gens
<1>3. \A i \in 1..n : Effect("SPAWN", nextGen + i, NoJob) \in Doable
  BY <1>2 DEF Effect, Effects, Doable
<1>4. Spawns(n) \in [1..n -> Doable]
  BY <1>3 DEF Spawns
<1>5. Spawns(n) \in Seq(Doable) /\ Len(Spawns(n)) = n
  BY <1>4
<1> QED BY <1>2, <1>5 DEF Spawns

\* CLOSE: every job is failed, then every child is told to stop.
LEMMA CloseForm ==
  ASSUME CoreInv, CoreClose, ~coreClosing
  PROVE  /\ coreClosing' = TRUE /\ queue' = <<>> /\ pendingSpawns' = {} /\ nextGen' = nextGen
         /\ slots' = [f \in Fds |-> IF f \in Live THEN Slot(slots[f].gen, "stopping", NoJob)
                                    ELSE NoSlot]
         /\ CloseEffects \in Seq(Doable)
         /\ \A i \in 1..Len(CloseEffects) : CloseEffects[i].kind \in {"FAIL", "SEND_STOP"}
         /\ \A k \in 1..Len(queue) : \E i \in 1..Len(CloseEffects) :
              CloseEffects[i].kind = "FAIL" /\ CloseEffects[i].job = queue[k]
         /\ \A f \in Fds : slots[f].job # NoJob => \E i \in 1..Len(CloseEffects) :
              CloseEffects[i].kind = "FAIL" /\ CloseEffects[i].job = slots[f].job
         /\ Live # {} => CloseEffects # <<>>
<1> DEFINE B == {f \in Live : slots[f].job # NoJob}
           busy == Listed(B)
           live == Listed(Live)
           s1 == [i \in DOMAIN queue |-> Effect("FAIL", 0, queue[i])]
           s2 == [i \in DOMAIN busy |-> Effect("FAIL", slots[busy[i]].gen, slots[busy[i]].job)]
           s3 == [i \in DOMAIN live |-> Effect("SEND_STOP", slots[live[i]].gen, NoJob)]
<1>1. CloseEffects = s1 \o s2 \o s3
  BY DEF CloseEffects
<1>2. /\ slots \in [Fds -> SlotSet] /\ queue \in Seq(Jobs)
      /\ \A f \in Live : f \in Fds /\ slots[f].gen \in Gens /\ slots[f].job \in AnyJob
      /\ \A f \in B : f \in Live /\ slots[f].job \in Jobs
  <2>1. /\ slots \in [Fds -> SlotSet] /\ queue \in Seq(Jobs)
        /\ Live = LiveIn(slots) /\ Live \subseteq Fds
    BY DEF CoreInv, JobsInv, Live, LiveIn
  <2>2. \A f \in Live : slots[f].gen \in Gens
    <3>1. \A f \in Live : slots[f].gen \in 1..nextGen
      BY <2>1 DEF CoreInv, GensInv
    <3>2. nextGen \in 0..MaxGen /\ MaxGen \in Nat
      BY CoreAssumption DEF CoreInv, GensInv
    <3> QED BY <3>1, <3>2 DEF Gens
  <2> QED BY <2>1, <2>2 DEF SlotSet, AnyJob
<1>3. IsFiniteSet(Live) /\ IsFiniteSet(B)
  <2>1. Live \subseteq Fds /\ B \subseteq Fds
    BY <1>2
  <2> HIDE DEF B
  <2> QED BY <2>1, CoreAssumption, FS_Subset
<1>4. /\ Cardinality(Live) \in Nat /\ live \in [1..Cardinality(Live) -> Live]
      /\ DOMAIN live = 1..Cardinality(Live)
      /\ \A f \in Live : \E i \in 1..Cardinality(Live) : live[i] = f
  BY <1>3, ListedForm
<1>5. /\ Cardinality(B) \in Nat /\ busy \in [1..Cardinality(B) -> B]
      /\ DOMAIN busy = 1..Cardinality(B)
      /\ \A f \in B : \E i \in 1..Cardinality(B) : busy[i] = f
  <2> HIDE DEF B
  <2> QED BY <1>3, ListedForm
<1>6. /\ s1 \in Seq(Doable) /\ Len(s1) = Len(queue)
      /\ \A i \in 1..Len(queue) : s1[i] = Effect("FAIL", 0, queue[i])
  <2>1. \A i \in 1..Len(queue) : Effect("FAIL", 0, queue[i]) \in Doable
    BY <1>2 DEF Effect, Effects, Doable
  <2>2. DOMAIN queue = 1..Len(queue) /\ Len(queue) \in Nat
    BY <1>2
  <2>3. s1 \in [1..Len(queue) -> Doable]
    BY <2>1, <2>2
  <2> QED BY <2>2, <2>3
<1>7. s2 \in Seq(Doable) /\ Len(s2) = Cardinality(B)
      /\ \A i \in 1..Cardinality(B) : s2[i] = Effect("FAIL", slots[busy[i]].gen, slots[busy[i]].job)
  <2> HIDE DEF B, busy
  <2>1. \A i \in 1..Cardinality(B) : busy[i] \in B
    BY <1>5
  <2>2. \A f \in B : Effect("FAIL", slots[f].gen, slots[f].job) \in Doable
    BY <1>2 DEF Effect, Effects, Doable
  <2>3. s2 \in [1..Cardinality(B) -> Doable]
    BY <1>5, <2>1, <2>2
  <2>4. s2 \in Seq(Doable) /\ Len(s2) = Cardinality(B)
    <3> HIDE DEF s2
    <3> QED BY <1>5, <2>3
  <2> QED BY <1>5, <2>4
<1>8. s3 \in Seq(Doable) /\ Len(s3) = Cardinality(Live)
      /\ \A i \in 1..Cardinality(Live) : s3[i] = Effect("SEND_STOP", slots[live[i]].gen, NoJob)
  <2> HIDE DEF live
  <2>1. \A i \in 1..Cardinality(Live) : live[i] \in Live
    BY <1>4
  <2>2. \A f \in Live : Effect("SEND_STOP", slots[f].gen, NoJob) \in Doable
    BY <1>2 DEF Effect, Effects, Doable
  <2>3. s3 \in [1..Cardinality(Live) -> Doable]
    BY <1>4, <2>1, <2>2
  <2>4. s3 \in Seq(Doable) /\ Len(s3) = Cardinality(Live)
    <3> HIDE DEF s3
    <3> QED BY <1>4, <2>3
  <2> QED BY <1>4, <2>4
<1>9. \A k, g, j : Effect(k, g, j).kind = k /\ Effect(k, g, j).job = j
  BY DEF Effect
<1> HIDE DEF s1, s2, s3, busy, live
<1> DEFINE s12 == s1 \o s2
<1>10. /\ s12 \in Seq(Doable) /\ Len(s12) = Len(s1) + Len(s2)
       /\ \A i \in 1..Len(s1) : s12[i] = s1[i]
       /\ \A i \in 1..Len(s2) : s12[Len(s1) + i] = s2[i]
       /\ \A i \in 1..Len(s12) : \/ i \in 1..Len(s1) /\ s12[i] = s1[i]
                                 \/ i - Len(s1) \in 1..Len(s2) /\ s12[i] = s2[i - Len(s1)]
  <2>1. s1 \in Seq(Doable) /\ s2 \in Seq(Doable)
    BY <1>6, <1>7
  <2> QED BY <2>1, ConcatForm
<1> HIDE DEF s12
<1>11. CloseEffects = s12 \o s3
  BY <1>1 DEF s12
<1>12. /\ s12 \o s3 \in Seq(Doable) /\ Len(s12 \o s3) = Len(s12) + Len(s3)
       /\ \A i \in 1..Len(s12) : (s12 \o s3)[i] = s12[i]
       /\ \A i \in 1..Len(s12 \o s3) :
            \/ i \in 1..Len(s12) /\ (s12 \o s3)[i] = s12[i]
            \/ i - Len(s12) \in 1..Len(s3) /\ (s12 \o s3)[i] = s3[i - Len(s12)]
  <2>1. s12 \in Seq(Doable) /\ s3 \in Seq(Doable)
    BY <1>8, <1>10
  <2> QED BY <2>1, ConcatForm
<1> DEFINE s == CloseEffects
<1>13. /\ s \in Seq(Doable) /\ Len(s) = Len(s1) + Len(s2) + Len(s3)
       /\ Len(s1) \in Nat /\ Len(s2) \in Nat /\ Len(s3) \in Nat
  BY <1>6, <1>7, <1>8, <1>10, <1>11, <1>12
<1>14. \A i \in 1..Len(s) : s[i].kind \in {"FAIL", "SEND_STOP"}
  <2> SUFFICES ASSUME NEW i \in 1..Len(s) PROVE s[i].kind \in {"FAIL", "SEND_STOP"}
    OBVIOUS
  <2>1. CASE i \in 1..Len(s12) /\ s[i] = s12[i]
    <3>1. s12[i].kind = "FAIL"
      <4>1. CASE i \in 1..Len(s1) /\ s12[i] = s1[i]
        BY <1>6, <1>9, <4>1
      <4>2. CASE i - Len(s1) \in 1..Len(s2) /\ s12[i] = s2[i - Len(s1)]
        BY <1>7, <1>9, <4>2
      <4> QED BY <1>10, <2>1, <4>1, <4>2
    <3> QED BY <2>1, <3>1
  <2>2. CASE i - Len(s12) \in 1..Len(s3) /\ s[i] = s3[i - Len(s12)]
    BY <1>8, <1>9, <2>2
  <2> QED BY <1>11, <1>12, <2>1, <2>2
<1>15. ASSUME NEW k \in 1..Len(queue)
       PROVE  \E i \in 1..Len(s) : s[i].kind = "FAIL" /\ s[i].job = queue[k]
  <2>1. k \in 1..Len(s1) /\ k \in 1..Len(s12) /\ k \in 1..Len(s)
    BY <1>6, <1>10, <1>13
  <2>2. s[k] = s1[k]
    BY <1>10, <1>11, <1>12, <2>1
  <2> QED BY <1>6, <1>9, <2>1, <2>2
<1>16. ASSUME NEW f \in Fds, slots[f].job # NoJob
       PROVE  \E i \in 1..Len(s) : s[i].kind = "FAIL" /\ s[i].job = slots[f].job
  <2>1. f \in B
    BY <1>16 DEF Live, NoSlot
  <2>2. PICK k \in 1..Cardinality(B) : busy[k] = f
    BY <1>5, <2>1
  <2>3. k \in 1..Len(s2) /\ Len(s1) + k \in 1..Len(s12) /\ Len(s1) + k \in 1..Len(s)
    <3> HIDE DEF B
    <3> QED BY <1>7, <1>10, <1>13
  <2>4. s[Len(s1) + k] = s2[k]
    BY <1>10, <1>11, <1>12, <2>3
  <2> QED BY <1>7, <1>9, <2>2, <2>3, <2>4
<1>17. Live # {} => s # <<>>
  <2> SUFFICES ASSUME Live # {} PROVE Len(s) # 0
    OBVIOUS
  <2>1. Cardinality(Live) # 0
    BY <1>3, FS_EmptySet
  <2> QED BY <1>4, <1>8, <1>13, <2>1
<1> HIDE DEF s
<1> QED BY <1>13, <1>14, <1>15, <1>16, <1>17 DEF CoreClose, s

\* DEADLINE: what is left is killed.
LEMMA KillForm ==
  ASSUME CoreInv, SendRun = <<>>
  PROVE  /\ DeadlineEffects \in Seq(Doable)
         /\ \A i \in 1..Len(DeadlineEffects) : DeadlineEffects[i].kind = "KILL"
<1> DEFINE live == Listed(Live)
           s == [i \in DOMAIN live |-> Effect("KILL", slots[live[i]].gen, NoJob)]
<1>1. IsFiniteSet(Live)
  BY CoreAssumption, FS_Subset DEF Live
<1>2. /\ Cardinality(Live) \in Nat /\ live \in [1..Cardinality(Live) -> Live]
      /\ DOMAIN live = 1..Cardinality(Live)
  BY <1>1, ListedForm
<1>3. \A f \in Live : slots[f].gen \in Gens
  <2>1. \A f \in Live : slots[f].gen \in 1..nextGen
    <3>1. Live = LiveIn(slots)
      BY DEF Live, LiveIn
    <3> QED BY <3>1 DEF CoreInv, GensInv
  <2>2. nextGen \in 0..MaxGen /\ MaxGen \in Nat
    BY CoreAssumption DEF CoreInv, GensInv
  <2> QED BY <2>1, <2>2 DEF Gens
<1>4. \A f \in Live : Effect("KILL", slots[f].gen, NoJob) \in Doable
  BY <1>3 DEF Effect, Effects, Doable
<1>5. s \in Seq(Doable) /\ Len(s) = Cardinality(Live)
  <2> HIDE DEF live
  <2>1. \A i \in 1..Cardinality(Live) : live[i] \in Live
    BY <1>2
  <2>2. s \in [1..Cardinality(Live) -> Doable]
    BY <1>2, <1>4, <2>1
  <2> HIDE DEF s
  <2> QED BY <1>2, <2>2
<1>6. \A i \in 1..Len(s) : s[i].kind = "KILL"
  <2> HIDE DEF live
  <2> QED BY <1>2, <1>5 DEF Effect
<1>7. DeadlineEffects = IF ~coreClosing THEN <<>> ELSE s \o <<>>
  BY DEF DeadlineEffects
<1> HIDE DEF s
<1>8. s \o <<>> = s
  BY <1>5, NothingMore
<1>9. CASE coreClosing
  BY <1>5, <1>6, <1>7, <1>8, <1>9
<1>10. CASE ~coreClosing
  BY <1>7, <1>10
<1> QED BY <1>9, <1>10

-----------------------------------------------------------------------------
(* Theorems                                                                  *)

\* The inductive invariant: what the reducer's next event needs of the slots, the
\* queue and the spawns, and of the descriptors the driver gives it.
THEOREM Invariance == Spec => []IInv
<1>1. IInv /\ [PoolNext]_vars => IInv'
  BY EventsOnly, EventsKeep, SocketsKept DEF IInv
<1> QED BY InitInv, <1>1, PTL DEF Spec

\* assert_invariants never fails, in whatever order spawns, messages, losses,
\* recoveries and close() reach the reducer.  (ReaperCore.apply.)
THEOREM AssertionsHold == Spec => []CoreAsserts
<1>1. IInv => CoreAsserts
  <2> SUFFICES ASSUME IInv PROVE CoreAsserts
    OBVIOUS
  <2>1. Live = LiveIn(slots)
    BY DEF Live, LiveIn
  <2>2. \A f \in Live : f \in Fds
    BY DEF Live
  <2>3. nextGen \in Nat /\ \A g \in pendingSpawns : g <= nextGen
    BY DEF IInv, CoreInv, GensInv
  <2>4. \A f \in Live : slots[f].gen \notin pendingSpawns /\ slots[f].gen <= nextGen
    BY <2>1, <2>3 DEF IInv, CoreInv, GensInv
  <2> QED BY <2>1, <2>2, <2>3, <2>4 DEF IInv, CoreInv, JobsInv, GensInv, CoreAsserts
<1> QED BY <1>1, Invariance, PTL

\* No job waits next to an idle slot, though every event hands out one job at
\* most.  (ReaperCore.dispatch.)
THEOREM DispatchIsComplete == Spec => []NothingToDispatch
<1>1. IInv => NothingToDispatch
  BY DEF IInv, CoreInv
<1> QED BY <1>1, Invariance, PTL
=============================================================================
