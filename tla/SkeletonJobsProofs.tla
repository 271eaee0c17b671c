------------------------ MODULE SkeletonJobsProofs -------------------------
(***************************************************************************)
(* Proof that SkeletonPool loses no job, for every size of pool and every  *)
(* number of descriptors, children and submissions: a job in `jobs` is     *)
(* queued, has a slot, or some drive() has its RESOLVE or FAIL still to    *)
(* perform.  That is not inductive, for three reasons.  An event puts a    *)
(* new list of effects over the one its fiber has, so a fiber that owes a  *)
(* settlement must not be given one; close() forgets what the readers it   *)
(* cancels had to do, so they must owe nothing; and once the reducer       *)
(* closes it drops its queue and its slots, so no job may reach them       *)
(* afterwards. The invariants here say where drive() suspends (RestInv),   *)
(* what the phases of close() leave (QuietInv), what a reader clears       *)
(* (ReaderInv), and that a skeleton has one run at a time, in one place    *)
(* (FlightInv).                                                            *)
(*                                                                         *)
(* It goes on to prove that the slot objects, SkeletonPool's copy of what  *)
(* the reducer knows, are up to date whenever the loop is free: a fiber    *)
(* that leaves them behind calls sync_slots in the same turn (SeenInv),    *)
(* and the job send_run writes into one is the job its slot has (RunInv).  *)
(***************************************************************************)
EXTENDS SkeletonDriverProofs

-----------------------------------------------------------------------------
(* Where drive() suspends                                                    *)

\* The effects drive() suspends at.
Slow == {"SPAWN", "DROP", "REAP"}

\* The effects that only follow an event.
Quick == {"SEND_RUN", "SEND_STOP", "RESOLVE", "KILL"}

\* No effect waits behind one that suspends, except FAIL and those that clear away.
Apart(s) == \A i, k \in DOMAIN s : s[i].kind \in Slow => s[k].kind \notin Quick

\* A run is sent last.
SendLast(s) == \A i \in DOMAIN s : s[i].kind = "SEND_RUN" => i = Len(s)

\* Nothing is left, or the next effect suspends.
Rests(s) == s = <<>> \/ s[1].kind \in Slow

\* A fiber that the loop has left rests at an effect that suspends.
RestInv ==
  \A f \in Fibers : Apart(todo[f]) /\ SendLast(todo[f]) /\ (turn # f => Rests(todo[f]))

\* The loop leaves a fiber where it suspends, or when it is done.
LEMMA Yields ==
  ASSUME DriverInv, PoolNext
  PROVE  \/ turn = Loop
         \/ turn' = turn
         \/ /\ turn' = Loop /\ UNCHANGED todo /\ Rests(todo[turn])
            /\ turn = Closer /\ todo[Closer] = <<>> => CloseStopped \/ CloseEnds
            /\ Heads(turn, "DROP") => CancelReader(turn)
<1> DEFINE G == \/ turn = Loop
                \/ turn' = turn
                \/ /\ turn' = Loop /\ UNCHANGED todo /\ Rests(todo[turn])
                   /\ turn = Closer /\ todo[Closer] = <<>> => CloseStopped \/ CloseEnds
                   /\ Heads(turn, "DROP") => CancelReader(turn)
<1> SUFFICES G
  OBVIOUS
<1>1. ASSUME turn = Loop \/ turn' = turn PROVE G
  BY <1>1
<1>2. ASSUME NEW f, Returns(f), turn' = Loop, UNCHANGED todo,
             f # Closer \/ CloseStopped \/ CloseEnds
      PROVE  G
  BY <1>2 DEF Returns, Rests, Heads
<1>3. ASSUME NEW f \in Fibers, NEW kind \in Slow, Performs(f, kind), turn' = Loop, UNCHANGED todo,
             kind = "DROP" => CancelReader(f)
      PROVE  G
  <2>1. turn = f /\ todo[f][1].kind = kind
    BY <1>3, First DEF Performs, DriverInv, TablesInv
  <2>2. todo[f] # <<>> /\ (Heads(f, "DROP") => kind = "DROP")
    BY <1>3 DEF Performs, Heads
  <2> QED BY <1>3, <2>1, <2>2 DEF Rests
<1> HIDE DEF G
<1>4. CASE Elsewhere
  <2>1. CASE StartDriven \/ SubmitDriven
    BY <1>2, <2>1, FiberNames DEF StartDriven, SubmitDriven
  <2>2. CASE \E f \in Recoverers : RecoverDriven(f)
    BY <1>2, <2>2, FiberNames DEF RecoverDriven
  <2>3. CASE \E g \in Gens : ReadDriven(g) \/ LoseDriven(g) \/ SendDriven(g)
    <3>1. \A g \in Gens : Reader(g) # Closer /\ Loser(g) # Closer /\ Sender(g) # Closer
      BY FiberNames
    <3> QED BY <1>2, <2>3, <3>1 DEF ReadDriven, LoseDriven, SendDriven
  <2>4. CASE CloseStopped \/ CloseEnds
    BY <1>1, <1>2, <2>4 DEF CloseStopped, CloseEnds, Returns
  <2>5. CASE CloseKilled \/ StartReady \/ StartRaises \/ Close
    BY <1>1, <2>5 DEF CloseKilled, StartReady, StartRaises, Close, event
  <2>6. ASSUME NEW f \in Fibers, DriveSpawn(f) PROVE G
    BY <1>3, <2>6 DEF DriveSpawn, Slow
  <2>7. ASSUME NEW f \in Fibers, CancelReader(f) PROVE G
    BY <1>3, <2>7 DEF CancelReader, Slow
  <2>8. ASSUME NEW f \in Fibers, DriveReap(f) PROVE G
    BY <1>3, <2>8 DEF DriveReap, Slow
  <2> QED BY <1>4, <2>1, <2>2, <2>3, <2>4, <2>5, <2>6, <2>7, <2>8 DEF Elsewhere
<1>5. CASE Children
  BY <1>1, <1>5, ChildrenForm
<1>6. ASSUME NEW f \in Fibers, \/ DriveSend(f) \/ DriveSettle(f) \/ DriveDrop(f)
                               \/ DriveClose(f) \/ ReapReturns(f) \/ DriveSkip(f)
      PROVE  G
  BY <1>1, <1>6, Pops
<1>7. CASE \E f \in Fibers : SpawnSucceeds(f) \/ SpawnFails(f)
  BY <1>1, <1>7 DEF SpawnSucceeds, SpawnFails, Resumes
<1>8. CASE Start \/ Recover \/ \E j \in Jobs : Submit(j)
  BY <1>1, <1>8 DEF Start, Recover, Submit
<1>9. CASE \E g \in Gens : Read(g) \/ LoseTask(g)
  BY <1>1, <1>9 DEF Read, LoseTask
<1>10. CASE CloseStops \/ CloseKills \/ \E t \in tasks : SendTask(t)
  BY <1>1, <1>10, KillsForm DEF CloseStops, SendTask
<1>11. ASSUME NEW g \in Gens, CloseDrains(g) PROVE G
  BY <1>1, <1>11 DEF CloseDrains, Returns, Run
<1> QED BY <1>4, <1>5, <1>6, <1>7, <1>8, <1>9, <1>10, <1>11, Steps

\* What is left of a list of effects.
LEMMA TailRests ==
  ASSUME DriverInv, NEW f \in Fibers, NEW kind, Heads(f, kind), Apart(todo[f]), SendLast(todo[f])
  PROVE  /\ Apart(Tail(todo[f])) /\ SendLast(Tail(todo[f]))
         /\ kind \in Slow => \A i \in DOMAIN Tail(todo[f]) : Tail(todo[f])[i].kind \notin Quick
         /\ kind = "SEND_RUN" => Tail(todo[f]) = <<>>
<1>1. /\ todo[f] # <<>> /\ 1 \in DOMAIN todo[f] /\ todo[f][1].kind = kind
      /\ DOMAIN todo[f] = 1..Len(todo[f]) /\ Len(todo[f]) \in Nat \ {0}
      /\ Tail(todo[f]) \in Seq(Doable) /\ Len(Tail(todo[f])) = Len(todo[f]) - 1
      /\ DOMAIN Tail(todo[f]) = 1..Len(Tail(todo[f]))
      /\ \A i \in 1..Len(Tail(todo[f])) :
           i + 1 \in 1..Len(todo[f]) /\ Tail(todo[f])[i] = todo[f][i + 1]
  BY First DEF DriverInv, TablesInv
<1> DEFINE t == Tail(todo[f])
<1> HIDE DEF t
<1>2. Apart(t)
  BY <1>1 DEF Apart, t
<1>3. SendLast(t)
  BY <1>1 DEF SendLast, t
<1>4. kind \in Slow => \A i \in DOMAIN t : t[i].kind \notin Quick
  BY <1>1 DEF Apart, t
<1>5. ASSUME kind = "SEND_RUN" PROVE t = <<>>
  <2>1. Len(todo[f]) = 1
    BY <1>1, <1>5 DEF SendLast
  <2>2. t \in Seq(Doable) /\ Len(t) = 0
    BY <1>1, <2>1 DEF t
  <2> QED BY <2>2
<1> QED BY <1>2, <1>3, <1>4, <1>5 DEF t

\* A list without effects that only follow an event.
LEMMA SlowRests ==
  ASSUME NEW s, \A i \in DOMAIN s : s[i].kind \notin Quick
  PROVE  Apart(s) /\ SendLast(s)
BY DEF Apart, SendLast, Quick

\* A child that is entered leaves its fiber nothing that only follows an event.
LEMMA EnteredSlow ==
  ASSUME DriverInv, RestInv, NEW h \in Fibers, SpawnSucceeds(h)
  PROVE  \A i \in DOMAIN todo'[h] : todo'[h][i].kind \notin Quick
<1>0. todo \in [Fibers -> Seq(Doable)] /\ CoreInv
  BY DEF DriverInv, TablesInv, PoolTypes, EventTypes
<1>1. Heads(h, "SPAWN") /\ Subject(h) \in Gens /\ Entered(h, Subject(h))
  BY EnteredForm DEF SpawnSucceeds, Resumes
<1>2. /\ \A i \in DOMAIN Tail(todo[h]) : Tail(todo[h])[i].kind \notin Quick
      /\ Tail(todo[h]) \in Seq(Doable)
  BY <1>1, TailRests, First DEF RestInv, Slow, DriverInv, TablesInv
<1>3. ASSUME NEW t, t \in Seq(Doable), \A i \in DOMAIN t : t[i].kind \notin Quick,
             todo' = [todo EXCEPT ![h] = Tail(todo[h]) \o t]
      PROVE  \A i \in DOMAIN todo'[h] : todo'[h][i].kind \notin Quick
  <2> DEFINE u == Tail(todo[h])
  <2>1. u \in Seq(Doable) /\ \A i \in DOMAIN u : u[i].kind \notin Quick
    BY <1>2
  <2>2. todo'[h] = u \o t
    BY <1>0, <1>3
  <2> HIDE DEF u
  <2>3. \A i \in DOMAIN (u \o t) : (u \o t)[i].kind \notin Quick
    BY <1>3, <2>1
  <2> QED BY <2>2, <2>3
<1>4. ASSUME NEW n \in Nat, nextGen + n <= MaxGen,
             todo' = [todo EXCEPT ![h] = Tail(todo[h]) \o Spawns(n)]
      PROVE  \A i \in DOMAIN todo'[h] : todo'[h][i].kind \notin Quick
  <2>1. Spawns(n) \in Seq(Doable) /\ \A i \in DOMAIN Spawns(n) : Spawns(n)[i].kind = "SPAWN"
    BY <1>0, <1>4, AsksSpawns, SpawnsForm
  <2> HIDE DEF Spawns
  <2> QED BY <1>3, <1>4, <2>1 DEF Quick
<1>5. CASE todo' = [todo EXCEPT ![h] = Tail(todo[h]) \o Discard(Subject(h))]
  <2>1. /\ Discard(Subject(h)) \in Seq(Doable)
        /\ \A i \in DOMAIN Discard(Subject(h)) : Discard(Subject(h))[i].kind \in Teardown
    BY <1>1, DiscardKinds
  <2> QED BY <1>3, <1>5, <2>1 DEF Quick, Teardown
<1> QED BY <1>1, <1>4, <1>5 DEF Entered

\* Every list of effects keeps apart what suspends and what does not.
LEMMA RestStep ==
  ASSUME DriverInv, PoolNext, RestInv
  PROVE  RestInv'
<1>0. todo \in [Fibers -> Seq(Doable)] /\ CoreInv
  BY DEF DriverInv, TablesInv, PoolTypes, EventTypes
<1>1. ASSUME NEW f \in Fibers PROVE Apart(todo'[f]) /\ SendLast(todo'[f])
  <2>1. CASE todo'[f] = todo[f]
    BY <2>1 DEF RestInv
  <2>2. ASSUME NEW h \in Fibers, NEW s, Apart(s), SendLast(s), todo' = [todo EXCEPT ![h] = s]
        PROVE  Apart(todo'[f]) /\ SendLast(todo'[f])
    <3>1. todo'[f] = s \/ todo'[f] = todo[f]
      BY <1>0, <2>2
    <3> QED BY <2>1, <2>2, <3>1
  <2>3. ASSUME NEW h \in Fibers, NEW kind, Heads(h, kind),
               todo' = [todo EXCEPT ![h] = Tail(todo[h])]
        PROVE  Apart(todo'[f]) /\ SendLast(todo'[f])
    <3>1. Apart(Tail(todo[h])) /\ SendLast(Tail(todo[h]))
      BY <2>3, TailRests DEF RestInv
    <3> QED BY <2>2, <2>3, <3>1
  <2>4. ASSUME NEW h \in Fibers, SpawnSucceeds(h)
        PROVE  Apart(todo'[f]) /\ SendLast(todo'[f])
    <3>1. PICK s : todo' = [todo EXCEPT ![h] = s]
      BY <2>4 DEF SpawnSucceeds, Run
    <3>2. todo'[h] = s
      BY <1>0, <3>1
    <3>3. Apart(s) /\ SendLast(s)
      BY <2>4, <3>2, EnteredSlow, SlowRests
    <3> QED BY <2>2, <3>1, <3>3
  <2>5. ASSUME NEW h \in Fibers, Fills(h)
        PROVE  Apart(todo'[f]) /\ SendLast(todo'[f])
    <3>1. PICK n \in Nat : nextGen' = nextGen + n /\ nextGen' <= MaxGen
                           /\ todo' = [todo EXCEPT ![h] = Spawns(n)]
      BY <2>5 DEF Fills
    <3>2. \A i \in DOMAIN Spawns(n) : Spawns(n)[i].kind = "SPAWN"
      BY <1>0, <3>1, AsksSpawns
    <3>3. Apart(Spawns(n)) /\ SendLast(Spawns(n))
      BY <3>2, SlowRests DEF Quick
    <3> QED BY <2>2, <3>1, <3>3
  <2>6. ASSUME NEW h \in Fibers, NEW s, Plain(s), todo' = [todo EXCEPT ![h] = s]
        PROVE  Apart(todo'[f]) /\ SendLast(todo'[f])
    <3>1. Apart(s) /\ SendLast(s)
      BY <2>6 DEF Plain, Apart, SendLast, Slow
    <3> QED BY <2>2, <2>6, <3>1
  <2>7. ASSUME NEW h \in Fibers, NEW g \in Gens, Clearance(h, g)
        PROVE  Apart(todo'[f]) /\ SendLast(todo'[f])
    <3>1. \A i \in DOMAIN LossEffects(g) : LossEffects(g)[i].kind \in Teardown \cup {"FAIL"}
      BY <1>0, <2>7, LossKinds DEF Clearance
    <3>2. Apart(LossEffects(g)) /\ SendLast(LossEffects(g))
      BY <3>1, SlowRests DEF Quick, Teardown
    <3> QED BY <2>2, <2>7, <3>2 DEF Clearance
  <2>8. CASE CloseKills
    <3>1. /\ \A i \in DOMAIN todo'[Closer] : todo'[Closer][i].kind = "KILL"
          /\ f # Closer => todo'[f] = <<>> \/ todo'[f] = todo[f]
      BY <2>8, KillsForm
    <3>2. CASE f = Closer
      BY <3>1, <3>2 DEF Apart, SendLast, Slow
    <3>3. CASE todo'[f] = <<>>
      BY <3>3 DEF Apart, SendLast
    <3> QED BY <2>1, <3>1, <3>2, <3>3
  <2> QED BY <2>1, <2>3, <2>4, <2>5, <2>6, <2>7, <2>8, Shapes
<1>2. ASSUME NEW f \in Fibers, turn' # f PROVE Rests(todo'[f])
  <2>1. CASE UNCHANGED todo
    <3>1. turn # f => Rests(todo[f])
      BY DEF RestInv
    <3>2. turn = f => Rests(todo[f])
      BY <1>2, Yields, FiberNames
    <3> QED BY <2>1, <3>1, <3>2
  <2>2. ASSUME NEW h \in Fibers, RunsOnly(h) PROVE Rests(todo'[f])
    <3>1. turn' = h /\ h # f /\ todo'[f] = todo[f]
      BY <1>2, <2>2 DEF RunsOnly
    <3>2. turn # f
      BY <3>1, Yields, FiberNames
    <3> QED BY <3>1, <3>2 DEF RestInv
  <2>3. CASE CloseKills
    <3>1. turn # f /\ (todo'[f] = <<>> \/ todo'[f] = todo[f])
      BY <1>2, <2>3, KillsForm, FiberNames
    <3> QED BY <3>1, FiberNames DEF RestInv, Rests
  <2> QED BY <2>1, <2>2, <2>3, Turns
<1> QED BY <1>1, <1>2 DEF RestInv

-----------------------------------------------------------------------------
(* What a list of effects becomes, and what a closing pool has left          *)

\* Fiber f settles a job next.
Settles(f) == Heads(f, "RESOLVE") \/ Heads(f, "FAIL")

\* A fiber goes on with the next effect of its list.
GoesOn(f) == \E kind : Heads(f, kind) /\ todo' = [todo EXCEPT ![f] = Tail(todo[f])]

\* An event that begins the list of fiber f, or a child it entered.
Restarts(f) ==
  \/ SpawnSucceeds(f)
  \/ f = Starter /\ Start
  \/ f \in Recoverers /\ Recover /\ todo[f] = <<>> /\ CoreFill /\ Run(f, FillEffects)
  \/ f = Submitter /\ \E j \in Jobs : Submit(j)
  \/ \E g \in Gens : f = Reader(g) /\ Read(g)
  \/ \E g \in Gens : f = Loser(g) /\ LoseTask(g)
  \/ \E t \in tasks : f = Sender(t.gen) /\ SendTask(t)
  \/ f = Closer /\ (CloseStops \/ \E g \in Gens : CloseDrains(g))
  \/ CloseKills

\* The list of a fiber changes when the fiber goes on, or when an event begins it.
LEMMA Starts ==
  ASSUME DriverInv, PoolNext, NEW f \in Fibers, todo'[f] # todo[f]
  PROVE  \/ /\ GoesOn(f) /\ (Heads(f, "DROP") => DriveDrop(f) \/ DriveSkip(f))
            /\ (Settles(f) => DriveSettle(f))
         \/ Restarts(f)
<1> DEFINE G == \/ GoesOn(f) /\ (Heads(f, "DROP") => DriveDrop(f) \/ DriveSkip(f))
                             /\ (Settles(f) => DriveSettle(f))
                \/ Restarts(f)
<1> SUFFICES G
  OBVIOUS
<1>0. \A h, s : todo' = [todo EXCEPT ![h] = s] => f = h
  <2>1. todo = [h \in Fibers |-> todo[h]]
    BY DEF DriverInv, TablesInv, PoolTypes, EventTypes
  <2> QED BY <2>1
<1>1. CASE f = Starter /\ Start
  BY <1>1 DEF Restarts
<1>2. CASE SpawnSucceeds(f) \/ CloseKills
  BY <1>2 DEF Restarts
<1>3. ASSUME f = Submitter, NEW j \in Jobs, Submit(j) PROVE G
  BY <1>3 DEF Restarts
<1>4. ASSUME NEW g \in Gens, f = Reader(g) /\ Read(g) PROVE G
  BY <1>4 DEF Restarts
<1>5. ASSUME NEW g \in Gens, f = Loser(g) /\ LoseTask(g) PROVE G
  BY <1>5 DEF Restarts
<1>6. ASSUME NEW t \in tasks, f = Sender(t.gen) /\ SendTask(t) PROVE G
  BY <1>6 DEF Restarts
<1>7. CASE f = Closer /\ (CloseStops \/ \E g \in Gens : CloseDrains(g))
  BY <1>7 DEF Restarts
<1>8. ASSUME NEW kind, NEW h, Heads(h, kind), todo' = [todo EXCEPT ![h] = Tail(todo[h])],
             Heads(h, "DROP") => DriveDrop(h) \/ DriveSkip(h), Settles(h) => DriveSettle(h)
      PROVE  G
  BY <1>0, <1>8 DEF GoesOn
<1>9. ASSUME f \in Recoverers, Recover, todo[f] = <<>>, CoreFill, Run(f, FillEffects) PROVE G
  BY <1>9 DEF Restarts
<1>10. UNCHANGED todo => G
  OBVIOUS
<1> HIDE DEF G
<1>11. CASE Elsewhere \/ Children
  BY <1>10, <1>11, ElsewhereForm, ChildrenForm DEF event
<1>12. CASE \E h \in Fibers : \/ DriveSend(h) \/ DriveSettle(h) \/ DriveDrop(h) \/ DriveClose(h)
                              \/ ReapReturns(h) \/ DriveSkip(h)
  <2> SUFFICES ASSUME NEW h \in Fibers, \/ DriveSend(h) \/ DriveSettle(h) \/ DriveDrop(h)
                                         \/ DriveClose(h) \/ ReapReturns(h) \/ DriveSkip(h)
               PROVE  G
    BY <1>12
  <2>1. Heads(h, "DROP") => DriveDrop(h) \/ DriveSkip(h)
    BY DEF DriveSend, DriveSettle, DriveClose, ReapReturns, DriveSkip, Performs, Resumes, Heads
  <2>2. Settles(h) => DriveSettle(h)
    BY DEF DriveSend, DriveDrop, DriveClose, ReapReturns, DriveSkip, Performs, Resumes, Heads,
           Settles
  <2> QED BY <1>8, <2>1, <2>2, Pops
<1>13. ASSUME NEW h \in Fibers, SpawnSucceeds(h) PROVE G
  BY <1>0, <1>2, <1>13 DEF SpawnSucceeds, Run
<1>14. CASE \E h \in Fibers : SpawnFails(h)
  <2> SUFFICES ASSUME NEW h \in Fibers, SpawnFails(h) PROVE G
    BY <1>14
  <2>1. Heads(h, "SPAWN") /\ todo' = [todo EXCEPT ![h] = Tail(todo[h])]
    BY SpawnFailsForm
  <2>2. ~Heads(h, "DROP") /\ ~Settles(h)
    BY <2>1 DEF Heads, Settles
  <2> QED BY <1>8, <2>1, <2>2
<1>15. CASE Start
  BY <1>0, <1>1, <1>15 DEF Start, Run
<1>16. CASE Recover
  <2>1. CASE UNCHANGED <<core, turn, todo>>
    BY <1>10, <2>1
  <2>2. ASSUME NEW h \in Recoverers, todo[h] = <<>>, CoreFill, Run(h, FillEffects) PROVE G
    BY <1>0, <1>9, <1>16, <2>2 DEF Run
  <2> QED BY <1>16, <2>1, <2>2, RecoverForm
<1>17. ASSUME NEW j \in Jobs, Submit(j) PROVE G
  BY <1>0, <1>3, <1>17 DEF Submit, Run
<1>18. ASSUME NEW g \in Gens, Read(g) PROVE G
  <2>1. \/ UNCHANGED todo
        \/ \E s : todo' = [todo EXCEPT ![Reader(g)] = s]
    BY <1>18 DEF Read, Lose, Run, event
  <2> QED BY <1>0, <1>4, <1>10, <1>18, <2>1
<1>19. ASSUME NEW g \in Gens, LoseTask(g) PROVE G
  BY <1>0, <1>5, <1>10, <1>19 DEF LoseTask, Lose, Run
<1>20. ASSUME NEW t \in tasks, SendTask(t) PROVE G
  BY <1>0, <1>6, <1>10, <1>20 DEF SendTask, Run
<1>21. CASE CloseStops
  BY <1>0, <1>7, <1>21 DEF CloseStops, Run
<1>22. ASSUME NEW g \in Gens, CloseDrains(g) PROVE G
  BY <1>0, <1>7, <1>22 DEF CloseDrains, Run
<1> QED BY <1>2, <1>11, <1>12, <1>13, <1>14, <1>15, <1>16, <1>17, <1>18, <1>19, <1>20, <1>21,
           <1>22, Steps

\* What a fiber that goes on leaves of its list.
LEMMA Fewer ==
  ASSUME DriverInv, NEW f \in Fibers, NEW kind, Heads(f, kind),
         todo' = [todo EXCEPT ![f] = Tail(todo[f])]
  PROVE  /\ todo[f] # <<>>
         /\ \A i \in DOMAIN todo'[f] : \E k \in DOMAIN todo[f] : todo'[f][i] = todo[f][k]
<1>1. todo'[f] = Tail(todo[f])
  BY DEF DriverInv, TablesInv, PoolTypes, EventTypes
<1> QED BY <1>1, TailClears DEF Heads

\* What a closing pool has left: no job, and in each phase of finish_close() what
\* that phase drives.
QuietInv ==
  /\ coreClosing => queue = <<>> /\ \A f \in Fds : slots[f].job = NoJob
  /\ closer \in {"no", "called", "waiting"} => todo[Closer] = <<>>
  /\ closer = "stopping" => turn = Closer /\ \A i \in DOMAIN todo[Closer] :
                              todo[Closer][i].kind \in {"FAIL", "SEND_STOP"}
  /\ starter = "no" => todo[Starter] = <<>>
  /\ \A i \in DOMAIN todo[Submitter] : todo[Submitter][i].kind = "SEND_RUN"

\* A closed reducer gets no job.
LEMMA NoJobs ==
  ASSUME DriverInv, PoolNext, QuietInv, coreClosing'
  PROVE  queue' = <<>> /\ \A f \in Fds : slots'[f].job = NoJob
<1> DEFINE G == queue' = <<>> /\ \A f \in Fds : slots'[f].job = NoJob
<1> SUFFICES G
  OBVIOUS
<1>0. /\ \A g, s : Slot(g, s, NoJob).job = NoJob
      /\ NoSlot.job = NoJob /\ slots \in [Fds -> SlotSet]
  BY LiveGens DEF Slot, DriverInv
<1>1. ASSUME UNCHANGED <<slots, queue, coreClosing>> PROVE G
  BY <1>1 DEF QuietInv
<1>2. ASSUME UNCHANGED <<queue, coreClosing>>, NEW d, NEW x, x.job = NoJob,
             slots' = [slots EXCEPT ![d] = x]
      PROVE  G
  BY <1>0, <1>2 DEF QuietInv
<1> HIDE DEF G
<1>3. ASSUME NEW f, NEW g, Loses(f, g) PROVE G
  BY <1>0, <1>1, <1>2, <1>3 DEF Loses
<1>4. ASSUME UNCHANGED coreClosing, NEW f, NEW g, NEW d, NEW pre,
             Hands(f, [slots EXCEPT ![d] = Slot(g, "idle", NoJob)], queue, pre)
      PROVE  G
  <2>1. queue = <<>>
    BY <1>4 DEF QuietInv
  <2>2. slots' = [slots EXCEPT ![d] = Slot(g, "idle", NoJob)] /\ queue' = queue
    BY <1>4, <2>1 DEF Hands
  <2> QED BY <1>0, <1>2, <1>4, <2>2
<1>5. CASE Elsewhere \/ Children
  BY <1>1, <1>5, ElsewhereForm, ChildrenForm DEF core
<1>6. CASE \E f \in Fibers : \/ DriveSend(f) \/ DriveSettle(f) \/ DriveDrop(f) \/ DriveClose(f)
                             \/ ReapReturns(f) \/ DriveSkip(f)
  BY <1>1, <1>6, Pops DEF core
<1>7. ASSUME NEW f \in Fibers, SpawnSucceeds(f) PROVE G
  <2>1. Entered(f, Subject(f))
    BY <1>7, EnteredForm
  <2> QED BY <1>0, <1>1, <1>2, <2>1 DEF Entered
<1>8. CASE \E f \in Fibers : SpawnFails(f)
  BY <1>1, <1>8, SpawnFailsForm
<1>9. CASE Start
  BY <1>1, <1>9, FillsForm DEF Start, Fills
<1>10. CASE Recover
  BY <1>1, <1>10, RecoverForm, FillsForm DEF Fills, core
<1>11. CASE \E j \in Jobs : Submit(j)
  BY <1>1, <1>11, SubmitsForm
<1>12. ASSUME NEW g \in Gens, Read(g) PROVE G
  <2>1. CASE Loses(Reader(g), g)
    BY <1>3, <2>1
  <2>2. CASE Readies(g)
    BY <1>1, <1>4, <2>2 DEF Readies
  <2>3. CASE \E j : Results(g, j)
    BY <1>1, <1>4, <2>3 DEF Results
  <2>4. CASE UNCHANGED core
    BY <1>1, <2>4 DEF core
  <2> QED BY <1>12, <2>1, <2>2, <2>3, <2>4, ReadForm
<1>13. CASE \E g \in Gens : LoseTask(g)
  BY <1>1, <1>3, <1>13, LoseTaskForm DEF core
<1>14. CASE \E t \in tasks : SendTask(t)
  BY <1>1, <1>3, <1>14, SendForm DEF core
<1>15. CASE CloseStops
  <2>1. /\ queue' = <<>>
        /\ slots' = [f \in Fds |-> IF f \in Live THEN Slot(slots[f].gen, "stopping", NoJob)
                                   ELSE NoSlot]
    BY <1>15, StopsForm
  <2> QED BY <1>0, <2>1 DEF G
<1>16. CASE CloseKills
  BY <1>1, <1>16, KillsForm DEF core
<1>17. CASE \E g \in Gens : CloseDrains(g)
  BY <1>3, <1>17, DrainForm
<1> QED BY <1>5, <1>6, <1>7, <1>8, <1>9, <1>10, <1>11, <1>12, <1>13, <1>14, <1>15, <1>16, <1>17,
           Steps

\* start() is called once.
LEMMA Begun ==
  ASSUME DriverInv, PoolNext, starter' = "no"
  PROVE  starter = "no" /\ ~Start
<1>1. ~Start /\ ~StartDriven /\ ~StartReady /\ ~StartRaises
  BY DEF Start, StartDriven, StartReady, StartRaises
<1>2. CASE Elsewhere
  BY <1>1, <1>2 DEF Elsewhere, SubmitDriven, Close, RecoverDriven, ReadDriven, LoseDriven,
     SendDriven, CloseStopped, CloseKilled, CloseEnds, DriveSpawn, CancelReader, DriveReap, life
<1>3. CASE Children
  BY <1>1, <1>3, ChildrenForm DEF life
<1>4. CASE \E f \in Fibers : \/ DriveSend(f) \/ DriveSettle(f) \/ DriveDrop(f) \/ DriveClose(f)
                             \/ ReapReturns(f) \/ DriveSkip(f) \/ SpawnSucceeds(f) \/ SpawnFails(f)
  BY <1>1, <1>4 DEF DriveSend, DriveSettle, DriveDrop, DriveClose, ReapReturns, DriveSkip,
                    SpawnSucceeds,
     SpawnFails, life
<1>5. CASE \/ Recover \/ \E j \in Jobs : Submit(j)
           \/ \E g \in Gens : Read(g) \/ LoseTask(g)
           \/ \E t \in tasks : SendTask(t)
  BY <1>1, <1>5 DEF Recover, Submit, Read, LoseTask, SendTask, life
<1>6. CASE CloseStops \/ CloseKills \/ \E g \in Gens : CloseDrains(g)
  BY <1>1, <1>6 DEF CloseStops, CloseKills, CloseDrains
<1> QED BY <1>1, <1>2, <1>3, <1>4, <1>5, <1>6, Steps

\* What the closer, the starter and the submitter have to do.
LEMMA QuietStep ==
  ASSUME DriverInv, PoolNext, QuietInv, RestInv
  PROVE  QuietInv'
<1>0. /\ Closer \in Fibers /\ Starter \in Fibers /\ Submitter \in Fibers
      /\ Closer # Starter /\ Closer # Submitter /\ Starter # Submitter /\ Closer # Loop
      /\ Closer \notin Recoverers /\ Starter \notin Recoverers /\ Submitter \notin Recoverers
      /\ todo \in [Fibers -> Seq(Doable)] /\ tasks \subseteq TaskSet
  BY FiberNames DEF DriverInv, TablesInv, PoolTypes, EventTypes
<1>1. \A g \in Gens : {Reader(g), Sender(g), Loser(g)} \cap {Starter, Closer, Submitter} = {}
  BY FiberNames
<1>2. \A t \in tasks : t.gen \in Gens
  BY <1>0 DEF TaskSet
<1>3. \/ closer' = closer \/ closer = "no"
      \/ CloseStops \/ CloseStopped \/ CloseKills \/ CloseKilled \/ CloseEnds
  BY LifeMoves DEF CloseDrains
<1>4. closer' \in {"no", "called", "waiting"} => todo'[Closer] = <<>>
  <2> SUFFICES ASSUME closer' \in {"no", "called", "waiting"} PROVE todo'[Closer] = <<>>
    OBVIOUS
  <2>1. CASE CloseStopped
    BY <2>1 DEF CloseStopped, Returns
  <2>2. ~CloseStops /\ ~CloseKills /\ ~CloseKilled /\ ~CloseEnds
    BY DEF CloseStops, CloseKills, CloseKilled, CloseEnds
  <2>3. CASE closer \in {"no", "called", "waiting"}
    <3>1. todo[Closer] = <<>> /\ closer # "draining"
      BY <2>3 DEF QuietInv
    <3>2. ASSUME todo'[Closer] # todo[Closer] PROVE FALSE
      <4>1. /\ \A kind : ~Heads(Closer, kind)
            /\ ~SpawnSucceeds(Closer) /\ \A g \in Gens : ~CloseDrains(g)
        BY <3>1 DEF Heads, SpawnSucceeds, Resumes, CloseDrains
      <4> QED BY <1>0, <1>1, <1>2, <2>2, <3>2, <4>1, Starts DEF GoesOn, Restarts
    <3> QED BY <3>1, <3>2
  <2> QED BY <1>3, <2>1, <2>2, <2>3
<1>5. closer' = "stopping" => turn' = Closer /\ \A i \in DOMAIN todo'[Closer] :
                                todo'[Closer][i].kind \in {"FAIL", "SEND_STOP"}
  <2> SUFFICES ASSUME closer' = "stopping"
               PROVE  turn' = Closer /\ \A i \in DOMAIN todo'[Closer] :
                        todo'[Closer][i].kind \in {"FAIL", "SEND_STOP"}
    OBVIOUS
  <2>1. CASE CloseStops
    <3>1. todo'[Closer] = CloseEffects /\ turn' = Closer
      BY <1>0, <2>1, StopsForm
    <3>2. \A i \in DOMAIN CloseEffects : CloseEffects[i].kind \in {"FAIL", "SEND_STOP"}
      BY <2>1, StopsForm
    <3> HIDE DEF CloseEffects
    <3> QED BY <3>1, <3>2
  <2>2. ~CloseStopped /\ ~CloseKills /\ ~CloseKilled /\ ~CloseEnds
    BY DEF CloseStopped, CloseKills, CloseKilled, CloseEnds
  <2>3. CASE closer = "stopping"
    <3>1. /\ turn = Closer
          /\ \A i \in DOMAIN todo[Closer] : todo[Closer][i].kind \in {"FAIL", "SEND_STOP"}
      BY <2>3 DEF QuietInv
    <3>2. todo[Closer] # <<>> => 1 \in DOMAIN todo[Closer]
      BY <1>0
    <3>3. turn' = Closer
      <4>1. Rests(todo[Closer]) => todo[Closer] = <<>>
        BY <3>1, <3>2 DEF Rests, Slow
      <4> QED BY <1>0, <2>2, <3>1, <4>1, Yields
    <3>4. CASE todo'[Closer] = todo[Closer]
      BY <3>1, <3>3, <3>4
    <3>5. CASE todo'[Closer] # todo[Closer]
      <4>1. /\ ~SpawnSucceeds(Closer) /\ \A g \in Gens : ~CloseDrains(g)
            /\ ~CloseStops
        BY <1>0, <2>3, <3>1 DEF SpawnSucceeds, Resumes, CloseDrains, CloseStops
      <4>2. \E kind : Heads(Closer, kind) /\ todo' = [todo EXCEPT ![Closer] = Tail(todo[Closer])]
        BY <1>0, <1>1, <1>2, <2>2, <3>5, <4>1, Starts DEF GoesOn, Restarts
      <4>3. \A i \in DOMAIN todo'[Closer] :
              \E k \in DOMAIN todo[Closer] : todo'[Closer][i] = todo[Closer][k]
        BY <1>0, <4>2, Fewer
      <4> QED BY <3>1, <3>3, <4>3
    <3> QED BY <3>4, <3>5
  <2>4. closer # "no"
    <3>1. closer = "no" => closer' # "stopping" \/ CloseStops
      BY LifeMoves DEF CloseStopped, CloseKills, CloseKilled, CloseEnds, CloseDrains
    <3> QED BY <3>1 DEF CloseStops
  <2> QED BY <1>3, <2>1, <2>2, <2>3, <2>4
<1>6. starter' = "no" => todo'[Starter] = <<>>
  <2> SUFFICES ASSUME starter' = "no" PROVE todo'[Starter] = <<>>
    OBVIOUS
  <2>1. starter = "no" /\ ~Start
    BY Begun
  <2>2. todo[Starter] = <<>>
    BY <2>1 DEF QuietInv
  <2>3. CASE todo'[Starter] # todo[Starter]
    <3>1. ~SpawnSucceeds(Starter) /\ \A kind : ~Heads(Starter, kind)
      BY <2>2 DEF SpawnSucceeds, Resumes, Heads
    <3>2. CloseKills
      BY <1>0, <1>1, <1>2, <2>1, <2>3, <3>1, Starts DEF GoesOn, Restarts
    <3> QED BY <1>0, <2>2, <3>2, KillsForm
  <2> QED BY <2>2, <2>3
<1>7. \A i \in DOMAIN todo'[Submitter] : todo'[Submitter][i].kind = "SEND_RUN"
  <2>1. CASE todo'[Submitter] = todo[Submitter] \/ todo'[Submitter] = <<>>
    BY <2>1 DEF QuietInv
  <2>2. CASE todo'[Submitter] # todo[Submitter]
    <3>1. ~SpawnSucceeds(Submitter)
      <4>1. Heads(Submitter, "SPAWN") => todo[Submitter][1].kind = "SPAWN"
                                         /\ 1 \in DOMAIN todo[Submitter]
        BY <1>0, First DEF DriverInv, TablesInv
      <4> QED BY <4>1 DEF SpawnSucceeds, Resumes, QuietInv
    <3>2. CASE CloseKills
      BY <1>0, <2>1, <3>2, KillsForm
    <3>3. ASSUME NEW kind, Heads(Submitter, kind),
                 todo' = [todo EXCEPT ![Submitter] = Tail(todo[Submitter])]
          PROVE  \A i \in DOMAIN todo'[Submitter] : todo'[Submitter][i].kind = "SEND_RUN"
      BY <1>0, <3>3, Fewer DEF QuietInv
    <3>4. ASSUME NEW j \in Jobs, Submit(j)
          PROVE  \A i \in DOMAIN todo'[Submitter] : todo'[Submitter][i].kind = "SEND_RUN"
      <4>1. ASSUME NEW d \in Fds, NEW k \in Jobs,
                   todo' = [todo EXCEPT ![Submitter] =
                              <<>> \o <<Effect("SEND_RUN", slots[d].gen, k)>>]
            PROVE  \A i \in DOMAIN todo'[Submitter] : todo'[Submitter][i].kind = "SEND_RUN"
        <5>1. todo'[Submitter] = <<Effect("SEND_RUN", slots[d].gen, k)>>
          BY <1>0, <4>1
        <5> QED BY <5>1 DEF Effect
      <4>2. CASE todo' = [todo EXCEPT ![Submitter] = <<>>]
        BY <1>0, <2>1, <4>2
      <4> QED BY <3>4, <4>1, <4>2, SubmitsForm DEF Hands
    <3> QED BY <1>0, <1>1, <1>2, <2>2, <3>1, <3>2, <3>3, <3>4, Starts
           DEF GoesOn, Restarts
  <2> QED BY <2>1, <2>2
<1> QED BY <1>4, <1>5, <1>6, <1>7, NoJobs DEF QuietInv

-----------------------------------------------------------------------------
(* Readers, and the task reader_done creates                                 *)

\* What a reader, and the task reader_done creates, have to do.
ReaderInv ==
  \A g \in Gens :
    /\ \A i \in DOMAIN todo[Reader(g)] :
         LET e == todo[Reader(g)][i]
         IN  /\ e.kind # "SPAWN"
             /\ e.kind = "DROP" => i = 1 /\ e.gen = g /\ turn = Reader(g)
             /\ e.kind \in Teardown /\ InSlots(g) => todo[Reader(g)][1].kind = "DROP"
             /\ e.kind \in {"RESOLVE", "FAIL"} => ~(closer = "waiting" /\ g \in waited)
    /\ todo[Loser(g)] # <<>> => reader[g] = "done"
    /\ Task("lose", g, NoJob) \in tasks => reader[g] = "done" /\ todo[Loser(g)] = <<>>

\* A slot that was entered is not entered again.
LEMMA InSlotsOld ==
  ASSUME DriverInv, PoolNext, NEW g \in Gens, reader[g] # "none", InSlots(g)'
  PROVE  InSlots(g)
<1>0. slotOf \in [Fds -> Gens \cup {0}] /\ fdOf \in [Gens -> Fds \cup {0}] /\ 0 \notin Gens
  BY DEF DriverInv, TablesInv, PoolTypes, TableTypes, Gens
<1>1. CASE UNCHANGED <<slotOf, fdOf>>
  BY <1>1 DEF InSlots
<1>2. ASSUME NEW d, UNCHANGED fdOf, slotOf' = [slotOf EXCEPT ![d] = 0] PROVE InSlots(g)
  BY <1>0, <1>2 DEF InSlots
<1>3. CASE CloseEnds
  BY <1>0, <1>3 DEF CloseEnds, InSlots
<1>4. ASSUME NEW f \in Fibers, DriveSpawn(f) PROVE InSlots(g)
  <2>1. Subject(f) # g
    BY <1>4, Spawning DEF DriveSpawn, Performs
  <2> QED BY <1>0, <1>4, <2>1 DEF DriveSpawn, InSlots
<1>5. ASSUME NEW f \in Fibers, SpawnSucceeds(f) PROVE InSlots(g)
  <2>1. Subject(f) # g
    BY <1>5, Spawning DEF SpawnSucceeds, Resumes
  <2> QED BY <1>0, <1>5, <2>1 DEF SpawnSucceeds, InSlots
<1>6. CASE \E f \in Fibers : SpawnFails(f) \/ DriveClose(f) \/ ReapReturns(f) \/ DriveSkip(f)
  BY <1>1, <1>6 DEF SpawnFails, DriveClose, ReapReturns, DriveSkip
<1>7. CASE \E f \in Fibers : DriveDrop(f)
  BY <1>1, <1>2, <1>7 DEF DriveDrop
<1> QED BY <1>1, <1>3, <1>4, <1>5, <1>6, <1>7, TableMoves

\* What a message leaves its reader to do.
LEMMA ReadShape ==
  ASSUME DriverInv, NEW g \in Gens, Read(g)
  PROVE  \/ UNCHANGED todo
         \/ /\ turn' = Reader(g)
            /\ \/ \E s \in Seq(Doable) : Plain(s) /\ todo' = [todo EXCEPT ![Reader(g)] = s]
               \/ Clearance(Reader(g), g)
<1> DEFINE G == \/ UNCHANGED todo
                \/ /\ turn' = Reader(g)
                   /\ \/ \E s \in Seq(Doable) : Plain(s) /\ todo' = [todo EXCEPT ![Reader(g)] = s]
                      \/ Clearance(Reader(g), g)
<1> SUFFICES G
  OBVIOUS
<1>1. ASSUME UNCHANGED todo PROVE G
  BY <1>1
<1>2. ASSUME turn' = Reader(g),
             \E s \in Seq(Doable) : Plain(s) /\ todo' = [todo EXCEPT ![Reader(g)] = s]
      PROVE  G
  BY <1>2
<1>3. ASSUME turn' = Reader(g), Clearance(Reader(g), g) PROVE G
  BY <1>3
<1> HIDE DEF G
<1>4. Reader(g) \in Fibers /\ fdOf[g] \in Fds /\ CoreInv /\ reader[g] # "none"
  BY ReadForm, FiberNames DEF DriverInv
<1>5. \A d \in Fds : [slots EXCEPT ![fdOf[g]] = Slot(g, "idle", NoJob)][d].state = "idle" =>
                     [slots EXCEPT ![fdOf[g]] = Slot(g, "idle", NoJob)][d].gen \in Gens
  BY <1>4, IdleGens
<1>6. ASSUME turn' = Reader(g), todo' = [todo EXCEPT ![Reader(g)] = <<>>] PROVE G
  BY <1>2, <1>6, NonePlain
<1>7. ASSUME NEW pre, \/ pre = <<>>
                      \/ \E h \in Gens, j \in Jobs : \E kind \in {"RESOLVE", "FAIL"} :
                           pre = <<Effect(kind, h, j)>>,
             Hands(Reader(g), [slots EXCEPT ![fdOf[g]] = Slot(g, "idle", NoJob)], queue, pre)
      PROVE  G
  <2>1. turn' = Reader(g)
    BY <1>7 DEF Hands
  <2> QED BY <1>2, <1>4, <1>5, <1>7, <2>1, HandsPlain
<1>8. ASSUME Readies(g) PROVE G
  BY <1>6, <1>7, <1>8 DEF Readies
<1>9. ASSUME NEW j, Results(g, j) PROVE G
  <2>1. ASSUME j \in Jobs, NEW kind \in {"RESOLVE", "FAIL"},
               Hands(Reader(g), [slots EXCEPT ![fdOf[g]] = Slot(g, "idle", NoJob)], queue,
                     <<Effect(kind, g, j)>>)
        PROVE  G
    BY <1>7, <2>1
  <2> QED BY <1>6, <1>9, <2>1 DEF Results
<1>10. CASE Loses(Reader(g), g)
  BY <1>2, <1>3, <1>4, <1>10, LosesShape DEF Loses
<1> QED BY <1>1, <1>8, <1>9, <1>10, ReadForm DEF event

\* A reader clears away its own slot, and nothing else.
LEMMA ReaderClears ==
  ASSUME DriverInv, PoolNext, ReaderInv, NEW g \in Gens, NEW i \in DOMAIN todo'[Reader(g)],
         NEW e, e = todo'[Reader(g)][i]
  PROVE  /\ e.kind # "SPAWN"
         /\ e.kind = "DROP" => i = 1 /\ e.gen = g /\ turn' = Reader(g)
         /\ e.kind \in Teardown /\ InSlots(g)' => todo'[Reader(g)][1].kind = "DROP"
<1> DEFINE r == Reader(g)
           G == /\ e.kind # "SPAWN"
                /\ e.kind = "DROP" => i = 1 /\ e.gen = g /\ turn' = r
                /\ e.kind \in Teardown /\ InSlots(g)' => todo'[r][1].kind = "DROP"
<1> SUFFICES G
  OBVIOUS
<1>0. r \in Fibers /\ r # Loop /\ todo \in [Fibers -> Seq(Doable)] /\ CoreInv
  BY FiberNames DEF DriverInv, TablesInv, PoolTypes, EventTypes
<1>1. ASSUME todo'[r] = todo[r] PROVE G
  <2>1. i \in DOMAIN todo[r] /\ e = todo[r][i]
    BY <1>1
  <2>2. /\ e.kind # "SPAWN"
        /\ e.kind = "DROP" => i = 1 /\ e.gen = g /\ turn = r
        /\ e.kind \in Teardown /\ InSlots(g) => todo[r][1].kind = "DROP"
    BY <2>1 DEF ReaderInv
  <2>3. InSlots(g)' => InSlots(g)
    <3>1. todo[r] # <<>>
      BY <2>1
    <3>2. reader[g] # "none"
      BY <3>1 DEF DriverInv, TablesInv, PlaceInv
    <3> QED BY <3>2, InSlotsOld
  <2>4. e.kind = "DROP" => turn' = r
    <3> SUFFICES ASSUME e.kind = "DROP" PROVE turn' = r
      OBVIOUS
    <3>1. turn = r /\ todo[r] # <<>> /\ todo[r][1].kind = "DROP" /\ todo[r][1].gen = g
      BY <2>1, <2>2
    <3>2. Head(todo[r]) = todo[r][1]
      BY <1>0, <3>1
    <3>3. Heads(r, "DROP") /\ Subject(r) = g
      BY <3>1, <3>2 DEF Heads, Subject
    <3>4. ~CancelReader(r)
      BY <3>3 DEF CancelReader
    <3> QED BY <1>0, <3>1, <3>3, <3>4, Yields
  <2> QED BY <1>1, <2>2, <2>3, <2>4
<1>2. ASSUME todo'[r] = <<>> PROVE G
  BY <1>2
<1>3. ASSUME Heads(r, "DROP") => DriveDrop(r) \/ DriveSkip(r), NEW kind, Heads(r, kind),
             todo' = [todo EXCEPT ![r] = Tail(todo[r])]
      PROVE  G
  <2>1. /\ todo'[r] = Tail(todo[r]) /\ 1 \in DOMAIN todo[r] /\ todo[r][1].kind = kind
        /\ Subject(r) = todo[r][1].gen /\ i \in Nat \ {0}
        /\ i + 1 \in DOMAIN todo[r] /\ Tail(todo[r])[i] = todo[r][i + 1]
    <3>1. todo'[r] = Tail(todo[r])
      BY <1>0, <1>3
    <3> QED BY <1>0, <1>3, <3>1, First DEF DriverInv, TablesInv
  <2>2. /\ e.kind # "SPAWN" /\ e.kind # "DROP"
        /\ e.kind \in Teardown /\ InSlots(g) => kind = "DROP" /\ todo[r][1].gen = g
    <3>1. e = todo[r][i + 1] /\ i + 1 # 1
      BY <2>1
    <3>2. /\ e.kind # "SPAWN"
          /\ e.kind = "DROP" => i + 1 = 1
          /\ e.kind \in Teardown /\ InSlots(g) => todo[r][1].kind = "DROP"
          /\ todo[r][1].kind = "DROP" => todo[r][1].gen = g
      BY <2>1, <3>1 DEF ReaderInv
    <3> QED BY <2>1, <3>1, <3>2
  <2>3. e.kind \in Teardown => ~InSlots(g)'
    <3> SUFFICES ASSUME e.kind \in Teardown, InSlots(g)' PROVE FALSE
      OBVIOUS
    <3>1. reader[g] # "none"
      BY <1>3 DEF Heads, DriverInv, TablesInv, PlaceInv
    <3>2. InSlots(g)
      BY <3>1, InSlotsOld
    <3>3. DriveDrop(r) /\ Subject(r) = g
      BY <1>3, <2>1, <2>2, <3>2 DEF DriveSkip, SlotFor
    <3>4. fdOf[g] \in Fds /\ slotOf \in [Fds -> Gens \cup {0}] /\ 0 \notin Gens
      BY <3>1 DEF DriverInv, TablesInv, PlaceInv, PoolTypes, TableTypes, Gens
    <3> QED BY <3>2, <3>3, <3>4 DEF DriveDrop, InSlots
  <2> QED BY <2>2, <2>3
<1>4. ASSUME SpawnSucceeds(r) PROVE FALSE
  <2>1. 1 \in DOMAIN todo[r] /\ todo[r][1].kind = "SPAWN"
    BY <1>0, <1>4, First DEF SpawnSucceeds, Resumes, DriverInv, TablesInv
  <2> QED BY <2>1 DEF ReaderInv
<1>5. ASSUME NEW s, Plain(s), todo' = [todo EXCEPT ![r] = s] PROVE G
  <2>1. todo'[r] = s
    BY <1>0, <1>5
  <2>2. e.kind \notin Teardown \cup {"SPAWN"}
    BY <1>5, <2>1 DEF Plain, Teardown
  <2> QED BY <2>2 DEF Teardown
<1>6. ASSUME turn' = r, Clearance(r, g) PROVE G
  <2>1. todo'[r] = LossEffects(g)
    BY <1>0, <1>6 DEF Clearance
  <2>2. /\ LossEffects(g)[1].kind = "DROP" /\ LossEffects(g)[1].gen = g
        /\ \A k \in DOMAIN LossEffects(g) : /\ LossEffects(g)[k].kind # "SPAWN"
                                            /\ LossEffects(g)[k].kind = "DROP" => k = 1
    <3>1. fdOf[g] \in Fds
      BY <1>6 DEF Clearance
    <3>2. /\ LossEffects(g) \in Seq(Doable) /\ Len(LossEffects(g)) \in {4, 5}
          /\ LossEffects(g)[1] = Effect("DROP", g, NoJob)
          /\ LossEffects(g)[2] = Effect("CLOSE_CONTROL", g, NoJob)
          /\ LossEffects(g)[3] = Effect("CLOSE_DEATH", g, NoJob)
          /\ LossEffects(g)[4] = Effect("REAP", g, NoJob)
          /\ Len(LossEffects(g)) = 5 =>
               LossEffects(g)[5] = Effect("FAIL", g, slots[fdOf[g]].job)
      BY <1>0, <3>1, LossForm
    <3> HIDE DEF LossEffects
    <3>3. \A k \in DOMAIN LossEffects(g) : \/ k \in {1, 2, 3, 4}
                                           \/ k = 5 /\ Len(LossEffects(g)) = 5
      BY <3>2
    <3> QED BY <3>2, <3>3 DEF Effect
  <2> QED BY <1>6, <2>1, <2>2
<1> HIDE DEF G
<1>7. CASE CloseKills
  <2>1. r # Closer
    BY FiberNames
  <2>2. todo'[r] = <<>> \/ todo'[r] = todo[r]
    BY <1>0, <1>7, <2>1, KillsForm
  <2> QED BY <1>1, <1>2, <2>2
<1>8. ASSUME Read(g) PROVE G
  BY <1>1, <1>5, <1>6, <1>8, ReadShape
<1>9. CASE todo'[r] # todo[r]
  <2>1. /\ \A h \in Gens : r # Loser(h) /\ r # Sender(h) /\ (r = Reader(h) => g = h)
        /\ r \notin {Starter, Closer, Submitter} \cup Recoverers
    BY FiberNames
  <2>2. \A t \in tasks : t.gen \in Gens
    BY DEF DriverInv, TablesInv, PoolTypes, EventTypes, TaskSet
  <2>3. ASSUME GoesOn(r), Heads(r, "DROP") => DriveDrop(r) \/ DriveSkip(r) PROVE G
    BY <1>3, <2>3 DEF GoesOn
  <2>4. ASSUME Restarts(r) PROVE G
    <3> HIDE DEF r
    <3> QED BY <1>0, <1>4, <1>7, <1>8, <2>1, <2>2, <2>4 DEF Restarts
  <2> QED BY <1>0, <1>9, <2>3, <2>4, Starts
<1> QED BY <1>1, <1>9

\* The event that gives a reader, a loser or a sender its list.
LEMMA RestartsForm ==
  ASSUME DriverInv, NEW g \in Gens
  PROVE  /\ Restarts(Reader(g)) => SpawnSucceeds(Reader(g)) \/ CloseKills \/ Read(g)
         /\ Restarts(Loser(g)) => SpawnSucceeds(Loser(g)) \/ CloseKills \/ LoseTask(g)
         /\ Restarts(Sender(g)) => \/ SpawnSucceeds(Sender(g)) \/ CloseKills
                                   \/ \E t \in tasks : t.gen = g /\ SendTask(t)
<1>0. \A t \in tasks : t.gen \in Gens
  BY DEF DriverInv, TablesInv, PoolTypes, EventTypes, TaskSet
<1>1. \A h \in Gens : /\ Reader(g) # Loser(h) /\ Reader(g) # Sender(h)
                      /\ Loser(g) # Reader(h) /\ Loser(g) # Sender(h)
                      /\ Sender(g) # Reader(h) /\ Sender(g) # Loser(h)
                      /\ Reader(g) = Reader(h) => g = h
                      /\ Loser(g) = Loser(h) => g = h
                      /\ Sender(g) = Sender(h) => g = h
  BY FiberNames
<1>2. ASSUME NEW f \in {Reader(g), Loser(g), Sender(g)}
      PROVE  f \notin {Starter, Closer, Submitter} \cup Recoverers
  BY <1>2, FiberNames
<1> HIDE DEF Reader, Loser, Sender
<1>3. ASSUME Restarts(Reader(g)) PROVE SpawnSucceeds(Reader(g)) \/ CloseKills \/ Read(g)
  <2>1. Reader(g) \notin {Starter, Closer, Submitter} \cup Recoverers
    BY <1>2
  <2> QED BY <1>0, <1>1, <1>3, <2>1 DEF Restarts
<1>4. ASSUME Restarts(Loser(g)) PROVE SpawnSucceeds(Loser(g)) \/ CloseKills \/ LoseTask(g)
  <2>1. Loser(g) \notin {Starter, Closer, Submitter} \cup Recoverers
    BY <1>2
  <2> QED BY <1>0, <1>1, <1>4, <2>1 DEF Restarts
<1>5. ASSUME Restarts(Sender(g))
      PROVE  \/ SpawnSucceeds(Sender(g)) \/ CloseKills
             \/ \E t \in tasks : t.gen = g /\ SendTask(t)
  <2>1. Sender(g) \notin {Starter, Closer, Submitter} \cup Recoverers
    BY <1>2
  <2> QED BY <1>0, <1>1, <1>5, <2>1 DEF Restarts
<1> QED BY <1>3, <1>4, <1>5

\* While finish_close() waits for a reader, the reader has no job to settle.
LEMMA ReaderSettles ==
  ASSUME DriverInv, PoolNext, QuietInv, RestInv, ReaderInv, NEW g \in Gens,
         NEW i \in DOMAIN todo'[Reader(g)], closer' = "waiting", g \in waited'
  PROVE  todo'[Reader(g)][i].kind \notin {"RESOLVE", "FAIL"}
<1>0. /\ Reader(g) \in Fibers /\ Reader(g) # Closer /\ Reader(g) # Loop
      /\ todo \in [Fibers -> Seq(Doable)] /\ CoreInv
  BY FiberNames DEF DriverInv, TablesInv, PoolTypes, EventTypes
<1>1. CASE CloseStopped
  <2>1. /\ InSlots(g) /\ turn = Closer /\ todo' = todo
    BY <1>1 DEF CloseStopped, Slotted, Returns
  <2>2. i \in DOMAIN todo[Reader(g)] /\ todo[Reader(g)] # <<>> /\ 1 \in DOMAIN todo[Reader(g)]
    BY <1>0, <2>1
  <2>3. todo[Reader(g)][1].kind \in Slow
    BY <1>0, <2>1, <2>2 DEF RestInv, Rests
  <2>4. /\ todo[Reader(g)][1].kind # "SPAWN"
        /\ todo[Reader(g)][1].kind # "DROP"
        /\ todo[Reader(g)][1].kind \notin Teardown
    BY <1>0, <2>1, <2>2 DEF ReaderInv
  <2> QED BY <2>3, <2>4 DEF Slow, Teardown
<1>2. CASE ~CloseStopped
  <2>1. closer = "waiting" /\ g \in waited /\ ~CloseKills
    BY <1>2, LifeMoves DEF CloseStops, CloseKills, CloseKilled, CloseEnds, CloseDrains
  <2>2. queue = <<>> /\ \A d \in Fds : slots[d].job = NoJob
    BY <2>1 DEF QuietInv, DriverInv, TablesInv, PhaseInv
  <2>3. CASE todo'[Reader(g)] = todo[Reader(g)]
    BY <2>1, <2>3 DEF ReaderInv
  <2>4. CASE GoesOn(Reader(g))
    <3>1. \E k \in DOMAIN todo[Reader(g)] : todo'[Reader(g)][i] = todo[Reader(g)][k]
      BY <1>0, <2>4, Fewer DEF GoesOn
    <3> QED BY <2>1, <3>1 DEF ReaderInv
  <2>5. ~SpawnSucceeds(Reader(g))
    <3> SUFFICES ASSUME SpawnSucceeds(Reader(g)) PROVE FALSE
      OBVIOUS
    <3>1. 1 \in DOMAIN todo[Reader(g)] /\ todo[Reader(g)][1].kind = "SPAWN"
      BY <1>0, First DEF SpawnSucceeds, Resumes, DriverInv, TablesInv
    <3> QED BY <3>1 DEF ReaderInv
  <2>6. CASE Read(g)
    <3>1. fdOf[g] \in Fds
      BY <2>6, ReadForm
    <3>2. ASSUME todo' = [todo EXCEPT ![Reader(g)] = <<>>]
          PROVE  todo'[Reader(g)][i].kind \notin {"RESOLVE", "FAIL"}
      BY <1>0, <3>2
    <3>3. CASE Loses(Reader(g), g)
      <4>1. CASE todo' = [todo EXCEPT ![Reader(g)] = LossEffects(g)]
        <5>1. todo'[Reader(g)] = Discard(g)
          BY <1>0, <2>2, <3>1, <4>1 DEF LossEffects
        <5>2. todo'[Reader(g)][i].kind \in Teardown
          BY <5>1, DiscardKinds
        <5> QED BY <5>2 DEF Teardown
      <4> QED BY <3>2, <3>3, <4>1 DEF Loses
    <3>4. CASE Readies(g)
      BY <2>2, <3>2, <3>4 DEF Readies, Hands
    <3>5. ASSUME NEW j, Results(g, j)
          PROVE  todo'[Reader(g)][i].kind \notin {"RESOLVE", "FAIL"}
      <4>1. \A d \in Fds : slots[d].state # "running"
        BY <2>2 DEF DriverInv, CoreInv, JobsInv
      <4>2. slots[fdOf[g]] # Slot(g, "running", j)
        BY <3>1, <4>1 DEF Slot
      <4> QED BY <3>2, <3>5, <4>2 DEF Results
    <3>6. CASE UNCHANGED event
      BY <2>3, <3>6 DEF event
    <3> QED BY <2>6, <3>3, <3>4, <3>5, <3>6, ReadForm
  <2> QED BY <1>0, <2>1, <2>3, <2>4, <2>5, <2>6, RestartsForm, Starts
<1> QED BY <1>1, <1>2

\* New tasks: sends that a fiber performs, and a lost slot.
LEMMA NewTasks ==
  ASSUME DriverInv, PoolNext, NEW t \in tasks', t \notin tasks
  PROVE  \/ \E f \in Fibers : \E kind \in {"SEND_RUN", "SEND_STOP"} :
              /\ DriveSend(f) /\ Heads(f, kind)
              /\ t = Task(IF kind = "SEND_RUN" THEN "run" ELSE "stop", Subject(f),
                          Head(todo[f]).job)
         \/ \E g \in Gens : /\ t = Task("lose", g, NoJob) /\ Read(g) /\ reader[g] = "reading"
                            /\ reader' = [reader EXCEPT ![g] = "done"] /\ UNCHANGED todo
<1> DEFINE G == \/ \E f \in Fibers : \E kind \in {"SEND_RUN", "SEND_STOP"} :
                     /\ DriveSend(f) /\ Heads(f, kind)
                     /\ t = Task(IF kind = "SEND_RUN" THEN "run" ELSE "stop", Subject(f),
                                 Head(todo[f]).job)
                \/ \E g \in Gens : /\ t = Task("lose", g, NoJob) /\ Read(g) /\ reader[g] = "reading"
                                   /\ reader' = [reader EXCEPT ![g] = "done"] /\ UNCHANGED todo
<1> SUFFICES G
  OBVIOUS
<1>1. tasks' # tasks
  OBVIOUS
<1>2. ~(Elsewhere \/ Children)
  BY <1>1, ElsewhereForm, ChildrenForm DEF event
<1>3. ASSUME NEW f \in Fibers, DriveSend(f) PROVE G
  <2>1. PICK kind \in {"SEND_RUN", "SEND_STOP"} :
          /\ Heads(f, kind)
          /\ tasks' = tasks \cup {Task(IF kind = "SEND_RUN" THEN "run" ELSE "stop", Subject(f),
                                       Head(todo[f]).job)}
    BY <1>3 DEF DriveSend, Performs
  <2> QED BY <1>3, <2>1
<1>4. ~\E f \in Fibers : \/ DriveSettle(f) \/ DriveDrop(f) \/ DriveClose(f) \/ ReapReturns(f)
                         \/ DriveSkip(f)
                          \/ SpawnSucceeds(f) \/ SpawnFails(f)
  BY <1>1 DEF DriveSettle, DriveDrop, DriveClose, ReapReturns, DriveSkip, SpawnSucceeds, SpawnFails
<1>5. ~Start /\ ~Recover /\ ~CloseStops /\ ~CloseKills
  BY <1>1 DEF Start, Recover, CloseStops, CloseKills
<1>6. ~(\E j \in Jobs : Submit(j)) /\ ~(\E g \in Gens : LoseTask(g) \/ CloseDrains(g))
      /\ ~\E u \in tasks : SendTask(u)
  BY DEF Submit, LoseTask, CloseDrains, SendTask
<1>7. ASSUME NEW g \in Gens, Read(g) PROVE G
  <2>1. /\ reader[g] = "reading" /\ reader' = [reader EXCEPT ![g] = "done"] /\ UNCHANGED todo
        /\ tasks' = tasks \cup {Task("lose", g, NoJob)}
    BY <1>1, <1>7, ReadForm DEF event
  <2> QED BY <1>7, <2>1
<1> HIDE DEF G
<1> QED BY <1>2, <1>3, <1>4, <1>5, <1>6, <1>7, Steps

\* The task reader_done creates is the only one, and the reader is done.
LEMMA LoserStep ==
  ASSUME DriverInv, PoolNext, ReaderInv, NEW g \in Gens
  PROVE  /\ todo'[Loser(g)] # <<>> => reader'[g] = "done"
         /\ Task("lose", g, NoJob) \in tasks' => reader'[g] = "done" /\ todo'[Loser(g)] = <<>>
<1> DEFINE l == Loser(g)
           u == Task("lose", g, NoJob)
<1>0. /\ l \in Fibers /\ l # Closer /\ todo \in [Fibers -> Seq(Doable)]
      /\ todo[l] # <<>> => reader[g] = "done"
      /\ u \in tasks => reader[g] = "done" /\ todo[l] = <<>>
      /\ reader[g] = "done" => reader'[g] = "done"
  BY FiberNames, ReadersStay DEF ReaderInv, DriverInv, TablesInv, PoolTypes, EventTypes
<1>1. ASSUME todo'[l] # <<>>, todo[l] = <<>> PROVE u \in tasks /\ u \notin tasks'
  <2>2. ~GoesOn(l) /\ ~SpawnSucceeds(l)
    BY <1>1 DEF GoesOn, SpawnSucceeds, Resumes, Heads
  <2>3. ~CloseKills
    BY <1>0, <1>1, KillsForm
  <2>4. Restarts(l)
    BY <1>0, <1>1, <2>2, Starts
  <2>5. LoseTask(g)
    BY <2>2, <2>3, <2>4, RestartsForm
  <2> QED BY <2>5 DEF LoseTask
<1>2. ASSUME u \in tasks', u \notin tasks
      PROVE  reader'[g] = "done" /\ UNCHANGED todo /\ reader[g] = "reading"
  <2>1. ASSUME NEW f \in Fibers, NEW x, NEW y, u = Task("run", x, y) \/ u = Task("stop", x, y)
        PROVE  FALSE
    BY <2>1 DEF Task
  <2>2. PICK h \in Gens : /\ u = Task("lose", h, NoJob) /\ reader[h] = "reading"
                          /\ reader' = [reader EXCEPT ![h] = "done"] /\ UNCHANGED todo
    <3> HIDE DEF u
    <3> QED BY <1>2, <2>1, NewTasks
  <2>3. h = g
    BY <2>2 DEF Task
  <2> QED BY <2>2, <2>3 DEF DriverInv, TablesInv, PoolTypes, TableTypes
<1> HIDE DEF l, u
<1>3. todo'[l] # <<>> => reader'[g] = "done"
  BY <1>0, <1>1
<1>4. u \in tasks' => reader'[g] = "done" /\ todo'[l] = <<>>
  BY <1>0, <1>1, <1>2
<1> QED BY <1>3, <1>4 DEF l, u

\* What readers have to do, and the task reader_done creates.
LEMMA ReaderStep ==
  ASSUME DriverInv, PoolNext, QuietInv, RestInv, ReaderInv
  PROVE  ReaderInv'
<1> SUFFICES ASSUME NEW g \in Gens
             PROVE
    /\ \A i \in DOMAIN todo'[Reader(g)] :
         LET e == todo'[Reader(g)][i]
         IN  /\ e.kind # "SPAWN"
             /\ e.kind = "DROP" => i = 1 /\ e.gen = g /\ turn' = Reader(g)
             /\ e.kind \in Teardown /\ InSlots(g)' => todo'[Reader(g)][1].kind = "DROP"
             /\ e.kind \in {"RESOLVE", "FAIL"} => ~(closer' = "waiting" /\ g \in waited')
    /\ todo'[Loser(g)] # <<>> => reader'[g] = "done"
    /\ Task("lose", g, NoJob) \in tasks' => reader'[g] = "done" /\ todo'[Loser(g)] = <<>>
  BY DEF ReaderInv, Reader, Loser, Task, Teardown
<1>1. ASSUME NEW i \in DOMAIN todo'[Reader(g)]
      PROVE  LET e == todo'[Reader(g)][i]
             IN  /\ e.kind # "SPAWN"
                 /\ e.kind = "DROP" => i = 1 /\ e.gen = g /\ turn' = Reader(g)
                 /\ e.kind \in Teardown /\ InSlots(g)' => todo'[Reader(g)][1].kind = "DROP"
                 /\ e.kind \in {"RESOLVE", "FAIL"} => ~(closer' = "waiting" /\ g \in waited')
  BY ReaderClears, ReaderSettles
<1>2. /\ todo'[Loser(g)] # <<>> => reader'[g] = "done"
      /\ Task("lose", g, NoJob) \in tasks' => reader'[g] = "done" /\ todo'[Loser(g)] = <<>>
  BY LoserStep
<1> QED BY <1>1, <1>2

-----------------------------------------------------------------------------
(* The one run of a skeleton: where it is                                    *)

\* A list of messages has one of the kinds T.
Has(s, T) == \E i \in DOMAIN s : s[i].op \in T

\* The list has one of them at most.
Once(s, T) == \A i, k \in DOMAIN s : s[i].op \in T /\ s[k].op \in T => i = k

\* Where the run of a job on g is: it is still to be sent, it waits for its task, it
\* is on its way, the child works on it, or its answer is on its way back.
Sending(g) ==
  \E f \in Fibers : \E i \in DOMAIN todo[f] : todo[f][i].kind = "SEND_RUN" /\ todo[f][i].gen = g
Due(g) == \E t \in tasks : t.op = "run" /\ t.gen = g
Mailed(g) == Has(mail[g], {"run"})
Working(g) == child[g].is = "working"
Answered(g) == Has(inbox[g], {"ok", "error"})

\* A skeleton has a run in one of these places at a time.
OneRun(g) ==
  /\ Sending(g) => ~Due(g) /\ ~Mailed(g) /\ ~Working(g) /\ ~Answered(g)
  /\ Due(g) => ~Mailed(g) /\ ~Working(g) /\ ~Answered(g)
  /\ Mailed(g) => ~Working(g) /\ ~Answered(g)
  /\ Working(g) => ~Answered(g)

\* No place has two.
RunOnce(g) ==
  /\ \A t, u \in tasks : t.op = "run" /\ u.op = "run" /\ t.gen = g /\ u.gen = g => t = u
  /\ Once(mail[g], {"run"}) /\ Once(inbox[g], {"ok", "error"})

\* A skeleton has a run, and its slot waits to become ready or for a run.
Flying(g) == Sending(g) \/ Due(g) \/ Mailed(g) \/ Working(g) \/ Answered(g)
Waits(g) == \E d \in Fds : slots[d].gen = g /\ slots[d].state \in {"starting", "idle"}

\* A skeleton with a run has a reader, and no slot that waits for another run.  A sender
\* with something left to do has given its skeleton up, and no run for it is left: a
\* send that fails late begins no list over another.
FlightInv ==
  \A g \in Gens :
    /\ OneRun(g) /\ RunOnce(g)
    /\ Flying(g) => reader[g] # "none" /\ ~Waits(g)
    /\ todo[Sender(g)] # <<>> => Gone(g) /\ ~Sending(g) /\ ~Due(g)

\* A job is sent by the fiber the loop runs, as the last it has to do.
LEMMA SendsLast ==
  ASSUME DriverInv, RestInv, NEW f \in Fibers, NEW i \in DOMAIN todo[f],
         todo[f][i].kind = "SEND_RUN"
  PROVE  turn = f /\ i = Len(todo[f]) /\ turn # Loop
<1>1. todo[f] \in Seq(Doable) /\ todo[f] # <<>>
  BY DEF DriverInv, TablesInv, PoolTypes, EventTypes
<1>2. 1 \in DOMAIN todo[f]
  BY <1>1
<1>3. turn = f
  BY <1>1, <1>2 DEF RestInv, Rests, Apart, Slow, Quick
<1> QED BY <1>3, FiberNames DEF RestInv, SendLast

\* What a dispatch does to a slot.
LEMMA HandsSlot ==
  ASSUME NEW sl \in [Fds -> SlotSet], NEW f, NEW qu, NEW pre, Hands(f, sl, qu, pre), NEW d \in Fds
  PROVE  \/ slots'[d] = sl[d]
         \/ /\ sl[d].state = "idle" /\ qu # <<>>
            /\ slots'[d].gen = sl[d].gen /\ slots'[d].state = "running" /\ slots'[d].job = Head(qu)
<1>1. CASE slots' = sl
  BY <1>1
<1>2. ASSUME NEW h \in Fds, NEW j \in Jobs, sl[h].state = "idle", qu # <<>>, j = Head(qu),
             slots' = [sl EXCEPT ![h] = Slot(sl[h].gen, "running", j)]
      PROVE  \/ slots'[d] = sl[d]
             \/ /\ sl[d].state = "idle" /\ qu # <<>>
                /\ slots'[d].gen = sl[d].gen /\ slots'[d].state = "running"
                /\ slots'[d].job = Head(qu)
  <2>1. CASE d = h
    <3>1. slots'[d] = Slot(sl[d].gen, "running", j)
      BY <1>2, <2>1
    <3> QED BY <1>2, <2>1, <3>1 DEF Slot
  <2>2. CASE d # h
    BY <1>2, <2>2
  <2> QED BY <2>1, <2>2
<1> QED BY <1>1, <1>2 DEF Hands

\* The state of a slot changes with its child, by a message or when the pool closes.
Changed(d, g) ==
  \/ reader[g] = "none" /\ slots'[d].state = "starting"
  \/ CloseStops /\ slots'[d].state = "stopping"
  \/ /\ slots[d].gen = g /\ slots[d].state \in {"starting", "idle"}
     /\ slots'[d].state \in {"running", "idle"}
  \/ /\ slots[d].gen = g /\ slots'[d].state \in {"running", "idle"}
     /\ Read(g) /\ inbox[g] # <<>> /\ Head(inbox[g]).op \in {"ok", "error"}

\* No slot changes otherwise, unless it is given up.
LEMMA SlotChanges ==
  ASSUME DriverInv, PoolNext, NEW d \in Fds, slots'[d] # slots[d], slots'[d] # NoSlot
  PROVE  slots'[d].gen \in Gens /\ Changed(d, slots'[d].gen)
<1> DEFINE G == slots'[d].gen \in Gens /\ Changed(d, slots'[d].gen)
<1> SUFFICES G
  OBVIOUS
<1>0. /\ \A h, s, j : /\ Slot(h, s, j).gen = h /\ Slot(h, s, j).state = s
                      /\ Slot(h, s, j).job = j
      /\ slots \in [Fds -> SlotSet] /\ CoreInv
      /\ slots'[d].gen \in Gens
  BY LiveNext, LiveGens DEF Slot, DriverInv
<1>1. slots' # slots
  OBVIOUS
<1>2. ASSUME NEW f, NEW g, Loses(f, g) PROVE FALSE
  BY <1>0, <1>2 DEF Loses
<1>3. ~(Elsewhere \/ Children)
  BY <1>1, ElsewhereForm, ChildrenForm DEF core
<1>4. ~\E f \in Fibers : \/ DriveSend(f) \/ DriveSettle(f) \/ DriveDrop(f) \/ DriveClose(f)
                          \/ ReapReturns(f) \/ DriveSkip(f)
  BY <1>1, Pops DEF core
<1>5. ASSUME NEW f \in Fibers, SpawnSucceeds(f) PROVE G
  <2>1. Entered(f, Subject(f)) /\ reader[Subject(f)] = "none"
    BY <1>5, EnteredForm, Spawning DEF SpawnSucceeds, Resumes
  <2>2. slots'[d] = Slot(Subject(f), "starting", NoJob)
    BY <1>0, <1>1, <2>1 DEF Entered
  <2> QED BY <1>0, <2>1, <2>2 DEF Changed
<1>6. ~\E f \in Fibers : SpawnFails(f)
  BY <1>1, SpawnFailsForm
<1>7. ~Start /\ ~Recover /\ ~CloseKills
  BY <1>1, FillsForm, RecoverForm, KillsForm DEF Start, Fills, core
<1>8. ASSUME NEW f, NEW qu, NEW pre, Hands(f, slots, qu, pre) PROVE G
  <2>1. slots'[d].gen = slots[d].gen /\ slots[d].state = "idle" /\ slots'[d].state = "running"
    BY <1>0, <1>8, HandsSlot
  <2> QED BY <1>0, <2>1 DEF Changed
<1>9. ASSUME NEW f, NEW g \in Gens, NEW qu, NEW pre, slots[fdOf[g]].gen = g, fdOf[g] \in Fds,
             Hands(f, [slots EXCEPT ![fdOf[g]] = Slot(g, "idle", NoJob)], qu, pre),
             \/ slots[fdOf[g]].state = "starting"
             \/ Read(g) /\ inbox[g] # <<>> /\ Head(inbox[g]).op \in {"ok", "error"}
      PROVE  G
  <2> DEFINE sl == [slots EXCEPT ![fdOf[g]] = Slot(g, "idle", NoJob)]
  <2>0. /\ sl \in [Fds -> SlotSet]
        /\ d = fdOf[g] => sl[d].gen = g /\ sl[d].state = "idle"
        /\ d # fdOf[g] => sl[d] = slots[d]
        /\ \/ slots'[d] = sl[d]
           \/ sl[d].state = "idle" /\ slots'[d].gen = sl[d].gen /\ slots'[d].state = "running"
    <3>1. sl \in [Fds -> SlotSet]
      BY <1>0, <1>9, IdleSlot
    <3>2. \/ slots'[d] = sl[d]
          \/ sl[d].state = "idle" /\ slots'[d].gen = sl[d].gen /\ slots'[d].state = "running"
      <4> HIDE DEF sl
      <4> QED BY <1>9, <3>1, HandsSlot DEF sl
    <3> QED BY <1>0, <1>9, <3>1, <3>2
  <2> HIDE DEF sl
  <2>1. CASE d = fdOf[g]
    <3>1. slots'[d].gen = g /\ slots'[d].state \in {"running", "idle"}
      BY <2>0, <2>1
    <3> QED BY <1>0, <1>9, <2>1, <3>1 DEF Changed
  <2>2. CASE d # fdOf[g]
    <3>1. slots'[d].gen = slots[d].gen /\ slots[d].state = "idle" /\ slots'[d].state = "running"
      BY <2>0, <2>2
    <3> QED BY <1>0, <3>1 DEF Changed
  <2> QED BY <2>1, <2>2
<1>10. CASE CloseStops
  <2>1. slots'[d].state = "stopping"
    BY <1>0, <1>10, StopsForm
  <2> QED BY <1>0, <1>10, <2>1 DEF Changed
<1> HIDE DEF G
<1>11. ASSUME NEW j \in Jobs, Submit(j) PROVE G
  BY <1>1, <1>8, <1>11, SubmitsForm
<1>12. ASSUME NEW g \in Gens, Read(g) PROVE G
  <2>1. CASE Loses(Reader(g), g)
    BY <1>2, <2>1
  <2>2. CASE Readies(g)
    BY <1>1, <1>9, <1>12, <2>2, ReadForm DEF Readies
  <2>3. CASE /\ inbox[g] # <<>> /\ Head(inbox[g]).op \in {"ok", "error"}
             /\ Results(g, Head(inbox[g]).job)
    <3>1. slots[fdOf[g]] = Slot(g, "running", Head(inbox[g]).job) => slots[fdOf[g]].gen = g
      BY <1>0
    <3> QED BY <1>1, <1>9, <1>12, <2>3, <3>1, ReadForm DEF Results
  <2>4. ~UNCHANGED core
    BY <1>1 DEF core
  <2> QED BY <1>12, <2>1, <2>2, <2>3, <2>4, ReadForm
<1>13. ~\E g \in Gens : LoseTask(g)
  BY <1>1, <1>2, LoseTaskForm DEF core
<1>14. ~\E t \in tasks : SendTask(t)
  BY <1>1, <1>2, SendForm DEF core
<1>15. ~\E g \in Gens : CloseDrains(g)
  BY <1>2, DrainForm
<1> QED BY <1>3, <1>4, <1>5, <1>6, <1>7, <1>10, <1>11, <1>12, <1>13, <1>14, <1>15, Steps

-----------------------------------------------------------------------------
(* A run that is to be sent has just been handed to its slot                 *)

\* The slots sl and the queue qu let a dispatch ask for effect e.
HandedBy(sl, qu, e) ==
  \E d \in Fds : /\ sl[d].state = "idle" /\ qu # <<>>
                 /\ slots'[d].gen = sl[d].gen /\ slots'[d].state = "running"
                 /\ slots'[d].job = Head(qu) /\ e.gen = sl[d].gen /\ e.job = Head(qu)

\* The job a dispatch has its fiber send.
LEMMA HandsSend ==
  ASSUME NEW sl \in [Fds -> SlotSet], NEW f \in Fibers, NEW qu, NEW pre \in Seq(Doable),
         Hands(f, sl, qu, pre), todo \in [Fibers -> Seq(Doable)],
         \A k \in DOMAIN pre : pre[k].kind # "SEND_RUN"
  PROVE  \A i \in DOMAIN todo'[f] :
           todo'[f][i].kind = "SEND_RUN" => HandedBy(sl, qu, todo'[f][i])
<1> SUFFICES ASSUME NEW i \in DOMAIN todo'[f], NEW e, e = todo'[f][i], e.kind = "SEND_RUN"
             PROVE  HandedBy(sl, qu, e)
  OBVIOUS
<1>1. ~(todo' = [todo EXCEPT ![f] = pre])
  OBVIOUS
<1>2. PICK d \in Fds, j \in Jobs :
        /\ sl[d].state = "idle" /\ qu # <<>> /\ j = Head(qu)
        /\ slots' = [sl EXCEPT ![d] = Slot(sl[d].gen, "running", j)]
        /\ todo' = [todo EXCEPT ![f] = pre \o <<Effect("SEND_RUN", sl[d].gen, j)>>]
  BY <1>1 DEF Hands
<1>3. slots'[d] = Slot(sl[d].gen, "running", j)
  BY <1>2
<1>4. e = Effect("SEND_RUN", sl[d].gen, j)
  <2> DEFINE x == Effect("SEND_RUN", sl[d].gen, j)
  <2>1. todo'[f] = pre \o <<x>>
    BY <1>2
  <2> HIDE DEF x
  <2>2. i \in DOMAIN (pre \o <<x>>) /\ (pre \o <<x>>)[i].kind = "SEND_RUN"
    BY <2>1
  <2>3. Len(pre) \in Nat /\ DOMAIN pre = 1..Len(pre) /\ DOMAIN (pre \o <<x>>) = 1..(Len(pre) + 1)
        /\ (\A k \in 1..Len(pre) : (pre \o <<x>>)[k] = pre[k])
        /\ (pre \o <<x>>)[Len(pre) + 1] = x
    OBVIOUS
  <2>4. i = Len(pre) + 1
    BY <2>2, <2>3
  <2> QED BY <2>1, <2>3, <2>4 DEF x
<1>5. /\ slots'[d].gen = sl[d].gen /\ slots'[d].state = "running" /\ slots'[d].job = j
      /\ e.gen = sl[d].gen /\ e.job = j
  BY <1>3, <1>4 DEF Slot, Effect
<1> QED BY <1>2, <1>5 DEF HandedBy

\* A dispatch has just given job j to the slot of g.
GivenTo(g, j) ==
  \E d \in Fds : /\ slots'[d] # slots[d] /\ slots'[d].gen = g
                 /\ slots'[d].state = "running" /\ slots'[d].job = j

\* Every other SEND_RUN of a list was there before.
LEMMA SendsNew ==
  ASSUME DriverInv, PoolNext, RestInv, NEW f \in Fibers, NEW i \in DOMAIN todo'[f], NEW e,
         e = todo'[f][i], e.kind = "SEND_RUN"
  PROVE  \/ \E k \in DOMAIN todo[f] : e = todo[f][k]
         \/ GivenTo(e.gen, e.job)
<1> DEFINE G == \/ \E k \in DOMAIN todo[f] : e = todo[f][k]
                \/ GivenTo(e.gen, e.job)
<1> SUFFICES G
  OBVIOUS
<1>0. /\ todo \in [Fibers -> Seq(Doable)] /\ CoreInv /\ slots \in [Fds -> SlotSet]
      /\ queue \in Seq(Jobs)
      /\ \A g, s, j : Slot(g, s, j).gen = g /\ Slot(g, s, j).state = s
  BY LiveGens DEF DriverInv, TablesInv, PoolTypes, EventTypes, Slot
<1>1. CASE todo'[f] = todo[f]
  BY <1>1
<1>2. CASE GoesOn(f)
  BY <1>2, Fewer DEF GoesOn
<1>3. ASSUME todo'[f] = <<>> PROVE G
  BY <1>3
<1>4. ASSUME \A k \in DOMAIN todo'[f] : todo'[f][k].kind # "SEND_RUN" PROVE G
  BY <1>4
<1>5. ASSUME NEW pre \in Seq(Doable), \A k \in DOMAIN pre : pre[k].kind # "SEND_RUN", NEW qu,
             Hands(f, slots, qu, pre)
      PROVE  G
  <2>0. slots \in [Fds -> SlotSet] /\ todo \in [Fibers -> Seq(Doable)]
    BY <1>0
  <2>1. PICK d \in Fds :
          /\ slots[d].state = "idle" /\ qu # <<>>
          /\ slots'[d].gen = slots[d].gen /\ slots'[d].state = "running"
          /\ slots'[d].job = Head(qu) /\ e.gen = slots[d].gen /\ e.job = Head(qu)
    <3>1. HandedBy(slots, qu, e)
      BY <1>5, <2>0, HandsSend
    <3> QED BY <3>1 DEF HandedBy
  <2> QED BY <2>1 DEF GivenTo
<1>6. ASSUME NEW pre \in Seq(Doable), \A k \in DOMAIN pre : pre[k].kind # "SEND_RUN",
             NEW g \in Gens, fdOf[g] \in Fds, slots[fdOf[g]].state \in {"starting", "running"},
             Hands(f, [slots EXCEPT ![fdOf[g]] = Slot(g, "idle", NoJob)], queue, pre)
      PROVE  G
  <2> DEFINE sl == [slots EXCEPT ![fdOf[g]] = Slot(g, "idle", NoJob)]
  <2>0. /\ sl \in [Fds -> SlotSet] /\ Hands(f, sl, queue, pre) /\ todo \in [Fibers -> Seq(Doable)]
        /\ \A d \in Fds : d # fdOf[g] => sl[d] = slots[d]
    BY <1>0, <1>6, IdleSlot
  <2> HIDE DEF sl
  <2>1. PICK d \in Fds :
          /\ sl[d].state = "idle" /\ queue # <<>>
          /\ slots'[d].gen = sl[d].gen /\ slots'[d].state = "running"
          /\ slots'[d].job = Head(queue) /\ e.gen = sl[d].gen /\ e.job = Head(queue)
    <3>1. HandedBy(sl, queue, e)
      BY <1>6, <2>0, HandsSend
    <3> QED BY <3>1 DEF HandedBy
  <2>2. slots'[d] # slots[d]
    <3>1. CASE d # fdOf[g]
      BY <2>0, <2>1, <3>1
    <3>2. CASE slots[d].state = "starting"
      BY <2>1, <3>2
    <3>3. CASE slots[d].state = "running"
      <4>1. 1 \in DOMAIN queue /\ Head(queue) = queue[1]
        BY <1>0, <2>1
      <4>2. slots[d].job # queue[1]
        BY <1>0, <4>1 DEF CoreInv, JobsInv
      <4> QED BY <2>1, <4>1, <4>2
    <3> QED BY <1>6, <3>1, <3>2, <3>3
  <2> QED BY <2>1, <2>2 DEF GivenTo
<1>7. <<>> \in Seq(Doable) /\ \A k \in DOMAIN <<>> : <<>>[k].kind # "SEND_RUN"
  OBVIOUS
<1>8. ASSUME NEW g \in Gens, fdOf[g] \in Fds, Loses(f, g) PROVE G
  <2>1. \A k \in DOMAIN LossEffects(g) : LossEffects(g)[k].kind # "SEND_RUN"
    BY <1>0, <1>8, LossKinds DEF Teardown
  <2>2. todo'[f] = <<>> \/ todo'[f] = LossEffects(g)
    BY <1>0, <1>8 DEF Loses
  <2> QED BY <1>3, <1>4, <2>1, <2>2
<1>9. ASSUME Fills(f) PROVE G
  <2>1. PICK n \in Nat : nextGen' = nextGen + n /\ nextGen' <= MaxGen
                         /\ todo' = [todo EXCEPT ![f] = Spawns(n)]
    BY <1>9 DEF Fills
  <2>2. \A k \in DOMAIN Spawns(n) : Spawns(n)[k].kind = "SPAWN"
    BY <1>0, <2>1, AsksSpawns
  <2>3. todo'[f] = Spawns(n)
    BY <1>0, <2>1
  <2> QED BY <1>4, <2>2, <2>3
<1>10. ASSUME SpawnSucceeds(f) PROVE G
  BY <1>4, <1>10, EnteredSlow DEF Quick
<1>11. ASSUME NEW j \in Jobs, Submit(j), f = Submitter PROVE G
  <2>1. CASE todo' = [todo EXCEPT ![Submitter] = <<>>]
    BY <1>0, <1>3, <1>11, <2>1
  <2> QED BY <1>5, <1>7, <1>11, <2>1, SubmitsForm
<1>12. ASSUME CloseStops, f = Closer PROVE G
  <2>1. todo'[f] = CloseEffects
    BY <1>0, <1>12, StopsForm
  <2>2. \A k \in DOMAIN CloseEffects : CloseEffects[k].kind # "SEND_RUN"
    BY <1>12, StopsForm
  <2> HIDE DEF CloseEffects
  <2> QED BY <1>4, <2>1, <2>2
<1>13. ASSUME CloseKills PROVE G
  <2>1. CASE f = Closer
    BY <1>4, <1>13, <2>1, KillsForm
  <2>2. CASE f # Closer
    <3>1. todo'[f] = <<>> \/ todo'[f] = todo[f]
      BY <1>13, <2>2, KillsForm
    <3> QED BY <1>1, <1>3, <3>1
  <2> QED BY <2>1, <2>2
<1>14. ASSUME NEW g \in Gens, Read(g), f = Reader(g) PROVE G
  <2>1. CASE todo' = [todo EXCEPT ![Reader(g)] = <<>>]
    BY <1>0, <1>3, <1>14, <2>1
  <2>2. CASE Readies(g)
    BY <1>6, <1>7, <1>14, <2>1, <2>2, ReadForm DEF Readies
  <2>3. ASSUME NEW j, Results(g, j) PROVE G
    <3>1. CASE slots[fdOf[g]] = Slot(g, "running", j) /\ j \in Jobs
      <4>1. ASSUME NEW kind \in {"RESOLVE", "FAIL"}
            PROVE  /\ <<Effect(kind, g, j)>> \in Seq(Doable)
                   /\ \A k \in DOMAIN <<Effect(kind, g, j)>> :
                        <<Effect(kind, g, j)>>[k].kind # "SEND_RUN"
        <5>1. Effect(kind, g, j) \in Doable /\ Effect(kind, g, j).kind = kind
          BY <1>14, <3>1 DEF Effect, Doable, Effects
        <5> QED BY <5>1
      <4>2. slots[fdOf[g]].state = "running"
        BY <1>0, <3>1
      <4>3. ASSUME NEW kind \in {"RESOLVE", "FAIL"},
                   Hands(Reader(g), [slots EXCEPT ![fdOf[g]] = Slot(g, "idle", NoJob)], queue,
                         <<Effect(kind, g, j)>>)
            PROVE  G
        BY <1>6, <1>14, <4>1, <4>2, <4>3, ReadForm
      <4> QED BY <2>1, <2>3, <4>3 DEF Results
    <3> QED BY <2>1, <2>3, <3>1 DEF Results
  <2>4. CASE Loses(Reader(g), g)
    BY <1>8, <1>14, <2>4, ReadForm
  <2>5. CASE UNCHANGED event \/ UNCHANGED todo
    BY <1>1, <2>5 DEF event
  <2> QED BY <1>14, <2>2, <2>3, <2>4, <2>5, ReadForm
<1> HIDE DEF G
<1>15. ASSUME NEW g \in Gens, LoseTask(g), f = Loser(g) PROVE G
  BY <1>1, <1>8, <1>15, LoseTaskForm
<1>16. ASSUME NEW t \in tasks, SendTask(t), f = Sender(t.gen) PROVE G
  <2>1. CASE UNCHANGED todo
    BY <1>1, <2>1
  <2> QED BY <1>8, <1>16, <2>1, SendForm
<1>17. ASSUME NEW g \in Gens, CloseDrains(g), f = Closer PROVE G
  BY <1>8, <1>17, DrainForm
<1>18. ASSUME f = Starter, Start PROVE G
  BY <1>9, <1>18, FillsForm DEF Start
<1>19. ASSUME CoreFill, Run(f, FillEffects) PROVE G
  BY <1>9, <1>19, FillsForm
<1>20. CASE Restarts(f)
  BY <1>10, <1>11, <1>12, <1>13, <1>14, <1>15, <1>16, <1>17, <1>18, <1>19, <1>20 DEF Restarts
<1> QED BY <1>1, <1>2, <1>20, Starts

-----------------------------------------------------------------------------
(* The processes and their messages                                          *)

\* One message less.
LEMMA OnceTail ==
  ASSUME NEW S, NEW s \in Seq(S), s # <<>>, NEW T, Once(s, T)
  PROVE  /\ Once(Tail(s), T) /\ (Has(Tail(s), T) => Has(s, T))
         /\ Head(s).op \in T => ~Has(Tail(s), T)
<1>1. /\ \A i \in DOMAIN Tail(s) : i + 1 \in DOMAIN s /\ i \in Nat \ {0} /\ Tail(s)[i] = s[i + 1]
      /\ Head(s) = s[1] /\ 1 \in DOMAIN s
  OBVIOUS
<1> DEFINE t == Tail(s)
<1> HIDE DEF t
<1>2. Once(t, T)
  <2> SUFFICES ASSUME NEW i \in DOMAIN t, NEW k \in DOMAIN t, t[i].op \in T, t[k].op \in T
               PROVE  i = k
    BY DEF Once
  <2>1. i + 1 = k + 1 /\ i \in Nat /\ k \in Nat
    BY <1>1 DEF Once, t
  <2> QED BY <2>1
<1>3. Has(t, T) => Has(s, T)
  BY <1>1 DEF Has, t
<1>4. ASSUME Head(s).op \in T, NEW i \in DOMAIN t, t[i].op \in T PROVE FALSE
  <2>1. i + 1 = 1 /\ i \in Nat \ {0}
    BY <1>1, <1>4 DEF Once, t
  <2> QED BY <2>1
<1> QED BY <1>2, <1>3, <1>4 DEF t, Has

\* One message more.
LEMMA OnceMore ==
  ASSUME NEW S, NEW s \in Seq(S), NEW m, NEW T, Once(s, T)
  PROVE  /\ m.op \notin T \/ ~Has(s, T) => Once(Append(s, m), T)
         /\ Has(Append(s, m), T) => Has(s, T) \/ m.op \in T
<1> DEFINE t == Append(s, m)
<1>1. /\ DOMAIN t = 1..(Len(s) + 1) /\ DOMAIN s = 1..Len(s) /\ Len(s) \in Nat
      /\ t[Len(s) + 1] = m /\ \A i \in 1..Len(s) : t[i] = s[i]
  OBVIOUS
<1> HIDE DEF t
<1>2. ASSUME m.op \notin T \/ ~Has(s, T) PROVE Once(t, T)
  <2> SUFFICES ASSUME NEW i \in DOMAIN t, NEW k \in DOMAIN t, t[i].op \in T, t[k].op \in T
               PROVE  i = k
    BY DEF Once
  <2>1. CASE m.op \notin T
    <3>1. i \in DOMAIN s /\ k \in DOMAIN s /\ t[i] = s[i] /\ t[k] = s[k]
      BY <1>1, <2>1
    <3> QED BY <3>1 DEF Once
  <2>2. CASE ~Has(s, T)
    <3>1. i = Len(s) + 1 /\ k = Len(s) + 1
      BY <1>1, <2>2 DEF Has
    <3> QED BY <3>1
  <2> QED BY <1>2, <2>1, <2>2
<1>3. Has(t, T) => Has(s, T) \/ m.op \in T
  <2> SUFFICES ASSUME NEW i \in DOMAIN t, t[i].op \in T PROVE Has(s, T) \/ m.op \in T
    BY DEF Has
  <2>1. CASE i = Len(s) + 1
    BY <1>1, <2>1
  <2>2. CASE i # Len(s) + 1
    <3>1. i \in DOMAIN s /\ t[i] = s[i]
      BY <1>1, <2>2
    <3> QED BY <3>1 DEF Has
  <2> QED BY <2>1, <2>2
<1> QED BY <1>2, <1>3 DEF t

\* No message.
LEMMA NoneHas == \A T : Once(<<>>, T) /\ ~Has(<<>>, T)
BY DEF Once, Has

\* None gets work or a message, but one that says it is ready or is not readable.
Calms(g) ==
  /\ Working(g)' => Working(g)
  /\ mail'[g] = mail[g] \/ mail'[g] = <<>>
  /\ \/ inbox'[g] = inbox[g] \/ inbox'[g] = <<>>
     \/ \E m : m.op \notin {"ok", "error"} /\ inbox'[g] = Append(inbox[g], m)

\* A sender's task writes to its socket.
Mails(g) ==
  /\ child'[g] = child[g] /\ inbox'[g] = inbox[g]
  /\ \E t \in tasks : /\ t.gen = g /\ t.op \in {"run", "stop"} /\ tasks' = tasks \ {t}
                      /\ mail'[g] = Append(mail[g], Message(t.op, t.job))

\* The child reads a message, works on a run and ends on a stop.
Takes(g) ==
  /\ inbox'[g] = inbox[g] /\ mail[g] # <<>> /\ mail'[g] = Tail(mail[g])
  /\ Working(g)' => Head(mail[g]).op = "run"

\* The child answers the run it works on.
Answers(g) ==
  /\ Working(g) /\ ~Working(g)' /\ mail'[g] = mail[g]
  /\ \E m : inbox'[g] = Append(inbox[g], m)

\* Its reader takes a message.
Receives(g) ==
  /\ child'[g] = child[g] /\ mail'[g] = mail[g]
  /\ Read(g) /\ inbox[g] # <<>> /\ inbox'[g] = Tail(inbox[g])

\* A step does one of these to the process of g and its messages.
LEMMA ProcessMoves ==
  ASSUME DriverInv, PoolNext, NEW g \in Gens
  PROVE  Calms(g) \/ Mails(g) \/ Takes(g) \/ Answers(g) \/ Receives(g)
<1> DEFINE G == Calms(g) \/ Mails(g) \/ Takes(g) \/ Answers(g) \/ Receives(g)
<1> SUFFICES G
  OBVIOUS
<1>0. /\ child = [h \in Gens |-> child[h]] /\ mail = [h \in Gens |-> mail[h]]
      /\ inbox = [h \in Gens |-> inbox[h]]
      /\ \A s, j : Process(s, j).is = s
      /\ \A op, j : Message(op, j).op = op
  BY DEF DriverInv, TablesInv, PoolTypes, ProcessTypes, Process, Message
<1>1. ASSUME child'[g] = child[g], mail'[g] = mail[g], inbox'[g] = inbox[g] PROVE G
  BY <1>1 DEF Calms, Working
<1>2. ASSUME NEW h, NEW c, child' = [child EXCEPT ![h] = c], c.is # "working",
             UNCHANGED <<mail, inbox>>
      PROVE  G
  <2>1. Working(g)' => Working(g)
    BY <1>0, <1>2 DEF Working
  <2> QED BY <1>2, <2>1 DEF Calms
<1>3. CASE UNCHANGED <<child, mail, inbox>>
  BY <1>1, <1>3
<1>4. ASSUME NEW h \in Gens, ChildWorks(h) \/ ChildDies(h) \/ ChildGarbles(h) PROVE G
  <2>0. ASSUME NEW c, NEW m, NEW i, ChildStep(h, c, m, i)
        PROVE  /\ h # g => child'[g] = child[g] /\ mail'[g] = mail[g] /\ inbox'[g] = inbox[g]
               /\ h = g => child'[g] = c /\ mail'[g] = m /\ inbox'[g] = i
    BY <1>0, <2>0 DEF ChildStep
  <2>1. CASE h # g
    <3>1. \E c, m, i : ChildStep(h, c, m, i)
      BY <1>4 DEF ChildWorks, ChildReady, ChildTakes, ChildAnswers, ChildEnds, ChildDies,
         ChildGarbles
    <3> QED BY <1>1, <2>0, <2>1, <3>1
  <2>2. CASE ChildReady(g)
    <3>1. ChildStep(g, Process("idle", NoJob), mail[g], Append(inbox[g], Message("ready", NoJob)))
      BY <2>2 DEF ChildReady
    <3>2. CASE h = g
      <4>1. /\ child'[g].is = "idle" /\ mail'[g] = mail[g]
            /\ inbox'[g] = Append(inbox[g], Message("ready", NoJob))
        <5>1. /\ child'[g] = Process("idle", NoJob) /\ mail'[g] = mail[g]
              /\ inbox'[g] = Append(inbox[g], Message("ready", NoJob))
          BY <2>0, <3>1, <3>2
        <5> QED BY <1>0, <5>1
      <4>2. \E m : m.op \notin {"ok", "error"} /\ inbox'[g] = Append(inbox[g], m)
        BY <1>0, <4>1
      <4>3. ~Working(g)'
        BY <4>1 DEF Working
      <4> QED BY <4>1, <4>2, <4>3 DEF Calms
    <3> QED BY <2>1, <3>2
  <2>3. CASE ChildTakes(g) /\ h = g
    <3>1. /\ mail[g] # <<>> /\ mail'[g] = Tail(mail[g]) /\ inbox'[g] = inbox[g]
          /\ child'[g] = IF Head(mail[g]).op = "run" THEN Process("working", Head(mail[g]).job)
                         ELSE Process("exited", NoJob)
      BY <2>0, <2>3 DEF ChildTakes
    <3> QED BY <1>0, <3>1 DEF Takes, Working
  <2>4. ASSUME NEW op \in {"ok", "error"}, ChildAnswers(g, op), h = g PROVE G
    <3>1. /\ child[g].is = "working" /\ child'[g] = Process("idle", NoJob)
          /\ mail'[g] = mail[g] /\ inbox'[g] = Append(inbox[g], Message(op, child[g].job))
      BY <2>0, <2>4 DEF ChildAnswers
    <3> QED BY <1>0, <3>1 DEF Answers, Working
  <2>5. CASE (ChildEnds(g) \/ ChildDies(g)) /\ h = g
    <3>1. /\ child'[g] = Process("exited", NoJob) /\ mail'[g] = mail[g] /\ inbox'[g] = inbox[g]
      BY <2>0, <2>5 DEF ChildEnds, ChildDies
    <3> QED BY <1>0, <3>1 DEF Calms, Working
  <2>6. CASE ChildGarbles(g) /\ h = g
    <3>1. /\ child'[g] = child[g] /\ mail'[g] = mail[g]
          /\ inbox'[g] = Append(inbox[g], Message("bad", NoJob))
      BY <2>0, <2>6 DEF ChildGarbles
    <3> QED BY <1>0, <3>1 DEF Calms, Working
  <2> QED BY <1>4, <2>1, <2>2, <2>3, <2>4, <2>5, <2>6 DEF ChildWorks
<1>5. ASSUME NEW f \in Fibers, DriveSpawn(f) \/ SpawnSucceeds(f) \/ SpawnFails(f) PROVE G
  <2>1. /\ UNCHANGED <<mail, inbox>>
        /\ \E s \in {"forking", "booting", "none"} :
             child' = [child EXCEPT ![Subject(f)] = Process(s, NoJob)]
    BY <1>5 DEF DriveSpawn, SpawnSucceeds, SpawnFails
  <2>2. PICK s \in {"forking", "booting", "none"} :
          child' = [child EXCEPT ![Subject(f)] = Process(s, NoJob)]
    BY <2>1
  <2>3. Process(s, NoJob).is # "working"
    BY <1>0
  <2> QED BY <1>2, <2>1, <2>2, <2>3
<1>6. ASSUME NEW f \in Fibers, ReapReturns(f) \/ DriveSkip(f) PROVE G
  <2>1. /\ child'[g] = child[g] \/ child'[g] = Process("reaped", NoJob)
        /\ mail'[g] = mail[g] \/ mail'[g] = <<>>
        /\ inbox'[g] = inbox[g] \/ inbox'[g] = <<>>
    BY <1>0, <1>6 DEF ReapReturns, DriveSkip, process
  <2> QED BY <1>0, <2>1 DEF Calms, Working
<1>7. ASSUME NEW t \in tasks, SendTask(t) PROVE G
  <2>1. UNCHANGED <<child, inbox>>
    BY <1>7 DEF SendTask
  <2>2. CASE UNCHANGED mail
    BY <1>3, <2>1, <2>2
  <2>3. CASE mail' = [mail EXCEPT ![t.gen] = Append(mail[t.gen], Message(t.op, t.job))]
    <3>1. CASE t.gen = g
      <4>1. mail'[g] = Append(mail[g], Message(t.op, t.job))
        BY <1>0, <2>3, <3>1
      <4> QED BY <1>7, <2>1, <3>1, <4>1, SendForm DEF Mails
    <3>2. CASE t.gen # g
      BY <1>0, <1>1, <2>1, <2>3, <3>2
    <3> QED BY <3>1, <3>2
  <2> QED BY <1>7, <2>2, <2>3, SendForm
<1>8. ASSUME NEW h \in Gens, Read(h) PROVE G
  <2>1. UNCHANGED <<child, mail>>
    BY <1>8 DEF Read
  <2>2. CASE UNCHANGED inbox
    BY <1>3, <2>1, <2>2
  <2>3. CASE inbox[h] # <<>> /\ inbox' = [inbox EXCEPT ![h] = Tail(inbox[h])]
    <3>1. CASE h = g
      BY <1>0, <1>8, <2>1, <2>3, <3>1 DEF Receives
    <3>2. CASE h # g
      BY <1>0, <1>1, <2>1, <2>3, <3>2
    <3> QED BY <3>1, <3>2
  <2> QED BY <1>8, <2>2, <2>3, ReadForm
<1> HIDE DEF G
<1>9. CASE Elsewhere
  <2>1. UNCHANGED <<child, mail, inbox>> \/ \E f \in Fibers : DriveSpawn(f)
    BY <1>9 DEF Elsewhere, StartDriven, StartReady, StartRaises, SubmitDriven, Close,
       RecoverDriven, ReadDriven, LoseDriven, SendDriven, CloseStopped, CloseKilled, CloseEnds,
       CancelReader, DriveReap, process
  <2> QED BY <1>3, <1>5, <2>1
<1>10. CASE Children
  BY <1>4, <1>10 DEF Children
<1>11. CASE \E f \in Fibers : DriveSend(f) \/ DriveSettle(f) \/ DriveDrop(f) \/ DriveClose(f)
  BY <1>3, <1>11 DEF DriveSend, DriveSettle, DriveDrop, DriveClose, process
<1>12. CASE \/ Start \/ Recover \/ CloseStops \/ CloseKills
            \/ \E j \in Jobs : Submit(j)
            \/ \E h \in Gens : LoseTask(h) \/ CloseDrains(h)
  BY <1>3, <1>12 DEF Start, Recover, CloseStops, CloseKills, Submit, LoseTask, CloseDrains, process
<1> QED BY <1>5, <1>6, <1>7, <1>8, <1>9, <1>10, <1>11, <1>12, Steps

-----------------------------------------------------------------------------
(* A run goes from one place to the next                                     *)

\* A job that was to be sent has its task, and no other is to be sent.
LEMMA SendStops ==
  ASSUME DriverInv, RestInv, NEW f \in Fibers, DriveSend(f), Heads(f, "SEND_RUN")
  PROVE  \A g \in Gens : ~Sending(g)'
<1>0. todo \in [Fibers -> Seq(Doable)] /\ turn = f /\ todo' = [todo EXCEPT ![f] = Tail(todo[f])]
  BY Pops DEF DriverInv, TablesInv, PoolTypes, EventTypes, DriveSend, Performs
<1>1. Tail(todo[f]) = <<>>
  BY TailRests DEF RestInv
<1>2. \A h \in Fibers : todo'[h] = IF h = f THEN <<>> ELSE todo[h]
  BY <1>0, <1>1
<1>3. \A h \in Fibers : \A i \in DOMAIN todo[h] : todo[h][i].kind = "SEND_RUN" => h = f
  BY <1>0, SendsLast
<1> QED BY <1>2, <1>3 DEF Sending

\* A run is to be sent because it was, or because it has just been given.
LEMMA SendingMoves ==
  ASSUME DriverInv, PoolNext, RestInv, NEW g \in Gens, Sending(g)'
  PROVE  Sending(g) \/ \E j : GivenTo(g, j)
<1>1. PICK f \in Fibers : \E i \in DOMAIN todo'[f] : /\ todo'[f][i].kind = "SEND_RUN"
                                                     /\ todo'[f][i].gen = g
  BY DEF Sending
<1>2. PICK i \in DOMAIN todo'[f] : todo'[f][i].kind = "SEND_RUN" /\ todo'[f][i].gen = g
  BY <1>1
<1> DEFINE e == todo'[f][i]
<1>3. \/ \E k \in DOMAIN todo[f] : e = todo[f][k]
      \/ GivenTo(e.gen, e.job)
  BY <1>2, SendsNew
<1> QED BY <1>2, <1>3 DEF Sending

\* A run goes from one place to the next.
LEMMA FlightMoves ==
  ASSUME DriverInv, PoolNext, RestInv, FlightInv, NEW g \in Gens
  PROVE  /\ Due(g)' => Due(g) \/ (Sending(g) /\ ~Sending(g)')
         /\ Mailed(g)' => Mailed(g) \/ (Due(g) /\ ~Due(g)')
         /\ Working(g)' => Working(g) \/ (Mailed(g) /\ ~Mailed(g)')
         /\ Answered(g)' => Answered(g) \/ (Working(g) /\ ~Working(g)')
<1>0. mail[g] \in Seq(MailSet) /\ inbox[g] \in Seq(InboxSet)
  BY DEF DriverInv, TablesInv, PoolTypes, ProcessTypes, MailSet, InboxSet
<1>1. ASSUME Due(g)' PROVE Due(g) \/ (Sending(g) /\ ~Sending(g)')
  <2>1. PICK t \in tasks' : t.op = "run" /\ t.gen = g
    BY <1>1 DEF Due
  <2>2. CASE t \in tasks
    BY <2>1, <2>2 DEF Due
  <2>3. CASE t \notin tasks
    <3>1. PICK f \in Fibers, kind \in {"SEND_RUN", "SEND_STOP"} :
            /\ DriveSend(f) /\ Heads(f, kind)
            /\ t = Task(IF kind = "SEND_RUN" THEN "run" ELSE "stop", Subject(f), Head(todo[f]).job)
      <4>1. \A h : t # Task("lose", h, NoJob)
        BY <2>1 DEF Task
      <4> QED BY <2>3, <4>1, NewTasks
    <3>2. kind = "SEND_RUN" /\ Subject(f) = g
      BY <2>1, <3>1 DEF Task
    <3>3. Sending(g)
      BY <3>1, <3>2, First DEF Sending, DriverInv, TablesInv
    <3>4. ~Sending(g)'
      BY <3>1, <3>2, SendStops
    <3> QED BY <3>3, <3>4
  <2> QED BY <2>2, <2>3
<1>2. ASSUME Mailed(g)', ~Mailed(g) PROVE Due(g) /\ ~Due(g)'
  <2>1. Mails(g)
    <3>1. Calms(g) => FALSE
      BY <1>2, NoneHas DEF Calms, Mailed
    <3>2. Takes(g) => FALSE
      BY <1>0, <1>2, OnceTail DEF Takes, Mailed, FlightInv, RunOnce
    <3>3. Answers(g) \/ Receives(g) => FALSE
      BY <1>2 DEF Answers, Receives, Mailed
    <3> QED BY <3>1, <3>2, <3>3, ProcessMoves
  <2>2. PICK t \in tasks : /\ t.gen = g /\ tasks' = tasks \ {t}
                           /\ mail'[g] = Append(mail[g], Message(t.op, t.job))
    BY <2>1 DEF Mails
  <2>3. t.op = "run"
    BY <1>0, <1>2, <2>2, OnceMore, ProcessForm DEF Mailed, FlightInv, RunOnce
  <2> QED BY <2>2, <2>3 DEF Due, FlightInv, RunOnce
<1>3. ASSUME Working(g)', ~Working(g) PROVE Mailed(g) /\ ~Mailed(g)'
  <2>1. Takes(g)
    BY <1>3, ProcessMoves DEF Calms, Mails, Answers, Receives, Working
  <2>2. /\ mail[g] # <<>> /\ mail'[g] = Tail(mail[g]) /\ Head(mail[g]).op = "run"
        /\ Once(mail[g], {"run"})
    BY <1>3, <2>1 DEF Takes, FlightInv, RunOnce
  <2>3. Has(mail[g], {"run"})
    BY <1>0, <2>2 DEF Has
  <2>4. ~Has(mail'[g], {"run"})
    BY <1>0, <2>2, OnceTail
  <2> QED BY <2>3, <2>4 DEF Mailed
<1>4. ASSUME Answered(g)', ~Answered(g) PROVE Working(g) /\ ~Working(g)'
  <2>1. Once(inbox[g], {"ok", "error"})
    BY DEF FlightInv, RunOnce
  <2>2. Calms(g) => FALSE
    <3>1. ASSUME NEW m, m.op \notin {"ok", "error"}, inbox'[g] = Append(inbox[g], m) PROVE FALSE
      BY <1>0, <1>4, <2>1, <3>1, OnceMore DEF Answered
    <3> QED BY <1>4, <3>1, NoneHas DEF Calms, Answered
  <2>3. Receives(g) => FALSE
    BY <1>0, <1>4, <2>1, OnceTail DEF Receives, Answered
  <2>4. Mails(g) \/ Takes(g) => FALSE
    BY <1>4 DEF Mails, Takes, Answered
  <2> QED BY <2>2, <2>3, <2>4, ProcessMoves DEF Answers
<1> QED BY <1>1, <1>2, <1>3, <1>4

\* A skeleton without a run, or whose answer is being read, gets none but a new one.
LEMMA Free ==
  ASSUME DriverInv, PoolNext, RestInv, FlightInv, NEW g \in Gens,
         \/ ~Flying(g)
         \/ Read(g) /\ inbox[g] # <<>> /\ Head(inbox[g]).op \in {"ok", "error"}
  PROVE  /\ ~Due(g)' /\ ~Mailed(g)' /\ ~Working(g)' /\ ~Answered(g)'
         /\ Sending(g)' => \E j : GivenTo(g, j)
<1>0. inbox[g] \in Seq(InboxSet)
  BY DEF DriverInv, TablesInv, PoolTypes, ProcessTypes, InboxSet
<1>1. CASE ~Flying(g)
  BY <1>1, FlightMoves, SendingMoves DEF Flying
<1>2. CASE Read(g) /\ inbox[g] # <<>> /\ Head(inbox[g]).op \in {"ok", "error"}
  <2>1. Answered(g)
    BY <1>0, <1>2 DEF Answered, Has
  <2>2. ~Sending(g) /\ ~Due(g) /\ ~Mailed(g) /\ ~Working(g)
    BY <2>1 DEF FlightInv, OneRun
  <2>3. inbox'[g] = Tail(inbox[g])
    <3>1. inbox' = [inbox EXCEPT ![g] = Tail(inbox[g])]
      BY <1>2, ReadForm
    <3> QED BY <3>1 DEF DriverInv, TablesInv, PoolTypes, ProcessTypes
  <2>4. ~Answered(g)'
    BY <1>0, <1>2, <2>3, OnceTail DEF Answered, FlightInv, RunOnce
  <2> QED BY <2>2, <2>4, FlightMoves, SendingMoves
<1> QED BY <1>1, <1>2

\* A skeleton that is given a run has no other.
LEMMA GivenFree ==
  ASSUME DriverInv, PoolNext, RestInv, FlightInv, NEW g \in Gens, NEW j, GivenTo(g, j)
  PROVE  /\ ~Due(g)' /\ ~Mailed(g)' /\ ~Working(g)' /\ ~Answered(g)'
         /\ reader[g] # "none" /\ ~Gone(g)'
         /\ \A d \in Fds : slots'[d].gen = g => slots'[d].state = "running"
<1>0. g # 0 /\ CoreInv /\ CoreInv'
  BY CoreNext DEF DriverInv, Gens
<1>1. PICK d \in Fds : /\ slots'[d] # slots[d] /\ slots'[d].gen = g
                       /\ slots'[d].state = "running"
  BY DEF GivenTo
<1>2. slots'[d] # NoSlot
  BY <1>0, <1>1, LiveGens
<1>3. Changed(d, g)
  BY <1>1, <1>2, SlotChanges
<1>4. /\ slots[d].gen = g
      /\ \/ slots[d].state \in {"starting", "idle"}
         \/ Read(g) /\ inbox[g] # <<>> /\ Head(inbox[g]).op \in {"ok", "error"}
  BY <1>1, <1>3 DEF Changed
<1>5. \/ ~Flying(g)
      \/ Read(g) /\ inbox[g] # <<>> /\ Head(inbox[g]).op \in {"ok", "error"}
  BY <1>1, <1>4 DEF FlightInv, Waits
<1>6. reader[g] # "none"
  BY <1>0, <1>1, <1>4, LiveGens DEF DriverInv, TablesInv, PlaceInv
<1>7. \A h \in Fds : slots'[h].gen = g => h = d
  BY <1>0, <1>1, <1>2 DEF CoreInv, GensInv, LiveIn, NoSlot
<1> QED BY <1>1, <1>5, <1>6, <1>7, Free DEF Gone

\* A skeleton has one run at a time.
LEMMA OneRunStep ==
  ASSUME DriverInv, PoolNext, RestInv, FlightInv, NEW g \in Gens
  PROVE  OneRun(g)'
<1>1. CASE \E j : GivenTo(g, j)
  BY <1>1, GivenFree DEF OneRun
<1>2. CASE ~\E j : GivenTo(g, j)
  <2>1. Sending(g)' => Sending(g)
    BY <1>2, SendingMoves
  <2>2. OneRun(g)
    BY DEF FlightInv
  <2> QED BY <2>1, <2>2, FlightMoves DEF OneRun
<1> QED BY <1>1, <1>2

\* A run is in its place once.
LEMMA RunOnceStep ==
  ASSUME DriverInv, PoolNext, RestInv, FlightInv, NEW g \in Gens
  PROVE  RunOnce(g)'
<1>0. /\ mail[g] \in Seq(MailSet) /\ inbox[g] \in Seq(InboxSet)
      /\ RunOnce(g) /\ OneRun(g)
  BY DEF DriverInv, TablesInv, PoolTypes, ProcessTypes, MailSet, InboxSet, FlightInv
<1>1. ASSUME NEW t \in tasks', NEW u \in tasks', t.op = "run", u.op = "run", t.gen = g, u.gen = g
      PROVE  t = u
  <2>1. ASSUME NEW x \in tasks', x \notin tasks, x.op = "run", x.gen = g
        PROVE  Sending(g) /\ \E f \in Fibers : /\ DriveSend(f) /\ Heads(f, "SEND_RUN")
                                               /\ tasks' = tasks \cup {x}
    <3>1. PICK f \in Fibers, kind \in {"SEND_RUN", "SEND_STOP"} :
            /\ DriveSend(f) /\ Heads(f, kind)
            /\ x = Task(IF kind = "SEND_RUN" THEN "run" ELSE "stop", Subject(f), Head(todo[f]).job)
      <4>1. \A h : x # Task("lose", h, NoJob)
        BY <2>1 DEF Task
      <4> QED BY <2>1, <4>1, NewTasks
    <3>2. kind = "SEND_RUN" /\ Subject(f) = g
      BY <2>1, <3>1 DEF Task
    <3>3. Sending(g)
      BY <3>1, <3>2, First DEF Sending, DriverInv, TablesInv
    <3>4. tasks' = tasks \cup {x}
      BY <3>1, <3>2 DEF DriveSend, Performs, Heads
    <3> QED BY <3>1, <3>2, <3>3, <3>4
  <2>2. CASE t \in tasks /\ u \in tasks
    BY <1>0, <1>1, <2>2 DEF RunOnce
  <2>3. CASE t \notin tasks
    <3>1. ~Due(g) /\ tasks' = tasks \cup {t}
      BY <1>0, <1>1, <2>1, <2>3 DEF OneRun
    <3> QED BY <1>1, <3>1 DEF Due
  <2>4. CASE u \notin tasks
    <3>1. ~Due(g) /\ tasks' = tasks \cup {u}
      BY <1>0, <1>1, <2>1, <2>4 DEF OneRun
    <3> QED BY <1>1, <3>1 DEF Due
  <2> QED BY <2>2, <2>3, <2>4
<1>2. Once(mail'[g], {"run"}) /\ Once(inbox'[g], {"ok", "error"})
  <2>0. Once(mail[g], {"run"}) /\ Once(inbox[g], {"ok", "error"})
    BY <1>0 DEF RunOnce
  <2>1. CASE Calms(g)
    <3>1. ASSUME NEW m, m.op \notin {"ok", "error"}, inbox'[g] = Append(inbox[g], m)
          PROVE  Once(inbox'[g], {"ok", "error"})
      BY <1>0, <2>0, <3>1, OnceMore
    <3> QED BY <2>0, <2>1, <3>1, NoneHas DEF Calms
  <2>2. CASE Mails(g)
    <3>1. PICK t \in tasks : /\ t.gen = g /\ t.op \in {"run", "stop"}
                             /\ mail'[g] = Append(mail[g], Message(t.op, t.job))
      BY <2>2 DEF Mails
    <3>2. Message(t.op, t.job).op \notin {"run"} \/ ~Has(mail[g], {"run"})
      BY <1>0, <3>1, ProcessForm DEF OneRun, Due, Mailed
    <3> QED BY <1>0, <2>0, <2>2, <3>1, <3>2, OnceMore DEF Mails
  <2>3. CASE Takes(g)
    BY <1>0, <2>0, <2>3, OnceTail DEF Takes
  <2>4. CASE Answers(g)
    <3>1. ~Has(inbox[g], {"ok", "error"})
      BY <1>0, <2>4 DEF OneRun, Answers, Answered
    <3> QED BY <1>0, <2>0, <2>4, <3>1, OnceMore DEF Answers
  <2>5. CASE Receives(g)
    BY <1>0, <2>0, <2>5, OnceTail DEF Receives
  <2> QED BY <2>1, <2>2, <2>3, <2>4, <2>5, ProcessMoves
<1> QED BY <1>1, <1>2 DEF RunOnce

\* The slot of a skeleton that has a run does not wait for one.
LEMMA FlyingStep ==
  ASSUME DriverInv, PoolNext, RestInv, FlightInv, NEW g \in Gens, Flying(g)'
  PROVE  reader'[g] # "none" /\ ~Waits(g)'
<1>1. CASE \E j : GivenTo(g, j)
  BY <1>1, GivenFree, ReadersStay DEF Waits
<1>2. CASE ~\E j : GivenTo(g, j)
  <2>1. Flying(g)
    BY <1>2, SendingMoves, FlightMoves DEF Flying
  <2>2. reader[g] # "none" /\ ~Waits(g)
    BY <2>1 DEF FlightInv
  <2>3. ~(Read(g) /\ inbox[g] # <<>> /\ Head(inbox[g]).op \in {"ok", "error"})
    BY <1>2, Free DEF Flying
  <2>4. ASSUME NEW d \in Fds, slots'[d].gen = g, slots'[d].state \in {"starting", "idle"}
        PROVE  FALSE
    <3>1. slots'[d] # slots[d]
      BY <2>2, <2>4 DEF Waits
    <3>2. slots'[d] # NoSlot
      BY <2>4 DEF NoSlot
    <3>3. Changed(d, g)
      BY <2>4, <3>1, <3>2, SlotChanges
    <3> QED BY <2>2, <2>3, <2>4, <3>3 DEF Changed, Waits
  <2> QED BY <2>2, <2>4, ReadersStay DEF Waits
<1> QED BY <1>1, <1>2

\* What a sender still has to do concerns a skeleton that is given up.
LEMMA SenderStep ==
  ASSUME DriverInv, PoolNext, RestInv, FlightInv, NEW g \in Gens, todo'[Sender(g)] # <<>>
  PROVE  Gone(g)' /\ ~Sending(g)' /\ ~Due(g)'
<1>0. Sender(g) \in Fibers /\ Sender(g) # Closer /\ todo \in [Fibers -> Seq(Doable)]
  BY FiberNames DEF DriverInv, TablesInv, PoolTypes, EventTypes
<1>1. ASSUME Gone(g)', ~Sending(g) PROVE ~Sending(g)'
  BY <1>1, SendingMoves, GivenFree
<1>2. CASE todo[Sender(g)] # <<>>
  <2>1. Gone(g) /\ ~Sending(g) /\ ~Due(g)
    BY <1>2 DEF FlightInv
  <2> QED BY <1>1, <2>1, GoneStays, FlightMoves
<1>3. CASE todo[Sender(g)] = <<>>
  <2>1. ~GoesOn(Sender(g)) /\ ~SpawnSucceeds(Sender(g)) /\ ~CloseKills
    BY <1>0, <1>3, KillsForm DEF GoesOn, SpawnSucceeds, Resumes, Heads
  <2>2. PICK t \in tasks : t.gen = g /\ SendTask(t)
    BY <1>0, <1>3, <2>1, Starts, RestartsForm
  <2>3. ~UNCHANGED todo
    BY <1>3
  <2>4. /\ t.op = "run" /\ fdOf[g] \in Fds /\ Loses(Sender(g), g) /\ turn = Loop
        /\ tasks' = tasks \ {t}
    BY <2>2, <2>3, SendForm
  <2>5. slots[fdOf[g]] # NoSlot /\ slots[fdOf[g]].gen = g
    BY <1>0, <2>4 DEF Loses
  <2>6. Gone(g)'
    BY <2>4, <2>5, LosesGone
  <2>7. ~Sending(g)
    BY <2>4, SendsLast DEF Sending
  <2>8. ~Due(g)'
    BY <2>2, <2>4 DEF Due, FlightInv, RunOnce
  <2> QED BY <1>1, <2>6, <2>7, <2>8
<1> QED BY <1>2, <1>3

\* At most one run is in flight for every skeleton.
LEMMA FlightStep ==
  ASSUME DriverInv, PoolNext, RestInv, FlightInv
  PROVE  FlightInv'
<1>1. ASSUME NEW g \in Gens
      PROVE  /\ OneRun(g)' /\ RunOnce(g)'
             /\ Flying(g)' => reader'[g] # "none" /\ ~Waits(g)'
             /\ todo'[Sender(g)] # <<>> => Gone(g)' /\ ~Sending(g)' /\ ~Due(g)'
  BY OneRunStep, RunOnceStep, FlyingStep, SenderStep
<1> HIDE DEF OneRun, RunOnce, Flying, Waits, Gone, Sending, Due
<1> QED BY <1>1 DEF FlightInv, Sender

-----------------------------------------------------------------------------
(* Jobs that are held, and jobs that are owed                                *)

\* A job is queued, or a slot has it.
Held(j) == \/ \E i \in DOMAIN queue : queue[i] = j
           \/ \E d \in Fds : slots[d].job = j

\* Fiber f has job j to settle.
Owes(f, j) ==
  \E i \in DOMAIN todo[f] : todo[f][i].kind \in {"RESOLVE", "FAIL"} /\ todo[f][i].job = j

\* A job is undecided when one or the other is so.
LEMMA UndecidedForm ==
  ASSUME NEW j \in Jobs
  PROVE  Undecided(j) <=> Held(j) \/ \E f \in Fibers : Owes(f, j)
<1>1. j # NoSlot.job
  BY CoreAssumption DEF NoSlot
<1>2. (\E f \in Live : slots[f].job = j) <=> \E d \in Fds : slots[d].job = j
  BY <1>1 DEF Live
<1> QED BY <1>2 DEF Undecided, Held, Owes

\* A dispatch moves a job from the queue to a slot, and leaves the others.
LEMMA HandsHold ==
  ASSUME NEW sl \in [Fds -> SlotSet], NEW qu \in Seq(Jobs), NEW f, NEW pre,
         Hands(f, sl, qu, pre), NEW j \in Jobs,
         \A d \in Fds : sl[d].state = "idle" => sl[d].job # j,
         (\E i \in DOMAIN qu : qu[i] = j) \/ \E d \in Fds : sl[d].job = j
  PROVE  Held(j)'
<1>1. CASE slots' = sl /\ queue' = qu
  BY <1>1 DEF Held
<1>2. ASSUME NEW d \in Fds, sl[d].state = "idle", qu # <<>>, queue' = Tail(qu),
             slots' = [sl EXCEPT ![d] = Slot(sl[d].gen, "running", Head(qu))]
      PROVE  Held(j)'
  <2>1. /\ Head(qu) = qu[1] /\ DOMAIN qu = 1..Len(qu) /\ Len(qu) \in Nat
        /\ DOMAIN Tail(qu) = 1..(Len(qu) - 1)
        /\ \A i \in 1..(Len(qu) - 1) : Tail(qu)[i] = qu[i + 1]
    BY <1>2
  <2>2. slots'[d].job = Head(qu)
    BY <1>2 DEF Slot
  <2>3. ASSUME NEW i \in DOMAIN qu, qu[i] = j PROVE Held(j)'
    <3>1. CASE i = 1
      BY <2>1, <2>2, <2>3, <3>1 DEF Held
    <3>2. CASE i # 1
      <4>1. i - 1 \in 1..(Len(qu) - 1) /\ (i - 1) + 1 = i
        BY <2>1, <3>2
      <4>2. i - 1 \in DOMAIN queue' /\ queue'[i - 1] = j
        BY <1>2, <2>1, <2>3, <4>1
      <4> QED BY <4>2 DEF Held
    <3> QED BY <3>1, <3>2
  <2>4. ASSUME NEW h \in Fds, sl[h].job = j PROVE Held(j)'
    <3>1. h # d
      BY <1>2, <2>4
    <3>2. slots'[h].job = j
      BY <1>2, <2>4, <3>1
    <3> QED BY <3>2 DEF Held
  <2> QED BY <2>3, <2>4
<1> QED BY <1>1, <1>2 DEF Hands

\* A slot that is lost leaves its job to the fiber that loses it.
LEMMA LosesHold ==
  ASSUME DriverInv, NEW f \in Fibers, NEW g \in Gens, fdOf[g] \in Fds, Loses(f, g),
         NEW j \in Jobs, Held(j)
  PROVE  Held(j)' \/ Owes(f, j)'
<1>0. CoreInv /\ slots \in [Fds -> SlotSet] /\ todo \in [Fibers -> Seq(Doable)] /\ j # NoJob
  BY LiveGens, CoreAssumption DEF DriverInv, TablesInv, PoolTypes, EventTypes
<1>1. CASE UNCHANGED slots \/ (\E i \in DOMAIN queue : queue[i] = j)
  BY <1>1 DEF Loses, Held
<1>2. ASSUME NEW d \in Fds, slots[d].job = j, slots' = [slots EXCEPT ![fdOf[g]] = NoSlot],
             todo' = [todo EXCEPT ![f] = LossEffects(g)]
      PROVE  Held(j)' \/ Owes(f, j)'
  <2>1. CASE d # fdOf[g]
    BY <1>0, <1>2, <2>1 DEF Held
  <2>2. CASE d = fdOf[g]
    <3>1. /\ LossEffects(g) \in Seq(Doable) /\ Len(LossEffects(g)) = 5
          /\ LossEffects(g)[5] = Effect("FAIL", g, j)
      BY <1>0, <1>2, <2>2, LossForm
    <3>2. todo'[f] = LossEffects(g)
      BY <1>0, <1>2
    <3> HIDE DEF LossEffects
    <3>3. 5 \in DOMAIN todo'[f] /\ todo'[f][5].kind = "FAIL" /\ todo'[f][5].job = j
      BY <3>1, <3>2 DEF Effect
    <3> QED BY <3>3 DEF Owes
  <2> QED BY <2>1, <2>2
<1> QED BY <1>1, <1>2 DEF Loses, Held

\* A message that frees the slot of g leaves its job to the reader.
LEMMA FreesHold ==
  ASSUME DriverInv, NEW g \in Gens, fdOf[g] \in Fds, NEW pre,
         \/ slots[fdOf[g]].state = "starting" /\ pre = <<>>
         \/ \E k \in Jobs, kind \in {"RESOLVE", "FAIL"} :
              slots[fdOf[g]] = Slot(g, "running", k) /\ pre = <<Effect(kind, g, k)>>,
         Hands(Reader(g), [slots EXCEPT ![fdOf[g]] = Slot(g, "idle", NoJob)], queue, pre),
         NEW j \in Jobs, Held(j)
  PROVE  Held(j)' \/ Owes(Reader(g), j)'
<1> DEFINE sl == [slots EXCEPT ![fdOf[g]] = Slot(g, "idle", NoJob)]
<1>0. /\ CoreInv /\ slots \in [Fds -> SlotSet] /\ todo \in [Fibers -> Seq(Doable)] /\ j # NoJob
      /\ queue \in Seq(Jobs) /\ Reader(g) \in Fibers
      /\ \A d \in Fds : slots[d].job # NoJob <=> slots[d].state = "running"
  BY LiveGens, FiberNames, CoreAssumption
     DEF DriverInv, TablesInv, PoolTypes, EventTypes, CoreInv, JobsInv
<1>1. sl \in [Fds -> SlotSet] /\ Hands(Reader(g), sl, queue, pre)
  BY <1>0, IdleSlot
<1>2. \A d \in Fds : sl[d] = IF d = fdOf[g] THEN Slot(g, "idle", NoJob) ELSE slots[d]
  BY <1>0
<1> HIDE DEF sl
<1>3. \A d \in Fds : sl[d].state = "idle" => sl[d].job # j
  BY <1>0, <1>2 DEF Slot
<1>4. CASE (\E i \in DOMAIN queue : queue[i] = j) \/ \E d \in Fds : sl[d].job = j
  <2>1. Held(j)'
    BY <1>0, <1>1, <1>3, <1>4, HandsHold
  <2> QED BY <2>1
<1>5. CASE slots[fdOf[g]].job = j
  <2>1. PICK k \in Jobs, kind \in {"RESOLVE", "FAIL"} :
          slots[fdOf[g]] = Slot(g, "running", k) /\ pre = <<Effect(kind, g, k)>>
    BY <1>0, <1>5
  <2>2. k = j
    BY <1>5, <2>1 DEF Slot
  <2> DEFINE e == Effect(kind, g, j)
  <2>3. e.kind = kind /\ e.job = j /\ pre = <<e>>
    BY <2>1, <2>2 DEF Effect
  <2> HIDE DEF e
  <2>4. ASSUME todo'[Reader(g)] = <<e>> \/ \E x : todo'[Reader(g)] = <<e>> \o <<x>>
        PROVE  1 \in DOMAIN todo'[Reader(g)] /\ todo'[Reader(g)][1] = e
    <3>1. CASE todo'[Reader(g)] = <<e>>
      BY <3>1
    <3>2. ASSUME NEW x, todo'[Reader(g)] = <<e>> \o <<x>>
          PROVE  1 \in DOMAIN todo'[Reader(g)] /\ todo'[Reader(g)][1] = e
      BY <3>2
    <3> QED BY <2>4, <3>1, <3>2
  <2>5. todo'[Reader(g)] = <<e>> \/ \E x : todo'[Reader(g)] = <<e>> \o <<x>>
    <3>1. CASE todo' = [todo EXCEPT ![Reader(g)] = pre]
      BY <1>0, <2>3, <3>1
    <3>2. ASSUME NEW x, todo' = [todo EXCEPT ![Reader(g)] = pre \o <<x>>]
          PROVE  \E y : todo'[Reader(g)] = <<e>> \o <<y>>
      BY <1>0, <2>3, <3>2
    <3> HIDE DEF Reader
    <3> QED BY <1>1, <3>1, <3>2 DEF Hands
  <2>6. e.kind \in {"RESOLVE", "FAIL"}
    BY <2>3
  <2> QED BY <2>3, <2>4, <2>5, <2>6 DEF Owes
<1> QED BY <1>2, <1>4, <1>5 DEF Held

\* A job that is queued, or that a slot has, keeps its place, or some fiber has it to
\* settle.
LEMMA HeldStep ==
  ASSUME DriverInv, PoolNext, NEW j \in Jobs, Held(j)
  PROVE  Held(j)' \/ \E f \in Fibers : Owes(f, j)'
<1> DEFINE G == Held(j)' \/ \E f \in Fibers : Owes(f, j)'
<1> SUFFICES G
  OBVIOUS
<1>0. /\ CoreInv /\ slots \in [Fds -> SlotSet] /\ todo \in [Fibers -> Seq(Doable)] /\ j # NoJob
      /\ queue \in Seq(Jobs)
      /\ \A d \in Fds : slots[d].job # NoJob <=> slots[d].state = "running"
      /\ Closer \in Fibers /\ \A g \in Gens : {Reader(g), Sender(g), Loser(g)} \subseteq Fibers
  BY LiveGens, FiberNames, CoreAssumption
     DEF DriverInv, TablesInv, PoolTypes, EventTypes, CoreInv, JobsInv
<1>1. ASSUME UNCHANGED <<slots, queue>> PROVE G
  BY <1>1 DEF Held
<1>2. ASSUME NEW f \in Fibers, NEW g \in Gens, fdOf[g] \in Fds, Loses(f, g) PROVE G
  BY <1>2, LosesHold
<1>3. ASSUME NEW g \in Gens, Held(j)' \/ Owes(Reader(g), j)' PROVE G
  BY <1>0, <1>3
<1>4. ASSUME NEW k \in Jobs, Hands(Submitter, slots, Append(queue, k), <<>>) PROVE G
  <2>1. /\ Append(queue, k) \in Seq(Jobs) /\ DOMAIN queue \subseteq DOMAIN Append(queue, k)
        /\ \A i \in DOMAIN queue : Append(queue, k)[i] = queue[i]
    BY <1>0
  <2>2. (\E i \in DOMAIN Append(queue, k) : Append(queue, k)[i] = j)
          \/ \E d \in Fds : slots[d].job = j
    BY <2>1 DEF Held
  <2>3. \A d \in Fds : slots[d].state = "idle" => slots[d].job # j
    BY <1>0
  <2>4. Held(j)'
    BY <1>0, <1>4, <2>1, <2>2, <2>3, HandsHold
  <2> QED BY <2>4
<1>5. CASE CloseStops
  <2>0. Closer \in Fibers /\ todo' = [todo EXCEPT ![Closer] = CloseEffects]
    BY <1>0, <1>5, StopsForm
  <2>1. todo'[Closer] = CloseEffects
    BY <1>0, <2>0
  <2>2. /\ \A k \in 1..Len(queue) : \E i \in 1..Len(CloseEffects) :
             CloseEffects[i].kind = "FAIL" /\ CloseEffects[i].job = queue[k]
        /\ \A d \in Fds : slots[d].job # NoJob => \E i \in 1..Len(CloseEffects) :
             CloseEffects[i].kind = "FAIL" /\ CloseEffects[i].job = slots[d].job
        /\ DOMAIN CloseEffects = 1..Len(CloseEffects) /\ DOMAIN queue = 1..Len(queue)
    <3>1. CloseEffects \in Seq(Doable)
      BY <1>5, StopsForm
    <3>2. DOMAIN CloseEffects = 1..Len(CloseEffects) /\ DOMAIN queue = 1..Len(queue)
      BY <1>0, <3>1
    <3> QED BY <1>5, <3>2, StopsForm
  <2> HIDE DEF CloseEffects
  <2>3. \E i \in DOMAIN CloseEffects : CloseEffects[i].kind = "FAIL" /\ CloseEffects[i].job = j
    BY <1>0, <2>2 DEF Held
  <2>4. Owes(Closer, j)'
    BY <2>1, <2>3 DEF Owes
  <2> QED BY <2>0, <2>4
<1>6. ASSUME NEW f \in Fibers, SpawnSucceeds(f) PROVE G
  <2> DEFINE g == Subject(f)
  <2>1. g \in Gens /\ fdOf[g] \in Fds /\ child[g].is = "forking" /\ Entered(f, g)
    BY <1>6, EnteredForm
  <2>2. ASSUME g \in pendingSpawns, slots[fdOf[g]] # NoSlot PROVE FALSE
    <3>1. /\ slots[fdOf[g]].gen \in open /\ fdOf[slots[fdOf[g]].gen] = fdOf[g]
          /\ slots[fdOf[g]].gen \notin pendingSpawns
      BY <1>0, <2>1, <2>2 DEF DriverInv, TablesInv, PlaceInv, CoreInv, GensInv, LiveIn
    <3>2. g \in open
      BY <2>1 DEF DriverInv, TablesInv, SpawnInv
    <3>3. slots[fdOf[g]].gen = g
      BY <3>1, <3>2 DEF DriverInv, TablesInv, PlaceInv
    <3> QED BY <2>2, <3>1, <3>3
  <2> HIDE DEF g
  <2>3. CASE UNCHANGED slots
    BY <1>1, <2>1, <2>3 DEF Entered
  <2>4. CASE /\ slots[fdOf[g]] = NoSlot
             /\ slots' = [slots EXCEPT ![fdOf[g]] = Slot(g, "starting", NoJob)]
    <3>1. \A d \in Fds : slots[d].job = j => slots'[d] = slots[d]
      BY <1>0, <2>4, LiveGens DEF NoSlot
    <3>2. UNCHANGED queue
      BY <2>1 DEF Entered
    <3>3. Held(j)'
      BY <3>1, <3>2 DEF Held
    <3> QED BY <3>3
  <2> QED BY <2>1, <2>2, <2>3, <2>4 DEF Entered
<1> HIDE DEF G
<1>7. CASE Elsewhere \/ Children
  BY <1>1, <1>7, ElsewhereForm, ChildrenForm DEF core
<1>8. CASE \E f \in Fibers : \/ DriveSend(f) \/ DriveSettle(f) \/ DriveDrop(f) \/ DriveClose(f)
                             \/ ReapReturns(f) \/ DriveSkip(f)
  BY <1>1, <1>8, Pops DEF core
<1>9. CASE \E f \in Fibers : SpawnFails(f)
  BY <1>1, <1>9, SpawnFailsForm
<1>10. CASE Start \/ Recover
  BY <1>1, <1>10, RecoverForm, FillsForm DEF Start, Fills, core
<1>11. CASE \E k \in Jobs : Submit(k)
  BY <1>1, <1>4, <1>11, SubmitsForm
<1>12. ASSUME NEW g \in Gens, Read(g) PROVE G
  <2>0. fdOf[g] \in Fds
    BY <1>12, ReadForm
  <2>1. CASE Loses(Reader(g), g)
    BY <1>0, <1>2, <2>0, <2>1
  <2>2. CASE Readies(g)
    BY <1>1, <1>3, <2>0, <2>2, FreesHold DEF Readies
  <2>3. ASSUME NEW k, Results(g, k) PROVE G
    <3>1. CASE UNCHANGED <<slots, queue>>
      BY <1>1, <3>1
    <3>2. ASSUME slots[fdOf[g]] = Slot(g, "running", k), k \in Jobs,
                 NEW kind \in {"RESOLVE", "FAIL"},
                 Hands(Reader(g), [slots EXCEPT ![fdOf[g]] = Slot(g, "idle", NoJob)], queue,
                       <<Effect(kind, g, k)>>)
          PROVE  G
      BY <1>3, <2>0, <3>2, FreesHold
    <3> QED BY <2>3, <3>1, <3>2 DEF Results
  <2>4. CASE UNCHANGED core
    BY <1>1, <2>4 DEF core
  <2> QED BY <1>12, <2>1, <2>2, <2>3, <2>4, ReadForm
<1>13. CASE \E g \in Gens : LoseTask(g)
  BY <1>0, <1>1, <1>2, <1>13, LoseTaskForm DEF core
<1>14. ASSUME NEW t \in tasks, SendTask(t) PROVE G
  BY <1>0, <1>1, <1>2, <1>14, SendForm DEF core
<1>15. CASE CloseKills
  BY <1>1, <1>15, KillsForm DEF core
<1>16. CASE \E g \in Gens : CloseDrains(g)
  BY <1>0, <1>2, <1>16, DrainForm
<1> QED BY <1>5, <1>6, <1>7, <1>8, <1>9, <1>10, <1>11, <1>12, <1>13, <1>14, <1>15, <1>16, Steps

\* What a fiber has to settle stays in its list until it is settled.
LEMMA OwedStep ==
  ASSUME DriverInv, PoolNext, QuietInv, ReaderInv, FlightInv, NEW f \in Fibers, NEW j \in Jobs,
         Owes(f, j)
  PROVE  Owes(f, j)' \/ j \notin jobs'
<1> DEFINE G == Owes(f, j)' \/ j \notin jobs'
<1> SUFFICES G
  OBVIOUS
<1>0. todo \in [Fibers -> Seq(Doable)] /\ DOMAIN todo[f] = 1..Len(todo[f]) /\ todo[f] # <<>>
  BY DEF DriverInv, TablesInv, PoolTypes, EventTypes, Owes
<1>1. PICK i \in 1..Len(todo[f]) : todo[f][i].kind \in {"RESOLVE", "FAIL"} /\ todo[f][i].job = j
  BY <1>0 DEF Owes
<1>2. ASSUME todo'[f] = todo[f] PROVE G
  BY <1>2 DEF Owes
<1>3. ASSUME i # 1, NEW kind, Heads(f, kind), NEW s \in Seq(Doable), todo'[f] = Tail(todo[f]) \o s
      PROVE  G
  <2> DEFINE t == Tail(todo[f])
  <2>1. /\ t \in Seq(Doable) /\ Len(t) = Len(todo[f]) - 1 /\ Len(todo[f]) \in Nat \ {0}
        /\ \A k \in 1..Len(t) : t[k] = todo[f][k + 1]
    BY <1>3, First DEF DriverInv, TablesInv
  <2> HIDE DEF t
  <2>2. i - 1 \in 1..Len(t) /\ t[i - 1] = todo[f][i]
    <3>1. i - 1 \in 1..Len(t) /\ (i - 1) + 1 = i
      BY <1>3, <2>1
    <3> QED BY <2>1, <3>1
  <2>3. i - 1 \in DOMAIN (t \o s) /\ (t \o s)[i - 1] = t[i - 1]
    BY <2>1, <2>2
  <2> QED BY <1>1, <1>3, <2>2, <2>3 DEF Owes, t
<1>4. CASE GoesOn(f) /\ (Settles(f) => DriveSettle(f))
  <2>1. PICK kind : Heads(f, kind) /\ todo' = [todo EXCEPT ![f] = Tail(todo[f])]
    BY <1>4 DEF GoesOn
  <2>2. todo'[f] = Tail(todo[f]) /\ Tail(todo[f]) \in Seq(Doable)
    BY <1>0, <2>1
  <2>3. CASE i # 1
    <3>1. Tail(todo[f]) = Tail(todo[f]) \o <<>> /\ <<>> \in Seq(Doable)
      BY <2>2
    <3> QED BY <1>3, <2>1, <2>2, <2>3, <3>1
  <2>4. CASE i = 1
    <3>1. Head(todo[f]) = todo[f][1]
      BY <1>0
    <3>2. Settles(f) /\ Head(todo[f]).job = j
      BY <1>0, <1>1, <2>4, <3>1 DEF Settles, Heads
    <3>3. j \notin jobs'
      BY <1>4, <3>2 DEF DriveSettle
    <3> QED BY <3>3
  <2> QED BY <2>3, <2>4
<1>5. CASE SpawnSucceeds(f)
  <2>1. i # 1
    <3>1. Heads(f, "SPAWN")
      BY <1>5 DEF SpawnSucceeds, Resumes
    <3> QED BY <1>1, <3>1, First DEF DriverInv, TablesInv
  <2>2. Heads(f, "SPAWN") /\ Subject(f) \in Gens /\ Entered(f, Subject(f))
    BY <1>5, EnteredForm DEF SpawnSucceeds, Resumes
  <2>3. ASSUME NEW n \in Nat, nextGen' = nextGen + n, nextGen' <= MaxGen,
               todo' = [todo EXCEPT ![f] = Tail(todo[f]) \o Spawns(n)]
        PROVE  G
    <3>1. Spawns(n) \in Seq(Doable)
      BY <2>3, SpawnsForm, LiveGens DEF DriverInv
    <3>2. todo'[f] = Tail(todo[f]) \o Spawns(n)
      BY <1>0, <2>3
    <3> QED BY <1>3, <2>1, <2>2, <3>1, <3>2
  <2>4. CASE todo' = [todo EXCEPT ![f] = Tail(todo[f]) \o Discard(Subject(f))]
    <3>1. Discard(Subject(f)) \in Seq(Doable)
      BY <2>2, DiscardForm
    <3>2. todo'[f] = Tail(todo[f]) \o Discard(Subject(f))
      BY <1>0, <2>4
    <3> QED BY <1>3, <2>1, <2>2, <3>1, <3>2
  <2> QED BY <2>2, <2>3, <2>4 DEF Entered
<1> HIDE DEF G
<1>6. ASSUME f = Starter, Start PROVE FALSE
  BY <1>0, <1>6 DEF Start, QuietInv
<1>7. ASSUME f = Submitter PROVE FALSE
  BY <1>0, <1>1, <1>7 DEF QuietInv
<1>8. ASSUME NEW g \in Gens, f = Reader(g), Read(g) PROVE FALSE
  BY <1>0, <1>8 DEF Read
<1>9. ASSUME NEW g \in Gens, f = Loser(g), LoseTask(g) PROVE FALSE
  BY <1>0, <1>9 DEF LoseTask, ReaderInv
<1>10. ASSUME NEW t \in tasks, f = Sender(t.gen), SendTask(t) PROVE G
  <2>1. t.gen \in Gens /\ (t.op = "run" => Due(t.gen))
    BY <1>10, SendForm DEF Due
  <2>2. t.op # "run"
    BY <1>0, <1>10, <2>1 DEF FlightInv
  <2>3. UNCHANGED todo
    BY <1>10, <2>2, SendForm
  <2> QED BY <1>2, <2>3
<1>11. ASSUME f = Closer, CloseStops \/ \E g \in Gens : CloseDrains(g) PROVE FALSE
  BY <1>0, <1>11 DEF QuietInv, CloseStops, CloseDrains, Returns
<1>12. CASE CloseKills
  <2>1. f # Closer
    BY <1>0, <1>12, KillsForm DEF QuietInv
  <2>2. ASSUME NEW g \in Gens, Late(g), f = Reader(g) PROVE FALSE
    BY <1>0, <1>1, <1>12, <2>2, KillsForm DEF ReaderInv, Late
  <2> QED BY <1>2, <1>12, <2>1, <2>2, KillsForm
<1>13. CASE Restarts(f)
  BY <1>0, <1>5, <1>6, <1>7, <1>8, <1>9, <1>10, <1>11, <1>12, <1>13 DEF Restarts
<1> QED BY <1>2, <1>4, <1>13, Starts

\* A job becomes known when it is submitted.
LEMMA Submitted ==
  ASSUME DriverInv, PoolNext, NEW j \in jobs', j \notin jobs
  PROVE  j \in Jobs /\ Submit(j)
<1>0. jobs \subseteq Jobs
  BY DEF DriverInv, TablesInv, PoolTypes, WorkTypes
<1>1. ASSUME jobs' \subseteq jobs PROVE FALSE
  BY <1>1
<1>2. ~(Elsewhere \/ Children)
  <2>1. Elsewhere => jobs' \subseteq jobs
    BY <1>0 DEF Elsewhere, StartDriven, StartReady, StartRaises, SubmitDriven, Close, RecoverDriven,
       ReadDriven, LoseDriven, SendDriven, CloseStopped, CloseKilled, CloseEnds, DriveSpawn,
       CancelReader, DriveReap, work
  <2>2. Children => jobs' \subseteq jobs
    BY ChildrenForm DEF work
  <2> QED BY <1>1, <2>1, <2>2
<1>3. ~\E f \in Fibers : \/ DriveSend(f) \/ DriveSettle(f) \/ DriveDrop(f) \/ DriveClose(f)
                         \/ ReapReturns(f) \/ DriveSkip(f) \/ SpawnSucceeds(f) \/ SpawnFails(f)
  BY <1>1 DEF DriveSend, DriveSettle, DriveDrop, DriveClose, ReapReturns, DriveSkip, SpawnSucceeds,
     SpawnFails, work
<1>4. ~Start /\ ~Recover /\ ~CloseStops /\ ~CloseKills
  BY <1>1 DEF Start, Recover, CloseStops, CloseKills, work
<1>5. /\ ~\E g \in Gens : Read(g) \/ LoseTask(g) \/ CloseDrains(g)
      /\ ~\E t \in tasks : SendTask(t)
  BY <1>1 DEF Read, LoseTask, CloseDrains, SendTask, work
<1>6. PICK k \in Jobs : Submit(k)
  BY <1>2, <1>3, <1>4, <1>5, Steps
<1> QED BY <1>6 DEF Submit

\* A job that is submitted is queued, or a slot has it.
LEMMA NewJobs ==
  ASSUME DriverInv, PoolNext, NEW j \in jobs', j \notin jobs
  PROVE  Held(j)'
<1>0. CoreInv /\ slots \in [Fds -> SlotSet] /\ queue \in Seq(Jobs)
      /\ \A d \in Fds : slots[d].job # NoJob <=> slots[d].state = "running"
  BY LiveGens DEF DriverInv, CoreInv, JobsInv
<1>1. j \in Jobs /\ Submit(j)
  BY Submitted
<1>2. ~closing
  BY <1>1 DEF Submit
<1>3. ~coreClosing
  BY <1>2 DEF DriverInv, TablesInv, PhaseInv
<1>4. CASE UNCHANGED <<slots, queue>> /\ j \in Known
  BY <1>4 DEF Known, Live, Held
<1>5. CASE Hands(Submitter, slots, Append(queue, j), <<>>)
  <2>1. /\ Append(queue, j) \in Seq(Jobs) /\ Len(queue) + 1 \in DOMAIN Append(queue, j)
        /\ Append(queue, j)[Len(queue) + 1] = j
    BY <1>0, <1>1
  <2>2. \E i \in DOMAIN Append(queue, j) : Append(queue, j)[i] = j
    BY <2>1
  <2>3. \A d \in Fds : slots[d].state = "idle" => slots[d].job # j
    <3>1. j # NoJob
      BY <1>1, CoreAssumption
    <3> QED BY <1>0, <3>1
  <2> QED BY <1>0, <1>1, <1>5, <2>1, <2>2, <2>3, HandsHold
<1> QED BY <1>1, <1>3, <1>4, <1>5, SubmitsForm

-----------------------------------------------------------------------------
(* The inductive invariant of the jobs                                       *)

\* What holds of fibers and runs.
FatesInv == QuietInv /\ RestInv /\ ReaderInv /\ FlightInv

\* The inductive invariant: every job of the pool is undecided as well.
AccountInv == DriverInv /\ FatesInv /\ JobsAccounted

\* A job is known until it is settled.
LEMMA AccountStep ==
  ASSUME AccountInv, PoolNext
  PROVE  JobsAccounted'
<1>0. /\ DriverInv /\ QuietInv /\ RestInv /\ ReaderInv /\ FlightInv /\ JobsAccounted
      /\ jobs' \subseteq Jobs /\ DriverInv'
  BY DriverKept DEF AccountInv, FatesInv, DriverInv, TablesInv, PoolTypes, WorkTypes
<1> SUFFICES ASSUME NEW j \in jobs' PROVE Undecided(j)'
  BY DEF JobsAccounted
<1>1. j \in Jobs
  BY <1>0
<1>2. ASSUME Held(j)' \/ \E f \in Fibers : Owes(f, j)' PROVE Undecided(j)'
  <2>1. j # NoSlot.job
    BY <1>1, CoreAssumption DEF NoSlot
  <2>2. \A d \in Fds : slots'[d].job = j => slots'[d] # NoSlot
    BY <2>1
  <2> QED BY <1>2, <2>2 DEF Undecided, Held, Owes, Live
<1>3. CASE j \notin jobs
  BY <1>0, <1>2, <1>3, NewJobs
<1>4. CASE j \in jobs
  <2>1. Held(j) \/ \E f \in Fibers : Owes(f, j)
    BY <1>0, <1>1, <1>4, UndecidedForm DEF JobsAccounted
  <2>2. CASE Held(j)
    BY <1>0, <1>1, <1>2, <2>2, HeldStep
  <2>3. ASSUME NEW f \in Fibers, Owes(f, j) PROVE Owes(f, j)'
    BY <1>0, <1>1, <2>3, OwedStep
  <2> QED BY <1>2, <2>1, <2>2, <2>3
<1> QED BY <1>3, <1>4

\* A step that changes nothing keeps it.
LEMMA FatesStay ==
  ASSUME FatesInv, JobsAccounted, UNCHANGED vars
  PROVE  FatesInv' /\ JobsAccounted'
<1>1. UNCHANGED <<turn, todo, tasks, slots, queue, coreClosing, pendingSpawns, nextGen, starter,
                  closer, waited, slotOf, fdOf, reader, jobs, mail, inbox, child>>
  BY DEF vars, core, event, life, table, work, health, process
<1>2. QuietInv' /\ RestInv'
  BY <1>1 DEF FatesInv, QuietInv, RestInv
<1>3. ReaderInv'
  BY <1>1 DEF FatesInv, ReaderInv, InSlots
<1>4. FlightInv'
  BY <1>1 DEF FatesInv, FlightInv, OneRun, RunOnce, Flying, Waits, Gone, Sending, Due, Mailed,
     Working, Answered
<1>5. JobsAccounted'
  BY <1>1 DEF JobsAccounted, Undecided, Live
<1> QED BY <1>2, <1>3, <1>4, <1>5 DEF FatesInv

\* A step keeps the invariant of the jobs.
LEMMA AccountKept ==
  ASSUME AccountInv, [PoolNext]_vars
  PROVE  AccountInv'
<1>1. DriverInv'
  BY DriverKept DEF AccountInv
<1>2. CASE PoolNext
  <2>1. FatesInv'
    BY <1>2, QuietStep, RestStep, ReaderStep, FlightStep DEF AccountInv, FatesInv
  <2> QED BY <1>1, <1>2, <2>1, AccountStep DEF AccountInv
<1>3. CASE UNCHANGED vars
  BY <1>1, <1>3, FatesStay DEF AccountInv
<1> QED BY <1>2, <1>3

\* The initial states satisfy it.
LEMMA AccountInit == Init => AccountInv
<1> SUFFICES ASSUME Init PROVE AccountInv
  OBVIOUS
<1>1. /\ todo = [f \in Fibers |-> <<>>] /\ turn = Loop /\ tasks = {} /\ jobs = {} /\ closer = "no"
      /\ mail = [g \in Gens |-> <<>>] /\ inbox = [g \in Gens |-> <<>>]
      /\ child = [g \in Gens |-> Process("none", NoJob)] /\ coreClosing = FALSE
  BY DEF Init, CoreInit
<1>2. \A f \in Fibers : todo[f] = <<>> /\ DOMAIN todo[f] = {}
  BY <1>1
<1>3. /\ Closer \in Fibers /\ Starter \in Fibers /\ Submitter \in Fibers
      /\ \A g \in Gens : Reader(g) \in Fibers /\ Loser(g) \in Fibers /\ Sender(g) \in Fibers
  BY FiberNames
<1>4. QuietInv
  BY <1>1, <1>2, <1>3 DEF QuietInv
<1>5. RestInv
  BY <1>1, <1>2 DEF RestInv, Apart, SendLast, Rests
<1>6. ReaderInv
  BY <1>1, <1>2, <1>3 DEF ReaderInv
<1>7. FlightInv
  <2> SUFFICES ASSUME NEW g \in Gens
               PROVE  /\ ~Sending(g) /\ ~Due(g) /\ ~Mailed(g) /\ ~Working(g) /\ ~Answered(g)
                      /\ RunOnce(g) /\ todo[Sender(g)] = <<>>
    BY DEF FlightInv, OneRun, Flying
  <2>1. mail[g] = <<>> /\ inbox[g] = <<>> /\ child[g].is = "none"
    BY <1>1 DEF Process
  <2>2. ~Mailed(g) /\ ~Answered(g) /\ Once(mail[g], {"run"}) /\ Once(inbox[g], {"ok", "error"})
    BY <2>1, NoneHas DEF Mailed, Answered
  <2>3. ~Sending(g) /\ ~Due(g) /\ ~Working(g) /\ todo[Sender(g)] = <<>>
    BY <1>1, <1>2, <1>3, <2>1 DEF Sending, Due, Working
  <2> QED BY <1>1, <2>2, <2>3 DEF RunOnce
<1>8. JobsAccounted
  BY <1>1 DEF JobsAccounted
<1> QED BY <1>4, <1>5, <1>6, <1>7, <1>8, DriverInit DEF AccountInv, FatesInv

-----------------------------------------------------------------------------
(* A run belongs to the job its slot has                                     *)

\* finish_close() still has job j to fail.
Failing(j) == closer = "stopping" /\ Owes(Closer, j)

\* A run of job j on g is to be sent, or waits for its task.
Runs(g, j) ==
  \/ \E t \in tasks : t.op = "run" /\ t.gen = g /\ t.job = j
  \/ \E f \in Fibers : \E i \in DOMAIN todo[f] :
       todo[f][i].kind = "SEND_RUN" /\ todo[f][i].gen = g /\ todo[f][i].job = j

\* A run is of a job that was submitted.  While the pool knows the job, the slot the
\* run is for has it, unless the pool has just begun to close.
RunInv ==
  \A g \in Gens, j \in Jobs : Runs(g, j) =>
    /\ future[j] # "none"
    /\ j \in jobs => \A d \in Fds : slots[d].gen = g => slots[d].job = j \/ Failing(j)

\* A job that was not submitted is nowhere.
OldInv == \A j \in Jobs : future[j] = "none" => j \notin jobs /\ ~Held(j)

\* A future stays unused until its job is submitted.
LEMMA FuturesStay ==
  ASSUME DriverInv, PoolNext, NEW j \in Jobs, future'[j] = "none"
  PROVE  future[j] = "none" /\ ~Submit(j)
<1> DEFINE G == future[j] = "none" /\ ~Submit(j)
<1> SUFFICES G
  OBVIOUS
<1>0. future \in [Jobs -> {"none", "waiting", "resolved", "failed"}]
  BY DEF DriverInv, TablesInv, PoolTypes, WorkTypes
<1>1. ~Submit(j)
  BY <1>0 DEF Submit
<1>2. ASSUME UNCHANGED future PROVE G
  BY <1>1, <1>2
<1>3. ASSUME NEW k \in Jobs, NEW x, x # "none", future' = [future EXCEPT ![k] = x] PROVE G
  BY <1>0, <1>1, <1>3
<1> HIDE DEF G
<1>4. CASE Elsewhere
  BY <1>2, <1>4 DEF Elsewhere, StartDriven, StartReady, StartRaises, SubmitDriven, Close,
                RecoverDriven, ReadDriven, LoseDriven, SendDriven, CloseStopped, CloseKilled,
                CloseEnds, DriveSpawn, CancelReader, DriveReap, work
<1>5. CASE Children
  BY <1>2, <1>5, ChildrenForm DEF work
<1>6. ASSUME NEW f \in Fibers, DriveSettle(f) PROVE G
  <2>1. PICK kind \in {"RESOLVE", "FAIL"} :
          LET k == Head(todo[f]).job
          IN  /\ jobs' = jobs \ {k}
              /\ future' = IF k \notin jobs THEN future
                           ELSE [future EXCEPT ![k] = IF kind = "RESOLVE" THEN "resolved"
                                                                         ELSE "failed"]
    BY <1>6 DEF DriveSettle
  <2>2. jobs \subseteq Jobs
    BY DEF DriverInv, TablesInv, PoolTypes, WorkTypes
  <2> QED BY <1>2, <1>3, <2>1, <2>2
<1>7. CASE \E f \in Fibers : \/ DriveSend(f) \/ DriveDrop(f) \/ DriveClose(f) \/ ReapReturns(f)
                             \/ DriveSkip(f)
                             \/ SpawnSucceeds(f) \/ SpawnFails(f)
  BY <1>2, <1>7 DEF DriveSend, DriveDrop, DriveClose, ReapReturns, DriveSkip, SpawnSucceeds,
                    SpawnFails, work
<1>8. CASE Start \/ Recover \/ CloseStops \/ CloseKills
  BY <1>2, <1>8 DEF Start, Recover, CloseStops, CloseKills, work
<1>9. ASSUME NEW k \in Jobs, Submit(k) PROVE G
  BY <1>3, <1>9 DEF Submit
<1>10. CASE (\E g \in Gens : Read(g) \/ LoseTask(g) \/ CloseDrains(g))
            \/ \E t \in tasks : SendTask(t)
  BY <1>2, <1>10 DEF Read, LoseTask, CloseDrains, SendTask, work
<1> QED BY <1>4, <1>5, <1>6, <1>7, <1>8, <1>9, <1>10, Steps

\* A dispatch holds no job that was not held.
LEMMA HandsBack ==
  ASSUME NEW sl \in [Fds -> SlotSet], NEW qu \in Seq(Jobs), NEW f, NEW pre,
         Hands(f, sl, qu, pre), NEW j \in Jobs, Held(j)'
  PROVE  (\E i \in DOMAIN qu : qu[i] = j) \/ \E d \in Fds : sl[d].job = j
<1>1. CASE slots' = sl /\ queue' = qu
  BY <1>1 DEF Held
<1>2. ASSUME NEW d \in Fds, qu # <<>>, queue' = Tail(qu),
             slots' = [sl EXCEPT ![d] = Slot(sl[d].gen, "running", Head(qu))]
      PROVE  (\E i \in DOMAIN qu : qu[i] = j) \/ \E h \in Fds : sl[h].job = j
  <2>1. /\ Head(qu) = qu[1] /\ 1 \in DOMAIN qu /\ DOMAIN Tail(qu) = 1..(Len(qu) - 1)
        /\ \A i \in 1..(Len(qu) - 1) : i + 1 \in DOMAIN qu /\ Tail(qu)[i] = qu[i + 1]
    BY <1>2
  <2>2. \A h \in Fds : slots'[h] = sl[h] \/ slots'[h].job = Head(qu)
    <3>1. Slot(sl[d].gen, "running", Head(qu)).job = Head(qu)
      BY DEF Slot
    <3> QED BY <1>2, <3>1
  <2>3. CASE \E i \in DOMAIN queue' : queue'[i] = j
    BY <1>2, <2>1, <2>3
  <2>4. CASE \E h \in Fds : slots'[h].job = j
    BY <2>1, <2>2, <2>4
  <2> QED BY <2>3, <2>4 DEF Held
<1> QED BY <1>1, <1>2 DEF Hands

\* A job that a step makes the queue or a slot hold is submitted by that step.
LEMMA HeldBack ==
  ASSUME DriverInv, PoolNext, NEW j \in Jobs, Held(j)'
  PROVE  Held(j) \/ Submit(j)
<1> DEFINE G == Held(j) \/ Submit(j)
<1> SUFFICES G
  OBVIOUS
<1>0. /\ slots \in [Fds -> SlotSet] /\ queue \in Seq(Jobs) /\ CoreInv
      /\ \A h, s : Slot(h, s, NoJob).job = NoJob
      /\ NoSlot.job = NoJob /\ j # NoJob
  BY LiveGens, CoreAssumption DEF DriverInv, Slot
<1>1. ASSUME UNCHANGED <<slots, queue>> PROVE G
  BY <1>1 DEF Held
<1>2. ASSUME queue' \in {queue, <<>>}, \A d \in Fds : slots'[d].job \in {slots[d].job, NoJob}
      PROVE  G
  BY <1>0, <1>2 DEF Held
<1>3. ASSUME NEW f, NEW g, Loses(f, g) PROVE G
  <2>1. \A d \in Fds : slots'[d].job \in {slots[d].job, NoJob}
    BY <1>0, <1>3 DEF Loses
  <2> QED BY <1>2, <1>3, <2>1 DEF Loses
<1>4. ASSUME NEW f, NEW g \in Gens, fdOf[g] \in Fds, NEW pre,
             Hands(f, [slots EXCEPT ![fdOf[g]] = Slot(g, "idle", NoJob)], queue, pre)
      PROVE  G
  <2> DEFINE sl == [slots EXCEPT ![fdOf[g]] = Slot(g, "idle", NoJob)]
  <2>1. sl \in [Fds -> SlotSet]
    BY <1>0, <1>4, IdleSlot
  <2>2. \A d \in Fds : sl[d].job \in {slots[d].job, NoJob}
    BY <1>0
  <2> HIDE DEF sl
  <2>3. (\E i \in DOMAIN queue : queue[i] = j) \/ \E d \in Fds : sl[d].job = j
    <3>1. Hands(f, sl, queue, pre)
      BY <1>4 DEF sl
    <3> QED BY <1>0, <2>1, <3>1, HandsBack
  <2> QED BY <1>0, <2>2, <2>3 DEF Held
<1>5. ASSUME NEW k \in Jobs, Submit(k), Hands(Submitter, slots, Append(queue, k), <<>>) PROVE G
  <2>1. /\ Append(queue, k) \in Seq(Jobs)
        /\ \A i \in DOMAIN Append(queue, k) :
             Append(queue, k)[i] = k \/ (i \in DOMAIN queue /\ Append(queue, k)[i] = queue[i])
    BY <1>0
  <2>2. (\E i \in DOMAIN Append(queue, k) : Append(queue, k)[i] = j)
          \/ \E d \in Fds : slots[d].job = j
    BY <1>0, <1>5, <2>1, HandsBack
  <2> QED BY <1>5, <2>1, <2>2 DEF Held
<1> HIDE DEF G
<1>6. CASE Elsewhere \/ Children
  BY <1>1, <1>6, ElsewhereForm, ChildrenForm DEF core
<1>7. CASE \E f \in Fibers : \/ DriveSend(f) \/ DriveSettle(f) \/ DriveDrop(f) \/ DriveClose(f)
                             \/ ReapReturns(f) \/ DriveSkip(f)
  BY <1>1, <1>7, Pops DEF core
<1>8. ASSUME NEW f \in Fibers, SpawnSucceeds(f) PROVE G
  <2>1. Entered(f, Subject(f))
    BY <1>8, EnteredForm
  <2>2. queue' = queue /\ \A d \in Fds : slots'[d].job \in {slots[d].job, NoJob}
    BY <1>0, <2>1 DEF Entered
  <2> QED BY <1>2, <2>2
<1>9. CASE \E f \in Fibers : SpawnFails(f)
  BY <1>1, <1>9, SpawnFailsForm
<1>10. CASE Start \/ Recover
  BY <1>1, <1>10, RecoverForm, FillsForm DEF Start, Fills, core
<1>11. CASE \E k \in Jobs : Submit(k)
  BY <1>1, <1>5, <1>11, SubmitsForm
<1>12. ASSUME NEW g \in Gens, Read(g) PROVE G
  <2>1. CASE Loses(Reader(g), g)
    BY <1>3, <2>1
  <2>2. CASE Readies(g)
    BY <1>1, <1>4, <1>12, <2>2, ReadForm DEF Readies
  <2>3. ASSUME NEW k, Results(g, k) PROVE G
    BY <1>1, <1>4, <1>12, <2>3, ReadForm DEF Results
  <2>4. CASE UNCHANGED core
    BY <1>1, <2>4 DEF core
  <2> QED BY <1>12, <2>1, <2>2, <2>3, <2>4, ReadForm
<1>13. CASE \E g \in Gens : LoseTask(g)
  BY <1>1, <1>3, <1>13, LoseTaskForm DEF core
<1>14. CASE \E t \in tasks : SendTask(t)
  BY <1>1, <1>3, <1>14, SendForm DEF core
<1>15. CASE CloseStops
  <2>1. queue' = <<>> /\ \A d \in Fds : slots'[d].job = NoJob
    BY <1>0, <1>15, StopsForm
  <2> QED BY <1>2, <2>1
<1>16. CASE CloseKills
  BY <1>1, <1>16, KillsForm DEF core
<1>17. CASE \E g \in Gens : CloseDrains(g)
  BY <1>3, <1>17, DrainForm
<1> QED BY <1>6, <1>7, <1>8, <1>9, <1>10, <1>11, <1>12, <1>13, <1>14, <1>15, <1>16, <1>17, Steps

\* A job that was not submitted stays nowhere.
LEMMA OldStep ==
  ASSUME DriverInv, PoolNext, OldInv
  PROVE  OldInv'
<1> SUFFICES ASSUME NEW j \in Jobs, future'[j] = "none" PROVE j \notin jobs' /\ ~Held(j)'
  BY DEF OldInv
<1>1. future[j] = "none" /\ ~Submit(j)
  BY FuturesStay
<1>2. j \notin jobs /\ ~Held(j)
  BY <1>1 DEF OldInv
<1> QED BY <1>1, <1>2, Submitted, HeldBack

\* A run is there because it was, or because its job has just been given to the slot.
LEMMA RunsMoves ==
  ASSUME DriverInv, PoolNext, RestInv, NEW g, NEW j, Runs(g, j)'
  PROVE  Runs(g, j) \/ GivenTo(g, j)
<1>1. ASSUME NEW t \in tasks', t.op = "run", t.gen = g, t.job = j PROVE Runs(g, j)
  <2>1. CASE t \in tasks
    BY <1>1, <2>1 DEF Runs
  <2>2. CASE t \notin tasks
    <3>1. \A h, k : /\ Task("lose", h, NoJob).op # "run" /\ Task("stop", h, k).op # "run"
                    /\ Task("run", h, k).gen = h /\ Task("run", h, k).job = k
      BY DEF Task
    <3>2. PICK f \in Fibers : /\ Heads(f, "SEND_RUN")
                              /\ t = Task("run", Subject(f), Head(todo[f]).job)
      BY <1>1, <2>2, <3>1, NewTasks
    <3>3. /\ 1 \in DOMAIN todo[f] /\ todo[f][1].kind = "SEND_RUN"
          /\ Subject(f) = todo[f][1].gen /\ Head(todo[f]) = todo[f][1]
      BY <3>2, First DEF DriverInv, TablesInv
    <3> QED BY <1>1, <3>1, <3>2, <3>3 DEF Runs
  <2> QED BY <2>1, <2>2
<1>2. ASSUME NEW f \in Fibers, NEW i \in DOMAIN todo'[f], NEW e, e = todo'[f][i],
             e.kind = "SEND_RUN", e.gen = g, e.job = j
      PROVE  Runs(g, j) \/ GivenTo(g, j)
  <2>1. (\E k \in DOMAIN todo[f] : e = todo[f][k]) \/ GivenTo(e.gen, e.job)
    BY <1>2, SendsNew
  <2> QED BY <1>2, <2>1 DEF Runs
<1> QED BY <1>1, <1>2 DEF Runs

\* What the closer has to fail stays its own while the job is known.
LEMMA FailingStays ==
  ASSUME DriverInv, PoolNext, FatesInv, NEW j \in Jobs, Failing(j), j \in jobs'
  PROVE  Failing(j)'
<1>1. closer = "stopping" /\ todo[Closer] # <<>> /\ Closer \in Fibers
  BY FiberNames DEF Failing, Owes
<1>2. Owes(Closer, j)'
  BY <1>1, OwedStep DEF FatesInv, Failing
<1>3. closer' = "stopping"
  <2>1. ~CloseStops /\ ~CloseStopped /\ ~CloseKills /\ ~CloseKilled /\ ~CloseEnds
    BY <1>1 DEF CloseStops, CloseStopped, CloseKills, MayKill, CloseKilled, CloseEnds, Returns
  <2>2. \A g \in Gens : ~CloseDrains(g)
    BY <1>1 DEF CloseDrains
  <2> QED BY <1>1, <2>1, <2>2, LifeMoves
<1> QED BY <1>2, <1>3 DEF Failing

\* A slot whose job is on its way keeps it, or the pool closes.
LEMMA RunKept ==
  ASSUME DriverInv, PoolNext, FatesInv, RunInv, NEW g \in Gens, NEW j \in Jobs, Runs(g, j),
         j \in jobs, j \in jobs', NEW d \in Fds, slots'[d].gen = g
  PROVE  slots'[d].job = j \/ Failing(j)'
<1>0. /\ g # 0 /\ CoreInv /\ slots \in [Fds -> SlotSet]
      /\ \A h, s, k : Slot(h, s, k).gen = h
      /\ NoSlot.gen = 0 /\ NoJob # j
  BY LiveGens, CoreAssumption DEF DriverInv, Gens, Slot
<1>1. \A h \in Fds : slots[h].gen = g => slots[h].job = j \/ Failing(j)
  BY DEF RunInv
<1>2. Sending(g) \/ Due(g)
  BY DEF Runs, Sending, Due
<1>3. reader[g] # "none" /\ ~Waits(g) /\ ~Answered(g)
  BY <1>2 DEF FatesInv, FlightInv, OneRun, Flying
<1>4. CASE slots'[d] = slots[d]
  BY <1>1, <1>4, FailingStays
<1>5. CASE slots'[d] # slots[d]
  <2>1. Changed(d, g)
    BY <1>0, <1>5, SlotChanges
  <2>2. ASSUME CloseStops, slots'[d].state = "stopping"
        PROVE  Failing(j)'
    <3>1. /\ closer = "called" /\ closer' = "stopping"
          /\ slots' = [f \in Fds |-> IF f \in Live THEN Slot(slots[f].gen, "stopping", NoJob)
                                     ELSE NoSlot]
          /\ todo' = [todo EXCEPT ![Closer] = CloseEffects] /\ CloseEffects \in Seq(Doable)
          /\ \A f \in Fds : slots[f].job # NoJob => \E i \in 1..Len(CloseEffects) :
               CloseEffects[i].kind = "FAIL" /\ CloseEffects[i].job = slots[f].job
      BY <2>2, StopsForm
    <3>2. slots[d].gen = g
      BY <1>0, <3>1
    <3>3. slots[d].job = j
      BY <1>1, <3>1, <3>2 DEF Failing
    <3>4. todo'[Closer] = CloseEffects /\ DOMAIN CloseEffects = 1..Len(CloseEffects)
      BY <3>1, FiberNames DEF DriverInv, TablesInv, PoolTypes, EventTypes
    <3> HIDE DEF CloseEffects
    <3>5. PICK i \in DOMAIN todo'[Closer] : /\ todo'[Closer][i].kind = "FAIL"
                                            /\ todo'[Closer][i].job = j
      BY <1>0, <3>1, <3>3, <3>4
    <3>6. Owes(Closer, j)'
      BY <3>5 DEF Owes
    <3> QED BY <3>1, <3>6 DEF Failing
  <2>3. ASSUME Read(g), inbox[g] # <<>>, Head(inbox[g]).op \in {"ok", "error"} PROVE FALSE
    <3>1. inbox[g] \in Seq(InboxSet)
      BY DEF DriverInv, TablesInv, PoolTypes, ProcessTypes, InboxSet
    <3> QED BY <1>3, <2>3, <3>1 DEF Answered, Has
  <2> QED BY <1>3, <2>1, <2>2, <2>3 DEF Changed, Waits
<1> QED BY <1>4, <1>5

\* A job that a dispatch gives to a slot is the one its run is for.
LEMMA RunGiven ==
  ASSUME CoreInv', OldInv', NEW g \in Gens, NEW j \in Jobs, GivenTo(g, j)
  PROVE  future'[j] # "none" /\ \A d \in Fds : slots'[d].gen = g => slots'[d].job = j
<1>1. PICK d \in Fds : slots'[d].gen = g /\ slots'[d].job = j
  BY DEF GivenTo
<1>2. Held(j)'
  BY <1>1 DEF Held
<1>3. g # 0 /\ \A h \in Fds : slots'[h].gen = g => h = d
  BY <1>1 DEF Gens, CoreInv, GensInv, LiveIn, NoSlot
<1> QED BY <1>1, <1>2, <1>3 DEF OldInv

\* A run stays the run of the job its slot has.
LEMMA RunStep ==
  ASSUME DriverInv, PoolNext, FatesInv, RunInv, OldInv
  PROVE  RunInv'
<1>0. CoreInv' /\ OldInv' /\ RestInv
  BY CoreNext, OldStep DEF FatesInv
<1>1. ASSUME NEW g \in Gens, NEW j \in Jobs, Runs(g, j)'
      PROVE  /\ future'[j] # "none"
             /\ j \in jobs' => \A d \in Fds : slots'[d].gen = g => slots'[d].job = j \/ Failing(j)'
  <2>1. CASE Runs(g, j)
    <3>1. future[j] # "none"
      BY <2>1 DEF RunInv
    <3>2. future'[j] # "none"
      BY <3>1, FuturesStay
    <3>3. j \in jobs' => j \in jobs
      BY <3>1, Submitted DEF Submit
    <3> QED BY <2>1, <3>2, <3>3, RunKept
  <2>2. CASE GivenTo(g, j)
    BY <1>0, <2>2, RunGiven
  <2> QED BY <1>0, <1>1, <2>1, <2>2, RunsMoves
<1> HIDE DEF Runs, Failing
<1> QED BY <1>1 DEF RunInv

-----------------------------------------------------------------------------
(* What a slot's object shows                                                *)

\* Every slot's object shows what the reducer knows of it.
Current ==
  \A d \in Fds : slots[d] # NoSlot => seen[slots[d].gen] = View(slots[d].state, slots[d].job)

\* A fiber is in its turn, and before the loop leaves it, it calls sync_slots.
Behind ==
  /\ turn # Loop
  /\ todo[turn] # <<>> => todo[turn][1].kind \in {"SEND_RUN", "SEND_STOP", "RESOLVE", "FAIL"}
  /\ todo[turn] = <<>> => \E g \in Gens : turn = Reader(g)

SeenInv == Current \/ Behind

\* sync_slots brings every object up to date.
LEMMA SyncCurrent ==
  ASSUME DriverInv', SyncSlots,
         \A d \in Fds : slots'[d] # NoSlot => slots'[d].gen \notin retired' \ retired
  PROVE  Current'
<1> SUFFICES ASSUME NEW d \in Fds, slots'[d] # NoSlot
             PROVE  seen'[slots'[d].gen] = View(slots'[d].state, slots'[d].job)
  BY DEF Current
<1>1. /\ slotOf'[d] = slots'[d].gen /\ fdOf'[slots'[d].gen] = d
      /\ slots'[d].gen \in Gens /\ d # 0
  BY CoreAssumption, LiveGens DEF DriverInv, TablesInv, PlaceInv, CoreInv, GensInv, LiveIn, Gens
<1> QED BY <1>1 DEF SyncSlots

\* A slot that is dropped is one the reducer has given up.
LEMMA DropsGone ==
  ASSUME DriverInv, PoolNext, NEW f \in Fibers, DriveDrop(f), NEW d \in Fds, slots'[d] # NoSlot
  PROVE  slots'[d].gen \notin retired' \ retired
<1>1. Heads(f, "DROP") /\ retired' = retired \cup {Subject(f)} /\ UNCHANGED slots
  BY DEF DriveDrop, Performs, Resumes, core
<1>2. Gone(Subject(f))
  BY <1>1, Clearing DEF Teardown
<1> QED BY <1>1, <1>2 DEF Gone

\* Where nothing is behind, a step that keeps or gives up slots, and leaves what their
\* objects show, keeps them so.
LEMMA CurrentKept ==
  ASSUME SeenInv, ~Behind,
         \A d \in Fds : slots'[d] # NoSlot =>
           slots'[d] = slots[d] /\ seen'[slots[d].gen] = seen[slots[d].gen]
  PROVE  Current'
<1>1. Current
  BY DEF SeenInv
<1> QED BY <1>1 DEF Current

\* The loop leaves a fiber that has nothing behind, or after sync_slots.
LEMMA ElsewhereSeen ==
  ASSUME DriverInv, Elsewhere
  PROVE  \/ ~Behind /\ UNCHANGED <<slots, seen>>
         \/ SyncSlots /\ UNCHANGED retired
<1> DEFINE G == \/ ~Behind /\ UNCHANGED <<slots, seen>>
                \/ SyncSlots /\ UNCHANGED retired
<1> SUFFICES G
  OBVIOUS
<1>1. UNCHANGED slots
  BY ElsewhereForm DEF core
<1>2. CASE StartReady \/ StartRaises \/ Close
  BY <1>1, <1>2 DEF StartReady, StartRaises, Close, table, Behind
<1>3. ASSUME NEW f, Returns(f), UNCHANGED seen, \A g \in Gens : f # Reader(g) PROVE G
  BY <1>1, <1>3 DEF Returns, Behind
<1>4. ASSUME NEW f \in Fibers, NEW kind \in {"SPAWN", "DROP", "REAP"}, Performs(f, kind),
             UNCHANGED seen
      PROVE  G
  <2>1. turn = f /\ todo[f] # <<>> /\ todo[f][1].kind = kind
    BY <1>4, First DEF Performs, DriverInv, TablesInv
  <2> QED BY <1>1, <2>1, <1>4 DEF Behind
<1>5. CASE \E g \in Gens : ReadDriven(g) \/ SendDriven(g)
  BY <1>5 DEF ReadDriven, SendDriven
<1> HIDE DEF G
<1>6. CASE StartDriven \/ SubmitDriven \/ CloseStopped \/ CloseKilled \/ CloseEnds
  <2>1. \A g \in Gens : Reader(g) \notin {Starter, Submitter, Closer}
    BY FiberNames
  <2> QED BY <1>3, <1>6, <2>1 DEF StartDriven, SubmitDriven, CloseStopped, CloseKilled, CloseEnds,
                                 table
<1>7. ASSUME NEW f \in Recoverers, RecoverDriven(f) PROVE G
  <2>1. \A g \in Gens : f # Reader(g)
    BY FiberNames
  <2> QED BY <1>3, <1>7, <2>1 DEF RecoverDriven, table
<1>8. ASSUME NEW g \in Gens, LoseDriven(g) PROVE G
  <2>1. \A h \in Gens : Loser(g) # Reader(h)
    BY FiberNames
  <2> QED BY <1>3, <1>8, <2>1 DEF LoseDriven, table
<1>9. ASSUME NEW f \in Fibers, DriveSpawn(f) \/ CancelReader(f) \/ DriveReap(f) PROVE G
  BY <1>4, <1>9 DEF DriveSpawn, CancelReader, DriveReap, table
<1> QED BY <1>2, <1>5, <1>6, <1>7, <1>8, <1>9 DEF Elsewhere

\* A fiber has yet to perform what only follows an event.
LEMMA StaysBehind ==
  ASSUME todo \in [Fibers -> Seq(Doable)], NEW f \in Fibers, turn' = f,
         NEW s, todo' = [todo EXCEPT ![f] = s], s # <<>>,
         s[1].kind \in {"SEND_RUN", "SEND_STOP", "RESOLVE", "FAIL"}
  PROVE  Behind'
<1>1. turn' # Loop /\ todo'[turn'] = s
  BY FiberNames
<1> QED BY <1>1 DEF Behind

\* A dispatch that gives a job to a slot has it sent; other effects come first.
LEMMA HandsBehind ==
  ASSUME todo \in [Fibers -> Seq(Doable)], NEW f \in Fibers, NEW sl, NEW qu, NEW pre,
         Hands(f, sl, qu, pre),
         pre = <<>> \/ \E g, j : \E kind \in {"RESOLVE", "FAIL"} : pre = <<Effect(kind, g, j)>>
  PROVE  \/ Behind'
         \/ slots' = sl /\ pre = <<>> /\ turn' = f /\ todo' = [todo EXCEPT ![f] = <<>>]
<1>1. \A kind, g, j : Effect(kind, g, j).kind = kind
  BY DEF Effect
<1>2. CASE slots' = sl /\ todo' = [todo EXCEPT ![f] = pre]
  <2>1. ASSUME NEW e, pre = <<e>>, e.kind \in {"RESOLVE", "FAIL"} PROVE Behind'
    <3>1. pre # <<>> /\ pre[1] = e
      BY <2>1
    <3> QED BY <1>2, <2>1, <3>1, StaysBehind DEF Hands
  <2> QED BY <1>1, <1>2, <2>1 DEF Hands
<1>3. ASSUME NEW x, x.kind = "SEND_RUN", todo' = [todo EXCEPT ![f] = pre \o <<x>>]
      PROVE  Behind'
  <2>1. CASE pre = <<>>
    <3>1. pre \o <<x>> # <<>> /\ (pre \o <<x>>)[1] = x
      BY <2>1
    <3> QED BY <1>3, <3>1, StaysBehind DEF Hands
  <2>2. ASSUME NEW e, pre = <<e>>, e.kind \in {"RESOLVE", "FAIL"} PROVE Behind'
    <3>1. pre \o <<x>> # <<>> /\ (pre \o <<x>>)[1] = e
      BY <2>2
    <3> QED BY <1>3, <2>2, <3>1, StaysBehind DEF Hands
  <2> QED BY <1>1, <2>1, <2>2
<1>4. ASSUME NEW g, NEW j,
             todo' = [todo EXCEPT ![f] = pre \o <<Effect("SEND_RUN", g, j)>>]
      PROVE  Behind'
  <2> DEFINE x == Effect("SEND_RUN", g, j)
  <2>1. x.kind = "SEND_RUN" /\ todo' = [todo EXCEPT ![f] = pre \o <<x>>]
    BY <1>1, <1>4
  <2> HIDE DEF x
  <2> QED BY <1>3, <2>1
<1> QED BY <1>2, <1>4 DEF Hands

\* A send that begins shows in the object of its slot what the reducer knows.
LEMMA SendsSeen ==
  ASSUME DriverInv, FatesInv, RunInv, SeenInv, NEW t \in tasks, SendTask(t), NEW d \in Fds,
         slots[d] # NoSlot
  PROVE  seen'[slots[d].gen] = seen[slots[d].gen]
<1> DEFINE g == slots[d].gen
<1>0. g \in Gens /\ seen \in [Gens -> [state : SlotStates, job : AnyJob]]
  BY LiveGens DEF DriverInv, TablesInv, PoolTypes, TableTypes
<1>1. turn = Loop /\ t.gen \in Gens /\ (t.op = "run" => t.job \in Jobs)
  BY SendForm
<1>2. CASE UNCHANGED seen
  BY <1>2
<1>3. CASE t.op = "run" /\ t.job \in jobs /\ seen' = [seen EXCEPT ![t.gen].job = t.job]
  <2>1. CASE t.gen # g
    BY <1>0, <1>3, <2>1
  <2>2. CASE t.gen = g
    <3>1. Runs(g, t.job)
      BY <1>3, <2>2 DEF Runs
    <3>2. closer # "stopping"
      BY <1>1, FiberNames DEF FatesInv, QuietInv
    <3>3. slots[d].job = t.job
      BY <1>0, <1>1, <1>3, <3>1, <3>2 DEF RunInv, Failing
    <3>4. seen[g] = View(slots[d].state, slots[d].job)
      BY <1>1 DEF SeenInv, Behind, Current
    <3> HIDE DEF g
    <3>5. seen'[g] = [seen[g] EXCEPT !.job = t.job]
      BY <1>0, <1>3, <2>2
    <3> QED BY <3>3, <3>4, <3>5 DEF View, g
  <2> QED BY <2>1, <2>2
<1> QED BY <1>2, <1>3, SendForm

\* Every step keeps the objects up to date, or has its fiber do so.
LEMMA SeenStep ==
  ASSUME DriverInv, PoolNext, FatesInv, RunInv, SeenInv
  PROVE  SeenInv'
<1> DEFINE G == SeenInv'
<1> SUFFICES G
  OBVIOUS
<1>0. /\ DriverInv' /\ CoreInv /\ slots \in [Fds -> SlotSet] /\ todo \in [Fibers -> Seq(Doable)]
      /\ turn = Loop => ~Behind
      /\ {Submitter, Closer} \subseteq Fibers /\ \A g \in Gens : Reader(g) \in Fibers
  BY DriverKept, LiveGens, FiberNames DEF DriverInv, TablesInv, PoolTypes, EventTypes, Behind
<1>1. ASSUME ~Behind, UNCHANGED <<slots, seen>> PROVE G
  BY <1>1, CurrentKept DEF SeenInv
<1>2. ASSUME SyncSlots, \A d \in Fds : slots'[d] # NoSlot => slots'[d].gen \notin retired' \ retired
      PROVE  G
  BY <1>0, <1>2, SyncCurrent DEF SeenInv
<1>3. ASSUME NEW f, NEW g, Loses(f, g), ~Behind,
             \A d \in Fds : slots[d] # NoSlot => seen'[slots[d].gen] = seen[slots[d].gen]
      PROVE  G
  <2>1. \A d \in Fds : slots'[d] # NoSlot => slots'[d] = slots[d]
    BY <1>0, <1>3 DEF Loses
  <2>2. Current'
    BY <1>3, <2>1, CurrentKept
  <2> QED BY <2>2 DEF SeenInv
<1>4. Behind' => G
  BY DEF SeenInv
<1> HIDE DEF G
<1>5. CASE Elsewhere
  BY <1>1, <1>2, <1>5, ElsewhereSeen
<1>6. CASE Children
  BY <1>0, <1>1, <1>6, ChildrenForm DEF core, table
<1>7. ASSUME NEW f \in Fibers, DriveSend(f) \/ DriveSettle(f) \/ DriveClose(f) \/ ReapReturns(f)
                               \/ DriveSkip(f)
      PROVE  G
  <2>1. SyncSlots /\ retired' \subseteq retired
    BY <1>7 DEF DriveSend, DriveSettle, DriveClose, ReapReturns, DriveSkip, Performed
  <2> QED BY <1>2, <2>1
<1>8. ASSUME NEW f \in Fibers, DriveDrop(f) PROVE G
  <2>1. SyncSlots
    BY <1>8 DEF DriveDrop, Performed
  <2> QED BY <1>2, <1>8, <2>1, DropsGone
<1>9. ASSUME NEW f \in Fibers, SpawnSucceeds(f) PROVE G
  BY <1>2, <1>9 DEF SpawnSucceeds
<1>10. CASE \E f \in Fibers : SpawnFails(f)
  BY <1>0, <1>1, <1>10, SpawnFailsForm DEF SpawnFails
<1>11. CASE Start \/ Recover
  <2>1. turn = Loop /\ UNCHANGED <<slots, seen>>
    BY <1>11, RecoverForm, FillsForm DEF Start, Fills, core, table
  <2> QED BY <1>0, <1>1, <2>1
<1>12. ASSUME NEW j \in Jobs, Submit(j) PROVE G
  <2>1. turn = Loop /\ UNCHANGED seen
    BY <1>12 DEF Submit, table
  <2>2. CASE Hands(Submitter, slots, Append(queue, j), <<>>)
    <3>1. Behind' \/ UNCHANGED slots
      BY <1>0, <2>2, HandsBehind
    <3> QED BY <1>0, <1>1, <1>4, <2>1, <3>1
  <2> QED BY <1>0, <1>1, <1>12, <2>1, <2>2, SubmitsForm
<1>13. ASSUME NEW g \in Gens, Read(g) PROVE G
  <2>1. turn = Loop /\ UNCHANGED seen
    BY <1>13 DEF Read
  <2>2. ASSUME UNCHANGED slots PROVE G
    BY <1>0, <1>1, <2>1, <2>2
  <2>3. CASE Loses(Reader(g), g)
    BY <1>0, <1>3, <2>1, <2>3
  <2>4. ASSUME NEW sl, NEW pre, Hands(Reader(g), sl, queue, pre),
               pre = <<>> \/ \E j : \E kind \in {"RESOLVE", "FAIL"} : pre = <<Effect(kind, g, j)>>
        PROVE  G
    <3>1. CASE turn' = Reader(g) /\ todo' = [todo EXCEPT ![Reader(g)] = <<>>]
      <4>1. turn' # Loop /\ todo'[turn'] = <<>>
        BY <1>0, <3>1, FiberNames
      <4>2. Behind'
        BY <3>1, <4>1 DEF Behind
      <4> QED BY <1>4, <4>2
    <3>2. \/ Behind'
          \/ turn' = Reader(g) /\ todo' = [todo EXCEPT ![Reader(g)] = <<>>]
      BY <1>0, <2>4, HandsBehind
    <3> QED BY <1>4, <3>1, <3>2
  <2>5. CASE Readies(g)
    BY <2>2, <2>4, <2>5 DEF Readies
  <2>6. ASSUME NEW j, Results(g, j) PROVE G
    BY <2>2, <2>4, <2>6 DEF Results
  <2> QED BY <1>13, <2>2, <2>3, <2>5, <2>6, ReadForm DEF core
<1>14. ASSUME NEW g \in Gens, LoseTask(g) PROVE G
  <2>1. UNCHANGED seen
    BY <1>14 DEF LoseTask
  <2> QED BY <1>0, <1>1, <1>3, <1>14, <2>1, LoseTaskForm DEF core
<1>15. ASSUME NEW t \in tasks, SendTask(t) PROVE G
  <2>1. \A d \in Fds : slots[d] # NoSlot => seen'[slots[d].gen] = seen[slots[d].gen]
    BY <1>15, SendsSeen
  <2>2. turn = Loop /\ (UNCHANGED slots \/ Loses(Sender(t.gen), t.gen))
    BY <1>15, SendForm DEF core
  <2>3. CASE UNCHANGED slots
    <3>1. Current'
      BY <1>0, <2>1, <2>2, <2>3, CurrentKept
    <3> QED BY <3>1 DEF SeenInv, G
  <2> QED BY <1>0, <1>3, <2>1, <2>2, <2>3
<1>16. CASE CloseStops
  <2>1. /\ turn' = Closer /\ todo' = [todo EXCEPT ![Closer] = CloseEffects]
        /\ CloseEffects \in Seq(Doable)
        /\ \A i \in 1..Len(CloseEffects) : CloseEffects[i].kind \in {"FAIL", "SEND_STOP"}
        /\ Live # {} => CloseEffects # <<>>
        /\ slots' = [f \in Fds |-> IF f \in Live THEN Slot(slots[f].gen, "stopping", NoJob)
                                   ELSE NoSlot]
    BY <1>16, StopsForm
  <2> HIDE DEF CloseEffects
  <2>2. CASE CloseEffects # <<>>
    <3>1. CloseEffects[1].kind \in {"FAIL", "SEND_STOP"}
      BY <2>1, <2>2
    <3>2. Behind'
      BY <1>0, <2>1, <2>2, <3>1, StaysBehind
    <3> QED BY <1>4, <3>2
  <2>3. CASE CloseEffects = <<>>
    <3>1. \A d \in Fds : slots'[d] = NoSlot
      BY <2>1, <2>3
    <3>2. Current'
      BY <3>1 DEF Current
    <3> QED BY <3>2 DEF SeenInv, G
  <2> QED BY <2>2, <2>3
<1>17. CASE CloseKills
  <2>1. UNCHANGED <<slots, seen>>
    BY <1>17, KillsForm DEF core, CloseKills
  <2>2. ~Behind
    BY <1>17, FiberNames DEF CloseKills, MayKill, Returns, Behind
  <2>3. Current'
    BY <2>1, <2>2 DEF SeenInv, Current
  <2> QED BY <2>3 DEF SeenInv, G
<1>18. ASSUME NEW g \in Gens, CloseDrains(g) PROVE G
  <2>1. UNCHANGED seen /\ turn = Closer /\ todo[Closer] = <<>> /\ Loses(Closer, g)
    BY <1>18, DrainForm DEF CloseDrains, table
  <2>2. ~Behind
    BY <2>1, FiberNames DEF Behind
  <2> QED BY <1>3, <2>1, <2>2
<1> QED BY <1>5, <1>6, <1>7, <1>8, <1>9, <1>10, <1>11, <1>12, <1>13, <1>14, <1>15, <1>16, <1>17,
           <1>18, Steps

-----------------------------------------------------------------------------
(* The inductive invariant of the slot objects                               *)

\* Jobs are accounted for, a run is of the job its slot has, and an object that is not
\* up to date belongs to a fiber that will call sync_slots before the loop leaves it.
CopiesInv == AccountInv /\ OldInv /\ RunInv /\ SeenInv

\* A step keeps it.
LEMMA CopiesKept ==
  ASSUME CopiesInv, [PoolNext]_vars
  PROVE  CopiesInv'
<1>1. AccountInv'
  BY AccountKept DEF CopiesInv
<1>2. CASE PoolNext
  BY <1>1, <1>2, OldStep, RunStep, SeenStep DEF CopiesInv, AccountInv
<1>3. CASE UNCHANGED vars
  <2>1. UNCHANGED <<turn, todo, tasks, slots, queue, closer, seen, jobs, future>>
    BY <1>3 DEF vars, core, event, life, table, work
  <2>2. OldInv'
    BY <2>1 DEF CopiesInv, OldInv, Held
  <2>3. RunInv'
    BY <2>1 DEF CopiesInv, RunInv, Runs, Failing, Owes
  <2>4. SeenInv'
    BY <2>1 DEF CopiesInv, SeenInv, Current, Behind
  <2> QED BY <1>1, <2>2, <2>3, <2>4 DEF CopiesInv
<1> QED BY <1>2, <1>3

\* The initial states satisfy it.
LEMMA CopiesInit == Init => CopiesInv
<1> SUFFICES ASSUME Init PROVE CopiesInv
  OBVIOUS
<1>1. /\ todo = [f \in Fibers |-> <<>>] /\ tasks = {} /\ jobs = {} /\ queue = <<>>
      /\ slots = [f \in Fds |-> NoSlot]
  BY DEF Init, CoreInit
<1>2. OldInv
  <2>1. \A j \in Jobs : j # NoSlot.job
    BY CoreAssumption DEF NoSlot
  <2> QED BY <1>1, <2>1 DEF OldInv, Held
<1>3. RunInv
  BY <1>1 DEF RunInv, Runs
<1>4. Current
  BY <1>1 DEF Current
<1> QED BY <1>2, <1>3, <1>4, AccountInit DEF CopiesInv, SeenInv

-----------------------------------------------------------------------------
(* Theorems                                                                  *)

\* The inductive invariant: what each fiber can still have to do at an await of
\* SkeletonPool, where the one run that a skeleton can have is, and that every job of
\* the pool is queued, has a slot or is about to be settled.  (SkeletonPool.drive,
\* read_slot, reader_done, send_run, finish_close.)
THEOREM AccountInvariance == Spec => []AccountInv
<1>1. AccountInv /\ [PoolNext]_vars => AccountInv'
  BY AccountKept
<1> QED BY AccountInit, <1>1, PTL DEF Spec

\* No job is lost: a submitter that awaits its future has its job in the queue or in a
\* slot of the reducer, or some drive() has its RESOLVE or FAIL still to perform, in
\* whatever order results arrive, children die, sends fail, slots are lost and close()
\* runs.  (SkeletonPool.jobs; submit, drive, read_slot, lose, send_run, finish_close.)
THEOREM JobsAlwaysAccounted == Spec => []JobsAccounted
<1>1. AccountInv => JobsAccounted
  BY DEF AccountInv
<1> QED BY <1>1, AccountInvariance, PTL

\* The inductive invariant: a run that is to be sent is of the job its slot has, while
\* the pool knows that job and has not begun to close, and where an object of the pool's
\* table does not show what the reducer knows, the fiber in its turn has sync_slots
\* before it.  (SkeletonPool.drive, sync_slots, send_run, read_slot, finish_close.)
THEOREM CopiesInvariance == Spec => []CopiesInv
<1>1. CopiesInv /\ [PoolNext]_vars => CopiesInv'
  BY CopiesKept
<1> QED BY CopiesInit, <1>1, PTL DEF Spec

\* The object of a slot, which decides whether a result is accepted and whether a loss
\* counts as one before readiness, never lags behind the reducer when another task can
\* look at it: not while drive() is suspended between two effects, nor after send_run
\* has written the job into it.  (SkeletonPool.sync_slots, drive, send_run; read_slot,
\* lose and start, which read it.)
THEOREM SlotsAreCurrent == Spec => []SeenIsCurrent
<1>1. CopiesInv => SeenIsCurrent
  BY DEF CopiesInv, SeenInv, Behind, Current, SeenIsCurrent, Live
<1> QED BY <1>1, CopiesInvariance, PTL
=============================================================================
