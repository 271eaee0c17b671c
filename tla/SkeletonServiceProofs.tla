----------------------- MODULE SkeletonServiceProofs -----------------------
(***************************************************************************)
(* Proofs about SkeletonService, for every set of tasks and of roles and   *)
(* for every number of failures: the reports stay in order, and an         *)
(* interrupted service leaves nothing behind and misses no work.           *)
(***************************************************************************)
EXTENDS SkeletonService, TLAPS

-----------------------------------------------------------------------------
(* The inductive invariant                                                   *)

Active == {"waiting", "serving", "cancelling", "cancelled"}
Claiming == {"running", "settling", "releasing"}
InClaim == Claiming \cup {"committed", "released"}
Polls == {"arming", "polling", "empty", "idle"}
Sweeps == {"sweeping", "collecting", "sleeping"}

\* Where the coroutine of the service is, as long as the main coroutine has one.
ServiceInv ==
  /\ role \in {"worker", "maintenance", "general"}
  /\ main \in Active <=> service # "none"
  /\ service \in InLoop \cup {"opened", "closing"} => role = "worker"
  /\ service \in Sweeps => role = "maintenance"

\* The phase of the reducer follows both coroutines; an interruption leaves it
\* where it was until FAULT or STOP.
PhaseInv ==
  /\ service \in {"connecting", "opened"} => phase = "connecting"
  /\ service \in Polls \cup Sweeps => phase = "idle"
  /\ service = "running" => phase = "running"
  /\ service \in InClaim \ {"running"} => phase = "settling"
  /\ main = "started" => phase = "connecting"
  /\ main = "reading" => phase = "idle"
  /\ main = "working" => phase = "running"

\* A claim is open while its function runs and its outcome is recorded.
ClaimInv ==
  /\ holding # NoTask <=> service \in Claiming
  /\ service = "releasing" => holding \in Unknown

\* A service that fails closes its session before it is over.
SessionInv ==
  /\ main \in {"start", "backoff"} => session = "none"
  /\ service = "connecting" => session = "none"
  /\ service = "over" /\ main \in {"waiting", "serving"} => session = "none"
  /\ role = "maintenance" => session = "none"

\* From the answer of an empty poll to the wait, what became ready was notified.
SightInv ==
  service \in {"empty", "idle"} /\ session = "open" /\ ~sent /\ ~notified
    => ready \subseteq excluded \cup quiet

IInv ==
  /\ TypeOK /\ ReducerAccepts
  /\ ServiceInv /\ PhaseInv /\ ClaimInv /\ SessionInv /\ SightInv

-----------------------------------------------------------------------------
(* The reducer                                                               *)

\* What SkeletonCore.apply does with the reports that need no phase.
LEMMA FreeReports ==
  ASSUME owned \in BOOLEAN
  PROVE
  /\ Report("start")
       => refused' = refused /\ phase' = "connecting" /\ owned' = FALSE /\ listener' = listener
  /\ Report("ready")
       => refused' = refused /\ phase' = "idle" /\ owned' = owned /\ listener' = listener
  /\ Report("fault")
       => refused' = refused /\ phase' = "backoff" /\ owned' = FALSE /\ listener' = "closed"
  /\ Report("stop")
       => refused' = refused /\ phase' = "stopping" /\ owned' = FALSE /\ listener' = listener
  /\ Report("stopped")
       => refused' = refused /\ phase' = "dead" /\ owned' = FALSE /\ listener' = "closed"
  /\ Report("listener_opened")
       => refused' = refused /\ phase' = phase /\ owned' = owned /\ listener' = "listening"
  /\ Report("listener_recycled")
       => refused' = refused /\ phase' = phase /\ owned' = owned /\ listener' = "listening"
  /\ Report("listener_probed")
       => refused' = refused /\ phase' = phase /\ owned' = owned /\ listener' = listener
  /\ Report("listener_closed")
       => refused' = refused /\ phase' = phase /\ owned' = owned /\ listener' = "closed"
  /\ Report("maintenance_poll")
       => refused' = refused /\ phase' = phase /\ owned' = owned /\ listener' = listener
BY DEF Report, Accepts, NextPhase, NextOwned, NextListener, ClearsTask

\* What it does with the reports about a task, in the phase they need.
LEMMA TaskReports ==
  ASSUME owned \in BOOLEAN
  PROVE
  /\ Report("task_claimed") /\ phase = "idle"
       => refused' = refused /\ phase' = "running" /\ owned' = TRUE /\ listener' = listener
  /\ Report("work_started") /\ phase = "idle"
       => refused' = refused /\ phase' = "running" /\ owned' = TRUE /\ listener' = listener
  /\ Report("task_outcome") /\ phase = "running"
       => refused' = refused /\ phase' = "settling" /\ owned' = owned /\ listener' = listener
  /\ Report("task_unavailable") /\ phase = "running"
       => refused' = refused /\ phase' = "settling" /\ owned' = owned /\ listener' = listener
  /\ Report("task_committed") /\ phase = "settling"
       => refused' = refused /\ phase' = "idle" /\ owned' = FALSE /\ listener' = listener
  /\ Report("task_released") /\ phase = "settling"
       => refused' = refused /\ phase' = "idle" /\ owned' = FALSE /\ listener' = listener
  /\ Report("work_finished") /\ phase = "running"
       => refused' = refused /\ phase' = "idle" /\ owned' = FALSE /\ listener' = listener
BY DEF Report, Accepts, NextPhase, NextOwned, NextListener, ClearsTask

-----------------------------------------------------------------------------
(* Each group of steps keeps the invariant                                   *)

\* service_child_loop up to the end of a service.
LEMMA ServiceLoopSteps ==
  ASSUME IInv,
         StartService \/ TellHealthy \/ CancelService \/ ServiceCancelled \/ ServiceEnded \/
         BackoffEnds \/ LoopEnds
  PROVE  IInv'
<1> USE ServiceAssumption
        DEF IInv, TypeOK, ReducerAccepts, CoreHolds, ServiceInv, PhaseInv, ClaimInv, SessionInv,
            SightInv, Phases, Active, Claiming, InClaim, Polls, Sweeps, InLoop, Trouble,
            listening, process, wire, topic, lifecycle
<1>1. CASE StartService
  <2> USE <1>1, FreeReports DEF StartService, IsService
  <2>1. TypeOK'  OBVIOUS
  <2>2. ReducerAccepts'  OBVIOUS
  <2>3. ServiceInv'  OBVIOUS
  <2>4. PhaseInv'  OBVIOUS
  <2>5. ClaimInv'  OBVIOUS
  <2>6. SessionInv'  OBVIOUS
  <2>7. SightInv'  OBVIOUS
  <2> QED BY <2>1, <2>2, <2>3, <2>4, <2>5, <2>6, <2>7
<1>2. CASE TellHealthy
  BY <1>2 DEF TellHealthy
<1>3. CASE CancelService
  BY <1>3 DEF CancelService
<1>4. CASE ServiceCancelled
  BY <1>4 DEF ServiceCancelled
<1>5. CASE ServiceEnded
  BY <1>5, FreeReports DEF ServiceEnded
<1>6. CASE BackoffEnds
  BY <1>6 DEF BackoffEnds
<1>7. CASE LoopEnds
  BY <1>7 DEF LoopEnds
<1> QED BY <1>1, <1>2, <1>3, <1>4, <1>5, <1>6, <1>7

\* The end of both loops, and child_loop.
LEMMA EndAndGeneralSteps ==
  ASSUME IInv,
         ReportStop \/ ReportStopped \/ GeneralStarts \/ GeneralReady \/ WorkStarts \/ WorkEnds \/
         GeneralStops
  PROVE  IInv'
<1> USE ServiceAssumption
        DEF IInv, TypeOK, ReducerAccepts, CoreHolds, ServiceInv, PhaseInv, ClaimInv, SessionInv,
            SightInv, Phases, Active, Claiming, InClaim, Polls, Sweeps, InLoop, Trouble,
            listening, process, wire, topic, lifecycle
<1>1. CASE ReportStop
  BY <1>1, FreeReports DEF ReportStop
<1>2. CASE ReportStopped
  <2> USE <1>2, FreeReports DEF ReportStopped, Close
  <2>1. TypeOK'  OBVIOUS
  <2>2. ReducerAccepts'  OBVIOUS
  <2>3. ServiceInv'  OBVIOUS
  <2>4. PhaseInv'  OBVIOUS
  <2>5. ClaimInv'  OBVIOUS
  <2>6. SessionInv'  OBVIOUS
  <2>7. SightInv'  OBVIOUS
  <2> QED BY <2>1, <2>2, <2>3, <2>4, <2>5, <2>6, <2>7
<1>3. CASE GeneralStarts
  BY <1>3, FreeReports DEF GeneralStarts
<1>4. CASE GeneralReady
  BY <1>4, FreeReports DEF GeneralReady
<1>5. CASE WorkStarts
  BY <1>5, TaskReports DEF WorkStarts
<1>6. CASE WorkEnds
  BY <1>6, TaskReports DEF WorkEnds
<1>7. CASE GeneralStops
  BY <1>7 DEF GeneralStops
<1> QED BY <1>1, <1>2, <1>3, <1>4, <1>5, <1>6, <1>7

\* The listener is armed before a poll.
LEMMA ArmSteps ==
  ASSUME IInv, ArmListener
  PROVE  IInv'
<1>1. /\ role = "worker" /\ service = "arming" /\ service' = "polling" /\ notified' = FALSE
      /\ UNCHANGED <<role, stop, main, ready, quiet, healthy, holding, excluded, troubles>>
  BY DEF ArmListener, Worker, Goes, Calmly, Arm, process, topic
<1>2. session' \in {"open", "lost"} /\ sent' \in BOOLEAN
  <2>1. PICK recycles \in BOOLEAN : Maintain(recycles)
    BY DEF ArmListener, Arm
  <2>2. CASE recycles
    BY <2>1, <2>2 DEF Maintain, Connect
  <2>3. CASE ~recycles
    BY <2>1, <2>3 DEF Maintain, IInv, TypeOK
  <2> QED BY <2>2, <2>3
<1>3. UNCHANGED <<refused, phase, owned>> /\ listener' \in {listener, "listening"}
  BY FreeReports DEF ArmListener, Activity, IInv, TypeOK
<1>4. TypeOK' /\ ReducerAccepts'
  <2>1. phase = "idle"
    BY <1>1 DEF IInv, PhaseInv, Polls
  <2>2. TypeOK'
    <3>1. /\ phase' \in Phases /\ owned' \in BOOLEAN /\ refused' \in BOOLEAN
          /\ listener' \in {"closed", "listening"}
      BY <1>3 DEF IInv, TypeOK
    <3>2. /\ session' \in {"none", "open", "lost", "closed"}
          /\ sent' \in BOOLEAN /\ notified' \in BOOLEAN /\ service' \in InLoop
      BY <1>1, <1>2 DEF InLoop
    <3> QED BY <1>1, <3>1, <3>2 DEF IInv, TypeOK
  <2>3. ReducerAccepts'
    BY <1>3, <2>1 DEF IInv, TypeOK, ReducerAccepts, CoreHolds
  <2> QED BY <2>2, <2>3
<1>5. ServiceInv' /\ PhaseInv'
  BY <1>1, <1>3 DEF IInv, ServiceInv, PhaseInv, Active, InLoop, InClaim, Claiming, Polls, Sweeps
<1>6. ClaimInv' /\ SessionInv' /\ SightInv'
  BY <1>1, <1>2 DEF IInv, ServiceInv, ClaimInv, SessionInv, SightInv, Claiming, Active
<1> QED BY <1>4, <1>5, <1>6 DEF IInv

\* The listener is closed when the loop is over.
LEMMA CloseSteps ==
  ASSUME IInv, CloseListener
  PROVE  IInv'
<1>1. /\ role = "worker" /\ service = "closing" /\ service' = "over" /\ notified' = notified
      /\ UNCHANGED <<role, stop, main, ready, quiet, healthy, holding, excluded, troubles>>
      /\ session' = "none" /\ sent' = FALSE
  BY DEF CloseListener, Worker, Goes, Calmly, Close, process, topic
<1>2. UNCHANGED <<refused, phase, owned>> /\ listener' = "closed"
  BY FreeReports DEF CloseListener, IInv, TypeOK
<1>3. TypeOK' /\ ReducerAccepts'
  <2>1. TypeOK'
    BY <1>1, <1>2 DEF IInv, TypeOK, InLoop
  <2>2. ReducerAccepts'
    BY <1>2 DEF IInv, TypeOK, ReducerAccepts, CoreHolds
  <2> QED BY <2>1, <2>2
<1>4. ServiceInv' /\ PhaseInv'
  BY <1>1, <1>2 DEF IInv, ServiceInv, PhaseInv, Active, InLoop, InClaim, Claiming, Polls, Sweeps
<1>5. ClaimInv' /\ SessionInv' /\ SightInv'
  BY <1>1 DEF IInv, ClaimInv, SessionInv, SightInv, Claiming
<1> QED BY <1>3, <1>4, <1>5 DEF IInv

\* poll_tasks up to the answer of CLAIM, and the wait.
LEMMA PollSteps ==
  ASSUME IInv,
         OpenListener \/ WorkerReady \/ ArmListener \/ (\E t \in Tasks : ClaimFinds(t)) \/
         ClaimFindsNothing \/ NothingClaimed \/ WaitForWork \/ CloseListener
  PROVE  IInv'
<1>3. CASE ArmListener
  BY <1>3, ArmSteps
<1>8. CASE CloseListener
  BY <1>8, CloseSteps
<1> USE ServiceAssumption
        DEF IInv, TypeOK, ReducerAccepts, CoreHolds, ServiceInv, PhaseInv, ClaimInv, SessionInv,
            SightInv, Phases, Active, Claiming, InClaim, Polls, Sweeps, InLoop, Trouble,
            listening, process, wire, topic, lifecycle
<1>1. CASE OpenListener
  <2> USE <1>1, FreeReports DEF OpenListener, Listen, Connect, Worker, Goes, Calmly
  <2>1. TypeOK'  OBVIOUS
  <2>2. ReducerAccepts'  OBVIOUS
  <2>3. ServiceInv'  OBVIOUS
  <2>4. PhaseInv'  OBVIOUS
  <2>5. ClaimInv'  OBVIOUS
  <2>6. SessionInv'  OBVIOUS
  <2>7. SightInv'  OBVIOUS
  <2> QED BY <2>1, <2>2, <2>3, <2>4, <2>5, <2>6, <2>7
<1>2. CASE WorkerReady
  BY <1>2, FreeReports DEF WorkerReady, Worker, Goes, Calmly
<1>4. CASE (\E t \in Tasks : ClaimFinds(t))
  BY <1>4, TaskReports DEF ClaimFinds, Worker, Goes, Calmly
<1>5. CASE ClaimFindsNothing
  BY <1>5 DEF ClaimFindsNothing, Worker, Goes, Calmly
<1>6. CASE NothingClaimed
  BY <1>6 DEF NothingClaimed, Worker, Goes, Calmly
<1>7. CASE WaitForWork
  <2> USE <1>7, FreeReports DEF WaitForWork, Wait, Maintain, Connect, Activity, Worker, Goes, Calmly
  <2>1. TypeOK'  OBVIOUS
  <2>2. ReducerAccepts'  OBVIOUS
  <2>3. ServiceInv'  OBVIOUS
  <2>4. PhaseInv'  OBVIOUS
  <2>5. ClaimInv'  OBVIOUS
  <2>6. SessionInv'  OBVIOUS
  <2>7. SightInv'  OBVIOUS
  <2> QED BY <2>1, <2>2, <2>3, <2>4, <2>5, <2>6, <2>7
<1> QED BY <1>1, <1>2, <1>3, <1>4, <1>5, <1>6, <1>7, <1>8

\* poll_tasks from the claim of a task to its end.
LEMMA TaskSteps ==
  ASSUME IInv,
         FunctionRuns \/ FunctionMissing \/ Commits \/ Releases \/ ReportCommitted \/
         ReportReleased
  PROVE  IInv'
<1> USE ServiceAssumption
        DEF IInv, TypeOK, ReducerAccepts, CoreHolds, ServiceInv, PhaseInv, ClaimInv, SessionInv,
            SightInv, Phases, Active, Claiming, InClaim, Polls, Sweeps, InLoop, Trouble,
            listening, process, wire, topic, lifecycle
<1>1. CASE FunctionRuns
  BY <1>1, TaskReports DEF FunctionRuns, Worker, Goes, Calmly
<1>2. CASE FunctionMissing
  BY <1>2, TaskReports DEF FunctionMissing, Worker, Goes, Calmly
<1>3. CASE Commits
  <2> USE <1>3 DEF Commits, Worker, Goes, Calmly
  <2>1. TypeOK'
    <3>1. sent' \in BOOLEAN /\ notified' \in BOOLEAN
      OBVIOUS
    <3>2. ready' \subseteq Tasks /\ quiet' \subseteq ready'
      OBVIOUS
    <3> QED BY <3>1, <3>2
  <2>2. ReducerAccepts'  OBVIOUS
  <2>3. ServiceInv'  OBVIOUS
  <2>4. PhaseInv'  OBVIOUS
  <2>5. ClaimInv'  OBVIOUS
  <2>6. SessionInv'  OBVIOUS
  <2>7. SightInv'  OBVIOUS
  <2> QED BY <2>1, <2>2, <2>3, <2>4, <2>5, <2>6, <2>7
<1>4. CASE Releases
  BY <1>4 DEF Releases, RollsBack, Worker, Goes, Calmly
<1>5. CASE ReportCommitted
  BY <1>5, TaskReports DEF ReportCommitted, Worker, Goes, Calmly
<1>6. CASE ReportReleased
  BY <1>6, TaskReports DEF ReportReleased, Worker, Goes, Calmly
<1> QED BY <1>1, <1>2, <1>3, <1>4, <1>5, <1>6

\* poll_maintenance.
LEMMA MaintenanceSteps ==
  ASSUME IInv,
         MaintenanceReady \/ ProcessDue \/ Collect \/ Sleep
  PROVE  IInv'
<1> USE ServiceAssumption
        DEF IInv, TypeOK, ReducerAccepts, CoreHolds, ServiceInv, PhaseInv, ClaimInv, SessionInv,
            SightInv, Phases, Active, Claiming, InClaim, Polls, Sweeps, InLoop, Trouble,
            listening, process, wire, topic, lifecycle
<1>1. CASE MaintenanceReady
  BY <1>1, FreeReports DEF MaintenanceReady, Maintenance, Goes, Calmly
<1>2. CASE ProcessDue
  BY <1>2, FreeReports DEF ProcessDue, Maintenance, Goes, Calmly
<1>3. CASE Collect
  BY <1>3 DEF Collect, Maintenance, Goes, Calmly
<1>4. CASE Sleep
  BY <1>4 DEF Sleep, Maintenance, Goes, Calmly
<1> QED BY <1>1, <1>2, <1>3, <1>4

\* Failures, cancellation, and the end of the process.
LEMMA Interruptions ==
  ASSUME IInv,
         ServiceFails \/ ServiceStops \/ Killed
  PROVE  IInv'
<1> USE ServiceAssumption
        DEF IInv, TypeOK, ReducerAccepts, CoreHolds, ServiceInv, PhaseInv, ClaimInv, SessionInv,
            SightInv, Phases, Active, Claiming, InClaim, Polls, Sweeps, InLoop, Trouble,
            listening, process, wire, topic, lifecycle
<1>1. CASE ServiceFails
  BY <1>1 DEF ServiceFails, Interrupted, ClaimIsLeft, RollsBack
<1>2. CASE ServiceStops
  <2> USE <1>2 DEF ServiceStops, Interrupted, ClaimIsLeft, RollsBack, Close
  <2>1. TypeOK'
    <3>1. sent' \in BOOLEAN /\ notified' \in BOOLEAN
      OBVIOUS
    <3>2. ready' \subseteq Tasks /\ quiet' \subseteq ready'
      OBVIOUS
    <3> QED BY <3>1, <3>2
  <2>2. ReducerAccepts'  OBVIOUS
  <2>3. ServiceInv'  OBVIOUS
  <2>4. PhaseInv'  OBVIOUS
  <2>5. ClaimInv'  OBVIOUS
  <2>6. SessionInv'  OBVIOUS
  <2>7. SightInv'  OBVIOUS
  <2> QED BY <2>1, <2>2, <2>3, <2>4, <2>5, <2>6, <2>7
<1>3. CASE Killed
  <2> USE <1>3 DEF Killed, RollsBack, Close
  <2>1. TypeOK'
    <3>1. sent' \in BOOLEAN /\ notified' \in BOOLEAN
      OBVIOUS
    <3>2. ready' \subseteq Tasks /\ quiet' \subseteq ready'
      OBVIOUS
    <3> QED BY <3>1, <3>2
  <2>2. ReducerAccepts'  OBVIOUS
  <2>3. ServiceInv'  OBVIOUS
  <2>4. PhaseInv'  OBVIOUS
  <2>5. ClaimInv'  OBVIOUS
  <2>6. SessionInv'  OBVIOUS
  <2>7. SightInv'  OBVIOUS
  <2> QED BY <2>1, <2>2, <2>3, <2>4, <2>5, <2>6, <2>7
<1> QED BY <1>1, <1>2, <1>3

\* The control socket, the store and the network.
LEMMA WorldSteps ==
  ASSUME IInv,
         StopRead \/ StopSent \/ Others \/ Delivery \/ UNCHANGED vars
  PROVE  IInv'
<1> USE ServiceAssumption
        DEF IInv, TypeOK, ReducerAccepts, CoreHolds, ServiceInv, PhaseInv, ClaimInv, SessionInv,
            SightInv, Phases, Active, Claiming, InClaim, Polls, Sweeps, InLoop, Trouble,
            listening, process, wire, topic, lifecycle
<1>1. CASE StopRead
  BY <1>1 DEF StopRead, IsService
<1>2. CASE StopSent
  BY <1>2 DEF StopSent
<1>3. CASE Others
  <2> USE <1>3 DEF Others, Arrives, GivenBack, Breaks
  <2>1. TypeOK'
    <3>1. sent' \in BOOLEAN /\ notified' \in BOOLEAN
      OBVIOUS
    <3>2. ready' \subseteq Tasks /\ quiet' \subseteq ready'
      OBVIOUS
    <3> QED BY <3>1, <3>2
  <2>2. ReducerAccepts'  OBVIOUS
  <2>3. ServiceInv'  OBVIOUS
  <2>4. PhaseInv'  OBVIOUS
  <2>5. ClaimInv'  OBVIOUS
  <2>6. SessionInv'  OBVIOUS
  <2>7. SightInv'  OBVIOUS
  <2> QED BY <2>1, <2>2, <2>3, <2>4, <2>5, <2>6, <2>7
<1>4. CASE Delivery
  <2> USE <1>4 DEF Delivery, Receive
  <2>1. TypeOK'
    <3>1. sent' \in BOOLEAN /\ notified' \in BOOLEAN
      OBVIOUS
    <3>2. ready' \subseteq Tasks /\ quiet' \subseteq ready'
      OBVIOUS
    <3> QED BY <3>1, <3>2
  <2>2. ReducerAccepts'  OBVIOUS
  <2>3. ServiceInv'  OBVIOUS
  <2>4. PhaseInv'  OBVIOUS
  <2>5. ClaimInv'  OBVIOUS
  <2>6. SessionInv'  OBVIOUS
  <2>7. SightInv'  OBVIOUS
  <2> QED BY <2>1, <2>2, <2>3, <2>4, <2>5, <2>6, <2>7
<1>5. CASE UNCHANGED vars
  BY <1>5 DEF vars
<1> QED BY <1>1, <1>2, <1>3, <1>4, <1>5

-----------------------------------------------------------------------------
(* The theorems                                                              *)

\* The invariant holds in every reachable state.
THEOREM Invariance == Spec => []IInv
<1>1. Init => IInv
  <2> SUFFICES ASSUME Init PROVE IInv
    OBVIOUS
  <2> USE ServiceAssumption DEF Init, LifecycleInit, ListenerInit
  <2>1. TypeOK
    <3>1. 0 \in 0..MaxTroubles
      OBVIOUS
    <3>2. /\ owned \in BOOLEAN /\ refused \in BOOLEAN /\ healthy \in BOOLEAN
          /\ sent \in BOOLEAN /\ notified \in BOOLEAN
      OBVIOUS
    <3> QED BY <3>1, <3>2 DEF TypeOK, Phases, InLoop
  <2>2. ReducerAccepts
    BY DEF ReducerAccepts, CoreHolds
  <2>3. ServiceInv /\ PhaseInv
    BY DEF ServiceInv, PhaseInv, Active, InClaim, Claiming, Polls, Sweeps, InLoop
  <2>4. ClaimInv /\ SessionInv /\ SightInv
    BY DEF ClaimInv, SessionInv, SightInv, Claiming
  <2> QED BY <2>1, <2>2, <2>3, <2>4 DEF IInv
<1>2. IInv /\ [Next]_vars => IInv'
  <2> SUFFICES ASSUME IInv, [Next]_vars PROVE IInv'
    OBVIOUS
  <2>1. CASE Main
    BY <2>1, ServiceLoopSteps, EndAndGeneralSteps DEF Main
  <2>2. CASE Service
    <3>1. CASE \/ OpenListener \/ WorkerReady \/ ArmListener
               \/ (\E t \in Tasks : ClaimFinds(t)) \/ ClaimFindsNothing \/ NothingClaimed
               \/ WaitForWork \/ CloseListener
      BY <3>1, PollSteps
    <3>2. CASE \/ FunctionRuns \/ FunctionMissing \/ Commits \/ Releases
               \/ ReportCommitted \/ ReportReleased
      BY <3>2, TaskSteps
    <3>3. CASE MaintenanceReady \/ ProcessDue \/ Collect \/ Sleep
      BY <3>3, MaintenanceSteps
    <3> QED BY <2>2, <3>1, <3>2, <3>3 DEF Service
  <2>3. CASE ServiceFails \/ ServiceStops \/ Killed
    BY <2>3, Interruptions
  <2>4. CASE StopRead \/ StopSent \/ Others \/ Delivery \/ UNCHANGED vars
    BY <2>4, WorldSteps
  <2> QED BY <2>1, <2>2, <2>3, <2>4 DEF Next
<1> QED BY <1>1, <1>2, PTL DEF Spec

\* Types of the variables of a skeleton process.
THEOREM TypesCorrect == Spec => []TypeOK
<1>1. IInv => TypeOK
  BY DEF IInv
<1> QED BY <1>1, Invariance, PTL

\* However the coroutines of a skeleton are cancelled, fail and restart,
\* SkeletonCore accepts every report and its assertions hold.
THEOREM ReportsInOrder == Spec => []ReducerAccepts
<1>1. IInv => ReducerAccepts
  BY DEF IInv
<1> QED BY <1>1, Invariance, PTL

\* A skeleton holds a claim only in the phases that say so to the parent.
THEOREM ClaimsReported == Spec => []OnlyRunningHolds
<1>1. IInv => OnlyRunningHolds
  BY DEF IInv, OnlyRunningHolds, ClaimInv, PhaseInv, Claiming, InClaim
<1> QED BY <1>1, Invariance, PTL

\* A service of service_child_loop is over only without claim and session.
THEOREM ServicesCleanUp == Spec => []NothingLeftBehind
<1>1. IInv => NothingLeftBehind
  BY DEF IInv, NothingLeftBehind, ClaimInv, SessionInv, Claiming
<1> QED BY <1>1, Invariance, PTL

\* No task that was notified is ready behind the back of a waiting worker: arm
\* before the poll, and wait after it, lose no notification.
THEOREM NotificationsSeen == Spec => []NoMissedWork
<1>1. IInv => NoMissedWork
  BY DEF IInv, NoMissedWork, SightInv
<1> QED BY <1>1, Invariance, PTL
=============================================================================
