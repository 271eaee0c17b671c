--------------------------- MODULE SkeletonService ---------------------------
(***************************************************************************)
(* pool.py and worker.py: a skeleton process from its start to its end.    *)
(* A worker and a maintenance skeleton run service_child_loop, which       *)
(* starts a service (poll_tasks or poll_maintenance) again and again; a    *)
(* general skeleton runs child_loop.  The main coroutine, the coroutine of *)
(* the service, the task that reads the control socket, the listener and   *)
(* the clients of the store interleave.                                    *)
(*                                                                         *)
(* The claim of a task is one step here (TaskExecution has what happens in *)
(* it), and a report is made and sent in one step: a control socket that   *)
(* cannot be written is the end of the process (Killed).                   *)
(***************************************************************************)
EXTENDS Naturals, SkeletonLifecycle, TaskListener

CONSTANTS
  Roles,         \* the roles a run starts with: worker, maintenance, general
  Unknown,       \* the tasks whose version this process has not loaded
  NoTask,
  MaxTroubles    \* bound: failures of the database and of functions, retries, kills

ASSUME ServiceAssumption ==
  /\ Roles \subseteq {"worker", "maintenance", "general"}
  /\ Unknown \subseteq Tasks /\ NoTask \notin Tasks /\ MaxTroubles \in Nat

VARIABLES
  role,
  main,        \* service_child_loop or child_loop
  service,     \* poll_tasks or poll_maintenance
  healthy,     \* the event of that name
  holding,     \* the task of the open claim
  excluded,    \* excluded: tasks this service does not claim
  stop,        \* STOP, or the end of the stream: none, sent or read (stop_task is done)
  troubles

process == <<role, stop>>
vars == <<lifecycle, listening, process, main, service, healthy, holding, excluded, troubles>>

Trouble == troubles < MaxTroubles /\ troubles' = troubles + 1

Init ==
  /\ LifecycleInit /\ ListenerInit
  /\ role \in Roles
  /\ main = "start" /\ service = "none" /\ healthy = FALSE
  /\ holding = NoTask /\ excluded = {} /\ stop = "none" /\ troubles = 0

-----------------------------------------------------------------------------
(* service_child_loop                                                        *)

IsService == role \in {"worker", "maintenance"}

StartService ==
  /\ IsService /\ main = "start" /\ stop # "read"
  /\ Report("start")
  /\ main' = "waiting" /\ service' = "connecting" /\ healthy' = FALSE /\ excluded' = {}
  /\ UNCHANGED <<listening, process, holding, troubles>>

\* The first wait ends with healthy: READY, or HEALTHY if it is not the first.
TellHealthy ==
  /\ main = "waiting" /\ healthy /\ stop # "read"
  /\ main' = "serving"
  /\ UNCHANGED <<lifecycle, listening, process, service, healthy, holding, excluded, troubles>>

\* Mutant of CancelService: the second wait is for the service alone.
CancelServiceWaiting ==
  /\ main = "waiting" /\ stop = "read"
  /\ main' = "cancelling"
  /\ UNCHANGED <<lifecycle, listening, process, service, healthy, holding, excluded, troubles>>

\* stop_task is done: the service is cancelled, and waited for.
CancelService ==
  /\ main \in {"waiting", "serving"} /\ stop = "read"
  /\ main' = "cancelling"
  /\ UNCHANGED <<lifecycle, listening, process, service, healthy, holding, excluded, troubles>>

\* Mutant of ServiceCancelled: the service is cancelled and not waited for.
ServiceCancelledAtOnce ==
  /\ main \in {"cancelling", "cancelled"}
  /\ main' = "ending"
  /\ UNCHANGED <<lifecycle, listening, process, service, healthy, holding, excluded, troubles>>

ServiceCancelled ==
  /\ main \in {"cancelling", "cancelled"} /\ service = "over"
  /\ main' = "ending" /\ service' = "none"
  /\ UNCHANGED <<lifecycle, listening, process, healthy, holding, excluded, troubles>>

\* Mutant of ServiceEnded: the fault is reported without waiting for the end.
ServiceEndedEarly ==
  /\ main \in {"waiting", "serving"} /\ stop # "read" /\ (main = "waiting" => ~healthy)
  /\ service \in {"over", "closing"}
  /\ Report("fault")
  /\ main' = "backoff" /\ service' = "none"
  /\ UNCHANGED <<listening, process, healthy, holding, excluded, troubles>>

\* The service is over without having been stopped: FAULT and SERVICE_FAULT.
ServiceEnded ==
  /\ main \in {"waiting", "serving"} /\ stop # "read" /\ (main = "waiting" => ~healthy)
  /\ service = "over"
  /\ Report("fault")
  /\ main' = "backoff" /\ service' = "none"
  /\ UNCHANGED <<listening, process, healthy, holding, excluded, troubles>>

\* The delay is over, or stop_task is done.
BackoffEnds ==
  /\ main = "backoff"
  /\ main' = IF stop = "read" THEN "ending" ELSE "start"
  /\ UNCHANGED <<lifecycle, listening, process, service, healthy, holding, excluded, troubles>>

\* The loop ends at its head.
LoopEnds ==
  /\ IsService /\ main = "start" /\ stop = "read"
  /\ main' = "ending"
  /\ UNCHANGED <<lifecycle, listening, process, service, healthy, holding, excluded, troubles>>

\* The two reports at the end of service_child_loop and of child_loop.
ReportStop ==
  /\ main = "ending" /\ Report("stop") /\ main' = "stopped"
  /\ UNCHANGED <<listening, process, service, healthy, holding, excluded, troubles>>

ReportStopped ==
  /\ main = "stopped" /\ Report("stopped") /\ main' = "gone"
  /\ Close
  /\ UNCHANGED <<topic, process, service, healthy, holding, excluded, troubles>>

-----------------------------------------------------------------------------
(* child_loop                                                                *)

GeneralStarts ==
  /\ role = "general" /\ main = "start"
  /\ Report("start") /\ main' = "started"
  /\ UNCHANGED <<listening, process, service, healthy, holding, excluded, troubles>>

GeneralReady ==
  /\ main = "started" /\ Report("ready") /\ main' = "reading"
  /\ UNCHANGED <<listening, process, service, healthy, holding, excluded, troubles>>

\* RUN is read: messages keep their order, and nothing follows STOP.
WorkStarts ==
  /\ main = "reading" /\ stop = "none" /\ Report("work_started") /\ main' = "working"
  /\ UNCHANGED <<listening, process, service, healthy, holding, excluded, troubles>>

\* perform catches whatever the work raises.
WorkEnds ==
  /\ main = "working" /\ Report("work_finished") /\ main' = "reading"
  /\ UNCHANGED <<listening, process, service, healthy, holding, excluded, troubles>>

GeneralStops ==
  /\ main = "reading" /\ stop = "sent"
  /\ stop' = "read" /\ main' = "ending"
  /\ UNCHANGED <<lifecycle, listening, role, service, healthy, holding, excluded, troubles>>

Main ==
  \/ StartService \/ TellHealthy \/ CancelService \/ ServiceCancelled \/ ServiceEnded
  \/ BackoffEnds \/ LoopEnds \/ ReportStop \/ ReportStopped
  \/ GeneralStarts \/ GeneralReady \/ WorkStarts \/ WorkEnds \/ GeneralStops

-----------------------------------------------------------------------------
(* poll_tasks                                                                *)

Worker == role = "worker" /\ main # "gone"
Goes(from, to) == service = from /\ service' = to /\ UNCHANGED <<process, main>>

\* The rest of the world stays as it is.
Calmly == UNCHANGED <<excluded, troubles>>

OpenListener ==
  /\ Worker /\ Goes("connecting", "opened")
  /\ Listen /\ Report("listener_opened")
  /\ UNCHANGED <<topic, healthy, holding>> /\ Calmly

WorkerReady ==
  /\ Worker /\ Goes("opened", "arming") /\ Report("ready")
  /\ UNCHANGED <<listening, healthy, holding>> /\ Calmly

\* report_listener_activity
Activity(recycles) == Report(IF recycles THEN "listener_recycled" ELSE "listener_probed")

ArmListener ==
  /\ Worker /\ Goes("arming", "polling")
  /\ \E recycles \in BOOLEAN : Arm(recycles) /\ Activity(recycles)
  /\ UNCHANGED <<topic, healthy, holding>> /\ Calmly

\* CLAIM finds a task, and locks its row.
ClaimFinds(t) ==
  /\ Worker /\ Goes("polling", "running") /\ t \in ready \ excluded
  /\ ready' = ready \ {t} /\ quiet' = quiet \ {t}
  /\ holding' = t /\ healthy' = TRUE
  /\ Report("task_claimed")
  /\ UNCHANGED wire /\ Calmly

\* CLAIM sees nothing; the answer comes later.
ClaimFindsNothing ==
  /\ Worker /\ Goes("polling", "empty") /\ ready \subseteq excluded
  /\ UNCHANGED <<lifecycle, listening, healthy, holding>> /\ Calmly

\* Mutant of NothingClaimed: the event is cleared after the poll.
NothingClaimedThenClear ==
  /\ Worker /\ Goes("empty", "idle")
  /\ healthy' = TRUE /\ notified' = FALSE
  /\ UNCHANGED <<lifecycle, session, sent, topic, holding>> /\ Calmly

NothingClaimed ==
  /\ Worker /\ Goes("empty", "idle")
  /\ healthy' = TRUE
  /\ UNCHANGED <<lifecycle, listening, holding>> /\ Calmly

FunctionRuns ==
  /\ Worker /\ Goes("running", "settling") /\ holding \notin Unknown
  /\ Report("task_outcome")
  /\ UNCHANGED <<listening, healthy, holding>> /\ Calmly

FunctionMissing ==
  /\ Worker /\ Goes("running", "releasing") /\ holding \in Unknown
  /\ Report("task_unavailable")
  /\ UNCHANGED <<listening, healthy, holding>> /\ Calmly

\* The claim ends with its row unlocked and the task as it was.
RollsBack ==
  /\ holding' = NoTask
  /\ IF holding = NoTask THEN UNCHANGED topic
     ELSE ready' = ready \cup {holding} /\ quiet' = quiet \cup {holding}

\* A commit that makes the task ready again (RETRY) notifies the topic.
Commits ==
  /\ Worker /\ Goes("settling", "committed")
  /\ holding' = NoTask
  /\ \/ UNCHANGED <<listening, troubles>>
     \/ /\ Trouble /\ ready' = ready \cup {holding} /\ sent' = (sent \/ session = "open")
        /\ UNCHANGED <<session, notified, quiet>>
  /\ UNCHANGED <<lifecycle, healthy, excluded>>

Releases ==
  /\ Worker /\ Goes("releasing", "released")
  /\ RollsBack /\ excluded' = excluded \cup {holding}
  /\ UNCHANGED <<lifecycle, wire, healthy, troubles>>

ReportCommitted ==
  /\ Worker /\ Goes("committed", "arming") /\ Report("task_committed")
  /\ UNCHANGED <<listening, healthy, holding>> /\ Calmly

\* Mutant of ReportReleased: a task that was given back is not reported.
ReportReleasedNot ==
  /\ Worker /\ Goes("released", "arming")
  /\ UNCHANGED <<lifecycle, listening, healthy, holding>> /\ Calmly

ReportReleased ==
  /\ Worker /\ Goes("released", "arming") /\ Report("task_released")
  /\ UNCHANGED <<listening, healthy, holding>> /\ Calmly

WaitForWork ==
  /\ Worker /\ Goes("idle", "arming")
  /\ \E recycles \in BOOLEAN : Wait(recycles) /\ Activity(recycles)
  /\ UNCHANGED <<topic, healthy, holding>> /\ Calmly

InLoop == {"arming", "polling", "empty", "running", "settling", "committed", "releasing",
           "released", "idle"}

\* An exception passes through the claim; COMMIT may have been carried out.
ClaimIsLeft ==
  \/ RollsBack
  \/ service = "settling" /\ holding' = NoTask /\ UNCHANGED topic

\* The finally of poll_tasks
CloseListener ==
  /\ Worker /\ Goes("closing", "over")
  /\ Close /\ Report("listener_closed")
  /\ UNCHANGED <<topic, healthy, holding>> /\ Calmly

-----------------------------------------------------------------------------
(* poll_maintenance                                                          *)

Maintenance == role = "maintenance" /\ main # "gone"

MaintenanceReady ==
  /\ Maintenance /\ Goes("connecting", "sweeping") /\ Report("ready")
  /\ UNCHANGED <<listening, healthy, holding>> /\ Calmly

ProcessDue ==
  /\ Maintenance /\ Goes("sweeping", "collecting") /\ Report("maintenance_poll")
  /\ UNCHANGED <<listening, healthy, holding>> /\ Calmly

Collect ==
  /\ Maintenance /\ Goes("collecting", "sleeping") /\ healthy' = TRUE
  /\ UNCHANGED <<lifecycle, listening, holding>> /\ Calmly

Sleep ==
  /\ Maintenance /\ Goes("sleeping", "sweeping")
  /\ UNCHANGED <<lifecycle, listening, healthy, holding>> /\ Calmly

-----------------------------------------------------------------------------
(* Both services                                                             *)

\* An exception: before the try of poll_tasks nothing is closed.
Interrupted ==
  \/ /\ service \in InLoop /\ service' = "closing" /\ ClaimIsLeft
  \/ /\ service \in {"connecting", "opened", "sweeping", "collecting", "sleeping"}
     /\ service' = "over" /\ UNCHANGED <<topic, holding>>

\* The database or a coroutine of the loop fails.  (A failure between LISTEN and
\* the try would leave the session behind; nothing but a report is made there.)
ServiceFails ==
  /\ main \in {"waiting", "serving"} /\ Trouble
  /\ service \notin {"opened", "sleeping"} /\ Interrupted
  /\ UNCHANGED <<lifecycle, wire, process, main, healthy, excluded>>

\* CancelledError arrives, once, where the service waits, the close of its
\* listener included.
ServiceStops ==
  /\ main = "cancelling" /\ main' = "cancelled"
  /\ \/ Interrupted /\ UNCHANGED wire
     \/ service = "closing" /\ service' = "over" /\ Close /\ UNCHANGED <<topic, holding>>
  /\ UNCHANGED <<lifecycle, process, healthy, excluded, troubles>>

Service ==
  \/ OpenListener \/ WorkerReady \/ ArmListener
  \/ (\E t \in Tasks : ClaimFinds(t)) \/ ClaimFindsNothing \/ NothingClaimed
  \/ FunctionRuns \/ FunctionMissing \/ Commits \/ Releases
  \/ ReportCommitted \/ ReportReleased \/ WaitForWork \/ CloseListener
  \/ MaintenanceReady \/ ProcessDue \/ Collect \/ Sleep

-----------------------------------------------------------------------------
(* Everything else                                                           *)

\* stop_task reads STOP, or the end of the stream.
StopRead ==
  /\ IsService /\ stop = "sent" /\ stop' = "read"
  /\ UNCHANGED <<lifecycle, listening, role, main, service, healthy, holding, excluded,
                 troubles>>

StopSent ==
  /\ stop = "none" /\ stop' = "sent"
  /\ UNCHANGED <<lifecycle, listening, role, main, service, healthy, holding, excluded,
                 troubles>>

\* The process dies, or is killed, anywhere.
Killed ==
  /\ main # "gone" /\ Trouble
  /\ main' = "gone" /\ service' = "none" /\ RollsBack /\ Close
  /\ UNCHANGED <<lifecycle, process, healthy, excluded>>

Others ==
  /\ \/ (\E t \in Tasks \ {holding} : Arrives(t) \/ GivenBack(t)) /\ UNCHANGED troubles
     \/ Breaks /\ Trouble
  /\ UNCHANGED <<lifecycle, process, main, service, healthy, holding, excluded>>

Delivery ==
  Receive /\ UNCHANGED <<lifecycle, process, main, service, healthy, holding, excluded, troubles>>

Next ==
  \/ Main \/ Service \/ ServiceFails \/ ServiceStops
  \/ StopRead \/ StopSent \/ Killed \/ Others \/ Delivery

\* The event loop runs what can go on; a wait for work ends by its timeout.
Fairness ==
  /\ WF_vars(Main) /\ WF_vars(Service) /\ WF_vars(ServiceStops)
  /\ WF_vars(StopRead) /\ WF_vars(Delivery)

Spec == Init /\ [][Next]_vars
FairSpec == Spec /\ Fairness

-----------------------------------------------------------------------------
(* Properties                                                                *)

\* The state variables keep their types.
TypeOK ==
  /\ phase \in Phases /\ owned \in BOOLEAN /\ listener \in {"closed", "listening"}
  /\ refused \in BOOLEAN /\ role \in Roles /\ healthy \in BOOLEAN
  /\ session \in {"none", "open", "lost", "closed"} /\ sent \in BOOLEAN /\ notified \in BOOLEAN
  /\ ready \subseteq Tasks /\ quiet \subseteq ready /\ holding \in Tasks \cup {NoTask}
  /\ excluded \subseteq Unknown /\ stop \in {"none", "sent", "read"} /\ troubles \in 0..MaxTroubles
  /\ main \in {"start", "waiting", "serving", "cancelling", "cancelled", "backoff", "ending",
               "stopped", "gone", "started", "reading", "working"}
  /\ service \in InLoop \cup {"none", "connecting", "opened", "closing", "over", "sweeping",
                              "collecting", "sleeping"}

\* Whatever is cancelled, fails or restarts: the reducer accepts every report,
\* and what it asserts holds.  (SkeletonCore.require_phase, assert_invariants.)
ReducerAccepts == ~refused /\ CoreHolds

\* A skeleton that reports that it is idle, in backoff or stopping holds no
\* claim: the rollback of an interrupted task comes before the report.
\* (service_child_loop waits for the service before FAULT and STOP.)
OnlyRunningHolds == holding # NoTask => phase \in {"running", "settling"}

\* A service that has ended leaves no claim, and no session unless the process
\* is about to end, which takes the session with it.
NothingLeftBehind ==
  service = "none" => holding = NoTask /\ (main \in {"start", "backoff"} => session = "none")

\* A worker that waits on a session that works has polled after every task
\* became ready, except those that became ready without a notification.
\* (arm clears the event before the poll; connect sets it.)
NoMissedWork ==
  service = "idle" /\ session = "open" /\ ~sent /\ ~notified => ready \subseteq excluded \cup quiet

\* A process that is told to stop ends, wherever its service is.
StopObeyed == stop # "none" ~> main = "gone"

\* A worker takes every task it can run, whether or not it was notified, and
\* however often its service, its session or a function fails.
WorkTaken ==
  \A t \in Tasks \ Unknown :
    role = "worker" /\ t \in ready ~> t \notin ready \/ stop # "none" \/ main = "gone"
=============================================================================
