-------------------------- MODULE SkeletonLifecycle --------------------------
(***************************************************************************)
(* skeleton.py: SkeletonCore, the reducer of the life cycle of a skeleton. *)
(* Every report of the child passes through it before it is sent to the    *)
(* parent.  A report the reducer does not accept raises in the coroutine   *)
(* that made it; refused remembers that.                                   *)
(***************************************************************************)

VARIABLES
  phase,       \* SkeletonCore.phase
  owned,       \* whether SkeletonCore.task_id is set
  listener,    \* SkeletonCore.listener
  refused      \* whether a report was refused

lifecycle == <<phase, owned, listener, refused>>

Phases == {"starting", "connecting", "idle", "running", "settling", "backoff", "stopping", "dead"}

LifecycleInit ==
  phase = "starting" /\ owned = FALSE /\ listener = "closed" /\ refused = FALSE

\* require_phase
Accepts(kind) ==
  CASE kind \in {"task_claimed", "work_started"} -> phase = "idle"
    [] kind \in {"task_outcome", "task_unavailable", "work_finished"} -> phase = "running"
    [] kind \in {"task_committed", "task_released"} -> phase = "settling"
    [] OTHER -> TRUE

NextPhase(kind) ==
  CASE kind = "start" -> "connecting"
    [] kind \in {"task_claimed", "work_started"} -> "running"
    [] kind \in {"task_outcome", "task_unavailable"} -> "settling"
    [] kind \in {"ready", "task_committed", "task_released", "work_finished"} -> "idle"
    [] kind = "fault" -> "backoff"
    [] kind = "stop" -> "stopping"
    [] kind = "stopped" -> "dead"
    [] OTHER -> phase

ClearsTask(kind) ==
  kind \in {"start", "task_committed", "task_released", "work_finished", "fault", "stop",
            "stopped"}

NextOwned(kind) ==
  kind \in {"task_claimed", "work_started"} \/ (owned /\ ~ClearsTask(kind))

NextListener(kind) ==
  IF kind \in {"listener_opened", "listener_recycled"} THEN "listening"
  ELSE IF kind \in {"listener_closed", "fault", "stopped"} THEN "closed"
  ELSE listener

\* SkeletonCore.apply
Report(kind) ==
  IF Accepts(kind)
  THEN /\ phase' = NextPhase(kind) /\ owned' = NextOwned(kind)
       /\ listener' = NextListener(kind)
       /\ UNCHANGED refused
  ELSE refused' = TRUE /\ UNCHANGED <<phase, owned, listener>>

\* assert_invariants
CoreHolds ==
  /\ owned <=> phase \in {"running", "settling"}
  /\ phase = "dead" => listener = "closed"
=============================================================================
