--------------------------- MODULE HeartbeatWatch ---------------------------
(***************************************************************************)
(* pool.py: monitor_heartbeats probes the marker that the child in a slot  *)
(* writes (touch_beat), and kills a child whose marker stopped changing.   *)
(* Every slot has a watch of its own; this is one of them, with the        *)
(* children that are in the slot one after the other.                      *)
(*                                                                         *)
(* Time is kept as ages, which grow together and stop growing just above   *)
(* Timeout: nothing asks how much older they are.                          *)
(***************************************************************************)
EXTENDS Naturals

CONSTANTS
  Timeout,       \* max(beat_rate * HEARTBEAT_MISSES, HEARTBEAT_MIN_TIMEOUT)
  MaxHeld        \* bound: how often the parent is held up

ASSUME HeartbeatAssumption == Timeout \in Nat \ {0} /\ MaxHeld \in Nat

VARIABLES
  hung,        \* the event loop of the child does not run
  why,         \* Slot.fault_kind: why the monitor killed the child, if it did
  probed,      \* HeartbeatWatch.checked_at is set
  since,       \* now - checked_at
  fresh,       \* the child's marker is another one than HeartbeatWatch.marker
  unchanged,   \* now - unchanged_since
  silent,      \* history: the time since the child wrote its marker
  watched,     \* history: the time since the first probe, or since the parent was held up
  held

ages == <<since, unchanged, silent, watched>>
heartVars == <<hung, why, probed, fresh, ages, held>>

Ages == 0..(Timeout + 1)
Older(age) == IF age > Timeout THEN age ELSE age + 1

\* A new Slot, and its child.
NewChild ==
  /\ hung' = FALSE /\ why' = "none" /\ probed' = FALSE /\ fresh' = TRUE
  /\ unchanged' = 0 /\ silent' = 0 /\ watched' = 0

HeartInit ==
  /\ hung = FALSE /\ why = "none" /\ probed = FALSE /\ fresh = TRUE
  /\ since = 0 /\ unchanged = 0 /\ silent = 0 /\ watched = 0 /\ held = 0

-----------------------------------------------------------------------------
(* Time and the child                                                        *)

\* The monitor is not held up: it probes before Timeout is over.
Tick ==
  /\ since < Timeout
  /\ since' = since + 1
  /\ unchanged' = Older(unchanged) /\ silent' = Older(silent) /\ watched' = Older(watched)
  /\ UNCHANGED <<hung, why, probed, fresh, held>>

\* The parent, or the machine, is held up for longer than Timeout.
HeldUp ==
  /\ held < MaxHeld /\ held' = held + 1
  /\ since' = Timeout + 1 /\ unchanged' = Timeout + 1 /\ silent' = Timeout + 1
  /\ watched' = 0
  /\ UNCHANGED <<hung, why, probed, fresh>>

Alive == why = "none"

\* touch_beat
Beat ==
  /\ Alive /\ ~hung
  /\ fresh' = TRUE /\ silent' = 0
  /\ UNCHANGED <<hung, why, probed, since, unchanged, watched, held>>

\* A function blocks the event loop of the child, and may let it go again.
Hangs ==
  /\ Alive /\ ~hung /\ hung' = TRUE
  /\ UNCHANGED <<why, probed, fresh, ages, held>>

GoesOn ==
  /\ Alive /\ hung /\ hung' = FALSE
  /\ UNCHANGED <<why, probed, fresh, ages, held>>

\* The end of the child is read, and the slot is filled again.
Crashes == Alive /\ NewChild /\ UNCHANGED <<since, held>>
DiesOfKill == ~Alive /\ NewChild /\ UNCHANGED <<since, held>>

-----------------------------------------------------------------------------
(* monitor_heartbeats and HeartbeatWatch.observe                             *)

\* first_observation, or observer_paused
StartsOver == ~probed \/ since > Timeout

\* Mutant of Renewed: a parent that was held up goes on counting.
RenewedDespitePause(unread) == ~probed \/ (fresh /\ ~unread)

\* Mutant of Renewed: a marker that changed does not start the count again.
RenewedOnlyAtStart(unread) == StartsOver

\* Mutant of Renewed: whatever time went by counts as a pause.
RenewedAfterAnyTime(unread) == StartsOver \/ (fresh /\ ~unread) \/ since > 0

\* The count begins again.  A marker that cannot be read counts as the one
\* that the watch has.
Renewed(unread) == StartsOver \/ (fresh /\ ~unread)

Dead(unread) == ~Renewed(unread) /\ unchanged >= Timeout

FaultKind(unread) == IF unread THEN "read_error" ELSE "timeout"

Probe(unread) ==
  /\ unchanged' = IF Renewed(unread) \/ Dead(unread) THEN 0 ELSE unchanged
  /\ watched' = IF probed THEN watched ELSE 0
  /\ fresh' = (fresh /\ unread)
  /\ why' = IF Dead(unread) /\ Alive THEN FaultKind(unread) ELSE why
  /\ probed' = TRUE /\ since' = 0
  /\ UNCHANGED <<hung, silent, held>>

HeartStay == Tick \/ HeldUp \/ Beat \/ Hangs \/ GoesOn \/ \E unread \in BOOLEAN : Probe(unread)
HeartEnds == Crashes \/ DiesOfKill
HeartNext == HeartStay \/ HeartEnds
HeartSpec == HeartInit /\ [][HeartNext]_heartVars

-----------------------------------------------------------------------------
(* Properties                                                                *)

\* The ages stay in their range, and a child that the monitor has not probed
\* was not killed by it.
HeartTypeOK ==
  /\ hung \in BOOLEAN /\ why \in {"none", "timeout", "read_error"}
  /\ probed \in BOOLEAN /\ fresh \in BOOLEAN
  /\ since \in Ages /\ unchanged \in Ages /\ silent \in Ages /\ watched \in Ages
  /\ held \in Nat
  /\ ~probed => why = "none"

\* A child is killed for its silence only if it has written nothing for Timeout.
\* (HeartbeatWatch.observe and the marker it keeps.)
KillsOnlySilent == [][why = "none" /\ why' = "timeout" => silent >= Timeout]_heartVars

\* Whatever the reason, a child is killed only after the monitor has watched it
\* for Timeout without having been held up: the parent's own delay is not taken
\* for the child's.  ("Kill a skeleton only after timely probes.")
KillsOnlyWatched == [][why = "none" /\ why' # "none" => watched >= Timeout]_heartVars

\* A child whose loop hangs does not stay in its slot.
HungIsReplaced == hung ~> ~hung
=============================================================================
