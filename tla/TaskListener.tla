---------------------------- MODULE TaskListener ----------------------------
(***************************************************************************)
(* postgres.py: PostgresListener, the dedicated connection of a worker     *)
(* that LISTENs on the channel of its topic, with the tasks of that topic  *)
(* as they appear to this worker.                                          *)
(*                                                                         *)
(* PostgreSQL and the network are external: a notification is sent to the  *)
(* sessions that listen when a transaction commits, and dies with its      *)
(* session.  The rates for probes and recycling, and the fallback, only    *)
(* decide when something happens: each may happen at any time.             *)
(***************************************************************************)
EXTENDS FiniteSets

CONSTANTS
  Tasks       \* the tasks of the topic

VARIABLES
  session,    \* the connection: none, open, lost (unnoticed) or closed by the peer
  sent,       \* whether a notification is on its way to the session
  notified,   \* PostgresListener.notified
  ready,      \* the tasks CLAIM would find
  quiet       \* of these, the ones no notification was sent for

wire == <<session, sent, notified>>
topic == <<ready, quiet>>
listening == <<session, sent, notified, ready, quiet>>

ListenerInit ==
  /\ session = "none" /\ sent = FALSE /\ notified = FALSE
  /\ ready = {} /\ quiet = {}

-----------------------------------------------------------------------------
(* The other sessions, PostgreSQL and the network                            *)

\* A transaction that makes a task ready commits, and notifies the channel.
Arrives(t) ==
  /\ t \notin ready
  /\ ready' = ready \cup {t} /\ quiet' = quiet \ {t}
  /\ sent' = (sent \/ session = "open")
  /\ UNCHANGED <<session, notified>>

\* Another worker's claim was rolled back: nobody is notified.
GivenBack(t) ==
  /\ t \notin ready
  /\ ready' = ready \cup {t} /\ quiet' = quiet \cup {t}
  /\ UNCHANGED wire

\* receive, the callback of the connection
Receive ==
  /\ session = "open" /\ sent
  /\ sent' = FALSE /\ notified' = TRUE
  /\ UNCHANGED <<session, topic>>

\* The connection breaks; asyncpg notices at once, or not before a probe.
Breaks ==
  /\ session = "open"
  /\ session' \in {"lost", "closed"} /\ sent' = FALSE
  /\ UNCHANGED <<notified, topic>>

-----------------------------------------------------------------------------
(* PostgresListener                                                          *)

\* connect: another connection listens, and the one before is closed.
Connect == session' = "open" /\ sent' = FALSE

\* maintain: a connection that is known to be closed, that is old or that does
\* not answer a probe is replaced; in all other cases it is kept.
Maintain(recycles) ==
  IF recycles THEN Connect
  ELSE session \in {"open", "lost"} /\ UNCHANGED <<session, sent>>

\* listen
Listen == Connect /\ notified' = TRUE

\* arm: the event is cleared before the poll that follows.
Arm(recycles) == Maintain(recycles) /\ notified' = FALSE

\* Mutant of Wakes: only a notification ends the wait.
WakesIfNotified == notified

\* A notification, or it is time for the fallback, a probe or the recycling.
Wakes == TRUE

\* wait: connect sets the event.
Wait(recycles) == Wakes /\ Maintain(recycles) /\ notified' = (notified \/ recycles)

\* close
Close == session' = "none" /\ sent' = FALSE /\ UNCHANGED notified
=============================================================================
