---------------------------- MODULE Supervision ----------------------------
(***************************************************************************)
(* pool.py: what the parent makes of the signs of life of its skeletons,   *)
(* HeartbeatWatch and FaultCircuit.  The slot Watched is the one whose     *)
(* heartbeat is followed; the skeletons in the other slots may be lost at  *)
(* any time.                                                               *)
(***************************************************************************)
EXTENDS HeartbeatWatch, FaultCircuit

CONSTANT Watched

ASSUME SupervisionAssumption == Watched \in Slots

vars == <<heartVars, circuitVars>>

Init == HeartInit /\ CircuitInit

\* A child whose event loop hangs, or that was killed, says nothing.
Heard(g) == g = gen[Watched] => Alive /\ ~hung

\* There is a child to watch until the generations are used up.
Stays == gen[Watched] # 0 /\ HeartStay /\ UNCHANGED circuitVars
Ends == gen[Watched] # 0 /\ HeartEnds /\ Refill(Watched)
OtherEnds(s) == s # Watched /\ gen[s] # 0 /\ Refill(s) /\ UNCHANGED heartVars
Says(g) == Heard(g) /\ Message(g) /\ UNCHANGED heartVars

Next == Stays \/ Ends \/ (\E s \in Slots : OtherEnds(s)) \/ \E g \in Gens : Says(g)

\* Time goes on, the monitor runs every beat_rate, and a process that is killed ends.
Fairness ==
  /\ WF_vars(Tick /\ Stays)
  /\ WF_vars((\E unread \in BOOLEAN : Probe(unread)) /\ Stays)
  /\ WF_vars(DiesOfKill /\ Ends)

Spec == Init /\ [][Next]_vars
FairSpec == Spec /\ Fairness

-----------------------------------------------------------------------------
\* The parts keep their types, and a skeleton is in one slot only.
TypeOK ==
  /\ HeartTypeOK /\ CircuitTypeOK
  /\ \A s, t \in Slots : gen[s] = gen[t] /\ gen[s] # 0 => s = t
=============================================================================
