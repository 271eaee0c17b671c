---------------------------- MODULE FaultCircuit ----------------------------
(***************************************************************************)
(* pool.py: record_service_fault counts the faults that the services of a  *)
(* pool report, in rounds of one fault from each of Target skeletons, and  *)
(* opens the circuit; clear_service_faults forgets them when any skeleton  *)
(* is healthy.  A fault that is transient changes nothing here.            *)
(***************************************************************************)
EXTENDS Naturals, FiniteSets

CONSTANTS
  Target,        \* the slots of the pool
  MaxGen,        \* bound: the last generation
  Rounds,        \* service_failure_rounds
  Signatures,    \* service faults that are neither permanent nor transient
  NoSignature

ASSUME CircuitAssumption ==
  /\ Target \in Nat \ {0} /\ MaxGen \in Nat /\ Target <= MaxGen
  /\ Rounds \in Nat \ {0} /\ NoSignature \notin Signatures

Slots == 1..Target
Gens == 1..MaxGen

VARIABLES
  gen,         \* the generation of the skeleton in each slot, 0: not filled again
  nextGen,
  signature,   \* service_fault
  faulty,      \* service_fault_slots, which holds generations
  round,       \* service_fault_round
  circuit,     \* closed, or the reason open_circuit was called for
  reporters,   \* history: who reported the signature since the count was cleared
  reports      \* history: how often

members == <<gen, nextGen>>
count == <<signature, faulty, round>>
circuitVars == <<members, count, circuit, reporters, reports>>

CircuitInit ==
  /\ gen = [s \in Slots |-> s] /\ nextGen = Target + 1
  /\ signature = NoSignature /\ faulty = {} /\ round = 0 /\ circuit = "closed"
  /\ reporters = {} /\ reports = 0

\* lose and the start that follows: the next generation takes the slot.
Refill(s) ==
  /\ gen' = [gen EXCEPT ![s] = IF nextGen \in Gens THEN nextGen ELSE 0]
  /\ nextGen' = IF nextGen \in Gens THEN nextGen + 1 ELSE nextGen
  /\ UNCHANGED <<count, circuit, reporters, reports>>

\* open_circuit sets failure_event, which ends the pool.
Talks(g) == circuit = "closed" /\ \E s \in Slots : gen[s] = g

-----------------------------------------------------------------------------
(* read_slot: READY, HEALTHY and SERVICE_FAULT                               *)

\* clear_service_faults
ClearFaults == signature' = NoSignature /\ faulty' = {} /\ round' = 0

\* A service tells that it is ready, or healthy again.
Healthy(g) ==
  /\ Talks(g)
  /\ ClearFaults
  /\ reporters' = {} /\ reports' = 0
  /\ UNCHANGED <<members, circuit>>

\* Mutant of FullRound: every report is a round.
FullRoundEach(reporting) == TRUE

FullRound(reporting) == Cardinality(reporting) >= Target

LeftFaulty(reporting) == IF FullRound(reporting) THEN {} ELSE reporting

\* Mutant of RoundBefore: the rounds survive a fault of another kind.
RoundBeforeKept(sig) == round

\* The reports that count for a fault of this signature.
RoundBefore(sig) == IF sig = signature THEN round ELSE 0
FaultyWith(g, sig) == IF sig = signature THEN faulty \cup {g} ELSE {g}
RoundAfter(g, sig) ==
  IF FullRound(FaultyWith(g, sig)) THEN RoundBefore(sig) + 1 ELSE RoundBefore(sig)

\* More than Target * Rounds reports are not told apart.
OneMore(n) == IF n < Target * Rounds THEN n + 1 ELSE n

\* record_service_fault, for a fault that is neither permanent nor transient
Fault(g, sig) ==
  /\ Talks(g)
  /\ signature' = sig
  /\ faulty' = LeftFaulty(FaultyWith(g, sig))
  /\ round' = RoundAfter(g, sig)
  /\ circuit' = IF FullRound(FaultyWith(g, sig)) /\ RoundAfter(g, sig) >= Rounds
                THEN "rounds" ELSE "closed"
  /\ reporters' = IF sig = signature THEN reporters \cup {g} ELSE {g}
  /\ reports' = IF sig = signature THEN OneMore(reports) ELSE 1
  /\ UNCHANGED members

PermanentFault(g) ==
  /\ Talks(g)
  /\ circuit' = "permanent"
  /\ UNCHANGED <<members, count, reporters, reports>>

Message(g) == Healthy(g) \/ PermanentFault(g) \/ \E sig \in Signatures : Fault(g, sig)

CircuitNext == \E g \in Gens : Message(g) \/ \E s \in Slots : Refill(s)

-----------------------------------------------------------------------------
(* Properties                                                                *)

\* The state variables keep their types, and a round is never left full.
CircuitTypeOK ==
  /\ gen \in [Slots -> Gens \cup {0}] /\ nextGen \in Nat \ {0}
  /\ signature \in Signatures \cup {NoSignature} /\ faulty \subseteq Gens /\ round \in Nat
  /\ circuit \in {"closed", "rounds", "permanent"}
  /\ reporters \subseteq Gens /\ reports \in Nat
  /\ Cardinality(faulty) < Target

\* Faults that are not permanent open the circuit only after as many reports of one
\* kind as Rounds rounds of the whole pool have, with no skeleton healthy in between.
\* (record_service_fault, clear_service_faults.)
CircuitEarned == circuit = "rounds" => reports >= Target * Rounds

\* One skeleton alone does not stop a pool of several.
CircuitNotByOne == circuit = "rounds" => Cardinality(reporters) >= Target
=============================================================================
