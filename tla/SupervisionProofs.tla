------------------------- MODULE SupervisionProofs -------------------------
(***************************************************************************)
(* Proofs about Supervision, for every timeout, number of slots, rounds,   *)
(* and generations: the heartbeat watch kills only a child that is silent  *)
(* and was watched in time, and the circuit opens only when it is earned.  *)
(***************************************************************************)
EXTENDS Supervision, FiniteSetTheorems, TLAPS

-----------------------------------------------------------------------------
(* The inductive invariants                                                  *)

\* A marker that did not change since the last probe was not written since the
\* count began; and unless the parent was held up, the count does not run longer
\* than the monitor has watched.
HeartInv ==
  /\ HeartTypeOK
  /\ probed /\ ~fresh => unchanged <= silent
  /\ probed /\ since <= Timeout => unchanged <= watched

\* Generations are handed out once.
MembersInv ==
  /\ \A s \in Slots : gen[s] < nextGen
  /\ \A s, t \in Slots : gen[s] = gen[t] /\ gen[s] # 0 => s = t

\* While the circuit is closed, the reports cover the full rounds and the one
\* under way, and every skeleton in that one has reported.
CountInv ==
  /\ faulty \subseteq reporters
  /\ circuit = "closed" => round < Rounds
  /\ circuit = "closed" => Target * round + Cardinality(faulty) <= reports

CircuitInv ==
  CircuitTypeOK /\ MembersInv /\ CountInv /\ CircuitEarned /\ CircuitNotByOne

IInv == HeartInv /\ CircuitInv

-----------------------------------------------------------------------------
(* The heartbeat watch                                                       *)

\* The initial state of the watch satisfies its invariant.
LEMMA HeartInitInv == HeartInit => HeartInv
<1> SUFFICES ASSUME HeartInit PROVE HeartInv
  OBVIOUS
<1>1. 0 \in Ages /\ 0 \in Nat
  BY HeartbeatAssumption DEF Ages
<1>2. HeartTypeOK
  BY <1>1 DEF HeartInit, HeartTypeOK
<1>3. ~probed
  BY DEF HeartInit
<1> QED BY <1>2, <1>3 DEF HeartInv

\* Ages grow together and stay in their range.
LEMMA OlderAges ==
  /\ \A a \in Ages : Older(a) \in Ages
  /\ \A a, b \in Ages : a <= b => Older(a) <= Older(b)
BY HeartbeatAssumption DEF Ages, Older

\* Probe preserves the invariant, and kills only a child that stopped.
LEMMA ProbeStep ==
  ASSUME HeartInv, NEW unread \in BOOLEAN, Probe(unread)
  PROVE  /\ HeartInv'
         /\ why = "none" /\ why' = "timeout" => silent >= Timeout
         /\ why = "none" /\ why' # "none" => watched >= Timeout
<1> USE HeartbeatAssumption DEF HeartInv, HeartTypeOK, Ages
<1>1. CASE Renewed(unread)
  <2>1. unchanged' = 0 /\ why' = why /\ probed' = TRUE /\ since' = 0
    BY <1>1 DEF Probe, Dead
  <2>2. HeartTypeOK'
    BY <2>1 DEF Probe
  <2> QED BY <2>1, <2>2 DEF Probe
<1>2. CASE ~Renewed(unread)
  <2>1. probed /\ since <= Timeout /\ (unread \/ ~fresh)
    BY <1>2 DEF Renewed, StartsOver
  <2>2. watched' = watched /\ silent' = silent /\ fresh' = (fresh /\ unread) /\ probed' = TRUE
    BY <2>1 DEF Probe
  <2>3. unchanged' = IF unchanged >= Timeout THEN 0 ELSE unchanged
    BY <1>2 DEF Probe, Dead
  <2>4. HeartTypeOK'
    BY <1>2, <2>2, <2>3 DEF Probe, Dead, Alive, FaultKind
  <2>5. (probed /\ ~fresh => unchanged <= silent)'
    BY <2>1, <2>2, <2>3
  <2>6. (probed /\ since <= Timeout => unchanged <= watched)'
    BY <2>1, <2>2, <2>3
  <2>7. ASSUME why = "none", why' # "none" PROVE unchanged >= Timeout /\ why' = FaultKind(unread)
    BY <2>7 DEF Probe, Dead
  <2>8. why = "none" /\ why' = "timeout" => silent >= Timeout
    BY <2>1, <2>7 DEF FaultKind
  <2>9. why = "none" /\ why' # "none" => watched >= Timeout
    BY <2>1, <2>7
  <2> QED BY <2>4, <2>5, <2>6, <2>8, <2>9
<1> QED BY <1>1, <1>2

\* Only Probe gives a reason to kill; every other step keeps the invariant.
LEMMA OtherHeartSteps ==
  ASSUME HeartInv,
         Tick \/ HeldUp \/ Beat \/ Hangs \/ GoesOn \/ HeartEnds \/ UNCHANGED heartVars
  PROVE  HeartInv' /\ (why' = why \/ why' = "none")
<1> USE HeartbeatAssumption DEF HeartInv, HeartTypeOK
<1>1. CASE Tick
  <2>1. since' \in Ages
    BY <1>1 DEF Tick, Ages
  <2>2. since <= Timeout
    BY <1>1 DEF Tick, Ages
  <2> QED BY <1>1, <2>1, <2>2, OlderAges DEF Tick
<1>2. CASE HeldUp
  <2>1. Timeout + 1 \in Ages /\ 0 \in Ages /\ ~(Timeout + 1 <= Timeout) /\ held + 1 \in Nat
    BY DEF Ages
  <2> QED BY <1>2, <2>1 DEF HeldUp
<1>3. CASE Beat
  BY <1>3 DEF Beat, Ages, Alive
<1>4. CASE Hangs
  BY <1>4 DEF Hangs, ages, Alive
<1>5. CASE GoesOn
  BY <1>5 DEF GoesOn, ages, Alive
<1>6. CASE HeartEnds
  <2>1. 0 \in Ages
    BY DEF Ages
  <2>2. /\ hung' = FALSE /\ why' = "none" /\ probed' = FALSE /\ fresh' = TRUE
        /\ unchanged' = 0 /\ silent' = 0 /\ watched' = 0 /\ since' = since /\ held' = held
    BY <1>6 DEF HeartEnds, Crashes, DiesOfKill, NewChild
  <2>3. HeartTypeOK'
    BY <2>1, <2>2
  <2>4. ~probed'
    BY <2>2
  <2> QED BY <2>2, <2>3, <2>4
<1>7. CASE UNCHANGED heartVars
  BY <1>7 DEF heartVars, ages
<1> QED BY <1>1, <1>2, <1>3, <1>4, <1>5, <1>6, <1>7

\* Every step of the watch keeps its invariant, and kills only a child that has
\* been silent, and watched, for Timeout.
LEMMA HeartStep ==
  ASSUME HeartInv, [HeartNext]_heartVars
  PROVE  /\ HeartInv'
         /\ why = "none" /\ why' = "timeout" => silent >= Timeout
         /\ why = "none" /\ why' # "none" => watched >= Timeout
<1>1. CASE \E unread \in BOOLEAN : Probe(unread)
  BY <1>1, ProbeStep
<1>2. CASE ~\E unread \in BOOLEAN : Probe(unread)
  <2>1. Tick \/ HeldUp \/ Beat \/ Hangs \/ GoesOn \/ HeartEnds \/ UNCHANGED heartVars
    BY <1>2 DEF HeartNext, HeartStay
  <2> QED BY <2>1, OtherHeartSteps
<1> QED BY <1>1, <1>2

-----------------------------------------------------------------------------
(* The fault circuit                                                         *)

\* A round more than a product below another one fits below it.
LEMMA Products ==
  ASSUME NEW a \in Nat, NEW b \in Nat, NEW c \in Nat, b < c
  PROVE  /\ a * b \in Nat /\ a * c \in Nat
         /\ a * (b + 1) = a * b + a
         /\ a * b + a <= a * c
<1> DEFINE d == c - (b + 1)
<1>1. d \in Nat /\ c = (b + 1) + d
  OBVIOUS
<1>2. a * d \in Nat /\ a * b \in Nat /\ a * c \in Nat
  BY <1>1
<1>3. a * (b + 1) = a * b + a
  OBVIOUS
<1>4. a * c = a * (b + 1) + a * d
  BY <1>1
<1> QED BY <1>2, <1>3, <1>4

\* Sets of generations are finite.
LEMMA GensFinite ==
  \A S \in SUBSET Gens : IsFiniteSet(S) /\ Cardinality(S) \in Nat
<1>1. IsFiniteSet(Gens)
  BY CircuitAssumption, FS_Interval DEF Gens
<1> QED BY <1>1, FS_Subset, FS_CardinalityType

\* The initial state of the circuit satisfies its invariant.
LEMMA CircuitInitInv == CircuitInit => CircuitInv
<1> SUFFICES ASSUME CircuitInit PROVE CircuitInv
  OBVIOUS
<1> USE CircuitAssumption DEF CircuitInit
<1>1. CircuitTypeOK
  BY FS_EmptySet DEF CircuitTypeOK, Slots, Gens
<1>2. MembersInv
  BY DEF MembersInv, Slots
<1>3. CountInv
  BY FS_EmptySet DEF CountInv
<1> QED BY <1>1, <1>2, <1>3 DEF CircuitInv, CircuitEarned, CircuitNotByOne

\* What a report adds to the round under way, and to the history.
LEMMA ReportCounts ==
  ASSUME CircuitInv, NEW g \in Gens, NEW sig \in Signatures, Fault(g, sig)
  PROVE  /\ FaultyWith(g, sig) \subseteq Gens /\ FaultyWith(g, sig) \subseteq reporters'
         /\ reporters' \subseteq Gens /\ reports' \in Nat
         /\ RoundBefore(sig) \in Nat /\ RoundBefore(sig) < Rounds
         /\ Target * RoundBefore(sig) + Cardinality(FaultyWith(g, sig)) <= reports'
<1> USE CircuitAssumption
<1>0. circuit = "closed" /\ reports \in Nat /\ faulty \subseteq Gens /\ reporters \subseteq Gens
  BY DEF Fault, Talks, CircuitInv, CircuitTypeOK
<1>1. CASE sig = signature
  <2>1. round \in Nat /\ round < Rounds /\ RoundBefore(sig) = round
    BY <1>0, <1>1 DEF CircuitInv, CircuitTypeOK, CountInv, RoundBefore
  <2>2. FaultyWith(g, sig) = faulty \cup {g} /\ reporters' = reporters \cup {g}
    BY <1>1 DEF Fault, FaultyWith
  <2>3. faulty \subseteq reporters
    BY DEF CircuitInv, CountInv
  <2>4. Cardinality(faulty) \in Nat /\ Cardinality(faulty) < Target
        /\ Cardinality(FaultyWith(g, sig)) \in Nat
        /\ Cardinality(FaultyWith(g, sig)) <= Cardinality(faulty) + 1
    <3>1. IsFiniteSet(faulty) /\ Cardinality(faulty) \in Nat
      BY <1>0, GensFinite
    <3>2. Cardinality(faulty \cup {g}) =
            IF g \in faulty THEN Cardinality(faulty) ELSE Cardinality(faulty) + 1
      BY <3>1, FS_AddElement
    <3>3. Cardinality(faulty) < Target
      BY DEF CircuitInv, CircuitTypeOK
    <3> QED BY <2>2, <3>1, <3>2, <3>3
  <2>5. Target * round + Cardinality(faulty) <= reports
    BY <1>0 DEF CircuitInv, CountInv
  <2>6. Target * round \in Nat /\ Target * Rounds \in Nat
        /\ Target * round + Target <= Target * Rounds
    BY <2>1, Products
  <2>7. reports' = IF reports < Target * Rounds THEN reports + 1 ELSE reports
    BY <1>1 DEF Fault, OneMore
  <2>8. reports' \in Nat /\ Target * round + Cardinality(faulty) + 1 <= reports'
    BY <1>0, <2>4, <2>5, <2>6, <2>7
  <2>9. Target * round + Cardinality(FaultyWith(g, sig)) <= reports'
    BY <2>4, <2>6, <2>8
  <2> QED BY <1>0, <2>1, <2>2, <2>3, <2>8, <2>9
<1>2. CASE sig # signature
  <2>1. RoundBefore(sig) = 0 /\ FaultyWith(g, sig) = {g} /\ reporters' = {g} /\ reports' = 1
    BY <1>2 DEF Fault, RoundBefore, FaultyWith
  <2>2. Cardinality({g}) = 1 /\ Target * 0 = 0
    BY FS_Singleton
  <2> QED BY <2>1, <2>2
<1> QED BY <1>1, <1>2

\* A report keeps the invariant: it fills a round, opens the circuit with the
\* last one, or adds to the round under way.
LEMMA FaultStep ==
  ASSUME CircuitInv, NEW g \in Gens, NEW sig \in Signatures, Fault(g, sig)
  PROVE  CircuitInv'
<1> USE CircuitAssumption
<1> DEFINE F == FaultyWith(g, sig)
           r == RoundBefore(sig)
<1>1. /\ F \subseteq Gens /\ F \subseteq reporters'
      /\ reporters' \subseteq Gens /\ reports' \in Nat
      /\ r \in Nat /\ r < Rounds /\ Target * r + Cardinality(F) <= reports'
  BY ReportCounts
<1>2. Cardinality(F) \in Nat /\ IsFiniteSet(reporters')
  BY <1>1, GensFinite
<1>3. gen' = gen /\ nextGen' = nextGen /\ signature' = sig
  BY DEF Fault, members
<1>4. MembersInv'
  BY <1>3 DEF CircuitInv, MembersInv
<1>5. CASE FullRound(F)
  <2>1. faulty' = {} /\ round' = r + 1 /\ circuit' = IF r + 1 >= Rounds THEN "rounds" ELSE "closed"
    BY <1>5 DEF Fault, LeftFaulty, RoundAfter
  <2>2. Cardinality(F) >= Target
    BY <1>5 DEF FullRound
  <2>3. Target * r \in Nat /\ Target * (r + 1) = Target * r + Target
    BY <1>1, Products
  <2>4. Target * (r + 1) <= reports'
    BY <1>1, <1>2, <2>2, <2>3
  <2>5. Cardinality(F) <= Cardinality(reporters') /\ Cardinality(reporters') \in Nat
    BY <1>1, <1>2, FS_Subset, GensFinite
  <2>6. CircuitTypeOK'
    BY <1>1, <1>3, <2>1, FS_EmptySet DEF CircuitInv, CircuitTypeOK
  <2>7. CountInv'
    BY <1>1, <2>1, <2>3, <2>4, FS_EmptySet DEF CountInv
  <2>8. CircuitEarned'
    <3> SUFFICES ASSUME circuit' = "rounds" PROVE reports' >= Target * Rounds
      BY DEF CircuitEarned
    <3>1. r + 1 = Rounds
      BY <1>1, <2>1
    <3> QED BY <1>1, <2>3, <2>4, <3>1
  <2>9. CircuitNotByOne'
    BY <1>2, <2>2, <2>5 DEF CircuitNotByOne
  <2> QED BY <1>4, <2>6, <2>7, <2>8, <2>9 DEF CircuitInv
<1>6. CASE ~FullRound(F)
  <2>1. faulty' = F /\ round' = r /\ circuit' = "closed"
    BY <1>6 DEF Fault, LeftFaulty, RoundAfter
  <2>2. Cardinality(F) < Target
    BY <1>2, <1>6 DEF FullRound
  <2>3. CircuitTypeOK'
    BY <1>1, <1>3, <2>1, <2>2 DEF CircuitInv, CircuitTypeOK
  <2>4. CountInv'
    BY <1>1, <2>1 DEF CountInv
  <2> QED BY <1>4, <2>1, <2>3, <2>4 DEF CircuitInv, CircuitEarned, CircuitNotByOne
<1> QED BY <1>5, <1>6

\* The other messages, and the end of a skeleton, keep the invariant.
LEMMA OtherCircuitSteps ==
  ASSUME CircuitInv,
         \/ \E g \in Gens : Healthy(g) \/ PermanentFault(g)
         \/ \E s \in Slots : Refill(s)
         \/ UNCHANGED circuitVars
  PROVE  CircuitInv'
<1> USE CircuitAssumption
<1>1. CASE \E g \in Gens : Healthy(g)
  <2>1. PICK g \in Gens : Healthy(g)
    BY <1>1
  <2>2. gen' = gen /\ nextGen' = nextGen /\ circuit' = circuit /\ circuit = "closed"
    BY <2>1 DEF Healthy, members, Talks
  <2>3. signature' = NoSignature /\ faulty' = {} /\ round' = 0 /\ reporters' = {} /\ reports' = 0
    BY <2>1 DEF Healthy, ClearFaults
  <2>4. CircuitTypeOK'
    BY <2>2, <2>3, FS_EmptySet DEF CircuitInv, CircuitTypeOK
  <2>5. MembersInv'
    BY <2>2 DEF CircuitInv, MembersInv
  <2>6. CountInv'
    BY <2>2, <2>3, FS_EmptySet DEF CountInv
  <2> QED BY <2>2, <2>4, <2>5, <2>6 DEF CircuitInv, CircuitEarned, CircuitNotByOne
<1>2. CASE \E g \in Gens : PermanentFault(g)
  BY <1>2 DEF PermanentFault, members, count, CircuitInv, CircuitTypeOK, MembersInv, CountInv,
              CircuitEarned, CircuitNotByOne
<1>3. CASE \E s \in Slots : Refill(s)
  <2>1. PICK s \in Slots : Refill(s)
    BY <1>3
  <2>2. UNCHANGED <<count, circuit, reporters, reports>>
    BY <2>1 DEF Refill
  <2>3. gen \in [Slots -> Gens \cup {0}] /\ nextGen \in Nat \ {0} /\ MembersInv
    BY DEF CircuitInv, CircuitTypeOK
  <2>4. CASE nextGen \in Gens
    <3>1. gen' = [gen EXCEPT ![s] = nextGen] /\ nextGen' = nextGen + 1
      BY <2>1, <2>4 DEF Refill
    <3>2. MembersInv'
      BY <2>3, <3>1 DEF MembersInv, Gens
    <3> QED BY <2>2, <2>3, <2>4, <3>1, <3>2
            DEF count, CircuitInv, CircuitTypeOK, CountInv, CircuitEarned, CircuitNotByOne
  <2>5. CASE nextGen \notin Gens
    <3>1. gen' = [gen EXCEPT ![s] = 0] /\ nextGen' = nextGen
      BY <2>1, <2>5 DEF Refill
    <3>2. MembersInv'
      BY <2>3, <3>1 DEF MembersInv, Gens
    <3> QED BY <2>2, <2>3, <3>1, <3>2
            DEF count, CircuitInv, CircuitTypeOK, CountInv, CircuitEarned, CircuitNotByOne
  <2> QED BY <2>4, <2>5
<1>4. CASE UNCHANGED circuitVars
  BY <1>4 DEF circuitVars, members, count, CircuitInv, CircuitTypeOK, MembersInv, CountInv,
              CircuitEarned, CircuitNotByOne
<1> QED BY <1>1, <1>2, <1>3, <1>4

-----------------------------------------------------------------------------
(* The composition                                                           *)

\* Every step is a step or a stutter of each part.
LEMMA StepsOfParts ==
  ASSUME [Next]_vars
  PROVE  /\ [HeartNext]_heartVars
         /\ \/ \E g \in Gens : Message(g)
            \/ \E s \in Slots : Refill(s)
            \/ UNCHANGED circuitVars
<1>1. CASE Stays
  BY <1>1 DEF Stays, HeartNext
<1>2. CASE Ends
  BY <1>2, SupervisionAssumption DEF Ends, HeartNext
<1>3. CASE \E s \in Slots : OtherEnds(s)
  BY <1>3 DEF OtherEnds
<1>4. CASE \E g \in Gens : Says(g)
  BY <1>4 DEF Says
<1>5. CASE UNCHANGED vars
  BY <1>5 DEF vars
<1> QED BY <1>1, <1>2, <1>3, <1>4, <1>5 DEF Next

\* The invariants of the two parts hold in every reachable state of Supervision.
THEOREM Invariance == Spec => []IInv
<1>1. Init => IInv
  BY HeartInitInv, CircuitInitInv DEF Init, IInv
<1>2. IInv /\ [Next]_vars => IInv'
  <2> SUFFICES ASSUME HeartInv, CircuitInv, [Next]_vars PROVE HeartInv' /\ CircuitInv'
    BY DEF IInv
  <2>1. HeartInv'
    BY StepsOfParts, HeartStep
  <2>2. CASE \E g \in Gens : \E sig \in Signatures : Fault(g, sig)
    <3>1. PICK g \in Gens, sig \in Signatures : Fault(g, sig)
      BY <2>2
    <3> QED BY <2>1, <3>1, FaultStep
  <2>3. CASE \/ \E g \in Gens : Healthy(g) \/ PermanentFault(g)
             \/ \E s \in Slots : Refill(s)
             \/ UNCHANGED circuitVars
    BY <2>1, <2>3, OtherCircuitSteps
  <2> QED BY <2>2, <2>3, StepsOfParts DEF Message
<1> QED BY <1>1, <1>2, PTL DEF Spec

\* Types: the ages of the watch stay in their range, no round is left full, and
\* a skeleton is in one slot only.
THEOREM TypesCorrect == Spec => []TypeOK
<1>1. IInv => TypeOK
  BY DEF IInv, HeartInv, CircuitInv, MembersInv, TypeOK
<1> QED BY <1>1, Invariance, PTL

\* record_service_fault opens the circuit only for Target * Rounds faults of one
\* kind with no healthy skeleton in between.
THEOREM CircuitIsEarned == Spec => []CircuitEarned
<1>1. IInv => CircuitEarned
  BY DEF IInv, CircuitInv
<1> QED BY <1>1, Invariance, PTL

\* record_service_fault opens the circuit only if Target skeletons reported.
THEOREM CircuitIsNotByOne == Spec => []CircuitNotByOne
<1>1. IInv => CircuitNotByOne
  BY DEF IInv, CircuitInv
<1> QED BY <1>1, Invariance, PTL

\* monitor_heartbeats kills a child for its silence only after it has written
\* nothing for Timeout, however the probes, failed reads and pauses fall.
THEOREM OnlySilentKilled == Spec => KillsOnlySilent
<1>1. IInv /\ [Next]_vars
        => [why = "none" /\ why' = "timeout" => silent >= Timeout]_heartVars
  BY StepsOfParts, HeartStep DEF IInv
<1> QED BY <1>1, Invariance, PTL DEF Spec, KillsOnlySilent

\* monitor_heartbeats kills a child only after timely probes for Timeout.
THEOREM OnlyWatchedKilled == Spec => KillsOnlyWatched
<1>1. IInv /\ [Next]_vars
        => [why = "none" /\ why' # "none" => watched >= Timeout]_heartVars
  BY StepsOfParts, HeartStep DEF IInv
<1> QED BY <1>1, Invariance, PTL DEF Spec, KillsOnlyWatched
=============================================================================
