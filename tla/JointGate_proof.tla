-------------------------- MODULE JointGate_proof --------------------------
(***************************************************************************)
(* Proofs about JointGate for every set of devices, every warm-up, healthy *)
(* window and timeout, and every bound on the timestamps.                  *)
(***************************************************************************)
EXTENDS JointGate, TLAPS

(* What Learned does to each attribute.                                     *)
LEMMA LearnedAttributes ==
    ASSUME NEW g \in Gate, NEW d \in Devices, NEW at \in Int, NEW health \in Health
    PROVE  LET h == Learned(g, d, at, health) IN
           /\ h \in Gate
           /\ h.warmup = g.warmup
           /\ h.requestedAt = g.requestedAt
           /\ h.taskStart = g.taskStart
           /\ h.lastAt = [g.lastAt EXCEPT ![d] = at]
           /\ h.latest = [g.latest EXCEPT ![d] = health]
           /\ h.firstAt = [g.firstAt EXCEPT ![d] = IF @ = None THEN at ELSE @]
           /\ h.healthySince = [g.healthySince EXCEPT ![d] =
                  IF health = "unhealthy" THEN None ELSE IF @ = None THEN at ELSE @]
           /\ h.state = IF g.state = "COLD" THEN "WARMING"
                        ELSE IF g.state = "JOINT_READY" /\ health = "unhealthy" THEN "WARMING"
                        ELSE g.state
  BY GateAssumption DEF Learned, Gate, GateStates, Health

(* It never makes a gate ready.                                             *)
LEMMA LearnedNotReady ==
    ASSUME NEW g \in Gate, NEW d \in Devices, NEW at \in Int, NEW health \in Health
    PROVE  /\ Learned(g, d, at, health) \in Gate
           /\ Learned(g, d, at, health).state = "JOINT_READY" => g.state = "JOINT_READY"
  BY GateAssumption DEF Learned, Gate, GateStates, Health

(* Advanced changes the state only, and from WARMING only.                  *)
LEMMA AdvancedAttributes ==
    ASSUME NEW g \in Gate, NEW at \in Int
    PROVE  LET h == Advanced(g, at) IN
           /\ h \in Gate
           /\ h.warmup = g.warmup
           /\ h.requestedAt = g.requestedAt
           /\ h.taskStart = g.taskStart
           /\ h.lastAt = g.lastAt
           /\ h.latest = g.latest
           /\ h.firstAt = g.firstAt
           /\ h.healthySince = g.healthySince
           /\ \/ h.state = g.state
              \/ g.state = "WARMING" /\ h.state = "BLOCKED"
              \/ /\ g.state = "WARMING" /\ h.state = "JOINT_READY"
                 /\ ~Expired(g, at) /\ Ready(g, at)
  BY DEF Advanced, Gate, GateStates, Health

(* The order in which one device's timestamps can stand, and the agreement  *)
(* of the gate with what the devices reported.                              *)
Chronology ==
    /\ gate.warmup = WARMUP_NS
    /\ firstReport = gate.firstAt
    /\ \A d \in Devices :
          /\ gate.firstAt[d] # None => gate.firstAt[d] <= gate.lastAt[d]
          /\ gate.healthySince[d] # None =>
                /\ gate.firstAt[d] <= gate.healthySince[d]
                /\ gate.healthySince[d] <= gate.lastAt[d]
          /\ lastUnhealthy[d] # None =>
                /\ gate.firstAt[d] # None
                /\ lastUnhealthy[d] <= gate.lastAt[d]
                /\ gate.healthySince[d] # None =>
                      lastUnhealthy[d] <= gate.healthySince[d]

Anchored == gate.taskStart # None =>
                gate.state = "RECORDING" /\ gate.taskStart >= gate.requestedAt

Inv == TypeOK /\ Chronology /\ ReadyMeansHealthy /\ Anchored

LEMMA InitInv == Init => Inv
  BY GateAssumption, JointGateAssumption
  DEF Init, Inv, TypeOK, WellFormed, Chronology, ReadyMeansHealthy, Anchored, NewGate,
      Gate, GateStates, Health

LEMMA ObserveInv ==
    ASSUME Inv, NEW d \in Devices, NEW at \in Times, NEW health \in Health,
           Observe(d, at, health)
    PROVE  Inv'
<1> DEFINE h == Learned(gate, d, at, health)
<1>1. at \in Int /\ gate \in Gate
  BY JointGateAssumption DEF Times, Inv, TypeOK
<1>2. /\ h \in Gate
      /\ h.warmup = gate.warmup
      /\ h.requestedAt = gate.requestedAt
      /\ h.taskStart = gate.taskStart
      /\ h.lastAt = [gate.lastAt EXCEPT ![d] = at]
      /\ h.latest = [gate.latest EXCEPT ![d] = health]
      /\ h.firstAt = [gate.firstAt EXCEPT ![d] = IF @ = None THEN at ELSE @]
      /\ h.healthySince = [gate.healthySince EXCEPT ![d] =
             IF health = "unhealthy" THEN None ELSE IF @ = None THEN at ELSE @]
      /\ h.state = IF gate.state = "COLD" THEN "WARMING"
                   ELSE IF gate.state = "JOINT_READY" /\ health = "unhealthy" THEN "WARMING"
                   ELSE gate.state
  BY <1>1, LearnedAttributes
<1> HIDE DEF h
<1>3. /\ gate' \in Gate
      /\ gate'.warmup = h.warmup
      /\ gate'.requestedAt = h.requestedAt
      /\ gate'.taskStart = h.taskStart
      /\ gate'.lastAt = h.lastAt
      /\ gate'.latest = h.latest
      /\ gate'.firstAt = h.firstAt
      /\ gate'.healthySince = h.healthySince
      /\ \/ gate'.state = h.state
         \/ h.state = "WARMING" /\ gate'.state = "BLOCKED"
         \/ h.state = "WARMING" /\ gate'.state = "JOINT_READY" /\ Ready(h, at)
  BY <1>1, <1>2, AdvancedAttributes DEF Observe, Observed, h
<1>4. TypeOK'
  BY <1>1, <1>2, <1>3, GateAssumption
  DEF Inv, TypeOK, WellFormed, Observe, Gate, GateStates, Health
<1>5. Chronology'
  <2>1. gate'.warmup = WARMUP_NS
    BY <1>2, <1>3 DEF Inv, Chronology
  <2>2. firstReport' = gate'.firstAt
    BY <1>2, <1>3 DEF Inv, Chronology, Observe
  <2>3. ASSUME NEW e \in Devices
        PROVE  /\ gate'.firstAt[e] # None => gate'.firstAt[e] <= gate'.lastAt[e]
               /\ gate'.healthySince[e] # None =>
                     /\ gate'.firstAt[e] <= gate'.healthySince[e]
                     /\ gate'.healthySince[e] <= gate'.lastAt[e]
               /\ lastUnhealthy'[e] # None =>
                     /\ gate'.firstAt[e] # None
                     /\ lastUnhealthy'[e] <= gate'.lastAt[e]
                     /\ gate'.healthySince[e] # None =>
                           lastUnhealthy'[e] <= gate'.healthySince[e]
    <3>1. CASE e = d
      BY <1>1, <1>2, <1>3, <3>1, GateAssumption
      DEF Inv, TypeOK, WellFormed, Chronology, Observe, Regresses, Gate, Health
    <3>2. CASE e # d
      BY <1>1, <1>2, <1>3, <3>2 DEF Inv, TypeOK, Chronology, Observe, Gate
    <3> QED BY <3>1, <3>2
  <2> QED BY <2>1, <2>2, <2>3 DEF Chronology
<1>6. ReadyMeansHealthy'
  BY <1>1, <1>2, <1>3, GateAssumption
  DEF Inv, TypeOK, ReadyMeansHealthy, Ready, Gate, GateStates, Health
<1>7. Anchored'
  BY <1>1, <1>2, <1>3 DEF Inv, TypeOK, WellFormed, Anchored, Gate
<1> QED BY <1>4, <1>5, <1>6, <1>7 DEF Inv

LEMMA TickInv ==
    ASSUME Inv, NEW at \in Times, Tick(at)
    PROVE  Inv'
<1>1. at \in Int /\ gate \in Gate
  BY JointGateAssumption DEF Times, Inv, TypeOK
<1>2. /\ gate' \in Gate
      /\ gate'.warmup = gate.warmup
      /\ gate'.requestedAt = gate.requestedAt
      /\ gate'.taskStart = gate.taskStart
      /\ gate'.lastAt = gate.lastAt
      /\ gate'.latest = gate.latest
      /\ gate'.firstAt = gate.firstAt
      /\ gate'.healthySince = gate.healthySince
      /\ \/ gate'.state = gate.state
         \/ gate.state = "WARMING" /\ gate'.state = "BLOCKED"
         \/ gate.state = "WARMING" /\ gate'.state = "JOINT_READY" /\ Ready(gate, at)
  BY <1>1, AdvancedAttributes DEF Tick
<1> QED
  BY <1>1, <1>2, GateAssumption
  DEF Inv, TypeOK, WellFormed, Chronology, ReadyMeansHealthy, Anchored, Ready, Tick, Gate

LEMMA RequestInv ==
    ASSUME Inv, NEW at \in Times, RequestRecording(at)
    PROVE  Inv'
<1>1. /\ gate \in Gate /\ at \in Int
      /\ gate' = [gate EXCEPT !.requestedAt = at, !.state = "RECORDING"]
  BY JointGateAssumption DEF Inv, TypeOK, RequestRecording, Requested, Times
<1>2. TypeOK'
  <2>1. gate' \in Gate
    BY <1>1 DEF Gate, GateStates
  <2>2. WellFormed(gate')
    BY <1>1, GateAssumption DEF Inv, TypeOK, WellFormed, Gate
  <2> QED BY <2>1, <2>2 DEF Inv, TypeOK, RequestRecording
<1>3. Chronology'
  BY <1>1 DEF Inv, Chronology, RequestRecording, Gate
<1>4. ReadyMeansHealthy'
  BY <1>1 DEF ReadyMeansHealthy, Gate
<1>5. Anchored'
  BY <1>1 DEF Inv, Anchored, RequestRecording, Gate
<1> QED BY <1>2, <1>3, <1>4, <1>5 DEF Inv

LEMMA FrameInv ==
    ASSUME Inv, NEW at \in Times, NEW health \in Health, ObserveEgoFrame(at, health)
    PROVE  Inv'
  BY GateAssumption, JointGateAssumption
  DEF Inv, TypeOK, WellFormed, Chronology, ReadyMeansHealthy, Anchored, ObserveEgoFrame,
      FrameObserved, Gate, GateStates, Health, Times

LEMMA NextInv == Inv /\ [Next]_vars => Inv'
<1>1. CASE UNCHANGED vars
  BY <1>1 DEF vars, Inv, TypeOK, WellFormed, Chronology, ReadyMeansHealthy, Anchored
<1>2. CASE Next
  BY <1>2, ObserveInv, TickInv, RequestInv, FrameInv DEF Next
<1> QED BY <1>1, <1>2

(* The gate's attributes stay well typed, and set in the combinations       *)
(* WellFormed allows.                                                       *)
THEOREM TypeCorrect == Spec => []TypeOK
<1>1. Inv => TypeOK
  BY DEF Inv
<1> QED BY <1>1, InitInv, NextInv, PTL DEF Spec

(* A ready gate has healthy devices only.                                   *)
THEOREM Healthy == Spec => []ReadyMeansHealthy
<1>1. Inv => ReadyMeansHealthy
  BY DEF Inv
<1> QED BY <1>1, InitInv, NextInv, PTL DEF Spec

(* Readiness is reached only after the warm-up, the healthy window, and     *)
(* within the launch timeout, for all devices at once.                      *)
THEOREM Earned == Spec => ReadyIsEarned
<1> DEFINE Due ==
        (gate.state # "JOINT_READY" /\ gate'.state = "JOINT_READY")
        => \A d \in Devices :
              /\ firstReport'[d] # None
              /\ now' - firstReport'[d] >= WARMUP_NS
              /\ now' - firstReport'[d] >= CONTINUOUS_HEALTHY_NS
              /\ now' - firstReport'[d] < LAUNCH_TIMEOUT_NS
              /\ lastUnhealthy'[d] # None =>
                    now' - lastUnhealthy'[d] >= CONTINUOUS_HEALTHY_NS
<1>1. ASSUME Inv, Inv', Next PROVE Due
  <2>1. ASSUME NEW g \in Gate, NEW at \in Int, gate' = Advanced(g, at), now' = at,
               g.state = "JOINT_READY" => gate.state = "JOINT_READY"
        PROVE  Due
    <3>1. /\ gate'.firstAt = g.firstAt
          /\ gate'.latest = g.latest
          /\ gate'.healthySince = g.healthySince
          /\ gate'.warmup = g.warmup
          /\ (g.state # "JOINT_READY" /\ gate'.state = "JOINT_READY")
                => ~Expired(g, at) /\ Ready(g, at)
      BY <2>1, AdvancedAttributes
    <3> QED
      BY <1>1, <2>1, <3>1, GateAssumption, JointGateAssumption
      DEF Inv, TypeOK, WellFormed, Chronology, Expired, Ready, Gate
  <2>2. ASSUME NEW d \in Devices, NEW at \in Times, NEW health \in Health,
               Observe(d, at, health)
        PROVE  Due
    <3> DEFINE h == Learned(gate, d, at, health)
    <3>1. gate \in Gate /\ at \in Int
      BY <1>1, JointGateAssumption DEF Inv, TypeOK, Times
    <3>2. h \in Gate /\ (h.state = "JOINT_READY" => gate.state = "JOINT_READY")
      BY <3>1, LearnedNotReady
    <3>3. gate' = Advanced(h, at) /\ now' = at
      BY <2>2 DEF Observe, Observed
    <3> QED BY <2>1, <3>1, <3>2, <3>3
  <2>3. ASSUME NEW at \in Times, Tick(at) PROVE Due
    BY <1>1, <2>1, <2>3, JointGateAssumption DEF Tick, Inv, TypeOK, Times
  <2>4. ASSUME NEW at \in Times, RequestRecording(at) PROVE Due
    BY <1>1, <2>4 DEF RequestRecording, Requested, Inv, TypeOK, Gate
  <2>5. ASSUME NEW at \in Times, NEW health \in Health, ObserveEgoFrame(at, health)
        PROVE  Due
    BY <1>1, <2>5 DEF ObserveEgoFrame, FrameObserved, Inv, TypeOK, Gate
  <2> QED BY <1>1, <2>2, <2>3, <2>4, <2>5 DEF Next
<1>2. UNCHANGED vars => Due
  BY DEF vars
<1>3. Inv /\ Inv' /\ [Next]_vars => [Due]_vars
  BY <1>1, <1>2
<1> QED BY <1>3, InitInv, NextInv, PTL DEF Spec, ReadyIsEarned
=============================================================================
