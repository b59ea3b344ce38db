------------------------- MODULE Coordinator_proof -------------------------
(***************************************************************************)
(* Proofs about Coordinator for every set of devices and workers, every    *)
(* duration and timeout, every number of misfortunes and every bound on    *)
(* the clock.                                                              *)
(***************************************************************************)
EXTENDS Coordinator, FiniteSetTheorems, WellFoundedInduction, TLAPS

-----------------------------------------------------------------------------
(* The inductive invariant, in parts.                                       *)

\* The time up to which a worker is known to have run.
RanUntil(d) == IF phase[d] = "exited" THEN exitedAt[d] ELSE clock

\* A worker has an exit code once it has exited, and an acceptance only after
\* its capture has ended.
WorkersInv ==
    \A d \in Devices :
        /\ phase[d] = "exited" => /\ code[d] # None
                                  /\ exitedAt[d] \in Nat /\ exitedAt[d] <= clock
        /\ code[d] # None => phase[d] = "exited"
        /\ acceptance[d] # None => phase[d] \in {"closing", "latched", "exited"}
        /\ phase[d] \in {"closing", "latched"} => verdict[d] # None

\* What is on the list of a shutdown, and what no shutdown has to visit.
ShutdownInv ==
    /\ pc \in {"terminate", "stopLate"} => Running \subseteq unstopped \/ faults > 0
    /\ pc \in {"load", "report", "done"} => Running = {} \/ faults > 0

\* What the poll of this pass saw still holds, as far as it can.
PollInv ==
    /\ now <= clock
    /\ \A d \in alive : RanUntil(d) >= now
    /\ pc \in {"failures", "exits"} =>
           \A d \in Launched : d \in alive \/ phase[d] = "exited"

\* Boundaries exist only of a recording.
BoundaryInv ==
    /\ stop # None \/ formalEnd # None => start # None
    /\ pc \in {"stopRequest", "watch", "endPass", "stopLate"} => start # None
    /\ pc \in {"launch", "gate", "prompt", "refresh", "schedule", "terminate"} => start = None
    /\ DURATION_NS = None /\ stop = None => formalEnd = None
    /\ BoundariesAgree

\* The worker is known to have run to the end of its window.
RanOut(d) ==
    \/ DURATION_NS # None /\ RanUntil(d) >= start + DURATION_NS
    \/ stop # None /\ RanUntil(d) >= stop

\* An exit that was found is the worker's own, and it is not early only if the
\* worker had been seen at the formal end.
Fits(d, r) ==
    /\ r.code # None => phase[d] = "exited" /\ r.code = code[d]
    /\ r.observed = "yes" => start # None
    /\ r.code # None /\ r.early = "no" => r.observed = "yes"

\* A worker counts as seen at the formal end only if it ran until then, as long
\* as nothing has been found wrong.
ResultInv ==
    /\ pc = "stopLate" => errors # {}
    /\ \A d \in Devices :
        /\ Fits(d, result[d])
        /\ result[d].observed = "yes" /\ known = {} /\ errors = {} => RanOut(d)

\* The first error ends a launch, and a recording that has no other end.
FirstInv ==
    /\ start = None /\ pc \in {"launch", "poll", "failures", "gate", "prompt", "refresh", "schedule"} =>
           first = None
    /\ start = None /\ pc \in {"terminate", "load", "report"} => first # None
    /\ start # None /\ first # None /\ DURATION_NS = None
          /\ pc \in {"poll", "failures", "exits", "stopRequest", "watch", "endPass"} => stop # None

\* What has been loaded is what is there, and what was not loaded was noted.
AcceptedInv ==
    /\ pc \in {"report", "done"} \/ \A d \in Devices : accepted[d] = None
    /\ \A d \in Devices : accepted[d] # None => acceptance[d] = accepted[d]
    /\ pc = "report" => \A d \in Devices :
           accepted[d] = None /\ result[d].code # None /\ acceptance[d] # None => "worker_acceptance_io" \in errors
    /\ pc = "report" /\ first = None => \A d \in Devices : accepted[d] = "PASS"

\* There is a report only at the end, and it says no more than it may.
ReportInv ==
    /\ report # None <=> pc = "done"
    /\ PassIsEarned /\ FailureNotMasked /\ BlockedIsBenign /\ ReportIsVerifiable

\* What the coordinator may infer from a gate before there is a start: a device
\* that is healthy has been so since a time, none of it before the operator's
\* confirmation, and if the gate is ready for long enough.
GateSound(g) ==
    /\ \A d \in Devices :
          /\ g.latest[d] = "healthy" => g.healthySince[d] # None
          /\ confirmedAt # None /\ g.healthySince[d] # None => g.healthySince[d] >= confirmedAt
    /\ g.state = "JOINT_READY" =>
          \A d \in Devices :
              g.latest[d] = "healthy" /\ clock - g.healthySince[d] >= CONTINUOUS_HEALTHY_NS

\* Where the gate that was fed is still of use.
Before == {"launch", "poll", "failures", "exits", "gate", "prompt"}

\* No heartbeat is from the future, and a start is scheduled by a ready gate.
GateInv ==
    /\ \A d \in Devices : heartbeat[d] # None => heartbeat[d].at <= clock
    /\ start = None /\ pc \in Before \cup {"schedule"} => GateSound(gate)
    /\ pc = "schedule" => gate.state = "JOINT_READY"

IInv ==
    /\ WorkersInv /\ ShutdownInv /\ PollInv /\ BoundaryInv /\ ResultInv /\ FirstInv /\ AcceptedInv
    /\ ReportInv

-----------------------------------------------------------------------------
(* Types, of everything but the gate.                                       *)

StateOK ==
    /\ WorkersTypeOK
    /\ pc \in {"launch", "poll", "failures", "exits", "gate", "prompt", "refresh",
               "schedule", "stopRequest", "watch", "endPass", "terminate", "stopLate", "load",
               "report", "done"}
    /\ now \in Nat
    /\ formalEnd \in Int \cup {None}
    /\ unstopped \subseteq Devices
    /\ alive \subseteq Devices
    /\ result \in [Devices -> Results]
    /\ lastHeartbeat \in [Devices -> Nat \cup {None}]
    /\ known \subseteq Devices
    /\ errors \subseteq Reasons
    /\ first \in FirstErrors \cup {None}
    /\ start \in Nat \cup {None}
    /\ confirmed \in {"yes", "no"}
    /\ confirmedAt \in Nat \cup {None}
    /\ stop \in Nat \cup {None}
    /\ accepted \in [Devices -> Statuses \cup {None}]
    /\ report \in Statuses \cup {None}

(* A set of natural numbers has a least element.                            *)
LEMMA LeastElement ==
    ASSUME NEW S \in SUBSET Nat, S # {}
    PROVE  \E m \in S : \A k \in S : m <= k
<1>1. \E m \in S : \A k \in S : <<k, m>> \notin OpToRel(<, Nat)
  BY NatLessThanWellFounded, WFMin
<1>2. ASSUME NEW m \in S, NEW k \in S, <<k, m>> \notin OpToRel(<, Nat)
      PROVE  m <= k
  BY <1>2 DEF OpToRel
<1> QED BY <1>1, <1>2

(* The first of some devices is one of them.                                *)
LEMMA FirstOfIsOne ==
    ASSUME NEW S \in SUBSET Devices, S # {}
    PROVE  FirstOf(S) \in S
<1> DEFINE places == {i \in DOMAIN REQUIRED_DEVICES : REQUIRED_DEVICES[i] \in S}
<1>1. places \in SUBSET Nat /\ places # {}
  BY CoordinatorAssumption DEF ToSet
<1>2. \E i \in places : \A j \in places : i <= j
  BY <1>1, LeastElement
<1> QED BY <1>2 DEF FirstOf

(* There are finitely many devices.                                         *)
LEMMA Counting ==
    ASSUME NEW S \in SUBSET Devices
    PROVE  Cardinality(S) \in Nat
<1> DEFINE n == Len(REQUIRED_DEVICES)
<1>1. IsFiniteSet(1..n)
  BY CoordinatorAssumption, FS_Interval
<1>2. Devices = {REQUIRED_DEVICES[i] : i \in 1..n}
  BY CoordinatorAssumption DEF ToSet
<1>4. REQUIRED_DEVICES \in Surjection(1..n, Devices)
  BY <1>2, CoordinatorAssumption DEF Surjection
<1>3. IsFiniteSet(Devices)
  BY <1>1, <1>2, <1>4, FS_Surjection
<1> QED BY <1>3, FS_Subset, FS_CardinalityType

(* A worker's step keeps the types.                                         *)
LEMMA WorkerTypes ==
    ASSUME WorkersTypeOK, WorkersInv, NEW d \in Devices, WorkerStep(d)
    PROVE  WorkersTypeOK'
<1> USE WorkersAssumption DEF WorkersTypeOK, Statuses, records, workers
<1>1. CASE SetUp(d) BY <1>1 DEF SetUp
<1>2. CASE SetUpD405Fails(d) BY <1>2 DEF SetUpD405Fails, Misfortune, Latch
<1>3. CASE ExitFailed(d) BY <1>3 DEF ExitFailed, Exit
<1>4. CASE SetUpEgoFails(d) BY <1>4 DEF SetUpEgoFails, Misfortune, Close
<1>5. CASE SetUpEgoStorageFails(d) BY <1>5 DEF SetUpEgoStorageFails, Misfortune, Exit
<1>6. CASE Beat(d) BY <1>6 DEF Beat, Misfortune
<1>7. CASE ReadStart(d) BY <1>7 DEF ReadStart
<1>8. CASE ReadStartLate(d) BY <1>8 DEF ReadStartLate, Close, Latch
<1>9. CASE CaptureFails(d) BY <1>9 DEF CaptureFails, Misfortune, Close, Latch
<1>10. CASE CloseWindow(d) BY <1>10 DEF CloseWindow, Misfortune, Close, Latch
<1>11. CASE WriteAcceptance(d) BY <1>11 DEF WriteAcceptance
<1>12. CASE LatchVerdict(d) BY <1>12 DEF LatchVerdict, Misfortune, Latch
<1>13. CASE ExitWithVerdict(d) BY <1>13 DEF ExitWithVerdict, Exit, ExitCode, WorkersInv
<1>14. CASE AcceptanceFails(d) BY <1>14 DEF AcceptanceFails, Misfortune, Exit
<1>15. CASE Die(d) BY <1>15 DEF Die, Misfortune, Exit
<1>16. CASE EndEarly(d) BY <1>16 DEF EndEarly, Misfortune, Close
<1> QED BY <1>1, <1>2, <1>3, <1>4, <1>5, <1>6, <1>7, <1>8, <1>9, <1>10, <1>11, <1>12, <1>13,
           <1>14, <1>15, <1>16 DEF WorkerStep

(* Errors are records of FirstErrors; the first one stays.                  *)
LEMMA ErrorTypes ==
    ASSUME NEW r \in Reasons
    PROVE  /\ Error(r) \in FirstErrors
           /\ \A d \in Devices : [Error(r) EXCEPT !.device = d] \in FirstErrors
           /\ \A d \in Devices, c \in Int \cup {None} :
                  [Error(r) EXCEPT !.device = d, !.code = c] \in FirstErrors
  BY DEF Error, FirstErrors

LEMMA FirstStays ==
    ASSUME first \in FirstErrors \cup {None}, NEW e \in FirstErrors, FirstIs(e)
    PROVE  first' \in FirstErrors /\ (first # None => first' = first) /\ (first = None => first' = e) /\ first' # None
  BY CoordinatorAssumption DEF FirstIs

(* An acceptance that is not a PASS is the first error if nothing else is.  *)
LEMMA WithAcceptancesErrors ==
    ASSUME NEW f \in FirstErrors \cup {None}, NEW a \in [Devices -> Statuses \cup {None}], NEW e
    PROVE  /\ WithAcceptances(f, a, e) \in FirstErrors \cup {None}
           /\ WithAcceptances(f, a, e) = None =>
                  /\ f = None
                  /\ "worker_acceptance_missing" \notin e
                  /\ \A d \in Devices : a[d] \notin {"FAIL", "BLOCKED"}
<1> DEFINE unhappy == {d \in Devices : a[d] \in {"FAIL", "BLOCKED"}}
<1>1. Error("worker_acceptance_io") \in FirstErrors /\ Error("worker_acceptance_missing") \in FirstErrors
  BY DEF Error, FirstErrors, Reasons
<1>2. ASSUME unhappy # {}
      PROVE  \A b \in {"yes", "no"} :
               [reason |-> "worker_acceptance", device |-> FirstOf(unhappy), code |-> None, blocked |-> b]
                 \in FirstErrors
  BY <1>2, FirstOfIsOne DEF FirstErrors, Reasons
<1> QED BY <1>1, <1>2, CoordinatorAssumption DEF WithAcceptances

(* An exit with 3 may turn out to be a BLOCKED acceptance; an error stays   *)
(* an error.                                                                *)
LEMMA AcceptanceErrors ==
    ASSUME NEW f \in FirstErrors \cup {None}, NEW a \in [Devices -> Statuses \cup {None}],
           NEW r, NEW k, NEW e
    PROVE  /\ AsBlocked(WithAcceptances(f, a, e), a, r, k, e) \in FirstErrors \cup {None}
           /\ AsBlocked(WithAcceptances(f, a, e), a, r, k, e) = None => WithAcceptances(f, a, e) = None
<1> DEFINE w == WithAcceptances(f, a, e)
<1>1. w \in FirstErrors \cup {None}
  BY WithAcceptancesErrors
<1>2. ASSUME w \in FirstErrors
      PROVE  [w EXCEPT !.reason = "worker_acceptance", !.code = None, !.blocked = "yes"] \in FirstErrors
  BY <1>2 DEF FirstErrors, Reasons
<1> HIDE DEF w
<1>3. AsBlocked(w, a, r, k, e) \in FirstErrors \cup {None} /\ (AsBlocked(w, a, r, k, e) = None => w = None)
  BY <1>1, <1>2, CoordinatorAssumption DEF AsBlocked
<1> QED BY <1>3 DEF w

LEMMA CreditedTypes ==
    ASSUME NEW S, NEW r \in [Devices -> Results]
    PROVE  Credited(S, r) \in [Devices -> Results]
  BY DEF Credited, Results

LEMMA SuffersTypes ==
    ASSUME faults \in 0..MaxFaults, NEW n \in Nat, Suffers(n)
    PROVE  faults' \in 0..MaxFaults /\ faults' >= faults /\ (n > 0 => faults' > 0)
  BY WorkersAssumption DEF Suffers

LEMMA NotedTypes ==
    ASSUME errors \subseteq Reasons, NEW S \in SUBSET Reasons, NEW n, Noted(S, n)
    PROVE  errors' \subseteq Reasons
  BY DEF Noted, Reasons

LEMMA Codes ==
    ASSUME WorkersTypeOK, NEW d \in Devices
    PROVE  code[d] \in Int \cup {None}
  BY DEF WorkersTypeOK

(* A step of the coordinator keeps the types.                               *)
LEMMA CoordinatorTypes ==
    ASSUME StateOK, CoordinatorStep
    PROVE  StateOK'
<1> USE WorkersAssumption, CoordinatorAssumption
    DEF StateOK, world, records, workers, pass, findings, schedule, outcome
<1>a. \A r \in {"worker_launch", "storage_io", "barrier_io", "worker_failure", "worker_exit",
                "worker_disconnect", "timestamp_regression", "joint_warmup_timeout",
                "operator_cancelled", "worker_stop_timeout", "worker_finalize_timeout"} :
          r \in Reasons /\ Error(r) \in FirstErrors
  BY ErrorTypes DEF Reasons
<1>b. Launched \in SUBSET Devices
  BY DEF Launched
<1>c. ASSUME NEW at \in Nat, NEW raises, PublishStop(at, raises)
      PROVE  stop' \in Nat /\ stopRecord' \in Nat \cup {None}
  BY <1>c DEF PublishStop, WorkersTypeOK
<1>d. ASSUME NEW e \in FirstErrors, EndLaunch(e)
      PROVE  /\ first' \in FirstErrors /\ unstopped' \in SUBSET Devices /\ pc' \in {"load", "terminate"}
  BY <1>d, <1>b, FirstStays DEF EndLaunch
<1> HIDE DEF Results
<1>1. ASSUME NEW d \in Devices, Launch(d) PROVE StateOK'
  BY <1>1 DEF Launch, WorkersTypeOK
<1>2. ASSUME NEW d \in Devices, StopProcess(d) PROVE StateOK'
  <2>1. WorkersTypeOK'
    <3>1. CASE Exit(d, -15) /\ UNCHANGED faults
      <4>1. code' \in [Devices -> {0, 1, 2, 3, -15, None}]
        BY <3>1 DEF Exit, WorkersTypeOK
      <4> QED BY <1>2, <3>1, <4>1 DEF StopProcess, Exit, WorkersTypeOK
    <3>2. CASE Misfortune /\ UNCHANGED <<phase, code, exitedAt>>
      BY <1>2, <3>2 DEF StopProcess, Misfortune, WorkersTypeOK
    <3>3. CASE UNCHANGED <<faults, phase, code, exitedAt>>
      BY <1>2, <3>3 DEF StopProcess, WorkersTypeOK
    <3> QED BY <1>2, <3>1, <3>2, <3>3 DEF StopProcess
  <2>2. [code |-> code'[d], early |-> YesIf(pc = "terminate"), observed |-> YesIf(pc = "stopLate")] \in Results
    <3>1. code'[d] \in Int \cup {None}
      BY <2>1 DEF WorkersTypeOK
    <3> QED BY <3>1 DEF Results, YesIf
  <2> QED BY <1>2, <2>1, <2>2 DEF StopProcess
<1>3. CASE LaunchFails
  BY <1>3, <1>a, <1>d DEF LaunchFails, Misfortune, WorkersTypeOK
<1>4. CASE InitialStorageFails
  BY <1>4, <1>a, FirstStays DEF InitialStorageFails, Misfortune, WorkersTypeOK, Statuses
<1>5. CASE PollWorkers
  BY <1>5, CreditedTypes DEF PollWorkers, FormalEnd, Running, WorkersTypeOK
<1>6. CASE ReadFailures
  <2> DEFINE new == {d \in Devices : failure[d] # None} \ known
  <2>1. CASE new = {}
    BY <1>6, <2>1 DEF ReadFailures, WorkersTypeOK
  <2>2. CASE new # {}
    <3>1. PICK d \in new, raises \in {0, 1} :
                 /\ FirstIs([Error("worker_failure") EXCEPT !.device = d])
                 /\ Suffers(raises)
                 /\ Noted({}, raises)
                 /\ IF start # None /\ stop = None
                    THEN /\ PublishStop(failure[d], raises = 1)
                         /\ result' = Credited(alive, result)
                    ELSE raises = 0 /\ UNCHANGED <<stop, stopRecord, result>>
      BY <1>6, <2>2 DEF ReadFailures
    <3>2. first' \in FirstErrors
      BY <3>1, <1>a, ErrorTypes, FirstStays
    <3>3. errors' \subseteq Reasons
      BY <3>1, NotedTypes
    <3>4. faults' \in 0..MaxFaults
      BY <3>1, SuffersTypes DEF WorkersTypeOK
    <3>5. failure[d] \in Nat
      BY DEF WorkersTypeOK
    <3>6. /\ stop' \in Nat \cup {None} /\ stopRecord' \in Nat \cup {None}
          /\ result' \in [Devices -> Results]
      <4>1. CASE start # None /\ stop = None
        <5>1. PublishStop(failure[d], raises = 1) /\ result' = Credited(alive, result)
          BY <3>1, <4>1
        <5> QED BY <5>1, <3>5, <1>c, CreditedTypes
      <4>2. CASE ~(start # None /\ stop = None)
        BY <3>1, <4>2 DEF WorkersTypeOK
      <4> QED BY <4>1, <4>2
    <3> QED BY <1>6, <3>2, <3>3, <3>4, <3>6 DEF ReadFailures, WorkersTypeOK
  <2> QED BY <2>1, <2>2
<1>7. CASE FailuresUnreadable
  <2>1. PICK raises \in {0, 1} :
          /\ Suffers(1 + raises)
          /\ Noted({}, 1)
          /\ IF start # None /\ stop = None
             THEN PublishStop(now, raises = 1) /\ result' = Credited(alive, result)
             ELSE raises = 0 /\ UNCHANGED <<stop, stopRecord, result>>
    BY <1>7 DEF FailuresUnreadable
  <2>2. first' \in FirstErrors
    BY <1>7, <1>a, FirstStays DEF FailuresUnreadable
  <2>3. errors' \subseteq Reasons
    BY <2>1, NotedTypes
  <2>4. faults' \in 0..MaxFaults
    BY <2>1, SuffersTypes DEF WorkersTypeOK
  <2>5. /\ stop' \in Nat \cup {None} /\ stopRecord' \in Nat \cup {None}
        /\ result' \in [Devices -> Results]
    BY <2>1, <1>c, CreditedTypes DEF WorkersTypeOK
  <2> QED BY <1>7, <2>2, <2>3, <2>4, <2>5 DEF FailuresUnreadable, WorkersTypeOK
<1>8. CASE CheckExits
  <2> DEFINE stops == /\ WronglyEnded # {} /\ start # None /\ stop = None
                      /\ formalEnd = None \/ now < formalEnd
             d1 == FirstOf(WronglyEnded)
             judged == [d \in Devices |->
                         IF d \in Ended
                         THEN [result[d] EXCEPT !.code = code[d], !.early = YesIf(Early(d))]
                         ELSE result[d]]
  <2>1. PICK raises \in {0, 1} :
                 /\ Suffers(raises)
                 /\ Noted({}, raises)
                 /\ IF stops
                    THEN PublishStop(now, raises = 1) /\ result' = Credited(alive, judged)
                    ELSE raises = 0 /\ result' = judged /\ UNCHANGED <<stop, stopRecord>>
    BY <1>8 DEF CheckExits
  <2>2. first' \in FirstErrors \cup {None}
    <3>1. CASE WronglyEnded = {}
      BY <1>8, <3>1 DEF CheckExits
    <3>2. CASE WronglyEnded # {}
      <4>1. d1 \in Devices
        <5>1. WronglyEnded \in SUBSET Devices
          BY DEF WronglyEnded, Ended, Launched
        <5> QED BY <3>2, <5>1, FirstOfIsOne
      <4>2. [Error("worker_exit") EXCEPT !.device = d1, !.code = code[d1]] \in FirstErrors
        BY <4>1, <1>a, ErrorTypes, Codes
      <4> QED BY <1>8, <3>2, <4>2, FirstStays DEF CheckExits
    <3> QED BY <3>1, <3>2
  <2>3. errors' \subseteq Reasons
    BY <2>1, NotedTypes
  <2>4. faults' \in 0..MaxFaults
    <3> HIDE DEF judged, stops
    <3>1. Suffers(raises) /\ raises \in Nat
      BY <2>1
    <3> QED BY <3>1, SuffersTypes DEF WorkersTypeOK
  <2>5. judged \in [Devices -> Results]
    <3>1. ASSUME NEW e \in Devices PROVE [result[e] EXCEPT !.code = code[e], !.early = YesIf(Early(e))] \in Results
      <4>1. result[e] \in Results /\ code[e] \in Int \cup {None} /\ YesIf(Early(e)) \in {"yes", "no"}
        BY Codes DEF YesIf
      <4> QED BY <4>1 DEF Results
    <3> QED BY <3>1
  <2>6. /\ stop' \in Nat \cup {None} /\ stopRecord' \in Nat \cup {None}
        /\ result' \in [Devices -> Results]
    <3> HIDE DEF judged, stops
    <3> QED BY <2>1, <2>5, <1>c, CreditedTypes DEF WorkersTypeOK
  <2> QED BY <1>8, <1>b, <2>2, <2>3, <2>4, <2>6 DEF CheckExits, WorkersTypeOK
<1>9. CASE LaunchTimesOut
  BY <1>9, <1>a, <1>d DEF LaunchTimesOut, WorkersTypeOK
<1>10. CASE HeartbeatsUnreadable
  BY <1>10, <1>a, <1>d, NotedTypes, SuffersTypes DEF HeartbeatsUnreadable, WorkersTypeOK
<1>e. ASSUME NEW r \in {"timestamp_regression", "worker_disconnect"}, NEW d \in Devices,
             NEW noted \in SUBSET Reasons, LatchAndEndLaunch(r, d, noted)
      PROVE  StateOK'
  <2>1. PICK raises \in {0, 1} :
          /\ Suffers(raises)
          /\ Noted(noted, raises)
          /\ IF raises = 1 THEN UNCHANGED failure ELSE Latch(d, Instant)
    BY <1>e DEF LatchAndEndLaunch
  <2>2. errors' \subseteq Reasons
    BY <2>1, NotedTypes
  <2>3. faults' \in 0..MaxFaults
    BY <2>1, SuffersTypes DEF WorkersTypeOK
  <2>4. failure' \in [Devices -> Nat \cup {None}]
    BY <2>1 DEF Latch, Instant, WorkersTypeOK
  <2> QED BY <1>e, <1>a, <1>d, <2>2, <2>3, <2>4 DEF LatchAndEndLaunch, WorkersTypeOK
<1>11. CASE HeartbeatRegresses
  BY <1>11, <1>a, <1>e DEF HeartbeatRegresses, Regressed, Fresh
<1>12. CASE WorkerSilent
  BY <1>12, <1>a, <1>e DEF WorkerSilent, Silent
<1>f. lastHeartbeat' = LastSeen(Fresh) => lastHeartbeat' \in [Devices -> Nat \cup {None}]
  BY DEF LastSeen, Fresh, WorkersTypeOK
<1>13. CASE FeedGate
  <2>1. first' \in FirstErrors \cup {None} /\ unstopped' \subseteq Devices /\ alive' \subseteq Devices
        /\ now' \in Nat /\ formalEnd' \in Int \cup {None}
        /\ pc' \in {"load", "terminate", "poll", "schedule", "prompt"}
    BY <1>13, <1>a, <1>d DEF FeedGate, NewPass
  <2> QED BY <1>13, <1>f, <2>1 DEF FeedGate, WorkersTypeOK
<1>14. CASE Confirm
  BY <1>14 DEF Confirm, WorkersTypeOK
<1>15. CASE Cancel
  BY <1>15, <1>a, <1>d DEF Cancel, WorkersTypeOK
<1>16. CASE Refresh
  BY <1>16, <1>f DEF Refresh, WorkersTypeOK
<1>17. CASE ScheduleStart
  BY <1>17 DEF ScheduleStart, WorkersTypeOK
<1>18. CASE ScheduleFails
  <2>1. startRecord' \in Nat \cup {None}
    BY <1>18 DEF ScheduleFails, WorkersTypeOK
  <2>2. faults' \in 0..MaxFaults
    BY <1>18, SuffersTypes DEF ScheduleFails, WorkersTypeOK
  <2> QED BY <1>18, <1>a, <1>d, <2>1, <2>2, NotedTypes DEF ScheduleFails, WorkersTypeOK
<1>19. CASE ReadStopRequest
  <2>1. CASE UNCHANGED <<faults, stopRecord, result, errors, first, stop>>
    BY <1>19, <2>1 DEF ReadStopRequest, WorkersTypeOK
  <2>2. ASSUME result' = Credited(alive, result), NEW raises \in {0, 1},
               Suffers(raises), Noted({}, raises), PublishStop(now, raises = 1),
               IF raises = 1 THEN FirstIs(Error("barrier_io")) ELSE UNCHANGED first
        PROVE  StateOK'
    <3>1. first' \in FirstErrors \cup {None}
      BY <2>2, <1>a, FirstStays
    <3>2. errors' \subseteq Reasons
      BY <2>2, NotedTypes
    <3>3. faults' \in 0..MaxFaults
      BY <2>2, SuffersTypes DEF WorkersTypeOK
    <3>4. /\ stop' \in Nat \cup {None} /\ stopRecord' \in Nat \cup {None}
          /\ result' \in [Devices -> Results]
      BY <2>2, <1>c, CreditedTypes
    <3>5. formalEnd' \in Int \cup {None}
      BY <1>19, <3>4 DEF ReadStopRequest
    <3> QED BY <1>19, <3>1, <3>2, <3>3, <3>4, <3>5 DEF ReadStopRequest, WorkersTypeOK
  <2> QED BY <1>19, <2>1, <2>2 DEF ReadStopRequest
<1>20. CASE WatchHeartbeats
  <2>1. PICK unread \in {0, 1}, raises \in {0, 1}, lost \in SUBSET Devices :
          LET seen == IF unread = 1 THEN {} ELSE Fresh \ Regressed
              past == IF unread = 1 THEN {} ELSE Regressed
              silent == {d \in Devices : /\ LastSeen(seen)[d] # None
                                         /\ now - LastSeen(seen)[d] > HEARTBEAT_STALE_NS
                                         /\ d \notin known \cup (past \ lost)}
              latched == (past \ known) \cup silent
              wrong == unread = 1 \/ past # {} \/ silent # {}
          IN  /\ lost \subseteq latched
              /\ Suffers(unread + raises + Cardinality(lost))
              /\ Noted(IF past = {} THEN {} ELSE {"timestamp_regression"},
                       unread + raises + Cardinality(lost))
              /\ gate' = Observing(seen)
              /\ lastHeartbeat' = LastSeen(seen)
              /\ known' = known \cup (latched \ lost)
              /\ failure' = [d \in Devices |-> IF d \in latched \ lost /\ failure[d] = None
                                               THEN now ELSE failure[d]]
              /\ IF ~wrong THEN UNCHANGED first
                 ELSE FirstIs(Error(IF unread = 1 THEN "barrier_io"
                                    ELSE IF past # {} THEN "timestamp_regression"
                                    ELSE "worker_disconnect"))
              /\ IF wrong /\ stop = None
                 THEN PublishStop(now, raises = 1) /\ result' = Credited(alive, result)
                 ELSE raises = 0 /\ UNCHANGED <<stop, stopRecord, result>>
    BY <1>20 DEF WatchHeartbeats
  <2>2. first' \in FirstErrors \cup {None}
    BY <2>1, <1>a, FirstStays
  <2>3. errors' \subseteq Reasons
    BY <2>1, <1>a, NotedTypes
  <2>4. faults' \in 0..MaxFaults
    BY <2>1, Counting, SuffersTypes DEF WorkersTypeOK
  <2>5. Fresh \in SUBSET Devices /\ Regressed \in SUBSET Devices
    BY DEF Fresh, Regressed
  <2>6. known' \subseteq Devices
    BY <2>1, <2>5
  <2>7. failure' \in [Devices -> Nat \cup {None}]
    BY <2>1 DEF WorkersTypeOK
  <2>8. lastHeartbeat' \in [Devices -> Nat \cup {None}]
    BY <2>1 DEF LastSeen, Fresh, WorkersTypeOK
  <2>9. /\ stop' \in Nat \cup {None} /\ stopRecord' \in Nat \cup {None}
        /\ result' \in [Devices -> Results]
    BY <2>1, <1>c, CreditedTypes DEF WorkersTypeOK
  <2> QED BY <1>20, <2>2, <2>3, <2>4, <2>6, <2>7, <2>8, <2>9 DEF WatchHeartbeats, WorkersTypeOK
<1>21. CASE EndPass
  <2>1. first' \in FirstErrors \cup {None} /\ errors' \subseteq Reasons
    <3>1. ASSUME NEW r \in {"worker_stop_timeout", "worker_finalize_timeout"},
                 errors' = errors \cup {r}, FirstIs(Error(r))
          PROVE  first' \in FirstErrors /\ errors' \subseteq Reasons
      BY <3>1, <1>a, FirstStays
    <3>2. \/ UNCHANGED <<errors, first>>
          \/ \E r \in {"worker_stop_timeout", "worker_finalize_timeout"} :
                errors' = errors \cup {r} /\ FirstIs(Error(r))
      BY <1>21 DEF EndPass
    <3> QED BY <3>1, <3>2
  <2>2. /\ unstopped' \subseteq Devices /\ alive' \subseteq Devices
        /\ now' \in Nat /\ formalEnd' \in Int \cup {None}
        /\ pc' \in {"stopLate", "load", "poll"}
    BY <1>21 DEF EndPass, NewPass
  <2> QED BY <1>21, <2>1, <2>2 DEF EndPass, WorkersTypeOK
<1>22. CASE LoadAcceptances
  <2>1. accepted' \in [Devices -> Statuses \cup {None}]
    BY <1>22 DEF LoadAcceptances, WorkersTypeOK
  <2>2. first' \in FirstErrors \cup {None}
    BY <1>22, <2>1, AcceptanceErrors DEF LoadAcceptances
  <2>3. errors' \subseteq Reasons
    BY <1>22 DEF LoadAcceptances, Reasons
  <2>4. faults' \in 0..MaxFaults
    BY <1>22, Counting, SuffersTypes DEF LoadAcceptances, WorkersTypeOK
  <2> QED BY <1>22, <2>1, <2>2, <2>3, <2>4 DEF LoadAcceptances, WorkersTypeOK
<1>23. CASE Report
  <2>1. report' \in Statuses
    BY <1>23 DEF Report, FinalVerdict, Statuses
  <2>2. first' \in FirstErrors \cup {None}
    BY <1>23, <1>a, FirstStays DEF Report
  <2>3. errors' \subseteq Reasons
    BY <1>23, <1>a DEF Report
  <2>4. faults' \in 0..MaxFaults
    BY <1>23, SuffersTypes DEF Report, WorkersTypeOK
  <2> QED BY <1>23, <2>1, <2>2, <2>3, <2>4 DEF Report, WorkersTypeOK
<1> QED BY <1>1, <1>2, <1>3, <1>4, <1>5, <1>6, <1>7, <1>8, <1>9, <1>10, <1>11, <1>12, <1>13,
           <1>14, <1>15, <1>16, <1>17, <1>18, <1>19, <1>20, <1>21, <1>22, <1>23 DEF CoordinatorStep
-----------------------------------------------------------------------------
(* What others do while the coordinator is between two of its parts.        *)

\* Time goes on, an exit and an acceptance are for good, and the boundaries are
\* the coordinator's to write.
Onward ==
    /\ clock' >= clock /\ faults' >= faults
    /\ UNCHANGED <<startRecord, stopRecord>>
    /\ \A d \in Devices :
          /\ phase[d] = "exited" => /\ phase'[d] = "exited" /\ code'[d] = code[d]
                                    /\ exitedAt'[d] = exitedAt[d]
                                    /\ acceptance'[d] = acceptance[d]
          /\ phase[d] = "off" <=> phase'[d] = "off"
          /\ acceptance[d] # None => acceptance'[d] = acceptance[d]
          /\ RanUntil(d)' >= RanUntil(d)

(* A worker's step keeps its own invariant and goes onward.                 *)
LEMMA WorkerOnward ==
    ASSUME WorkersTypeOK, WorkersInv, NEW d \in Devices, WorkerStep(d)
    PROVE  WorkersInv' /\ Onward
<1> USE WorkersAssumption DEF WorkersTypeOK, WorkersInv, Onward, RanUntil, records, workers
<1>1. CASE SetUp(d) BY <1>1 DEF SetUp
<1>2. CASE SetUpD405Fails(d) BY <1>2 DEF SetUpD405Fails, Misfortune
<1>3. CASE ExitFailed(d) BY <1>3 DEF ExitFailed, Exit
<1>4. CASE SetUpEgoFails(d)
  <2>1. PICK s \in {"FAIL", "BLOCKED"} : Close(d, s)
    BY <1>4 DEF SetUpEgoFails
  <2> QED BY <1>4, <2>1, CoordinatorAssumption DEF SetUpEgoFails, Misfortune, Close, Statuses
<1>5. CASE SetUpEgoStorageFails(d) BY <1>5 DEF SetUpEgoStorageFails, Misfortune, Exit
<1>6. CASE Beat(d) BY <1>6 DEF Beat, Misfortune
<1>7. CASE ReadStart(d) BY <1>7 DEF ReadStart
<1>8. CASE ReadStartLate(d) BY <1>8, CoordinatorAssumption DEF ReadStartLate, Close, Statuses
<1>9. CASE CaptureFails(d) BY <1>9, CoordinatorAssumption DEF CaptureFails, Misfortune, Close, Statuses
<1>10. CASE CloseWindow(d)
  <2>1. PICK s \in Statuses : Close(d, s)
    BY <1>10 DEF CloseWindow, Statuses
  <2> QED BY <1>10, <2>1, CoordinatorAssumption DEF CloseWindow, Misfortune, Close
<1>11. CASE WriteAcceptance(d) BY <1>11 DEF WriteAcceptance
<1>12. CASE LatchVerdict(d) BY <1>12 DEF LatchVerdict, Misfortune
<1>13. CASE ExitWithVerdict(d)
  <2>1. ExitCode(verdict[d]) \in {0, 2, 3}
    BY <1>13 DEF ExitWithVerdict, ExitCode, Statuses
  <2> QED BY <1>13, <2>1 DEF ExitWithVerdict, Exit
<1>14. CASE AcceptanceFails(d) BY <1>14 DEF AcceptanceFails, Misfortune, Exit
<1>15. CASE Die(d) BY <1>15 DEF Die, Misfortune, Exit, Running
<1>16. CASE EndEarly(d) BY <1>16, CoordinatorAssumption DEF EndEarly, Misfortune, Close, Statuses
<1> QED BY <1>1, <1>2, <1>3, <1>4, <1>5, <1>6, <1>7, <1>8, <1>9, <1>10, <1>11, <1>12, <1>13,
           <1>14, <1>15, <1>16 DEF WorkerStep

(* So does the clock.                                                       *)
LEMMA TickOnward ==
    ASSUME WorkersTypeOK, WorkersInv, Tick
    PROVE  WorkersTypeOK' /\ WorkersInv' /\ Onward
  BY DEF Tick, WorkersTypeOK, WorkersInv, Onward, RanUntil, records, workers

(* What the coordinator knows survives everything that goes onward.         *)
LEMMA OnwardKeeps ==
    ASSUME StateOK, IInv, StateOK', WorkersInv', Onward, ~Busy, UNCHANGED coordinator
    PROVE  IInv'
<1> USE DEF coordinator, pass, findings, schedule, outcome, StateOK
<1>1. ShutdownInv'
  BY DEF IInv, ShutdownInv, Onward, Running, WorkersTypeOK
<1>2. PollInv'
  <2>1. \A d \in alive : RanUntil(d) \in Int /\ RanUntil(d)' \in Int
    BY DEF IInv, RanUntil, WorkersInv, WorkersTypeOK
  <2> QED BY <2>1 DEF IInv, PollInv, Onward, Launched, WorkersTypeOK
<1>3. BoundaryInv'
  BY DEF IInv, BoundaryInv, BoundariesAgree, Onward
<1>4. ResultInv'
  <2>1. \A d \in Devices : RanUntil(d) \in Int /\ RanUntil(d)' \in Int
    BY DEF IInv, RanUntil, WorkersInv, WorkersTypeOK
  <2>2. ASSUME NEW d \in Devices, result[d].observed = "yes", known = {}, errors = {}
        PROVE  RanOut(d)'
    <3>1. start \in Nat
      BY <2>2 DEF IInv, ResultInv, Fits
    <3>2. RanUntil(d)' >= RanUntil(d)
      BY DEF Onward
    <3>3. RanOut(d)
      BY <2>2 DEF IInv, ResultInv
    <3> QED BY <2>1, <3>1, <3>2, <3>3, WorkersAssumption DEF RanOut
  <2> QED BY <2>2 DEF IInv, ResultInv, Fits, Onward
<1>5. FirstInv'
  BY DEF IInv, FirstInv
<1>6. AcceptedInv'
  BY DEF IInv, AcceptedInv, ResultInv, Fits, Onward
<1>7. ReportInv'
  <2>1. pc # "done"
    BY DEF Busy
  <2>2. report = None
    BY <2>1 DEF IInv, ReportInv
  <2> QED BY <2>1, <2>2, CoordinatorAssumption
        DEF IInv, ReportInv, PassIsEarned, FailureNotMasked, BlockedIsBenign, ReportIsVerifiable, Statuses
<1> QED BY <1>1, <1>2, <1>3, <1>4, <1>5, <1>6, <1>7 DEF IInv
-----------------------------------------------------------------------------
(* What the coordinator's own steps keep, part by part.                     *)

\* The processes, as the parts below see them, are not touched.
Apart == UNCHANGED <<clock, acceptance, phase, verdict, code, exitedAt>>

(* Only the launch and the shutdown touch the processes.                    *)
LEMMA MostAreApart ==
    ASSUME CoordinatorStep
    PROVE  Apart \/ \E d \in Devices : Launch(d) \/ StopProcess(d)
<1> USE DEF Apart, world, workers, records
<1>1. CASE LaunchFails BY <1>1 DEF LaunchFails
<1>2. CASE InitialStorageFails BY <1>2 DEF InitialStorageFails
<1>3. CASE PollWorkers BY <1>3 DEF PollWorkers
<1>4. CASE ReadFailures BY <1>4 DEF ReadFailures
<1>5. CASE FailuresUnreadable BY <1>5 DEF FailuresUnreadable
<1>6. CASE CheckExits BY <1>6 DEF CheckExits
<1>7. CASE LaunchTimesOut BY <1>7 DEF LaunchTimesOut
<1>8. CASE HeartbeatsUnreadable BY <1>8 DEF HeartbeatsUnreadable
<1>9. CASE HeartbeatRegresses BY <1>9 DEF HeartbeatRegresses, LatchAndEndLaunch
<1>10. CASE WorkerSilent BY <1>10 DEF WorkerSilent, LatchAndEndLaunch
<1>11. CASE FeedGate BY <1>11 DEF FeedGate
<1>12. CASE Confirm BY <1>12 DEF Confirm
<1>13. CASE Cancel BY <1>13 DEF Cancel
<1>14. CASE Refresh BY <1>14 DEF Refresh
<1>15. CASE ScheduleStart BY <1>15 DEF ScheduleStart
<1>16. CASE ScheduleFails BY <1>16 DEF ScheduleFails
<1>17. CASE ReadStopRequest BY <1>17 DEF ReadStopRequest
<1>18. CASE WatchHeartbeats BY <1>18 DEF WatchHeartbeats
<1>19. CASE EndPass BY <1>19 DEF EndPass
<1>20. CASE LoadAcceptances BY <1>20 DEF LoadAcceptances
<1>21. CASE Report BY <1>21 DEF Report
<1> QED BY <1>1, <1>2, <1>3, <1>4, <1>5, <1>6, <1>7, <1>8, <1>9, <1>10, <1>11, <1>12, <1>13,
           <1>14, <1>15, <1>16, <1>17, <1>18, <1>19, <1>20, <1>21 DEF CoordinatorStep

(* Misfortunes are counted up.                                              *)
LEMMA FaultsCountUp ==
    ASSUME StateOK, CoordinatorStep
    PROVE  faults' >= faults
<1> USE WorkersAssumption DEF StateOK, WorkersTypeOK, Misfortune, Suffers
<1>1. ASSUME NEW d \in Devices, Launch(d) PROVE faults' >= faults BY <1>1 DEF Launch
<1>2. ASSUME NEW d \in Devices, StopProcess(d) PROVE faults' >= faults BY <1>2 DEF StopProcess
<1>3. CASE LaunchFails BY <1>3 DEF LaunchFails
<1>4. CASE InitialStorageFails BY <1>4 DEF InitialStorageFails
<1>5. CASE PollWorkers BY <1>5 DEF PollWorkers
<1>6. CASE ReadFailures
  <2>1. faults' = faults \/ \E raises \in {0, 1} : Suffers(raises)
    <3> HIDE DEF Suffers, StateOK
    <3> QED BY <1>6 DEF ReadFailures
  <2> QED BY <2>1
<1>7. CASE FailuresUnreadable BY <1>7 DEF FailuresUnreadable
<1>8. CASE CheckExits
  <2>1. \E raises \in {0, 1} : Suffers(raises)
    <3> HIDE DEF Suffers, StateOK
    <3> QED BY <1>8 DEF CheckExits
  <2> QED BY <2>1
<1>9. CASE LaunchTimesOut BY <1>9 DEF LaunchTimesOut
<1>10. CASE HeartbeatsUnreadable BY <1>10 DEF HeartbeatsUnreadable
<1>11. CASE HeartbeatRegresses BY <1>11 DEF HeartbeatRegresses, LatchAndEndLaunch
<1>12. CASE WorkerSilent BY <1>12 DEF WorkerSilent, LatchAndEndLaunch
<1>13. CASE FeedGate BY <1>13 DEF FeedGate
<1>14. CASE Confirm BY <1>14 DEF Confirm
<1>15. CASE Cancel BY <1>15 DEF Cancel
<1>16. CASE Refresh BY <1>16 DEF Refresh
<1>17. CASE ScheduleStart BY <1>17 DEF ScheduleStart
<1>18. CASE ScheduleFails BY <1>18 DEF ScheduleFails
<1>19. CASE ReadStopRequest BY <1>19 DEF ReadStopRequest
<1>20. CASE WatchHeartbeats
  <2>1. PICK unread \in {0, 1}, raises \in {0, 1}, lost \in SUBSET Devices :
            Suffers(unread + raises + Cardinality(lost))
    BY <1>20 DEF WatchHeartbeats
  <2> QED BY <2>1, Counting
<1>21. CASE EndPass BY <1>21 DEF EndPass
<1>22. CASE LoadAcceptances
  <2>1. PICK unread \in SUBSET Devices : Suffers(Cardinality(unread))
    BY <1>22 DEF LoadAcceptances
  <2> QED BY <2>1, Counting
<1>23. CASE Report
  <2>1. \E unread, unwritten \in {0, 1} : Suffers(unread + unwritten)
    <3> HIDE DEF Suffers
    <3> QED BY <1>23 DEF Report
  <2> QED BY <2>1
<1> HIDE DEF StateOK, WorkersTypeOK, Misfortune, Suffers
<1> QED BY <1>1, <1>2, <1>3, <1>4, <1>5, <1>6, <1>7, <1>8, <1>9, <1>10, <1>11, <1>12, <1>13,
           <1>14, <1>15, <1>16, <1>17, <1>18, <1>19, <1>20, <1>21, <1>22, <1>23 DEF CoordinatorStep

(* A worker that is started has no exit, one that is stopped has one.       *)
LEMMA CoordinatorWorkers ==
    ASSUME StateOK, WorkersInv, CoordinatorStep
    PROVE  WorkersInv'
<1> USE DEF StateOK, WorkersTypeOK, WorkersInv, records
<1>1. CASE Apart
  BY <1>1 DEF Apart
<1>2. ASSUME NEW d \in Devices, Launch(d) PROVE WorkersInv'
  BY <1>2, FirstOfIsOne DEF Launch, Launched
<1>3. ASSUME NEW d \in Devices, StopProcess(d) PROVE WorkersInv'
  BY <1>3, WorkersAssumption DEF StopProcess, Exit
<1> QED BY <1>1, <1>2, <1>3, MostAreApart

(* A shutdown has every running worker on its list, and what it leaves      *)
(* running could not be killed.                                             *)
LEMMA CoordinatorShutdown ==
    ASSUME StateOK, IInv, StateOK', CoordinatorStep
    PROVE  ShutdownInv'
<1> USE DEF IInv, ShutdownInv
<1>a. Running \subseteq Launched
  BY DEF Running, Launched
<1>b. Apart => Running' = Running
  BY DEF Apart, Running
<1>c. faults' >= faults /\ faults \in Int /\ faults' \in Int
  BY FaultsCountUp DEF StateOK, WorkersTypeOK
<1>d. ASSUME Apart, NEW e, EndLaunch(e) PROVE ShutdownInv'
  BY <1>a, <1>b, <1>d DEF EndLaunch
<1>e. ASSUME Apart, pc' \notin {"terminate", "stopLate", "load", "report", "done"}
      PROVE  ShutdownInv'
  BY <1>e
<1>1. ASSUME NEW d \in Devices, Launch(d) PROVE ShutdownInv'
  BY <1>1 DEF Launch
<1>2. ASSUME NEW d \in Devices, StopProcess(d) PROVE ShutdownInv'
  <2>1. pc \in {"terminate", "stopLate"} /\ pc' \in {pc, "load"} /\ unstopped' = unstopped \ {d}
        /\ (pc' = "load" => unstopped = {d} \/ pc = "load")
    BY <1>2 DEF StopProcess
  <2>2. CASE faults > 0
    BY <1>c, <2>2
  <2>3. CASE Exit(d, -15) /\ UNCHANGED faults
    <3>1. Running' = Running \ {d}
      BY <2>3 DEF Exit, Running, StateOK, WorkersTypeOK
    <3> QED BY <1>c, <2>1, <2>2, <3>1
  <2>4. CASE Misfortune
    BY <1>c, <2>4 DEF Misfortune, StateOK, WorkersTypeOK
  <2>5. CASE d \notin Running /\ UNCHANGED <<faults, phase, code, exitedAt>>
    <3>1. Running' = Running
      BY <2>5 DEF Running
    <3> QED BY <1>c, <2>1, <2>2, <2>5, <3>1
  <2> QED BY <1>2, <2>2, <2>3, <2>4, <2>5 DEF StopProcess
<1>3. ASSUME Apart PROVE ShutdownInv'
  <2> USE <1>3, <1>b, <1>c
  <2>3. CASE LaunchFails BY <1>d, <2>3 DEF LaunchFails
  <2>4. CASE InitialStorageFails BY <1>a, <2>4 DEF InitialStorageFails
  <2>5. CASE PollWorkers BY <1>e, <2>5 DEF PollWorkers
  <2>6. CASE ReadFailures BY <1>e, <2>6 DEF ReadFailures
  <2>7. CASE FailuresUnreadable BY <1>e, <2>7 DEF FailuresUnreadable
  <2>8. CASE CheckExits
    <3>1. \/ pc' = "terminate" /\ unstopped' = Launched
          \/ pc' \in {"gate", "stopRequest"}
      BY <2>8 DEF CheckExits
    <3> QED BY <1>a, <1>e, <3>1
  <2>9. CASE LaunchTimesOut BY <1>d, <2>9 DEF LaunchTimesOut
  <2>10. CASE HeartbeatsUnreadable BY <1>d, <2>10 DEF HeartbeatsUnreadable
  <2>11. CASE HeartbeatRegresses BY <1>d, <2>11 DEF HeartbeatRegresses, LatchAndEndLaunch
  <2>12. CASE WorkerSilent BY <1>d, <2>12 DEF WorkerSilent, LatchAndEndLaunch
  <2>13. CASE FeedGate
    <3>1. EndLaunch(Error("joint_warmup_timeout")) \/ pc' \in {"poll", "schedule", "prompt"}
      BY <2>13 DEF FeedGate, StateOK
    <3> QED BY <1>d, <1>e, <3>1
  <2>14. CASE Confirm BY <1>e, <2>14 DEF Confirm
  <2>15. CASE Cancel BY <1>d, <2>15 DEF Cancel
  <2>16. CASE Refresh BY <1>e, <2>16 DEF Refresh
  <2>17. CASE ScheduleStart BY <1>e, <2>17 DEF ScheduleStart
  <2>18. CASE ScheduleFails BY <1>d, <2>18 DEF ScheduleFails
  <2>19. CASE ReadStopRequest BY <1>e, <2>19 DEF ReadStopRequest
  <2>20. CASE WatchHeartbeats BY <1>e, <2>20 DEF WatchHeartbeats
  <2>21. CASE EndPass
    <3> DEFINE open == {d \in Devices : result[d].code = None}
    <3>1. Running \subseteq open
      BY DEF Running, ResultInv, Fits
    <3>2. \/ pc' = "stopLate" /\ unstopped' = open
          \/ pc' = "load" /\ open = {}
          \/ pc' = "poll"
      BY <2>21 DEF EndPass
    <3> QED BY <3>1, <3>2
  <2>22. CASE LoadAcceptances BY <2>22 DEF LoadAcceptances
  <2>23. CASE Report BY <2>23 DEF Report
  <2>24. ASSUME NEW d \in Devices, Launch(d) \/ StopProcess(d) PROVE ShutdownInv'
    BY <2>24, <1>1, <1>2
  <2> HIDE DEF ShutdownInv, IInv
  <2> QED BY <2>3, <2>4, <2>5, <2>6, <2>7, <2>8, <2>9, <2>10, <2>11, <2>12, <2>13, <2>14, <2>15,
             <2>16, <2>17, <2>18, <2>19, <2>20, <2>21, <2>22, <2>23, <2>24 DEF CoordinatorStep
<1> QED BY <1>1, <1>2, <1>3, MostAreApart

(* What the poll saw is kept until the next one.                            *)
LEMMA CoordinatorPoll ==
    ASSUME StateOK, IInv, StateOK', CoordinatorStep
    PROVE  PollInv'
<1> USE DEF IInv, PollInv, StateOK, WorkersTypeOK
<1>a. \A d \in Devices : RanUntil(d) \in Nat /\ RanUntil(d) <= clock
  BY DEF RanUntil, WorkersInv
<1>b. Apart => clock' = clock /\ Launched' = Launched /\ (\A d \in Devices : RanUntil(d)' = RanUntil(d))
  BY DEF Apart, Launched, RanUntil
<1>c. ASSUME Apart, UNCHANGED <<now, alive>>, pc' \notin {"failures", "exits"} PROVE PollInv'
  BY <1>b, <1>c
<1>d. ASSUME Apart, NewPass, pc' \notin {"failures", "exits"} PROVE PollInv'
  BY <1>a, <1>b, <1>d DEF NewPass
<1>e. ASSUME NEW e, EndLaunch(e) PROVE pc' \notin {"failures", "exits"}
  BY <1>e DEF EndLaunch
<1>1. ASSUME NEW d \in Devices, Launch(d) PROVE PollInv'
  <2>1. \A e \in Devices : RanUntil(e)' = IF e = d THEN clock ELSE RanUntil(e)
    BY <1>1 DEF Launch, RanUntil
  <2> QED BY <1>1, <2>1, <1>a DEF Launch, pass
<1>2. ASSUME NEW d \in Devices, StopProcess(d) PROVE PollInv'
  <2>1. \A e \in Devices : RanUntil(e)' \in {RanUntil(e), clock} /\ clock' = clock
    BY <1>2 DEF StopProcess, Exit, RanUntil
  <2>2. UNCHANGED <<now, alive>> /\ pc' \in {"terminate", "stopLate", "load"}
    BY <1>2 DEF StopProcess
  <2> QED BY <2>1, <2>2
<1>3. ASSUME Apart PROVE PollInv'
  <2> USE <1>3, <1>b, <1>c, <1>d, <1>e DEF pass
  <2>3. CASE LaunchFails BY <2>3 DEF LaunchFails
  <2>4. CASE InitialStorageFails BY <2>4 DEF InitialStorageFails
  <2>5. CASE PollWorkers
    <3>1. now' = clock /\ alive' = Running
      BY <2>5 DEF PollWorkers
    <3>2. \A d \in Running : RanUntil(d) = clock
      BY DEF Running, RanUntil
    <3>3. \A d \in Launched : d \in Running \/ phase[d] = "exited"
      BY DEF Running, Launched
    <3> QED BY <3>1, <3>2, <3>3 DEF Apart, Running
  <2>6. CASE ReadFailures BY <2>6 DEF ReadFailures, Apart
  <2>7. CASE FailuresUnreadable BY <2>7 DEF FailuresUnreadable, Apart
  <2>8. CASE CheckExits
    <3>1. UNCHANGED <<now, alive>> /\ pc' \in {"terminate", "gate", "stopRequest"}
      BY <2>8 DEF CheckExits
    <3> QED BY <3>1
  <2>9. CASE LaunchTimesOut BY <2>9 DEF LaunchTimesOut
  <2>10. CASE HeartbeatsUnreadable BY <2>10 DEF HeartbeatsUnreadable
  <2>11. CASE HeartbeatRegresses BY <2>11 DEF HeartbeatRegresses, LatchAndEndLaunch
  <2>12. CASE WorkerSilent BY <2>12 DEF WorkerSilent, LatchAndEndLaunch
  <2>13. CASE FeedGate
    <3>1. (UNCHANGED <<now, alive>> \/ NewPass) /\ pc' \notin {"failures", "exits"}
      BY <2>13 DEF FeedGate
    <3> QED BY <3>1
  <2>14. CASE Confirm BY <2>14 DEF Confirm
  <2>15. CASE Cancel BY <2>15 DEF Cancel
  <2>16. CASE Refresh BY <2>16 DEF Refresh
  <2>17. CASE ScheduleStart BY <2>17 DEF ScheduleStart
  <2>18. CASE ScheduleFails BY <2>18 DEF ScheduleFails
  <2>19. CASE ReadStopRequest BY <2>19 DEF ReadStopRequest
  <2>20. CASE WatchHeartbeats BY <2>20 DEF WatchHeartbeats
  <2>21. CASE EndPass
    <3>1. (UNCHANGED <<now, alive>> \/ NewPass) /\ pc' \notin {"failures", "exits"}
      BY <2>21 DEF EndPass
    <3> QED BY <3>1
  <2>22. CASE LoadAcceptances BY <2>22 DEF LoadAcceptances
  <2>23. CASE Report BY <2>23 DEF Report
  <2>24. ASSUME NEW d \in Devices, Launch(d) \/ StopProcess(d) PROVE PollInv'
    BY <2>24, <1>1, <1>2
  <2> HIDE DEF PollInv, StateOK, WorkersTypeOK, IInv
  <2> QED BY <2>3, <2>4, <2>5, <2>6, <2>7, <2>8, <2>9, <2>10, <2>11, <2>12, <2>13, <2>14, <2>15,
             <2>16, <2>17, <2>18, <2>19, <2>20, <2>21, <2>22, <2>23, <2>24 DEF CoordinatorStep
<1> HIDE DEF PollInv, StateOK, WorkersTypeOK, IInv
<1> QED BY <1>1, <1>2, <1>3, MostAreApart

(* Nothing that has been noted is forgotten.                                *)
LEMMA FindingsStay ==
    ASSUME StateOK, CoordinatorStep
    PROVE  errors \subseteq errors' /\ known \subseteq known'
<1> USE DEF findings, Noted
<1>1. ASSUME NEW d \in Devices, Launch(d) \/ StopProcess(d)
      PROVE  errors \subseteq errors' /\ known \subseteq known'
  BY <1>1 DEF Launch, StopProcess
<1>2. CASE LaunchFails BY <1>2 DEF LaunchFails
<1>3. CASE InitialStorageFails BY <1>3 DEF InitialStorageFails
<1>4. CASE PollWorkers BY <1>4 DEF PollWorkers
<1>5. CASE ReadFailures
  <2>1. known \subseteq known' /\ (errors' = errors \/ \E n \in {0, 1} : Noted({}, n))
    <3> HIDE DEF Noted
    <3> QED BY <1>5 DEF ReadFailures
  <2> QED BY <2>1
<1>6. CASE FailuresUnreadable BY <1>6 DEF FailuresUnreadable
<1>7. CASE CheckExits
  <2>1. known' = known /\ \E n \in {0, 1} : Noted({}, n)
    <3> HIDE DEF Noted
    <3> QED BY <1>7 DEF CheckExits
  <2> QED BY <2>1
<1>8. CASE LaunchTimesOut BY <1>8 DEF LaunchTimesOut
<1>9. CASE HeartbeatsUnreadable BY <1>9 DEF HeartbeatsUnreadable
<1>10. CASE HeartbeatRegresses BY <1>10 DEF HeartbeatRegresses, LatchAndEndLaunch
<1>11. CASE WorkerSilent BY <1>11 DEF WorkerSilent, LatchAndEndLaunch
<1>12. CASE FeedGate BY <1>12 DEF FeedGate
<1>13. CASE Confirm BY <1>13 DEF Confirm
<1>14. CASE Cancel BY <1>14 DEF Cancel
<1>15. CASE Refresh BY <1>15 DEF Refresh
<1>16. CASE ScheduleStart BY <1>16 DEF ScheduleStart
<1>17. CASE ScheduleFails BY <1>17 DEF ScheduleFails
<1>18. CASE ReadStopRequest BY <1>18 DEF ReadStopRequest
<1>19. CASE WatchHeartbeats
  <2>1. known \subseteq known' /\ \E reasons, n : Noted(reasons, n)
    <3> HIDE DEF Noted
    <3> QED BY <1>19 DEF WatchHeartbeats
  <2> QED BY <2>1
<1>20. CASE EndPass BY <1>20 DEF EndPass
<1>21. CASE LoadAcceptances BY <1>21 DEF LoadAcceptances
<1>22. CASE Report BY <1>22 DEF Report
<1> HIDE DEF findings, Noted
<1> QED BY <1>1, <1>2, <1>3, <1>4, <1>5, <1>6, <1>7, <1>8, <1>9, <1>10, <1>11, <1>12, <1>13,
           <1>14, <1>15, <1>16, <1>17, <1>18, <1>19, <1>20, <1>21, <1>22 DEF CoordinatorStep

\* A stop boundary is set, in the coordinator and on disk, or a barrier call
\* has raised.
Stops ==
    /\ stop = None /\ start # None
    /\ stop' \in Nat
    /\ stopRecord' \in {None, stop'}
    /\ stopRecord' = None => "barrier_io" \in errors'

(* What PublishStop and the note of its misfortune come to.                 *)
LEMMA PublishedStop ==
    ASSUME NEW at \in Nat, NEW reasons, NEW n \in Nat, NEW raises \in {0, 1},
           PublishStop(at, raises = 1), Noted(reasons, n), raises = 1 => n > 0,
           stop = None, start # None
    PROVE  Stops
  BY CoordinatorAssumption, WorkersAssumption DEF PublishStop, Noted, Stops

(* The boundary of a recording is set once and by all its parts alike.      *)
LEMMA StopIsSetOnce ==
    ASSUME StateOK, IInv, CoordinatorStep
    PROVE  UNCHANGED <<stop, stopRecord>> \/ Stops
<1> USE DEF world, records
<1> DEFINE Goal == UNCHANGED <<stop, stopRecord>> \/ Stops
<1>a. now \in Nat
  BY DEF StateOK
<1>1. ASSUME NEW d \in Devices, Launch(d) \/ StopProcess(d) PROVE Goal
  BY <1>1 DEF Launch, StopProcess
<1>2. CASE LaunchFails BY <1>2 DEF LaunchFails
<1>3. CASE InitialStorageFails BY <1>3 DEF InitialStorageFails
<1>4. CASE PollWorkers BY <1>4 DEF PollWorkers
<1>5. CASE ReadFailures
  <2> DEFINE new == {d \in Devices : failure[d] # None} \ known
  <2>1. CASE new = {}
    BY <1>5, <2>1 DEF ReadFailures
  <2>2. CASE new # {}
    <3>1. PICK d \in new, raises \in {0, 1} :
              /\ Noted({}, raises)
              /\ IF start # None /\ stop = None THEN PublishStop(failure[d], raises = 1)
                 ELSE UNCHANGED <<stop, stopRecord>>
      BY <1>5, <2>2 DEF ReadFailures
    <3>2. failure[d] \in Nat
      BY DEF StateOK, WorkersTypeOK
    <3> QED BY <3>1, <3>2, PublishedStop
  <2> QED BY <2>1, <2>2
<1>6. CASE FailuresUnreadable
  <2>1. PICK raises \in {0, 1} :
            /\ Noted({}, 1)
            /\ IF start # None /\ stop = None THEN PublishStop(now, raises = 1)
               ELSE UNCHANGED <<stop, stopRecord>>
    BY <1>6 DEF FailuresUnreadable
  <2> QED BY <1>a, <2>1, PublishedStop
<1>7. CASE CheckExits
  <2>1. PICK raises \in {0, 1} :
            /\ Noted({}, raises)
            /\ \/ start # None /\ stop = None /\ PublishStop(now, raises = 1)
               \/ UNCHANGED <<stop, stopRecord>>
    BY <1>7 DEF CheckExits
  <2> QED BY <1>a, <2>1, PublishedStop
<1>8. CASE LaunchTimesOut BY <1>8 DEF LaunchTimesOut
<1>9. CASE HeartbeatsUnreadable BY <1>9 DEF HeartbeatsUnreadable
<1>10. CASE HeartbeatRegresses BY <1>10 DEF HeartbeatRegresses, LatchAndEndLaunch
<1>11. CASE WorkerSilent BY <1>11 DEF WorkerSilent, LatchAndEndLaunch
<1>12. CASE FeedGate BY <1>12 DEF FeedGate
<1>13. CASE Confirm BY <1>13 DEF Confirm
<1>14. CASE Cancel BY <1>14 DEF Cancel
<1>15. CASE Refresh BY <1>15 DEF Refresh
<1>16. CASE ScheduleStart BY <1>16 DEF ScheduleStart
<1>17. CASE ScheduleFails BY <1>17 DEF ScheduleFails
<1>18. CASE ReadStopRequest
  <2>1. start # None
    BY <1>18 DEF IInv, BoundaryInv, ReadStopRequest
  <2>2. \/ UNCHANGED <<stop, stopRecord>>
        \/ \E raises \in {0, 1} : stop = None /\ Noted({}, raises) /\ PublishStop(now, raises = 1)
    BY <1>18 DEF ReadStopRequest
  <2> QED BY <1>a, <2>1, <2>2, PublishedStop
<1>19. CASE WatchHeartbeats
  <2>1. start # None
    BY <1>19 DEF IInv, BoundaryInv, WatchHeartbeats
  <2>2. PICK unread \in {0, 1}, raises \in {0, 1}, lost \in SUBSET Devices,
            reasons \in {{}, {"timestamp_regression"}} :
            /\ Noted(reasons, unread + raises + Cardinality(lost))
            /\ \/ stop = None /\ PublishStop(now, raises = 1)
               \/ UNCHANGED <<stop, stopRecord>>
    BY <1>19 DEF WatchHeartbeats
  <2>3. /\ unread + raises + Cardinality(lost) \in Nat
        /\ raises = 1 => unread + raises + Cardinality(lost) > 0
    BY Counting
  <2> QED BY <1>a, <2>1, <2>2, <2>3, PublishedStop
<1>20. CASE EndPass BY <1>20 DEF EndPass
<1>21. CASE LoadAcceptances BY <1>21 DEF LoadAcceptances
<1>22. CASE Report BY <1>22 DEF Report
<1> QED BY <1>1, <1>2, <1>3, <1>4, <1>5, <1>6, <1>7, <1>8, <1>9, <1>10, <1>11, <1>12, <1>13,
           <1>14, <1>15, <1>16, <1>17, <1>18, <1>19, <1>20, <1>21, <1>22 DEF CoordinatorStep

(* A recording has boundaries, a launch has none; they agree with the       *)
(* records.                                                                 *)
LEMMA CoordinatorBoundary ==
    ASSUME StateOK, IInv, StateOK', CoordinatorStep
    PROVE  BoundaryInv'
<1> USE WorkersAssumption DEF IInv, BoundaryInv, BoundariesAgree
<1>a. errors \subseteq errors'
  BY FindingsStay
<1>b. start \in Nat \cup {None} /\ stop \in Nat \cup {None} /\ formalEnd \in Int \cup {None}
  BY DEF StateOK
<1>c. UNCHANGED <<stop, stopRecord>> \/ Stops
  BY StopIsSetOnce
<1>d. ASSUME UNCHANGED <<startRecord, start, formalEnd>>,
             pc' \notin {"stopRequest", "watch", "endPass", "stopLate"} \/ start # None,
             pc' \notin {"launch", "gate", "prompt", "refresh", "schedule", "terminate"} \/ start = None
      PROVE  BoundaryInv'
  BY <1>a, <1>c, <1>d DEF Stops
<1>e. ASSUME UNCHANGED <<startRecord, start>>, formalEnd' = None, pc' \in {"poll", "load"}
      PROVE  BoundaryInv'
  BY <1>a, <1>c, <1>e DEF Stops
<1>f. ASSUME UNCHANGED <<startRecord, start>>, UNCHANGED formalEnd \/ formalEnd' = None,
             pc' \in {"poll", "load", "schedule", "prompt", "terminate"}, start = None
      PROVE  BoundaryInv'
  BY <1>a, <1>c, <1>f DEF Stops
<1>g. ASSUME NEW e, EndLaunch(e) PROVE pc' \in {"load", "terminate"}
  BY <1>g DEF EndLaunch
<1> USE DEF pass, schedule, world, records, NewPass
<1>1. ASSUME NEW d \in Devices, Launch(d) PROVE BoundaryInv'
  <2>1. start = None
    BY <1>1 DEF Launch
  <2> QED BY <1>1, <1>d, <2>1 DEF Launch
<1>2. ASSUME NEW d \in Devices, StopProcess(d) PROVE BoundaryInv'
  BY <1>2, <1>d DEF StopProcess
<1>3. CASE LaunchFails BY <1>3, <1>f, <1>g DEF LaunchFails
<1>4. CASE InitialStorageFails BY <1>4, <1>d DEF InitialStorageFails
<1>5. CASE PollWorkers
  <2>1. /\ UNCHANGED <<startRecord, start, stop, stopRecord>>
        /\ formalEnd' = FormalEnd /\ pc' = "failures"
    BY <1>5 DEF PollWorkers
  <2> QED BY <1>a, <2>1 DEF FormalEnd
<1>6. CASE ReadFailures BY <1>6, <1>d DEF ReadFailures
<1>7. CASE FailuresUnreadable BY <1>7, <1>d DEF FailuresUnreadable
<1>8. CASE CheckExits
  <2>1. /\ UNCHANGED <<startRecord, start, formalEnd>>
        /\ IF start = None THEN pc' \in {"terminate", "gate"} ELSE pc' = "stopRequest"
    BY <1>8 DEF CheckExits
  <2> QED BY <1>d, <2>1
<1>9. CASE LaunchTimesOut BY <1>9, <1>f, <1>g DEF LaunchTimesOut
<1>10. CASE HeartbeatsUnreadable BY <1>10, <1>f, <1>g DEF HeartbeatsUnreadable
<1>11. CASE HeartbeatRegresses BY <1>11, <1>f, <1>g DEF HeartbeatRegresses, LatchAndEndLaunch
<1>12. CASE WorkerSilent BY <1>12, <1>f, <1>g DEF WorkerSilent, LatchAndEndLaunch
<1>13. CASE FeedGate
  <2>1. /\ EndLaunch(Error("joint_warmup_timeout")) \/ pc' \in {"poll", "schedule", "prompt"}
        /\ UNCHANGED formalEnd \/ formalEnd' = None
    BY <1>13 DEF FeedGate, StateOK
  <2> QED BY <1>13, <1>f, <1>g, <2>1 DEF FeedGate
<1>14. CASE Confirm BY <1>14, <1>d DEF Confirm
<1>15. CASE Cancel BY <1>15, <1>f, <1>g DEF Cancel
<1>16. CASE Refresh BY <1>16, <1>f DEF Refresh
<1>17. CASE ScheduleStart
  <2>1. /\ start' \in Nat /\ startRecord' = start' /\ start = None
        /\ UNCHANGED <<stop, stopRecord, formalEnd>> /\ pc' = "poll"
    BY <1>17, CoordinatorAssumption DEF ScheduleStart, StateOK, WorkersTypeOK
  <2> QED BY <1>a, <2>1
<1>18. CASE ScheduleFails
  <2>1. /\ "barrier_io" \in errors' /\ start' = start /\ start = None /\ pc' \in {"load", "terminate"}
        /\ UNCHANGED <<stop, stopRecord, formalEnd>>
    BY <1>18, <1>g DEF ScheduleFails, Noted
  <2> QED BY <1>a, <2>1
<1>19. CASE ReadStopRequest
  <2>1. /\ UNCHANGED <<startRecord, start>> /\ start # None
        /\ formalEnd' = IF stop' # None THEN stop' ELSE formalEnd
        /\ pc' \in {"watch", "endPass"}
    BY <1>19 DEF ReadStopRequest
  <2> QED BY <1>a, <1>c, <2>1 DEF Stops
<1>20. CASE WatchHeartbeats
  <2>1. UNCHANGED <<startRecord, start, formalEnd>> /\ start # None /\ pc' = "endPass"
    BY <1>20 DEF WatchHeartbeats
  <2> QED BY <1>d, <2>1
<1>21. CASE EndPass
  <2>1. /\ UNCHANGED <<startRecord, start>> /\ start # None
        /\ \/ pc' = "stopLate" /\ UNCHANGED formalEnd
           \/ pc' \in {"load", "poll"} /\ formalEnd' = None
    BY <1>21 DEF EndPass
  <2> QED BY <1>d, <1>e, <2>1
<1>22. CASE LoadAcceptances BY <1>22, <1>d DEF LoadAcceptances
<1>23. CASE Report BY <1>23, <1>d DEF Report
<1> HIDE DEF BoundaryInv, IInv, BoundariesAgree
<1> QED BY <1>1, <1>2, <1>3, <1>4, <1>5, <1>6, <1>7, <1>8, <1>9, <1>10, <1>11, <1>12, <1>13,
           <1>14, <1>15, <1>16, <1>17, <1>18, <1>19, <1>20, <1>21, <1>22, <1>23 DEF CoordinatorStep

(* The first error ends a launch, or stops a recording without a duration.  *)
LEMMA CoordinatorFirst ==
    ASSUME StateOK, IInv, StateOK', CoordinatorStep
    PROVE  FirstInv'
<1> USE DEF IInv, FirstInv
<1>a. /\ start \in Nat \cup {None} /\ stop \in Nat \cup {None} /\ now \in Nat /\ None \notin Nat
      /\ first \in FirstErrors \cup {None} /\ None \notin FirstErrors
  BY WorkersAssumption, CoordinatorAssumption DEF StateOK
<1>b. UNCHANGED <<stop, stopRecord>> \/ (stop = None /\ stop' # None)
  BY <1>a, StopIsSetOnce DEF Stops
<1>c. ASSUME NEW e \in FirstErrors, FirstIs(e) PROVE first' # None
  BY <1>a, <1>c, FirstStays
<1>d. /\ \A r \in Reasons : Error(r) \in FirstErrors
      /\ {"worker_launch", "storage_io", "barrier_io", "worker_failure", "worker_exit",
          "worker_disconnect", "timestamp_regression", "joint_warmup_timeout",
          "operator_cancelled", "worker_stop_timeout", "worker_finalize_timeout"} \subseteq Reasons
  BY ErrorTypes DEF Reasons
<1>e. ASSUME NEW r \in Reasons, EndLaunch(Error(r)), start' = start, start = None
      PROVE  FirstInv'
  <2>1. FirstIs(Error(r)) /\ pc' \in {"load", "terminate"}
    BY <1>e DEF EndLaunch
  <2> QED BY <1>c, <1>d, <1>e, <2>1
<1>f. ASSUME UNCHANGED <<first, start>>, pc' = "failures" /\ pc = "poll"
      PROVE  FirstInv'
  BY <1>b, <1>f
<1>g. ASSUME UNCHANGED <<first, start>>, pc' \in {"poll", "schedule", "prompt", "refresh"},
             start = None, pc \in {"gate", "prompt", "refresh"}
      PROVE  FirstInv'
  BY <1>g
<1> USE DEF pass, findings, schedule, world
<1>1. ASSUME NEW d \in Devices, Launch(d) PROVE FirstInv'
  BY <1>1, <1>b DEF Launch, BoundaryInv
<1>2. ASSUME NEW d \in Devices, StopProcess(d) PROVE FirstInv'
  <2>1. UNCHANGED <<first, start>> /\ pc \in {"terminate", "stopLate"} /\ pc' \in {pc, "load"}
    BY <1>2 DEF StopProcess
  <2>2. start = None => pc = "terminate"
    BY <2>1 DEF BoundaryInv
  <2> QED BY <2>1, <2>2
<1>3. CASE LaunchFails BY <1>3, <1>d, <1>e DEF LaunchFails, BoundaryInv
<1>4. CASE InitialStorageFails BY <1>4 DEF InitialStorageFails
<1>5. CASE PollWorkers BY <1>5, <1>f DEF PollWorkers
<1>6. CASE ReadFailures
  <2>1. pc' = "exits" /\ start' = start /\ pc = "failures"
        /\ \/ first' = first \/ start = None \/ stop # None
           \/ \E d \in Devices : \E n : failure[d] # None /\ PublishStop(failure[d], n)
    BY <1>6 DEF ReadFailures
  <2>2. first' = first \/ start = None \/ stop' # None
    BY <1>b, <2>1 DEF PublishStop
  <2> QED BY <1>b, <2>1, <2>2
<1>7. CASE FailuresUnreadable
  <2>1. pc' = "exits" /\ start' = start /\ pc = "failures"
        /\ (first' = first \/ start = None \/ stop # None \/ \E n : PublishStop(now, n))
    BY <1>7 DEF FailuresUnreadable
  <2>2. first' = first \/ start = None \/ stop' # None
    BY <1>a, <1>b, <2>1 DEF PublishStop
  <2> QED BY <1>b, <2>1, <2>2
<1>8. CASE CheckExits
  <2>1. /\ start' = start /\ pc = "exits"
        /\ IF start = None /\ first' # None THEN pc' = "terminate"
           ELSE pc' = IF start = None THEN "gate" ELSE "stopRequest"
    BY <1>8 DEF CheckExits
  <2>2. \/ first' = first \/ start = None \/ stop # None \/ \E n : PublishStop(now, n)
        \/ formalEnd # None
    BY <1>8 DEF CheckExits
  <2>3. first' = first \/ start = None \/ stop' # None \/ DURATION_NS # None
    BY <1>a, <1>b, <2>2 DEF PublishStop, BoundaryInv
  <2> QED BY <1>b, <2>1, <2>3
<1>9. CASE LaunchTimesOut BY <1>9, <1>d, <1>e DEF LaunchTimesOut, BoundaryInv
<1>10. CASE HeartbeatsUnreadable BY <1>10, <1>d, <1>e DEF HeartbeatsUnreadable, BoundaryInv
<1>11. CASE HeartbeatRegresses
  BY <1>11, <1>d, <1>e DEF HeartbeatRegresses, LatchAndEndLaunch, BoundaryInv
<1>12. CASE WorkerSilent BY <1>12, <1>d, <1>e DEF WorkerSilent, LatchAndEndLaunch, BoundaryInv
<1>13. CASE FeedGate
  <2>1. start = None /\ start' = start /\ pc = "gate"
    BY <1>13 DEF FeedGate, BoundaryInv
  <2>2. \/ EndLaunch(Error("joint_warmup_timeout"))
        \/ pc' \in {"poll", "schedule", "prompt"} /\ UNCHANGED first
    BY <1>13 DEF FeedGate, StateOK
  <2> QED BY <1>d, <1>e, <1>g, <2>1, <2>2
<1>14. CASE Confirm BY <1>14, <1>g DEF Confirm, BoundaryInv
<1>15. CASE Cancel BY <1>15, <1>d, <1>e DEF Cancel, BoundaryInv
<1>16. CASE Refresh BY <1>16, <1>g DEF Refresh, BoundaryInv
<1>17. CASE ScheduleStart
  <2>1. first = None
    BY <1>17 DEF ScheduleStart, BoundaryInv
  <2>2. first' = None /\ start' \in Nat /\ pc' = "poll"
    BY <1>17, <2>1, CoordinatorAssumption DEF ScheduleStart, StateOK, WorkersTypeOK
  <2> QED BY <1>a, <2>2
<1>18. CASE ScheduleFails BY <1>18, <1>d, <1>e DEF ScheduleFails, BoundaryInv
<1>19. CASE ReadStopRequest
  <2>1. start # None /\ start' = start /\ pc = "stopRequest"
    BY <1>19 DEF ReadStopRequest, BoundaryInv
  <2>2. first' = first \/ stop' # None
    BY <1>19, <1>a DEF ReadStopRequest, PublishStop
  <2> QED BY <1>a, <1>b, <2>1, <2>2
<1>20. CASE WatchHeartbeats
  <2>1. start # None /\ start' = start /\ pc = "watch"
    BY <1>20 DEF WatchHeartbeats, BoundaryInv
  <2>2. first' = first \/ stop # None \/ \E n : PublishStop(now, n)
    BY <1>20 DEF WatchHeartbeats
  <2> QED BY <1>a, <1>b, <2>1, <2>2 DEF PublishStop
<1>21. CASE EndPass
  <2>1. start # None /\ start' = start /\ pc = "endPass"
    BY <1>21 DEF EndPass, BoundaryInv
  <2>2. pc' = "stopLate" \/ (pc' \in {"load", "poll"} /\ first' = first)
    BY <1>21 DEF EndPass
  <2> QED BY <1>b, <2>1, <2>2
<1>22. CASE LoadAcceptances
  <2>1. ASSUME first # None PROVE first' # None
    <3>0. first \in FirstErrors \cup {None} /\ accepted' \in [Devices -> Statuses \cup {None}]
      BY DEF StateOK
    <3>1. first' = AsBlocked(WithAcceptances(first, accepted', errors'), accepted', result, known, errors')
      BY <1>22 DEF LoadAcceptances
    <3>2. first' = None => WithAcceptances(first, accepted', errors') = None
      BY <3>0, <3>1, AcceptanceErrors
    <3>3. WithAcceptances(first, accepted', errors') # None
      BY <2>1, <3>0, WithAcceptancesErrors
    <3> QED BY <3>2, <3>3
  <2> QED BY <1>22, <2>1 DEF LoadAcceptances
<1>23. CASE Report BY <1>23 DEF Report
<1> HIDE DEF FirstInv, IInv
<1> QED BY <1>1, <1>2, <1>3, <1>4, <1>5, <1>6, <1>7, <1>8, <1>9, <1>10, <1>11, <1>12, <1>13,
           <1>14, <1>15, <1>16, <1>17, <1>18, <1>19, <1>20, <1>21, <1>22, <1>23 DEF CoordinatorStep

(* The trusted acceptances are loaded once and are what is there.           *)
LEMMA CoordinatorAccepted ==
    ASSUME StateOK, IInv, StateOK', CoordinatorStep
    PROVE  AcceptedInv'
<1> USE DEF IInv, AcceptedInv, outcome, world
<1>a. ASSUME pc \notin {"load", "report", "done"}, pc' # "report", accepted' = accepted
      PROVE  AcceptedInv'
  BY <1>a
<1>b. ASSUME NEW e, EndLaunch(e) PROVE pc' # "report"
  BY <1>b DEF EndLaunch
<1>1. ASSUME NEW d \in Devices, Launch(d) \/ StopProcess(d) PROVE AcceptedInv'
  <2>1. pc \in {"launch", "terminate", "stopLate"} /\ pc' # "report" /\ accepted' = accepted
    BY <1>1 DEF Launch, StopProcess
  <2> QED BY <1>a, <2>1
<1>2. CASE LaunchFails BY <1>2, <1>a, <1>b DEF LaunchFails
<1>3. CASE InitialStorageFails BY <1>3, <1>a DEF InitialStorageFails
<1>4. CASE PollWorkers BY <1>4, <1>a DEF PollWorkers
<1>5. CASE ReadFailures BY <1>5, <1>a DEF ReadFailures
<1>6. CASE FailuresUnreadable BY <1>6, <1>a DEF FailuresUnreadable
<1>7. CASE CheckExits
  <2>1. pc = "exits" /\ pc' # "report" /\ accepted' = accepted
    BY <1>7 DEF CheckExits
  <2> QED BY <1>a, <2>1
<1>8. CASE LaunchTimesOut BY <1>8, <1>a, <1>b DEF LaunchTimesOut
<1>9. CASE HeartbeatsUnreadable BY <1>9, <1>a, <1>b DEF HeartbeatsUnreadable
<1>10. CASE HeartbeatRegresses BY <1>10, <1>a, <1>b DEF HeartbeatRegresses, LatchAndEndLaunch
<1>11. CASE WorkerSilent BY <1>11, <1>a, <1>b DEF WorkerSilent, LatchAndEndLaunch
<1>12. CASE FeedGate
  <2>1. EndLaunch(Error("joint_warmup_timeout")) \/ pc' \in {"poll", "schedule", "prompt"}
    BY <1>12 DEF FeedGate, StateOK
  <2> QED BY <1>12, <1>a, <1>b, <2>1 DEF FeedGate
<1>13. CASE Confirm BY <1>13, <1>a DEF Confirm
<1>14. CASE Cancel BY <1>14, <1>a, <1>b DEF Cancel
<1>15. CASE Refresh BY <1>15, <1>a DEF Refresh
<1>16. CASE ScheduleStart BY <1>16, <1>a DEF ScheduleStart
<1>17. CASE ScheduleFails BY <1>17, <1>a, <1>b DEF ScheduleFails
<1>18. CASE ReadStopRequest BY <1>18, <1>a DEF ReadStopRequest
<1>19. CASE WatchHeartbeats BY <1>19, <1>a DEF WatchHeartbeats
<1>20. CASE EndPass
  <2>1. pc = "endPass" /\ pc' # "report" /\ accepted' = accepted
    BY <1>20 DEF EndPass
  <2> QED BY <1>a, <2>1
<1>21. CASE LoadAcceptances
  <2>1. PICK unread \in SUBSET {d \in Devices : acceptance[d] # None} :
          /\ accepted' = [d \in Devices |-> IF d \in unread THEN None ELSE acceptance[d]]
          /\ errors' = errors
                 \cup (IF unread = {} THEN {} ELSE {"worker_acceptance_io"})
                 \cup (IF \E d \in Devices : accepted'[d] = None
                       THEN {"worker_acceptance_missing"} ELSE {})
    BY <1>21 DEF LoadAcceptances
  <2>2. acceptance' = acceptance /\ pc' = "report" /\ result' = result
    BY <1>21 DEF LoadAcceptances
  <2>3. \A d \in Devices : /\ accepted'[d] # None => acceptance[d] = accepted'[d]
                           /\ accepted'[d] = None /\ acceptance[d] # None => "worker_acceptance_io" \in errors'
    BY <2>1
  <2>4. ASSUME first' = None PROVE \A d \in Devices : accepted'[d] = "PASS"
    <3>0. first \in FirstErrors \cup {None} /\ accepted' \in [Devices -> Statuses \cup {None}]
      BY DEF StateOK
    <3>1. first' = AsBlocked(WithAcceptances(first, accepted', errors'), accepted', result, known, errors')
      BY <1>21 DEF LoadAcceptances
    <3>2. WithAcceptances(first, accepted', errors') = None
      BY <2>4, <3>0, <3>1, AcceptanceErrors
    <3>3. /\ "worker_acceptance_missing" \notin errors'
          /\ \A d \in Devices : accepted'[d] \notin {"FAIL", "BLOCKED"}
      BY <3>0, <3>2, WithAcceptancesErrors
    <3>4. \A d \in Devices : accepted'[d] \in Statuses \cup {None}
      BY DEF StateOK
    <3> QED BY <2>1, <3>3, <3>4 DEF Statuses
  <2> QED BY <2>2, <2>3, <2>4
<1>22. CASE Report
  <2>1. pc' = "done" /\ UNCHANGED <<accepted, acceptance>>
    BY <1>22 DEF Report
  <2> QED BY <2>1
<1> HIDE DEF AcceptedInv, IInv
<1> QED BY <1>1, <1>2, <1>3, <1>4, <1>5, <1>6, <1>7, <1>8, <1>9, <1>10, <1>11, <1>12, <1>13,
           <1>14, <1>15, <1>16, <1>17, <1>18, <1>19, <1>20, <1>21, <1>22 DEF CoordinatorStep

(* What is credited to the workers is theirs.                               *)
LEMMA CoordinatorResult ==
    ASSUME StateOK, IInv, StateOK', CoordinatorStep
    PROVE  ResultInv'
<1> DEFINE Kept(r) == \A d \in Devices : Fits(d, r[d]) /\ r[d].observed = result[d].observed
<1>a. /\ start \in Nat \cup {None} /\ stop \in Nat \cup {None} /\ now \in Nat /\ None \notin Nat
      /\ errors \subseteq errors' /\ known \subseteq known'
  BY FindingsStay, WorkersAssumption DEF StateOK
<1>b. UNCHANGED <<stop, stopRecord>> \/ (stop = None /\ stop' # None)
  BY <1>a, StopIsSetOnce DEF Stops
<1>c. result \in [Devices -> Results] /\ Kept(result)
  BY DEF StateOK, IInv, ResultInv
<1>d. ASSUME Apart, start' = start, NEW d \in Devices,
             result[d].observed = "yes", known' = {}, errors' = {}
      PROVE  RanOut(d)'
  <2>1. RanOut(d)
    BY <1>a, <1>d DEF IInv, ResultInv
  <2> QED BY <1>b, <1>d, <2>1 DEF RanOut, RanUntil, Apart
<1>e. ASSUME Apart, start' = start, NEW r \in [Devices -> Results], Kept(r), result' = r,
             pc' = "stopLate" => errors' # {}
      PROVE  ResultInv'
  BY <1>d, <1>e DEF ResultInv, Fits, Apart
<1>f. ASSUME Apart, start' = start, start # None, NEW r \in [Devices -> Results], Kept(r),
             NEW S \in SUBSET Devices, result' = Credited(S, r), pc' # "stopLate",
             \A d \in S : known' = {} /\ errors' = {} => RanOut(d)'
      PROVE  ResultInv'
  <2>1. \A d \in Devices :
            result'[d] = IF d \in S THEN [r[d] EXCEPT !.observed = "yes"] ELSE r[d]
    BY <1>f DEF Credited
  <2>2. \A d \in Devices : r[d] \in Results
    BY <1>f
  <2>3. ASSUME NEW d \in Devices PROVE Fits(d, result[d])'
    <3>1. result'[d].code = r[d].code /\ result'[d].early = r[d].early
          /\ (result'[d].observed = "yes" \/ result'[d].observed = r[d].observed)
      BY <2>1, <2>2 DEF Results
    <3>2. Fits(d, r[d])
      BY <1>f
    <3> QED BY <1>f, <3>1, <3>2 DEF Fits, Apart
  <2>4. ASSUME NEW d \in Devices, result'[d].observed = "yes", known' = {}, errors' = {}
        PROVE  RanOut(d)'
    <3>1. CASE d \in S
      BY <1>f, <2>4, <3>1
    <3>2. CASE d \notin S
      BY <1>d, <1>f, <2>1, <2>4, <3>2
    <3> QED BY <3>1, <3>2
  <2> QED BY <1>f, <2>3, <2>4 DEF ResultInv
<1>g. ASSUME Apart, stop' = now, NEW d \in alive PROVE RanOut(d)'
  BY <1>a, <1>g DEF IInv, PollInv, RanOut, RanUntil, Apart, StateOK
<1>h. alive \in SUBSET Devices
  BY DEF StateOK
<1>i. ASSUME NEW e, EndLaunch(e) PROVE pc' # "stopLate"
  BY <1>i DEF EndLaunch
<1> HIDE DEF Kept
<1> USE DEF schedule
<1>1. ASSUME NEW d \in Devices, Launch(d) PROVE ResultInv'
  <2>1. /\ phase[d] = "off" /\ phase' = [phase EXCEPT ![d] = "setup"] /\ pc' # "stopLate"
        /\ UNCHANGED <<clock, code, exitedAt, result, start, stop, known, errors>>
    BY <1>1, FirstOfIsOne DEF Launch, Launched, findings
  <2>2. \A e \in Devices : RanUntil(e)' = RanUntil(e)
    BY <2>1 DEF RanUntil, StateOK, WorkersTypeOK
  <2>3. \A e \in Devices : phase[e] = "exited" => phase'[e] = "exited"
    BY <2>1 DEF StateOK, WorkersTypeOK
  <2> QED BY <2>1, <2>2, <2>3 DEF IInv, ResultInv, Fits, RanOut
<1>2. ASSUME NEW d \in Devices, StopProcess(d) PROVE ResultInv'
  <2>1. /\ result' = [result EXCEPT ![d] = [code |-> code'[d], early |-> YesIf(pc = "terminate"),
                                            observed |-> YesIf(pc = "stopLate")]]
        /\ UNCHANGED <<clock, start, stop, known, errors>>
        /\ pc \in {"terminate", "stopLate"} /\ pc' \in {pc, "load"}
    BY <1>2 DEF StopProcess, findings
  <2>2. /\ \A e \in Devices : phase[e] = "exited" => phase'[e] = "exited" /\ code'[e] = code[e]
        /\ code'[d] # None => phase'[d] = "exited"
    BY <1>2 DEF StopProcess, Exit, Running, IInv, WorkersInv, StateOK, WorkersTypeOK
  <2>3. pc = "stopLate" => start # None /\ errors # {}
    BY DEF IInv, BoundaryInv, ResultInv
  <2>4. \A e \in Devices \ {d} : result'[e] = result[e]
    BY <2>1 DEF StateOK
  <2>5. result'[d] = [code |-> code'[d], early |-> YesIf(pc = "terminate"),
                      observed |-> YesIf(pc = "stopLate")]
    BY <2>1 DEF StateOK
  <2>6. Fits(d, result[d])'
    BY <2>1, <2>2, <2>3, <2>5 DEF Fits, YesIf
  <2>7. \A e \in Devices \ {d} : Fits(e, result[e])'
    BY <2>1, <2>2, <2>4 DEF Fits, IInv, ResultInv
  <2>8. ASSUME NEW e \in Devices, result'[e].observed = "yes", known' = {}, errors' = {}
        PROVE  RanOut(e)'
    <3>1. e # d
      BY <2>1, <2>3, <2>5, <2>8 DEF YesIf
    <3>2. RanOut(e)
      BY <2>1, <2>4, <2>8, <3>1 DEF IInv, ResultInv
    <3>3. RanUntil(e)' = RanUntil(e)
      BY <1>2, <2>1, <3>1 DEF StopProcess, Exit, RanUntil, StateOK, WorkersTypeOK
    <3> QED BY <2>1, <3>2, <3>3 DEF RanOut
  <2> QED BY <2>1, <2>3, <2>6, <2>7, <2>8 DEF ResultInv
<1>3. ASSUME Apart PROVE ResultInv'
  <2> USE <1>3
  <2>3. CASE LaunchFails BY <2>3, <1>c, <1>e, <1>i DEF LaunchFails
  <2>4. CASE InitialStorageFails BY <2>4, <1>c, <1>e DEF InitialStorageFails
  <2>5. CASE PollWorkers
    <3>1. /\ UNCHANGED <<start, stop>> /\ pc' = "failures"
          /\ result' = IF FormalEnd # None /\ clock >= FormalEnd
                       THEN Credited(Running, result) ELSE result
      BY <2>5 DEF PollWorkers
    <3>2. CASE FormalEnd # None /\ clock >= FormalEnd
      <4>1. start # None
        BY <3>2 DEF FormalEnd, IInv, BoundaryInv
      <4>2. ASSUME NEW d \in Running PROVE RanOut(d)'
        BY <3>1, <3>2, <4>2 DEF FormalEnd, RanOut, RanUntil, Running, Apart
      <4>3. Running \in SUBSET Devices
        BY DEF Running
      <4> QED BY <1>c, <1>f, <3>1, <3>2, <4>1, <4>2, <4>3
    <3> QED BY <1>c, <1>e, <3>1, <3>2
  <2>6. CASE ReadFailures
    <3> DEFINE new == {d \in Devices : failure[d] # None} \ known
    <3>1. pc' = "exits" /\ start' = start /\ known' = known \cup new
      BY <2>6 DEF ReadFailures
    <3>2. \/ result' = result
          \/ start # None /\ new # {} /\ result' = Credited(alive, result)
      BY <2>6 DEF ReadFailures
    <3> QED BY <1>c, <1>e, <1>f, <1>h, <3>1, <3>2
  <2>7. CASE FailuresUnreadable
    <3>1. /\ pc' = "exits" /\ start' = start
          /\ \/ result' = result
             \/ start # None /\ stop' = now /\ result' = Credited(alive, result)
      BY <2>7 DEF FailuresUnreadable, PublishStop
    <3> QED BY <1>c, <1>e, <1>f, <1>g, <1>h, <3>1
  <2>8. CASE CheckExits
    <3> DEFINE judged == [d \in Devices |->
                             IF d \in Ended
                             THEN [result[d] EXCEPT !.code = code[d], !.early = YesIf(Early(d))]
                             ELSE result[d]]
    <3>1. /\ pc = "exits" /\ pc' # "stopLate" /\ start' = start
          /\ \/ result' = judged
             \/ start # None /\ stop' = now /\ result' = Credited(alive, judged)
      BY <2>8 DEF CheckExits, PublishStop
    <3>2. ASSUME NEW d \in Devices
          PROVE  judged[d] \in Results /\ Fits(d, judged[d]) /\ judged[d].observed = result[d].observed
      <4>1. CASE d \in Ended
        <5>1. phase[d] = "exited"
          BY <3>1, <4>1 DEF Ended, IInv, PollInv
        <5>2. result[d] \in Results /\ code[d] \in Int \cup {None} /\ YesIf(Early(d)) \in {"yes", "no"}
          BY Codes DEF StateOK, YesIf
        <5>3. judged[d] = [code |-> code[d], early |-> YesIf(Early(d)), observed |-> result[d].observed]
          BY <4>1, <5>2 DEF Results
        <5>4. judged[d] \in Results
          BY <5>2, <5>3 DEF Results
        <5>5. YesIf(Early(d)) = "no" => result[d].observed = "yes"
          BY <5>2 DEF YesIf, Early, Results
        <5>6. result[d].observed = "yes" => start # None
          BY DEF IInv, ResultInv, Fits
        <5> HIDE DEF judged
        <5> QED BY <5>1, <5>3, <5>4, <5>5, <5>6 DEF Fits
      <4>2. CASE d \notin Ended
        BY <4>2 DEF StateOK, IInv, ResultInv
      <4> QED BY <4>1, <4>2
    <3>3. judged \in [Devices -> Results] /\ Kept(judged)
      BY <3>2 DEF Kept
    <3> HIDE DEF judged
    <3> QED BY <1>e, <1>f, <1>g, <1>h, <3>1, <3>3
  <2>9. CASE LaunchTimesOut BY <2>9, <1>c, <1>e, <1>i DEF LaunchTimesOut
  <2>10. CASE HeartbeatsUnreadable BY <2>10, <1>c, <1>e, <1>i DEF HeartbeatsUnreadable
  <2>11. CASE HeartbeatRegresses BY <2>11, <1>c, <1>e, <1>i DEF HeartbeatRegresses, LatchAndEndLaunch
  <2>12. CASE WorkerSilent BY <2>12, <1>c, <1>e, <1>i DEF WorkerSilent, LatchAndEndLaunch
  <2>13. CASE FeedGate
    <3>1. EndLaunch(Error("joint_warmup_timeout")) \/ pc' \in {"poll", "schedule", "prompt"}
      BY <2>13 DEF FeedGate, StateOK
    <3> QED BY <2>13, <1>c, <1>e, <1>i, <3>1 DEF FeedGate
  <2>14. CASE Confirm BY <2>14, <1>c, <1>e DEF Confirm
  <2>15. CASE Cancel BY <2>15, <1>c, <1>e, <1>i DEF Cancel
  <2>16. CASE Refresh BY <2>16, <1>c, <1>e DEF Refresh
  <2>17. CASE ScheduleStart
    <3>1. start = None /\ result' = result /\ pc' = "poll"
      BY <2>17 DEF ScheduleStart, IInv, BoundaryInv
    <3>2. \A d \in Devices : Fits(d, result[d]) /\ result[d].observed # "yes"
      BY <3>1 DEF IInv, ResultInv, Fits
    <3> QED BY <3>1, <3>2 DEF ResultInv, Fits, Apart
  <2>18. CASE ScheduleFails BY <2>18, <1>c, <1>e, <1>i DEF ScheduleFails
  <2>19. CASE ReadStopRequest
    <3>1. /\ pc' # "stopLate" /\ start' = start /\ start # None
          /\ \/ result' = result
             \/ stop' = now /\ result' = Credited(alive, result)
      BY <2>19 DEF ReadStopRequest, PublishStop, IInv, BoundaryInv
    <3> QED BY <1>c, <1>e, <1>f, <1>g, <1>h, <3>1
  <2>20. CASE WatchHeartbeats
    <3>1. /\ pc' # "stopLate" /\ start' = start /\ start # None
          /\ \/ result' = result
             \/ stop' = now /\ result' = Credited(alive, result)
      BY <2>20 DEF WatchHeartbeats, PublishStop, IInv, BoundaryInv
    <3> QED BY <1>c, <1>e, <1>f, <1>g, <1>h, <3>1
  <2>21. CASE EndPass
    <3>1. /\ result' = result /\ start' = start
          /\ pc' = "stopLate" => errors' # {}
      BY <2>21 DEF EndPass
    <3> QED BY <1>c, <1>e, <3>1
  <2>22. CASE LoadAcceptances BY <2>22, <1>c, <1>e DEF LoadAcceptances
  <2>23. CASE Report BY <2>23, <1>c, <1>e DEF Report
  <2>24. ASSUME NEW d \in Devices, Launch(d) \/ StopProcess(d) PROVE ResultInv'
    BY <2>24, <1>1, <1>2
  <2> QED BY <2>3, <2>4, <2>5, <2>6, <2>7, <2>8, <2>9, <2>10, <2>11, <2>12, <2>13, <2>14, <2>15,
             <2>16, <2>17, <2>18, <2>19, <2>20, <2>21, <2>22, <2>23, <2>24 DEF CoordinatorStep
<1> QED BY <1>1, <1>2, <1>3, MostAreApart

(* Only the two steps that return a report decide anything.                 *)
LEMMA OnlyReportsDecide ==
    ASSUME StateOK, IInv, CoordinatorStep
    PROVE  \/ report = None /\ report' = None /\ pc' # "done"
           \/ InitialStorageFails
           \/ Report
<1> DEFINE Undecided == pc # "done" /\ report' = report /\ pc' # "done"
<1>a. pc # "done" => report = None
  BY DEF IInv, ReportInv
<1>b. ASSUME NEW e, EndLaunch(e) PROVE pc' # "done"
  BY <1>b DEF EndLaunch
<1> USE <1>a DEF outcome
<1>1. ASSUME NEW d \in Devices, Launch(d) \/ StopProcess(d) PROVE Undecided
  BY <1>1 DEF Launch, StopProcess
<1>2. CASE LaunchFails BY <1>2, <1>b DEF LaunchFails
<1>3. CASE PollWorkers BY <1>3 DEF PollWorkers
<1>4. CASE ReadFailures BY <1>4 DEF ReadFailures
<1>5. CASE FailuresUnreadable BY <1>5 DEF FailuresUnreadable
<1>6. CASE CheckExits
  <2>1. pc = "exits" /\ pc' # "done" /\ report' = report
    BY <1>6 DEF CheckExits
  <2> QED BY <2>1
<1>7. CASE LaunchTimesOut BY <1>7, <1>b DEF LaunchTimesOut
<1>8. CASE HeartbeatsUnreadable BY <1>8, <1>b DEF HeartbeatsUnreadable
<1>9. CASE HeartbeatRegresses BY <1>9, <1>b DEF HeartbeatRegresses, LatchAndEndLaunch
<1>10. CASE WorkerSilent BY <1>10, <1>b DEF WorkerSilent, LatchAndEndLaunch
<1>11. CASE FeedGate
  <2>1. EndLaunch(Error("joint_warmup_timeout")) \/ pc' \in {"poll", "schedule", "prompt"}
    BY <1>11 DEF FeedGate, StateOK
  <2> QED BY <1>11, <1>b, <2>1 DEF FeedGate
<1>12. CASE Confirm BY <1>12 DEF Confirm
<1>13. CASE Cancel BY <1>13, <1>b DEF Cancel
<1>14. CASE Refresh BY <1>14 DEF Refresh
<1>15. CASE ScheduleStart BY <1>15 DEF ScheduleStart
<1>16. CASE ScheduleFails BY <1>16, <1>b DEF ScheduleFails
<1>17. CASE ReadStopRequest BY <1>17 DEF ReadStopRequest
<1>18. CASE WatchHeartbeats BY <1>18 DEF WatchHeartbeats
<1>19. CASE EndPass
  <2>1. pc = "endPass" /\ pc' # "done" /\ report' = report
    BY <1>19 DEF EndPass
  <2> QED BY <2>1
<1>20. CASE LoadAcceptances BY <1>20 DEF LoadAcceptances
<1> HIDE DEF outcome
<1> QED BY <1>a, <1>1, <1>2, <1>3, <1>4, <1>5, <1>6, <1>7, <1>8, <1>9, <1>10, <1>11, <1>12, <1>13,
           <1>14, <1>15, <1>16, <1>17, <1>18, <1>19, <1>20 DEF CoordinatorStep

(* The verdict: what it takes to be a PASS, what to be BLOCKED.             *)
LEMMA VerdictOf ==
    ASSUME NEW s, NEW f \in FirstErrors \cup {None}, NEW a, NEW r, NEW k, NEW e
    PROVE  /\ FinalVerdict(s, f, a, r, k, e) \in Statuses
           /\ FinalVerdict(s, f, a, r, k, e) = "PASS" =>
                 /\ f = None /\ k = {} /\ e = {}
                 /\ \A d \in Devices : r[d].code = 0 /\ r[d].early # "yes"
           /\ FinalVerdict(s, f, a, r, k, e) = "BLOCKED" =>
                 /\ k = {} /\ f # None
                 /\ "barrier_io" \notin e /\ "worker_acceptance_io" \notin e
                 /\ \/ s = None /\ \A d \in Devices : a[d] # "FAIL"
                    \/ e = {} /\ OnlyBlocked(f, a, r)
  BY DEF FinalVerdict, LaunchGivenUp, Statuses

(* A report says no more than what was seen allows.                         *)
LEMMA CoordinatorReport ==
    ASSUME StateOK, IInv, StateOK', CoordinatorStep
    PROVE  ReportInv'
<1>1. CASE report = None /\ report' = None /\ pc' # "done"
  BY <1>1, CoordinatorAssumption
     DEF ReportInv, PassIsEarned, FailureNotMasked, BlockedIsBenign, ReportIsVerifiable, Statuses
<1>2. ASSUME report' = "FAIL", pc' = "done" PROVE ReportInv'
  BY <1>2, CoordinatorAssumption
     DEF ReportInv, PassIsEarned, FailureNotMasked, BlockedIsBenign, ReportIsVerifiable, Statuses
<1>3. CASE Report
  <2>1. PICK unread \in {0, 1}, unwritten \in {0, 1} :
          LET noted == errors \cup (IF unread = 1 THEN {"barrier_io"} ELSE {}) IN
          /\ known' = IF unread = 1 THEN known
                      ELSE known \cup {d \in Devices : failure[d] # None}
          /\ IF unwritten = 1
             THEN report' = "FAIL"
             ELSE /\ report' = FinalVerdict(start, first, accepted, result, known', noted)
                  /\ errors' = noted
                  /\ UNCHANGED first
    BY <1>3 DEF Report
  <2>2. /\ pc = "report" /\ pc' = "done"
        /\ UNCHANGED <<clock, failure, startRecord, stopRecord, acceptance, phase, code, exitedAt>>
        /\ UNCHANGED <<result, start, stop, accepted>>
    BY <1>3 DEF Report, world, workers, schedule
  <2>3. ASSUME report' = FinalVerdict(start, first, accepted, result, known', errors'),
               errors \subseteq errors', UNCHANGED first,
               unread = 1 => "barrier_io" \in errors'
        PROVE  ReportInv'
    <3>a. first \in FirstErrors \cup {None} /\ accepted \in [Devices -> Statuses \cup {None}]
          /\ None \notin Statuses /\ report' \in Statuses /\ None \notin Int
      BY <2>3, VerdictOf, CoordinatorAssumption, WorkersAssumption DEF StateOK
    <3>b. known \subseteq known' /\ (known' = {} /\ "barrier_io" \notin errors' =>
                                        \A d \in Devices : failure[d] = None)
      BY <2>1, <2>3
    <3>c. \A d \in Devices : accepted[d] # None => acceptance[d] = accepted[d]
      BY DEF IInv, AcceptedInv
    <3>d. \A d \in Devices : /\ result[d].code # None => phase[d] = "exited" /\ result[d].code = code[d]
                             /\ result[d].code # None /\ result[d].early = "no" => result[d].observed = "yes"
                             /\ result[d].early \in {"yes", "no"}
      BY DEF IInv, ResultInv, Fits, StateOK, Results
    \* A worker that was not early ran until the end of its window.
    <3>e. ASSUME known' = {}, errors' = {}, NEW d \in Devices, result[d].observed = "yes", phase[d] = "exited"
          PROVE  RanUntilTheEnd(d)
      <4>1. RanOut(d)
        BY <2>3, <3>b, <3>e DEF IInv, ResultInv
      <4> QED BY <3>e, <4>1 DEF RanOut, RanUntil, RanUntilTheEnd
    <3>f. \A d \in Devices : RanUntilTheEnd(d)' <=> RanUntilTheEnd(d)
      BY <2>2 DEF RanUntilTheEnd
    <3>1. CASE report' = "PASS"
      <4>1. /\ first = None /\ known' = {} /\ errors' = {}
            /\ \A d \in Devices : result[d].code = 0 /\ result[d].early = "no"
        <5>1. FinalVerdict(start, first, accepted, result, known', errors') = "PASS"
          BY <2>3, <3>1
        <5>2. /\ first = None /\ known' = {} /\ errors' = {}
              /\ \A d \in Devices : result[d].code = 0 /\ result[d].early # "yes"
          BY <3>a, <5>1, VerdictOf
        <5> QED BY <3>d, <5>2
      <4>2. start # None /\ \A d \in Devices : accepted[d] = "PASS" /\ acceptance[d] = "PASS"
        <5>1. start # None
          BY <2>2, <4>1 DEF IInv, FirstInv
        <5>2. \A d \in Devices : accepted[d] = "PASS"
          BY <2>2, <4>1 DEF IInv, AcceptedInv
        <5> QED BY <3>a, <3>c, <5>1, <5>2 DEF Statuses
      <4>3. errors = {} /\ startRecord = start /\ stopRecord = stop
        BY <2>3, <4>1, <4>2 DEF IInv, BoundaryInv, BoundariesAgree
      <4>4. \A d \in Devices : /\ failure[d] = None /\ phase[d] = "exited" /\ code[d] = 0
                               /\ result[d].observed = "yes"
        BY <3>a, <3>b, <3>d, <4>1
      <4>5. PassIsEarned'
        BY <2>2, <3>e, <3>f, <4>1, <4>2, <4>3, <4>4 DEF PassIsEarned
      <4>6. FailureNotMasked'
        BY <2>2, <4>2, <4>4 DEF FailureNotMasked
      <4>7. BlockedIsBenign'
        BY <3>1 DEF BlockedIsBenign
      <4>8. ReportIsVerifiable'
        <5>1. \A d \in Devices : /\ acceptance'[d] # "FAIL"
                                 /\ result'[d].code # None
                                 /\ result'[d].code = ExpectedExit(acceptance'[d])
                                 /\ result'[d].code # 3
                                 /\ result'[d].early = "no" /\ result'[d].observed = "yes"
          BY <2>2, <3>a, <4>1, <4>2, <4>4 DEF ExpectedExit
        <5>2. start' # None /\ first' = None /\ errors' = {} /\ known' = {}
          BY <2>2, <2>3, <4>1, <4>2
        <5>3. JointGateSection' = "PASS"
          BY <3>1, <5>1, <5>2 DEF JointGateSection
        <5>4. EmbeddedMatch'
          BY <2>2, <4>2 DEF EmbeddedMatch
        <5> QED BY <3>1, <5>3, <5>4 DEF ReportIsVerifiable
      <4> QED BY <2>2, <3>a, <4>5, <4>6, <4>7, <4>8 DEF ReportInv
    <3>2. CASE report' = "BLOCKED"
      <4>1. /\ known' = {} /\ first # None
            /\ "barrier_io" \notin errors' /\ "worker_acceptance_io" \notin errors'
            /\ \/ start = None /\ \A d \in Devices : accepted[d] # "FAIL"
               \/ errors' = {} /\ OnlyBlocked(first, accepted, result)
        BY <2>3, <3>2, <3>a, VerdictOf
      <4>2. \A d \in Devices : accepted[d] # "FAIL"
        BY <4>1 DEF OnlyBlocked, CodesMatch
      <4>3. ASSUME NEW d \in Devices, acceptance[d] = "FAIL", result[d].code # None PROVE FALSE
        <5>1. accepted[d] = None
          BY <3>c, <4>2, <4>3
        <5>2. "worker_acceptance_io" \in errors
          BY <2>2, <3>a, <4>3, <5>1 DEF IInv, AcceptedInv, Statuses
        <5> QED BY <2>3, <4>1, <5>2
      <4>4. FailureNotMasked'
        <5>1. \A d \in Devices : failure'[d] = None /\ ~(acceptance'[d] = "FAIL" /\ result'[d].code # None)
          BY <2>2, <3>b, <4>1, <4>3
        <5> QED BY <5>1 DEF FailureNotMasked
      <4>5. ASSUME start # None
            PROVE  BlockedIsBenign' /\ ReportIsVerifiable'
        <5>1. /\ errors' = {} /\ first.blocked = "yes" /\ first.device \in Devices
              /\ accepted[first.device] = "BLOCKED"
              /\ \A d \in Devices : /\ result[d].early = "no"
                                    /\ \/ accepted[d] = "PASS" /\ result[d].code = 0
                                       \/ accepted[d] = "BLOCKED" /\ result[d].code = 3
          BY <3>a, <4>1, <4>5 DEF OnlyBlocked, CodesMatch, FirstErrors
        <5>2. \A d \in Devices : /\ phase[d] = "exited" /\ result[d].observed = "yes"
                                 /\ code[d] = result[d].code /\ acceptance[d] = accepted[d]
          BY <3>a, <3>c, <3>d, <5>1, WorkersAssumption DEF Statuses
        <5>3. BlockedIsBenign'
          <6>1. \A d \in Devices : RanUntilTheEnd(d) /\ code[d] = ExitCode(acceptance[d])
            BY <3>e, <4>1, <5>1, <5>2 DEF ExitCode
          <6> QED BY <2>2, <3>f, <5>1, <5>2, <6>1 DEF BlockedIsBenign
        <5>4. ReportIsVerifiable'
          <6>1. BenignError'
            BY <2>2, <2>3, <3>a, <5>1, <5>2, CoordinatorAssumption DEF BenignError
          <6>2. \A d \in Devices : /\ acceptance[d] # "FAIL"
                                   /\ result[d].code # None
                                   /\ result[d].code = ExpectedExit(acceptance[d])
            BY <3>a, <5>1, <5>2 DEF ExpectedExit
          <6>3. JointGateSection' = "BLOCKED"
            BY <2>2, <2>3, <3>2, <4>1, <5>1, <5>2, <6>1, <6>2 DEF JointGateSection
          <6>4. EmbeddedMatch'
            BY <2>2, <5>2 DEF EmbeddedMatch
          <6> QED BY <3>2, <6>3, <6>4 DEF ReportIsVerifiable
        <5> QED BY <5>3, <5>4
      <4>6. PassIsEarned' /\ (start = None => BlockedIsBenign' /\ ReportIsVerifiable')
        BY <2>2, <3>2 DEF PassIsEarned, BlockedIsBenign, ReportIsVerifiable
      <4> QED BY <2>2, <3>a, <3>2, <4>4, <4>5, <4>6 DEF ReportInv
    <3> QED BY <1>2, <2>2, <3>a, <3>1, <3>2 DEF Statuses
  <2>4. CASE unwritten = 1
    BY <1>2, <2>1, <2>2, <2>4
  <2>5. CASE unwritten # 1
    BY <2>1, <2>3, <2>5
  <2> QED BY <2>4, <2>5
<1>4. CASE InitialStorageFails
  BY <1>2, <1>4 DEF InitialStorageFails
<1> QED BY <1>1, <1>3, <1>4, OnlyReportsDecide

-----------------------------------------------------------------------------
(* The gate before the start.                                               *)

(* What a gate makes of the heartbeats of a pass is in every set of gates   *)
(* that holds the gate itself and is closed under each observation.         *)
LEMMA ObservingKeeps ==
    ASSUME NEW S, NEW G, gate \in G,
           \A g \in G, d \in Devices : d \in S =>
               Observed(g, d, heartbeat[d].at, heartbeat[d].health) \in G
    PROVE  Observing(S) \in G
<1> DEFINE n == Len(REQUIRED_DEVICES)
           seen(g, d) ==
               IF d \in S THEN Observed(g, d, heartbeat[d].at, heartbeat[d].health) ELSE g
           \* f is the history of the first k observations.
           History(f, k) ==
               /\ f = [i \in 0..k |-> f[i]] /\ f[0] = gate
               /\ \A i \in 1..k : f[i] = seen(f[i - 1], REQUIRED_DEVICES[i])
           Body(f) == [i \in 0..n |-> IF i = 0 THEN gate ELSE seen(f[i - 1], REQUIRED_DEVICES[i])]
           upTo == CHOOSE f : f = Body(f)
<1>1. n \in Nat /\ \A i \in 1..n : REQUIRED_DEVICES[i] \in Devices
  BY CoordinatorAssumption
<1>2. \A g \in G, d \in Devices : seen(g, d) \in G
  OBVIOUS
<1> HIDE DEF n, seen
<1>3. \E f : History(f, n)
  <2> DEFINE without == {k \in 0..n : ~ \E f : History(f, k)}
  <2>1. SUFFICES ASSUME without # {} PROVE FALSE
    BY <1>1, <2>1
  <2>2. PICK m \in without : \A k \in without : m <= k
    <3>1. without \in SUBSET Nat
      OBVIOUS
    <3> QED BY <2>1, <3>1, LeastElement
  <2>3. CASE m = 0
    <3>1. History([i \in 0..0 |-> gate], 0)
      BY DEF seen
    <3> QED BY <2>2, <2>3, <3>1
  <2>4. CASE m # 0
    <3>1. m - 1 \in 0..n /\ m - 1 \notin without
      BY <1>1, <2>2, <2>4
    <3>2. PICK f : History(f, m - 1)
      BY <3>1
    <3> DEFINE h == [i \in 0..m |-> IF i = m THEN seen(f[m - 1], REQUIRED_DEVICES[m]) ELSE f[i]]
    <3>3. h = [i \in 0..m |-> h[i]] /\ h[0] = gate
      BY <1>1, <2>2, <2>4, <3>2
    <3>4. ASSUME NEW i \in 1..m PROVE h[i] = seen(h[i - 1], REQUIRED_DEVICES[i])
      <4>1. CASE i = m
        BY <1>1, <2>2, <2>4, <4>1
      <4>2. CASE i # m
        <5>1. i \in 1..(m - 1) /\ i \in 0..m /\ i - 1 \in 0..m /\ i - 1 # m
          BY <1>1, <2>2, <4>2
        <5>2. f[i] = seen(f[i - 1], REQUIRED_DEVICES[i])
          BY <3>2, <5>1
        <5> QED BY <4>2, <5>1, <5>2
      <4> QED BY <4>1, <4>2
    <3>5. History(h, m)
      BY <3>3, <3>4
    <3> QED BY <2>2, <3>5
  <2> QED BY <2>3, <2>4
<1>4. upTo = Body(upTo)
  <2>1. PICK f : History(f, n)
    BY <1>3
  <2>2. \A i \in 0..n : f[i] = IF i = 0 THEN gate ELSE seen(f[i - 1], REQUIRED_DEVICES[i])
    <3>1. \A i \in 0..n : i # 0 => i \in 1..n
      BY <1>1
    <3> QED BY <2>1, <3>1
  <2>3. f = Body(f)
    BY <2>1, <2>2
  <2> QED BY <2>3
<1> HIDE DEF upTo
<1>5. \A i \in 0..n : upTo[i] \in G
  <2> DEFINE outside == {k \in 0..n : upTo[k] \notin G}
  <2>1. SUFFICES ASSUME outside # {} PROVE FALSE
    BY <2>1
  <2>2. PICK m \in outside : \A k \in outside : m <= k
    <3>1. outside \in SUBSET Nat
      OBVIOUS
    <3> QED BY <2>1, <3>1, LeastElement
  <2>3. CASE m = 0
    BY <1>1, <1>4, <2>2, <2>3
  <2>4. CASE m # 0
    <3>1. m - 1 \in 0..n /\ m - 1 \notin outside /\ m \in 1..n
      BY <1>1, <2>2, <2>4
    <3>2. upTo[m] = seen(upTo[m - 1], REQUIRED_DEVICES[m])
      BY <1>4, <3>1
    <3>3. upTo[m] \in G
      BY <1>1, <1>2, <3>1, <3>2
    <3> QED BY <2>2, <3>3
  <2> QED BY <2>3, <2>4
<1>6. Observing(S) = upTo[n]
  BY DEF Observing, upTo, n, seen
<1> QED BY <1>1, <1>5, <1>6

(* One observation keeps a gate a gate, and what it says of it sound.       *)
LEMMA ObservedGate ==
    ASSUME NEW g \in Gate, NEW d \in Devices, NEW at \in Int, NEW health \in Health
    PROVE  Observed(g, d, at, health) \in Gate
<1>1. Learned(g, d, at, health) \in Gate
  BY WorkersAssumption, CoordinatorAssumption DEF Learned, Gate, GateStates, Health
<1>2. ASSUME NEW h \in Gate PROVE Advanced(h, at) \in Gate
  BY DEF Advanced, Gate, GateStates
<1> QED BY <1>1, <1>2 DEF Observed

LEMMA AdvancedSound ==
    ASSUME NEW g \in Gate, GateSound(g), NEW at \in Int, at <= clock, clock \in Nat
    PROVE  Advanced(g, at) \in Gate /\ GateSound(Advanced(g, at))
<1> DEFINE h == Advanced(g, at)
<1>1. /\ h \in Gate /\ h.latest = g.latest /\ h.healthySince = g.healthySince
      /\ h.state = "JOINT_READY" => g.state = "JOINT_READY" \/ Ready(g, at)
  BY DEF Advanced, Gate, GateStates
<1>2. ASSUME Ready(g, at), NEW d \in Devices
      PROVE  g.latest[d] = "healthy" /\ clock - g.healthySince[d] >= CONTINUOUS_HEALTHY_NS
  <2>1. g.latest[d] = "healthy" /\ at - g.healthySince[d] >= CONTINUOUS_HEALTHY_NS
    BY <1>2 DEF Ready
  <2>2. g.healthySince[d] \in Int
    BY <2>1 DEF GateSound, Gate
  <2> QED BY <2>1, <2>2, CoordinatorAssumption
<1> HIDE DEF h
<1>3. GateSound(h)
  BY <1>1, <1>2 DEF GateSound
<1> QED BY <1>1, <1>3 DEF h

LEMMA ObservedSound ==
    ASSUME NEW g \in Gate, GateSound(g), NEW d \in Devices, NEW at \in Int, NEW health \in Health,
           at <= clock, clock \in Nat, confirmedAt \in Nat \cup {None},
           confirmedAt # None => at >= confirmedAt
    PROVE  Observed(g, d, at, health) \in Gate /\ GateSound(Observed(g, d, at, health))
<1> DEFINE h == Learned(g, d, at, health)
<1>1. /\ h \in Gate
      /\ h.latest = [g.latest EXCEPT ![d] = health]
      /\ h.healthySince = [g.healthySince EXCEPT ![d] =
             IF health = "unhealthy" THEN None ELSE IF @ = None THEN at ELSE @]
      /\ h.state = "JOINT_READY" => g.state = "JOINT_READY" /\ health = "healthy"
  BY WorkersAssumption, CoordinatorAssumption DEF Learned, Gate, GateStates, Health
<1> HIDE DEF h
<1>2. \A e \in Devices :
          /\ h.latest[e] = IF e = d THEN health ELSE g.latest[e]
          /\ h.healthySince[e] = IF e # d THEN g.healthySince[e]
                                 ELSE IF health = "unhealthy" THEN None
                                 ELSE IF g.healthySince[d] = None THEN at ELSE g.healthySince[d]
  BY <1>1 DEF Gate
<1>3. at # None
  BY WorkersAssumption
<1>4. ASSUME NEW e \in Devices
      PROVE  /\ h.latest[e] = "healthy" => h.healthySince[e] # None
             /\ confirmedAt # None /\ h.healthySince[e] # None => h.healthySince[e] >= confirmedAt
  BY <1>2, <1>3 DEF GateSound
<1>5. ASSUME h.state = "JOINT_READY", NEW e \in Devices
      PROVE  h.latest[e] = "healthy" /\ clock - h.healthySince[e] >= CONTINUOUS_HEALTHY_NS
  <2>1. g.latest[e] = "healthy" /\ clock - g.healthySince[e] >= CONTINUOUS_HEALTHY_NS
        /\ g.healthySince[e] # None
    BY <1>1, <1>5 DEF GateSound
  <2> QED BY <1>1, <1>2, <1>5, <2>1
<1>6. GateSound(h)
  BY <1>4, <1>5 DEF GateSound
<1> QED BY <1>1, <1>6, AdvancedSound DEF Observed, h

(* Few steps touch the gate, one the start and one the confirmation; only   *)
(* one schedules.                                                           *)
LEMMA OthersLeaveGate ==
    ASSUME StateOK, CoordinatorStep
    PROVE  \/ /\ gate' = gate /\ UNCHANGED <<heartbeat, clock, start, confirmedAt>>
              /\ pc' # "schedule" /\ (pc' \in Before => pc \in Before \cup {"endPass"})
           \/ FeedGate \/ Confirm \/ Refresh \/ ScheduleStart \/ WatchHeartbeats
<1> DEFINE Left == /\ gate' = gate /\ UNCHANGED <<heartbeat, clock, start, confirmedAt>>
                   /\ pc' # "schedule" /\ (pc' \in Before => pc \in Before \cup {"endPass"})
<1>a. ASSUME NEW e, EndLaunch(e) PROVE pc' # "schedule" /\ pc' \notin Before
  BY <1>a DEF EndLaunch, Before
<1> USE DEF world, records, schedule, Before
<1>1. ASSUME NEW d \in Devices, Launch(d) \/ StopProcess(d) PROVE Left
  BY <1>1 DEF Launch, StopProcess
<1>2. CASE LaunchFails BY <1>2, <1>a DEF LaunchFails
<1>3. CASE InitialStorageFails BY <1>3 DEF InitialStorageFails
<1>4. CASE PollWorkers BY <1>4 DEF PollWorkers
<1>5. CASE ReadFailures BY <1>5 DEF ReadFailures
<1>6. CASE FailuresUnreadable BY <1>6 DEF FailuresUnreadable
<1>7. CASE CheckExits
  <2>1. gate' = gate /\ UNCHANGED <<heartbeat, clock, start, confirmedAt>>
        /\ pc = "exits" /\ pc' \in {"terminate", "gate", "stopRequest"}
    BY <1>7 DEF CheckExits
  <2> QED BY <2>1
<1>8. CASE LaunchTimesOut BY <1>8, <1>a DEF LaunchTimesOut
<1>9. CASE HeartbeatsUnreadable BY <1>9, <1>a DEF HeartbeatsUnreadable
<1>10. CASE HeartbeatRegresses BY <1>10, <1>a DEF HeartbeatRegresses, LatchAndEndLaunch
<1>11. CASE WorkerSilent BY <1>11, <1>a DEF WorkerSilent, LatchAndEndLaunch
<1>12. CASE Cancel BY <1>12, <1>a DEF Cancel
<1>13. CASE ScheduleFails BY <1>13, <1>a DEF ScheduleFails
<1>14. CASE ReadStopRequest BY <1>14 DEF ReadStopRequest
<1>15. CASE EndPass
  <2>1. gate' = gate /\ UNCHANGED <<heartbeat, clock, start, confirmedAt>>
        /\ pc' # "schedule" /\ pc = "endPass"
    BY <1>15 DEF EndPass
  <2> QED BY <2>1
<1>16. CASE LoadAcceptances BY <1>16 DEF LoadAcceptances
<1>17. CASE Report BY <1>17 DEF Report
<1> HIDE DEF world, records, schedule, Before
<1> QED BY <1>1, <1>2, <1>3, <1>4, <1>5, <1>6, <1>7, <1>8, <1>9, <1>10, <1>11, <1>12, <1>13,
           <1>14, <1>15, <1>16, <1>17 DEF CoordinatorStep

(* The type of the gate, too.                                               *)
LEMMA GateTypes ==
    ASSUME StateOK, gate \in Gate, CoordinatorStep
    PROVE  gate' \in Gate
<1>1. \A r \in Nat : NewGate(r) \in Gate
  BY DEF NewGate, Gate, GateStates
<1>2. ASSUME NEW S \in SUBSET Fresh PROVE Observing(S) \in Gate
  <2>1. \A d \in Devices : d \in S => heartbeat[d].at \in Int /\ heartbeat[d].health \in Health
    BY DEF Fresh, StateOK, WorkersTypeOK, Health
  <2>2. \A g \in Gate, d \in Devices : d \in S =>
            Observed(g, d, heartbeat[d].at, heartbeat[d].health) \in Gate
    BY <2>1, ObservedGate
  <2> QED BY <2>2, ObservingKeeps
<1>3. ASSUME NEW g \in Gate PROVE Advanced(g, now) \in Gate
  BY DEF Advanced, Gate, GateStates
<1>4. CASE gate' = gate
  BY <1>4
<1>5. CASE FeedGate
  BY <1>2, <1>3, <1>5 DEF FeedGate
<1>6. CASE Refresh
  BY <1>1, <1>6 DEF Refresh
<1>7. CASE ScheduleStart
  <2>1. start' \in Int
    BY <1>7, CoordinatorAssumption DEF ScheduleStart, StateOK, WorkersTypeOK
  <2>2. Requested(gate, start') \in Gate
    BY <2>1 DEF Requested, Gate, GateStates
  <2> QED BY <1>7, <2>2 DEF ScheduleStart
<1>8. CASE WatchHeartbeats
  <2>1. PICK unread \in {0, 1} : gate' = Observing(IF unread = 1 THEN {} ELSE Fresh \ Regressed)
    BY <1>8 DEF WatchHeartbeats
  <2> QED BY <1>2, <2>1
<1>9. CASE Confirm
  BY <1>9 DEF Confirm
<1> QED BY <1>4, <1>5, <1>6, <1>7, <1>8, <1>9, OthersLeaveGate

(* A gate that is about to schedule is ready and sound.                     *)
LEMMA CoordinatorGate ==
    ASSUME StateOK, IInv, gate \in Gate, GateInv, CoordinatorStep
    PROVE  GateInv'
<1> USE DEF GateInv
<1>a. clock \in Nat /\ confirmedAt \in Nat \cup {None} /\ now \in Nat /\ now <= clock
  BY DEF StateOK, WorkersTypeOK, IInv, PollInv
<1>1. CASE /\ gate' = gate /\ UNCHANGED <<heartbeat, clock, start, confirmedAt>>
           /\ pc' # "schedule" /\ (pc' \in Before => pc \in Before \cup {"endPass"})
  <2>1. \A d \in Devices : heartbeat'[d] # None => heartbeat'[d].at <= clock'
    BY <1>1
  <2>2. pc = "endPass" => start # None
    BY DEF IInv, BoundaryInv
  <2>3. GateSound(gate) => GateSound(gate)'
    BY <1>1 DEF GateSound
  <2> QED BY <1>1, <2>1, <2>2, <2>3
<1>2. CASE FeedGate
  <2>1. /\ start = None /\ pc = "gate"
        /\ UNCHANGED <<heartbeat, clock, start, confirmedAt>>
        /\ gate' = Advanced(Observing(Fresh), now)
        /\ pc' = "schedule" => gate'.state = "JOINT_READY"
    <3>1. ASSUME EndLaunch(Error("joint_warmup_timeout")) PROVE pc' # "schedule"
      BY <3>1 DEF EndLaunch
    <3>2. /\ start = None /\ pc = "gate"
          /\ UNCHANGED <<heartbeat, clock, start, confirmedAt>>
          /\ gate' = Advanced(Observing(Fresh), now)
      BY <1>2 DEF FeedGate, IInv, BoundaryInv, world, records, schedule
    <3>3. ASSUME gate'.state # "JOINT_READY", gate'.state # "BLOCKED"
          PROVE  pc' = "poll"
      BY <1>2, <3>3 DEF FeedGate
    <3>4. gate'.state = "BLOCKED" => pc' # "schedule"
      BY <1>2, <3>1 DEF FeedGate
    <3> QED BY <3>2, <3>3, <3>4
  <2> DEFINE G == {g \in Gate : GateSound(g)}
  <2>2. gate \in G
    BY <2>1 DEF Before
  <2>3. ASSUME NEW g \in G, NEW d \in Devices, d \in Fresh
        PROVE  Observed(g, d, heartbeat[d].at, heartbeat[d].health) \in G
    <3>1. /\ heartbeat[d].at \in Int /\ heartbeat[d].health \in Health
          /\ heartbeat[d].at <= clock
          /\ confirmedAt # None => heartbeat[d].at >= confirmedAt
      BY <2>1, <2>3 DEF Fresh, StateOK, WorkersTypeOK, Health
    <3> QED BY <1>a, <3>1, ObservedSound
  <2> HIDE DEF G
  <2>4. Observing(Fresh) \in G
    BY <2>2, <2>3, ObservingKeeps
  <2>5. GateSound(gate')
    BY <1>a, <2>1, <2>4, AdvancedSound DEF G
  <2>6. GateSound(gate)'
    BY <2>1, <2>5 DEF GateSound
  <2> QED BY <2>1, <2>6
<1>3. CASE Confirm
  BY <1>3 DEF Confirm, world, records, Before
<1>4. CASE Refresh
  <2>1. /\ UNCHANGED <<heartbeat, clock>> /\ pc' = "poll"
        /\ gate' = NewGate(0)
    BY <1>4 DEF Refresh, world, records
  <2>2. GateSound(gate)'
    BY <2>1, CoordinatorAssumption, WorkersAssumption DEF GateSound, NewGate, Health
  <2> QED BY <2>1, <2>2
<1>5. CASE ScheduleStart
  <2>1. start' \in Nat /\ pc' = "poll" /\ UNCHANGED <<heartbeat, clock>>
    BY <1>5, CoordinatorAssumption DEF ScheduleStart, StateOK, WorkersTypeOK
  <2> QED BY <2>1, WorkersAssumption
<1>6. CASE WatchHeartbeats
  <2>1. start' = start /\ start # None /\ pc' = "endPass" /\ UNCHANGED <<heartbeat, clock>>
    BY <1>6 DEF WatchHeartbeats, IInv, BoundaryInv, schedule
  <2> QED BY <2>1
<1> QED BY <1>1, <1>2, <1>3, <1>4, <1>5, <1>6, OthersLeaveGate

(* What the gate says survives what others do.                              *)
LEMMA OthersKeepGate ==
    ASSUME StateOK, IInv, gate \in Gate, GateInv, StateOK',
           UNCHANGED coordinator, clock' >= clock,
           \A d \in Devices : heartbeat'[d] # None =>
               heartbeat'[d] = heartbeat[d] \/ heartbeat'[d].at <= clock'
    PROVE  gate' \in Gate /\ GateInv'
<1> USE DEF coordinator, schedule
<1>1. \A d \in Devices : heartbeat[d] # None => heartbeat[d].at \in Int
  BY DEF StateOK, WorkersTypeOK
<1>2. clock \in Nat /\ clock' \in Nat
  BY DEF StateOK, WorkersTypeOK
<1>3. \A d \in Devices : heartbeat'[d] # None => heartbeat'[d].at <= clock'
  BY <1>1, <1>2 DEF GateInv
<1>4. GateSound(gate) => GateSound(gate)'
  <2>1. ASSUME GateSound(gate), gate.state = "JOINT_READY", NEW d \in Devices
        PROVE  clock' - gate.healthySince[d] >= CONTINUOUS_HEALTHY_NS
    <3>1. gate.healthySince[d] \in Int /\ clock - gate.healthySince[d] >= CONTINUOUS_HEALTHY_NS
      BY <2>1 DEF GateSound, Gate
    <3> QED BY <1>2, <3>1, CoordinatorAssumption
  <2> QED BY <2>1 DEF GateSound
<1> QED BY <1>3, <1>4 DEF GateInv

(* A worker's heartbeat is not from the future.                             *)
LEMMA WorkerHeartbeats ==
    ASSUME WorkersTypeOK, GateInv, NEW d \in Devices, WorkerStep(d)
    PROVE  /\ clock' = clock
           /\ \A e \in Devices : heartbeat'[e] # None =>
                  heartbeat'[e] = heartbeat[e] \/ heartbeat'[e].at <= clock'
<1> USE DEF records, workers, Health
<1>1. CASE Beat(d)
  <2>1. /\ clock' = clock
        /\ \E at \in Nat, health \in Health :
              /\ at <= clock
              /\ heartbeat' = [heartbeat EXCEPT ![d] = [at |-> at, health |-> health]]
    <3>1. heartbeat[d] # None => heartbeat[d].at \in Nat /\ heartbeat[d].at <= clock
      BY DEF WorkersTypeOK, GateInv
    <3>2. \/ heartbeat' = [heartbeat EXCEPT ![d] = [at |-> clock, health |-> "healthy"]]
          \/ \E late \in {0, 1}, health \in {"healthy", "unhealthy"} :
                /\ late = 1 => heartbeat[d] # None /\ heartbeat[d].at > 0
                /\ heartbeat' = [heartbeat EXCEPT ![d] =
                       [at |-> IF late = 1 THEN heartbeat[d].at - 1 ELSE clock, health |-> health]]
      BY <1>1 DEF Beat
    <3>3. clock' = clock /\ clock \in Nat
      BY <1>1 DEF Beat, WorkersTypeOK
    <3> QED BY <3>1, <3>2, <3>3
  <2> QED BY <2>1 DEF WorkersTypeOK
<1>2. CASE ~Beat(d)
  <2>1. UNCHANGED <<clock, heartbeat>>
    <3>1. CASE SetUp(d) \/ SetUpD405Fails(d) \/ ExitFailed(d) \/ SetUpEgoFails(d) \/ SetUpEgoStorageFails(d)
      BY <3>1 DEF SetUp, SetUpD405Fails, ExitFailed, SetUpEgoFails, SetUpEgoStorageFails
    <3>2. CASE ReadStart(d) \/ ReadStartLate(d) \/ CaptureFails(d) \/ CloseWindow(d) \/ WriteAcceptance(d)
      BY <3>2 DEF ReadStart, ReadStartLate, CaptureFails, CloseWindow, WriteAcceptance
    <3>3. CASE LatchVerdict(d) \/ ExitWithVerdict(d) \/ AcceptanceFails(d) \/ Die(d) \/ EndEarly(d)
      BY <3>3 DEF LatchVerdict, ExitWithVerdict, AcceptanceFails, Die, EndEarly
    <3> QED BY <1>2, <3>1, <3>2, <3>3 DEF WorkerStep
  <2> QED BY <2>1
<1> QED BY <1>1, <1>2

-----------------------------------------------------------------------------
(* The theorems.                                                            *)

(* The beginning.                                                           *)
LEMMA Beginning ==
    ASSUME Init
    PROVE  StateOK /\ IInv
<1> USE WorkersAssumption, CoordinatorAssumption DEF Init, InitWorkers
<1>1. WorkersTypeOK
  BY DEF WorkersTypeOK
<1>2. NoResult \in Results
  BY DEF NoResult, Results
<1>3. StateOK
  BY <1>1, <1>2 DEF StateOK
<1>4. WorkersInv /\ ShutdownInv /\ PollInv
  BY DEF WorkersInv, ShutdownInv, PollInv
<1>5. BoundaryInv /\ FirstInv /\ AcceptedInv
  BY DEF BoundaryInv, BoundariesAgree, FirstInv, AcceptedInv
<1>6. ResultInv
  BY DEF ResultInv, Fits, NoResult
<1>7. ReportInv
  BY DEF ReportInv, PassIsEarned, FailureNotMasked, BlockedIsBenign, ReportIsVerifiable, Statuses
<1> QED BY <1>3, <1>4, <1>5, <1>6, <1>7 DEF IInv

(* Every step keeps the types and the invariant.                            *)
LEMMA Steps ==
    ASSUME StateOK, IInv, [Next]_vars
    PROVE  StateOK' /\ IInv'
<1>1. CASE CoordinatorStep
  <2>1. StateOK'
    BY <1>1, CoordinatorTypes
  <2>2. WorkersInv'
    BY <1>1, CoordinatorWorkers DEF IInv
  <2> QED BY <1>1, <2>1, <2>2, CoordinatorShutdown, CoordinatorPoll, CoordinatorBoundary,
             CoordinatorFirst, CoordinatorAccepted, CoordinatorResult, CoordinatorReport DEF IInv
<1>2. ASSUME NEW d \in Devices, Work(d) PROVE StateOK' /\ IInv'
  <2>1. WorkerStep(d) /\ ~Busy /\ UNCHANGED coordinator
    BY <1>2 DEF Work
  <2>2. WorkersTypeOK'
    BY <2>1, WorkerTypes DEF StateOK, IInv
  <2>3. StateOK'
    BY <2>1, <2>2 DEF StateOK, coordinator, pass, findings, schedule, outcome
  <2>4. WorkersInv' /\ Onward
    BY <2>1, WorkerOnward DEF StateOK, IInv
  <2> QED BY <2>1, <2>3, <2>4, OnwardKeeps
<1>3. CASE Tick
  <2>1. WorkersTypeOK' /\ WorkersInv' /\ Onward /\ ~Busy /\ UNCHANGED coordinator
    BY <1>3, TickOnward DEF StateOK, IInv, Tick
  <2>2. StateOK'
    BY <2>1 DEF StateOK, coordinator, pass, findings, schedule, outcome
  <2> QED BY <2>1, <2>2, OnwardKeeps
<1>4. CASE UNCHANGED vars
  <2> USE <1>4 DEF vars, world, records, workers, coordinator, pass, findings, schedule, outcome
  <2>1. StateOK'
    BY DEF StateOK, WorkersTypeOK
  <2>2. WorkersInv' /\ ShutdownInv' /\ PollInv'
    BY DEF IInv, WorkersInv, ShutdownInv, Running, PollInv, RanUntil, Launched
  <2>3. BoundaryInv' /\ FirstInv' /\ AcceptedInv'
    BY DEF IInv, BoundaryInv, BoundariesAgree, FirstInv, AcceptedInv
  <2>4. ResultInv'
    BY DEF IInv, ResultInv, Fits, RanOut, RanUntil
  <2>5. ReportInv'
    BY DEF IInv, ReportInv, PassIsEarned, FailureNotMasked, BlockedIsBenign, ReportIsVerifiable,
           RanUntilTheEnd, JointGateSection, BenignError, EmbeddedMatch
  <2> QED BY <2>1, <2>2, <2>3, <2>4, <2>5 DEF IInv
<1> QED BY <1>1, <1>2, <1>3, <1>4 DEF Next, Done

(* The coordinator, its workers and their clock always satisfy the          *)
(* inductive invariant.                                                     *)
THEOREM Invariance == Spec => [](StateOK /\ IInv)
<1>1. Init => StateOK /\ IInv
  BY Beginning
<1>2. StateOK /\ IInv /\ [Next]_vars => StateOK' /\ IInv'
  BY Steps
<1> QED BY <1>1, <1>2, PTL DEF Spec

(* A PASS is earned: the boundaries are the coordinator's own and every     *)
(* worker ran until its end, exited with 0 and left a PASS.                 *)
THEOREM PassAlwaysEarned == Spec => []PassIsEarned
<1>1. StateOK /\ IInv => PassIsEarned
  BY DEF IInv, ReportInv
<1> QED BY <1>1, Invariance, PTL

(* No order of events hides a failure from the report.                      *)
THEOREM FailureNeverMasked == Spec => []FailureNotMasked
<1>1. StateOK /\ IInv => FailureNotMasked
  BY DEF IInv, ReportInv
<1> QED BY <1>1, Invariance, PTL

(* A recording is BLOCKED only if every worker ran until the end and ended  *)
(* in order.                                                                *)
THEOREM BlockedAlwaysBenign == Spec => []BlockedIsBenign
<1>1. StateOK /\ IInv => BlockedIsBenign
  BY DEF IInv, ReportInv
<1> QED BY <1>1, Invariance, PTL

(* The verification agrees with every PASS and every BLOCKED recording.     *)
THEOREM ReportsVerify == Spec => []ReportIsVerifiable
<1>1. StateOK /\ IInv => ReportIsVerifiable
  BY DEF IInv, ReportInv
<1> QED BY <1>1, Invariance, PTL

(* start.json and stop.json are the boundaries the coordinator judges by.   *)
THEOREM BoundariesAlwaysAgree == Spec => []BoundariesAgree
<1>1. StateOK /\ IInv => BoundariesAgree
  BY DEF IInv, BoundaryInv
<1> QED BY <1>1, Invariance, PTL

(* A recording without a duration is stopped by the first error.            *)
THEOREM OpenRunsStop == Spec => []OpenRunIsStopped
<1>1. StateOK /\ IInv => OpenRunIsStopped
  BY DEF IInv, FirstInv, OpenRunIsStopped
<1> QED BY <1>1, Invariance, PTL

(* A worker that outlives the coordinator could not be killed, and it is in *)
(* the report.                                                              *)
THEOREM OrphansAlwaysReported == Spec => []OrphansAreReported
<1>1. ASSUME StateOK, IInv, pc = "done", Running # {}
      PROVE  /\ faults > 0
             /\ \A d \in Running : result[d].code = None
             /\ start # None => report = "FAIL"
  <2>1. faults > 0
    BY <1>1 DEF IInv, ShutdownInv
  <2>2. \A d \in Running : d \in Devices /\ phase[d] # "exited" /\ result[d].code = None
    BY <1>1 DEF IInv, ResultInv, Fits, Running
  <2>3. report \in Statuses
    BY <1>1 DEF IInv, ReportInv, StateOK
  <2>4. report # "PASS"
    BY <1>1, <2>2 DEF IInv, ReportInv, PassIsEarned
  <2>5. report = "BLOCKED" => start = None
    BY <1>1, <2>2 DEF IInv, ReportInv, ReportIsVerifiable, JointGateSection
  <2> QED BY <2>1, <2>2, <2>3, <2>4, <2>5 DEF Statuses
<1>2. StateOK /\ IInv => OrphansAreReported
  BY <1>1 DEF OrphansAreReported
<1> QED BY <1>2, Invariance, PTL

(* Every step keeps what is known of the gate.                              *)
LEMMA GateSteps ==
    ASSUME StateOK, IInv, gate \in Gate, GateInv, [Next]_vars
    PROVE  gate' \in Gate /\ GateInv'
<1>1. StateOK'
  BY Steps
<1>2. CASE CoordinatorStep
  BY <1>2, GateTypes, CoordinatorGate
<1>3. ASSUME NEW d \in Devices, Work(d) PROVE gate' \in Gate /\ GateInv'
  <2>1. WorkerStep(d) /\ UNCHANGED coordinator
    BY <1>3 DEF Work
  <2>2. /\ clock' = clock
        /\ \A e \in Devices : heartbeat'[e] # None =>
               heartbeat'[e] = heartbeat[e] \/ heartbeat'[e].at <= clock'
    BY <2>1, WorkerHeartbeats DEF StateOK
  <2>3. clock' >= clock
    BY <2>2 DEF StateOK, WorkersTypeOK
  <2> QED BY <1>1, <2>1, <2>2, <2>3, OthersKeepGate
<1>4. CASE Tick
  <2>1. UNCHANGED coordinator /\ heartbeat' = heartbeat /\ clock' >= clock
    BY <1>4 DEF Tick, records, StateOK, WorkersTypeOK
  <2> QED BY <1>1, <2>1, OthersKeepGate
<1>5. CASE UNCHANGED vars
  <2>1. UNCHANGED coordinator /\ heartbeat' = heartbeat /\ clock' >= clock
    BY <1>5 DEF vars, world, records, StateOK, WorkersTypeOK
  <2> QED BY <1>1, <2>1, OthersKeepGate
<1> QED BY <1>2, <1>3, <1>4, <1>5 DEF Next, Done

(* The gate holds what the coordinator infers from it.                      *)
THEOREM GateInvariance == Spec => [](gate \in Gate /\ GateInv)
<1>1. Init => gate \in Gate /\ GateInv
  <2> SUFFICES ASSUME Init PROVE gate \in Gate /\ GateInv
    OBVIOUS
  <2> USE WorkersAssumption, CoordinatorAssumption DEF Init, InitWorkers
  <2>1. gate \in Gate
    BY DEF NewGate, Gate, GateStates
  <2>2. GateSound(gate)
    BY DEF GateSound, NewGate, Health
  <2> QED BY <2>1, <2>2 DEF GateInv
<1>2. StateOK /\ IInv /\ gate \in Gate /\ GateInv /\ [Next]_vars =>
          (gate \in Gate /\ GateInv)'
  BY GateSteps
<1> QED BY <1>1, <1>2, Invariance, PTL DEF Spec

(* Every variable always holds what the code can put there.                 *)
THEOREM TypesAlwaysOK == Spec => []TypeOK
<1>1. StateOK /\ gate \in Gate => TypeOK
  BY DEF StateOK, TypeOK
<1> QED BY <1>1, Invariance, GateInvariance, PTL

(* A start is scheduled only within the launch timeout, after no error and  *)
(* when every worker has been healthy without a break for long enough,      *)
(* after a prompt since the operator's confirmation.                        *)
THEOREM StartAlwaysSafe == Spec => StartIsSafe
<1> DEFINE Safe == /\ first = None
                   /\ clock < LAUNCH_TIMEOUT_NS
                   /\ \A d \in Devices :
                         /\ gate.latest[d] = "healthy"
                         /\ clock - gate.healthySince[d] >= CONTINUOUS_HEALTHY_NS
                         /\ confirmedAt # None => gate.healthySince[d] >= confirmedAt
<1>1. ASSUME StateOK, IInv, GateInv, ScheduleStart PROVE Safe
  <2>1. pc = "schedule" /\ start = None /\ first = None /\ clock < LAUNCH_TIMEOUT_NS
    BY <1>1 DEF ScheduleStart, InTime, Instant, IInv, BoundaryInv, FirstInv
  <2>2. GateSound(gate) /\ gate.state = "JOINT_READY"
    BY <1>1, <2>1 DEF GateInv
  <2> QED BY <2>1, <2>2 DEF GateSound
<1>2. ASSUME StateOK, IInv, [Next]_vars, start' # start PROVE ScheduleStart
  <2>1. CASE CoordinatorStep
    <3>1. FeedGate \/ Confirm \/ Refresh \/ WatchHeartbeats => start' = start
      BY DEF FeedGate, Confirm, Refresh, WatchHeartbeats, schedule
    <3> QED BY <1>2, <2>1, <3>1, OthersLeaveGate
  <2>2. ASSUME NEW d \in Devices, Work(d) PROVE start' = start
    BY <2>2 DEF Work, coordinator, schedule
  <2>3. Tick \/ UNCHANGED vars => start' = start
    BY DEF Tick, vars, coordinator, schedule
  <2> QED BY <1>2, <2>1, <2>2, <2>3 DEF Next, Done
<1>3. StateOK /\ IInv /\ GateInv /\ [Next]_vars => [start' # start => Safe]_vars
  BY <1>1, <1>2
<1> QED BY <1>3, Invariance, GateInvariance, PTL DEF Spec, StartIsSafe
=============================================================================
