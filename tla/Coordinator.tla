---------------------------- MODULE Coordinator ----------------------------
(***************************************************************************)
(* _run_coordinator_claimed of acquisition/coordinator.py together with    *)
(* the workers it launches.                                                *)
(*                                                                         *)
(* The coordinator is one loop.  Each pass reads the clock once (now),     *)
(* polls the processes, reads the failure records and judges the workers   *)
(* that ended; before a start is scheduled it then feeds the heartbeats to *)
(* the gate, prompts and schedules, afterwards it looks for a stop, for    *)
(* silent workers and for the end.  pc names the part it does next; what   *)
(* the parts read may have changed since now.                              *)
(*                                                                         *)
(* A worker's own barrier call is one step here (Barrier takes it apart).  *)
(***************************************************************************)
EXTENDS Workers, SequencesExt

CONSTANTS
    REQUIRED_DEVICES,   \* the devices in the order the code visits them
    AutoStart,          \* "yes", or "no" if the operator confirms the start
    MayStop,            \* "yes" if the operator may ask for a stop
    WARMUP_NS,
    CONTINUOUS_HEALTHY_NS,
    LAUNCH_TIMEOUT_NS,
    START_GUARD_NS,
    HEARTBEAT_STALE_NS,
    FINALIZATION_GRACE_NS,
    MaxClock            \* the clock stops here unless an end is being awaited

INSTANCE JointWarmupGate
INSTANCE FinalStatus

ASSUME CoordinatorAssumption ==
    /\ REQUIRED_DEVICES \in Seq(Devices)
    /\ Devices = ToSet(REQUIRED_DEVICES)
    /\ None \notin Devices \cup Health \cup Statuses \cup FirstErrors
    /\ {AutoStart, MayStop} \subseteq {"yes", "no"}
    /\ {WARMUP_NS, CONTINUOUS_HEALTHY_NS, LAUNCH_TIMEOUT_NS, START_GUARD_NS,
        HEARTBEAT_STALE_NS, FINALIZATION_GRACE_NS, MaxClock} \subseteq Nat

VARIABLES
    pc,             \* what the coordinator does next
    now,            \* now_ns of this pass
    formalEnd,      \* formal_end_ns of this pass
    unstopped,       \* the processes the shutdown has still to visit
    alive,          \* alive_this_poll
    result,         \* worker_results
    gate,
    lastHeartbeat,  \* last_heartbeat_ns
    known,          \* the keys of barrier_failures
    errors,         \* the reasons in coordinator_errors
    first,          \* first_error
    start,          \* scheduled_start_ns
    confirmed,      \* operator_confirmed
    confirmedAt,    \* post_confirmation_ns
    stop,           \* stop_boundary_ns
    accepted,       \* the trusted acceptances
    report          \* the status in the returned report

pass == <<now, formalEnd, unstopped, alive>>
findings == <<known, errors, first>>
schedule == <<start, confirmed, confirmedAt>>
outcome == <<accepted, report>>
world == <<clock, heartbeat, failure, startRecord, stopRecord, acceptance, workers>>
coordinator == <<pc, pass, result, gate, lastHeartbeat, findings, schedule, stop, outcome>>
vars == <<world, faults, coordinator>>

NoResult == [code |-> None, early |-> "no", observed |-> "no"]

YesIf(condition) == IF condition THEN "yes" ELSE "no"

Launched == {d \in Devices : phase[d] # "off"}

Init ==
    /\ InitWorkers
    /\ pc = "launch"
    /\ now = 0
    /\ formalEnd = None
    /\ unstopped = {}
    /\ alive = {}
    /\ result = [d \in Devices |-> NoResult]
    /\ gate = NewGate(WARMUP_NS)
    /\ lastHeartbeat = [d \in Devices |-> None]
    /\ known = {}
    /\ errors = {}
    /\ first = None
    /\ start = None
    /\ confirmed = AutoStart
    /\ confirmedAt = None
    /\ stop = None
    /\ accepted = [d \in Devices |-> None]
    /\ report = None

\* What the code computes at the head of a pass.
FormalEnd ==
    IF stop # None THEN stop
    ELSE IF start = None \/ DURATION_NS = None THEN None
    ELSE start + DURATION_NS

\* latch_error: the first one stays.
FirstIs(error) == first' = IF first = None THEN error ELSE first

\* So many barrier calls of a step raise; each leaves a barrier_io behind.
Suffers(n) == faults + n <= MaxFaults /\ faults' = faults + n
Noted(reasons, n) == errors' = errors \cup reasons \cup IF n = 0 THEN {} ELSE {"barrier_io"}

\* The workers of S have been seen at the formal end.
Credited(S, r) ==
    [d \in Devices |-> IF d \in S THEN [r[d] EXCEPT !.observed = "yes"] ELSE r[d]]

\* Without a start, the first error also is what ends the launch
\* (prestart_terminal): the code sets both together.
EndLaunch(error) ==
    /\ FirstIs(error)
    /\ pc' = IF Launched = {} THEN "load" ELSE "terminate"
    /\ unstopped' = Launched

NewPass ==
    /\ now' = 0
    /\ formalEnd' = None
    /\ unstopped' = {}
    /\ alive' = {}

-----------------------------------------------------------------------------
(* Mutants: plausible bugs in the operations below; no specification uses them. *)

\* Any exit after a start is in time, whether it was seen running or not.
EarlyBeforeStartOnly(d) == formalEnd = None

\* The boundary is remembered only if the barrier call returns.
PublishStopIfWritten(at, raises) ==
    /\ stop' = IF raises THEN None ELSE at
    /\ stopRecord' \in IF raises THEN {None, at} ELSE {at}

\* The coordinator's boundary is its own clock's, the record's the failure's.
PublishStopNow(at, raises) ==
    /\ stop' = clock
    /\ stopRecord' \in IF raises THEN {None, at} ELSE {at}

\* The gate that was ready at the prompt is kept after it.
RefreshKeepingGate ==
    /\ pc = "refresh" /\ clock < LAUNCH_TIMEOUT_NS
    /\ pc' = "poll"
    /\ UNCHANGED <<world, faults, pass, result, gate, lastHeartbeat, findings, schedule, stop,
                   outcome>>

\* The coordinator waits for the last worker however long it takes.
EndPassWaiting ==
    /\ pc = "endPass"
    /\ pc' = IF \A d \in Devices : result[d].code # None THEN "load" ELSE "poll"
    /\ NewPass
    /\ UNCHANGED <<world, faults, result, gate, lastHeartbeat, findings, schedule, stop, outcome>>

\* After the grace the report is written and the late workers are left alone.
EndPassLeavingWorkers ==
    /\ pc = "endPass"
    /\ LET open == {d \in Devices : result[d].code = None}
           late == formalEnd # None /\ now >= formalEnd + FINALIZATION_GRACE_NS
       IN  IF open # {} /\ late
           THEN /\ errors' = errors \cup {"worker_finalize_timeout"}
                /\ FirstIs(Error("worker_finalize_timeout"))
                /\ pc' = "load"
                /\ NewPass
           ELSE /\ pc' = IF open = {} THEN "load" ELSE "poll"
                /\ NewPass
                /\ UNCHANGED <<errors, first>>
    /\ UNCHANGED <<world, faults, result, gate, lastHeartbeat, known, schedule, stop, outcome>>

-----------------------------------------------------------------------------
\* publish_stop, apart from the credit it gives the workers that are alive.
\* A call that raises may have put the record in place all the same.
PublishStop(at, raises) ==
    /\ stop' = at
    /\ stopRecord' \in IF raises THEN {None, at} ELSE {at}

-----------------------------------------------------------------------------
(* Launch *)

\* The directories are made and the processes started one after the other.
Launch(d) ==
    /\ pc = "launch"
    /\ Launched # Devices
    /\ d = FirstOf(Devices \ Launched)
    /\ phase' = [phase EXCEPT ![d] = "setup"]
    /\ pc' = IF Launched \cup {d} = Devices THEN "poll" ELSE "launch"
    /\ UNCHANGED <<clock, faults, records, acceptance, verdict, code, exitedAt, pass, result,
                   gate, lastHeartbeat, findings, schedule, stop, outcome>>

LaunchFails ==
    /\ pc = "launch"
    /\ Misfortune
    /\ errors' = errors \cup {"worker_launch"}
    /\ EndLaunch(Error("worker_launch"))
    /\ UNCHANGED <<world, now, formalEnd, alive, result, gate, lastHeartbeat, known, schedule,
                   stop, outcome>>

\* No directory, no barrier: a report is returned at once.
InitialStorageFails ==
    /\ pc = "launch"
    /\ Launched = {}
    /\ Misfortune
    /\ errors' = errors \cup {"storage_io"}
    /\ FirstIs(Error("storage_io"))
    /\ report' = "FAIL"
    /\ pc' = "done"
    /\ UNCHANGED <<world, pass, result, gate, lastHeartbeat, known, schedule, stop, accepted>>

-----------------------------------------------------------------------------
(* One pass: processes, failure records, exits *)

\* The clock is read and every process polled.  Workers do not talk to each
\* other, so what happens between two polls could as well happen after them.
\* A process seen running at or after the formal end has not ended early.
PollWorkers ==
    /\ pc = "poll"
    /\ now' = clock
    /\ formalEnd' = FormalEnd
    /\ alive' = Running
    /\ result' = IF FormalEnd # None /\ clock >= FormalEnd
                 THEN Credited(Running, result) ELSE result
    /\ pc' = "failures"
    /\ UNCHANGED <<world, faults, unstopped, gate, lastHeartbeat, findings, schedule, stop,
                   outcome>>

\* A new failure record is the end of a launch; of a recording it is the stop,
\* dated as the record is.  The records come in the order of the directory: any
\* of the new ones may be the first.
ReadFailures ==
    /\ pc = "failures"
    /\ LET new == {d \in Devices : failure[d] # None} \ known IN
       /\ known' = known \cup new
       /\ IF new = {}
          THEN UNCHANGED <<faults, errors, first, stop, stopRecord, result>>
          ELSE \E d \in new, raises \in {0, 1} :
                 /\ FirstIs([Error("worker_failure") EXCEPT !.device = d])
                 /\ Suffers(raises)
                 /\ Noted({}, raises)
                 /\ IF start # None /\ stop = None
                    THEN /\ PublishStop(failure[d], raises = 1)
                         /\ result' = Credited(alive, result)
                    ELSE raises = 0 /\ UNCHANGED <<stop, stopRecord, result>>
    /\ pc' = "exits"
    /\ UNCHANGED <<clock, heartbeat, failure, startRecord, acceptance, workers, pass, gate,
                   lastHeartbeat, schedule, outcome>>

\* The records cannot be read.
FailuresUnreadable ==
    /\ pc = "failures"
    /\ FirstIs(Error("barrier_io"))
    /\ \E raises \in {0, 1} :
          /\ Suffers(1 + raises)
          /\ Noted({}, 1)
          /\ IF start # None /\ stop = None
             THEN PublishStop(now, raises = 1) /\ result' = Credited(alive, result)
             ELSE raises = 0 /\ UNCHANGED <<stop, stopRecord, result>>
    /\ pc' = "exits"
    /\ UNCHANGED <<clock, heartbeat, failure, startRecord, acceptance, workers, pass, known,
                   gate, lastHeartbeat, schedule, outcome>>

\* The workers this pass found ended.  Before a start every exit is early.
Ended == {d \in Launched \ alive : result[d].code = None}
Early(d) == formalEnd = None \/ result[d].observed = "no"
WronglyEnded == {d \in Ended \ known : Early(d) \/ code[d] # 0}

CheckExits ==
    /\ pc = "exits"
    /\ LET stops == /\ WronglyEnded # {} /\ start # None /\ stop = None
                    /\ formalEnd = None \/ now < formalEnd
           d1 == FirstOf(WronglyEnded)
           judged == [d \in Devices |->
                         IF d \in Ended
                         THEN [result[d] EXCEPT !.code = code[d], !.early = YesIf(Early(d))]
                         ELSE result[d]]
       IN  /\ IF WronglyEnded = {} THEN UNCHANGED first
              ELSE FirstIs([Error("worker_exit") EXCEPT !.device = d1, !.code = code[d1]])
           /\ \E raises \in {0, 1} :
                 /\ Suffers(raises)
                 /\ Noted({}, raises)
                 /\ IF stops
                    THEN PublishStop(now, raises = 1) /\ result' = Credited(alive, judged)
                    ELSE raises = 0 /\ result' = judged /\ UNCHANGED <<stop, stopRecord>>
    /\ IF start = None /\ first' # None
       THEN pc' = "terminate" /\ unstopped' = Launched
       ELSE pc' = (IF start = None THEN "gate" ELSE "stopRequest") /\ UNCHANGED unstopped
    /\ UNCHANGED <<clock, heartbeat, failure, startRecord, acceptance, workers, now, formalEnd,
                   alive, known, gate, lastHeartbeat, schedule, outcome>>

-----------------------------------------------------------------------------
(* Before the start: the gate, the prompt, the schedule *)

\* The prompt's recheck reads the clock anew, the pass does not.
Instant == IF pc = "gate" THEN now ELSE clock

InTime == Instant < LAUNCH_TIMEOUT_NS

\* The heartbeats not yet seen; a pass after the confirmation ignores older ones.
Fresh == {d \in Devices :
             /\ heartbeat[d] # None
             /\ heartbeat[d].at # lastHeartbeat[d]
             /\ pc = "gate" /\ confirmedAt # None => heartbeat[d].at >= confirmedAt}

Regressed == {d \in Fresh : Regresses(gate, d, heartbeat[d].at)}

\* last_heartbeat_ns after the heartbeats of S.
LastSeen(S) == [d \in Devices |-> IF d \in S THEN heartbeat[d].at ELSE lastHeartbeat[d]]

Silent(last) == {d \in Devices : last[d] # None /\ Instant - last[d] > HEARTBEAT_STALE_NS}

\* gate.observe for the heartbeats of S, in the order of the devices.
Observing(S) ==
    LET seen(g, d) ==
            IF d \in S THEN Observed(g, d, heartbeat[d].at, heartbeat[d].health) ELSE g
        upTo[i \in 0..Len(REQUIRED_DEVICES)] ==
            IF i = 0 THEN gate ELSE seen(upTo[i - 1], REQUIRED_DEVICES[i])
    IN  upTo[Len(REQUIRED_DEVICES)]

\* The launch has taken too long.
LaunchTimesOut ==
    /\ pc \in {"gate", "refresh", "schedule"} /\ ~InTime
    /\ EndLaunch(Error("joint_warmup_timeout"))
    /\ UNCHANGED <<world, faults, now, formalEnd, alive, result, gate, lastHeartbeat, known,
                   errors, schedule, stop, outcome>>

HeartbeatsUnreadable ==
    /\ pc \in {"gate", "refresh"} /\ InTime
    /\ Suffers(1)
    /\ Noted({}, 1)
    /\ EndLaunch(Error("barrier_io"))
    /\ UNCHANGED <<world, now, formalEnd, alive, result, gate, lastHeartbeat, known, schedule,
                   stop, outcome>>

\* What is latched here is found in the end by the last read of the records.
LatchAndEndLaunch(reason, d, noted) ==
    /\ EndLaunch(Error(reason))
    /\ \E raises \in {0, 1} :
          /\ Suffers(raises)
          /\ Noted(noted, raises)
          /\ IF raises = 1 THEN UNCHANGED failure ELSE Latch(d, Instant)
    /\ UNCHANGED <<clock, heartbeat, startRecord, stopRecord, acceptance, workers, now,
                   formalEnd, alive, result, gate, lastHeartbeat, known, schedule, stop,
                   outcome>>

HeartbeatRegresses ==
    /\ pc \in {"gate", "refresh"} /\ InTime
    /\ \E d \in Regressed :
          /\ pc = "gate" => d = FirstOf(Regressed)
          /\ LatchAndEndLaunch("timestamp_regression", d, {"timestamp_regression"})

WorkerSilent ==
    /\ pc \in {"gate", "refresh"} /\ InTime
    /\ Regressed = {}
    /\ \E d \in Silent(LastSeen(Fresh)) : LatchAndEndLaunch("worker_disconnect", d, {})

\* The gate takes the heartbeats and the time of the pass; it may find that the
\* launch has taken too long by its own measure.
FeedGate ==
    /\ pc = "gate" /\ InTime
    /\ Regressed = {} /\ Silent(LastSeen(Fresh)) = {}
    /\ gate' = Advanced(Observing(Fresh), now)
    /\ lastHeartbeat' = LastSeen(Fresh)
    /\ IF gate'.state = "BLOCKED"
       THEN EndLaunch(Error("joint_warmup_timeout")) /\ UNCHANGED <<now, formalEnd, alive>>
       ELSE /\ pc' = CASE gate'.state # "JOINT_READY" -> "poll"
                      [] gate'.state = "JOINT_READY" /\ confirmed = "yes" -> "schedule"
                      [] gate'.state = "JOINT_READY" /\ confirmed = "no" -> "prompt"
            /\ NewPass
            /\ UNCHANGED first
    /\ UNCHANGED <<world, faults, result, known, errors, schedule, stop, outcome>>

Confirm ==
    /\ pc = "prompt"
    /\ confirmed' = "yes"
    /\ confirmedAt' = clock
    /\ pc' = "refresh"
    /\ UNCHANGED <<world, faults, pass, result, gate, lastHeartbeat, findings, start, stop,
                   outcome>>

Cancel ==
    /\ pc = "prompt"
    /\ EndLaunch(Error("operator_cancelled"))
    /\ UNCHANGED <<world, faults, now, formalEnd, alive, result, gate, lastHeartbeat, known,
                   errors, schedule, stop, outcome>>

\* All is well after the prompt: a new gate without a warm-up.
Refresh ==
    /\ pc = "refresh" /\ InTime
    /\ Regressed = {} /\ Silent(LastSeen(Fresh)) = {}
    /\ lastHeartbeat' = LastSeen(Fresh)
    /\ gate' = NewGate(0)
    /\ pc' = "poll"
    /\ UNCHANGED <<world, faults, pass, result, findings, schedule, stop, outcome>>

ScheduleStart ==
    /\ pc = "schedule" /\ InTime
    /\ start' = clock + START_GUARD_NS
    /\ startRecord' = start'
    /\ gate' = Requested(gate, start')
    /\ pc' = "poll"
    /\ UNCHANGED <<clock, faults, heartbeat, failure, stopRecord, acceptance, workers, pass,
                   result, lastHeartbeat, findings, confirmed, confirmedAt, stop, outcome>>

\* schedule_start raises, with start.json in place or not.
ScheduleFails ==
    /\ pc = "schedule" /\ InTime
    /\ Suffers(1)
    /\ Noted({}, 1)
    /\ startRecord' \in {None, clock + START_GUARD_NS}
    /\ EndLaunch(Error("barrier_io"))
    /\ UNCHANGED <<clock, heartbeat, failure, stopRecord, acceptance, workers, now, formalEnd,
                   alive, result, gate, lastHeartbeat, known, schedule, stop, outcome>>

-----------------------------------------------------------------------------
(* After the start: the stop, silent workers, the end *)

\* The operator's stop, if there is none yet.
ReadStopRequest ==
    /\ pc = "stopRequest"
    /\ \/ /\ stop = None
          /\ MayStop = "yes"
          /\ result' = Credited(alive, result)
          /\ \E raises \in {0, 1} :
                /\ Suffers(raises)
                /\ Noted({}, raises)
                /\ PublishStop(now, raises = 1)
                /\ IF raises = 1 THEN FirstIs(Error("barrier_io")) ELSE UNCHANGED first
       \/ UNCHANGED <<faults, stopRecord, result, errors, first, stop>>
    /\ formalEnd' = IF stop' # None THEN stop' ELSE formalEnd
    /\ pc' = IF formalEnd' = None \/ now < formalEnd' THEN "watch" ELSE "endPass"
    /\ UNCHANGED <<clock, heartbeat, failure, startRecord, acceptance, workers, now, unstopped,
                   alive, gate, lastHeartbeat, known, schedule, outcome>>

\* A heartbeat from the past or too old is the worker's failure and the stop.
\* unread: the heartbeats cannot be read; lost: the latches that raise.
WatchHeartbeats ==
    /\ pc = "watch"
    /\ \E unread, raises \in {0, 1}, lost \in SUBSET Devices :
          LET seen == IF unread = 1 THEN {} ELSE Fresh \ Regressed
              past == IF unread = 1 THEN {} ELSE Regressed
              silent == {d \in Devices : /\ LastSeen(seen)[d] # None
                                         /\ now - LastSeen(seen)[d] > HEARTBEAT_STALE_NS
                                         /\ d \notin known \cup (past \ lost)}
              latched == (past \ known) \cup silent
              wrong == unread = 1 \/ past # {} \/ silent # {}
          IN  /\ lost \subseteq latched
              /\ Suffers(unread + raises + Cardinality(lost))
              /\ Noted(IF past = {} THEN {} ELSE {"timestamp_regression"},
                       unread + raises + Cardinality(lost))
              /\ gate' = Observing(seen)
              /\ lastHeartbeat' = LastSeen(seen)
              /\ known' = known \cup (latched \ lost)
              /\ failure' = [d \in Devices |-> IF d \in latched \ lost /\ failure[d] = None
                                               THEN now ELSE failure[d]]
              /\ IF ~wrong THEN UNCHANGED first
                 ELSE FirstIs(Error(IF unread = 1 THEN "barrier_io"
                                    ELSE IF past # {} THEN "timestamp_regression"
                                    ELSE "worker_disconnect"))
              /\ IF wrong /\ stop = None
                 THEN PublishStop(now, raises = 1) /\ result' = Credited(alive, result)
                 ELSE raises = 0 /\ UNCHANGED <<stop, stopRecord, result>>
    /\ pc' = "endPass"
    /\ UNCHANGED <<clock, heartbeat, startRecord, acceptance, workers, pass, schedule, outcome>>

\* All have ended, or the grace is over, or there is another pass.
EndPass ==
    /\ pc = "endPass"
    /\ LET open == {d \in Devices : result[d].code = None}
           late == formalEnd # None /\ now >= formalEnd + FINALIZATION_GRACE_NS
           reason == IF stop # None THEN "worker_stop_timeout" ELSE "worker_finalize_timeout"
       IN  IF open # {} /\ late
           THEN /\ errors' = errors \cup {reason}
                /\ FirstIs(Error(reason))
                /\ pc' = "stopLate"
                /\ unstopped' = open
                /\ UNCHANGED <<now, formalEnd, alive>>
           ELSE /\ pc' = IF open = {} THEN "load" ELSE "poll"
                /\ NewPass
                /\ UNCHANGED <<errors, first>>
    /\ UNCHANGED <<world, faults, result, gate, lastHeartbeat, known, schedule, stop, outcome>>

-----------------------------------------------------------------------------
(* Shutdown and report *)

\* _stop_process: terminate, wait, kill, wait; it may all be in vain.
StopProcess(d) ==
    /\ pc \in {"terminate", "stopLate"}
    /\ d = FirstOf(unstopped)
    /\ \/ d \in Running /\ Exit(d, -15) /\ UNCHANGED faults
       \/ d \in Running /\ Misfortune /\ UNCHANGED <<phase, code, exitedAt>>
       \/ d \notin Running /\ UNCHANGED <<faults, phase, code, exitedAt>>
    /\ result' = [result EXCEPT ![d] = [code |-> code'[d], early |-> YesIf(pc = "terminate"),
                                       observed |-> YesIf(pc = "stopLate")]]
    /\ unstopped' = unstopped \ {d}
    /\ pc' = IF unstopped = {d} THEN "load" ELSE pc
    /\ UNCHANGED <<clock, records, acceptance, verdict, now, formalEnd, alive, gate,
                   lastHeartbeat, findings, schedule, stop, outcome>>

LoadAcceptances ==
    /\ pc = "load"
    /\ \E unread \in SUBSET {d \in Devices : acceptance[d] # None} :
          /\ Suffers(Cardinality(unread))
          /\ accepted' = [d \in Devices |-> IF d \in unread THEN None ELSE acceptance[d]]
          /\ errors' = errors
                 \cup (IF unread = {} THEN {} ELSE {"worker_acceptance_io"})
                 \cup (IF \E d \in Devices : accepted'[d] = None
                       THEN {"worker_acceptance_missing"} ELSE {})
    /\ first' = AsBlocked(WithAcceptances(first, accepted', errors'), accepted', result,
                          known, errors')
    /\ pc' = "report"
    /\ UNCHANGED <<world, pass, result, gate, lastHeartbeat, known, schedule, stop, report>>

\* The records are read once more, the status is decided and coordinator.json
\* written; a report that cannot be written is a FAIL.
Report ==
    /\ pc = "report"
    /\ \E unread, unwritten \in {0, 1} :
          LET noted == errors \cup (IF unread = 1 THEN {"barrier_io"} ELSE {}) IN
          /\ Suffers(unread + unwritten)
          /\ known' = IF unread = 1 THEN known
                      ELSE known \cup {d \in Devices : failure[d] # None}
          /\ IF unwritten = 1
             THEN /\ report' = "FAIL"
                  /\ errors' = noted \cup {"storage_io"}
                  /\ FirstIs(Error("storage_io"))
             ELSE /\ report' = FinalVerdict(start, first, accepted, result, known', noted)
                  /\ errors' = noted
                  /\ UNCHANGED first
    /\ pc' = "done"
    /\ UNCHANGED <<world, pass, result, gate, lastHeartbeat, schedule, stop, accepted>>

-----------------------------------------------------------------------------
(* The whole *)

CoordinatorStep ==
    \/ \E d \in Devices : Launch(d) \/ StopProcess(d)
    \/ LaunchFails
    \/ InitialStorageFails
    \/ PollWorkers
    \/ ReadFailures
    \/ FailuresUnreadable
    \/ CheckExits
    \/ LaunchTimesOut
    \/ HeartbeatsUnreadable
    \/ HeartbeatRegresses
    \/ WorkerSilent
    \/ FeedGate
    \/ Confirm
    \/ Cancel
    \/ Refresh
    \/ ScheduleStart
    \/ ScheduleFails
    \/ ReadStopRequest
    \/ WatchHeartbeats
    \/ EndPass
    \/ LoadAcceptances
    \/ Report

\* Between these parts and the next the coordinator reads nothing that others
\* write, so a step of theirs could as well be taken after it.
Busy == pc \in {"launch", "exits", "stopRequest", "endPass", "done"}

Work(d) == ~Busy /\ WorkerStep(d) /\ UNCHANGED coordinator

\* Time passes between any two steps.
Tick ==
    /\ ~Busy
    /\ \/ clock < MaxClock
       \/ FormalEnd # None /\ clock < FormalEnd + FINALIZATION_GRACE_NS
    /\ clock' = clock + 1
    /\ UNCHANGED <<faults, records, acceptance, workers, coordinator>>

\* The report has been returned.
Done == pc = "done" /\ UNCHANGED vars

Next == CoordinatorStep \/ (\E d \in Devices : Work(d)) \/ Tick \/ Done

\* The coordinator and the clock go on; nothing is expected of a worker, nor of
\* the operator, who may leave the prompt unanswered.
Spec ==
    /\ Init /\ [][Next]_vars
    /\ WF_vars(pc # "prompt" /\ CoordinatorStep) /\ SF_vars(Tick)

-----------------------------------------------------------------------------
(* What quality/verify_session.py makes of coordinator.json and of the      *)
(* acceptances on disk, long after.  That the start comes after the last    *)
(* JOINT_READY is START_GUARD_NS, and the time of ego's first frame its own. *)

\* The exit code that fits an acceptance; nothing fits a FAIL or a missing one.
ExpectedExit(status) == CASE status = "PASS" -> 0 [] status = "BLOCKED" -> 3 [] OTHER -> None

\* _check_provenance: the report holds the acceptances there are.
EmbeddedMatch == \A d \in Devices : acceptance[d] # None => accepted[d] = acceptance[d]

\* The first error of a BLOCKED report: the launch was given up, or it is the
\* error of a worker that was BLOCKED.
BenignError ==
    \/ first.reason \in {"joint_warmup_timeout", "operator_cancelled"}
    \/ /\ first.device # None /\ first.blocked = "yes"
       /\ acceptance[first.device] = "BLOCKED" /\ result[first.device].code = 3

\* _check_joint_gate: exit codes, ends and errors must fit the status; a report
\* that does not is a FAIL, whatever it says.
JointGateSection ==
    LET fits(d) == /\ result[d].code # None /\ result[d].code = ExpectedExit(acceptance[d])
                   /\ result[d].code = 3 => report = "BLOCKED"
                   /\ result[d].early = "no" /\ result[d].observed = "yes"
    IN  IF /\ report # "FAIL" /\ (report = "PASS" => start # None)
           /\ \A d \in Devices : acceptance[d] # "FAIL" /\ fits(d)
           /\ IF report = "BLOCKED" THEN first # None /\ BenignError ELSE first = None
           /\ errors = {} /\ known = {}
        THEN report ELSE "FAIL"

-----------------------------------------------------------------------------
(* Properties *)

\* Every variable holds what the code can put there.
TypeOK ==
    /\ WorkersTypeOK
    /\ pc \in {"launch", "poll", "failures", "exits", "gate", "prompt", "refresh",
               "schedule", "stopRequest", "watch", "endPass", "terminate", "stopLate", "load",
               "report", "done"}
    /\ now \in Nat
    /\ formalEnd \in Int \cup {None}
    /\ unstopped \subseteq Devices
    /\ alive \subseteq Devices
    /\ result \in [Devices -> Results]
    /\ gate \in Gate
    /\ lastHeartbeat \in [Devices -> Nat \cup {None}]
    /\ known \subseteq Devices
    /\ errors \subseteq Reasons
    /\ first \in FirstErrors \cup {None}
    /\ start \in Nat \cup {None}
    /\ confirmed \in {"yes", "no"}
    /\ confirmedAt \in Nat \cup {None}
    /\ stop \in Nat \cup {None}
    /\ accepted \in [Devices -> Statuses \cup {None}]
    /\ report \in Statuses \cup {None}

\* The worker ran until its window was over: the duration had passed or the
\* stop boundary.  A stop that is asked for after the end moves FormalEnd behind
\* workers that ended in order, so that FormalEnd itself would be too much.
RanUntilTheEnd(d) ==
    \/ DURATION_NS # None /\ exitedAt[d] >= start + DURATION_NS
    \/ stop # None /\ exitedAt[d] >= stop

\* A PASS is earned: both boundaries the workers were given are the
\* coordinator's own, and every worker, whatever it did in between, ran until
\* the end of its window, exited with 0, left a PASS and no failure record.
PassIsEarned ==
    report = "PASS" =>
        /\ start # None
        /\ startRecord = start
        /\ stopRecord = stop
        /\ \A d \in Devices :
              /\ phase[d] = "exited"
              /\ code[d] = 0
              /\ RanUntilTheEnd(d)
              /\ acceptance[d] = "PASS"
              /\ failure[d] = None

\* No order of events hides a failure: a failure record, or the FAIL acceptance
\* of a worker whose end was seen, makes the run a FAIL, be it that the launch was
\* cancelled, timed out or another worker was BLOCKED before.
FailureNotMasked ==
    /\ report # None
    /\ \E d \in Devices :
          failure[d] # None \/ (acceptance[d] = "FAIL" /\ result[d].code # None)
    => report = "FAIL"

\* A recording is BLOCKED only if every worker ran until its window's end and
\* ended in order, one of them with a BLOCKED acceptance.
BlockedIsBenign ==
    report = "BLOCKED" /\ start # None =>
        /\ \A d \in Devices :
              /\ RanUntilTheEnd(d)
              /\ code[d] = ExitCode(acceptance[d])
        /\ \E d \in Devices : acceptance[d] = "BLOCKED"

\* The verification, which judges by other rules of its own, agrees with the
\* coordinator about every PASS and every recording that was BLOCKED: each end
\* was seen, each exit fits its acceptance, and what is on disk by then is what
\* the report holds (verify_session's _check_joint_gate and _check_provenance).
ReportIsVerifiable ==
    report = "PASS" \/ (report = "BLOCKED" /\ start # None) =>
        JointGateSection = report /\ EmbeddedMatch

\* A worker outlives the coordinator only if it could not be killed: the report
\* then has no exit code for it, and is a FAIL if there was a recording.
OrphansAreReported ==
    pc = "done" /\ Running # {} =>
        /\ faults > 0
        /\ \A d \in Running : result[d].code = None
        /\ start # None => report = "FAIL"

\* The workers and the coordinator have the same formal window: what start.json
\* and stop.json say is what the coordinator judges the exits by, and only a
\* start that was never acknowledged or a call that raised lets them differ.
BoundariesAgree ==
    /\ start # None => startRecord = start
    /\ startRecord # None /\ start = None => "barrier_io" \in errors
    /\ stopRecord \in {None, stop}
    /\ stop # None /\ stopRecord = None => "barrier_io" \in errors

\* A recording without a duration is stopped by the first error: no pass starts
\* that leaves the workers recording after it.
OpenRunIsStopped ==
    DURATION_NS = None /\ start # None /\ first # None /\ pc = "poll" => stop # None

\* A start is scheduled only within the launch timeout, after no error, when
\* every worker has been healthy without a break for long enough; after a prompt
\* that run must have begun after the operator's confirmation.
StartIsSafe ==
    [][start' # start =>
        /\ first = None
        /\ clock < LAUNCH_TIMEOUT_NS
        /\ \A d \in Devices :
              /\ gate.latest[d] = "healthy"
              /\ clock - gate.healthySince[d] >= CONTINUOUS_HEALTHY_NS
              /\ confirmedAt # None => gate.healthySince[d] >= confirmedAt]_vars

\* Whatever the workers do, hang included, there is a report in the end, unless
\* the operator never answers the prompt.
Terminates == <>(pc = "done" \/ [](pc = "prompt"))

\* A worker that the coordinator has launched fails to set itself up only if
\* something goes wrong; the coordinator's tests let their workers write into
\* directories that exist.
SetUpSucceeds == \A d \in Devices : phase[d] = "failed" => faults > 0
=============================================================================
