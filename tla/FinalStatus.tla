---------------------------- MODULE FinalStatus ----------------------------
(***************************************************************************)
(* How acquisition/coordinator.py turns what it has gathered about a run   *)
(* into PASS, FAIL or BLOCKED (_final_status, and the two rewrites of      *)
(* first_error that precede it).                                           *)
(*                                                                         *)
(*   start     the scheduled start, None before there is one               *)
(*   first     the first error, None or a record of FirstErrors            *)
(*   accepted  the status of each device's trusted acceptance, or None     *)
(*   result    what was seen of each worker's process                      *)
(*   known     the devices with a barrier failure                          *)
(*   errors    the reasons of the coordinator's own errors                 *)
(***************************************************************************)
EXTENDS Integers, FiniteSets, SequencesExt

CONSTANTS
    Devices,
    REQUIRED_DEVICES,   \* the devices in the order the code visits them
    None

Reasons == {"worker_launch", "storage_io", "barrier_io", "worker_failure", "worker_exit",
            "worker_disconnect", "timestamp_regression", "joint_warmup_timeout",
            "operator_cancelled", "worker_stop_timeout", "worker_finalize_timeout",
            "worker_acceptance_io", "worker_acceptance_missing", "worker_acceptance"}

\* blocked stands for worker_status = BLOCKED.
FirstErrors == [reason : Reasons, device : Devices \cup {None}, code : Int \cup {None},
                blocked : {"yes", "no"}]

Results == [code : Int \cup {None}, early : {"yes", "no"}, observed : {"yes", "no"}]

Error(reason) == [reason |-> reason, device |-> None, code |-> None, blocked |-> "no"]

\* The first of a non-empty set of devices in the order of the code's loops.
FirstOf(S) ==
    LET places == {i \in DOMAIN REQUIRED_DEVICES : REQUIRED_DEVICES[i] \in S}
    IN  REQUIRED_DEVICES[CHOOSE i \in places : \A j \in places : i <= j]

\* Every worker ended with a PASS and 0 or with a BLOCKED and 3.
CodesMatch(accepted, result) ==
    \A d \in Devices :
        \/ accepted[d] = "PASS" /\ result[d].code = 0
        \/ accepted[d] = "BLOCKED" /\ result[d].code = 3

\* The first error once the acceptances are in: a missing or unreadable one
\* counts before what the others say.
WithAcceptances(first, accepted, errors) ==
    LET unhappy == {d \in Devices : accepted[d] \in {"FAIL", "BLOCKED"}} IN
    IF first # None THEN first
    ELSE IF "worker_acceptance_io" \in errors THEN Error("worker_acceptance_io")
    ELSE IF "worker_acceptance_missing" \in errors THEN Error("worker_acceptance_missing")
    ELSE IF unhappy = {} THEN None
    ELSE LET d == FirstOf(unhappy) IN
         [reason |-> "worker_acceptance", device |-> d, code |-> None,
          blocked |-> IF accepted[d] = "BLOCKED" THEN "yes" ELSE "no"]

\* An exit with code 3 is only the shadow of a BLOCKED acceptance, if nothing
\* else went wrong.
AsBlocked(first, accepted, result, known, errors) ==
    IF /\ first # None
       /\ first.reason = "worker_exit"
       /\ first.code = 3
       /\ known = {}
       /\ errors = {}
       /\ CodesMatch(accepted, result)
    THEN [first EXCEPT !.reason = "worker_acceptance", !.code = None, !.blocked = "yes"]
    ELSE first

-----------------------------------------------------------------------------
(* Mutants: plausible bugs in the operations below; no specification uses them. *)

\* The BLOCKED acceptance of the first error is trusted before the failures.
FinalVerdictBlockedFirst(start, first, accepted, result, known, errors) ==
    IF first # None /\ first.blocked = "yes" THEN "BLOCKED"
    ELSE IF errors # {} \/ known # {} \/ first # None THEN "FAIL" ELSE "PASS"

\* A cancelled or timed out launch is BLOCKED whatever else was seen.
FinalVerdictLenientLaunch(start, first, accepted, result, known, errors) ==
    IF first # None /\ first.reason \in {"joint_warmup_timeout", "operator_cancelled"}
    THEN "BLOCKED"
    ELSE IF \/ errors # {} \/ known # {} \/ first # None
            \/ \E d \in Devices : result[d].code # 0 \/ result[d].early = "yes"
         THEN "FAIL" ELSE "PASS"

-----------------------------------------------------------------------------
\* The operator or the clock ended the launch, and nobody failed.
LaunchGivenUp(start, first, accepted, known, errors) ==
    /\ first # None
    /\ start = None
    /\ first.reason \in {"joint_warmup_timeout", "operator_cancelled"}
    /\ \A d \in Devices : accepted[d] # "FAIL"
    /\ known = {}
    /\ errors \subseteq {"worker_acceptance_missing"}

\* Every worker finished in order and one of them calls itself BLOCKED.
OnlyBlocked(first, accepted, result) ==
    /\ first.blocked = "yes"
    /\ first.device # None
    /\ accepted[first.device] = "BLOCKED"
    /\ CodesMatch(accepted, result)
    /\ \A d \in Devices : result[d].early = "no"

FinalVerdict(start, first, accepted, result, known, errors) ==
    IF LaunchGivenUp(start, first, accepted, known, errors) THEN "BLOCKED"
    ELSE IF errors # {} \/ known # {} THEN "FAIL"
    ELSE IF first # None
         THEN IF OnlyBlocked(first, accepted, result) THEN "BLOCKED" ELSE "FAIL"
    ELSE IF \E d \in Devices : result[d].code # 0 \/ result[d].early = "yes" THEN "FAIL"
    ELSE "PASS"
=============================================================================
