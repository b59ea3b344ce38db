------------------------------ MODULE Barrier ------------------------------
(***************************************************************************)
(* BarrierDirectory of core/barrier.py: the records through which the      *)
(* coordinator and the workers agree on one start, one stop and the first  *)
(* failure of each device.  They share nothing but the directory, so every *)
(* file operation is a step, and every one may raise OSError.              *)
(*                                                                         *)
(* A call takes the claim of its slot (<slot>.lock, O_CREAT | O_EXCL),     *)
(* then puts its record there (<slot>.json, by rename).  The three writing *)
(* methods differ in what they do when the claim is taken and when a step  *)
(* raises.                                                                 *)
(*                                                                         *)
(*   schedule_start   taken: raises      fails: the claim stays            *)
(*   request_stop     taken: returns     fails: the claim stays            *)
(*   latch_failure    taken: returns     fails while it writes: the claim  *)
(*                                       is removed again                  *)
(***************************************************************************)
EXTENDS BarrierCalls

vars == <<lock, record, call>>

\* A call raises without ever having held its claim, or after it took it.
Ended == {"returned", "refused", "raised", "crashed"}

Init ==
    /\ lock = [s \in Slots |-> NoCall]
    /\ record = [s \in Slots |-> NoCall]
    /\ call = [c \in Calls |-> "called"]

Goto(c, point) == call' = [call EXCEPT ![c] = point]

\* Where the exception of a failed write leads.
Failing(c) == IF c \in Latches THEN "rollback" ELSE "raised"

\* request_stop alone does not synchronise its claim before it goes on.
ReadyToWrite(c) == call[c] = IF c \in Stops THEN "claimed" ELSE "synced"

-----------------------------------------------------------------------------
(* Mutants: plausible bugs in the operations below; no specification uses them. *)

\* The claim is opened without O_EXCL.
TakeClaimNotExclusive(c) ==
    /\ call[c] = "called"
    /\ lock' = [lock EXCEPT ![SlotOf[c]] = c]
    /\ Goto(c, "claimed")
    /\ UNCHANGED record

\* An OSError of the write is swallowed.
WriteFailsQuietly(c) ==
    /\ ReadyToWrite(c)
    /\ Goto(c, "returned")
    /\ UNCHANGED <<lock, record>>

-----------------------------------------------------------------------------
TakeClaim(c) ==
    /\ call[c] = "called"
    /\ IF lock[SlotOf[c]] = NoCall
       THEN lock' = [lock EXCEPT ![SlotOf[c]] = c] /\ Goto(c, "claimed")
       ELSE UNCHANGED lock /\ Goto(c, IF c \in Starts THEN "refused" ELSE "returned")
    /\ UNCHANGED record

OpenFails(c) ==
    /\ call[c] = "called"
    /\ Goto(c, "refused")
    /\ UNCHANGED <<lock, record>>

\* _create_lock: fsync of the claim, then of the directory.
SyncClaim(c) ==
    /\ call[c] = "claimed"
    /\ c \notin Stops
    /\ Goto(c, "synced")
    /\ UNCHANGED <<lock, record>>

\* In latch_failure _create_lock stands outside the second try: no rollback.
SyncClaimFails(c) ==
    /\ call[c] = "claimed"
    /\ c \notin Stops
    /\ Goto(c, "raised")
    /\ UNCHANGED <<lock, record>>

\* _write_atomic: the temporary file is written and renamed over the record.
ReplaceRecord(c) ==
    /\ ReadyToWrite(c)
    /\ record' = [record EXCEPT ![SlotOf[c]] = c]
    /\ Goto(c, "replaced")
    /\ UNCHANGED lock

WriteFails(c) ==
    /\ ReadyToWrite(c)
    /\ Goto(c, Failing(c))
    /\ UNCHANGED <<lock, record>>

SyncRecord(c) ==
    /\ call[c] = "replaced"
    /\ Goto(c, "returned")
    /\ UNCHANGED <<lock, record>>

\* The record is already in place when the fsync of the directory raises.
SyncRecordFails(c) ==
    /\ call[c] = "replaced"
    /\ Goto(c, Failing(c))
    /\ UNCHANGED <<lock, record>>

\* latch_failure's except clause: the claim goes, the exception is raised again.
RemoveClaim(c) ==
    /\ call[c] = "rollback"
    /\ lock' = [lock EXCEPT ![SlotOf[c]] = NoCall]
    /\ Goto(c, "raised")
    /\ UNCHANGED record

RemoveClaimFails(c) ==
    /\ call[c] = "rollback"
    /\ Goto(c, "raised")
    /\ UNCHANGED <<lock, record>>

\* The process that made the call is killed.
Crash(c) ==
    /\ call[c] \notin Ended
    /\ Goto(c, "crashed")
    /\ UNCHANGED <<lock, record>>

Step(c) ==
    \/ TakeClaim(c)
    \/ OpenFails(c)
    \/ SyncClaim(c)
    \/ SyncClaimFails(c)
    \/ ReplaceRecord(c)
    \/ WriteFails(c)
    \/ SyncRecord(c)
    \/ SyncRecordFails(c)
    \/ RemoveClaim(c)
    \/ RemoveClaimFails(c)

Next == \E c \in Calls : Step(c) \/ Crash(c)

Spec == Init /\ [][Next]_vars

-----------------------------------------------------------------------------
TypeOK ==
    /\ lock \in [Slots -> Calls \cup {NoCall}]
    /\ record \in [Slots -> Calls \cup {NoCall}]
    /\ call \in [Calls -> {"called", "claimed", "synced", "replaced", "rollback"} \cup Ended]

\* schedule_start returns only to the caller whose own start is visible, so no
\* two callers can both believe that they have scheduled the start.
StartReturnMeansMine ==
    \A c \in Starts : call[c] = "returned" => record[SlotOf[c]] = c

=============================================================================
