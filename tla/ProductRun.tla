------------------------------ MODULE ProductRun ------------------------------
(***************************************************************************)
(* The product command of cli.py with a D435i: run_product_capture calls    *)
(* run_pair in its own process, makes the coordinator's report of it, and   *)
(* the index and the verification follow, if the capture deserves them.     *)
(* A D435i's calibration evidence is the configured id itself, handed       *)
(* through run_pair, so it agrees whenever it can be read.                  *)
(***************************************************************************)
EXTENDS RsusbOwner

VARIABLES
    stage,              \* capture, index, verify or end
    capture,            \* status of coordinator.json
    index,              \* the rows of sync/common_30hz.csv
    code                \* the process's exit code

productVars == <<stage, capture, index, code>>
allVars == <<vars, productVars>>

Exit == [PASS |-> 0, FAIL |-> 2, BLOCKED |-> 3]

InitProduct == Init /\ stage = "capture" /\ capture = None /\ index = <<>> /\ code = Unset

Finish(result) == stage' = "end" /\ code' = result

\* run_pair at work.
Capture == Owner /\ UNCHANGED productVars

\* _run_rsusb_owner_capture, and what _run_product makes of its report.  Only a
\* cancellation and missing hardware block; any other exception is a failure,
\* and so are acceptances that cannot be read.
CaptureIsReported ==
    /\ stage = "capture" /\ pc = "end"
    /\ \/ /\ outcome = "error"
          /\ Finish(Exit["FAIL"]) /\ UNCHANGED <<raises, capture>>
       \/ /\ outcome \in {"cancelled", "unavailable"}
          /\ capture' = "BLOCKED" /\ Finish(Exit["BLOCKED"]) /\ UNCHANGED raises
       \/ /\ outcome = None
          /\ capture' = status /\ UNCHANGED raises
          /\ IF status = "PASS" THEN stage' = "index" /\ UNCHANGED code ELSE Finish(Exit["FAIL"])
       \/ /\ outcome # "error"
          /\ Raises /\ Finish(Exit["FAIL"]) /\ UNCHANGED capture
    /\ UNCHANGED <<inputVars, hardware, pc, step, deviceVars, outcome, formalStart, aborted, waited, frameVars, error,
                   imuVars, motion, status, index>>

\* _task_start_ego_frame_ns.
TaskStart == FormalSamples("ego")[1].at

\* What build_index makes of the files: a session needs exactly one UMI, and
\* rows without a fault.
Indexable == Len(umis) = 1 /\ \A d \in {"ego", umis[1]} : ~Refused(disk[d], TaskStart)
IndexStreams == <<Times(Candidates(disk["ego"], TaskStart)), Times(Candidates(disk[umis[1]], TaskStart))>>

Index ==
    /\ stage = "index"
    /\ \/ /\ Indexable
          /\ index' = BuildIndex(IndexStreams) /\ stage' = "verify" /\ UNCHANGED <<raises, code>>
       \/ /\ ~Indexable
          /\ Finish(Exit["FAIL"]) /\ UNCHANGED <<raises, index>>
       \/ /\ Raises
          /\ Finish(Exit["FAIL"]) /\ UNCHANGED index
    /\ UNCHANGED <<inputVars, hardware, pc, step, deviceVars, outcome, formalStart, aborted, waited, frameVars, error,
                   imuVars, motion, status, capture>>

-----------------------------------------------------------------------------
(* verify_pair_session: what is found of the finished files, section by     *)
(* section.  Schemas, hashes and the fields the owner always writes alike   *)
(* are left out; a file that changed or cannot be read is a raising call.   *)

Section(fails, blocks) == IF fails THEN "FAIL" ELSE IF blocks THEN "BLOCKED" ELSE "PASS"

\* _summarize_stream_rows: rows that are valid and no warm-up.
FormalRows(d) == Chosen(disk[d], {i \in DOMAIN disk[d] : disk[d][i].formal})

\* _check_joint_gate, of a single owner's report.
JointGateSection == Section(capture = "FAIL" \/ TaskStart < formalStart, capture = "BLOCKED")

\* _check_clock_domains: warm-up rows count as well.
ClockSection ==
    Section(\E d \in {"ego"} \cup Used : \E r \in ToSet(disk[d]) : ~r.timed,
            \E d \in {"ego"} \cup Used : disk[d] = <<>>)

\* _check_ego, _check_umi: the acceptance, and the formal rows on disk.
EgoSection    == Section(~EgoPasses \/ Len(FormalRows("ego")) < 2, FALSE)
UmiSection(u) == Section(~UmiPasses(u) \/ Len(FormalRows(u)) < 2, FALSE)

\* _verify_manifest_streams, the required files.
StorageSection == Section(~({"ego"} \cup Used \subseteq manifest), FALSE)

\* _check_sync_index: the index is built once more, and it must be of use.
SyncSection ==
    Section(index # BuildIndex(IndexStreams) \/ ~\E i \in DOMAIN index : index[i].trainable, FALSE)

\* _finish: the worst section counts.
Verified ==
    LET found == {JointGateSection, ClockSection, EgoSection, StorageSection, SyncSection}
                    \cup {UmiSection(u) : u \in Used}
    IN  IF "FAIL" \in found THEN "FAIL" ELSE IF "BLOCKED" \in found THEN "BLOCKED" ELSE "PASS"

\* What is not delivered yet keeps a PASS blocked.
compose_product_status(verified) == IF verified = "PASS" THEN "BLOCKED" ELSE verified

Verify ==
    /\ stage = "verify"
    /\ \/ Finish(Exit[compose_product_status(Verified)]) /\ UNCHANGED raises
       \/ Raises /\ Finish(Exit["FAIL"])
    /\ UNCHANGED <<inputVars, hardware, pc, step, deviceVars, outcome, formalStart, aborted, waited, frameVars, error,
                   imuVars, motion, status, capture, index>>

Terminated == stage = "end" /\ UNCHANGED allVars

Next == Capture \/ CaptureIsReported \/ Index \/ Verify \/ Terminated

Spec == InitProduct /\ [][Next]_allVars

-----------------------------------------------------------------------------
(* Properties.                                                              *)

\* A capture passes only if nothing was swept under: no call raised, in the set-
\* up, the clean-up or the reports; all that was counted is on disk and sealed;
\* no recorder lost a sample; and an IMU transport error, if there was one, lies
\* before the counters stood still, between the last check of the guard and the
\* first reading, or after the second (run_pair's finally clause and verdict).
PassIsClean ==
    status = "PASS" =>
        /\ outcome = None /\ (stage = "capture" => raises = 0)
        /\ \A d \in {"ego"} \cup Used : disk[d] = seen[d] /\ d \in manifest
        /\ \A u \in Used : ~recorderLost[u] /\ erredIn[u] \subseteq {"warm", "gap", "postroll"}

\* Without a misfortune, an exception or an operator's wish to stop, the capture
\* passes, whatever the devices' phases, the latency and the start delay: frames
\* at both edges of the window find their partner (all_samples,
\* CAMERA_POSTROLL_NS).  With one UMI its files stand up to the index and to
\* the verification too, which ask other questions of other rows; and what was
\* indexed is confirmed by the verification after a misfortune as well.
CleanPasses ==
    /\ misfortunes = 0 /\ raises = 0 /\ ~stop /\ ~aborted /\ motion # "FAIL" =>
          /\ pc = "end" => status = "PASS"
          /\ stage = "end" => capture = "PASS" /\ (Len(umis) = 1 => code = Exit["BLOCKED"])
    /\ stage = "end" /\ index # <<>> /\ raises = 0 => code = Exit["BLOCKED"]

\* What the except clause of the writers passes over.
Overlooked == {Call("writer", u) : u \in UmiSet \ initialized}

\* However run_pair ends, every device, thread and claim it holds was given
\* back, or that very call raised; something is left only after an error, and
\* only of the writers' set-up: the writer of a UMI whose thread could not be
\* started, or what an except clause that itself raised did not reach
\* (run_pair's except and finally clauses).
NothingLeftRunning ==
    pc = "end" /\ held # {} =>
        /\ outcome = "error"
        /\ undone => held \subseteq Overlooked

\* A claim on disk means a writer at work: build_index.py:533 says of one it
\* finds "session has an active writer".  Run_pair, whose except clause did not
\* raise, leaves none behind.  The code does not keep to it: see the findings.
ClaimsAreGivenBack == pc = "end" /\ undone => \A d \in Devices : Call("writer", d) \notin held

\* The product run ends BLOCKED only for an operator or missing hardware, or
\* after a capture that passed and with an index that has trainable rows, and
\* each row pairs frames that are formal, the nearest to a point of the grid, in
\* order, and calls trainable only pairs within the hard limit (build_index,
\* _run_product, _run_rsusb_owner_capture).
BlockedIsIndexed ==
    stage = "end" /\ code = 3 /\ outcome \notin {"cancelled", "unavailable"} =>
        /\ status = "PASS" /\ \E i \in DOMAIN index : index[i].trainable
        /\ \A i \in DOMAIN index :
              LET row == index[i]
                  at(s) == IndexStreams[s][row.frames[s]]
              IN  /\ \A s \in {1, 2} : \A k \in DOMAIN IndexStreams[s] :
                         Distance(at(s), row.grid) <= Distance(IndexStreams[s][k], row.grid)
                  /\ \A s \in {1, 2} : at(s) >= formalStart
                  /\ row.trainable => Distance(at(1), at(2)) <= HARD_SPAN_NS
                  /\ i > 1 => \A s \in {1, 2} : row.frames[s] >= index[i - 1].frames[s]

=============================================================================
