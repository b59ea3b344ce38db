---------------------------- MODULE MCImuPipeline ----------------------------
(***************************************************************************)
(* ImuPipeline for TLC.  After a failure the verdict is FAIL whatever the   *)
(* samples were: the view forgets their numbers and the counters then.      *)
(***************************************************************************)
EXTENDS ImuPipeline

View ==
    IF failed
    THEN <<next, faults, rpc, running, connected, Len(batch), Len(packets),
           [i \in DOMAIN queue |-> queue[i].kind], dropped > 0, wpc, Len(disk), writeError, recRunning,
           recording, mpc, clean, joined, result, Len(manifest)>>
    ELSE vars
==============================================================================
