---------------------------- MODULE BarrierCalls ----------------------------
(***************************************************************************)
(* What a barrier directory holds and what the calls of BarrierDirectory's *)
(* writing methods promise about it; Barrier says how they do it.          *)
(***************************************************************************)

CONSTANTS
    Starts,     \* calls of schedule_start
    Stops,      \* calls of request_stop
    Latches,    \* calls of latch_failure
    Slots,      \* the start, the stop and one failure per device
    SlotOf,     \* the slot each call is about
    NoCall

Calls == Starts \cup Stops \cup Latches

ASSUME BarrierAssumption ==
    /\ SlotOf \in [Calls -> Slots]
    /\ Starts \cap Stops = {}
    /\ (Starts \cup Stops) \cap Latches = {}
    /\ \A c \in Starts \cup Stops, d \in Latches : SlotOf[c] # SlotOf[d]
    /\ \A c \in Starts, d \in Stops : SlotOf[c] # SlotOf[d]
    /\ NoCall \notin Calls

VARIABLES
    lock,       \* the call whose claim file is present, per slot
    record,     \* the call whose record is visible, per slot
    call        \* how far each call has come

\* One start and one stop: the record of either is written once and never
\* replaced or removed, whatever fails and whoever is killed meanwhile.  The
\* workers, which read start.json and stop.json at different times, therefore
\* all see the same boundary.
BoundaryWrittenOnce ==
    [][\A c \in Starts \cup Stops :
          record[SlotOf[c]] # NoCall => record'[SlotOf[c]] = record[SlotOf[c]]]_<<lock, record>>

\* A request_stop or latch_failure that returns quietly because somebody else
\* holds the claim has not swallowed the event: the record is visible, or the
\* holder is still at work, was told of its failure, or was killed.
QuietReturnIsCovered ==
    \A c \in Stops \cup Latches :
        call[c] = "returned" =>
            \/ record[SlotOf[c]] # NoCall
            \/ \E d \in Calls \ {c} :
                  SlotOf[d] = SlotOf[c] /\ call[d] \notin {"called", "refused", "returned"}

=============================================================================
