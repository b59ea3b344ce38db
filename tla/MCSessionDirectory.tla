------------------------- MODULE MCSessionDirectory -------------------------
(***************************************************************************)
(* What goes on in the directory of one session, for TLC: a run of the     *)
(* coordinator with its workers (Coordinator), the records of its barrier, *)
(* file operation by file operation (Barrier), or the claims on the whole  *)
(* session (SessionLifecycle).  They share no file, so a behaviour is of   *)
(* one of the three.                                                       *)
(* Two starts, three stops and four failures, three of them of one device. *)
(***************************************************************************)
EXTENDS MCCoordinator, MCSessionParties, BarrierCalls

CONSTANTS startRecords, stopRecords, failureLeft, failureRight, right

VARIABLE part   \* "coordinator", "barrier" or "claims"

Directory == INSTANCE Barrier
Session == INSTANCE SessionLifecycle

barrierVars == <<lock, record, call>>
sessionVars == <<marker, offlineMarker, source, seal, sync, held, scanned, at>>

MCSlots == {startRecords, stopRecords, failureLeft, failureRight}

MCSlotOf ==
    [c \in Calls |-> IF c \in Starts THEN startRecords
                     ELSE IF c \in Stops THEN stopRecords
                     ELSE IF c = right THEN failureRight ELSE failureLeft]

\* Calls about different records share no file, and every property is about
\* one record: it is enough that the calls about one record run while the
\* processes that would have made the others are already gone.
MCInit ==
    /\ Init
    /\ Session!Init
    /\ lock = [s \in Slots |-> NoCall]
    /\ record = [s \in Slots |-> NoCall]
    /\ \/ /\ part \in {"coordinator", "claims"}
          /\ call = [c \in Calls |-> "crashed"]
       \/ /\ part = "barrier"
          /\ \E s \in Slots : call = [c \in Calls |-> IF SlotOf[c] = s THEN "called" ELSE "crashed"]

MCNext ==
    \/ part = "coordinator" /\ Next /\ UNCHANGED <<part, barrierVars, sessionVars>>
    \/ part = "barrier" /\ Directory!Next /\ UNCHANGED <<part, vars, sessionVars>>
    \/ part = "claims" /\ Session!Next /\ UNCHANGED <<part, vars, barrierVars>>

MCSpec == MCInit /\ [][MCNext]_<<part, vars, barrierVars, sessionVars>>

PartView == <<part, barrierVars, sessionVars, View>>
=============================================================================
