--------------------------- MODULE SessionAccess ----------------------------
(***************************************************************************)
(* What the claims on a session directory promise: recording is shared,    *)
(* one process per claim; publication is exclusive; the seal is taken once *)
(* from the sources and the index is made from the seal.  Where something  *)
(* outside the claims edits a source, the seal may be of earlier sources,  *)
(* and the index is still made from the seal.                              *)
(***************************************************************************)
EXTENDS Naturals

CONSTANTS Claimants, Publishers, ClaimOf, OutsideEdits, MaxWrites, Absent

VARIABLES recording, publishing, source, seal, sync

vars == <<recording, publishing, source, seal, sync>>

Init ==
    /\ recording = {} /\ publishing = {}
    /\ source = 0 /\ seal = Absent /\ sync = Absent

StartRecording(c) ==
    /\ publishing = {}
    /\ \A d \in recording : ClaimOf[d] # ClaimOf[c]
    /\ recording' = recording \cup {c}
    /\ UNCHANGED <<publishing, source, seal, sync>>

Record(c) ==
    /\ c \in recording
    /\ source < MaxWrites
    /\ source' = source + 1
    /\ UNCHANGED <<recording, publishing, seal, sync>>

StopRecording(c) ==
    /\ c \in recording
    /\ recording' = recording \ {c}
    /\ UNCHANGED <<publishing, source, seal, sync>>

StartPublishing(o) ==
    /\ recording = {} /\ publishing = {}
    /\ publishing' = {o}
    /\ UNCHANGED <<recording, source, seal, sync>>

TakeSeal(o) ==
    /\ o \in publishing
    /\ seal = Absent
    /\ seal' = source \/ (OutsideEdits /\ seal' \in 0..MaxWrites)
    /\ UNCHANGED <<recording, publishing, source, sync>>

TakeIndex(o) ==
    /\ o \in publishing
    /\ seal # Absent /\ (seal = source \/ OutsideEdits)
    /\ sync = Absent
    /\ sync' = seal
    /\ UNCHANGED <<recording, publishing, source, seal>>

\* A publication that fails stops, and takes back an index it has published.
StopPublishing(o) ==
    /\ o \in publishing
    /\ publishing' = {}
    /\ sync' \in {sync, Absent}
    /\ UNCHANGED <<recording, source, seal>>

EditOutside ==
    /\ OutsideEdits
    /\ source < MaxWrites
    /\ source' = source + 1
    /\ UNCHANGED <<recording, publishing, seal, sync>>

Next ==
    \/ EditOutside
    \/ \E c \in Claimants : StartRecording(c) \/ Record(c) \/ StopRecording(c)
    \/ \E o \in Publishers :
          StartPublishing(o) \/ TakeSeal(o) \/ TakeIndex(o) \/ StopPublishing(o)

Spec == Init /\ [][Next]_vars
=============================================================================
