-------------------------- MODULE SessionLifecycle --------------------------
(***************************************************************************)
(* Cooperative claims on one session directory, and the sealing and        *)
(* indexing they protect.                                                  *)
(*                                                                         *)
(* A recording process creates its own marker file and then looks for the  *)
(* markers that would forbid it; the publisher (build_index) does the      *)
(* same the other way round.  Every access to the directory is one step,   *)
(* because the processes share nothing else.                               *)
(*                                                                         *)
(*   producer    producer_claim of core/session_lifecycle.py               *)
(*   writer      AppendOnlySessionWriter's .writer.lock, taken with or     *)
(*               without a producer claim                                  *)
(*   publisher   offline_claim and build_index                             *)
(***************************************************************************)
EXTENDS SessionParties

Versions == 0..MaxWrites

session == <<source, seal, sync>>
vars == <<marker, offlineMarker, source, seal, sync, held, scanned, at>>

BeforeClaim == {"seal0", "lock0", "seal1", "lock1", "create"}
WithClaim   == {"seal2", "lock2", "active", "retract"}
Ended       == {"refused", "released", "published", "crashed"}

WithLease   == {"scan", "abort"} \cup Publishing

Init ==
    /\ marker = [k \in Claims |-> Absent]
    /\ offlineMarker = Absent
    /\ source = 0
    /\ seal = Absent
    /\ sync = Absent
    /\ held = [o \in Publishers |-> Absent]
    /\ scanned = [o \in Publishers |-> {}]
    /\ at = [x \in Claimants \cup Publishers |->
                IF x \in Publishers THEN "start"
                ELSE IF x \in Writers THEN "seal0" ELSE "seal1"]

Goto(x, point) == at' = [at EXCEPT ![x] = point]

-----------------------------------------------------------------------------
(* Mutants: plausible bugs in the operations below; no specification uses them. *)

\* Writers' markers are not looked for.
LookForProducersOnly(o, k) ==
    /\ at[o] = "scan"
    /\ k \notin scanned[o]
    /\ scanned' = [scanned EXCEPT ![o] = @ \cup {k}]
    /\ Goto(o, IF marker[k] \in Writers \cup {Absent} THEN "scan" ELSE "abort")
    /\ UNCHANGED <<marker, offlineMarker, session, held>>

\* The second check of the session is forgotten.
CreateMarkerUnchecked(c) ==
    /\ at[c] = "create"
    /\ marker[ClaimOf[c]] = Absent
    /\ marker' = [marker EXCEPT ![ClaimOf[c]] = c]
    /\ Goto(c, "active")
    /\ UNCHANGED <<offlineMarker, session, held, scanned>>

\* The session is sealed again by every build.
OpenSealAlwaysCaptures(o) ==
    /\ at[o] = "open_seal"
    /\ held' = [held EXCEPT ![o] = source]
    /\ Goto(o, "verify_captured")
    /\ UNCHANGED <<marker, offlineMarker, session, scanned>>

\* The index is built from whatever the files contain now.
OpenIndexUnverified(o) ==
    /\ at[o] = "open_index"
    /\ sync = Absent
    /\ held' = [held EXCEPT ![o] = source]
    /\ Goto(o, "publish_index")
    /\ UNCHANGED <<marker, offlineMarker, session, scanned>>

-----------------------------------------------------------------------------
(* Producers and writers.  assert_session_open_for_producers reads the seal *)
(* first and the offline marker second; a writer runs it twice before it    *)
(* creates its marker, a producer once, and both once more afterwards.      *)

\* What a failed check leads to: the marker, if already created, is removed.
Forbidden(c) == IF at[c] \in WithClaim THEN "retract" ELSE "refused"

ReadSeal(c) ==
    /\ at[c] \in {"seal0", "seal1", "seal2"}
    /\ Goto(c, IF seal # Absent THEN Forbidden(c)
               ELSE CASE at[c] = "seal0" -> "lock0"
                      [] at[c] = "seal1" -> "lock1"
                      [] at[c] = "seal2" -> "lock2")
    /\ UNCHANGED <<marker, offlineMarker, session, held, scanned>>

ReadOfflineMarker(c) ==
    /\ at[c] \in {"lock0", "lock1", "lock2"}
    /\ Goto(c, IF offlineMarker # Absent THEN Forbidden(c)
               ELSE CASE at[c] = "lock0" -> "seal1"
                      [] at[c] = "lock1" -> "create"
                      [] at[c] = "lock2" -> "active")
    /\ UNCHANGED <<marker, offlineMarker, session, held, scanned>>

\* O_CREAT | O_EXCL: an existing marker, live or stale, refuses the newcomer.
CreateMarker(c) ==
    /\ at[c] = "create"
    /\ IF marker[ClaimOf[c]] = Absent
       THEN /\ marker' = [marker EXCEPT ![ClaimOf[c]] = c]
            /\ Goto(c, "seal2")
       ELSE /\ Goto(c, "refused")
            /\ UNCHANGED marker
    /\ UNCHANGED <<offlineMarker, session, held, scanned>>

\* The marker was created but fstat, fsync or close failed.  The rollback is
\* best effort: the marker is gone or it stays behind.
CreateMarkerFails(c) ==
    /\ at[c] = "create"
    /\ marker[ClaimOf[c]] = Absent
    /\ \E left \in {Absent, c} : marker' = [marker EXCEPT ![ClaimOf[c]] = left]
    /\ Goto(c, "refused")
    /\ UNCHANGED <<offlineMarker, session, held, scanned>>

RemoveMarker(c) ==
    /\ at[c] \in {"active", "retract"}
    /\ marker' = [marker EXCEPT ![ClaimOf[c]] = Absent]
    /\ Goto(c, IF at[c] = "active" THEN "released" ELSE "refused")
    /\ UNCHANGED <<offlineMarker, session, held, scanned>>

\* Inside the with-block: the process adds to the session's files.
Record(c) ==
    /\ at[c] = "active"
    /\ source < MaxWrites
    /\ source' = source + 1
    /\ UNCHANGED <<marker, offlineMarker, seal, sync, held, scanned, at>>

-----------------------------------------------------------------------------
(* The publisher.                                                           *)

CreateOfflineMarker(o) ==
    /\ at[o] = "start"
    /\ IF offlineMarker = Absent
       THEN offlineMarker' = o /\ Goto(o, "scan")
       ELSE UNCHANGED offlineMarker /\ Goto(o, "refused")
    /\ UNCHANGED <<marker, session, held, scanned>>

\* _producer_claims and _reject_active_writer_claims: a directory listing is
\* not a snapshot, each marker is looked for at some moment of its own.
LookForMarker(o, k) ==
    /\ at[o] = "scan"
    /\ k \notin scanned[o]
    /\ scanned' = [scanned EXCEPT ![o] = @ \cup {k}]
    /\ Goto(o, IF marker[k] = Absent THEN "scan" ELSE "abort")
    /\ UNCHANGED <<marker, offlineMarker, session, held>>

EnterPublication(o) ==
    /\ at[o] = "scan"
    /\ scanned[o] = Claims
    /\ Goto(o, "open_seal")
    /\ UNCHANGED <<marker, offlineMarker, session, held, scanned>>

\* _ensure_session_seal: an existing seal must match the sources, otherwise
\* the sources are read into memory.
OpenSeal(o) ==
    /\ at[o] = "open_seal"
    /\ IF seal # Absent
       THEN /\ Goto(o, IF source = seal THEN "open_index" ELSE "abort")
            /\ UNCHANGED held
       ELSE /\ held' = [held EXCEPT ![o] = source]
            /\ Goto(o, "verify_captured")
    /\ UNCHANGED <<marker, offlineMarker, session, scanned>>

VerifyCaptured(o) ==
    /\ at[o] = "verify_captured"
    /\ Goto(o, IF source = held[o] THEN "replace_seal" ELSE "abort")
    /\ UNCHANGED <<marker, offlineMarker, session, held, scanned>>

ReplaceSeal(o) ==
    /\ at[o] = "replace_seal"
    /\ seal' = held[o]
    /\ Goto(o, "verify_seal")
    /\ UNCHANGED <<marker, offlineMarker, source, sync, held, scanned>>

VerifySeal(o) ==
    /\ at[o] = "verify_seal"
    /\ Goto(o, IF source = seal THEN "open_index" ELSE "abort")
    /\ UNCHANGED <<marker, offlineMarker, session, held, scanned>>

\* An existing sync/ is compared with what the sealed sources produce; without
\* one the sealed sources are read and the index is built beside it.
OpenIndex(o) ==
    /\ at[o] = "open_index"
    /\ IF sync # Absent
       THEN /\ Goto(o, IF source = seal /\ sync = source THEN "commit" ELSE "abort")
            /\ UNCHANGED held
       ELSE IF source = seal
            THEN held' = [held EXCEPT ![o] = source] /\ Goto(o, "verify_sources")
            ELSE Goto(o, "abort") /\ UNCHANGED held
    /\ UNCHANGED <<marker, offlineMarker, session, scanned>>

VerifySources(o) ==
    /\ at[o] = "verify_sources"
    /\ Goto(o, IF source = seal THEN "publish_index" ELSE "abort")
    /\ UNCHANGED <<marker, offlineMarker, session, held, scanned>>

PublishIndex(o) ==
    /\ at[o] = "publish_index"
    /\ sync' = held[o]
    /\ Goto(o, "validate")
    /\ UNCHANGED <<marker, offlineMarker, source, seal, held, scanned>>

\* A published index that does not validate is removed again.
ValidateIndex(o) ==
    /\ at[o] = "validate"
    /\ IF source = seal /\ sync = source
       THEN Goto(o, "commit") /\ UNCHANGED sync
       ELSE Goto(o, "abort") /\ sync' = Absent
    /\ UNCHANGED <<marker, offlineMarker, source, seal, held, scanned>>

\* Any read, write, fsync or rename may raise.  A published index that was not
\* yet validated is removed, and the removal may fail in its turn.
PublicationFails(o) ==
    /\ at[o] \in Publishing \ {"commit"}
    /\ IF at[o] = "validate" THEN sync' \in {sync, Absent} ELSE UNCHANGED sync
    /\ Goto(o, "abort")
    /\ UNCHANGED <<marker, offlineMarker, source, seal, held, scanned>>

RemoveOfflineMarker(o) ==
    /\ at[o] \in {"commit", "abort"}
    /\ offlineMarker' = Absent
    /\ Goto(o, IF at[o] = "commit" THEN "published" ELSE "refused")
    /\ UNCHANGED <<marker, session, held, scanned>>

-----------------------------------------------------------------------------
\* SIGKILL, SIGTERM without a handler, loss of power, or a release whose
\* unlink fails: the process is gone, its marker stays.
Crash(x) ==
    /\ at[x] \notin Ended
    /\ Goto(x, "crashed")
    /\ UNCHANGED <<marker, offlineMarker, session, held, scanned>>

\* Something that takes no claim rewrites a source file.
EditOutside ==
    /\ OutsideEdits
    /\ source < MaxWrites
    /\ source' = source + 1
    /\ UNCHANGED <<marker, offlineMarker, seal, sync, held, scanned, at>>

ClaimantStep(c) ==
    \/ ReadSeal(c)
    \/ ReadOfflineMarker(c)
    \/ CreateMarker(c)
    \/ CreateMarkerFails(c)
    \/ RemoveMarker(c)
    \/ Record(c)

PublisherStep(o) ==
    \/ CreateOfflineMarker(o)
    \/ \E k \in Claims : LookForMarker(o, k)
    \/ EnterPublication(o)
    \/ OpenSeal(o)
    \/ VerifyCaptured(o)
    \/ ReplaceSeal(o)
    \/ VerifySeal(o)
    \/ OpenIndex(o)
    \/ VerifySources(o)
    \/ PublishIndex(o)
    \/ ValidateIndex(o)
    \/ PublicationFails(o)
    \/ RemoveOfflineMarker(o)

Next ==
    \/ \E c \in Claimants : ClaimantStep(c)
    \/ \E o \in Publishers : PublisherStep(o)
    \/ \E x \in Claimants \cup Publishers : Crash(x)
    \/ EditOutside

Spec == Init /\ [][Next]_vars

-----------------------------------------------------------------------------
TypeOK ==
    /\ marker \in [Claims -> Claimants \cup {Absent}]
    /\ offlineMarker \in Publishers \cup {Absent}
    /\ source \in Versions
    /\ seal \in Versions \cup {Absent}
    /\ sync \in Versions \cup {Absent}
    /\ held \in [Publishers -> Versions \cup {Absent}]
    /\ scanned \in [Publishers -> SUBSET Claims]
    /\ at \in [Claimants \cup Publishers ->
                  BeforeClaim \cup WithClaim \cup {"start"} \cup WithLease \cup Ended]

\* Two processes that use the same producer id or the same device directory
\* are never both recording, and two publishers never both publish.
SingleHolder ==
    /\ \A c, d \in Claimants :
          (at[c] = "active" /\ at[d] = "active" /\ ClaimOf[c] = ClaimOf[d]) => c = d
    /\ \A o, p \in Publishers :
          (at[o] \in Publishing /\ at[p] \in Publishing) => o = p

\* build_index returns successfully only when, at that moment, the files on
\* disk, the seal and the index agree: nothing recorded was left out of it.
SuccessMeansAgreement ==
    [][\A o \in Publishers :
          (at'[o] = "published" /\ at[o] # "published")
              => source = seal /\ sync = seal]_vars

\* "Raw session files are ... immutable after sealing": no recording process
\* adds to the session once session.seal.json exists.  The code breaks it, see
\* the README: the seal is read before the offline marker.
ImmutableAfterSealing == [][seal # Absent => source' = source]_vars

=============================================================================
