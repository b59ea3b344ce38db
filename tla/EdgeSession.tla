---------------------------- MODULE EdgeSession ----------------------------
(***************************************************************************)
(* The session a Z2 collector would write (edge_z2/session.py) and what    *)
(* edge_z2/validate.py accepts of it: one writer, called from one thread;  *)
(* chunked payload files, an index for each stream, and a seal that takes  *)
(* the marker .recording away last.                                        *)
(*                                                                         *)
(* A payload is its size, a record's ordering keys are one stamp, a chunk  *)
(* is the number of its bytes.  A call the writer refuses changes nothing  *)
(* and is no step.                                                         *)
(***************************************************************************)
EXTENDS Integers, Sequences, FiniteSets

CONSTANTS ChunkBytes,   \* max_chunk_bytes
          MaxStamp,     \* bound: sequence numbers, host times, PTS
          MaxFailures   \* bound: writes, syncs and closes that fail

VARIABLES
    record,    \* _state; the step of seal(); _last and _counts of each stream
    chunks,    \* payload -> the bytes of each of its chunks
    index,     \* stream -> rows: stamp, and where its payloads are
    sealing,   \* .recording, and manifest.json: counts and file sizes
    failures

sessionVars == <<record, chunks, index, sealing, failures>>

EdgeStreams == {"ir", "rgb", "stm32"}
Payloads == {"left", "right", "rgb", "stm32"}
PayloadsOf(s) == IF s = "ir" THEN <<"left", "right">> ELSE <<s>>
NoManifest == [counts |-> <<>>, sizes |-> <<>>]

SessionInit ==
    /\ record = [state |-> "active", step |-> "idle",
                 last |-> [s \in EdgeStreams |-> 0], count |-> [s \in EdgeStreams |-> 0]]
    /\ chunks = [p \in Payloads |-> <<>>]
    /\ index = [s \in EdgeStreams |-> <<>>]
    /\ sealing = [marker |-> TRUE, manifest |-> NoManifest]
    /\ failures = 0

Failing == failures < MaxFailures /\ failures' = failures + 1
Calls == record.state = "active" /\ record.step = "idle"

-----------------------------------------------------------------------------
(* _ChunkedPayloadWriter.                                                  *)

\* A payload that does not fit begins a chunk of its own.
Rotates(c, size) == c = <<>> \/ c[Len(c)] + size > ChunkBytes

Appended(c, size) == IF Rotates(c, size) THEN Append(c, size) ELSE [c EXCEPT ![Len(c)] = @ + size]

\* Mutants: plausible bugs in the operations below; no specification uses them.
RefUnreset(c, size) ==
    [chunk |-> IF Rotates(c, size) THEN Len(c) + 1 ELSE Len(c),
     offset |-> IF c = <<>> THEN 0 ELSE c[Len(c)], size |-> size]

\* Where a payload will be: its chunk, and the chunk's size before it.
Ref(c, size) ==
    IF Rotates(c, size) THEN [chunk |-> Len(c) + 1, offset |-> 0, size |-> size]
                        ELSE [chunk |-> Len(c), offset |-> c[Len(c)], size |-> size]

\* A write that fails leaves none, some or all of its bytes, or a new chunk
\* without any.
Torn(c, size) ==
    {c} \cup {Appended(c, n) : n \in 1 .. size} \cup (IF Rotates(c, size) THEN {Append(c, 0)} ELSE {})

-----------------------------------------------------------------------------
(* The writer.                                                             *)

\* append_ir_pair, append_rgb_access_unit and append_stm32_packet: the stamp
\* must increase; payloads are written before the row.
AppendRecord(s, stamp, size) ==
    /\ Calls /\ stamp > record.last[s]
    /\ LET ps == PayloadsOf(s)
       IN  /\ chunks' = [p \in Payloads |-> IF \E i \in DOMAIN ps : ps[i] = p THEN Appended(chunks[p], size)
                                                                            ELSE chunks[p]]
           /\ index' = [index EXCEPT ![s] = Append(@, [stamp |-> stamp,
                                                       refs |-> [i \in DOMAIN ps |-> Ref(chunks[ps[i]], size)]])]
    /\ record' = [record EXCEPT !.last[s] = stamp, !.count[s] = @ + 1]
    /\ UNCHANGED <<sealing, failures>>

\* One of the writes fails, with those before it done.
AppendFails(s, stamp, size) ==
    /\ Calls /\ stamp > record.last[s] /\ Failing
    /\ record' = [record EXCEPT !.state = "failed"]
    /\ LET ps == PayloadsOf(s)
       IN  \E i \in DOMAIN ps : \E torn \in Torn(chunks[ps[i]], size) :
             chunks' = [p \in Payloads |-> IF p = ps[i] THEN torn
                                           ELSE IF \E j \in 1 .. i - 1 : ps[j] = p THEN Appended(chunks[p], size)
                                           ELSE chunks[p]]
    /\ UNCHANGED <<index, sealing>>

\* A step of seal(); an exception leaves the session failed.
SealStep(at, then, after) ==
    /\ record.state = "active" /\ record.step = at
    /\ \/ record' = [record EXCEPT !.step = then] /\ sealing' = after /\ UNCHANGED failures
       \/ record' = [record EXCEPT !.state = "failed"] /\ Failing /\ UNCHANGED sealing
    /\ UNCHANGED <<chunks, index>>

\* Every stream has a record; files are closed and hashed, manifest.json is
\* written, the marker goes, the directory is synced.
CloseAll ==
    (\A s \in EdgeStreams : record.count[s] > 0) /\ SealStep("idle", "manifest", sealing)

WriteSessionManifest ==
    SealStep("manifest", "unlink", [sealing EXCEPT !.manifest = [counts |-> record.count, sizes |-> chunks]])

UnlinkRecording == SealStep("unlink", "sync", [sealing EXCEPT !.marker = FALSE])

SyncSession ==
    /\ record.state = "active" /\ record.step = "sync"
    /\ \/ record' = [record EXCEPT !.state = "sealed"] /\ UNCHANGED failures
       \/ record' = [record EXCEPT !.state = "failed"] /\ Failing
    /\ UNCHANGED <<chunks, index, sealing>>

\* abort(): files are closed, the marker stays as it is; it raises, and changes
\* no state, when a file cannot be closed.
AbortSession ==
    /\ record.state \in {"failed", "aborted"} \/ Calls
    /\ record' = [record EXCEPT !.state = "aborted"]
    /\ UNCHANGED <<chunks, index, sealing, failures>>

\* The process dies, with no state but that of the directory left.
CollectorDies ==
    /\ record.state # "sealed"
    /\ Failing
    /\ record' = [record EXCEPT !.state = "gone"]
    /\ UNCHANGED <<chunks, index, sealing>>

SessionNext ==
    \/ \E s \in EdgeStreams, stamp \in 1 .. MaxStamp, size \in 1 .. ChunkBytes :
         /\ s \in {"ir", "stm32"} => size = 1
         /\ AppendRecord(s, stamp, size) \/ AppendFails(s, stamp, size)
    \/ CloseAll \/ WriteSessionManifest \/ UnlinkRecording \/ SyncSession
    \/ AbortSession \/ CollectorDies

SessionSpec == SessionInit /\ [][SessionNext]_sessionVars

-----------------------------------------------------------------------------
(* validate_z2_edge_session.                                               *)

\* The refs to the j-th payload of a stream lie in its chunks and claim each of
\* their bytes once.
Covered(refs, sizes) ==
    /\ \A i \in DOMAIN refs : refs[i].chunk \in DOMAIN sizes
                              /\ refs[i].offset + refs[i].size <= sizes[refs[i].chunk]
    /\ \A k \in DOMAIN sizes :
         /\ \E i \in DOMAIN refs : refs[i].chunk = k
         /\ \A byte \in 0 .. sizes[k] - 1 :
              Cardinality({i \in DOMAIN refs : refs[i].chunk = k /\ refs[i].offset <= byte
                                               /\ byte < refs[i].offset + refs[i].size}) = 1

RowsAccepted(s) ==
    /\ \A i \in 2 .. Len(index[s]) : index[s][i].stamp > index[s][i - 1].stamp
    /\ \A j \in DOMAIN PayloadsOf(s) :
         Covered([i \in DOMAIN index[s] |-> index[s][i].refs[j]], chunks[PayloadsOf(s)[j]])

\* No marker, the files of the manifest and no other, rows in order that cover
\* the payloads, and the manifest's counts.
Accepted ==
    /\ ~sealing.marker /\ sealing.manifest # NoManifest
    /\ sealing.manifest.sizes = chunks
    /\ \A s \in EdgeStreams : /\ RowsAccepted(s)
                              /\ Len(index[s]) > 0 /\ sealing.manifest.counts[s] = Len(index[s])

-----------------------------------------------------------------------------
\* What the writer seals the validator accepts, whatever sizes made chunks
\* rotate; what it accepts and the writer has not reported as sealed had all
\* but the directory's last sync, after which seal() raises or the process died.
SealedIsAccepted ==
    /\ record.state = "sealed" => Accepted
    /\ Accepted => record.state = "sealed" \/ record.step = "sync"

=============================================================================
