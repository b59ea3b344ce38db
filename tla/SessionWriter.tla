---------------------------- MODULE SessionWriter ----------------------------
(***************************************************************************)
(* AppendOnlySessionWriter of core/session_writer.py as operators on a     *)
(* record of its attributes and files.  A payload is one chunk, named by   *)
(* the record it belongs to; an index row holds the record and the offset  *)
(* tell() gave for its payload.  What is written is in buffers or on disk; *)
(* a flush that fails is a failure of close().  The claim itself is        *)
(* modelled in SessionLifecycle.                                           *)
(*                                                                         *)
(* An operation that may raise is the set of its outcomes, records with    *)
(* the writer after it and the error (None when there is none).            *)
(***************************************************************************)
EXTENDS Naturals, Sequences

CONSTANT Streams    \* stream ids

None == "none"

NewWriter ==
    [state    |-> "active",                          \* _state
     payload  |-> [s \in Streams |-> <<>>],          \* <stream>.bin
     rows     |-> [s \in Streams |-> <<>>],          \* <stream>.jsonl
     listed   |-> {},                                \* _streams, as close() iterates over it
     closed   |-> {},                                \* streams whose files are closed
     manifest |-> {},                                \* streams manifest.json names
     hashed   |-> [s \in Streams |-> <<<<>>, <<>>>>], \* what their hashes are of
     claimed  |-> TRUE]

\* What a writer holds whose records are of R.
Index(R) == [record : R, offset : Nat]
Writers(R) ==
    [state : {"active", "sealed", "failed"}, payload : [Streams -> Seq(R)],
     rows : [Streams -> Seq(Index(R))], listed : SUBSET Streams, closed : SUBSET Streams,
     manifest : SUBSET Streams, hashed : [Streams -> Seq(R) \X Seq(Index(R))], claimed : BOOLEAN]

\* _streams: a stream's files are opened by its first record (one whose only
\* write failed has empty files, which are left out).
Opened(w) == {s \in Streams : w.payload[s] # <<>>}

Outcome(w, e) == [writer |-> w, error |-> e]

WithChunk(w, s, r) == [w EXCEPT !.payload[s] = Append(@, r)]
Row(r, offset) == [record |-> r, offset |-> offset]
WithRow(w, s, r, offset) == [w EXCEPT !.rows[s] = Append(@, Row(r, offset))]

\* Mutants: plausible bugs in the operations below; no specification uses them.
AppendOutcomesByRows(w, s, r) ==
    IF w.state # "active" THEN {Outcome(w, "RuntimeError")}
    ELSE IF s \in w.closed THEN {Outcome(w, "ValueError")}
    ELSE LET chunk == WithChunk(w, s, r)
         IN  {Outcome(WithRow(chunk, s, r, Len(w.rows[s])), None),
              Outcome(w, "OSError"), Outcome(chunk, "OSError")}

\* append: the offset is where the payload goes, which is written before the
\* row.  An OSError leaves the writer active, with or without the payload.
AppendOutcomes(w, s, r) ==
    IF w.state # "active" THEN {Outcome(w, "RuntimeError")}
    ELSE IF s \in w.closed THEN {Outcome(w, "ValueError")}
    ELSE LET chunk == WithChunk(w, s, r)
         IN  {Outcome(WithRow(chunk, s, r, Len(w.payload[s])), None),
              Outcome(w, "OSError"), Outcome(chunk, "OSError")}

\* What close() does about an exception of any of its steps.
Failed(w) == [w EXCEPT !.state = "failed", !.closed = Streams, !.claimed = FALSE]

\* close() starts to iterate over _streams.
BeginClose(w) == [w EXCEPT !.listed = Opened(w)]

\* A stream opened by another thread meanwhile breaks the iteration.
Outgrown(w) == Opened(w) # w.listed

\* Flush, fsync and close one stream's files, then hash them.
CloseStreamOutcomes(w, s) ==
    IF Outgrown(w) THEN {Outcome(Failed(w), "RuntimeError")}
    ELSE {Outcome([w EXCEPT !.closed = @ \cup {s}, !.hashed[s] = <<w.payload[s], w.rows[s]>>], None),
          Outcome(Failed(w), "OSError")}

\* manifest.json is replaced atomically, naming every stream that was listed.
PublishOutcomes(w) ==
    IF Outgrown(w) THEN {Outcome(Failed(w), "RuntimeError")}
    ELSE {Outcome([w EXCEPT !.manifest = w.listed], None), Outcome(Failed(w), "OSError")}

\* The directory is synced and the claim released; only then is the writer sealed.
SealOutcomes(w) ==
    {Outcome([w EXCEPT !.state = "sealed", !.claimed = FALSE], None),
     Outcome(Failed(w), "OSError"),
     Outcome([Failed(w) EXCEPT !.claimed = TRUE], "OSError")}

=============================================================================
