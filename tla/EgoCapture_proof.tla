-------------------------- MODULE EgoCapture_proof --------------------------
(***************************************************************************)
(* What EgoCapture promises of a PASS for queues of any size, any number   *)
(* of frames and of errors, and every schedule of the threads.             *)
(*                                                                         *)
(* The inductive invariant says which thread brings what (ThreadInv), that *)
(* frames reach the files in the order they were acquired in (OrderInv),   *)
(* what the files hold against what was hashed (FileInv), how frames are   *)
(* classified (ClassInv), what a stop without an error has waited for      *)
(* (StopInv), and that the formal records on disk and in the queue are     *)
(* those that are judged, but for the frame at work (JudgedInv, MarkInv).  *)
(*                                                                         *)
(* The second half is about the calibration recording, which uses the same *)
(* writer (CalibrationCapture).  Its invariant says where every counted    *)
(* frame and sample is between its source and the files (VideoFlows,       *)
(* SamplesFlow, PendingHold), what the IMU process and the stages of main  *)
(* have done (ChildHold, StagesHold), what the files hold against what was *)
(* hashed, and that what was accepted is what was counted.                 *)
(***************************************************************************)
EXTENDS MCEgoCapture, SequenceTheorems, TLAPS

\* The thread that brings a stream's frames, and the number of the frame it is
\* at work on, or of its next one.
Source(s) == IF device = "d435i" THEN s ELSE Video

Current(s) ==
    LET f == frame[Source(s)]
    IN  IF f.at = "idle" THEN next[Source(s)] ELSE IF f.at = "entry" THEN f.n ELSE f.record.n

\* The stream has been given the record of the frame at work.
HandedOver(s) == frame[Source(s)].at = "count" \/ (s = Video /\ frame[Source(s)].at = "xu")

\* Where a record of a stream may be.
OnDisk(s, r)   == \E i \in DOMAIN writer.rows[s] : writer.rows[s][i].record = r
InPayload(s, r) == \E i \in DOMAIN writer.payload[s] : writer.payload[s][i] = r
InQueue(s, r)  == \E i \in DOMAIN queue : queue[i] = <<s, r>>
IsJudged(s, r) == \E i \in DOMAIN judged[s] : judged[s][i] = r
AtWork(s, r)   == HandedOver(s) /\ frame[Source(s)].record = r /\ r.formal

ThreadInv ==
    /\ \A t \in EgoStreams :
           /\ frame[t].at # "idle" => t \in Threads
           /\ frame[t].at = "count" => device = "d435i"
           /\ frame[t].at = "xu" => device = "2uq2"
           /\ frame[t].at = "entry" => frame[t].n < next[t]
           /\ frame[t].at \in {"write", "count", "xu"} => frame[t].record.n < next[t]
    /\ device = "2uq2" => queue = <<>> /\ judged[Xu] = judged[Video]

DiskAscends(s) ==
    \A i, j \in DOMAIN writer.rows[s] : i < j => writer.rows[s][i].record.n < writer.rows[s][j].record.n

QueueAscends(s) ==
    \A i, j \in DOMAIN queue : i < j /\ queue[i][1] = s /\ queue[j][1] = s => queue[i][2].n < queue[j][2].n

OrderInv ==
    \A s \in EgoStreams :
        /\ DiskAscends(s) /\ QueueAscends(s) /\ InOrder(judged[s])
        /\ \A r, q \in Records : OnDisk(s, r) /\ InQueue(s, q) => r.n < q.n
        /\ \A r \in Records : OnDisk(s, r) \/ InQueue(s, r) => r.n < Current(s) \/ (HandedOver(s) /\ r.n = Current(s))
        /\ \A r \in Records : IsJudged(s, r) => r.n < Current(s)

\* The hash of a file whose stream is closed, or in the manifest, is that of the file.
Hashed(w) ==
    \A s \in Streams : s \in w.manifest \/ (s \in w.closed /\ w.state = "active") =>
        s \in w.closed /\ w.hashed[s] = <<w.payload[s], w.rows[s]>>

FileInv ==
    /\ \A s \in Streams : \A i \in DOMAIN writer.rows[s] :
           LET row == writer.rows[s][i]
           IN  row.offset < Len(writer.payload[s]) /\ writer.payload[s][row.offset + 1] = row.record
    /\ Hashed(writer)
    /\ mpc \notin {"judge", "exit"} => writer.state = "active"
    /\ \A s \in Streams \ EgoStreams : writer.payload[s] = <<>>

\* A record is formal if it was acquired after the start, and known to be so.
WellClassified(r) ==
    /\ r.formal => r.timed /\ r.late
    /\ formalStart /\ r.timed /\ r.late => r.formal
    /\ r.late => begun

ClassInv ==
    /\ \A s \in EgoStreams :
           /\ \A r \in Records : InPayload(s, r) \/ InQueue(s, r) => WellClassified(r)
           /\ frame[s].at = "entry" /\ frame[s].late => begun
           /\ frame[s].at \in {"write", "count", "xu"} => WellClassified(frame[s].record)
    /\ mpc = "warm" => ~formalStart

Stopped == {"put", "join", "close", "files", "seal", "judge", "exit"}

StopInv ==
    /\ ~captureError /\ mpc \in Stopped => ~sourceOn /\ \A s \in EgoStreams : frame[s] = Idle
    /\ device = "2uq2" => mpc \notin {"put", "join"}
    /\ mpc \in {"warm", "formal", "stop", "put"} => tpc = "run" /\ \A i \in DOMAIN queue : queue[i] # Sentinel
    /\ device = "d435i" /\ mpc \in {"close", "files", "seal", "judge", "exit"} => tpc = "ended"
    /\ ~captureError /\ device = "d435i" =>
          /\ ~storageFailed
          /\ \A i \in DOMAIN queue : queue[i] = Sentinel => i = Len(queue)
          /\ tpc = "ended" => queue = <<>>
    /\ ~captureError /\ mpc \in {"seal", "judge", "exit"} => writer.manifest = Opened(writer)
    /\ ~captureError /\ mpc \in {"judge", "exit"} => writer.state = "sealed" /\ ~writer.claimed

JudgedInv ==
    /\ ~captureError /\ device = "d435i" =>
          \A s \in EgoStreams, r \in Records :
              (OnDisk(s, r) \/ InQueue(s, r)) /\ r.formal <=> IsJudged(s, r) \/ AtWork(s, r)
    /\ exceptions = 0 /\ device = "2uq2" =>
          \A s \in EgoStreams, r \in Records :
              OnDisk(s, r) /\ r.formal <=> (IsJudged(s, r) /\ r.formal) \/ AtWork(s, r)

\* What the 2UQ2 has classified as formal and valid, and has not given up.
Handled(r) == IsJudged(Video, r) \/ (frame[Video].at \in {"write", "xu"} /\ frame[Video].record = r)
Good(r)    == Handled(r) /\ r.formal /\ r.valid

MarkInv ==
    /\ device = "2uq2" /\ frame[Video].at = "entry" => (frame[Video].valid => frame[Video].timed)
    /\ device = "2uq2" /\ frame[Video].at \in {"write", "xu"} =>
          /\ frame[Video].record.formal <=> frame[Video].observed /\ frame[Video].record.timed
          /\ frame[Video].record.valid => frame[Video].record.timed
    /\ device = "2uq2" => \A r \in Records : IsJudged(Video, r) /\ r.valid => r.formal
    /\ device = "2uq2" /\ exceptions = 0 =>
          /\ candidateWritten <=> \E r \in Records : Good(r)
          /\ \A r \in Records : Good(r) => (r.candidate <=> \A q \in Records : Good(q) => r.n <= q.n)

PassInv ==
    /\ status = "PASS" => mpc = "exit"
    /\ PassIsPersisted

IInv == ThreadInv /\ OrderInv /\ FileInv /\ ClassInv /\ StopInv /\ JudgedInv /\ MarkInv /\ PassInv

-----------------------------------------------------------------------------
(* Sequences, frames and the operations of the writer.                      *)

(* What is behind the head of a sequence.                                   *)
LEMMA TailFacts ==
    ASSUME NEW S, NEW q \in Seq(S), q # <<>>
    PROVE  /\ Tail(q) \in Seq(S) /\ Head(q) = q[1] /\ q[1] \in S /\ 1 \in DOMAIN q
           /\ Len(Tail(q)) = Len(q) - 1 /\ Len(q) \in Nat \ {0}
           /\ DOMAIN q = 1..Len(q) /\ DOMAIN Tail(q) = 1..Len(q) - 1
           /\ \A i \in DOMAIN Tail(q) : i + 1 \in DOMAIN q /\ Tail(q)[i] = q[i + 1]
           /\ \A i \in DOMAIN q : i # 1 => i - 1 \in DOMAIN Tail(q) /\ q[i] = Tail(q)[i - 1]
<1>1. Tail(q) \in Seq(S) /\ Len(Tail(q)) = Len(q) - 1 /\ Len(q) \in Nat \ {0}
      /\ \A i \in 1..Len(q) - 1 : Tail(q)[i] = q[i + 1]
  BY HeadTailProperties, EmptySeq
<1>2. DOMAIN q = 1..Len(q) /\ DOMAIN Tail(q) = 1..Len(Tail(q))
  BY <1>1, LenProperties
<1>3. Head(q) = q[1] /\ q[1] \in S
  BY <1>1, HeadTailProperties, ElementOfSeq
<1> QED BY <1>1, <1>2, <1>3

(* What an element at the end adds.                                         *)
LEMMA AppendFacts ==
    ASSUME NEW S, NEW q \in Seq(S), NEW e \in S
    PROVE  /\ Append(q, e) \in Seq(S) /\ Append(q, e) # <<>>
           /\ Len(Append(q, e)) = Len(q) + 1 /\ Len(q) \in Nat
           /\ DOMAIN q = 1..Len(q)
           /\ DOMAIN Append(q, e) = 1..Len(q) + 1
           /\ \A i \in DOMAIN q : Append(q, e)[i] = q[i]
           /\ Append(q, e)[Len(q) + 1] = e
BY AppendProperties, LenProperties

(* The two streams are streams of the session, and no stream is None.       *)
LEMMA StreamFacts ==
    /\ EgoStreams \subseteq Streams /\ Video \in EgoStreams /\ Xu \in EgoStreams /\ Video # Xu
    /\ None \notin EgoStreams
    /\ \A s \in EgoStreams : s = Video \/ s = Xu
BY EgoAssumption DEF EgoStreams, Video, Xu, None

(* The sentinel is told from an item by its first component.                *)
LEMMA ItemFacts ==
    /\ Sentinel[1] = None
    /\ \A x \in EgoStreams \X Records :
           x[1] \in EgoStreams /\ x[2] \in Records /\ x = <<x[1], x[2]>> /\ x # Sentinel /\ x[1] # None
    /\ \A s \in EgoStreams, r \in Records : <<s, r>> \in EgoStreams \X Records
<1>1. Sentinel[1] = None
  BY DEF Sentinel
<1>2. ASSUME NEW x \in EgoStreams \X Records
      PROVE  x[1] \in EgoStreams /\ x[2] \in Records /\ x = <<x[1], x[2]>>
  OBVIOUS
<1> QED BY <1>1, <1>2, StreamFacts

(* A frame's place says what is known of it.                                *)
LEMMA FrameFacts ==
    ASSUME TypeOK, NEW s \in EgoStreams
    PROVE  /\ frame[s].at \in {"idle", "entry", "write", "count", "xu"}
           /\ frame[s].at = "idle" <=> frame[s] = Idle
           /\ frame[s].at = "entry" => frame[s] \in Entries
           /\ frame[s].at \in {"write", "count", "xu"} => frame[s] \in Busy
<1>1. frame[s] = Idle \/ frame[s] \in Entries \/ frame[s] \in Busy
  BY DEF TypeOK
<1> QED BY <1>1 DEF Idle, Entries, Busy

(* The next place of a frame that is handled.                               *)
LEMMA BusyFacts ==
    ASSUME NEW f \in Busy, NEW at \in {"write", "count", "xu"}
    PROVE  /\ [f EXCEPT !.at = at] \in Busy
           /\ [f EXCEPT !.at = at].at = at
           /\ [f EXCEPT !.at = at].record = f.record /\ [f EXCEPT !.at = at].observed = f.observed
           /\ f.record \in Records /\ f.observed \in BOOLEAN
BY DEF Busy

(* A record's fields.                                                       *)
LEMMA RecordFacts ==
    ASSUME NEW r \in Records
    PROVE  /\ r.n \in Nat /\ r.late \in BOOLEAN /\ r.formal \in BOOLEAN
           /\ r.valid \in BOOLEAN /\ r.timed \in BOOLEAN /\ r.candidate \in BOOLEAN
BY DEF Records

(* A writer's attributes.                                                   *)
LEMMA WriterFacts ==
    ASSUME NEW R, NEW w \in Writers(R)
    PROVE  /\ w.state \in {"active", "sealed", "failed"}
           /\ w.payload \in [Streams -> Seq(R)] /\ w.rows \in [Streams -> Seq(Index(R))]
           /\ w.listed \subseteq Streams /\ w.closed \subseteq Streams /\ w.manifest \subseteq Streams
           /\ w.hashed \in [Streams -> Seq(R) \X Seq(Index(R))] /\ w.claimed \in BOOLEAN
BY DEF Writers

(* What an append leaves alone, and what it does to its stream.             *)
LEMMA Appended ==
    ASSUME NEW R, NEW w \in Writers(R), NEW s \in Streams, NEW r \in R, NEW o \in AppendOutcomes(w, s, r)
    PROVE  /\ o.writer \in Writers(R)
           /\ o.error \in {None, "OSError", "RuntimeError", "ValueError"}
           /\ o.writer.state = w.state /\ o.writer.listed = w.listed /\ o.writer.closed = w.closed
           /\ o.writer.manifest = w.manifest /\ o.writer.hashed = w.hashed /\ o.writer.claimed = w.claimed
           /\ \A t \in Streams : t # s => o.writer.payload[t] = w.payload[t] /\ o.writer.rows[t] = w.rows[t]
           /\ o.writer.payload[s] = w.payload[s] \/ o.writer.payload[s] = Append(w.payload[s], r)
           /\ o.writer.payload[s] # w.payload[s] => w.state = "active" /\ s \notin w.closed
           /\ o.error # None => o.writer.rows = w.rows
           /\ o.error = None =>
                  /\ w.state = "active" /\ s \notin w.closed
                  /\ o.writer.payload[s] = Append(w.payload[s], r)
                  /\ o.writer.rows[s] = Append(w.rows[s], Row(r, Len(w.payload[s])))
<1> DEFINE chunk == WithChunk(w, s, r)
           row   == Row(r, Len(w.payload[s]))
           whole == WithRow(chunk, s, r, Len(w.payload[s]))
<1>1. w.payload[s] \in Seq(R) /\ w.rows[s] \in Seq(Index(R)) /\ Len(w.payload[s]) \in Nat
  BY WriterFacts, LenProperties
<1>2. row \in Index(R)
  BY <1>1 DEF Index, Row
<1>3. Append(w.payload[s], r) \in Seq(R) /\ Append(w.rows[s], row) \in Seq(Index(R))
  BY <1>1, <1>2, AppendProperties
<1>4. /\ chunk \in Writers(R) /\ chunk.payload = [w.payload EXCEPT ![s] = Append(w.payload[s], r)]
      /\ chunk.rows = w.rows /\ chunk.state = w.state /\ chunk.listed = w.listed
      /\ chunk.closed = w.closed /\ chunk.manifest = w.manifest /\ chunk.hashed = w.hashed
      /\ chunk.claimed = w.claimed
  BY <1>3 DEF WithChunk, Writers
<1>5. /\ whole \in Writers(R) /\ whole.rows = [w.rows EXCEPT ![s] = Append(w.rows[s], row)]
      /\ whole.payload = [w.payload EXCEPT ![s] = Append(w.payload[s], r)]
      /\ whole.state = w.state /\ whole.listed = w.listed
      /\ whole.closed = w.closed /\ whole.manifest = w.manifest /\ whole.hashed = w.hashed
      /\ whole.claimed = w.claimed
  <2> HIDE DEF chunk
  <2> QED BY <1>3, <1>4 DEF WithRow, Writers
<1>6. CASE w.state # "active"
  BY <1>6 DEF AppendOutcomes, Outcome, None
<1>7. CASE w.state = "active" /\ s \in w.closed
  BY <1>7 DEF AppendOutcomes, Outcome, None
<1>8. CASE w.state = "active" /\ s \notin w.closed
  <2>1. \/ o.writer = whole /\ o.error = None
        \/ o.writer = w /\ o.error = "OSError"
        \/ o.writer = chunk /\ o.error = "OSError"
    BY <1>8 DEF AppendOutcomes, Outcome
  <2> HIDE DEF chunk, whole
  <2>2. None # "OSError"
    BY DEF None
  <2>3. w.payload \in [Streams -> Seq(R)] /\ w.rows \in [Streams -> Seq(Index(R))]
    BY WriterFacts
  <2>4. CASE o.writer = whole /\ o.error = None
    <3>1. /\ o.writer.payload[s] = Append(w.payload[s], r) /\ o.writer.rows[s] = Append(w.rows[s], row)
          /\ \A t \in Streams : t # s => o.writer.payload[t] = w.payload[t] /\ o.writer.rows[t] = w.rows[t]
      <4> HIDE DEF row
      <4> QED BY <1>5, <2>3, <2>4
    <3> QED BY <1>5, <1>8, <2>4, <3>1
  <2>5. CASE o.writer = w /\ o.error = "OSError"
    BY <1>8, <2>2, <2>5
  <2>6. CASE o.writer = chunk /\ o.error = "OSError"
    BY <1>4, <1>8, <2>2, <2>3, <2>6
  <2> QED BY <2>1, <2>4, <2>5, <2>6
<1> QED BY <1>6, <1>7, <1>8

(* The other streams, and the other attributes.                             *)
LEMMA AppendedElsewhere ==
    ASSUME NEW R, NEW w \in Writers(R), NEW s \in Streams, NEW r \in R, NEW o \in AppendOutcomes(w, s, r),
           NEW t \in Streams, t # s
    PROVE  o.writer.payload[t] = w.payload[t] /\ o.writer.rows[t] = w.rows[t]
BY Appended

(* What a close that failed leaves behind.                                  *)
LEMMA FailedFacts ==
    ASSUME NEW R, NEW w \in Writers(R)
    PROVE  /\ Failed(w) \in Writers(R)
           /\ Failed(w).payload = w.payload /\ Failed(w).rows = w.rows /\ Failed(w).state = "failed"
           /\ Failed(w).closed = Streams /\ Failed(w).manifest = w.manifest /\ Failed(w).hashed = w.hashed
           /\ [Failed(w) EXCEPT !.claimed = TRUE] \in Writers(R)
           /\ [Failed(w) EXCEPT !.claimed = TRUE].payload = w.payload
           /\ [Failed(w) EXCEPT !.claimed = TRUE].rows = w.rows
           /\ [Failed(w) EXCEPT !.claimed = TRUE].state = "failed"
           /\ [Failed(w) EXCEPT !.claimed = TRUE].closed = Streams
           /\ [Failed(w) EXCEPT !.claimed = TRUE].manifest = w.manifest
           /\ [Failed(w) EXCEPT !.claimed = TRUE].hashed = w.hashed
BY DEF Failed, Writers

(* A failure leaves the hashes as they were.                                *)
LEMMA FailureKeepsHashes ==
    ASSUME NEW R, NEW w \in Writers(R), NEW v \in Writers(R), Hashed(w),
           v.payload = w.payload, v.rows = w.rows, v.state = "failed",
           v.closed = Streams, v.manifest = w.manifest, v.hashed = w.hashed
    PROVE  Hashed(v)
<1> SUFFICES ASSUME NEW s \in Streams, s \in v.manifest \/ (s \in v.closed /\ v.state = "active")
             PROVE  s \in v.closed /\ v.hashed[s] = <<v.payload[s], v.rows[s]>>
  BY DEF Hashed
<1>1. s \in w.manifest
  OBVIOUS
<1>2. w.hashed[s] = <<w.payload[s], w.rows[s]>>
  BY <1>1 DEF Hashed
<1> QED BY <1>2

(* close() begins.                                                          *)
LEMMA CloseBegins ==
    ASSUME NEW R, NEW w \in Writers(R)
    PROVE  /\ BeginClose(w) \in Writers(R)
           /\ BeginClose(w).payload = w.payload /\ BeginClose(w).rows = w.rows
           /\ BeginClose(w).state = w.state
           /\ Hashed(w) => Hashed(BeginClose(w))
<1>1. Opened(w) \subseteq Streams
  BY DEF Opened
<1> QED BY <1>1 DEF BeginClose, Hashed, Writers

(* A stream's files are hashed, or the close has failed.                    *)
LEMMA StreamCloses ==
    ASSUME NEW R, NEW w \in Writers(R), NEW s \in Streams, NEW o \in CloseStreamOutcomes(w, s)
    PROVE  /\ o.writer \in Writers(R) /\ o.error \in {None, "OSError", "RuntimeError"}
           /\ o.writer.payload = w.payload /\ o.writer.rows = w.rows
           /\ o.error = None => o.writer.state = w.state
           /\ Hashed(w) => Hashed(o.writer)
<1> DEFINE v == [w EXCEPT !.closed = @ \cup {s}, !.hashed[s] = <<w.payload[s], w.rows[s]>>]
<1>1. \/ o.writer = v /\ o.error = None
      \/ o.writer = Failed(w) /\ o.error \in {"OSError", "RuntimeError"}
  BY DEF CloseStreamOutcomes, Outcome, None
<1>2. /\ v \in Writers(R) /\ v.payload = w.payload /\ v.rows = w.rows /\ v.state = w.state
      /\ v.manifest = w.manifest /\ v.closed = w.closed \cup {s}
      /\ v.hashed[s] = <<w.payload[s], w.rows[s]>>
      /\ \A t \in Streams : t # s => v.hashed[t] = w.hashed[t]
  BY DEF Writers
<1> HIDE DEF v
<1>3. CASE o.writer = v /\ o.error = None
  BY <1>2, <1>3 DEF Hashed
<1>4. CASE o.writer = Failed(w) /\ o.error \in {"OSError", "RuntimeError"}
  <2>1. o.error # None
    BY <1>4 DEF None
  <2>2. Hashed(w) => Hashed(Failed(w))
    BY FailedFacts, FailureKeepsHashes
  <2> QED BY <1>4, <2>1, <2>2, FailedFacts
<1> QED BY <1>1, <1>3, <1>4

(* The manifest names streams that were hashed.                             *)
LEMMA ManifestPublished ==
    ASSUME NEW R, NEW w \in Writers(R), NEW o \in PublishOutcomes(w), w.listed \subseteq w.closed, w.state = "active"
    PROVE  /\ o.writer \in Writers(R) /\ o.error \in {None, "OSError", "RuntimeError"}
           /\ o.writer.payload = w.payload /\ o.writer.rows = w.rows
           /\ o.error = None => o.writer.state = w.state /\ o.writer.manifest = Opened(o.writer)
           /\ Hashed(w) => Hashed(o.writer)
<1> DEFINE v == [w EXCEPT !.manifest = w.listed]
<1>1. \/ o.writer = v /\ o.error = None /\ w.listed = Opened(w)
      \/ o.writer = Failed(w) /\ o.error \in {"OSError", "RuntimeError"}
  BY DEF PublishOutcomes, Outcome, Outgrown, None
<1>2. /\ v \in Writers(R) /\ v.payload = w.payload /\ v.rows = w.rows /\ v.state = w.state
      /\ v.manifest = w.listed /\ v.closed = w.closed /\ v.hashed = w.hashed
  BY DEF Writers
<1> HIDE DEF v
<1>3. CASE o.writer = v /\ o.error = None /\ w.listed = Opened(w)
  <2>1. Opened(v) = Opened(w)
    BY <1>2 DEF Opened
  <2>2. Hashed(w) => Hashed(v)
    BY <1>2 DEF Hashed
  <2> QED BY <1>2, <1>3, <2>1, <2>2
<1>4. CASE o.writer = Failed(w) /\ o.error \in {"OSError", "RuntimeError"}
  <2>1. o.error # None
    BY <1>4 DEF None
  <2>2. Hashed(w) => Hashed(Failed(w))
    BY FailedFacts, FailureKeepsHashes
  <2> QED BY <1>4, <2>1, <2>2, FailedFacts
<1> QED BY <1>1, <1>3, <1>4

(* The session is sealed, or the close has failed.                          *)
LEMMA SessionSealed ==
    ASSUME NEW R, NEW w \in Writers(R), NEW o \in SealOutcomes(w)
    PROVE  /\ o.writer \in Writers(R) /\ o.error \in {None, "OSError", "RuntimeError"}
           /\ o.writer.payload = w.payload /\ o.writer.rows = w.rows /\ o.writer.manifest = w.manifest
           /\ o.error = None => o.writer.state = "sealed" /\ ~o.writer.claimed
           /\ Hashed(w) => Hashed(o.writer)
<1> DEFINE v == [w EXCEPT !.state = "sealed", !.claimed = FALSE]
<1> DEFINE u == [Failed(w) EXCEPT !.claimed = TRUE]
<1>1. \/ o.writer = v /\ o.error = None
      \/ o.writer = Failed(w) /\ o.error = "OSError"
      \/ o.writer = u /\ o.error = "OSError"
  <2>1. o \in {Outcome(v, None), Outcome(Failed(w), "OSError"), Outcome(u, "OSError")}
    BY DEF SealOutcomes
  <2> HIDE DEF v, u
  <2> QED BY <2>1 DEF Outcome
<1>2. /\ v \in Writers(R) /\ v.payload = w.payload /\ v.rows = w.rows /\ v.state = "sealed" /\ ~v.claimed
      /\ v.manifest = w.manifest /\ v.closed = w.closed /\ v.hashed = w.hashed
  BY DEF Writers
<1>3. "OSError" # None
  BY DEF None
<1>7. u \in Writers(R) /\ u.payload = w.payload /\ u.rows = w.rows /\ u.closed = Streams
      /\ u.manifest = w.manifest /\ u.hashed = w.hashed /\ u.state = "failed"
  BY FailedFacts
<1> HIDE DEF v, u
<1>4. CASE o.writer = v /\ o.error = None
  <2>1. Hashed(w) => Hashed(v)
    BY <1>2 DEF Hashed
  <2> QED BY <1>2, <1>4, <2>1
<1>5. CASE o.writer = Failed(w) /\ o.error = "OSError"
  <2>1. Hashed(w) => Hashed(Failed(w))
    BY FailedFacts, FailureKeepsHashes
  <2> QED BY <1>3, <1>5, <2>1, FailedFacts
<1>6. CASE o.writer = u /\ o.error = "OSError"
  <2>1. Hashed(w) => Hashed(u)
    BY <1>7, FailureKeepsHashes
  <2> QED BY <1>3, <1>6, <1>7, <2>1
<1> QED BY <1>1, <1>4, <1>5, <1>6

-----------------------------------------------------------------------------
(* The steps that call the writer.                                          *)

(* The video record of the 2UQ2 is appended, or the frame ends.             *)
LEMMA VideoAppended ==
    ASSUME TypeOK, NEW s \in EgoStreams, AppendVideo(s)
    PROVE  \E o \in AppendOutcomes(writer, Video, frame[s].record) :
               /\ writer' = o.writer /\ errors' \in Nat
               /\ o.error = None =>
                     frame' = [frame EXCEPT ![s].at = "xu"] /\ UNCHANGED <<judged, exceptions, storageFailed>>
               /\ o.error # None =>
                     /\ exceptions' = exceptions + 1 /\ storageFailed' \in BOOLEAN
                     /\ frame' = [frame EXCEPT ![s] = Idle] /\ UNCHANGED judged
<1>1. PICK o \in AppendOutcomes(writer, Video, frame[s].record) :
          /\ writer' = o.writer
          /\ IF o.error = "OSError" THEN Raises ELSE UNCHANGED errors
          /\ IF o.error = None
             THEN frame' = [frame EXCEPT ![s].at = "xu"] /\ UNCHANGED <<judged, exceptions, storageFailed>>
             ELSE FrameFails(s, o.error)
  BY DEF AppendVideo, Takes
<1>2. errors' \in Nat
  BY <1>1 DEF Raises, TypeOK
<1>3. ASSUME FrameFails(s, o.error)
      PROVE  /\ exceptions' = exceptions + 1 /\ storageFailed' \in BOOLEAN
             /\ frame' = [frame EXCEPT ![s] = Idle] /\ UNCHANGED judged
  BY <1>3 DEF FrameFails
<1> QED BY <1>1, <1>2, <1>3

(* The XU record of the 2UQ2 is appended and the frame observed, or it ends. *)
LEMMA XuAppended ==
    ASSUME TypeOK, NEW s \in EgoStreams, AppendXu(s)
    PROVE  \E o \in AppendOutcomes(writer, Xu, frame[s].record) :
               /\ writer' = o.writer /\ errors' \in Nat /\ frame' = [frame EXCEPT ![s] = Idle]
               /\ o.error = None =>
                     /\ judged' = IF frame[s].observed
                                  THEN [t \in EgoStreams |-> Append(judged[t], frame[s].record)] ELSE judged
                     /\ UNCHANGED <<exceptions, storageFailed>>
               /\ o.error # None => exceptions' = exceptions + 1 /\ storageFailed' \in BOOLEAN /\ UNCHANGED judged
<1>1. PICK o \in AppendOutcomes(writer, Xu, frame[s].record) :
          /\ writer' = o.writer
          /\ IF o.error = "OSError" THEN Raises ELSE UNCHANGED errors
          /\ IF o.error = None
             THEN /\ judged' = IF frame[s].observed
                               THEN [t \in EgoStreams |-> Append(judged[t], frame[s].record)] ELSE judged
                  /\ frame' = [frame EXCEPT ![s] = Idle] /\ UNCHANGED <<exceptions, storageFailed>>
             ELSE FrameFails(s, o.error)
  BY DEF AppendXu, Takes
<1>2. errors' \in Nat
  BY <1>1 DEF Raises, TypeOK
<1>3. ASSUME FrameFails(s, o.error)
      PROVE  /\ exceptions' = exceptions + 1 /\ storageFailed' \in BOOLEAN
             /\ frame' = [frame EXCEPT ![s] = Idle] /\ UNCHANGED judged
  BY <1>3 DEF FrameFails
<1> QED BY <1>1, <1>2, <1>3

(* The writer thread takes the sentinel, drops a record after an error, or  *)
(* appends one.                                                             *)
LEMMA WriterTook ==
    ASSUME TypeOK, WriterTakes
    PROVE  \/ Head(queue) = Sentinel /\ tpc' = "ended" /\ UNCHANGED <<writer, errors, storageFailed, captureError>>
           \/ /\ Head(queue) # Sentinel /\ storageFailed
              /\ UNCHANGED <<tpc, writer, errors, storageFailed, captureError>>
           \/ /\ Head(queue) # Sentinel /\ UNCHANGED tpc
              /\ \E o \in AppendOutcomes(writer, Head(queue)[1], Head(queue)[2]) :
                     /\ writer' = o.writer /\ errors' \in Nat
                     /\ storageFailed' = (o.error # None)
                     /\ captureError' = (captureError \/ o.error # None)
<1>1. CASE Head(queue) = Sentinel
  BY <1>1 DEF WriterTakes
<1>2. CASE Head(queue) # Sentinel /\ storageFailed
  BY <1>2 DEF WriterTakes
<1>3. CASE Head(queue) # Sentinel /\ ~storageFailed
  <2>1. PICK o \in AppendOutcomes(writer, Head(queue)[1], Head(queue)[2]) :
            /\ writer' = o.writer
            /\ IF o.error = "OSError" THEN Raises ELSE UNCHANGED errors
            /\ storageFailed' = (o.error # None)
            /\ captureError' = (captureError \/ o.error # None)
    BY <1>3 DEF WriterTakes, Takes
  <2>2. errors' \in Nat
    BY <2>1 DEF Raises, TypeOK
  <2>3. UNCHANGED tpc
    BY <1>3 DEF WriterTakes
  <2> QED BY <1>3, <2>1, <2>2, <2>3
<1> QED BY <1>1, <1>2, <1>3

\* A step of the close leaves the files as they are, and ends in an error or goes on.
CloseStep ==
    /\ writer' \in Writers(Records) /\ errors' \in Nat
    /\ writer'.payload = writer.payload /\ writer'.rows = writer.rows
    /\ Hashed(writer')
    /\ mpc \in {"close", "files", "seal"} /\ mpc' \in {"files", "seal", "judge"}
    /\ captureError' \in BOOLEAN /\ (captureError => captureError')
    /\ mpc' # "judge" => writer'.state = "active"
    /\ mpc' = "seal" /\ ~captureError' => writer'.manifest = Opened(writer')
    /\ mpc' = "judge" /\ ~captureError' =>
           /\ mpc = "seal" /\ writer'.manifest = writer.manifest
           /\ writer'.state = "sealed" /\ ~writer'.claimed

(* CloseWriter is such a step.                                              *)
LEMMA WriterCloses ==
    ASSUME TypeOK, FileInv, CloseWriter
    PROVE  CloseStep
<1>0. writer \in Writers(Records) /\ writer.listed \subseteq Streams /\ Hashed(writer) /\ errors \in Nat
      /\ captureError \in BOOLEAN /\ (mpc \notin {"judge", "exit"} => writer.state = "active")
  BY WriterFacts DEF TypeOK, FileInv
<1>1. \/ /\ mpc = "close" /\ mpc' = "files"
         /\ writer' = BeginClose(writer) /\ UNCHANGED <<errors, captureError>>
      \/ \E s \in Streams : \E o \in CloseStreamOutcomes(writer, s) :
            /\ mpc = "files" /\ mpc' = (IF o.error = None THEN "files" ELSE "judge")
            /\ writer' = o.writer /\ errors' \in Nat /\ captureError' = (captureError \/ o.error # None)
      \/ \E o \in PublishOutcomes(writer) :
            /\ mpc = "files" /\ mpc' = (IF o.error = None THEN "seal" ELSE "judge")
            /\ writer.listed \subseteq writer.closed
            /\ writer' = o.writer /\ errors' \in Nat /\ captureError' = (captureError \/ o.error # None)
      \/ \E o \in SealOutcomes(writer) :
            /\ mpc = "seal" /\ mpc' = "judge"
            /\ writer' = o.writer /\ errors' \in Nat /\ captureError' = (captureError \/ o.error # None)
  BY <1>0 DEF CloseWriter, Takes, Raises
<1>2. CASE mpc = "close" /\ mpc' = "files" /\ writer' = BeginClose(writer) /\ UNCHANGED <<errors, captureError>>
  BY <1>0, <1>2, CloseBegins DEF CloseStep
<1>3. ASSUME NEW s \in Streams, NEW o \in CloseStreamOutcomes(writer, s),
             mpc = "files", mpc' = (IF o.error = None THEN "files" ELSE "judge"),
             writer' = o.writer, errors' \in Nat, captureError' = (captureError \/ o.error # None)
      PROVE  CloseStep
  <2>1. o.writer \in Writers(Records) /\ o.writer.payload = writer.payload /\ o.writer.rows = writer.rows
        /\ (o.error = None => o.writer.state = writer.state) /\ Hashed(o.writer)
    BY <1>0, StreamCloses
  <2>2. captureError' \in BOOLEAN /\ (captureError => captureError') /\ (o.error # None => captureError')
    BY <1>3, <1>0, Zenon
  <2> QED BY <1>0, <1>3, <2>1, <2>2 DEF CloseStep
<1>4. ASSUME NEW o \in PublishOutcomes(writer), writer.listed \subseteq writer.closed,
             mpc = "files", mpc' = (IF o.error = None THEN "seal" ELSE "judge"),
             writer' = o.writer, errors' \in Nat, captureError' = (captureError \/ o.error # None)
      PROVE  CloseStep
  <2>1. o.writer \in Writers(Records) /\ o.writer.payload = writer.payload /\ o.writer.rows = writer.rows
        /\ (o.error = None => o.writer.state = writer.state /\ o.writer.manifest = Opened(o.writer))
        /\ Hashed(o.writer)
    BY <1>0, <1>4, ManifestPublished
  <2>2. captureError' \in BOOLEAN /\ (captureError => captureError') /\ (o.error # None => captureError')
    BY <1>4, <1>0, Zenon
  <2> QED BY <1>0, <1>4, <2>1, <2>2 DEF CloseStep
<1>5. ASSUME NEW o \in SealOutcomes(writer), mpc = "seal", mpc' = "judge",
             writer' = o.writer, errors' \in Nat, captureError' = (captureError \/ o.error # None)
      PROVE  CloseStep
  <2>1. o.writer \in Writers(Records) /\ o.writer.payload = writer.payload /\ o.writer.rows = writer.rows
        /\ o.writer.manifest = writer.manifest
        /\ (o.error = None => o.writer.state = "sealed" /\ ~o.writer.claimed) /\ Hashed(o.writer)
    BY <1>0, SessionSealed
  <2>2. captureError' \in BOOLEAN /\ (captureError => captureError') /\ (o.error # None => captureError')
    BY <1>5, <1>0, Zenon
  <2> QED BY <1>0, <1>5, <2>1, <2>2 DEF CloseStep
<1> QED BY <1>1, <1>2, <1>3, <1>4, <1>5

-----------------------------------------------------------------------------
(* Types.                                                                   *)

(* The types hold initially.                                                *)
LEMMA InitTypes ==
    ASSUME Init
    PROVE  TypeOK
<1> USE DEF Init
<1>1. <<>> \in Seq(Records) /\ <<>> \in Seq(Index(Records)) /\ <<>> \in Seq({Sentinel} \cup (EgoStreams \X Records))
  BY EmptySeq
<1>2. writer \in Writers(Records)
  BY <1>1 DEF NewWriter, Writers
<1>3. frame \in [EgoStreams -> {Idle} \cup Entries \cup Busy] /\ next \in [EgoStreams -> Nat]
      /\ judged \in [EgoStreams -> Seq(Records)]
  BY <1>1
<1>4. status \in {None, "PASS", "FAIL"} /\ errors \in Nat /\ exceptions \in Nat
  OBVIOUS
<1> QED BY <1>1, <1>2, <1>3, <1>4 DEF TypeOK

(* A callback keeps the types.                                              *)
LEMMA CallbackTypes ==
    ASSUME TypeOK, NEW s \in EgoStreams, Callback(s)
    PROVE  TypeOK'
<1> USE DEF TypeOK
<1> DEFINE Frames == {Idle} \cup Entries \cup Busy
<1>0. /\ frame \in [EgoStreams -> Frames] /\ next \in [EgoStreams -> Nat]
      /\ frame[s].at = "entry" => frame[s] \in Entries
      /\ frame[s].at \in {"write", "count", "xu"} => frame[s] \in Busy
  BY FrameFacts
<1> HIDE DEF Frames
<1>10. Idle \in Frames /\ Entries \subseteq Frames /\ Busy \subseteq Frames
  BY DEF Frames
<1>1. CASE Acquire(s)
  <2>1. PICK timed, valid \in BOOLEAN :
            frame' = [frame EXCEPT ![s] = [at |-> "entry", n |-> next[s], late |-> begun,
                                           timed |-> timed, valid |-> valid]]
    BY <1>1 DEF Acquire
  <2>2. [at |-> "entry", n |-> next[s], late |-> begun, timed |-> timed, valid |-> valid] \in Entries
    BY DEF Entries
  <2>3. frame' \in [EgoStreams -> Frames]
    BY <1>0, <1>10, <2>1, <2>2
  <2>4. next' \in [EgoStreams -> Nat]
    BY <1>1, <1>0 DEF Acquire
  <2>5. UNCHANGED <<device, errors, writer, captureError, judged, exceptions, candidateWritten, queue, tpc,
                    storageFailed, formalStart, begun, sourceOn, mpc, status>>
    BY <1>1 DEF Acquire, threadVars, mainVars
  <2> QED BY <2>3, <2>4, <2>5 DEF Frames
<1>2. CASE Classify(s)
  <2> DEFINE f == frame[s]
             candidate == device = "2uq2" /\ IsFormal(f) /\ f.valid /\ ~candidateWritten
             g == [at |-> "write", observed |-> formalStart /\ f.late, record |-> Record(f, IsFormal(f), candidate)]
  <2>1. f \in Entries
    BY <1>2, <1>0 DEF Classify
  <2>2. IsFormal(f) \in BOOLEAN /\ (formalStart /\ f.late) \in BOOLEAN /\ candidate \in BOOLEAN
    BY <2>1 DEF IsFormal, Entries
  <2>3. Record(f, IsFormal(f), candidate) \in Records
    <3> HIDE DEF candidate
    <3> QED BY <2>1, <2>2 DEF Record, Records, Entries
  <2>4. g \in Busy
    <3> HIDE DEF candidate, f
    <3> QED BY <2>2, <2>3 DEF Busy
  <2>5. frame' = [frame EXCEPT ![s] = g]
    BY <1>2 DEF Classify
  <2>6. frame' \in [EgoStreams -> Frames]
    <3> HIDE DEF g
    <3> QED BY <1>0, <1>10, <2>4, <2>5
  <2>7. candidateWritten' \in BOOLEAN
    BY <1>2 DEF Classify
  <2>8. UNCHANGED <<device, errors, writer, captureError, next, judged, exceptions, queue, tpc,
                    storageFailed, formalStart, begun, sourceOn, mpc, status>>
    BY <1>2 DEF Classify, threadVars, mainVars
  <2> QED BY <2>6, <2>7, <2>8 DEF Frames
<1>3. CASE Submit(s)
  <2>1. frame[s] \in Busy /\ frame[s].record \in Records
    BY <1>3, <1>0 DEF Submit, Busy
  <2>2. frame' \in [EgoStreams -> Frames]
    <3>1. [frame[s] EXCEPT !.at = "count"] \in Busy
      BY <2>1, BusyFacts
    <3>2. frame' = [frame EXCEPT ![s] = [frame[s] EXCEPT !.at = "count"]] \/ frame' = [frame EXCEPT ![s] = Idle]
      BY <1>3 DEF Submit
    <3> QED BY <1>0, <1>10, <3>1, <3>2
  <2>3. queue' \in Seq({Sentinel} \cup (EgoStreams \X Records))
    <3>1. <<s, frame[s].record>> \in {Sentinel} \cup (EgoStreams \X Records)
      BY <2>1
    <3>2. Append(queue, <<s, frame[s].record>>) \in Seq({Sentinel} \cup (EgoStreams \X Records))
      BY <3>1, AppendProperties
    <3>3. queue' = Append(queue, <<s, frame[s].record>>) \/ queue' = queue
      BY <1>3 DEF Submit
    <3> QED BY <3>2, <3>3
  <2>4. captureError' \in BOOLEAN
    BY <1>3 DEF Submit
  <2>5. UNCHANGED <<device, errors, writer, next, judged, exceptions, candidateWritten, tpc, storageFailed,
                    formalStart, begun, sourceOn, mpc, status>>
    BY <1>3 DEF Submit, mainVars
  <2> QED BY <2>2, <2>3, <2>4, <2>5 DEF Frames
<1>4. CASE Count(s)
  <2>1. frame[s].record \in Records
    BY <1>4, <1>0 DEF Count, Busy
  <2>2. frame' \in [EgoStreams -> Frames]
    BY <1>4, <1>0, <1>10 DEF Count
  <2>3. judged' \in [EgoStreams -> Seq(Records)]
    <3>1. Append(judged[s], frame[s].record) \in Seq(Records)
      BY <2>1, AppendProperties
    <3> QED BY <1>4, <3>1 DEF Count
  <2>4. UNCHANGED <<device, errors, writer, captureError, next, exceptions, candidateWritten, queue, tpc,
                    storageFailed, formalStart, begun, sourceOn, mpc, status>>
    BY <1>4 DEF Count, threadVars, mainVars
  <2> QED BY <2>2, <2>3, <2>4 DEF Frames
<1>5. CASE AppendVideo(s)
  <2>1. frame[s] \in Busy /\ frame[s].record \in Records
    BY <1>5, <1>0 DEF AppendVideo, Busy
  <2>2. PICK o \in AppendOutcomes(writer, Video, frame[s].record) :
               /\ writer' = o.writer /\ errors' \in Nat
               /\ o.error = None =>
                     frame' = [frame EXCEPT ![s].at = "xu"] /\ UNCHANGED <<judged, exceptions, storageFailed>>
               /\ o.error # None =>
                     /\ exceptions' = exceptions + 1 /\ storageFailed' \in BOOLEAN
                     /\ frame' = [frame EXCEPT ![s] = Idle] /\ UNCHANGED judged
    BY <1>5, VideoAppended
  <2>3. writer' \in Writers(Records)
    BY <2>1, <2>2, Appended, StreamFacts
  <2>4. frame' \in [EgoStreams -> Frames]
    <3>1. [frame[s] EXCEPT !.at = "xu"] \in Busy
      BY <2>1, BusyFacts
    <3>2. frame' = [frame EXCEPT ![s] = [frame[s] EXCEPT !.at = "xu"]] \/ frame' = [frame EXCEPT ![s] = Idle]
      BY <2>2
    <3> QED BY <1>0, <1>10, <3>1, <3>2
  <2>5. storageFailed' \in BOOLEAN
    BY <2>2, Zenon
  <2>6. exceptions' \in Nat /\ judged' = judged
    BY <2>2
  <2>7. UNCHANGED <<device, captureError, next, candidateWritten, queue, tpc, formalStart, begun, sourceOn, mpc,
                    status>>
    BY <1>5 DEF AppendVideo, mainVars
  <2> QED BY <2>2, <2>3, <2>4, <2>5, <2>6, <2>7 DEF Frames
<1>6. CASE AppendXu(s)
  <2>1. frame[s] \in Busy /\ frame[s].record \in Records
    BY <1>6, <1>0 DEF AppendXu, Busy
  <2>2. PICK o \in AppendOutcomes(writer, Xu, frame[s].record) :
               /\ writer' = o.writer /\ errors' \in Nat /\ frame' = [frame EXCEPT ![s] = Idle]
               /\ o.error = None =>
                     /\ judged' = IF frame[s].observed
                                  THEN [t \in EgoStreams |-> Append(judged[t], frame[s].record)] ELSE judged
                     /\ UNCHANGED <<exceptions, storageFailed>>
               /\ o.error # None => exceptions' = exceptions + 1 /\ storageFailed' \in BOOLEAN /\ UNCHANGED judged
    BY <1>6, XuAppended
  <2>3. writer' \in Writers(Records)
    BY <2>1, <2>2, Appended, StreamFacts
  <2>4. frame' \in [EgoStreams -> Frames]
    BY <1>0, <1>10, <2>2
  <2>5. storageFailed' \in BOOLEAN
    BY <2>2, Zenon
  <2>6. exceptions' \in Nat
    BY <2>2
  <2>7. judged' \in [EgoStreams -> Seq(Records)]
    <3>1. [t \in EgoStreams |-> Append(judged[t], frame[s].record)] \in [EgoStreams -> Seq(Records)]
      BY <2>1, AppendProperties
    <3> QED BY <2>2, <3>1
  <2>8. UNCHANGED <<device, captureError, next, candidateWritten, queue, tpc, formalStart, begun, sourceOn, mpc,
                    status>>
    BY <1>6 DEF AppendXu, mainVars
  <2> QED BY <2>2, <2>3, <2>4, <2>5, <2>6, <2>7, <2>8 DEF Frames
<1> QED BY <1>1, <1>2, <1>3, <1>4, <1>5, <1>6 DEF Callback

(* The writer thread keeps the types.                                       *)
LEMMA WriterTypes ==
    ASSUME TypeOK, WriterTakes
    PROVE  TypeOK'
<1> DEFINE Items == {Sentinel} \cup (EgoStreams \X Records)
<1>1. queue \in Seq(Items) /\ queue # <<>> /\ queue' = Tail(queue)
  BY DEF WriterTakes, TypeOK
<1>2. Tail(queue) \in Seq(Items) /\ Head(queue) \in Items
  <2> HIDE DEF Items
  <2> QED BY <1>1, TailFacts
<1>3. Head(queue) # Sentinel => Head(queue)[1] \in EgoStreams /\ Head(queue)[2] \in Records
  BY <1>2, ItemFacts
<1>4. UNCHANGED <<device, frame, next, judged, exceptions, candidateWritten, formalStart, begun, sourceOn, mpc, status>>
  BY DEF WriterTakes, callbackVars, mainVars
<1>5. writer \in Writers(Records) /\ captureError \in BOOLEAN /\ storageFailed \in BOOLEAN /\ errors \in Nat
      /\ tpc \in {"run", "ended"}
  BY DEF TypeOK
<1>6. writer' \in Writers(Records) /\ errors' \in Nat /\ captureError' \in BOOLEAN /\ storageFailed' \in BOOLEAN
      /\ tpc' \in {"run", "ended"}
  <2>1. CASE Head(queue) = Sentinel /\ tpc' = "ended" /\ UNCHANGED <<writer, errors, storageFailed, captureError>>
    BY <1>5, <2>1
  <2>2. CASE UNCHANGED <<tpc, writer, errors, storageFailed, captureError>>
    BY <1>5, <2>2
  <2>3. ASSUME Head(queue) # Sentinel, UNCHANGED tpc,
               NEW o \in AppendOutcomes(writer, Head(queue)[1], Head(queue)[2]),
               writer' = o.writer, errors' \in Nat,
               storageFailed' = (o.error # None), captureError' = (captureError \/ o.error # None)
        PROVE  writer' \in Writers(Records) /\ errors' \in Nat /\ captureError' \in BOOLEAN /\ storageFailed' \in BOOLEAN
               /\ tpc' \in {"run", "ended"}
    <3>1. o.writer \in Writers(Records)
      BY <1>3, <1>5, <2>3, StreamFacts, Appended
    <3>2. captureError' \in BOOLEAN /\ storageFailed' \in BOOLEAN
      BY <2>3, Zenon
    <3> QED BY <1>5, <2>3, <3>1, <3>2
  <2> QED BY <2>1, <2>2, <2>3, WriterTook
<1> QED BY <1>1, <1>2, <1>4, <1>6 DEF TypeOK

(* main and the clock keep the types.                                       *)
LEMMA MainTypes ==
    ASSUME TypeOK, FileInv, Main \/ StartPasses
    PROVE  TypeOK'
<1> USE DEF TypeOK
<1>1. CASE StartPasses
  BY <1>1 DEF StartPasses, callbackVars, threadVars
<1>2. CASE ReadStart
  BY <1>2 DEF ReadStart, callbackVars, threadVars
<1>3. CASE EndWindow
  BY <1>3 DEF EndWindow, callbackVars, threadVars
<1>4. CASE GiveUp
  BY <1>4 DEF GiveUp, callbackVars, threadVars
<1>5. CASE StopSource
  <2>1. errors' \in Nat /\ mpc' \in {"put", "close"}
    BY <1>5 DEF StopSource, Raises
  <2>2. sourceOn' \in BOOLEAN /\ captureError' \in BOOLEAN
    BY <1>5 DEF StopSource
  <2>3. UNCHANGED <<device, writer, callbackVars, threadVars, formalStart, begun, status>>
    BY <1>5 DEF StopSource
  <2> QED BY <2>1, <2>2, <2>3 DEF callbackVars, threadVars
<1>6. CASE PutSentinel
  <2>1. Append(queue, Sentinel) \in Seq({Sentinel} \cup (EgoStreams \X Records))
    BY AppendProperties
  <2> QED BY <1>6, <2>1 DEF PutSentinel, callbackVars
<1>7. CASE JoinWriter
  BY <1>7 DEF JoinWriter, callbackVars, threadVars
<1>8. CASE CloseWriter
  <2>1. CloseStep
    BY <1>8, WriterCloses
  <2>2. UNCHANGED <<device, callbackVars, threadVars, formalStart, begun, sourceOn, status>>
    BY <1>8 DEF CloseWriter
  <2> QED BY <2>1, <2>2 DEF CloseStep, callbackVars, threadVars
<1>9. CASE Judge
  BY <1>9 DEF Judge, callbackVars, threadVars
<1> QED BY <1>1, <1>2, <1>3, <1>4, <1>5, <1>6, <1>7, <1>8, <1>9 DEF Main

(* Every step keeps the types.                                              *)
LEMMA StepTypes ==
    ASSUME TypeOK, FileInv, [Next]_vars
    PROVE  TypeOK'
<1>1. CASE UNCHANGED vars
  BY <1>1 DEF TypeOK, vars, callbackVars, threadVars, mainVars
<1> QED BY <1>1, CallbackTypes, WriterTypes, MainTypes DEF Next

-----------------------------------------------------------------------------
(* Where records are, after a step.                                         *)

(* Nothing moves while the files, the queue and the samples stay.           *)
LEMMA PlacesStay ==
    /\ \A s, r : UNCHANGED writer.rows => (OnDisk(s, r)' <=> OnDisk(s, r))
    /\ \A s, r : UNCHANGED queue => (InQueue(s, r)' <=> InQueue(s, r))
    /\ \A s, r : UNCHANGED judged => (IsJudged(s, r)' <=> IsJudged(s, r))
BY DEF OnDisk, InQueue, IsJudged

(* A record is appended to a file.                                          *)
LEMMA DiskGrows ==
    ASSUME TypeOK, TypeOK', NEW s \in Streams, NEW r \in Records, NEW o \in AppendOutcomes(writer, s, r),
           writer' = o.writer, o.error = None
    PROVE  /\ \A t \in Streams : \A q : OnDisk(t, q)' <=> OnDisk(t, q) \/ (t = s /\ q = r)
           /\ DOMAIN writer'.rows[s] = 1..Len(writer.rows[s]) + 1
           /\ \A i \in DOMAIN writer.rows[s] : writer'.rows[s][i] = writer.rows[s][i]
           /\ writer'.rows[s][Len(writer.rows[s]) + 1] = Row(r, Len(writer.payload[s]))
           /\ DOMAIN writer.rows[s] = 1..Len(writer.rows[s]) /\ Len(writer.rows[s]) \in Nat
<1> DEFINE e == Row(r, Len(writer.payload[s]))
           a == writer.rows[s]
           b == writer'.rows[s]
<1>1. writer \in Writers(Records) /\ writer.payload[s] \in Seq(Records) /\ a \in Seq(Index(Records))
  BY WriterFacts DEF TypeOK
<1>2. e \in Index(Records)
  BY <1>1, LenProperties DEF Index, Row
<1>3. b = Append(a, e)
  BY <1>1, Appended
<1>4. /\ DOMAIN b = 1..Len(a) + 1 /\ DOMAIN a = 1..Len(a) /\ Len(a) \in Nat
      /\ (\A i \in DOMAIN a : b[i] = a[i]) /\ b[Len(a) + 1] = e
  <2> HIDE DEF e, a, b
  <2> QED BY <1>1, <1>2, <1>3, AppendFacts
<1>5. ASSUME NEW t \in Streams, NEW q
      PROVE  OnDisk(t, q)' <=> OnDisk(t, q) \/ (t = s /\ q = r)
  <2>5. CASE t # s
    <3>1. writer'.rows[t] = writer.rows[t]
      BY <1>1, <2>5, AppendedElsewhere
    <3> QED BY <2>5, <3>1 DEF OnDisk
  <2>6. CASE t = s
    <3>1. OnDisk(t, q)' <=> \E i \in DOMAIN b : b[i].record = q
      BY <2>6 DEF OnDisk
    <3>2. OnDisk(t, q) <=> \E i \in DOMAIN a : a[i].record = q
      BY <2>6 DEF OnDisk
    <3>3. e.record = r
      BY DEF Row
    <3>4. (\E i \in DOMAIN b : b[i].record = q) <=> (\E i \in DOMAIN a : a[i].record = q) \/ q = r
      <4> HIDE DEF a, b, e
      <4> QED BY <1>4, <3>3
    <3> QED BY <2>6, <3>1, <3>2, <3>4, Zenon
  <2> QED BY <2>5, <2>6
<1> QED BY <1>4, <1>5

(* A failed append leaves the rows as they were.                            *)
LEMMA DiskStays ==
    ASSUME TypeOK, NEW s \in Streams, NEW r \in Records, NEW o \in AppendOutcomes(writer, s, r),
           writer' = o.writer, o.error # None
    PROVE  writer'.rows = writer.rows
<1>1. writer \in Writers(Records)
  BY DEF TypeOK
<1> QED BY <1>1, Appended

(* A record is put into the queue.                                          *)
LEMMA QueueGrows ==
    ASSUME TypeOK, NEW s \in EgoStreams, NEW r \in Records, queue' = Append(queue, <<s, r>>), NEW t, NEW q
    PROVE  InQueue(t, q)' <=> InQueue(t, q) \/ (t = s /\ q = r)
<1> DEFINE Items == {Sentinel} \cup (EgoStreams \X Records)
           e == <<s, r>>
<1>1. e \in Items /\ queue \in Seq(Items)
  BY DEF TypeOK
<1>2. /\ DOMAIN queue' = 1..Len(queue) + 1 /\ DOMAIN queue = 1..Len(queue) /\ Len(queue) \in Nat
      /\ (\A i \in DOMAIN queue : queue'[i] = queue[i]) /\ queue'[Len(queue) + 1] = e
  <2> DEFINE p == queue'
  <2>1. p = Append(queue, e)
    OBVIOUS
  <2> HIDE DEF Items, e, p
  <2>2. /\ DOMAIN p = 1..Len(queue) + 1 /\ DOMAIN queue = 1..Len(queue) /\ Len(queue) \in Nat
        /\ (\A i \in DOMAIN queue : p[i] = queue[i]) /\ p[Len(queue) + 1] = e
    BY <1>1, <2>1, AppendFacts
  <2> QED BY <2>2 DEF p
<1> DEFINE x == <<t, q>>
<1>3. e = x <=> t = s /\ q = r
  OBVIOUS
<1>4. (InQueue(t, q) <=> \E i \in DOMAIN queue : queue[i] = x) /\ (InQueue(t, q)' <=> \E i \in DOMAIN queue' : queue'[i] = x)
  BY DEF InQueue
<1> HIDE DEF e, x
<1>5. (\E i \in DOMAIN queue' : queue'[i] = x) <=> (\E i \in DOMAIN queue : queue[i] = x) \/ e = x
  BY <1>2
<1> QED BY <1>3, <1>4, <1>5

(* The sentinel is no record.                                               *)
LEMMA QueueSentinel ==
    ASSUME TypeOK, queue' = Append(queue, Sentinel), NEW t \in EgoStreams, NEW q \in Records
    PROVE  InQueue(t, q)' <=> InQueue(t, q)
<1> DEFINE Items == {Sentinel} \cup (EgoStreams \X Records)
<1>1. Sentinel \in Items /\ queue \in Seq(Items)
  BY DEF TypeOK
<1>2. /\ DOMAIN queue' = 1..Len(queue) + 1 /\ DOMAIN queue = 1..Len(queue) /\ Len(queue) \in Nat
      /\ (\A i \in DOMAIN queue : queue'[i] = queue[i]) /\ queue'[Len(queue) + 1] = Sentinel
  <2> HIDE DEF Items
  <2> QED BY <1>1, AppendFacts
<1> DEFINE x == <<t, q>>
<1>3. Sentinel # x
  BY ItemFacts
<1>4. (InQueue(t, q) <=> \E i \in DOMAIN queue : queue[i] = x) /\ (InQueue(t, q)' <=> \E i \in DOMAIN queue' : queue'[i] = x)
  BY DEF InQueue
<1> HIDE DEF x
<1>5. (\E i \in DOMAIN queue' : queue'[i] = x) <=> (\E i \in DOMAIN queue : queue[i] = x)
  BY <1>2, <1>3
<1> QED BY <1>4, <1>5

(* The head leaves the queue.                                               *)
LEMMA QueueShrinks ==
    ASSUME TypeOK, queue # <<>>, queue' = Tail(queue), NEW t, NEW q
    PROVE  InQueue(t, q) <=> InQueue(t, q)' \/ Head(queue) = <<t, q>>
<1> DEFINE Items == {Sentinel} \cup (EgoStreams \X Records)
<1>1. queue \in Seq(Items)
  BY DEF TypeOK
<1> HIDE DEF Items
<1>2. /\ Head(queue) = queue[1] /\ 1 \in DOMAIN queue
      /\ \A i \in DOMAIN queue' : i + 1 \in DOMAIN queue /\ queue'[i] = queue[i + 1]
      /\ \A i \in DOMAIN queue : i # 1 => i - 1 \in DOMAIN queue' /\ queue[i] = queue'[i - 1]
  BY <1>1, TailFacts
<1> DEFINE x == <<t, q>>
<1>4. (InQueue(t, q) <=> \E i \in DOMAIN queue : queue[i] = x) /\ (InQueue(t, q)' <=> \E i \in DOMAIN queue' : queue'[i] = x)
  BY DEF InQueue
<1> HIDE DEF x
<1>5. (\E i \in DOMAIN queue : queue[i] = x) <=> (\E i \in DOMAIN queue' : queue'[i] = x) \/ Head(queue) = x
  <2>1. ASSUME NEW i \in DOMAIN queue, queue[i] = x
        PROVE  (\E j \in DOMAIN queue' : queue'[j] = x) \/ Head(queue) = x
    BY <1>2, <2>1
  <2>2. ASSUME NEW j \in DOMAIN queue', queue'[j] = x
        PROVE  \E i \in DOMAIN queue : queue[i] = x
    BY <1>2, <2>2
  <2>3. Head(queue) = x => \E i \in DOMAIN queue : queue[i] = x
    BY <1>2
  <2> QED BY <2>1, <2>2, <2>3
<1> QED BY <1>4, <1>5 DEF x

(* A sample is kept for the verdict.                                        *)
LEMMA JudgedGrows ==
    ASSUME TypeOK, NEW s \in EgoStreams, NEW r \in Records, judged'[s] = Append(judged[s], r), NEW q
    PROVE  /\ IsJudged(s, q)' <=> IsJudged(s, q) \/ q = r
           /\ DOMAIN judged'[s] = 1..Len(judged[s]) + 1 /\ DOMAIN judged[s] = 1..Len(judged[s])
           /\ Len(judged[s]) \in Nat
           /\ \A i \in DOMAIN judged[s] : judged'[s][i] = judged[s][i]
           /\ judged'[s][Len(judged[s]) + 1] = r
<1> DEFINE a == judged[s]
           b == judged'[s]
<1>1. a \in Seq(Records) /\ b = Append(a, r)
  BY DEF TypeOK
<1>2. /\ DOMAIN b = 1..Len(a) + 1 /\ DOMAIN a = 1..Len(a) /\ Len(a) \in Nat
      /\ (\A i \in DOMAIN a : b[i] = a[i]) /\ b[Len(a) + 1] = r
  <2> HIDE DEF a, b
  <2> QED BY <1>1, AppendFacts
<1>3. (IsJudged(s, q) <=> \E i \in DOMAIN a : a[i] = q) /\ (IsJudged(s, q)' <=> \E i \in DOMAIN b : b[i] = q)
  BY DEF IsJudged
<1>4. (\E i \in DOMAIN b : b[i] = q) <=> (\E i \in DOMAIN a : a[i] = q) \/ q = r
  <2> HIDE DEF a, b
  <2> QED BY <1>2
<1>5. IsJudged(s, q)' <=> IsJudged(s, q) \/ q = r
  BY <1>3, <1>4, Zenon
<1> QED BY <1>2, <1>5

-----------------------------------------------------------------------------
(* The threads and the frames they are at work on.                          *)

(* A stream has one thread.                                                 *)
LEMMA SourceFacts ==
    ASSUME TypeOK, NEW s \in EgoStreams
    PROVE  /\ Source(s) \in EgoStreams
           /\ device = "d435i" => Source(s) = s
           /\ device = "2uq2" => Source(s) = Video
           /\ device = "d435i" \/ device = "2uq2"
BY StreamFacts DEF TypeOK, Source

(* Another thread's callback leaves a thread's frame alone.                 *)
LEMMA CallbackFrames ==
    ASSUME TypeOK, NEW s \in EgoStreams, Callback(s)
    PROVE  /\ UNCHANGED device /\ UNCHANGED mainVars /\ mpc # "exit" /\ UNCHANGED tpc
           /\ \A t \in EgoStreams : t # s => frame'[t] = frame[t] /\ next'[t] = next[t]
<1>0. frame \in [EgoStreams -> {Idle} \cup Entries \cup Busy] /\ next \in [EgoStreams -> Nat]
  BY DEF TypeOK
<1>1. CASE Acquire(s)
  <2>1. next' = [next EXCEPT ![s] = @ + 1] /\ \E f : frame' = [frame EXCEPT ![s] = f]
    BY <1>1 DEF Acquire
  <2> QED BY <1>0, <1>1, <2>1 DEF Acquire, threadVars
<1>2. CASE Classify(s)
  <2>1. \E f : frame' = [frame EXCEPT ![s] = f]
    BY <1>2 DEF Classify
  <2> QED BY <1>0, <1>2, <2>1 DEF Classify, threadVars
<1>3. CASE Submit(s)
  <2>1. \E f : frame' = [frame EXCEPT ![s] = f]
    BY <1>3 DEF Submit
  <2> QED BY <1>0, <1>3, <2>1 DEF Submit
<1>4. CASE Count(s)
  <2>1. \E f : frame' = [frame EXCEPT ![s] = f]
    BY <1>4 DEF Count
  <2> QED BY <1>0, <1>4, <2>1 DEF Count, threadVars
<1>5. CASE AppendVideo(s)
  <2>1. \E f : frame' = [frame EXCEPT ![s] = f]
    BY <1>5, VideoAppended
  <2> QED BY <1>0, <1>5, <2>1 DEF AppendVideo
<1>6. CASE AppendXu(s)
  <2>1. frame' = [frame EXCEPT ![s] = Idle]
    BY <1>6, XuAppended
  <2> QED BY <1>0, <1>6, <2>1 DEF AppendXu
<1> QED BY <1>1, <1>2, <1>3, <1>4, <1>5, <1>6 DEF Callback

(* What the steps of a callback do to its frame.                            *)
LEMMA FrameSteps ==
    ASSUME TypeOK, ThreadInv, NEW s \in EgoStreams
    PROVE  /\ Acquire(s) =>
                 /\ frame[s].at = "idle" /\ frame'[s].at = "entry" /\ frame'[s].n = next[s]
                 /\ frame'[s].late = begun /\ (frame'[s].valid => frame'[s].timed)
                 /\ next'[s] = next[s] + 1
           /\ Classify(s) =>
                 /\ frame[s].at = "entry" /\ frame'[s].at = "write"
                 /\ frame'[s].record.n = frame[s].n /\ next'[s] = next[s]
           /\ Submit(s) =>
                 /\ frame[s].at = "write" /\ next'[s] = next[s]
                 /\ \/ /\ queue' = Append(queue, <<s, frame[s].record>>) /\ UNCHANGED captureError
                       /\ frame'[s].at = "count" /\ frame'[s].record = frame[s].record
                    \/ UNCHANGED queue /\ captureError' /\ frame'[s] = Idle
           /\ Count(s) => frame[s].at = "count" /\ frame'[s] = Idle /\ next'[s] = next[s]
           /\ AppendVideo(s) =>
                 /\ s = Video /\ device = "2uq2" /\ frame[s].at = "write" /\ next'[s] = next[s]
           /\ AppendXu(s) =>
                 /\ s = Video /\ device = "2uq2" /\ frame[s].at = "xu" /\ next'[s] = next[s]
                 /\ frame'[s] = Idle
<1>0. frame \in [EgoStreams -> {Idle} \cup Entries \cup Busy] /\ next \in [EgoStreams -> Nat]
  BY DEF TypeOK
<1>t. ASSUME frame[s].at \in {"write", "xu"}, device = "2uq2"
      PROVE  s = Video
  BY <1>t DEF ThreadInv, Threads
<1>1. ASSUME Acquire(s)
      PROVE  /\ frame[s].at = "idle" /\ frame'[s].at = "entry" /\ frame'[s].n = next[s]
             /\ frame'[s].late = begun /\ (frame'[s].valid => frame'[s].timed)
             /\ next'[s] = next[s] + 1
  <2>1. PICK timed, valid \in BOOLEAN :
            /\ valid => timed
            /\ frame' = [frame EXCEPT ![s] = [at |-> "entry", n |-> next[s], late |-> begun,
                                              timed |-> timed, valid |-> valid]]
    BY <1>1 DEF Acquire
  <2>2. frame[s] = Idle /\ next' = [next EXCEPT ![s] = @ + 1]
    BY <1>1 DEF Acquire
  <2>3. frame'[s] = [at |-> "entry", n |-> next[s], late |-> begun, timed |-> timed, valid |-> valid]
    BY <1>0, <2>1
  <2>4. frame'[s].at = "entry" /\ frame'[s].n = next[s] /\ frame'[s].late = begun
    BY <2>3
  <2>5. frame'[s].valid => frame'[s].timed
    BY <2>1, <2>3
  <2> QED BY <1>0, <2>2, <2>4, <2>5 DEF Idle
<1>2. ASSUME Classify(s)
      PROVE  /\ frame[s].at = "entry" /\ frame'[s].at = "write"
             /\ frame'[s].record.n = frame[s].n /\ next'[s] = next[s]
  <2>1. \E o, a, b : frame' = [frame EXCEPT ![s] = [at |-> "write", observed |-> o, record |-> Record(frame[s], a, b)]]
    BY <1>2 DEF Classify
  <2> QED BY <1>0, <1>2, <2>1 DEF Classify, Record
<1>3. ASSUME Submit(s)
      PROVE  /\ frame[s].at = "write" /\ next'[s] = next[s]
             /\ \/ /\ queue' = Append(queue, <<s, frame[s].record>>) /\ UNCHANGED captureError
                   /\ frame'[s].at = "count" /\ frame'[s].record = frame[s].record
                \/ UNCHANGED queue /\ captureError' /\ frame'[s] = Idle
  <2>1. frame[s] \in Busy
    BY <1>3, FrameFacts DEF Submit
  <2>2. CASE Len(queue) < QueueDepth
    <3>1. frame'[s] = [frame[s] EXCEPT !.at = "count"]
      BY <1>0, <1>3, <2>2 DEF Submit
    <3> QED BY <1>3, <2>1, <2>2, <3>1, BusyFacts DEF Submit
  <2>3. CASE ~(Len(queue) < QueueDepth)
    BY <1>0, <1>3, <2>3 DEF Submit
  <2> QED BY <2>2, <2>3
<1>4. ASSUME Count(s)
      PROVE  frame[s].at = "count" /\ frame'[s] = Idle /\ next'[s] = next[s]
  BY <1>0, <1>4 DEF Count
<1>5. ASSUME AppendVideo(s)
      PROVE  s = Video /\ device = "2uq2" /\ frame[s].at = "write" /\ next'[s] = next[s]
  BY <1>t, <1>5 DEF AppendVideo
<1>6. ASSUME AppendXu(s)
      PROVE  s = Video /\ device = "2uq2" /\ frame[s].at = "xu" /\ next'[s] = next[s] /\ frame'[s] = Idle
  <2>1. frame[s].at = "xu" /\ next' = next
    BY <1>6 DEF AppendXu
  <2>2. device = "2uq2"
    BY <2>1 DEF ThreadInv
  <2>3. frame' = [frame EXCEPT ![s] = Idle]
    BY <1>6, XuAppended
  <2> QED BY <1>0, <1>t, <2>1, <2>2, <2>3
<1> QED BY <1>1, <1>2, <1>3, <1>4, <1>5, <1>6

\* A stream's frame at work is the same, and not taken back, or a later one.
Onward(t) ==
    /\ Current(t) \in Nat /\ Current(t)' \in Nat
    /\ (Current(t)' = Current(t) /\ (HandedOver(t) => HandedOver(t)')) \/ Current(t) < Current(t)'

(* Frames do not go back.                                                   *)
LEMMA CallbackOnward ==
    ASSUME TypeOK, TypeOK', ThreadInv, NEW s \in EgoStreams, Callback(s), NEW t \in EgoStreams
    PROVE  Onward(t)
<1> DEFINE u == Source(t)
           f == frame[u]
           g == frame'[u]
<1>0. /\ u \in EgoStreams /\ Source(t)' = u /\ next[u] \in Nat /\ next'[u] \in Nat
      /\ f \in {Idle} \cup Entries \cup Busy /\ g \in {Idle} \cup Entries \cup Busy
  <2>1. device' = device
    BY CallbackFrames
  <2> QED BY <2>1, SourceFacts DEF TypeOK, Source
<1>1. /\ Current(t) = IF f.at = "idle" THEN next[u] ELSE IF f.at = "entry" THEN f.n ELSE f.record.n
      /\ Current(t)' = IF g.at = "idle" THEN next'[u] ELSE IF g.at = "entry" THEN g.n ELSE g.record.n
      /\ HandedOver(t) <=> f.at = "count" \/ (t = Video /\ f.at = "xu")
      /\ HandedOver(t)' <=> g.at = "count" \/ (t = Video /\ g.at = "xu")
  BY <1>0 DEF Current, HandedOver
<1>2. Current(t) \in Nat /\ Current(t)' \in Nat
  <2>1. \A h \in {Idle} \cup Entries \cup Busy :
           (h.at = "entry" => h.n \in Nat) /\ (h.at \notin {"idle", "entry"} => h.record.n \in Nat)
    BY DEF Idle, Entries, Busy, Records
  <2> QED BY <1>0, <1>1, <2>1
<1>3. /\ f.at = "entry" => f.n < next[u]
      /\ f.at \in {"write", "count", "xu"} => f.record.n < next[u]
  BY <1>0 DEF ThreadInv
<1>4. Idle.at = "idle"
  BY DEF Idle
<1> HIDE DEF u, f, g
<1>5. CASE u # s
  <2>1. g = f /\ next'[u] = next[u]
    BY <1>0, <1>5, CallbackFrames DEF f, g
  <2> QED BY <1>1, <1>2, <2>1 DEF Onward
<1>6. CASE u = s
  <2>1. CASE Acquire(s)
    <3>1. f.at = "idle" /\ g.at = "entry" /\ g.n = next[u]
      BY <1>6, <2>1, FrameSteps DEF f, g
    <3> QED BY <1>1, <1>2, <3>1 DEF Onward
  <2>2. CASE Classify(s)
    <3>1. f.at = "entry" /\ g.at = "write" /\ g.record.n = f.n
      BY <1>6, <2>2, FrameSteps DEF f, g
    <3> QED BY <1>1, <1>2, <3>1 DEF Onward
  <2>3. CASE Submit(s)
    <3>1. /\ f.at = "write" /\ next'[u] = next[u]
          /\ (g.at = "count" /\ g.record = f.record) \/ g = Idle
      BY <1>6, <2>3, FrameSteps DEF f, g
    <3> QED BY <1>1, <1>2, <1>3, <1>4, <3>1 DEF Onward
  <2>4. CASE Count(s)
    <3>1. f.at = "count" /\ g = Idle /\ next'[u] = next[u]
      BY <1>6, <2>4, FrameSteps DEF f, g
    <3> QED BY <1>1, <1>2, <1>3, <1>4, <3>1 DEF Onward
  <2>5. CASE AppendVideo(s)
    <3>1. f.at = "write" /\ next'[u] = next[u]
      BY <1>6, <2>5, FrameSteps DEF f, g
    <3>2. (g.at = "xu" /\ g.record = f.record) \/ g = Idle
      <4>1. frame' = [frame EXCEPT ![s].at = "xu"] \/ frame' = [frame EXCEPT ![s] = Idle]
        BY <2>5, VideoAppended
      <4>2. f \in Busy
        BY <1>0, <3>1, FrameFacts DEF f
      <4>3. g = [f EXCEPT !.at = "xu"] \/ g = Idle
        BY <1>0, <1>6, <4>1 DEF f, g, TypeOK
      <4> QED BY <4>2, <4>3, BusyFacts
    <3> QED BY <1>1, <1>2, <1>3, <1>4, <3>1, <3>2 DEF Onward
  <2>6. CASE AppendXu(s)
    <3>1. f.at = "xu" /\ g = Idle /\ next'[u] = next[u]
      BY <1>6, <2>6, FrameSteps DEF f, g
    <3> QED BY <1>1, <1>2, <1>3, <1>4, <3>1 DEF Onward
  <2> QED BY <2>1, <2>2, <2>3, <2>4, <2>5, <2>6 DEF Callback
<1> QED BY <1>5, <1>6

\* The steps that neither callbacks nor the writer thread take.
Elsewhere == Main \/ StartPasses \/ UNCHANGED vars

(* They leave the threads alone.                                            *)
LEMMA ElsewhereFrames ==
    ASSUME TypeOK, FileInv, Elsewhere
    PROVE  /\ UNCHANGED <<device, frame, next, judged, exceptions, candidateWritten>>
           /\ writer'.rows = writer.rows /\ writer'.payload = writer.payload
           /\ UNCHANGED tpc /\ UNCHANGED storageFailed
           /\ queue' = queue \/ (PutSentinel /\ queue' = Append(queue, Sentinel))
           /\ captureError => captureError'
<1> USE DEF callbackVars, threadVars, mainVars
<1>1. CASE StartPasses
  BY <1>1 DEF StartPasses
<1>2. CASE ReadStart
  BY <1>2 DEF ReadStart
<1>3. CASE EndWindow
  BY <1>3 DEF EndWindow
<1>4. CASE GiveUp
  BY <1>4 DEF GiveUp
<1>5. CASE StopSource
  BY <1>5 DEF StopSource
<1>6. CASE PutSentinel
  BY <1>6 DEF PutSentinel
<1>7. CASE JoinWriter
  BY <1>7 DEF JoinWriter
<1>8. CASE CloseWriter
  <2>1. CloseStep
    BY <1>8, WriterCloses
  <2>2. UNCHANGED <<device, callbackVars, threadVars>>
    BY <1>8 DEF CloseWriter
  <2> QED BY <2>1, <2>2 DEF CloseStep
<1>9. CASE Judge
  BY <1>9 DEF Judge
<1>10. CASE UNCHANGED vars
  BY <1>10 DEF vars
<1> QED BY <1>1, <1>2, <1>3, <1>4, <1>5, <1>6, <1>7, <1>8, <1>9, <1>10 DEF Elsewhere, Main

(* Which thread brings what is kept.                                        *)
LEMMA ThreadsKept ==
    ASSUME TypeOK, TypeOK', ThreadInv, FileInv, StopInv, [Next]_vars
    PROVE  ThreadInv'
<1> DEFINE Fits(t) ==
        /\ frame[t].at # "idle" => t \in Threads
        /\ frame[t].at = "count" => device = "d435i"
        /\ frame[t].at = "xu" => device = "2uq2"
        /\ frame[t].at = "entry" => frame[t].n < next[t]
        /\ frame[t].at \in {"write", "count", "xu"} => frame[t].record.n < next[t]
<1>1. ASSUME NEW s \in EgoStreams, Callback(s)
      PROVE  ThreadInv'
  <2>1. device' = device /\ Threads' = Threads
    BY <1>1, CallbackFrames DEF Threads
  <2>2. ASSUME NEW t \in EgoStreams, t # s
        PROVE  Fits(t)'
    <3>1. frame'[t] = frame[t] /\ next'[t] = next[t] /\ Fits(t)
      BY <1>1, <2>2, CallbackFrames DEF ThreadInv
    <3> QED BY <2>1, <3>1
  <2>3. Fits(s)'
    <3>0. Fits(s) /\ next[s] \in Nat /\ Idle.at = "idle"
      BY DEF ThreadInv, TypeOK, Idle
    <3>1. CASE Acquire(s)
      <4>1. s \in Threads
        BY <3>1 DEF Acquire
      <4> QED BY <2>1, <3>0, <3>1, <4>1, FrameSteps
    <3>2. CASE Classify(s)
      BY <2>1, <3>0, <3>2, FrameSteps
    <3>3. CASE Submit(s)
      <4>1. device = "d435i"
        BY <3>3 DEF Submit
      <4> QED BY <2>1, <3>0, <3>3, <4>1, FrameSteps
    <3>4. CASE Count(s)
      BY <2>1, <3>0, <3>4, FrameSteps
    <3>5. CASE AppendVideo(s)
      <4>1. s = Video /\ device = "2uq2" /\ frame[s].at = "write" /\ next'[s] = next[s]
        BY <3>5, FrameSteps
      <4>2. frame'[s] = [frame[s] EXCEPT !.at = "xu"] \/ frame'[s] = Idle
        <5>1. frame' = [frame EXCEPT ![s].at = "xu"] \/ frame' = [frame EXCEPT ![s] = Idle]
          BY <3>5, VideoAppended
        <5> QED BY <5>1 DEF TypeOK
      <4>3. frame[s] \in Busy
        BY <4>1, FrameFacts
      <4>4. (frame'[s].at = "xu" /\ frame'[s].record = frame[s].record) \/ frame'[s].at = "idle"
        BY <3>0, <4>2, <4>3, BusyFacts
      <4> QED BY <2>1, <3>0, <4>1, <4>4
    <3>6. CASE AppendXu(s)
      BY <2>1, <3>0, <3>6, FrameSteps
    <3> QED BY <1>1, <3>1, <3>2, <3>3, <3>4, <3>5, <3>6 DEF Callback
  <2>4. ASSUME device = "2uq2"
        PROVE  queue' = <<>> /\ judged'[Xu] = judged'[Video]
    <3>0. queue = <<>> /\ judged[Xu] = judged[Video] /\ device # "d435i" /\ Xu \in EgoStreams /\ Video \in EgoStreams
      BY <2>4, StreamFacts DEF ThreadInv
    <3>1. ~Submit(s) /\ ~Count(s)
      BY <3>0 DEF Submit, Count, ThreadInv
    <3>2. CASE Acquire(s) \/ Classify(s)
      BY <3>0, <3>2 DEF Acquire, Classify, threadVars
    <3>3. CASE AppendVideo(s)
      <4>1. UNCHANGED judged
        BY <3>3, VideoAppended
      <4> QED BY <3>0, <3>3, <4>1 DEF AppendVideo
    <3>4. CASE AppendXu(s)
      <4>1. judged' = judged \/ judged' = [t \in EgoStreams |-> Append(judged[t], frame[s].record)]
        BY <3>4, XuAppended
      <4> QED BY <3>0, <3>4, <4>1 DEF AppendXu
    <3> QED BY <1>1, <3>1, <3>2, <3>3, <3>4 DEF Callback
  <2>5. \A t \in EgoStreams : Fits(t)'
    BY <2>2, <2>3
  <2> QED BY <2>1, <2>4, <2>5 DEF ThreadInv
<1>2. CASE WriterTakes
  BY <1>2 DEF WriterTakes, ThreadInv, callbackVars, Threads
<1>3. CASE Elsewhere
  <2>1. /\ UNCHANGED <<device, frame, next, judged>>
        /\ queue' = queue \/ PutSentinel
    BY <1>3, ElsewhereFrames
  <2>2. device = "2uq2" => queue' = queue
    BY <2>1 DEF PutSentinel, StopInv
  <2> QED BY <2>1, <2>2 DEF ThreadInv, Threads
<1> QED BY <1>1, <1>2, <1>3 DEF Next, Elsewhere

-----------------------------------------------------------------------------
(* The order of the frames.                                                 *)

(* What is in a file or among the samples is a record.                      *)
LEMMA RowFacts ==
    ASSUME TypeOK, NEW s \in EgoStreams
    PROVE  /\ \A i \in DOMAIN writer.rows[s] :
                  writer.rows[s][i].record \in Records /\ OnDisk(s, writer.rows[s][i].record)
           /\ \A i \in DOMAIN judged[s] : judged[s][i] \in Records /\ IsJudged(s, judged[s][i])
<1>1. writer.rows[s] \in Seq(Index(Records)) /\ judged[s] \in Seq(Records)
  BY StreamFacts, WriterFacts DEF TypeOK
<1>2. \A i \in DOMAIN writer.rows[s] : writer.rows[s][i] \in Index(Records)
  BY <1>1, ElementOfSeq, LenProperties
<1>3. \A i \in DOMAIN judged[s] : judged[s][i] \in Records
  BY <1>1, ElementOfSeq, LenProperties
<1> QED BY <1>2, <1>3 DEF Index, OnDisk, IsJudged

(* What is in the queue for a stream is a record.                           *)
LEMMA QueueFacts ==
    ASSUME TypeOK, NEW s \in EgoStreams
    PROVE  /\ \A i \in DOMAIN queue : queue[i][1] = s =>
                  queue[i] = <<s, queue[i][2]>> /\ queue[i][2] \in Records /\ InQueue(s, queue[i][2])
           /\ \A r \in Records : InQueue(s, r) => \E i \in DOMAIN queue : queue[i][1] = s /\ queue[i][2] = r
<1>1. \A i \in DOMAIN queue : queue[i] \in {Sentinel} \cup (EgoStreams \X Records)
  BY ElementOfSeq, LenProperties DEF TypeOK
<1>2. ASSUME NEW i \in DOMAIN queue, queue[i][1] = s
      PROVE  queue[i] = <<s, queue[i][2]>> /\ queue[i][2] \in Records /\ InQueue(s, queue[i][2])
  <2>1. queue[i] # Sentinel
    BY <1>2, ItemFacts, StreamFacts
  <2>2. queue[i] \in EgoStreams \X Records
    BY <1>1, <2>1
  <2>3. queue[i] = <<s, queue[i][2]>> /\ queue[i][2] \in Records
    BY <1>2, <2>2, ItemFacts
  <2> QED BY <2>3 DEF InQueue
<1>3. ASSUME NEW r \in Records, InQueue(s, r)
      PROVE  \E i \in DOMAIN queue : queue[i][1] = s /\ queue[i][2] = r
  <2>1. PICK i \in DOMAIN queue : queue[i] = <<s, r>>
    BY <1>3 DEF InQueue
  <2> QED BY <2>1
<1> QED BY <1>2, <1>3

(* A later record keeps a file in order.                                    *)
LEMMA DiskAscendsOn ==
    ASSUME TypeOK, TypeOK', NEW s \in EgoStreams, NEW r \in Records, NEW o \in AppendOutcomes(writer, s, r),
           writer' = o.writer, o.error = None,
           \A t \in EgoStreams : DiskAscends(t), \A q \in Records : OnDisk(s, q) => q.n < r.n,
           NEW t \in EgoStreams
    PROVE  DiskAscends(t)'
<1>0. s \in Streams /\ t \in Streams /\ writer \in Writers(Records)
  BY StreamFacts DEF TypeOK
<1>1. CASE t # s
  <2>1. o.writer.payload[t] = writer.payload[t] /\ o.writer.rows[t] = writer.rows[t]
    BY <1>0, <1>1, AppendedElsewhere
  <2> QED BY <2>1 DEF DiskAscends
<1>2. CASE t = s
  <2> DEFINE a == writer.rows[s]
             b == writer'.rows[s]
  <2>1. /\ DOMAIN b = 1..Len(a) + 1 /\ DOMAIN a = 1..Len(a) /\ Len(a) \in Nat
        /\ (\A i \in DOMAIN a : b[i] = a[i])
        /\ b[Len(a) + 1] = Row(r, Len(writer.payload[s]))
    BY <1>0, DiskGrows
  <2>5. b[Len(a) + 1].record = r
    BY <2>1 DEF Row
  <2>2. \A i \in DOMAIN a : a[i].record \in Records /\ a[i].record.n < r.n
    BY RowFacts
  <2>3. \A i, j \in DOMAIN a : i < j => a[i].record.n < a[j].record.n
    BY DEF DiskAscends
  <2> HIDE DEF a, b
  <2>4. \A i, j \in DOMAIN b : i < j => b[i].record.n < b[j].record.n
    BY <2>1, <2>2, <2>3, <2>5
  <2> QED BY <1>2, <2>4 DEF DiskAscends, b
<1> QED BY <1>1, <1>2

(* Only a step that gives a record away can disturb the order.              *)
LEMMA OrderQuiet ==
    ASSUME TypeOK, OrderInv, \A t \in EgoStreams : Onward(t),
           writer'.rows = writer.rows, UNCHANGED judged,
           \A t \in EgoStreams : QueueAscends(t)',
           \A t \in EgoStreams, r \in Records : InQueue(t, r)' <=> InQueue(t, r)
    PROVE  OrderInv'
<1> SUFFICES ASSUME NEW s \in EgoStreams
             PROVE  /\ DiskAscends(s)' /\ QueueAscends(s)' /\ InOrder(judged[s])'
                    /\ \A r, q \in Records : OnDisk(s, r)' /\ InQueue(s, q)' => r.n < q.n
                    /\ \A r \in Records : OnDisk(s, r)' \/ InQueue(s, r)' =>
                           r.n < Current(s)' \/ (HandedOver(s)' /\ r.n = Current(s)')
                    /\ \A r \in Records : IsJudged(s, r)' => r.n < Current(s)'
  BY Zenon DEF OrderInv
<1>1. \A r \in Records : (OnDisk(s, r)' <=> OnDisk(s, r)) /\ (IsJudged(s, r)' <=> IsJudged(s, r))
  BY PlacesStay
<1>2. DiskAscends(s)' /\ InOrder(judged[s])'
  BY DEF OrderInv, DiskAscends
<1>3. \A r, q \in Records : OnDisk(s, r)' /\ InQueue(s, q)' => r.n < q.n
  BY <1>1 DEF OrderInv
<1>4. ASSUME NEW r \in Records
      PROVE  /\ OnDisk(s, r)' \/ InQueue(s, r)' => r.n < Current(s)' \/ (HandedOver(s)' /\ r.n = Current(s)')
             /\ IsJudged(s, r)' => r.n < Current(s)'
  <2>1. OnDisk(s, r)' \/ InQueue(s, r)' => r.n < Current(s) \/ (HandedOver(s) /\ r.n = Current(s))
    BY <1>1 DEF OrderInv
  <2>2. IsJudged(s, r)' => r.n < Current(s)
    BY <1>1 DEF OrderInv
  <2>3. r.n \in Nat /\ Onward(s)
    BY RecordFacts
  <2> QED BY <2>1, <2>2, <2>3 DEF Onward
<1> QED BY <1>2, <1>3, <1>4

(* A frame is handed over to the queue.                                     *)
LEMMA OrderOfSubmit ==
    ASSUME TypeOK, TypeOK', ThreadInv, OrderInv, NEW s \in EgoStreams, Submit(s)
    PROVE  OrderInv'
<1> DEFINE r == frame[s].record
<1>0. device = "d435i" /\ device' = device /\ writer' = writer /\ judged' = judged
  BY CallbackFrames DEF Submit, Callback
<1>1. /\ frame[s].at = "write" /\ frame[s] \in Busy /\ r \in Records /\ Source(s) = s /\ Source(s)' = s
  BY <1>0, FrameFacts, BusyFacts DEF Submit, Source
<1>2. \A t \in EgoStreams : Onward(t)
  BY CallbackOnward DEF Callback
<1>3. ~HandedOver(s) /\ Current(s) = r.n
  BY <1>1 DEF HandedOver, Current
<1>4. \A q \in Records : OnDisk(s, q) \/ InQueue(s, q) => q.n < r.n
  BY <1>3 DEF OrderInv
<1>5. CASE UNCHANGED queue
  <2>1. \A t \in EgoStreams : QueueAscends(t)'
    BY <1>5 DEF QueueAscends, OrderInv
  <2>2. \A t \in EgoStreams, q \in Records : InQueue(t, q)' <=> InQueue(t, q)
    BY <1>5, PlacesStay
  <2> QED BY <1>0, <1>2, <2>1, <2>2, OrderQuiet
<1>6. CASE queue' = Append(queue, <<s, r>>) /\ frame'[s].at = "count" /\ frame'[s].record = r
  <2> DEFINE Items == {Sentinel} \cup (EgoStreams \X Records)
             e == <<s, r>>
             p == queue'
  <2>1. e \in Items /\ queue \in Seq(Items) /\ p = Append(queue, e) /\ e[1] = s /\ e[2] = r
    BY <1>1, <1>6 DEF TypeOK
  <2>2. /\ DOMAIN p = 1..Len(queue) + 1 /\ DOMAIN queue = 1..Len(queue) /\ Len(queue) \in Nat
        /\ (\A i \in DOMAIN queue : p[i] = queue[i]) /\ p[Len(queue) + 1] = e
    <3> HIDE DEF Items, e, p, r
    <3> QED BY <2>1, AppendFacts
  <2>3. \A t \in EgoStreams : \A q : InQueue(t, q)' <=> InQueue(t, q) \/ (t = s /\ q = r)
    BY <1>1, <1>6, QueueGrows
  <2>4. HandedOver(s)' /\ Current(s)' = r.n
    BY <1>1, <1>6 DEF HandedOver, Current
  <2>5. ASSUME NEW t \in EgoStreams
        PROVE  /\ DiskAscends(t)' /\ QueueAscends(t)' /\ InOrder(judged[t])'
               /\ \A x, q \in Records : OnDisk(t, x)' /\ InQueue(t, q)' => x.n < q.n
               /\ \A x \in Records : OnDisk(t, x)' \/ InQueue(t, x)' =>
                       x.n < Current(t)' \/ (HandedOver(t)' /\ x.n = Current(t)')
               /\ \A x \in Records : IsJudged(t, x)' => x.n < Current(t)'
    <3> HIDE DEF r, e, p
    <3>1. DiskAscends(t)' /\ InOrder(judged[t])'
      BY <1>0 DEF OrderInv, DiskAscends
    <3>2. \A x : (OnDisk(t, x)' <=> OnDisk(t, x)) /\ (IsJudged(t, x)' <=> IsJudged(t, x))
      BY <1>0, PlacesStay
    <3>3. QueueAscends(t)'
      <4>1. \A i \in DOMAIN queue : queue[i][1] = s => queue[i][2].n < r.n
        BY <1>4, QueueFacts
      <4>2. \A i, j \in DOMAIN queue :
                i < j /\ queue[i][1] = t /\ queue[j][1] = t => queue[i][2].n < queue[j][2].n
        BY DEF OrderInv, QueueAscends
      <4>3. \A i, j \in DOMAIN p : i < j /\ p[i][1] = t /\ p[j][1] = t => p[i][2].n < p[j][2].n
        BY <2>1, <2>2, <4>1, <4>2
      <4> QED BY <4>3 DEF QueueAscends, p
    <3>4. \A x, q \in Records : OnDisk(t, x)' /\ InQueue(t, q)' => x.n < q.n
      BY <1>4, <2>3, <3>2 DEF OrderInv
    <3>5. ASSUME NEW x \in Records
          PROVE  /\ OnDisk(t, x)' \/ InQueue(t, x)' =>
                        x.n < Current(t)' \/ (HandedOver(t)' /\ x.n = Current(t)')
                 /\ IsJudged(t, x)' => x.n < Current(t)'
      <4>1. IsJudged(t, x)' => x.n < Current(t)
        BY <3>2 DEF OrderInv
      <4>2. OnDisk(t, x) \/ InQueue(t, x) => x.n < Current(t) \/ (HandedOver(t) /\ x.n = Current(t))
        BY DEF OrderInv
      <4>3. x.n \in Nat /\ Onward(t)
        BY <1>2, RecordFacts
      <4>4. OnDisk(t, x)' \/ InQueue(t, x)' => OnDisk(t, x) \/ InQueue(t, x) \/ (t = s /\ x = r)
        BY <2>3, <3>2
      <4>5. t = s /\ x = r => HandedOver(t)' /\ x.n = Current(t)'
        BY <2>4
      <4> QED BY <4>1, <4>2, <4>3, <4>4, <4>5 DEF Onward
    <3> QED BY <3>1, <3>3, <3>4, <3>5
  <2> QED BY <2>5, Zenon DEF OrderInv
<1> QED BY <1>5, <1>6, FrameSteps

(* A sample is kept for the verdict, of a frame that is done with.          *)
LEMMA OrderOfCount ==
    ASSUME TypeOK, TypeOK', ThreadInv, OrderInv, NEW s \in EgoStreams, Count(s)
    PROVE  OrderInv'
<1> DEFINE r == frame[s].record
<1>0. device = "d435i" /\ device' = device /\ writer' = writer /\ queue' = queue
  BY CallbackFrames DEF Count, Callback, ThreadInv, threadVars
<1>1. /\ frame[s].at = "count" /\ frame[s] \in Busy /\ r \in Records /\ Source(s) = s /\ Source(s)' = s
      /\ frame'[s] = Idle /\ next'[s] = next[s] /\ r.n < next[s]
  BY <1>0, FrameFacts, BusyFacts, FrameSteps DEF Count, Source, ThreadInv
<1>2. \A t \in EgoStreams : Onward(t)
  BY CallbackOnward DEF Callback
<1>3. Current(s) = r.n /\ Current(s)' = next[s]
  BY <1>1 DEF Current, Idle
<1>4. \A t \in EgoStreams : QueueAscends(t)'
  BY <1>0 DEF QueueAscends, OrderInv
<1>5. \A t \in EgoStreams, q \in Records : InQueue(t, q)' <=> InQueue(t, q)
  BY <1>0, PlacesStay
<1>6. CASE judged' = judged
  BY <1>0, <1>2, <1>4, <1>5, <1>6, OrderQuiet
<1>7. CASE judged' = [judged EXCEPT ![s] = Append(@, r)]
  <2>1. judged'[s] = Append(judged[s], r) /\ \A t \in EgoStreams : t # s => judged'[t] = judged[t]
    BY <1>7 DEF TypeOK
  <2>2. ASSUME NEW t \in EgoStreams
        PROVE  /\ DiskAscends(t)' /\ QueueAscends(t)' /\ InOrder(judged[t])'
               /\ \A x, q \in Records : OnDisk(t, x)' /\ InQueue(t, q)' => x.n < q.n
               /\ \A x \in Records : OnDisk(t, x)' \/ InQueue(t, x)' =>
                       x.n < Current(t)' \/ (HandedOver(t)' /\ x.n = Current(t)')
               /\ \A x \in Records : IsJudged(t, x)' => x.n < Current(t)'
    <3> HIDE DEF r
    <3>1. DiskAscends(t)' /\ \A x : OnDisk(t, x)' <=> OnDisk(t, x)
      BY <1>0, PlacesStay DEF OrderInv, DiskAscends
    <3>2. InOrder(judged[t])'
      <4>1. CASE t # s
        BY <2>1, <4>1 DEF OrderInv, InOrder
      <4>2. CASE t = s
        <5> DEFINE a == judged[s]
                   b == judged'[s]
        <5>1. /\ DOMAIN b = 1..Len(a) + 1 /\ DOMAIN a = 1..Len(a) /\ Len(a) \in Nat
              /\ (\A i \in DOMAIN a : b[i] = a[i]) /\ b[Len(a) + 1] = r
          BY <1>1, <2>1, JudgedGrows
        <5>2. \A i \in DOMAIN a : a[i].n < r.n
          BY <1>3, RowFacts DEF OrderInv
        <5>3. \A i, j \in DOMAIN a : i < j => a[i].n < a[j].n
          BY DEF OrderInv, InOrder
        <5> HIDE DEF a, b
        <5>4. \A i, j \in DOMAIN b : i < j => b[i].n < b[j].n
          BY <5>1, <5>2, <5>3
        <5> QED BY <4>2, <5>4 DEF InOrder, b
      <4> QED BY <4>1, <4>2
    <3>3. \A x, q \in Records : OnDisk(t, x)' /\ InQueue(t, q)' => x.n < q.n
      BY <1>5, <3>1 DEF OrderInv
    <3>4. ASSUME NEW x \in Records
          PROVE  /\ OnDisk(t, x)' \/ InQueue(t, x)' =>
                        x.n < Current(t)' \/ (HandedOver(t)' /\ x.n = Current(t)')
                 /\ IsJudged(t, x)' => x.n < Current(t)'
      <4>1. IsJudged(t, x)' => IsJudged(t, x) \/ (t = s /\ x = r)
        <5>1. CASE t = s
          BY <1>1, <2>1, <5>1, JudgedGrows
        <5>2. CASE t # s
          BY <2>1, <5>2 DEF IsJudged
        <5> QED BY <5>1, <5>2
      <4>2. /\ OnDisk(t, x)' \/ InQueue(t, x)' => x.n < Current(t) \/ (HandedOver(t) /\ x.n = Current(t))
            /\ IsJudged(t, x) => x.n < Current(t)
        BY <1>5, <3>1 DEF OrderInv
      <4>3. x.n \in Nat /\ Onward(t)
        BY <1>2, RecordFacts
      <4>4. t = s /\ x = r => x.n < Current(t)'
        BY <1>1, <1>3
      <4> QED BY <4>1, <4>2, <4>3, <4>4 DEF Onward
    <3> QED BY <1>4, <3>1, <3>2, <3>3, <3>4
  <2> QED BY <2>2, Zenon DEF OrderInv
<1> QED BY <1>6, <1>7 DEF Count

(* A record is written: it is later than what its file holds.               *)
LEMMA OrderOfAppend ==
    ASSUME TypeOK, TypeOK', OrderInv, \A t \in EgoStreams : Onward(t),
           NEW s \in EgoStreams, NEW r \in Records, NEW o \in AppendOutcomes(writer, s, r),
           writer' = o.writer, o.error = None,
           \A q \in Records : OnDisk(s, q) => q.n < r.n,
           r.n < Current(s)' \/ (HandedOver(s)' /\ r.n = Current(s)'),
           \A t \in EgoStreams : QueueAscends(t)' /\ InOrder(judged[t])',
           \A t \in EgoStreams, q \in Records : InQueue(t, q)' => InQueue(t, q),
           \A q \in Records : InQueue(s, q)' => r.n < q.n,
           \A t \in EgoStreams, q \in Records : IsJudged(t, q)' => IsJudged(t, q) \/ q.n < Current(t)'
    PROVE  OrderInv'
<1>1. \A t \in EgoStreams, q \in Records : OnDisk(t, q)' => OnDisk(t, q) \/ (t = s /\ q = r)
  BY DiskGrows, StreamFacts
<1>2. \A t \in EgoStreams : DiskAscends(t)
  BY DEF OrderInv
<1>3. \A t \in EgoStreams : DiskAscends(t)'
  BY <1>2, DiskAscendsOn
<1>4. ASSUME NEW t \in EgoStreams
      PROVE  /\ DiskAscends(t)' /\ QueueAscends(t)' /\ InOrder(judged[t])'
             /\ \A x, q \in Records : OnDisk(t, x)' /\ InQueue(t, q)' => x.n < q.n
             /\ \A x \in Records : OnDisk(t, x)' \/ InQueue(t, x)' =>
                     x.n < Current(t)' \/ (HandedOver(t)' /\ x.n = Current(t)')
             /\ \A x \in Records : IsJudged(t, x)' => x.n < Current(t)'
  <2>1. \A x, q \in Records : OnDisk(t, x)' /\ InQueue(t, q)' => x.n < q.n
    BY <1>1 DEF OrderInv
  <2>2. ASSUME NEW x \in Records
        PROVE  /\ OnDisk(t, x)' \/ InQueue(t, x)' =>
                      x.n < Current(t)' \/ (HandedOver(t)' /\ x.n = Current(t)')
               /\ IsJudged(t, x)' => x.n < Current(t)'
    <3>1. x.n \in Nat /\ Onward(t)
      BY RecordFacts
    <3>2. /\ OnDisk(t, x) \/ InQueue(t, x) => x.n < Current(t) \/ (HandedOver(t) /\ x.n = Current(t))
          /\ IsJudged(t, x) => x.n < Current(t)
      BY DEF OrderInv
    <3>3. /\ OnDisk(t, x)' \/ InQueue(t, x)' => OnDisk(t, x) \/ InQueue(t, x) \/ (t = s /\ x = r)
          /\ IsJudged(t, x)' => IsJudged(t, x) \/ x.n < Current(t)'
      BY <1>1
    <3> QED BY <3>1, <3>2, <3>3 DEF Onward
  <2> QED BY <1>3, <2>1, <2>2
<1> QED BY <1>4, Zenon DEF OrderInv

(* The 2UQ2 writes the video record, and then the XU record.                *)
LEMMA OrderOfTwoUQ2 ==
    ASSUME TypeOK, TypeOK', ThreadInv, OrderInv, NEW s \in EgoStreams, AppendVideo(s) \/ AppendXu(s)
    PROVE  OrderInv'
<1> DEFINE r == frame[s].record
<1>0. /\ s = Video /\ device = "2uq2" /\ device' = device /\ queue = <<>> /\ queue' = queue
      /\ frame[s].at \in {"write", "xu"} /\ next'[s] = next[s]
  BY CallbackFrames, FrameSteps DEF AppendVideo, AppendXu, Callback, ThreadInv
<1>1. frame[s] \in Busy /\ r \in Records /\ r.n < next[s] /\ next[s] \in Nat /\ r.n \in Nat
  BY <1>0, FrameFacts, BusyFacts, RecordFacts DEF ThreadInv, TypeOK
<1>2. \A t \in EgoStreams : Onward(t)
  BY CallbackOnward DEF Callback
<1>3. \A t \in EgoStreams : Source(t) = s /\ Source(t)' = s /\ Current(t) = r.n
  BY <1>0 DEF Source, Current
<1>4. \A t \in EgoStreams, q \in Records : ~InQueue(t, q) /\ ~InQueue(t, q)'
  <2>1. DOMAIN queue = {} /\ DOMAIN queue' = {}
    BY <1>0
  <2> QED BY <2>1 DEF InQueue
<1>5. \A t \in EgoStreams : QueueAscends(t)'
  BY <1>0 DEF OrderInv, QueueAscends
<1>6. Video \in EgoStreams /\ Xu \in EgoStreams /\ Xu # Video
  BY StreamFacts
<1>7. ASSUME writer'.rows = writer.rows, judged' = judged
      PROVE  OrderInv'
  BY <1>2, <1>4, <1>5, <1>7, OrderQuiet
<1> HIDE DEF r
<1>8. CASE AppendVideo(s)
  <2>1. PICK o \in AppendOutcomes(writer, Video, r) :
               /\ writer' = o.writer /\ UNCHANGED judged
               /\ o.error = None => frame' = [frame EXCEPT ![s].at = "xu"]
    BY <1>8, VideoAppended DEF r
  <2>2. CASE o.error # None
    <3>1. writer'.rows = writer.rows
      BY <1>1, <2>1, <2>2, DiskStays, StreamFacts
    <3> QED BY <1>7, <2>1, <3>1
  <2>3. CASE o.error = None
    <3>1. frame'[s] = [frame[s] EXCEPT !.at = "xu"]
      BY <2>1, <2>3 DEF TypeOK
    <3>2. frame'[s].at = "xu" /\ frame'[s].record = r
      BY <1>1, <3>1, BusyFacts DEF r
    <3>3. HandedOver(Video)' /\ Current(Video)' = r.n
      BY <1>0, <1>3, <1>6, <3>2 DEF HandedOver, Current
    <3>4. ~HandedOver(Video)
      <4>1. frame[s].at = "write"
        BY <1>8 DEF AppendVideo
      <4> QED BY <1>3, <1>6, <4>1 DEF HandedOver
    <3>5. \A q \in Records : OnDisk(Video, q) => q.n < r.n
      BY <1>3, <1>6, <3>4 DEF OrderInv
    <3>6. \A t \in EgoStreams : InOrder(judged[t])'
      BY <2>1 DEF OrderInv
    <3>7. \A t \in EgoStreams, q \in Records : IsJudged(t, q)' => IsJudged(t, q)
      BY <2>1, PlacesStay
    <3> QED BY <1>1, <1>2, <1>4, <1>5, <1>6, <2>1, <2>3, <3>3, <3>5, <3>6, <3>7, OrderOfAppend
  <2> QED BY <2>2, <2>3
<1>9. CASE AppendXu(s)
  <2>1. PICK o \in AppendOutcomes(writer, Xu, r) :
               /\ writer' = o.writer /\ frame' = [frame EXCEPT ![s] = Idle]
               /\ o.error = None =>
                     judged' = IF frame[s].observed THEN [t \in EgoStreams |-> Append(judged[t], r)] ELSE judged
               /\ o.error # None => UNCHANGED judged
    BY <1>9, XuAppended DEF r
  <2>2. CASE o.error # None
    <3>1. writer'.rows = writer.rows
      BY <1>1, <2>1, <2>2, DiskStays, StreamFacts
    <3> QED BY <1>7, <2>1, <2>2, <3>1
  <2>3. CASE o.error = None
    <3>1. frame'[s] = Idle
      BY <2>1 DEF TypeOK
    <3>2. \A t \in EgoStreams : Current(t)' = next[s]
      BY <1>0, <1>3, <3>1 DEF Current, Idle
    <3>3. ~HandedOver(Xu)
      <4>1. frame[s].at = "xu"
        BY <1>9 DEF AppendXu
      <4> QED BY <1>3, <1>6, <4>1 DEF HandedOver
    <3>4. \A q \in Records : OnDisk(Xu, q) => q.n < r.n
      BY <1>3, <1>6, <3>3 DEF OrderInv
    <3>5. \A t \in EgoStreams, q \in Records : IsJudged(t, q) => q.n < r.n
      BY <1>3 DEF OrderInv
    <3>6. ASSUME NEW t \in EgoStreams
          PROVE  InOrder(judged[t])' /\ \A q \in Records : IsJudged(t, q)' => IsJudged(t, q) \/ q = r
      <4>1. CASE judged' = judged
        BY <4>1, PlacesStay DEF OrderInv
      <4>2. CASE judged'[t] = Append(judged[t], r)
        <5> DEFINE a == judged[t]
                   b == judged'[t]
        <5>1. /\ DOMAIN b = 1..Len(a) + 1 /\ DOMAIN a = 1..Len(a) /\ Len(a) \in Nat
              /\ (\A i \in DOMAIN a : b[i] = a[i]) /\ b[Len(a) + 1] = r
          BY <1>1, <4>2, JudgedGrows
        <5>2. \A i \in DOMAIN a : a[i].n < r.n
          BY <3>5, RowFacts
        <5>3. \A i, j \in DOMAIN a : i < j => a[i].n < a[j].n
          BY DEF OrderInv, InOrder
        <5>4. \A q : IsJudged(t, q)' => IsJudged(t, q) \/ q = r
          BY <1>1, <4>2, JudgedGrows
        <5> HIDE DEF a, b
        <5>5. \A i, j \in DOMAIN b : i < j => b[i].n < b[j].n
          BY <5>1, <5>2, <5>3
        <5> QED BY <5>4, <5>5 DEF InOrder, b
      <4>3. judged' = judged \/ judged'[t] = Append(judged[t], r)
        BY <2>1, <2>3
      <4> QED BY <4>1, <4>2, <4>3
    <3>7. r.n < Current(Xu)'
      BY <1>1, <1>6, <3>2
    <3>8. \A t \in EgoStreams, q \in Records : IsJudged(t, q)' => IsJudged(t, q) \/ q.n < Current(t)'
      BY <1>1, <3>2, <3>6
    <3> QED BY <1>1, <1>2, <1>4, <1>5, <1>6, <2>1, <2>3, <3>4, <3>6, <3>7, <3>8, OrderOfAppend
  <2> QED BY <2>2, <2>3
<1> QED BY <1>8, <1>9

(* The writer thread writes the head of the queue, or drops it.             *)
LEMMA OrderOfWriter ==
    ASSUME TypeOK, TypeOK', ThreadInv, OrderInv, WriterTakes
    PROVE  OrderInv'
<1> DEFINE Items == {Sentinel} \cup (EgoStreams \X Records)
           h == Head(queue)
           p == queue'
<1>0. queue # <<>> /\ p = Tail(queue) /\ UNCHANGED <<device, frame, next, judged>> /\ queue \in Seq(Items)
  BY DEF WriterTakes, callbackVars, TypeOK
<1>1. /\ h = queue[1] /\ h \in Items /\ 1 \in DOMAIN queue
      /\ DOMAIN queue = 1..Len(queue) /\ DOMAIN p = 1..Len(queue) - 1 /\ Len(queue) \in Nat \ {0}
      /\ \A i \in DOMAIN p : i + 1 \in DOMAIN queue /\ p[i] = queue[i + 1]
  <2> HIDE DEF Items
  <2> QED BY <1>0, TailFacts
<1>2. \A t \in EgoStreams : Onward(t)
  <2> SUFFICES ASSUME NEW t \in EgoStreams
               PROVE  Onward(t)
    OBVIOUS
  <2>1. /\ Current(t)' = Current(t) /\ (HandedOver(t)' <=> HandedOver(t)) /\ Source(t) \in EgoStreams
    BY <1>0, SourceFacts DEF Current, HandedOver, Source
  <2>2. Current(t) \in Nat
    <3>1. frame[Source(t)] \in {Idle} \cup Entries \cup Busy /\ next[Source(t)] \in Nat
      BY <2>1 DEF TypeOK
    <3> QED BY <3>1 DEF Current, Idle, Entries, Busy, Records
  <2> QED BY <2>1, <2>2 DEF Onward
<1>3. \A t \in EgoStreams : QueueAscends(t)'
  <2> SUFFICES ASSUME NEW t \in EgoStreams
               PROVE  QueueAscends(t)'
    OBVIOUS
  <2>1. \A i, j \in DOMAIN queue : i < j /\ queue[i][1] = t /\ queue[j][1] = t => queue[i][2].n < queue[j][2].n
    BY DEF OrderInv, QueueAscends
  <2> HIDE DEF p
  <2>2. \A i, j \in DOMAIN p : i < j /\ p[i][1] = t /\ p[j][1] = t => p[i][2].n < p[j][2].n
    BY <1>1, <2>1
  <2> QED BY <2>2 DEF QueueAscends, p
<1>4. \A t \in EgoStreams, q \in Records : InQueue(t, q) <=> InQueue(t, q)' \/ h = <<t, q>>
  BY <1>0, QueueShrinks
<1>5. \A t \in EgoStreams : InOrder(judged[t])' /\ \A q : IsJudged(t, q)' <=> IsJudged(t, q)
  BY <1>0, PlacesStay DEF OrderInv
<1>6. ASSUME writer'.rows = writer.rows
      PROVE  OrderInv'
  <2>1. ASSUME NEW t \in EgoStreams
        PROVE  /\ DiskAscends(t)' /\ QueueAscends(t)' /\ InOrder(judged[t])'
               /\ \A x, q \in Records : OnDisk(t, x)' /\ InQueue(t, q)' => x.n < q.n
               /\ \A x \in Records : OnDisk(t, x)' \/ InQueue(t, x)' =>
                       x.n < Current(t)' \/ (HandedOver(t)' /\ x.n = Current(t)')
               /\ \A x \in Records : IsJudged(t, x)' => x.n < Current(t)'
    <3>1. DiskAscends(t)' /\ \A x : OnDisk(t, x)' <=> OnDisk(t, x)
      BY <1>6, PlacesStay DEF OrderInv, DiskAscends
    <3>2. \A x, q \in Records : OnDisk(t, x)' /\ InQueue(t, q)' => x.n < q.n
      BY <1>4, <3>1 DEF OrderInv
    <3>3. Current(t)' = Current(t) /\ (HandedOver(t)' <=> HandedOver(t))
      BY <1>0 DEF Current, HandedOver, Source
    <3>4. \A x \in Records : OnDisk(t, x)' \/ InQueue(t, x)' =>
                       x.n < Current(t)' \/ (HandedOver(t)' /\ x.n = Current(t)')
      BY <1>4, <3>1, <3>3 DEF OrderInv
    <3>5. \A x \in Records : IsJudged(t, x)' => x.n < Current(t)'
      BY <1>5, <3>3 DEF OrderInv
    <3> QED BY <1>3, <1>5, <3>1, <3>2, <3>4, <3>5
  <2> QED BY <2>1, Zenon DEF OrderInv
<1>7. CASE h = Sentinel \/ storageFailed
  <2>1. writer' = writer
    BY <1>7 DEF WriterTakes
  <2> QED BY <1>6, <2>1
<1>8. CASE h # Sentinel /\ ~storageFailed
  <2>0. h[1] \in EgoStreams /\ h[2] \in Records /\ h = <<h[1], h[2]>>
    BY <1>1, <1>8, ItemFacts
  <2>1. PICK s \in EgoStreams, r \in Records : h = <<s, r>>
    BY <2>0
  <2>2. PICK o \in AppendOutcomes(writer, s, r) : writer' = o.writer
    BY <1>8, <2>1, WriterTook
  <2>3. CASE o.error # None
    <3>1. writer'.rows = writer.rows
      BY <2>1, <2>2, <2>3, DiskStays, StreamFacts
    <3> QED BY <1>6, <3>1
  <2>4. CASE o.error = None
    <3>1. InQueue(s, r)
      BY <1>4, <2>1
    <3>2. \A q \in Records : OnDisk(s, q) => q.n < r.n
      BY <2>1, <3>1 DEF OrderInv
    <3>3. r.n < Current(s)' \/ (HandedOver(s)' /\ r.n = Current(s)')
      <4>1. Current(s)' = Current(s) /\ (HandedOver(s)' <=> HandedOver(s))
        BY <1>0 DEF Current, HandedOver, Source
      <4> QED BY <2>1, <3>1, <4>1 DEF OrderInv
    <3>4. ASSUME NEW q \in Records, InQueue(s, q)'
          PROVE  r.n < q.n
      <4>1. PICK i \in DOMAIN p : p[i] = <<s, q>>
        BY <3>4 DEF InQueue
      <4>2. queue[i + 1] = <<s, q>> /\ i + 1 \in DOMAIN queue /\ 1 < i + 1
        BY <1>1, <4>1
      <4>3. queue[1][1] = s /\ queue[1][2] = r /\ queue[i + 1][1] = s /\ queue[i + 1][2] = q
        BY <1>1, <2>1, <4>2
      <4> QED BY <1>1, <2>1, <4>2, <4>3 DEF OrderInv, QueueAscends
    <3> QED BY <1>2, <1>3, <1>4, <1>5, <2>1, <2>2, <2>4, <3>2, <3>3, <3>4, OrderOfAppend
  <2> QED BY <2>3, <2>4
<1> QED BY <1>7, <1>8

(* The order is kept.                                                       *)
LEMMA OrderKept ==
    ASSUME TypeOK, TypeOK', ThreadInv, FileInv, OrderInv, [Next]_vars
    PROVE  OrderInv'
<1>1. ASSUME NEW s \in EgoStreams, Acquire(s) \/ Classify(s)
      PROVE  OrderInv'
  <2>1. writer' = writer /\ judged' = judged /\ queue' = queue
    BY <1>1 DEF Acquire, Classify, threadVars
  <2>2. \A t \in EgoStreams : Onward(t)
    BY <1>1, CallbackOnward DEF Callback
  <2>3. \A t \in EgoStreams : QueueAscends(t)'
    BY <2>1 DEF OrderInv, QueueAscends
  <2>4. \A t \in EgoStreams, r \in Records : InQueue(t, r)' <=> InQueue(t, r)
    BY <2>1, PlacesStay
  <2> QED BY <2>1, <2>2, <2>3, <2>4, OrderQuiet
<1>2. CASE Elsewhere
  <2>1. /\ UNCHANGED <<device, frame, next, judged>> /\ writer'.rows = writer.rows
        /\ queue' = queue \/ queue' = Append(queue, Sentinel)
    BY <1>2, ElsewhereFrames
  <2>2. ASSUME NEW t \in EgoStreams
        PROVE  Onward(t) /\ QueueAscends(t)' /\ \A r \in Records : InQueue(t, r)' <=> InQueue(t, r)
    <3>1. Current(t)' = Current(t) /\ (HandedOver(t)' <=> HandedOver(t)) /\ Source(t) \in EgoStreams
      BY <2>1, SourceFacts DEF Current, HandedOver, Source
    <3>2. Current(t) \in Nat
      <4>1. frame[Source(t)] \in {Idle} \cup Entries \cup Busy /\ next[Source(t)] \in Nat
        BY <3>1 DEF TypeOK
      <4> QED BY <4>1 DEF Current, Idle, Entries, Busy, Records
    <3>3. CASE queue' = queue
      <4>1. QueueAscends(t)' /\ \A r \in Records : InQueue(t, r)' <=> InQueue(t, r)
        BY <3>3, PlacesStay DEF OrderInv, QueueAscends
      <4> QED BY <3>1, <3>2, <4>1 DEF Onward
    <3>4. CASE queue' = Append(queue, Sentinel)
      <4> DEFINE Items == {Sentinel} \cup (EgoStreams \X Records)
                 p == queue'
      <4>1. \A r \in Records : InQueue(t, r)' <=> InQueue(t, r)
        BY <3>4, QueueSentinel
      <4>2. p = Append(queue, Sentinel) /\ queue \in Seq(Items) /\ Sentinel \in Items /\ Sentinel[1] # t
        BY <3>4, ItemFacts, StreamFacts DEF TypeOK
      <4> HIDE DEF Items, p
      <4>3. /\ DOMAIN p = 1..Len(queue) + 1 /\ DOMAIN queue = 1..Len(queue) /\ Len(queue) \in Nat
            /\ (\A i \in DOMAIN queue : p[i] = queue[i]) /\ p[Len(queue) + 1] = Sentinel
        BY <4>2, AppendFacts
      <4>4. \A i, j \in DOMAIN queue :
                i < j /\ queue[i][1] = t /\ queue[j][1] = t => queue[i][2].n < queue[j][2].n
        BY DEF OrderInv, QueueAscends
      <4>5. \A i, j \in DOMAIN p : i < j /\ p[i][1] = t /\ p[j][1] = t => p[i][2].n < p[j][2].n
        BY <4>2, <4>3, <4>4
      <4>6. QueueAscends(t)'
        BY <4>5 DEF QueueAscends, p
      <4> QED BY <3>1, <3>2, <4>1, <4>6 DEF Onward
    <3> QED BY <2>1, <3>3, <3>4
  <2> QED BY <2>1, <2>2, OrderQuiet
<1> QED BY <1>1, <1>2, OrderOfSubmit, OrderOfCount, OrderOfTwoUQ2, OrderOfWriter DEF Next, Callback, Elsewhere

-----------------------------------------------------------------------------
(* The files.                                                               *)

(* An append adds to the files, and never to one that is closed.            *)
LEMMA FilesOfAppend ==
    ASSUME TypeOK, TypeOK', FileInv, NEW s \in EgoStreams, NEW r \in Records,
           NEW o \in AppendOutcomes(writer, s, r), writer' = o.writer, UNCHANGED mpc
    PROVE  FileInv'
<1>0. s \in Streams /\ writer \in Writers(Records) /\ writer' \in Writers(Records)
  BY StreamFacts DEF TypeOK
<1>1. /\ o.writer.state = writer.state /\ o.writer.closed = writer.closed
      /\ o.writer.manifest = writer.manifest /\ o.writer.hashed = writer.hashed
      /\ o.writer.payload[s] = writer.payload[s] \/ o.writer.payload[s] = Append(writer.payload[s], r)
      /\ o.writer.payload[s] # writer.payload[s] => writer.state = "active" /\ s \notin writer.closed
      /\ o.error # None => o.writer.rows = writer.rows
      /\ o.error = None =>
             /\ writer.state = "active" /\ s \notin writer.closed
             /\ o.writer.payload[s] = Append(writer.payload[s], r)
             /\ o.writer.rows[s] = Append(writer.rows[s], Row(r, Len(writer.payload[s])))
  BY <1>0, Appended
<1>2. \A t \in Streams : t # s => writer'.payload[t] = writer.payload[t] /\ writer'.rows[t] = writer.rows[t]
  BY <1>0, AppendedElsewhere
<1>3. writer.payload[s] \in Seq(Records) /\ writer.rows[s] \in Seq(Index(Records))
  BY <1>0, WriterFacts
<1>4. ASSUME NEW t \in Streams, NEW i \in DOMAIN writer'.rows[t]
      PROVE  /\ writer'.rows[t][i].offset < Len(writer'.payload[t])
             /\ writer'.payload[t][writer'.rows[t][i].offset + 1] = writer'.rows[t][i].record
  <2>1. CASE t # s
    BY <1>2, <1>4, <2>1 DEF FileInv
  <2>2. CASE t = s
    <3> DEFINE p == writer.payload[s]
               q == writer'.payload[s]
               a == writer.rows[s]
               b == writer'.rows[s]
               e == Row(r, Len(p))
    <3>1. p \in Seq(Records) /\ a \in Seq(Index(Records)) /\ (q = p \/ q = Append(p, r))
          /\ (b = a \/ (b = Append(a, e) /\ q = Append(p, r)))
      <4>1. CASE o.error = None
        BY <1>1, <1>3, <4>1
      <4>2. CASE o.error # None
        BY <1>1, <1>3, <4>2
      <4> QED BY <4>1, <4>2
    <3>2. \A j \in DOMAIN a : a[j].offset < Len(p) /\ p[a[j].offset + 1] = a[j].record
      BY <1>0 DEF FileInv
    <3>3. \A j \in DOMAIN a : a[j].offset \in Nat
      <4>1. \A j \in DOMAIN a : a[j] \in Index(Records)
        BY <3>1, ElementOfSeq, LenProperties
      <4> QED BY <4>1 DEF Index
    <3>4. e \in Index(Records) /\ e.record = r /\ e.offset = Len(p) /\ Len(p) \in Nat
      BY <3>1, LenProperties DEF Index, Row
    <3>5. i \in DOMAIN b
      BY <2>2
    <3> HIDE DEF p, q, a, b, e
    <3>6. \/ q = p
          \/ /\ Len(q) = Len(p) + 1 /\ DOMAIN p = 1..Len(p) /\ q[Len(p) + 1] = r
             /\ \A k \in DOMAIN p : q[k] = p[k]
      BY <3>1, AppendFacts
    <3>7. \A j \in DOMAIN a : a[j].offset < Len(q) /\ q[a[j].offset + 1] = a[j].record
      BY <3>2, <3>3, <3>4, <3>6
    <3>8. CASE b = a
      BY <2>2, <3>5, <3>7, <3>8 DEF q, b
    <3>9. CASE b = Append(a, e) /\ q = Append(p, r)
      <4>1. /\ DOMAIN b = 1..Len(a) + 1 /\ DOMAIN a = 1..Len(a) /\ Len(a) \in Nat
            /\ (\A j \in DOMAIN a : b[j] = a[j]) /\ b[Len(a) + 1] = e
        BY <3>1, <3>4, <3>9, AppendFacts
      <4>2. Len(q) = Len(p) + 1 /\ q[Len(p) + 1] = r
        BY <3>1, <3>9, AppendFacts
      <4>3. b[i].offset < Len(q) /\ q[b[i].offset + 1] = b[i].record
        <5>1. CASE i \in DOMAIN a
          BY <3>7, <4>1, <5>1
        <5>2. CASE i = Len(a) + 1
          BY <3>4, <4>1, <4>2, <5>2
        <5> QED BY <3>5, <4>1, <5>1, <5>2
      <4> QED BY <2>2, <4>3 DEF q, b
    <3> QED BY <3>1, <3>8, <3>9
  <2> QED BY <2>1, <2>2
<1>5. Hashed(writer')
  <2> SUFFICES ASSUME NEW t \in Streams,
                      t \in writer'.manifest \/ (t \in writer'.closed /\ writer'.state = "active")
               PROVE  t \in writer'.closed /\ writer'.hashed[t] = <<writer'.payload[t], writer'.rows[t]>>
    BY DEF Hashed
  <2>1. t \in writer.closed /\ writer.hashed[t] = <<writer.payload[t], writer.rows[t]>>
    BY <1>1 DEF FileInv, Hashed
  <2>2. CASE t # s
    BY <1>1, <1>2, <2>1, <2>2
  <2>3. CASE t = s
    <3>1. o.error # None /\ o.writer.payload[s] = writer.payload[s]
      BY <1>1, <2>1, <2>3
    <3> QED BY <1>1, <2>1, <2>3, <3>1
  <2> QED BY <2>2, <2>3
<1>6. mpc' \notin {"judge", "exit"} => writer'.state = "active"
  BY <1>1 DEF FileInv
<1>7. \A t \in Streams \ EgoStreams : writer'.payload[t] = <<>>
  BY <1>2 DEF FileInv
<1> QED BY <1>4, <1>5, <1>6, <1>7 DEF FileInv

(* The files stay sound.                                                    *)
LEMMA FilesKept ==
    ASSUME TypeOK, TypeOK', ThreadInv, FileInv, [Next]_vars
    PROVE  FileInv'
<1>1. ASSUME UNCHANGED writer, mpc' \notin {"judge", "exit"} => mpc \notin {"judge", "exit"}
      PROVE  FileInv'
  BY <1>1 DEF FileInv, Hashed
<1>2. ASSUME NEW s \in EgoStreams, Callback(s)
      PROVE  FileInv'
  <2>0. mpc' = mpc
    BY <1>2, CallbackFrames DEF mainVars
  <2>1. CASE Acquire(s) \/ Classify(s) \/ Submit(s) \/ Count(s)
    BY <1>1, <2>0, <2>1 DEF Acquire, Classify, Submit, Count
  <2>2. CASE AppendVideo(s)
    <3>1. frame[s].record \in Records
      BY <2>2, FrameFacts, BusyFacts DEF AppendVideo
    <3>2. PICK o \in AppendOutcomes(writer, Video, frame[s].record) : writer' = o.writer
      BY <2>2, VideoAppended
    <3> QED BY <2>0, <3>1, <3>2, FilesOfAppend, StreamFacts
  <2>3. CASE AppendXu(s)
    <3>1. frame[s].record \in Records
      BY <2>3, FrameFacts, BusyFacts DEF AppendXu
    <3>2. PICK o \in AppendOutcomes(writer, Xu, frame[s].record) : writer' = o.writer
      BY <2>3, XuAppended
    <3> QED BY <2>0, <3>1, <3>2, FilesOfAppend, StreamFacts
  <2> QED BY <1>2, <2>1, <2>2, <2>3 DEF Callback
<1>3. CASE WriterTakes
  <2>0. mpc' = mpc
    BY <1>3 DEF WriterTakes, mainVars
  <2>1. CASE UNCHANGED writer
    BY <1>1, <2>0, <2>1
  <2>2. ASSUME Head(queue) # Sentinel, NEW o \in AppendOutcomes(writer, Head(queue)[1], Head(queue)[2]),
               writer' = o.writer
        PROVE  FileInv'
    <3>1. queue \in Seq({Sentinel} \cup (EgoStreams \X Records)) /\ queue # <<>>
      BY <1>3 DEF WriterTakes, TypeOK
    <3>2. Head(queue) \in {Sentinel} \cup (EgoStreams \X Records)
      BY <3>1, TailFacts
    <3>3. Head(queue)[1] \in EgoStreams /\ Head(queue)[2] \in Records
      BY <2>2, <3>2, ItemFacts
    <3> QED BY <2>0, <2>2, <3>3, FilesOfAppend
  <2> QED BY <1>3, <2>1, <2>2, WriterTook
<1>4. CASE CloseWriter
  <2>1. CloseStep
    BY <1>4, WriterCloses
  <2> QED BY <2>1 DEF CloseStep, FileInv
<1>5. CASE StartPasses \/ ReadStart \/ EndWindow \/ GiveUp \/ StopSource \/ PutSentinel \/ JoinWriter \/ Judge
  <2>1. writer' = writer /\ (mpc' \notin {"judge", "exit"} => mpc \notin {"judge", "exit"})
    BY <1>5 DEF StartPasses, ReadStart, EndWindow, GiveUp, StopSource, PutSentinel, JoinWriter, Judge
  <2> QED BY <1>1, <2>1
<1>6. CASE UNCHANGED vars
  BY <1>1, <1>6 DEF vars, mainVars
<1> QED BY <1>2, <1>3, <1>4, <1>5, <1>6 DEF Next, Main

-----------------------------------------------------------------------------
(* The classification.                                                      *)

(* An append adds at most its record to the payloads.                       *)
LEMMA PayloadGrows ==
    ASSUME TypeOK, NEW s \in EgoStreams, NEW r \in Records, NEW o \in AppendOutcomes(writer, s, r),
           writer' = o.writer, NEW t \in EgoStreams, NEW q, InPayload(t, q)'
    PROVE  InPayload(t, q) \/ q = r
<1>0. s \in Streams /\ t \in Streams /\ writer \in Writers(Records)
  BY StreamFacts DEF TypeOK
<1>1. CASE t # s
  <2>1. writer'.payload[t] = writer.payload[t]
    BY <1>0, <1>1, AppendedElsewhere
  <2> QED BY <2>1 DEF InPayload
<1>2. CASE t = s
  <2> DEFINE a == writer.payload[s]
             b == writer'.payload[s]
  <2>1. a \in Seq(Records) /\ (b = a \/ b = Append(a, r))
    <3>1. o.writer.payload[s] = writer.payload[s] \/ o.writer.payload[s] = Append(writer.payload[s], r)
      BY <1>0, Appended
    <3> QED BY <1>0, <3>1, WriterFacts
  <2>2. PICK i \in DOMAIN b : b[i] = q
    BY <1>2 DEF InPayload
  <2> HIDE DEF a, b
  <2>3. CASE b = a
    BY <1>2, <2>2, <2>3 DEF InPayload, a
  <2>4. CASE b = Append(a, r)
    <3>1. /\ DOMAIN b = 1..Len(a) + 1 /\ DOMAIN a = 1..Len(a) /\ Len(a) \in Nat
          /\ (\A j \in DOMAIN a : b[j] = a[j]) /\ b[Len(a) + 1] = r
      BY <2>1, <2>4, AppendFacts
    <3>2. i \in DOMAIN a \/ i = Len(a) + 1
      BY <2>2, <3>1
    <3>3. CASE i \in DOMAIN a
      <4>1. a[i] = q
        BY <2>2, <3>1, <3>3
      <4> QED BY <1>2, <3>3, <4>1 DEF InPayload, a
    <3>4. CASE i = Len(a) + 1
      BY <2>2, <3>1, <3>4
    <3> QED BY <3>2, <3>3, <3>4
  <2> QED BY <2>1, <2>3, <2>4
<1> QED BY <1>1, <1>2

(* A record stays well classified: a start that is read is in the future.   *)
LEMMA StaysClassified ==
    ASSUME NEW r, WellClassified(r), begun => begun', (formalStart' = formalStart) \/ ~begun
    PROVE  WellClassified(r)'
BY DEF WellClassified

(* A step that classifies no record.                                        *)
LEMMA ClassStep ==
    ASSUME ClassInv, begun => begun', (formalStart' = formalStart) \/ ~begun,
           mpc' = "warm" => ~formalStart',
           \A s \in EgoStreams, r \in Records :
               InPayload(s, r)' \/ InQueue(s, r)' =>
                   \E t \in EgoStreams : \/ InPayload(t, r) \/ InQueue(t, r)
                                         \/ frame[t].at \in {"write", "count", "xu"} /\ frame[t].record = r,
           \A s \in EgoStreams :
               /\ frame'[s].at = "entry" /\ frame'[s].late => begun' \/ (frame[s].at = "entry" /\ frame[s].late)
               /\ frame'[s].at \in {"write", "count", "xu"} =>
                      /\ frame[s].at \in {"write", "count", "xu"} /\ frame'[s].record = frame[s].record
    PROVE  ClassInv'
<1>1. ASSUME NEW s \in EgoStreams, NEW r \in Records, InPayload(s, r)' \/ InQueue(s, r)'
      PROVE  WellClassified(r)'
  <2>1. PICK t \in EgoStreams : \/ InPayload(t, r) \/ InQueue(t, r)
                                \/ frame[t].at \in {"write", "count", "xu"} /\ frame[t].record = r
    BY <1>1
  <2>2. WellClassified(r)
    BY <2>1 DEF ClassInv
  <2> QED BY <2>2, StaysClassified
<1>2. ASSUME NEW s \in EgoStreams, frame'[s].at = "entry", frame'[s].late
      PROVE  begun'
  BY <1>2 DEF ClassInv
<1>3. ASSUME NEW s \in EgoStreams, frame'[s].at \in {"write", "count", "xu"}
      PROVE  WellClassified(frame[s].record)' 
  <2>1. WellClassified(frame[s].record) /\ frame'[s].record = frame[s].record
    BY <1>3 DEF ClassInv
  <2> DEFINE x == frame[s].record
  <2>2. /\ x.formal => x.timed /\ x.late
        /\ formalStart /\ x.timed /\ x.late => x.formal
        /\ x.late => begun
    BY <2>1 DEF WellClassified
  <2>3. /\ x.formal => x.timed /\ x.late
        /\ formalStart' /\ x.timed /\ x.late => x.formal
        /\ x.late => begun'
    <3> HIDE DEF x
    <3> QED BY <2>2
  <2> QED BY <2>1, <2>3 DEF WellClassified
<1> QED BY <1>1, <1>2, <1>3 DEF ClassInv

(* Records are classified by when their frames were acquired.               *)
LEMMA ClassesKept ==
    ASSUME TypeOK, TypeOK', ThreadInv, FileInv, ClassInv, [Next]_vars
    PROVE  ClassInv'
<1>a. ASSUME NEW s \in EgoStreams, Callback(s)
      PROVE  /\ begun' = begun /\ formalStart' = formalStart /\ mpc' = mpc
             /\ \A t \in EgoStreams : t # s => frame'[t] = frame[t]
  BY <1>a, CallbackFrames DEF mainVars
<1>b. ASSUME NEW s \in EgoStreams, frame[s].at \in {"write", "count", "xu"}
      PROVE  frame[s].record \in Records /\ frame[s] \in Busy
  BY <1>b, FrameFacts, BusyFacts
<1>c. Idle.at = "idle"
  BY DEF Idle
<1>d. \A s, r : UNCHANGED writer.payload => (InPayload(s, r)' <=> InPayload(s, r))
  BY DEF InPayload
<1>1. ASSUME NEW s \in EgoStreams, Acquire(s)
      PROVE  ClassInv'
  <2>1. writer' = writer /\ queue' = queue
    BY <1>1 DEF Acquire, threadVars
  <2>2. \A t, r : (InPayload(t, r)' <=> InPayload(t, r)) /\ (InQueue(t, r)' <=> InQueue(t, r))
    BY <2>1, <1>d, PlacesStay
  <2>3. frame'[s].at = "entry" /\ frame'[s].late = begun
    BY <1>1, FrameSteps
  <2>4. /\ begun' = begun /\ formalStart' = formalStart /\ mpc' = mpc
        /\ \A t \in EgoStreams : t # s => frame'[t] = frame[t]
    BY <1>1, <1>a DEF Callback
  <2> QED BY <2>2, <2>3, <2>4, ClassStep DEF ClassInv
<1>2. ASSUME NEW s \in EgoStreams, Classify(s)
      PROVE  ClassInv'
  <2>1. writer' = writer /\ queue' = queue
    BY <1>2 DEF Classify, threadVars
  <2>2. \A t, r : (InPayload(t, r)' <=> InPayload(t, r)) /\ (InQueue(t, r)' <=> InQueue(t, r))
    BY <2>1, <1>d, PlacesStay
  <2>3. /\ begun' = begun /\ formalStart' = formalStart /\ mpc' = mpc
        /\ \A t \in EgoStreams : t # s => frame'[t] = frame[t]
    BY <1>2, <1>a DEF Callback
  <2>4. frame'[s].at = "write" /\ frame[s].at = "entry"
    BY <1>2, FrameSteps
  <2>5. WellClassified(frame[s].record)'
    <3>1. PICK o, c : frame'[s] = [at |-> "write", observed |-> o, record |-> Record(frame[s], IsFormal(frame[s]), c)]
      BY <1>2 DEF Classify, TypeOK
    <3>2. /\ frame'[s].record.formal = IsFormal(frame[s]) /\ frame'[s].record.late = frame[s].late
          /\ frame'[s].record.timed = frame[s].timed
      BY <3>1 DEF Record
    <3>3. frame[s].late => begun
      BY <2>4 DEF ClassInv
    <3> DEFINE x == frame'[s].record
    <3>4. /\ x.formal => x.timed /\ x.late
          /\ formalStart' /\ x.timed /\ x.late => x.formal
          /\ x.late => begun'
      BY <2>3, <3>2, <3>3 DEF IsFormal
    <3> QED BY <3>4 DEF WellClassified
  <2>6. \A r : WellClassified(r)' <=> WellClassified(r)
    BY <2>3 DEF WellClassified
  <2>7. ASSUME NEW t \in EgoStreams
        PROVE  /\ \A r \in Records : InPayload(t, r)' \/ InQueue(t, r)' => WellClassified(r)'
               /\ frame'[t].at = "entry" /\ frame'[t].late => begun'
               /\ frame'[t].at \in {"write", "count", "xu"} => WellClassified(frame[t].record)'
    <3>1. \A r \in Records : InPayload(t, r)' \/ InQueue(t, r)' => WellClassified(r)'
      BY <2>2, <2>6 DEF ClassInv
    <3>2. CASE t = s
      BY <2>4, <2>5, <3>1, <3>2
    <3>3. CASE t # s
      <4>1. frame'[t] = frame[t]
        BY <2>3, <3>3
      <4>2. frame'[t].at \in {"write", "count", "xu"} => WellClassified(frame[t].record)'
        BY <2>3, <4>1 DEF ClassInv, WellClassified
      <4> QED BY <2>3, <3>1, <4>1, <4>2 DEF ClassInv
    <3> QED BY <3>2, <3>3
  <2>8. mpc' = "warm" => ~formalStart'
    BY <2>3 DEF ClassInv
  <2> QED BY <2>7, <2>8 DEF ClassInv
<1>3. ASSUME NEW s \in EgoStreams, Submit(s) \/ Count(s)
      PROVE  ClassInv'
  <2>1. /\ begun' = begun /\ formalStart' = formalStart /\ mpc' = mpc
        /\ \A t \in EgoStreams : t # s => frame'[t] = frame[t]
    BY <1>3, <1>a DEF Callback
  <2>2. /\ frame[s].at \in {"write", "count", "xu"}
        /\ frame'[s] = Idle \/ (frame'[s].at = "count" /\ frame'[s].record = frame[s].record)
        /\ queue' = queue \/ queue' = Append(queue, <<s, frame[s].record>>)
    BY <1>3, FrameSteps DEF Count, threadVars
  <2>3. writer' = writer
    BY <1>3 DEF Submit, Count
  <2>4. \A t, r : InPayload(t, r)' <=> InPayload(t, r)
    BY <2>3, <1>d
  <2>5. \A t, r : InQueue(t, r)' => InQueue(t, r) \/ (t = s /\ r = frame[s].record)
    BY <1>b, <2>2, QueueGrows, PlacesStay
  <2> QED BY <1>c, <2>1, <2>2, <2>4, <2>5, ClassStep DEF ClassInv
<1>4. ASSUME NEW s \in EgoStreams, AppendVideo(s) \/ AppendXu(s)
      PROVE  ClassInv'
  <2>1. /\ begun' = begun /\ formalStart' = formalStart /\ mpc' = mpc
        /\ \A t \in EgoStreams : t # s => frame'[t] = frame[t]
    BY <1>4, <1>a DEF Callback
  <2>2. frame[s].at \in {"write", "count", "xu"} /\ queue' = queue
    BY <1>4 DEF AppendVideo, AppendXu
  <2>3. frame'[s] = Idle \/ (frame'[s].at = "xu" /\ frame'[s].record = frame[s].record)
    <3>1. frame' = [frame EXCEPT ![s].at = "xu"] \/ frame' = [frame EXCEPT ![s] = Idle]
      BY <1>4, VideoAppended, XuAppended
    <3>2. frame'[s] = [frame[s] EXCEPT !.at = "xu"] \/ frame'[s] = Idle
      BY <3>1 DEF TypeOK
    <3>3. frame[s] \in Busy
      BY <1>b, <2>2
    <3>4. [frame[s] EXCEPT !.at = "xu"].at = "xu" /\ [frame[s] EXCEPT !.at = "xu"].record = frame[s].record
      BY <3>3, BusyFacts
    <3> QED BY <3>2, <3>4
  <2>4. \E t \in EgoStreams : \E o \in AppendOutcomes(writer, t, frame[s].record) : writer' = o.writer
    BY <1>4, VideoAppended, XuAppended, StreamFacts
  <2>5. \A t \in EgoStreams : \A r : InPayload(t, r)' => InPayload(t, r) \/ r = frame[s].record
    BY <1>b, <2>2, <2>4, PayloadGrows
  <2>6. \A t, r : InQueue(t, r)' <=> InQueue(t, r)
    BY <2>2, PlacesStay
  <2> QED BY <1>c, <2>1, <2>2, <2>3, <2>5, <2>6, ClassStep DEF ClassInv
<1>5. CASE WriterTakes
  <2>1. /\ UNCHANGED <<begun, formalStart, mpc, frame>> /\ queue # <<>> /\ queue' = Tail(queue)
    BY <1>5 DEF WriterTakes, mainVars, callbackVars
  <2>2. \A t, r : InQueue(t, r) <=> InQueue(t, r)' \/ Head(queue) = <<t, r>>
    BY <2>1, QueueShrinks
  <2>3. ASSUME NEW t \in EgoStreams, NEW r \in Records, InPayload(t, r)'
        PROVE  InPayload(t, r) \/ \E u \in EgoStreams : InQueue(u, r)
    <3>1. CASE UNCHANGED writer
      BY <1>d, <2>3, <3>1
    <3>2. ASSUME Head(queue) # Sentinel, NEW o \in AppendOutcomes(writer, Head(queue)[1], Head(queue)[2]),
                 writer' = o.writer
          PROVE  InPayload(t, r) \/ \E u \in EgoStreams : InQueue(u, r)
      <4>1. queue \in Seq({Sentinel} \cup (EgoStreams \X Records))
        BY DEF TypeOK
      <4>2. Head(queue) \in {Sentinel} \cup (EgoStreams \X Records)
        BY <2>1, <4>1, TailFacts
      <4>3. Head(queue)[1] \in EgoStreams /\ Head(queue)[2] \in Records /\ Head(queue) = <<Head(queue)[1], Head(queue)[2]>>
        BY <3>2, <4>2, ItemFacts
      <4>4. PICK u \in EgoStreams, x \in Records : Head(queue) = <<u, x>>
        BY <4>3
      <4>5. InPayload(t, r) \/ r = x
        BY <2>3, <3>2, <4>4, PayloadGrows
      <4>6. InQueue(u, x)
        BY <2>2, <4>4
      <4> QED BY <4>5, <4>6
    <3> QED BY <1>5, <3>1, <3>2, WriterTook
  <2> QED BY <2>1, <2>2, <2>3, ClassStep DEF ClassInv
<1>6. CASE Elsewhere
  <2>1. UNCHANGED frame /\ writer'.payload = writer.payload /\ (queue' = queue \/ queue' = Append(queue, Sentinel))
    BY <1>6, ElsewhereFrames
  <2>2. \A t, r : InPayload(t, r)' <=> InPayload(t, r)
    BY <2>1, <1>d
  <2>3. \A t \in EgoStreams, r \in Records : InQueue(t, r)' <=> InQueue(t, r)
    BY <2>1, PlacesStay, QueueSentinel
  <2>4. (begun => begun') /\ (formalStart' = formalStart \/ ~begun) /\ (mpc' = "warm" => ~formalStart')
    <3>1. CASE StartPasses
      BY <3>1 DEF StartPasses, ClassInv
    <3>2. CASE ReadStart
      BY <3>2 DEF ReadStart
    <3>3. CASE EndWindow \/ GiveUp \/ StopSource \/ PutSentinel \/ JoinWriter \/ Judge
      <4>1. UNCHANGED <<begun, formalStart>> /\ mpc' # "warm"
        BY <3>3 DEF EndWindow, GiveUp, StopSource, PutSentinel, JoinWriter, Judge
      <4> QED BY <4>1
    <3>4. CASE CloseWriter
      <4>1. UNCHANGED <<begun, formalStart>>
        BY <3>4 DEF CloseWriter
      <4>2. mpc' # "warm"
        BY <3>4, WriterCloses DEF CloseStep
      <4> QED BY <4>1, <4>2
    <3>5. CASE UNCHANGED vars
      BY <3>5 DEF vars, mainVars, ClassInv
    <3> QED BY <1>6, <3>1, <3>2, <3>3, <3>4, <3>5 DEF Elsewhere, Main
  <2> QED BY <2>1, <2>2, <2>3, <2>4, ClassStep DEF ClassInv
<1> QED BY <1>1, <1>2, <1>3, <1>4, <1>5, <1>6 DEF Next, Callback, Elsewhere

-----------------------------------------------------------------------------
(* The stop.                                                                *)

(* A stop that met no error has waited for the callbacks.                   *)
LEMMA NoLateCallback ==
    ASSUME TypeOK, StopInv, NEW s \in EgoStreams, Callback(s)
    PROVE  captureError \/ mpc \in {"warm", "formal", "stop"}
<1>1. mpc # "exit"
  BY CallbackFrames
<1>2. sourceOn \/ frame[s].at # "idle"
  BY DEF Callback, Acquire, Classify, Submit, Count, AppendVideo, AppendXu
<1>3. captureError \/ mpc \notin Stopped
  BY <1>2 DEF StopInv, Idle
<1>4. mpc \in {"warm", "formal", "stop"} \/ mpc \in Stopped
  BY DEF TypeOK, Stopped
<1> QED BY <1>3, <1>4

(* A callback does not disturb a stop.                                      *)
LEMMA StopOfCallback ==
    ASSUME TypeOK, TypeOK', ThreadInv, StopInv, NEW s \in EgoStreams, Callback(s)
    PROVE  StopInv'
<1>1. UNCHANGED <<device, mpc, tpc, sourceOn>>
  BY CallbackFrames DEF mainVars
<1>2. captureError => captureError'
  BY DEF Callback, Acquire, Classify, Submit, Count, AppendVideo, AppendXu
<1>3. captureError' \/ mpc' \in {"warm", "formal", "stop"}
  BY <1>1, <1>2, NoLateCallback
<1>4. \A i \in DOMAIN queue' : queue'[i] = Sentinel => \E j \in DOMAIN queue : queue[j] = Sentinel
  <2>1. CASE Submit(s)
    <3>1. CASE queue' = queue
      BY <3>1
    <3>2. CASE queue' = Append(queue, <<s, frame[s].record>>)
      <4> DEFINE e == <<s, frame[s].record>>
                 Items == {Sentinel} \cup (EgoStreams \X Records)
                 p == queue'
      <4>1. frame[s].record \in Records
        BY <2>1, FrameFacts, BusyFacts DEF Submit
      <4>2. e \in Items /\ e # Sentinel /\ queue \in Seq(Items) /\ p = Append(queue, e)
        BY <3>2, <4>1, ItemFacts DEF TypeOK
      <4> HIDE DEF e, Items, p
      <4>3. /\ DOMAIN p = 1..Len(queue) + 1 /\ DOMAIN queue = 1..Len(queue) /\ Len(queue) \in Nat
            /\ (\A i \in DOMAIN queue : p[i] = queue[i]) /\ p[Len(queue) + 1] = e
        BY <4>2, AppendFacts
      <4>4. \A i \in DOMAIN p : p[i] = Sentinel => \E j \in DOMAIN queue : queue[j] = Sentinel
        BY <4>2, <4>3
      <4> QED BY <4>4 DEF p
    <3> QED BY <2>1, <3>1, <3>2, FrameSteps
  <2>2. CASE ~Submit(s)
    <3>1. queue' = queue
      BY <2>2 DEF Callback, Acquire, Classify, Count, AppendVideo, AppendXu, threadVars
    <3> QED BY <3>1
  <2> QED BY <2>1, <2>2
<1>5. mpc' \in {"warm", "formal", "stop", "put"} => tpc' = "run" /\ \A i \in DOMAIN queue' : queue'[i] # Sentinel
  BY <1>1, <1>4 DEF StopInv
<1>6. device = "d435i" => storageFailed' = storageFailed
  <2>1. device = "d435i" => ~AppendVideo(s) /\ ~AppendXu(s)
    BY FrameSteps
  <2> QED BY <2>1 DEF Callback, Acquire, Classify, Submit, Count, threadVars
<1>7. ~captureError' => ~captureError /\ mpc' \in {"warm", "formal", "stop"}
  BY <1>2, <1>3
<1>8. ~captureError' /\ device' = "d435i" =>
          /\ ~storageFailed'
          /\ \A i \in DOMAIN queue' : queue'[i] # Sentinel
          /\ tpc' = "run"
  BY <1>1, <1>5, <1>6, <1>7 DEF StopInv
<1>9. device' = "2uq2" => mpc' \notin {"put", "join"}
  BY <1>1 DEF StopInv
<1>10. device' = "d435i" /\ mpc' \in {"close", "files", "seal", "judge", "exit"} => tpc' = "ended"
  BY <1>1 DEF StopInv
<1>11. ~captureError' => mpc' \notin Stopped /\ mpc' \notin {"seal", "judge", "exit"} /\ mpc' \notin {"judge", "exit"}
  BY <1>7 DEF Stopped
<1> QED BY <1>5, <1>8, <1>9, <1>10, <1>11 DEF StopInv

(* The writer thread ends at the sentinel, which is the last of the queue.  *)
LEMMA StopOfWriter ==
    ASSUME TypeOK, TypeOK', StopInv, WriterTakes
    PROVE  StopInv'
<1> DEFINE Items == {Sentinel} \cup (EgoStreams \X Records)
           p == queue'
<1>1. /\ device = "d435i" /\ tpc = "run" /\ mpc # "exit" /\ queue # <<>> /\ p = Tail(queue) /\ queue \in Seq(Items)
      /\ UNCHANGED <<device, mpc, sourceOn, frame>>
  BY DEF WriterTakes, callbackVars, mainVars, TypeOK
<1>2. mpc \notin {"close", "files", "seal", "judge", "exit"}
  BY <1>1 DEF StopInv
<1>3. /\ Head(queue) = queue[1] /\ 1 \in DOMAIN queue /\ Len(queue) \in Nat \ {0}
      /\ p \in Seq(Items) /\ Len(p) = Len(queue) - 1
      /\ DOMAIN queue = 1..Len(queue) /\ DOMAIN p = 1..Len(queue) - 1
      /\ \A i \in DOMAIN p : i + 1 \in DOMAIN queue /\ p[i] = queue[i + 1]
  <2> HIDE DEF Items
  <2> QED BY <1>1, TailFacts
<1>4. captureError => captureError'
  BY WriterTook, Zenon
<1>5. ~captureError' => ~storageFailed'
  <2>1. CASE Head(queue) = Sentinel \/ storageFailed
    BY <1>1, <1>4, <2>1 DEF WriterTakes, StopInv
  <2>2. CASE Head(queue) # Sentinel /\ ~storageFailed
    <3>1. PICK o \in AppendOutcomes(writer, Head(queue)[1], Head(queue)[2]) :
              storageFailed' = (o.error # None) /\ captureError' = (captureError \/ o.error # None)
      BY <2>2, WriterTook
    <3> QED BY <3>1, Zenon
  <2> QED BY <2>1, <2>2
<1>6. tpc' = "ended" => Head(queue) = Sentinel
  BY <1>1 DEF WriterTakes
<1>7. mpc \in {"warm", "formal", "stop", "put"} => tpc' = "run" /\ \A i \in DOMAIN p : p[i] # Sentinel
  <2>1. mpc \in {"warm", "formal", "stop", "put"} => \A i \in DOMAIN queue : queue[i] # Sentinel
    BY DEF StopInv
  <2>2. tpc' = "run" \/ tpc' = "ended"
    BY DEF TypeOK
  <2> QED BY <1>3, <1>6, <2>1, <2>2
<1>8. ASSUME ~captureError'
      PROVE  /\ \A i \in DOMAIN p : p[i] = Sentinel => i = Len(p)
             /\ tpc' = "ended" => p = <<>>
  <2>1. \A i \in DOMAIN queue : queue[i] = Sentinel => i = Len(queue)
    BY <1>1, <1>4, <1>8 DEF StopInv
  <2>2. \A i \in DOMAIN p : p[i] = Sentinel => i = Len(p)
    <3> HIDE DEF p
    <3> QED BY <1>3, <2>1
  <2>3. ASSUME tpc' = "ended"
        PROVE  p = <<>>
    <3>1. Len(queue) = 1
      BY <1>3, <1>6, <2>1, <2>3
    <3>2. Len(p) = 0
      BY <1>3, <3>1
    <3> QED BY <1>3, <3>2, EmptySeq
  <2> QED BY <2>2, <2>3
<1>9. ~captureError' /\ mpc' \in Stopped => ~sourceOn' /\ \A s \in EgoStreams : frame'[s] = Idle
  BY <1>1, <1>4 DEF StopInv
<1>10. mpc' \notin {"close", "files", "seal", "judge", "exit"} /\ device' # "2uq2"
  BY <1>1, <1>2
<1> QED BY <1>1, <1>5, <1>7, <1>8, <1>9, <1>10 DEF StopInv

(* main stops one thing after the other.                                    *)
LEMMA StopOfMain ==
    ASSUME TypeOK, TypeOK', FileInv, StopInv, Elsewhere
    PROVE  StopInv'
<1>0. /\ UNCHANGED <<device, frame, tpc, storageFailed>> /\ writer'.payload = writer.payload
      /\ queue' = queue \/ (PutSentinel /\ queue' = Append(queue, Sentinel))
      /\ captureError => captureError'
  BY ElsewhereFrames
<1>q. ASSUME UNCHANGED queue
      PROVE  device' = "d435i" /\ ~captureError' =>
                 /\ ~storageFailed'
                 /\ \A i \in DOMAIN queue' : queue'[i] = Sentinel => i = Len(queue')
                 /\ tpc' = "ended" => queue' = <<>>
  BY <1>0, <1>q DEF StopInv
<1>1. CASE StartPasses \/ UNCHANGED vars
  <2>1. UNCHANGED <<device, frame, tpc, storageFailed, queue, mpc, sourceOn, captureError, writer>>
    BY <1>1 DEF StartPasses, vars, threadVars, mainVars, callbackVars
  <2> QED BY <2>1 DEF StopInv, Opened
<1>2. CASE ReadStart \/ EndWindow \/ GiveUp
  <2>1. queue' = queue /\ mpc \in {"warm", "formal"} /\ mpc' \in {"formal", "stop"}
    BY <1>2 DEF ReadStart, EndWindow, GiveUp, threadVars
  <2>2. tpc' = "run" /\ \A i \in DOMAIN queue' : queue'[i] # Sentinel
    BY <1>0, <2>1 DEF StopInv
  <2>3. mpc' \notin Stopped /\ mpc' \notin {"put", "join"} /\ mpc' \notin {"close", "files", "seal", "judge", "exit"}
    BY <2>1 DEF Stopped
  <2> QED BY <1>q, <2>1, <2>2, <2>3 DEF StopInv
<1>3. CASE StopSource
  <2>1. queue' = queue /\ mpc = "stop" /\ mpc' = (IF device = "d435i" THEN "put" ELSE "close")
    BY <1>3 DEF StopSource, threadVars
  <2>2. tpc' = "run" /\ \A i \in DOMAIN queue' : queue'[i] # Sentinel
    BY <1>0, <2>1 DEF StopInv
  <2>3. ~captureError' => ~sourceOn' /\ \A s \in EgoStreams : frame'[s] = Idle
    BY <1>0, <1>3 DEF StopSource
  <2>4. device' = "2uq2" => mpc' \notin {"put", "join"}
    BY <1>0, <2>1
  <2>5. device' = "d435i" => mpc' \notin {"close", "files", "seal", "judge", "exit"}
    BY <1>0, <2>1
  <2>6. mpc' \notin {"seal", "judge", "exit"}
    BY <2>1
  <2> QED BY <1>q, <2>1, <2>2, <2>3, <2>4, <2>5, <2>6 DEF StopInv
<1>4. CASE PutSentinel
  <2> DEFINE Items == {Sentinel} \cup (EgoStreams \X Records)
             p == queue'
  <2>1. mpc = "put" /\ mpc' = "join" /\ p = Append(queue, Sentinel) /\ queue \in Seq(Items) /\ Sentinel \in Items
        /\ UNCHANGED <<sourceOn, captureError>>
    BY <1>4 DEF PutSentinel, TypeOK
  <2>2. tpc = "run" /\ \A i \in DOMAIN queue : queue[i] # Sentinel
    BY <2>1 DEF StopInv
  <2>3. \A i \in DOMAIN p : p[i] = Sentinel => i = Len(p)
    <3> HIDE DEF Items, p
    <3>1. /\ DOMAIN p = 1..Len(queue) + 1 /\ DOMAIN queue = 1..Len(queue) /\ Len(queue) \in Nat
          /\ Len(p) = Len(queue) + 1 /\ (\A i \in DOMAIN queue : p[i] = queue[i])
      BY <2>1, AppendFacts
    <3> QED BY <2>2, <3>1
  <2>4. device' # "2uq2"
    BY <1>0, <2>1 DEF StopInv
  <2>5. ~captureError' => ~sourceOn' /\ \A s \in EgoStreams : frame'[s] = Idle
    BY <1>0, <2>1 DEF StopInv, Stopped
  <2>6. ~captureError' /\ device' = "d435i" => ~storageFailed'
    BY <1>0, <2>1 DEF StopInv
  <2>7. mpc' \notin {"warm", "formal", "stop", "put"} /\ mpc' \notin {"close", "files", "seal", "judge", "exit"}
        /\ tpc' # "ended"
    BY <1>0, <2>1, <2>2
  <2> QED BY <2>3, <2>4, <2>5, <2>6, <2>7 DEF StopInv
<1>5. CASE JoinWriter
  <2>1. mpc = "join" /\ mpc' = "close" /\ tpc = "ended" /\ UNCHANGED <<queue, sourceOn, captureError>>
    BY <1>5 DEF JoinWriter, threadVars
  <2>2. ~captureError' => ~sourceOn' /\ \A s \in EgoStreams : frame'[s] = Idle
    BY <1>0, <2>1 DEF StopInv, Stopped
  <2>3. /\ mpc' \notin {"put", "join"} /\ mpc' \notin {"warm", "formal", "stop", "put"}
        /\ mpc' \notin {"seal", "judge", "exit"} /\ tpc' = "ended"
    BY <1>0, <2>1
  <2> QED BY <1>q, <2>1, <2>2, <2>3 DEF StopInv
<1>6. CASE CloseWriter
  <2>1. CloseStep
    BY <1>6, WriterCloses
  <2>2. UNCHANGED <<queue, sourceOn>>
    BY <1>6 DEF CloseWriter, threadVars
  <2>3. mpc \in {"close", "files", "seal"} /\ mpc' \in {"files", "seal", "judge"}
    BY <2>1 DEF CloseStep
  <2>4. ~captureError' => ~sourceOn' /\ \A s \in EgoStreams : frame'[s] = Idle
    BY <1>0, <2>2, <2>3 DEF StopInv, Stopped
  <2>5. device' = "d435i" => tpc' = "ended"
    BY <1>0, <2>3 DEF StopInv
  <2>6. ~captureError' /\ mpc' \in {"seal", "judge", "exit"} => writer'.manifest = Opened(writer')
    <3>1. Opened(writer') = Opened(writer)
      BY <1>0 DEF Opened
    <3>2. ~captureError' /\ mpc = "seal" => writer.manifest = Opened(writer)
      BY <1>0 DEF StopInv
    <3> QED BY <2>1, <2>3, <3>1, <3>2 DEF CloseStep
  <2>7. ~captureError' /\ mpc' \in {"judge", "exit"} => writer'.state = "sealed" /\ ~writer'.claimed
    BY <2>1, <2>3 DEF CloseStep
  <2>8. mpc' \notin {"put", "join"} /\ mpc' \notin {"warm", "formal", "stop", "put"}
    BY <2>3
  <2> QED BY <1>q, <2>2, <2>4, <2>5, <2>6, <2>7, <2>8 DEF StopInv
<1>7. CASE Judge
  <2>1. mpc = "judge" /\ mpc' = "exit" /\ UNCHANGED <<queue, sourceOn, captureError, writer>>
    BY <1>7 DEF Judge, threadVars
  <2>2. ~captureError' => ~sourceOn' /\ \A s \in EgoStreams : frame'[s] = Idle
    BY <1>0, <2>1 DEF StopInv, Stopped
  <2>3. device' = "d435i" => tpc' = "ended"
    BY <1>0, <2>1 DEF StopInv
  <2>4. ~captureError' => writer'.manifest = Opened(writer') /\ writer'.state = "sealed" /\ ~writer'.claimed
    BY <2>1 DEF StopInv, Opened
  <2>5. mpc' \notin {"put", "join"} /\ mpc' \notin {"warm", "formal", "stop", "put"}
    BY <2>1
  <2> QED BY <1>q, <2>1, <2>2, <2>3, <2>4, <2>5 DEF StopInv
<1> QED BY <1>1, <1>2, <1>3, <1>4, <1>5, <1>6, <1>7 DEF Elsewhere, Main

-----------------------------------------------------------------------------
(* What is judged against what is written.                                  *)

(* Where a frame at work counts.                                            *)
LEMMA AtWorkFacts ==
    ASSUME TypeOK, NEW t \in EgoStreams, NEW r
    PROVE  /\ frame[Source(t)].at \in {"idle", "entry", "write"} => ~AtWork(t, r)
           /\ frame[Source(t)].at = "count" => (AtWork(t, r) <=> frame[Source(t)].record = r /\ r.formal)
           /\ frame[Source(t)].at = "xu" =>
                  (AtWork(t, r) <=> t = Video /\ frame[Source(t)].record = r /\ r.formal)
BY DEF AtWork, HandedOver

(* Another thread's frame counts as before.                                 *)
LEMMA AtWorkElsewhere ==
    ASSUME TypeOK, NEW s \in EgoStreams, Callback(s), NEW t \in EgoStreams, Source(t) # s, NEW r
    PROVE  AtWork(t, r)' <=> AtWork(t, r)
<1>1. Source(t)' = Source(t) /\ frame'[Source(t)] = frame[Source(t)]
  BY CallbackFrames, SourceFacts DEF Source
<1> QED BY <1>1 DEF AtWork, HandedOver

\* JudgedInv of one stream and one record.
EgoJudged(s, r)    == (OnDisk(s, r) \/ InQueue(s, r)) /\ r.formal <=> IsJudged(s, r) \/ AtWork(s, r)
TwoUQ2Judged(s, r) == OnDisk(s, r) /\ r.formal <=> (IsJudged(s, r) /\ r.formal) \/ AtWork(s, r)

(* JudgedInv by streams and records.                                        *)
LEMMA JudgedParts ==
    /\ JudgedInv <=>
          /\ ~captureError /\ device = "d435i" => \A s \in EgoStreams, r \in Records : EgoJudged(s, r)
          /\ exceptions = 0 /\ device = "2uq2" => \A s \in EgoStreams, r \in Records : TwoUQ2Judged(s, r)
    /\ JudgedInv' <=>
          /\ ~captureError' /\ device' = "d435i" => \A s \in EgoStreams, r \in Records : EgoJudged(s, r)'
          /\ exceptions' = 0 /\ device' = "2uq2" => \A s \in EgoStreams, r \in Records : TwoUQ2Judged(s, r)'
BY Zenon DEF JudgedInv, EgoJudged, TwoUQ2Judged

(* A step that hands nothing over.                                          *)
LEMMA JudgedQuiet ==
    ASSUME JudgedInv, UNCHANGED device, captureError => captureError', exceptions' = 0 => exceptions = 0,
           \A s \in EgoStreams, r \in Records :
               /\ OnDisk(s, r)' <=> OnDisk(s, r)
               /\ InQueue(s, r)' <=> InQueue(s, r)
               /\ IsJudged(s, r)' <=> IsJudged(s, r)
               /\ AtWork(s, r)' <=> AtWork(s, r)
    PROVE  JudgedInv'
<1>1. \A s \in EgoStreams, r \in Records : EgoJudged(s, r)' <=> EgoJudged(s, r)
  BY Zenon DEF EgoJudged
<1>2. \A s \in EgoStreams, r \in Records : TwoUQ2Judged(s, r)' <=> TwoUQ2Judged(s, r)
  BY Zenon DEF TwoUQ2Judged
<1>3. /\ ~captureError /\ device = "d435i" => \A s \in EgoStreams, r \in Records : EgoJudged(s, r)
      /\ exceptions = 0 /\ device = "2uq2" => \A s \in EgoStreams, r \in Records : TwoUQ2Judged(s, r)
  BY JudgedParts, Zenon
<1>4. ~captureError' /\ device' = "d435i" => \A s \in EgoStreams, r \in Records : EgoJudged(s, r)'
  BY <1>1, <1>3
<1>5. exceptions' = 0 /\ device' = "2uq2" => \A s \in EgoStreams, r \in Records : TwoUQ2Judged(s, r)'
  BY <1>2, <1>3
<1> QED BY <1>4, <1>5, JudgedParts, Zenon

(* The D435i hands over and keeps what is formal.                           *)
LEMMA JudgedOfEgo ==
    ASSUME TypeOK, TypeOK', ThreadInv, JudgedInv, NEW s \in EgoStreams, Submit(s) \/ Count(s)
    PROVE  JudgedInv'
<1> DEFINE x == frame[s].record
<1>0. device = "d435i" /\ device' = device /\ device' # "2uq2"
  BY CallbackFrames DEF Callback, Submit, Count, ThreadInv
<1>1. frame[s] \in Busy /\ x \in Records /\ (\A t \in EgoStreams : Source(t) = t /\ Source(t)' = t)
  BY <1>0, FrameFacts, BusyFacts DEF Submit, Count, Source
<1>2. writer' = writer
  BY DEF Submit, Count
<1>3. SUFFICES ASSUME ~captureError', NEW t \in EgoStreams, NEW r \in Records
               PROVE  EgoJudged(t, r)'
  BY <1>0, JudgedParts, Zenon
<1>4. ~captureError
  BY <1>3 DEF Submit, Count
<1>5. EgoJudged(t, r)
  BY <1>0, <1>4, JudgedParts, Zenon
<1>6. OnDisk(t, r)' <=> OnDisk(t, r)
  BY <1>2, PlacesStay
<1>7. t # s => (AtWork(t, r)' <=> AtWork(t, r))
  BY <1>1, AtWorkElsewhere DEF Callback
<1>8. CASE Submit(s)
  <2>1. /\ frame[s].at = "write" /\ queue' = Append(queue, <<s, x>>)
        /\ frame'[s].at = "count" /\ frame'[s].record = x
    BY <1>3, <1>8, FrameSteps
  <2>2. judged' = judged
    BY <1>8 DEF Submit
  <2>3. IsJudged(t, r)' <=> IsJudged(t, r)
    BY <2>2, PlacesStay
  <2>4. InQueue(t, r)' <=> InQueue(t, r) \/ (t = s /\ r = x)
    BY <1>1, <2>1, QueueGrows
  <2>5. t = s => ~AtWork(t, r) /\ (AtWork(t, r)' <=> r = x /\ r.formal)
    <3>1. ASSUME t = s
          PROVE  ~AtWork(t, r) /\ (AtWork(t, r)' <=> r = x /\ r.formal)
      <4>1. Source(t) = s /\ Source(t)' = s
        BY <1>1, <3>1
      <4>2. ~AtWork(t, r)
        BY <2>1, <4>1 DEF AtWork, HandedOver
      <4>3. AtWork(t, r)' <=> r = x /\ r.formal
        <5> HIDE DEF x
        <5> QED BY <2>1, <4>1 DEF AtWork, HandedOver
      <4> QED BY <4>2, <4>3
    <3> QED BY <3>1
  <2> HIDE DEF x
  <2> QED BY <1>5, <1>6, <1>7, <2>3, <2>4, <2>5, Zenon DEF EgoJudged
<1>9. CASE Count(s)
  <2>1. /\ frame[s].at = "count" /\ frame'[s] = Idle /\ Idle.at = "idle" /\ queue' = queue
        /\ judged' = IF x.formal THEN [judged EXCEPT ![s] = Append(@, x)] ELSE judged
    BY <1>9, FrameSteps DEF Count, threadVars, Idle
  <2>2. InQueue(t, r)' <=> InQueue(t, r)
    BY <2>1, PlacesStay
  <2>3. t # s => (IsJudged(t, r)' <=> IsJudged(t, r))
    BY <2>1 DEF IsJudged, TypeOK
  <2>4. t = s => (IsJudged(t, r)' <=> IsJudged(t, r) \/ (r = x /\ r.formal))
    <3>1. CASE x.formal
      <4>1. judged'[s] = Append(judged[s], x)
        BY <2>1, <3>1 DEF TypeOK
      <4> QED BY <1>1, <3>1, <4>1, JudgedGrows
    <3>2. CASE ~x.formal
      BY <2>1, <3>2, PlacesStay
    <3> QED BY <3>1, <3>2
  <2>5. t = s => ~AtWork(t, r)' /\ (AtWork(t, r) <=> r = x /\ r.formal)
    <3>1. ASSUME t = s
          PROVE  ~AtWork(t, r)' /\ (AtWork(t, r) <=> r = x /\ r.formal)
      <4>1. Source(t) = s /\ Source(t)' = s
        BY <1>1, <3>1
      <4>2. ~AtWork(t, r)'
        BY <2>1, <4>1 DEF AtWork, HandedOver
      <4>3. AtWork(t, r) <=> r = x /\ r.formal
        BY <2>1, <4>1 DEF AtWork, HandedOver
      <4> QED BY <4>2, <4>3
    <3> QED BY <3>1
  <2> HIDE DEF x
  <2> QED BY <1>5, <1>6, <1>7, <2>2, <2>3, <2>4, <2>5, Zenon DEF EgoJudged
<1> QED BY <1>8, <1>9

(* The 2UQ2 writes both records of a frame before it is observed.           *)
LEMMA JudgedOfTwoUQ2 ==
    ASSUME TypeOK, TypeOK', ThreadInv, JudgedInv, MarkInv, NEW s \in EgoStreams, AppendVideo(s) \/ AppendXu(s)
    PROVE  JudgedInv'
<1> DEFINE x == frame[s].record
<1>0. /\ s = Video /\ device = "2uq2" /\ device' = device /\ device' # "d435i" /\ frame[s].at \in {"write", "xu"}
  BY CallbackFrames, FrameSteps DEF Callback, AppendVideo, AppendXu
<1>1. frame[s] \in Busy /\ x \in Records /\ (\A t \in EgoStreams : Source(t) = s /\ Source(t)' = s)
  BY <1>0, FrameFacts, BusyFacts DEF Source
<1>2. SUFFICES ASSUME exceptions' = 0, NEW t \in EgoStreams, NEW r \in Records
               PROVE  TwoUQ2Judged(t, r)'
  BY <1>0, JudgedParts, Zenon
<1>3. exceptions \in Nat /\ 0 # exceptions + 1
  BY DEF TypeOK
<1>4. Video \in EgoStreams /\ Xu \in EgoStreams /\ Video # Xu /\ t \in {Video, Xu} /\ EgoStreams \subseteq Streams
  BY StreamFacts
<1>5. ASSUME exceptions = 0
      PROVE  TwoUQ2Judged(t, r)
  BY <1>0, <1>5, JudgedParts, Zenon
<1>6. CASE AppendVideo(s)
  <2>1. PICK o \in AppendOutcomes(writer, Video, x) :
               /\ writer' = o.writer
               /\ o.error = None =>
                     frame' = [frame EXCEPT ![s].at = "xu"] /\ UNCHANGED <<judged, exceptions, storageFailed>>
               /\ o.error # None => exceptions' = exceptions + 1 /\ UNCHANGED judged
    BY <1>6, VideoAppended
  <2>2. o.error = None /\ exceptions = 0 /\ judged' = judged
    BY <1>2, <1>3, <2>1
  <2>3. frame'[s] = [frame[s] EXCEPT !.at = "xu"] /\ frame[s].at = "write"
    BY <1>6, <2>1, <2>2 DEF TypeOK, AppendVideo
  <2>4. frame'[s].at = "xu" /\ frame'[s].record = x
    BY <1>1, <2>3, BusyFacts
  <2>5. OnDisk(t, r)' <=> OnDisk(t, r) \/ (t = Video /\ r = x)
    <3> HIDE DEF x
    <3> QED BY <1>1, <1>4, <2>1, <2>2, DiskGrows
  <2>6. IsJudged(t, r)' <=> IsJudged(t, r)
    BY <2>2, PlacesStay
  <2>7. ~AtWork(t, r)
    BY <1>1, <2>3 DEF AtWork, HandedOver
  <2>8. AtWork(t, r)' <=> t = Video /\ r = x /\ r.formal
    <3> HIDE DEF x
    <3> QED BY <1>1, <2>4 DEF AtWork, HandedOver
  <2>9. TwoUQ2Judged(t, r)
    BY <1>5, <2>2
  <2> HIDE DEF x
  <2> QED BY <2>5, <2>6, <2>7, <2>8, <2>9, Zenon DEF TwoUQ2Judged
<1>7. CASE AppendXu(s)
  <2>1. PICK o \in AppendOutcomes(writer, Xu, x) :
               /\ writer' = o.writer /\ frame' = [frame EXCEPT ![s] = Idle]
               /\ o.error = None =>
                     /\ judged' = IF frame[s].observed THEN [u \in EgoStreams |-> Append(judged[u], x)] ELSE judged
                     /\ UNCHANGED <<exceptions, storageFailed>>
               /\ o.error # None => exceptions' = exceptions + 1 /\ UNCHANGED judged
    BY <1>7, XuAppended
  <2>2. /\ o.error = None /\ exceptions = 0
        /\ judged' = IF frame[s].observed THEN [u \in EgoStreams |-> Append(judged[u], x)] ELSE judged
    BY <1>2, <1>3, <2>1
  <2>3. frame'[s] = Idle /\ Idle.at = "idle" /\ frame[s].at = "xu"
    BY <1>7, <2>1 DEF TypeOK, AppendXu, Idle
  <2>4. x.formal => frame[s].observed
    BY <1>0, <2>3 DEF MarkInv
  <2>5. OnDisk(t, r)' <=> OnDisk(t, r) \/ (t = Xu /\ r = x)
    <3> HIDE DEF x
    <3> QED BY <1>1, <1>4, <2>1, <2>2, DiskGrows
  <2>6. IsJudged(t, r)' /\ r.formal <=> (IsJudged(t, r) \/ r = x) /\ r.formal
    <3>1. CASE frame[s].observed
      <4>1. judged'[t] = Append(judged[t], x)
        BY <2>2, <3>1
      <4>2. IsJudged(t, r)' <=> IsJudged(t, r) \/ r = x
        <5> HIDE DEF x
        <5> QED BY <1>1, <4>1, JudgedGrows
      <4> QED BY <4>2
    <3>2. CASE ~frame[s].observed
      <4>1. IsJudged(t, r)' <=> IsJudged(t, r)
        BY <2>2, <3>2, PlacesStay
      <4> QED BY <2>4, <3>2, <4>1
    <3> QED BY <3>1, <3>2
  <2>7. ~AtWork(t, r)'
    BY <1>1, <2>3 DEF AtWork, HandedOver
  <2>8. AtWork(t, r) <=> t = Video /\ r = x /\ r.formal
    BY <1>1, <2>3 DEF AtWork, HandedOver
  <2>9. TwoUQ2Judged(t, r)
    BY <1>5, <2>2
  <2> HIDE DEF x
  <2> QED BY <1>4, <2>5, <2>6, <2>7, <2>8, <2>9, Zenon DEF TwoUQ2Judged
<1> QED BY <1>6, <1>7

(* The writer thread writes what was formal in the queue.                   *)
LEMMA JudgedOfWriter ==
    ASSUME TypeOK, TypeOK', StopInv, JudgedInv, WriterTakes
    PROVE  JudgedInv'
<1>0. /\ device = "d435i" /\ device' = device /\ device' # "2uq2" /\ UNCHANGED <<frame, judged>>
      /\ queue # <<>> /\ queue' = Tail(queue)
  BY DEF WriterTakes, callbackVars
<1>c. captureError => captureError'
  BY WriterTook, Zenon
<1>1. SUFFICES ASSUME ~captureError', NEW t \in EgoStreams, NEW r \in Records
               PROVE  EgoJudged(t, r)'
  BY <1>0, JudgedParts, Zenon
<1>2. ~captureError /\ ~storageFailed
  BY <1>0, <1>1, <1>c DEF StopInv
<1>3. EgoJudged(t, r)
  BY <1>0, <1>2, JudgedParts, Zenon
<1>4. IsJudged(t, r)' <=> IsJudged(t, r)
  BY <1>0, PlacesStay
<1>5. AtWork(t, r)' <=> AtWork(t, r)
  BY <1>0 DEF AtWork, HandedOver, Source
<1>6. InQueue(t, r) <=> InQueue(t, r)' \/ Head(queue) = <<t, r>>
  BY <1>0, QueueShrinks
<1>7. OnDisk(t, r)' <=> OnDisk(t, r) \/ Head(queue) = <<t, r>>
  <2>1. CASE Head(queue) = Sentinel
    <3>1. writer' = writer
      BY <2>1 DEF WriterTakes
    <3>2. OnDisk(t, r)' <=> OnDisk(t, r)
      BY <3>1, PlacesStay
    <3>3. Head(queue) # <<t, r>>
      BY <2>1, ItemFacts
    <3> QED BY <3>2, <3>3
  <2>2. CASE Head(queue) # Sentinel
    <3>1. Head(queue) \in {Sentinel} \cup (EgoStreams \X Records)
      <4>1. queue \in Seq({Sentinel} \cup (EgoStreams \X Records))
        BY DEF TypeOK
      <4> QED BY <1>0, <4>1, TailFacts
    <3>2. PICK s \in EgoStreams, x \in Records : Head(queue) = <<s, x>>
      BY <2>2, <3>1, ItemFacts
    <3>3. PICK o \in AppendOutcomes(writer, s, x) :
                 writer' = o.writer /\ captureError' = (captureError \/ o.error # None)
      BY <1>2, <2>2, <3>2, WriterTook
    <3>4. o.error = None
      BY <1>1, <3>3
    <3>5. OnDisk(t, r)' <=> OnDisk(t, r) \/ (t = s /\ r = x)
      BY <3>3, <3>4, DiskGrows, StreamFacts
    <3>6. Head(queue) = <<t, r>> <=> t = s /\ r = x
      BY <3>2
    <3> QED BY <3>5, <3>6
  <2> QED BY <2>1, <2>2
<1> QED BY <1>3, <1>4, <1>5, <1>6, <1>7, Zenon DEF EgoJudged

(* What is judged is what is written.                                       *)
LEMMA JudgedKept ==
    ASSUME TypeOK, TypeOK', ThreadInv, FileInv, StopInv, MarkInv, JudgedInv, [Next]_vars
    PROVE  JudgedInv'
<1>1. ASSUME NEW s \in EgoStreams, Acquire(s) \/ Classify(s)
      PROVE  JudgedInv'
  <2>1. UNCHANGED <<device, captureError, exceptions, queue, judged, writer>>
    BY <1>1 DEF Acquire, Classify, threadVars
  <2>2. frame[s].at \in {"idle", "entry"} /\ frame'[s].at \in {"entry", "write"}
    BY <1>1, FrameSteps
  <2>3. ASSUME NEW t \in EgoStreams, NEW r \in Records
        PROVE  AtWork(t, r)' <=> AtWork(t, r)
    <3>1. CASE Source(t) # s
      BY <1>1, <3>1, AtWorkElsewhere DEF Callback
    <3>2. CASE Source(t) = s
      <4>1. Source(t)' = s
        BY <2>1, <3>2 DEF Source
      <4> QED BY <2>2, <3>2, <4>1 DEF AtWork, HandedOver
    <3> QED BY <3>1, <3>2
  <2>4. \A t \in EgoStreams, r \in Records :
            /\ OnDisk(t, r)' <=> OnDisk(t, r)
            /\ InQueue(t, r)' <=> InQueue(t, r)
            /\ IsJudged(t, r)' <=> IsJudged(t, r)
    BY <2>1, PlacesStay
  <2> QED BY <2>1, <2>3, <2>4, JudgedQuiet
<1>2. CASE Elsewhere
  <2>1. /\ UNCHANGED <<device, frame, judged, exceptions>> /\ writer'.rows = writer.rows
        /\ queue' = queue \/ queue' = Append(queue, Sentinel)
        /\ captureError => captureError'
    BY <1>2, ElsewhereFrames
  <2>2. \A t \in EgoStreams, r \in Records : InQueue(t, r)' <=> InQueue(t, r)
    BY <2>1, PlacesStay, QueueSentinel
  <2>3. \A t \in EgoStreams, r \in Records :
            (OnDisk(t, r)' <=> OnDisk(t, r)) /\ (IsJudged(t, r)' <=> IsJudged(t, r))
    BY <2>1, PlacesStay
  <2>4. \A t \in EgoStreams, r \in Records : AtWork(t, r)' <=> AtWork(t, r)
    BY <2>1 DEF AtWork, HandedOver, Source
  <2> QED BY <2>1, <2>2, <2>3, <2>4, JudgedQuiet
<1> QED BY <1>1, <1>2, JudgedOfEgo, JudgedOfTwoUQ2, JudgedOfWriter DEF Next, Callback, Elsewhere

-----------------------------------------------------------------------------
(* The mark of the 2UQ2.                                                    *)

\* MarkInv in parts: the frame at work, the samples, the mark.
First(r) == \A q \in Records : Good(q) => r.n <= q.n
MarkOfFrame ==
    /\ frame[Video].at = "entry" => (frame[Video].valid => frame[Video].timed)
    /\ frame[Video].at \in {"write", "xu"} =>
          /\ frame[Video].record.formal <=> frame[Video].observed /\ frame[Video].record.timed
          /\ frame[Video].record.valid => frame[Video].record.timed
ValidIsFormal == \A r \in Records : IsJudged(Video, r) /\ r.valid => r.formal
Marked ==
    /\ candidateWritten <=> \E r \in Records : Good(r)
    /\ \A r \in Records : Good(r) => (r.candidate <=> First(r))

(* MarkInv is its parts.                                                    *)
LEMMA MarkParts ==
    /\ MarkInv <=> (device = "2uq2" => MarkOfFrame /\ ValidIsFormal /\ (exceptions = 0 => Marked))
    /\ MarkInv' <=> (device' = "2uq2" => MarkOfFrame' /\ ValidIsFormal' /\ (exceptions' = 0 => Marked'))
BY Zenon DEF MarkInv, MarkOfFrame, ValidIsFormal, Marked, First

(* The mark stays while the frames that are handled are the same.           *)
LEMMA MarkedOn ==
    ASSUME Marked, UNCHANGED candidateWritten, \A r \in Records : Good(r)' <=> Good(r)
    PROVE  Marked'
<1>1. \A r \in Records : First(r)' <=> First(r)
  BY Zenon DEF First
<1> QED BY <1>1, Zenon DEF Marked

(* A frame is classified, and marked if it is the first good one.           *)
LEMMA MarkedAtClassify ==
    ASSUME TypeOK, TypeOK', OrderInv, Marked, device = "2uq2", Classify(Video)
    PROVE  Marked'
<1> DEFINE f == frame[Video]
           x == frame'[Video].record
           Old(r) == IsJudged(Video, r) /\ r.formal /\ r.valid
<1>0. Video \in EgoStreams /\ Source(Video) = Video
  BY StreamFacts DEF Source
<1>1. f.at = "entry" /\ f \in Entries /\ frame'[Video].at = "write" /\ frame'[Video] \in Busy
  <2>1. f.at = "entry"
    BY DEF Classify
  <2>2. frame'[Video].at = "write"
    BY <1>0 DEF Classify, TypeOK
  <2>3. frame'[Video] \in {Idle} \cup Entries \cup Busy
    BY <1>0 DEF TypeOK
  <2> QED BY <1>0, <2>1, <2>2, <2>3, FrameFacts DEF Idle, Entries
<1>2. x \in Records
  BY <1>1, BusyFacts
<1>3. x.n = f.n /\ (x.candidate <=> x.formal /\ x.valid /\ ~candidateWritten)
      /\ (candidateWritten' <=> candidateWritten \/ (x.formal /\ x.valid))
  <2> DEFINE c == device = "2uq2" /\ IsFormal(f) /\ f.valid /\ ~candidateWritten
  <2>1. x = Record(f, IsFormal(f), c)
    BY <1>0 DEF Classify, TypeOK
  <2>2. x.n = f.n /\ x.formal = IsFormal(f) /\ x.valid = f.valid /\ x.candidate = c
    BY <2>1 DEF Record
  <2>3. candidateWritten' = (candidateWritten \/ c)
    BY DEF Classify
  <2>4. x.candidate <=> x.formal /\ x.valid /\ ~candidateWritten
    BY <2>2
  <2>5. candidateWritten' <=> candidateWritten \/ (x.formal /\ x.valid)
    BY <2>2, <2>3
  <2> QED BY <2>2, <2>4, <2>5
<1>4. \A r : IsJudged(Video, r)' <=> IsJudged(Video, r)
  <2>1. judged' = judged
    BY DEF Classify
  <2> QED BY <2>1, PlacesStay
<1>5. \A r : Good(r) <=> Old(r)
  BY <1>1 DEF Good, Handled
<1>6. \A r : Good(r)' <=> Old(r) \/ (r = x /\ r.formal /\ r.valid)
  <2>1. \A r : Handled(r)' <=> IsJudged(Video, r) \/ r = x
    <3>1. \A r : Handled(r)' <=> IsJudged(Video, r)' \/ (frame'[Video].at \in {"write", "xu"} /\ x = r)
      BY DEF Handled
    <3> QED BY <1>1, <1>4, <3>1
  <2>2. \A r : Good(r)' <=> Handled(r)' /\ r.formal /\ r.valid
    BY DEF Good
  <2> HIDE DEF x
  <2> QED BY <2>1, <2>2
<1>7. \A r \in Records : Old(r) => r.n < x.n /\ ~(x.n <= r.n) /\ r.n <= x.n
  <2>1. Current(Video) = f.n
    BY <1>0, <1>1 DEF Current
  <2>2. \A r \in Records : IsJudged(Video, r) => r.n < x.n
    BY <1>0, <1>3, <2>1 DEF OrderInv
  <2>3. \A r \in Records : r.n \in Nat /\ x.n \in Nat
    BY <1>2, RecordFacts
  <2> HIDE DEF x
  <2> QED BY <2>2, <2>3
<1>8. x.n <= x.n
  <2>1. x.n \in Nat
    BY <1>2, RecordFacts
  <2> HIDE DEF x
  <2> QED BY <2>1
<1>9. /\ candidateWritten <=> \E r \in Records : Old(r)
      /\ \A r \in Records : Old(r) => (r.candidate <=> \A q \in Records : Old(q) => r.n <= q.n)
  BY <1>5, Zenon DEF Marked, First
<1> DEFINE New(r) == Old(r) \/ (r = x /\ r.formal /\ r.valid)
<1>10. /\ Marked' <=> /\ candidateWritten' <=> \E r \in Records : New(r)
                      /\ \A r \in Records : New(r) => (r.candidate <=> \A q \in Records : New(q) => r.n <= q.n)
  BY <1>6, Zenon DEF Marked, First
<1> HIDE DEF x, Old
<1>11. candidateWritten' <=> \E r \in Records : New(r)
  BY <1>2, <1>3, <1>9, Zenon
<1>12. ASSUME NEW r \in Records, Old(r)
       PROVE  r.candidate <=> \A q \in Records : New(q) => r.n <= q.n
  BY <1>7, <1>9, <1>12, Zenon
<1>13. ASSUME x.formal /\ x.valid
       PROVE  x.candidate <=> \A q \in Records : New(q) => x.n <= q.n
  BY <1>2, <1>3, <1>7, <1>8, <1>9, <1>13, Zenon
<1>14. \A r \in Records : New(r) => (r.candidate <=> \A q \in Records : New(q) => r.n <= q.n)
  BY <1>12, <1>13, Zenon
<1> QED BY <1>10, <1>11, <1>14

(* The mark is kept by the thread of the 2UQ2.                              *)
LEMMA MarkOfCallback ==
    ASSUME TypeOK, TypeOK', ThreadInv, OrderInv, MarkInv, NEW s \in EgoStreams, Callback(s)
    PROVE  MarkInv'
<1> DEFINE f == frame[Video]
           g == frame'[Video]
           x == frame[Video].record
<1>0. SUFFICES ASSUME device = "2uq2"
               PROVE  MarkOfFrame' /\ ValidIsFormal' /\ (exceptions' = 0 => Marked')
  <2>1. device' = device
    BY CallbackFrames
  <2> QED BY <2>1, MarkParts, Zenon
<1>1. MarkOfFrame /\ ValidIsFormal /\ (exceptions = 0 => Marked)
  BY <1>0, MarkParts, Zenon
<1>2. /\ s = Video /\ Video \in EgoStreams /\ Xu \in EgoStreams /\ Video # Xu /\ EgoStreams \subseteq Streams
      /\ ~Submit(s) /\ ~Count(s) /\ Source(Video) = Video
  <2>1. s \in Threads
    BY <1>0 DEF Callback, Acquire, Classify, Submit, Count, AppendVideo, AppendXu, ThreadInv
  <2>2. Threads = {Video}
    BY <1>0 DEF Threads
  <2>3. ~Submit(s) /\ ~Count(s)
    BY <1>0 DEF Submit, Count, ThreadInv
  <2> QED BY <1>0, <2>1, <2>2, <2>3, StreamFacts DEF Source
<1>3. f \in {Idle} \cup Entries \cup Busy /\ g \in {Idle} \cup Entries \cup Busy /\ Idle.at = "idle"
  BY <1>2 DEF TypeOK, Idle
<1>4. ASSUME f.at \in {"write", "xu"}
      PROVE  x \in Records /\ f \in Busy
  BY <1>2, <1>4, FrameFacts, BusyFacts
<1>5. exceptions \in Nat /\ exceptions + 1 # 0
  BY DEF TypeOK
<1>6. ASSUME judged' = judged
      PROVE  ValidIsFormal' /\ (\A r : IsJudged(Video, r)' <=> IsJudged(Video, r))
  BY <1>1, <1>6, PlacesStay DEF ValidIsFormal
<1>7. CASE Acquire(Video)
  <2>1. f.at = "idle" /\ g.at = "entry" /\ (g.valid => g.timed)
    BY <1>2, <1>7, FrameSteps
  <2>2. UNCHANGED <<judged, exceptions, candidateWritten>>
    BY <1>7 DEF Acquire
  <2>3. MarkOfFrame'
    BY <2>1 DEF MarkOfFrame
  <2>4. \A r \in Records : Good(r)' <=> Good(r)
    <3>1. \A r \in Records : Handled(r)' <=> Handled(r)
      BY <1>6, <2>1, <2>2 DEF Handled
    <3> QED BY <3>1 DEF Good
  <2> QED BY <1>1, <1>6, <2>2, <2>3, <2>4, MarkedOn
<1>8. CASE Classify(Video)
  <2>1. UNCHANGED <<judged, exceptions>> /\ f.at = "entry"
    BY <1>8 DEF Classify
  <2>2. PICK c : g = [at |-> "write", observed |-> formalStart /\ f.late, record |-> Record(f, IsFormal(f), c)]
    BY <1>2, <1>8 DEF Classify, TypeOK
  <2>3. /\ g.at = "write" /\ g.observed = (formalStart /\ f.late) /\ g.record.formal = IsFormal(f)
        /\ g.record.timed = f.timed /\ g.record.valid = f.valid
    BY <2>2 DEF Record
  <2>4. f.valid => f.timed
    BY <1>1, <2>1 DEF MarkOfFrame
  <2>5. g.record.formal <=> g.observed /\ g.record.timed
    BY <2>3 DEF IsFormal
  <2>6. g.record.valid => g.record.timed
    BY <2>3, <2>4
  <2>7. MarkOfFrame'
    BY <2>3, <2>5, <2>6 DEF MarkOfFrame
  <2> QED BY <1>0, <1>1, <1>6, <1>8, <2>1, <2>7, MarkedAtClassify
<1>9. CASE AppendVideo(Video)
  <2>1. PICK o \in AppendOutcomes(writer, Video, x) :
               /\ o.error = None =>
                     frame' = [frame EXCEPT ![Video].at = "xu"] /\ UNCHANGED <<judged, exceptions, storageFailed>>
               /\ o.error # None =>
                     exceptions' = exceptions + 1 /\ frame' = [frame EXCEPT ![Video] = Idle] /\ UNCHANGED judged
    BY <1>2, <1>9, VideoAppended
  <2>2. UNCHANGED candidateWritten /\ f.at = "write" /\ judged' = judged
    BY <1>9, <2>1 DEF AppendVideo
  <2>3. CASE o.error = None
    <3>1. g = [f EXCEPT !.at = "xu"]
      BY <1>2, <2>1, <2>3 DEF TypeOK
    <3>2. g.at = "xu" /\ g.record = x /\ g.observed = f.observed
      BY <1>4, <2>2, <3>1, BusyFacts
    <3>3. MarkOfFrame'
      BY <1>1, <2>2, <3>2 DEF MarkOfFrame
    <3>4. \A r \in Records : Good(r)' <=> Good(r)
      <4>1. \A r \in Records : Handled(r)' <=> Handled(r)
        BY <1>6, <2>2, <3>2 DEF Handled
      <4> QED BY <4>1 DEF Good
    <3> QED BY <1>1, <1>6, <2>1, <2>2, <2>3, <3>3, <3>4, MarkedOn
  <2>4. CASE o.error # None
    <3>1. g.at = "idle"
      BY <1>2, <1>3, <2>1, <2>4 DEF TypeOK
    <3>2. MarkOfFrame'
      BY <3>1 DEF MarkOfFrame
    <3> QED BY <1>5, <1>6, <2>1, <2>2, <2>4, <3>2
  <2> QED BY <2>3, <2>4
<1>10. CASE AppendXu(Video)
  <2>1. PICK o \in AppendOutcomes(writer, Xu, x) :
               /\ frame' = [frame EXCEPT ![Video] = Idle]
               /\ o.error = None =>
                     /\ judged' = IF f.observed THEN [t \in EgoStreams |-> Append(judged[t], x)] ELSE judged
                     /\ UNCHANGED <<exceptions, storageFailed>>
               /\ o.error # None => exceptions' = exceptions + 1 /\ UNCHANGED judged
    BY <1>2, <1>10, XuAppended
  <2>2. UNCHANGED candidateWritten /\ f.at = "xu"
    BY <1>10 DEF AppendXu
  <2>3. g.at = "idle"
    BY <1>2, <1>3, <2>1 DEF TypeOK
  <2>4. MarkOfFrame'
    BY <2>3 DEF MarkOfFrame
  <2>5. CASE o.error # None
    BY <1>5, <1>6, <2>1, <2>4, <2>5
  <2>6. CASE o.error = None
    <3>0. (x.formal <=> f.observed /\ x.timed) /\ (x.valid => x.timed)
      BY <1>1, <2>2 DEF MarkOfFrame
    <3>1. \A r \in Records : Good(r) <=> (IsJudged(Video, r) \/ r = x) /\ r.formal /\ r.valid
      BY <2>2, Zenon DEF Good, Handled
    <3>2. \A r \in Records : Good(r)' <=> IsJudged(Video, r)' /\ r.formal /\ r.valid
      BY <2>3 DEF Good, Handled
    <3>3. CASE f.observed
      <4>1. judged'[Video] = Append(judged[Video], x)
        BY <1>2, <2>1, <2>6, <3>3
      <4>2. \A r : IsJudged(Video, r)' <=> IsJudged(Video, r) \/ r = x
        <5>1. x \in Records
          BY <1>4, <2>2
        <5> HIDE DEF x
        <5> QED BY <1>2, <4>1, <5>1, JudgedGrows
      <4>3. ValidIsFormal'
        BY <1>1, <3>0, <3>3, <4>2 DEF ValidIsFormal
      <4>4. \A r \in Records : Good(r)' <=> Good(r)
        BY <3>1, <3>2, <4>2, Zenon
      <4> QED BY <1>1, <2>1, <2>2, <2>4, <2>6, <4>3, <4>4, MarkedOn
    <3>4. CASE ~f.observed
      <4>1. judged' = judged
        BY <2>1, <2>6, <3>4
      <4>2. \A r \in Records : Good(r)' <=> Good(r)
        BY <1>6, <3>0, <3>1, <3>2, <3>4, <4>1, Zenon
      <4> QED BY <1>1, <1>6, <2>1, <2>2, <2>4, <2>6, <4>1, <4>2, MarkedOn
    <3> QED BY <3>3, <3>4
  <2> QED BY <2>5, <2>6
<1> QED BY <1>2, <1>7, <1>8, <1>9, <1>10 DEF Callback

(* The mark is kept.                                                        *)
LEMMA MarkKept ==
    ASSUME TypeOK, TypeOK', ThreadInv, FileInv, OrderInv, MarkInv, [Next]_vars
    PROVE  MarkInv'
<1>1. ASSUME UNCHANGED <<device, frame, judged, exceptions, candidateWritten>>
      PROVE  MarkInv'
  <2>1. \A r : IsJudged(Video, r)' <=> IsJudged(Video, r)
    BY <1>1, PlacesStay
  <2>2. \A r : Good(r)' <=> Good(r)
    BY <1>1, <2>1 DEF Good, Handled
  <2>3. MarkOfFrame => MarkOfFrame'
    BY <1>1 DEF MarkOfFrame
  <2>4. ValidIsFormal => ValidIsFormal'
    BY <2>1 DEF ValidIsFormal
  <2>5. Marked => Marked'
    BY <1>1, <2>2, MarkedOn
  <2>6. device = "2uq2" => MarkOfFrame /\ ValidIsFormal /\ (exceptions = 0 => Marked)
    BY MarkParts, Zenon
  <2>7. device' = "2uq2" => MarkOfFrame' /\ ValidIsFormal' /\ (exceptions' = 0 => Marked')
    BY <1>1, <2>3, <2>4, <2>5, <2>6
  <2> QED BY <2>7, MarkParts, Zenon
<1>2. CASE WriterTakes
  BY <1>1, <1>2 DEF WriterTakes, callbackVars
<1>3. CASE Elsewhere
  BY <1>1, <1>3, ElsewhereFrames
<1> QED BY <1>2, <1>3, MarkOfCallback DEF Next, Elsewhere

-----------------------------------------------------------------------------
(* A PASS.                                                                  *)

\* What a PASS promises.
Persisted ==
    /\ writer.state = "sealed" /\ writer.manifest = EgoStreams /\ ~writer.claimed
    /\ \A s \in EgoStreams :
           /\ InOrder([i \in DOMAIN writer.rows[s] |-> writer.rows[s][i].record]) /\ InOrder(judged[s])
           /\ FormalRecords(s) = ToSet(judged[s])
    /\ device = "2uq2" =>
          \A s \in EgoStreams :
              LET good == {r \in FormalRecords(s) : r.valid}
              IN  good # {} /\ \A r \in good : r.candidate <=> \A q \in good : r.n <= q.n

(* The formal records and the samples, by their members.                    *)
LEMMA MemberFacts ==
    ASSUME TypeOK, NEW s \in EgoStreams, NEW r
    PROVE  /\ r \in FormalRecords(s) <=> r \in Records /\ OnDisk(s, r) /\ r.formal
           /\ r \in ToSet(judged[s]) <=> r \in Records /\ IsJudged(s, r)
<1>1. r \in ToSet(judged[s]) <=> IsJudged(s, r)
  BY DEF ToSet, IsJudged
<1>2. r \in FormalRecords(s) <=> OnDisk(s, r) /\ r.formal
  <2>1. r \in FormalRecords(s) <=> \E row \in ToSet(writer.rows[s]) : row.record.formal /\ r = row.record
    BY DEF FormalRecords
  <2>2. (\E row \in ToSet(writer.rows[s]) : row.record.formal /\ r = row.record)
           <=> \E i \in DOMAIN writer.rows[s] : writer.rows[s][i].record = r /\ r.formal
    BY DEF ToSet
  <2> QED BY <2>1, <2>2 DEF OnDisk
<1>3. (OnDisk(s, r) => r \in Records) /\ (IsJudged(s, r) => r \in Records)
  BY RowFacts DEF OnDisk, IsJudged
<1> QED BY <1>1, <1>2, <1>3

(* A verdict that passes is about files that hold what it judged.           *)
LEMMA PassAtJudge ==
    ASSUME TypeOK, ThreadInv, OrderInv, FileInv, StopInv, JudgedInv, MarkInv, mpc = "judge",
           IF device = "d435i" THEN EgoAccepted ELSE TwoUQ2Accepted
    PROVE  Persisted
<1>0. ~captureError /\ (device = "d435i" \/ device = "2uq2")
  BY DEF EgoAccepted, TwoUQ2Accepted, TypeOK
<1>1. /\ \A s \in EgoStreams : frame[s] = Idle
      /\ writer.state = "sealed" /\ ~writer.claimed /\ writer.manifest = Opened(writer)
  BY <1>0 DEF StopInv, Stopped
<1>2. \A s \in EgoStreams, r \in Records : ~AtWork(s, r)
  <2>1. \A s \in EgoStreams : frame[Source(s)].at = "idle"
    BY <1>1, SourceFacts DEF Idle
  <2> QED BY <2>1 DEF AtWork, HandedOver
<1>3. \A s \in EgoStreams, r \in Records : ~InQueue(s, r)
  <2>1. queue = <<>>
    BY <1>0 DEF StopInv, ThreadInv
  <2> QED BY <2>1 DEF InQueue
<1>4. ASSUME device = "2uq2"
      PROVE  /\ exceptions = 0 /\ judged[Video] # <<>> /\ judged[Xu] = judged[Video]
             /\ \A s \in EgoStreams, r \in Records :
                    (IsJudged(s, r) <=> IsJudged(Video, r)) /\ (IsJudged(s, r) => r.valid /\ r.formal)
  <2>0. TwoUQ2Accepted
    BY <1>4
  <2>1. exceptions = 0 /\ judged[Video] # <<>> /\ judged[Xu] = judged[Video]
    BY <1>4, <2>0 DEF TwoUQ2Accepted, ThreadInv
  <2>2. \A s \in EgoStreams, r \in Records : IsJudged(s, r) <=> IsJudged(Video, r)
    BY <2>1, StreamFacts DEF IsJudged
  <2>3. \A r \in Records : IsJudged(Video, r) => r.valid
    BY <2>0, MemberFacts, StreamFacts DEF TwoUQ2Accepted
  <2>4. \A r \in Records : IsJudged(Video, r) /\ r.valid => r.formal
    BY <1>4 DEF MarkInv
  <2> QED BY <2>1, <2>2, <2>3, <2>4
<1>5. ASSUME NEW s \in EgoStreams, NEW r \in Records
      PROVE  OnDisk(s, r) /\ r.formal <=> IsJudged(s, r)
  <2>1. CASE device = "d435i"
    <3>1. EgoJudged(s, r)
      BY <1>0, <2>1, JudgedParts, Zenon
    <3> QED BY <1>2, <1>3, <3>1, Zenon DEF EgoJudged
  <2>2. CASE device = "2uq2"
    <3>1. TwoUQ2Judged(s, r)
      BY <1>4, <2>2, JudgedParts, Zenon
    <3> QED BY <1>2, <1>4, <2>2, <3>1, Zenon DEF TwoUQ2Judged
  <2> QED BY <1>0, <2>1, <2>2
<1>6. \A s \in EgoStreams : FormalRecords(s) = ToSet(judged[s])
  BY <1>5, MemberFacts
<1>7. ASSUME NEW s \in EgoStreams
      PROVE  \E r \in Records : IsJudged(s, r)
  <2>1. judged[s] # <<>>
    BY <1>0, <1>4, StreamFacts DEF EgoAccepted
  <2>2. judged[s] \in Seq(Records)
    BY DEF TypeOK
  <2>3. 1 \in DOMAIN judged[s]
    BY <2>1, <2>2, TailFacts
  <2> QED BY <2>3, RowFacts
<1>8. writer.manifest = EgoStreams
  <2>1. ASSUME NEW s \in EgoStreams
        PROVE  s \in Opened(writer)
    <3>1. PICK r \in Records : OnDisk(s, r)
      BY <1>5, <1>7
    <3>2. PICK i \in DOMAIN writer.rows[s] : writer.rows[s][i].record = r
      BY <3>1 DEF OnDisk
    <3>3. s \in Streams
      BY StreamFacts
    <3>4. writer.rows[s][i].offset < Len(writer.payload[s]) /\ writer.rows[s][i].offset \in Nat
      <4>1. writer.rows[s] \in Seq(Index(Records))
        BY <3>3, WriterFacts DEF TypeOK
      <4>2. writer.rows[s][i] \in Index(Records)
        BY <3>2, <4>1, ElementOfSeq, LenProperties
      <4> QED BY <3>2, <3>3, <4>2 DEF FileInv, Index
    <3>5. writer.payload[s] # <<>>
      <4>1. Len(<<>>) = 0
        BY EmptySeq
      <4> QED BY <3>4, <4>1
    <3> QED BY <3>3, <3>5 DEF Opened
  <2>2. \A s \in Streams \ EgoStreams : s \notin Opened(writer)
    BY DEF FileInv, Opened
  <2>3. Opened(writer) \subseteq Streams
    BY DEF Opened
  <2> QED BY <1>1, <2>1, <2>2, <2>3
<1>9. \A s \in EgoStreams :
          /\ InOrder([i \in DOMAIN writer.rows[s] |-> writer.rows[s][i].record]) /\ InOrder(judged[s])
  BY DEF OrderInv, DiskAscends, InOrder
<1>10. ASSUME device = "2uq2", NEW s \in EgoStreams
       PROVE  LET good == {r \in FormalRecords(s) : r.valid}
              IN  good # {} /\ \A r \in good : r.candidate <=> \A q \in good : r.n <= q.n
  <2> DEFINE good == {r \in FormalRecords(s) : r.valid}
  <2>1. \A r : r \in good <=> r \in Records /\ Good(r)
    <3>1. \A r \in Records : Good(r) <=> IsJudged(Video, r) /\ r.formal /\ r.valid
      <4>1. frame[Video].at = "idle"
        BY <1>1, StreamFacts DEF Idle
      <4> QED BY <4>1 DEF Good, Handled
    <3>2. \A r \in Records : IsJudged(s, r) <=> Good(r)
      BY <1>4, <1>10, <3>1
    <3>3. \A r : r \in good <=> r \in Records /\ IsJudged(s, r)
      <4>1. \A r : r \in ToSet(judged[s]) <=> r \in Records /\ IsJudged(s, r)
        BY MemberFacts
      <4>2. \A r : r \in good <=> r \in ToSet(judged[s]) /\ r.valid
        BY <1>6
      <4> QED BY <1>4, <1>10, <4>1, <4>2
    <3> QED BY <3>2, <3>3
  <2>2. \A r \in Records : Good(r) => (r.candidate <=> \A q \in Records : Good(q) => r.n <= q.n)
    BY <1>4, <1>10, MarkParts, Zenon DEF Marked, First
  <2>3. \E r : r \in good
    <3>1. PICK r \in Records : IsJudged(s, r)
      BY <1>7
    <3>2. r \in FormalRecords(s)
      BY <1>6, <3>1, MemberFacts
    <3> QED BY <1>4, <1>10, <3>1, <3>2
  <2> HIDE DEF good
  <2>4. \A r \in good : r.candidate <=> \A q \in good : r.n <= q.n
    BY <2>1, <2>2, Zenon
  <2>5. good # {}
    BY <2>3
  <2> QED BY <2>4, <2>5 DEF good
<1> QED BY <1>1, <1>6, <1>8, <1>9, <1>10 DEF Persisted

(* A verdict is given once, and nothing moves after it.                     *)
LEMMA PassKept ==
    ASSUME TypeOK, TypeOK', ThreadInv, OrderInv, FileInv, StopInv, JudgedInv, MarkInv, PassInv, [Next]_vars
    PROVE  PassInv'
<1>0. PassIsPersisted <=> (status = "PASS" => Persisted)
  BY DEF PassIsPersisted, Persisted
<1>1. CASE UNCHANGED vars
  <2>1. UNCHANGED <<device, writer, judged, mpc, status>>
    BY <1>1 DEF vars, mainVars, callbackVars
  <2>2. Persisted' <=> Persisted
    BY <2>1 DEF Persisted, FormalRecords
  <2>3. PassIsPersisted' <=> (status' = "PASS" => Persisted')
    BY DEF PassIsPersisted, Persisted
  <2> QED BY <1>0, <2>1, <2>2, <2>3 DEF PassInv
<1>2. ASSUME mpc # "exit", UNCHANGED status
      PROVE  PassInv'
  BY <1>2 DEF PassInv, PassIsPersisted
<1>3. ASSUME NEW s \in EgoStreams, Callback(s)
      PROVE  PassInv'
  <2>1. mpc # "exit" /\ UNCHANGED status
    BY <1>3, CallbackFrames DEF mainVars
  <2> QED BY <1>2, <2>1
<1>4. CASE WriterTakes \/ StartPasses
  BY <1>2, <1>4 DEF WriterTakes, StartPasses, mainVars
<1>5. CASE ReadStart \/ EndWindow \/ GiveUp \/ StopSource \/ PutSentinel \/ JoinWriter
  BY <1>2, <1>5 DEF ReadStart, EndWindow, GiveUp, StopSource, PutSentinel, JoinWriter
<1>6. CASE CloseWriter
  <2>1. mpc # "exit"
    BY <1>6, WriterCloses DEF CloseStep
  <2> QED BY <1>2, <1>6, <2>1 DEF CloseWriter
<1>7. CASE Judge
  <2>1. mpc' = "exit" /\ mpc = "judge" /\ UNCHANGED <<device, writer, judged>>
    BY <1>7 DEF Judge, callbackVars
  <2>2. CASE status' # "PASS"
    BY <2>1, <2>2 DEF PassInv, PassIsPersisted
  <2>3. CASE status' = "PASS"
    <3>1. IF device = "d435i" THEN EgoAccepted ELSE TwoUQ2Accepted
      BY <1>7, <2>3 DEF Judge
    <3>2. Persisted
      BY <2>1, <3>1, PassAtJudge
    <3>3. Persisted'
      BY <2>1, <3>2 DEF Persisted, FormalRecords
    <3> QED BY <2>1, <3>3 DEF PassInv, PassIsPersisted, Persisted
  <2> QED BY <2>2, <2>3
<1> QED BY <1>1, <1>3, <1>4, <1>5, <1>6, <1>7 DEF Next, Main

-----------------------------------------------------------------------------
(* The theorems.                                                            *)

(* The inductive invariant holds initially.                                 *)
LEMMA Start ==
    ASSUME Init
    PROVE  TypeOK /\ IInv
<1>0. Idle.at = "idle" /\ \A t \in EgoStreams : frame[t] = Idle /\ next[t] = 1
  BY DEF Init, Idle
<1>1. /\ \A s \in Streams : writer.rows[s] = <<>> /\ writer.payload[s] = <<>>
      /\ writer.closed = {} /\ writer.manifest = {} /\ writer.state = "active"
  BY DEF Init, NewWriter
<1>2. queue = <<>> /\ \A s \in EgoStreams : judged[s] = <<>>
  BY DEF Init
<1>3. DOMAIN <<>> = {}
  OBVIOUS
<1>4. \A s \in EgoStreams, r \in Records :
          ~OnDisk(s, r) /\ ~InPayload(s, r) /\ ~InQueue(s, r) /\ ~IsJudged(s, r) /\ ~AtWork(s, r)
  <2>1. \A s \in EgoStreams, r \in Records : ~OnDisk(s, r) /\ ~InPayload(s, r) /\ ~InQueue(s, r) /\ ~IsJudged(s, r)
    BY <1>1, <1>2, <1>3, StreamFacts DEF OnDisk, InPayload, InQueue, IsJudged
  <2>2. \A s \in EgoStreams : frame[Source(s)].at = "idle"
    BY <1>0, StreamFacts DEF Source
  <2> QED BY <2>1, <2>2 DEF AtWork, HandedOver
<1>5. ThreadInv
  BY <1>0, <1>2, StreamFacts DEF ThreadInv
<1>6. OrderInv
  <2>1. \A s \in EgoStreams : DiskAscends(s) /\ QueueAscends(s) /\ InOrder(judged[s])
    BY <1>1, <1>2, <1>3, StreamFacts DEF DiskAscends, QueueAscends, InOrder
  <2> QED BY <1>4, <2>1 DEF OrderInv
<1>7. FileInv
  BY <1>1, <1>3 DEF Init, FileInv, Hashed
<1>8. ClassInv
  BY <1>0, <1>4 DEF Init, ClassInv
<1>9. StopInv
  BY <1>2, <1>3 DEF Init, StopInv, Stopped
<1>10. JudgedInv
  BY <1>4, Zenon DEF JudgedInv
<1>11. MarkInv
  <2>1. \A r \in Records : ~Good(r) /\ ~IsJudged(Video, r)
    BY <1>0, <1>4, StreamFacts DEF Good, Handled
  <2>2. ~candidateWritten /\ frame[Video].at = "idle"
    BY <1>0, StreamFacts DEF Init
  <2> QED BY <2>1, <2>2 DEF MarkInv
<1>12. PassInv
  BY DEF Init, PassInv, PassIsPersisted, None
<1> QED BY <1>5, <1>6, <1>7, <1>8, <1>9, <1>10, <1>11, <1>12, InitTypes DEF IInv

(* Every step keeps it.                                                     *)
LEMMA Step ==
    ASSUME TypeOK, IInv, [Next]_vars
    PROVE  TypeOK' /\ IInv'
<1>1. ThreadInv /\ OrderInv /\ FileInv /\ ClassInv /\ StopInv /\ JudgedInv /\ MarkInv /\ PassInv
  BY DEF IInv
<1>2. TypeOK'
  BY <1>1, StepTypes
<1>3. ThreadInv' /\ OrderInv' /\ FileInv' /\ ClassInv'
  BY <1>1, <1>2, ThreadsKept, OrderKept, FilesKept, ClassesKept
<1>4. StopInv'
  BY <1>1, <1>2, StopOfCallback, StopOfWriter, StopOfMain DEF Next, Elsewhere
<1>5. JudgedInv' /\ MarkInv' /\ PassInv'
  BY <1>1, <1>2, JudgedKept, MarkKept, PassKept
<1> QED BY <1>2, <1>3, <1>4, <1>5 DEF IInv

(* The inductive invariant of the callbacks, the writer thread and main     *)
(* holds for queues of any size and any number of frames and errors.        *)
THEOREM Invariance == Spec => [](TypeOK /\ IInv)
<1>1. Init => TypeOK /\ IInv
  BY Start
<1>2. TypeOK /\ IInv /\ [Next]_vars => (TypeOK /\ IInv)'
  BY Step
<1> QED BY <1>1, <1>2, PTL DEF Spec

(* Frames, queue, files, samples and verdicts of the two ego cameras hold   *)
(* what the code can put there.                                             *)
THEOREM TypesAlwaysOK == Spec => []TypeOK
BY Invariance, PTL

(* What append and close of AppendOnlySessionWriter leave behind: every row *)
(* points at its own payload, and what manifest.json has hashed is what the *)
(* files hold, also of a source that did not stop.                          *)
THEOREM FilesAlwaysSound == Spec => []FilesAreSound
<1>1. TypeOK /\ IInv => FilesAreSound
  <2> SUFFICES ASSUME FileInv
               PROVE  FilesAreSound
    BY DEF IInv
  <2> QED BY StreamFacts DEF FileInv, Hashed, FilesAreSound
<1> QED BY <1>1, Invariance, PTL

(* A capture that passes has sealed, in order and in every stream, exactly  *)
(* the formal records it was judged by; both streams of a 2UQ2 mark its     *)
(* first valid formal record, though it was marked before it was written.   *)
THEOREM PassAlwaysPersisted == Spec => []PassIsPersisted
<1>1. TypeOK /\ IInv => PassIsPersisted
  BY DEF IInv, PassInv
<1> QED BY <1>1, Invariance, PTL

(* A record is formal by the time its frame was acquired, whichever thread  *)
(* read the scheduled start, and however long after it (is_warmup_sample,   *)
(* EgoFrameRecorder.handle).                                                *)
THEOREM AlwaysClassified == Spec => []ClassifiedByAcquisition
<1>1. TypeOK /\ IInv => ClassifiedByAcquisition
  <2> SUFFICES ASSUME TypeOK, ClassInv, formalStart, NEW s \in EgoStreams, NEW r \in ToSet(writer.payload[s])
               PROVE  r.formal <=> (r.timed /\ r.late)
    BY DEF IInv, ClassifiedByAcquisition
  <2>1. PICK i \in DOMAIN writer.payload[s] : writer.payload[s][i] = r
    BY DEF ToSet
  <2>2. writer.payload[s] \in Seq(Records)
    BY StreamFacts, WriterFacts DEF TypeOK
  <2>3. r \in Records
    BY <2>1, <2>2, ElementOfSeq, LenProperties
  <2>4. WellClassified(r)
    BY <2>1, <2>3 DEF ClassInv, InPayload
  <2> QED BY <2>4 DEF WellClassified
<1> QED BY <1>1, Invariance, PTL

(* A stop without an error has waited for every callback and, on a D435i,   *)
(* for every record in the queue: no frame reaches a file that is closed.   *)
THEOREM StopAlwaysWaits ==
    Spec => [](~captureError /\ mpc \in {"close", "files", "seal", "judge", "exit"} =>
                   queue = <<>> /\ \A s \in EgoStreams : frame[s] = Idle)
<1>1. TypeOK /\ IInv => (~captureError /\ mpc \in {"close", "files", "seal", "judge", "exit"} =>
                             queue = <<>> /\ \A s \in EgoStreams : frame[s] = Idle)
  BY DEF IInv, TypeOK, StopInv, ThreadInv, Stopped
<1> QED BY <1>1, Invariance, PTL

-----------------------------------------------------------------------------
(* The calibration recording.                                               *)

CalibrationStreams == {"ego.video", "ego.xu.packet", "ego.imu"}

\* What each variable of the recording may hold.
Recorders == [active : BOOLEAN, error : BOOLEAN, video : Nat, samples : Nat, xuFailures : Nat]
Items == CalibrationStreams \X Nat
Videos == [at : {"idle", "put", "preview"}, n : Nat, seen : Nat]
Children ==
    [pc : {"off", "warm", "ready", "poll", "exiting", "ended"}, batch : Seq(Nat), failures : Nat, reads : Nat,
     read : Nat, ready : BOOLEAN, error : BOOLEAN]
Batches == [samples : Seq(Nat), failures : Nat]
Flags == [start : BOOLEAN, stop : BOOLEAN, expired : BOOLEAN]
Previews == {"off", "asked", "run", "quit", "failed", "crashed", "stopped"}
Places == Calibration!Guarded \cup {"stopvideo", "stoppreview", "report", "exit"}
Mains == [pc : Places, pending : Seq(Nat), half : BOOLEAN, raised : {None, "error", "interrupt"}, aborted : BOOLEAN]
Outcomes == [status : {None, "error", "interrupt", "PASS", "PROVISIONAL_PASS", "FAIL"}, video : Nat, samples : Nat]

CalibrationTypes ==
    /\ upsets \in Nat
    /\ dataset \in Writers(Nat)
    /\ recorder \in Recorders
    /\ writes \in Seq(Items)
    /\ writing \in BOOLEAN
    /\ video \in Videos
    /\ playing \in BOOLEAN
    /\ child \in Children
    /\ messages \in Seq(Batches)
    /\ flags \in Flags
    /\ preview \in Previews
    /\ main \in Mains
    /\ outcome \in Outcomes

(* The writer that the recording uses is the one of the workers.            *)
LEMMA SameWriter ==
    /\ Calibration!NewWriter = NewWriter /\ Calibration!None = None
    /\ \A w : Calibration!Opened(w) = Opened(w) /\ Calibration!Failed(w) = Failed(w)
              /\ Calibration!BeginClose(w) = BeginClose(w)
    /\ \A w, e : Calibration!Outcome(w, e) = Outcome(w, e)
    /\ \A w, s, r : Calibration!AppendOutcomes(w, s, r) = AppendOutcomes(w, s, r)
    /\ \A w, s : Calibration!CloseStreamOutcomes(w, s) = CloseStreamOutcomes(w, s)
    /\ \A w : Calibration!PublishOutcomes(w) = PublishOutcomes(w) /\ Calibration!SealOutcomes(w) = SealOutcomes(w)
BY DEF Calibration!NewWriter, NewWriter, Calibration!None, None, Calibration!Opened, Opened, Calibration!Failed,
       Failed, Calibration!BeginClose, BeginClose, Calibration!Outcome, Outcome, Calibration!AppendOutcomes,
       AppendOutcomes, Calibration!CloseStreamOutcomes, CloseStreamOutcomes, Calibration!PublishOutcomes,
       PublishOutcomes, Calibration!SealOutcomes, SealOutcomes, Calibration!WithChunk, WithChunk,
       Calibration!WithRow, WithRow, Calibration!Row, Row, Calibration!Outgrown, Outgrown


(* The recording begins with what the code can put there.                   *)
LEMMA CalibrationTypesInit == Calibration!Init => CalibrationTypes
<1> SUFFICES ASSUME Calibration!Init
             PROVE  CalibrationTypes
  OBVIOUS
<1>1. NewWriter \in Writers(Nat)
  <2>1. <<>> \in Seq(Nat) /\ <<>> \in Seq(Index(Nat))
    BY EmptySeq
  <2> QED BY <2>1 DEF NewWriter, Writers
<1>2. <<>> \in Seq(Items) /\ <<>> \in Seq(Nat) /\ <<>> \in Seq(Batches)
  BY EmptySeq
<1>3. dataset \in Writers(Nat) /\ writes \in Seq(Items) /\ messages \in Seq(Batches)
  BY <1>1, <1>2, SameWriter DEF Calibration!Init
<1>4. recorder \in Recorders
  BY DEF Calibration!Init, Recorders
<1>5. video \in Videos
  BY DEF Calibration!Init, Videos
<1>6. child \in Children
  BY <1>2 DEF Calibration!Init, Children
<1>7. flags \in Flags
  BY DEF Calibration!Init, Flags
<1>8. main \in Mains
  BY <1>2, SameWriter DEF Calibration!Init, Mains, Places, Calibration!Guarded
<1>9. outcome \in Outcomes
  BY SameWriter DEF Calibration!Init, Outcomes
<1>10. upsets \in Nat /\ writing \in BOOLEAN /\ playing \in BOOLEAN /\ preview \in Previews
  BY DEF Calibration!Init, Previews
<1> QED BY <1>3, <1>4, <1>5, <1>6, <1>7, <1>8, <1>9, <1>10 DEF CalibrationTypes

(* The streaming thread and the writer thread.                              *)
LEMMA StreamingTypes ==
    ASSUME CalibrationTypes, Calibration!Streaming \/ Calibration!WriteOne
    PROVE  CalibrationTypes'
<1> USE DEF CalibrationTypes
<1>1. CASE Calibration!Frame
  <2>0. recorder \in Recorders /\ video \in Videos
    OBVIOUS
  <2>a. recorder.video + 1 \in Nat /\ video.seen + 1 \in Nat
    BY <2>0 DEF Recorders, Videos
  <2> HIDE DEF CalibrationTypes
  <2>1. recorder' \in Recorders
    <3>1. [recorder EXCEPT !.video = @ + 1] \in Recorders /\ [recorder EXCEPT !.error = TRUE] \in Recorders
      BY <2>0, <2>a DEF Recorders
    <3> QED BY <1>1, <2>0, <3>1 DEF Calibration!Frame
  <2>2. video' \in Videos
    <3>1. [at |-> "put", n |-> recorder.video + 1, seen |-> video.seen + 1] \in Videos
      BY <2>a DEF Videos
    <3>2. [video EXCEPT !.at = "preview", !.seen = @ + 1] \in Videos /\ [video EXCEPT !.seen = @ + 1] \in Videos
      BY <2>0, <2>a DEF Videos
    <3> QED BY <1>1, <3>1, <3>2 DEF Calibration!Frame
  <2> USE DEF CalibrationTypes
  <2>3. upsets' \in Nat
    BY <1>1 DEF Calibration!Frame, Calibration!Upset
  <2> QED BY <1>1, <2>1, <2>2, <2>3 DEF Calibration!Frame
<1>2. CASE Calibration!PutVideo
  <2>1. <<"ego.video", video.n>> \in Items
    BY DEF CalibrationStreams, Items, Videos
  <2>2. writes' \in Seq(Items)
    <3>1. Append(writes, <<"ego.video", video.n>>) \in Seq(Items)
      BY <2>1, AppendProperties
    <3> QED BY <1>2, <3>1 DEF Calibration!PutVideo
  <2>3. video' \in Videos
    BY <1>2 DEF Calibration!PutVideo, Videos
  <2>4. recorder' \in Recorders
    BY <1>2 DEF Calibration!PutVideo, Recorders
  <2> QED BY <1>2, <2>2, <2>3, <2>4 DEF Calibration!PutVideo
<1>3. CASE Calibration!Submit
  <2>1. recorder' \in Recorders
    BY <1>3 DEF Calibration!Submit, Recorders
  <2>2. video' \in Videos
    BY <1>3 DEF Calibration!Submit, Videos
  <2>3. upsets' \in Nat
    BY <1>3 DEF Calibration!Submit, Calibration!Upset
  <2> QED BY <1>3, <2>1, <2>2, <2>3 DEF Calibration!Submit
<1>4. CASE Calibration!WriteOne
  <2>1. writes \in Seq(Items) /\ writes # <<>> /\ writes' = Tail(writes)
    BY <1>4 DEF Calibration!WriteOne
  <2>2. Tail(writes) \in Seq(Items) /\ Head(writes) \in Items
    BY <2>1, TailFacts
  <2>3. Head(writes)[1] \in CalibrationStreams /\ Head(writes)[2] \in Nat
    BY <2>2 DEF Items
  <2>4. CASE recorder.error
    BY <1>4, <2>1, <2>2, <2>4 DEF Calibration!WriteOne
  <2>5. CASE ~recorder.error
    <3>1. PICK o \in AppendOutcomes(dataset, Head(writes)[1], Head(writes)[2]) :
              /\ dataset' = o.writer
              /\ recorder' = [recorder EXCEPT !.error = o.error # None]
              /\ upsets' \in Nat
      BY <1>4, <2>5, SameWriter DEF Calibration!WriteOne, Calibration!Upset
    <3>2. Head(writes)[1] \in Streams
      BY <2>3, CalibrationAssumption DEF CalibrationStreams
    <3>3. dataset' \in Writers(Nat)
      BY <2>3, <3>1, <3>2, Appended
    <3>4. recorder' \in Recorders
      BY <3>1 DEF Recorders
    <3> QED BY <1>4, <2>1, <2>2, <3>1, <3>3, <3>4 DEF Calibration!WriteOne
  <2> QED BY <2>4, <2>5
<1> QED BY <1>1, <1>2, <1>3, <1>4 DEF Calibration!Streaming

(* The child's batch goes on its queue, or the child ends.                  *)
LEMMA SentTypes ==
    ASSUME CalibrationTypes, NEW c \in Children, Calibration!Send(c) \/ (child' = c /\ UNCHANGED messages)
    PROVE  child' \in Children /\ messages' \in Seq(Batches)
<1>1. CASE Calibration!Send(c) /\ Len(messages) < MessageDepth
  <2>1. [samples |-> c.batch, failures |-> c.failures] \in Batches
    BY DEF Children, Batches
  <2>2. messages' \in Seq(Batches)
    BY <1>1, <2>1, AppendProperties DEF Calibration!Send, CalibrationTypes
  <2>3. <<>> \in Seq(Nat)
    BY EmptySeq
  <2>4. [c EXCEPT !.batch = <<>>] \in Children
    BY <2>3 DEF Children
  <2>5. [[c EXCEPT !.batch = <<>>] EXCEPT !.failures = 0] \in Children
    BY <2>4 DEF Children
  <2>6. child' = [[c EXCEPT !.batch = <<>>] EXCEPT !.failures = 0]
    BY <1>1 DEF Calibration!Send
  <2> QED BY <2>2, <2>5, <2>6
<1>2. CASE Calibration!Send(c) /\ ~(Len(messages) < MessageDepth)
  BY <1>2 DEF Calibration!Send, CalibrationTypes, Children
<1>3. CASE child' = c /\ UNCHANGED messages
  BY <1>3 DEF CalibrationTypes
<1> QED BY <1>1, <1>2, <1>3

(* The IMU's process.                                                       *)
LEMMA ChildTypes ==
    ASSUME CalibrationTypes, Calibration!Child \/ Calibration!ChildDies
    PROVE  CalibrationTypes'
<1>1. CASE Calibration!ChildReady
  <2>1. child' \in Children
    BY <1>1 DEF Calibration!ChildReady, Children, CalibrationTypes
  <2> QED BY <1>1, <2>1 DEF Calibration!ChildReady, Calibration!Upset, CalibrationTypes
<1>2. CASE Calibration!ChildStarts
  <2>1. child' \in Children
    BY <1>2 DEF Calibration!ChildStarts, Children, CalibrationTypes
  <2> QED BY <1>2, <2>1 DEF Calibration!ChildStarts, CalibrationTypes
<1>3. CASE Calibration!ChildReads
  <2> DEFINE read   == [child EXCEPT !.reads = @ + 1, !.read = @ + 1, !.batch = Append(@, child.read + 1)]
             failed == [child EXCEPT !.reads = @ + 1, !.failures = @ + 1]
  <2>0. child \in Children
    BY DEF CalibrationTypes
  <2>1. child.batch \in Seq(Nat) /\ child.read + 1 \in Nat
    BY <2>0 DEF Children
  <2>2. Append(child.batch, child.read + 1) \in Seq(Nat)
    BY <2>1, AppendProperties
  <2>3. PICK c \in {read, failed} : Calibration!Send(c) \/ (child' = c /\ UNCHANGED messages)
    BY <1>3 DEF Calibration!ChildReads
  <2>4. read \in Children /\ failed \in Children
    <3>1. [child EXCEPT !.reads = @ + 1] \in Children
      BY <2>0 DEF Children
    <3>2. child.failures + 1 \in Nat
      BY <2>0 DEF Children
    <3>3. failed \in Children
      BY <3>1, <3>2 DEF Children
    <3>4. [[child EXCEPT !.reads = @ + 1] EXCEPT !.read = child.read + 1] \in Children
      BY <2>1, <3>1 DEF Children
    <3>5. [[[child EXCEPT !.reads = @ + 1] EXCEPT !.read = child.read + 1]
              EXCEPT !.batch = Append(child.batch, child.read + 1)] \in Children
      BY <2>2, <3>4 DEF Children
    <3> QED BY <3>3, <3>5
  <2> HIDE DEF read, failed
  <2>5. child' \in Children /\ messages' \in Seq(Batches)
    BY <2>3, <2>4, SentTypes
  <2> QED BY <1>3, <2>5 DEF Calibration!ChildReads, CalibrationTypes
<1>4. CASE Calibration!ChildEnds
  <2> DEFINE c == [child EXCEPT !.pc = "exiting"]
  <2>1. Calibration!Send(c) \/ (child' = c /\ UNCHANGED messages)
    BY <1>4 DEF Calibration!ChildEnds
  <2>2. c \in Children
    BY DEF Children, CalibrationTypes
  <2> HIDE DEF c
  <2>3. child' \in Children /\ messages' \in Seq(Batches)
    BY <2>1, <2>2, SentTypes
  <2> QED BY <1>4, <2>3 DEF Calibration!ChildEnds, CalibrationTypes
<1>5. CASE Calibration!ChildExits
  <2>1. child' \in Children
    BY <1>5 DEF Calibration!ChildExits, Children, CalibrationTypes
  <2> QED BY <1>5, <2>1 DEF Calibration!ChildExits, CalibrationTypes
<1>6. CASE Calibration!ChildDies
  <2>0. messages \in Seq(Batches)
    BY DEF CalibrationTypes
  <2>1. ASSUME NEW kept \in 0..Len(messages)
        PROVE  SubSeq(messages, 1, kept) \in Seq(Batches)
    <3>1. Len(messages) \in Nat /\ \A i \in 1..Len(messages) : messages[i] \in Batches
      BY <2>0, LenProperties, ElementOfSeq
    <3>2. \A i \in 1..kept : messages[i] \in Batches
      BY <3>1
    <3> QED BY <2>0, <3>1, <3>2, SubSeqProperties
  <2>2. messages' \in Seq(Batches)
    BY <1>6, <2>1 DEF Calibration!ChildDies
  <2>3. child' \in Children
    BY <1>6 DEF Calibration!ChildDies, Children, CalibrationTypes
  <2> QED BY <1>6, <2>2, <2>3 DEF Calibration!ChildDies, Calibration!Upset, CalibrationTypes
<1> QED BY <1>1, <1>2, <1>3, <1>4, <1>5, <1>6 DEF Calibration!Child

-----------------------------------------------------------------------------
(* What is on its way.                                                      *)

\* The rows of a stream, and then its items in the queue, are records 1 to h.
Carries(rows, q, s, h) ==
    /\ Len(rows) <= h
    /\ \A i \in DOMAIN rows : rows[i].record = i
    /\ \A i, j \in DOMAIN q : i < j /\ q[i][1] = s /\ q[j][1] = s => q[i][2] < q[j][2]
    /\ \A n \in Nat : (\E i \in DOMAIN q : q[i][1] = s /\ q[i][2] = n) <=> Len(rows) < n /\ n <= h

(* The next record of the stream is queued.                                 *)
LEMMA CarriesMore ==
    ASSUME NEW rows \in Seq(Index(Nat)), NEW q \in Seq(Items), NEW s, NEW h \in Nat, NEW e \in Items,
           Carries(rows, q, s, h), e[1] = s, e[2] = h + 1
    PROVE  Carries(rows, Append(q, e), s, h + 1)
<1> DEFINE r == Append(q, e)
<1>1. /\ Len(q) \in Nat /\ DOMAIN q = 1..Len(q) /\ DOMAIN r = 1..Len(q) + 1
      /\ (\A i \in DOMAIN q : r[i] = q[i]) /\ r[Len(q) + 1] = e
  BY AppendFacts
<1>2. \A i \in DOMAIN q : q[i] \in Items /\ q[i][2] \in Nat
  BY <1>1, ElementOfSeq DEF Items
<1>3. Len(rows) \in Nat
  BY LenProperties
<1> HIDE DEF r
<1>4. ASSUME NEW i \in DOMAIN r, NEW j \in DOMAIN r, i < j, r[i][1] = s, r[j][1] = s
      PROVE  r[i][2] < r[j][2]
  <2>1. i \in DOMAIN q /\ r[i] = q[i]
    BY <1>1, <1>4
  <2>2. CASE j \in DOMAIN q
    BY <1>1, <1>4, <2>1, <2>2 DEF Carries
  <2>3. CASE j \notin DOMAIN q
    <3>1. r[j] = e
      BY <1>1, <2>3
    <3>2. q[i][2] <= h
      BY <1>2, <1>4, <2>1 DEF Carries
    <3> QED BY <1>2, <2>1, <3>1, <3>2
  <2> QED BY <2>2, <2>3
<1>5. ASSUME NEW n \in Nat
      PROVE  (\E i \in DOMAIN r : r[i][1] = s /\ r[i][2] = n) <=> Len(rows) < n /\ n <= h + 1
  <2>1. ASSUME NEW i \in DOMAIN r, r[i][1] = s, r[i][2] = n
        PROVE  Len(rows) < n /\ n <= h + 1
    <3>1. CASE i \in DOMAIN q
      BY <1>1, <1>2, <1>3, <2>1, <3>1 DEF Carries
    <3>2. CASE i \notin DOMAIN q
      BY <1>1, <1>3, <2>1, <3>2 DEF Carries
    <3> QED BY <3>1, <3>2
  <2>2. ASSUME Len(rows) < n, n <= h + 1
        PROVE  \E i \in DOMAIN r : r[i][1] = s /\ r[i][2] = n
    <3>1. CASE n = h + 1
      <4>1. PICK k \in DOMAIN r : r[k] = e
        BY <1>1
      <4>2. r[k][1] = s /\ r[k][2] = n
        BY <3>1, <4>1
      <4> QED BY <4>2
    <3>2. CASE n # h + 1
      <4>1. PICK i \in DOMAIN q : q[i][1] = s /\ q[i][2] = n
        <5>1. n <= h
          BY <2>2, <3>2
        <5> QED BY <2>2, <5>1 DEF Carries
      <4>2. i \in DOMAIN r /\ r[i] = q[i]
        BY <1>1
      <4> QED BY <4>1, <4>2
    <3> QED BY <3>1, <3>2
  <2> QED BY <2>1, <2>2
<1>6. Carries(rows, r, s, h + 1)
  BY <1>3, <1>4, <1>5 DEF Carries
<1> QED BY <1>6 DEF r

(* A record of another stream is queued.                                    *)
LEMMA CarriesOther ==
    ASSUME NEW rows \in Seq(Index(Nat)), NEW q \in Seq(Items), NEW s, NEW h \in Nat, NEW e \in Items,
           Carries(rows, q, s, h), e[1] # s
    PROVE  Carries(rows, Append(q, e), s, h)
<1> DEFINE r == Append(q, e)
<1>1. /\ Len(q) \in Nat /\ DOMAIN q = 1..Len(q) /\ DOMAIN r = 1..Len(q) + 1
      /\ (\A i \in DOMAIN q : r[i] = q[i]) /\ r[Len(q) + 1] = e
  BY AppendFacts
<1> HIDE DEF r
<1>2. \A i \in DOMAIN r : r[i][1] = s => i \in DOMAIN q /\ r[i] = q[i]
  BY <1>1
<1>3. \A i \in DOMAIN q : i \in DOMAIN r /\ r[i] = q[i]
  BY <1>1
<1>4. \A i, j \in DOMAIN r : i < j /\ r[i][1] = s /\ r[j][1] = s => r[i][2] < r[j][2]
  BY <1>2 DEF Carries
<1>5. \A n \in Nat : (\E i \in DOMAIN r : r[i][1] = s /\ r[i][2] = n)
                        <=> (\E i \in DOMAIN q : q[i][1] = s /\ q[i][2] = n)
  BY <1>2, <1>3
<1>6. Carries(rows, r, s, h)
  BY <1>4, <1>5 DEF Carries
<1> QED BY <1>6 DEF r

(* The head of the queue is written.                                        *)
LEMMA CarriesWritten ==
    ASSUME NEW rows \in Seq(Index(Nat)), NEW q \in Seq(Items), NEW s, NEW h \in Nat, NEW offset \in Nat,
           q # <<>>, Carries(rows, q, s, h), Head(q)[1] = s
    PROVE  Carries(Append(rows, Row(Head(q)[2], offset)), Tail(q), s, h)
<1> DEFINE n == q[1][2]
           more == Append(rows, Row(Head(q)[2], offset))
<1>1. /\ Head(q) = q[1] /\ q[1] \in Items /\ 1 \in DOMAIN q /\ DOMAIN q = 1..Len(q) /\ Len(q) \in Nat
      /\ DOMAIN Tail(q) = 1..Len(q) - 1
      /\ \A i \in DOMAIN Tail(q) : i + 1 \in DOMAIN q /\ Tail(q)[i] = q[i + 1]
      /\ \A i \in DOMAIN q : i # 1 => i - 1 \in DOMAIN Tail(q) /\ q[i] = Tail(q)[i - 1]
  BY TailFacts
<1>2. \A i \in DOMAIN q : q[i] \in Items /\ q[i][2] \in Nat
  BY <1>1, ElementOfSeq DEF Items
<1>3. Len(rows) \in Nat /\ DOMAIN rows = 1..Len(rows)
  BY LenProperties
<1>4. n \in Nat /\ Len(rows) < n /\ n <= h
  BY <1>1, <1>2 DEF Carries
<1>5. n = Len(rows) + 1
  <2>1. PICK i \in DOMAIN q : q[i][1] = s /\ q[i][2] = Len(rows) + 1
    BY <1>3, <1>4 DEF Carries
  <2>2. CASE i = 1
    BY <2>1, <2>2
  <2>3. CASE i # 1
    <3>1. 1 < i
      BY <1>1, <2>3
    <3>2. q[1][2] < q[i][2]
      BY <1>1, <2>1, <3>1 DEF Carries
    <3> QED BY <1>3, <1>4, <2>1, <3>2
  <2> QED BY <2>2, <2>3
<1>6. /\ Len(more) = Len(rows) + 1 /\ DOMAIN more = 1..Len(rows) + 1
      /\ (\A i \in DOMAIN rows : more[i] = rows[i]) /\ more[Len(rows) + 1].record = n
  <2>1. Row(Head(q)[2], offset) \in Index(Nat) /\ Row(Head(q)[2], offset).record = n
    BY <1>1, <1>4 DEF Row, Index
  <2> HIDE DEF n
  <2> QED BY <2>1, AppendFacts
<1> HIDE DEF n, more
<1>7. \A i \in DOMAIN more : more[i].record = i
  BY <1>3, <1>5, <1>6 DEF Carries
<1>8. \A i, j \in DOMAIN Tail(q) : i < j /\ Tail(q)[i][1] = s /\ Tail(q)[j][1] = s => Tail(q)[i][2] < Tail(q)[j][2]
  <2> TAKE i, j \in DOMAIN Tail(q)
  <2>1. i + 1 \in DOMAIN q /\ j + 1 \in DOMAIN q /\ (i < j => i + 1 < j + 1)
    BY <1>1
  <2> QED BY <1>1, <2>1 DEF Carries
<1>9. ASSUME NEW m \in Nat
      PROVE  (\E i \in DOMAIN Tail(q) : Tail(q)[i][1] = s /\ Tail(q)[i][2] = m) <=> Len(more) < m /\ m <= h
  <2>1. ASSUME NEW i \in DOMAIN Tail(q), Tail(q)[i][1] = s, Tail(q)[i][2] = m
        PROVE  Len(more) < m /\ m <= h
    <3>1. i + 1 \in DOMAIN q /\ 1 < i + 1 /\ q[i + 1][1] = s /\ q[i + 1][2] = m
      BY <1>1, <2>1
    <3>2. n < m
      BY <1>1, <3>1 DEF Carries, n
    <3>3. m <= h
      BY <3>1 DEF Carries
    <3> QED BY <1>5, <1>6, <3>2, <3>3
  <2>2. ASSUME Len(more) < m, m <= h
        PROVE  \E i \in DOMAIN Tail(q) : Tail(q)[i][1] = s /\ Tail(q)[i][2] = m
    <3>1. PICK i \in DOMAIN q : q[i][1] = s /\ q[i][2] = m
      BY <1>3, <1>6, <2>2 DEF Carries
    <3>2. i # 1
      BY <1>3, <1>5, <1>6, <2>2, <3>1 DEF n
    <3>3. i - 1 \in DOMAIN Tail(q) /\ q[i] = Tail(q)[i - 1]
      BY <1>1, <3>2
    <3> QED BY <3>1, <3>3
  <2> QED BY <2>1, <2>2
<1>10. Len(more) <= h
  BY <1>3, <1>4, <1>5, <1>6
<1>11. Carries(more, Tail(q), s, h)
  BY <1>7, <1>8, <1>9, <1>10 DEF Carries
<1> QED BY <1>11 DEF more

(* The head of the queue is of another stream.                              *)
LEMMA CarriesTail ==
    ASSUME NEW rows \in Seq(Index(Nat)), NEW q \in Seq(Items), NEW s, NEW h \in Nat,
           q # <<>>, Carries(rows, q, s, h), Head(q)[1] # s
    PROVE  Carries(rows, Tail(q), s, h)
<1>1. /\ Head(q) = q[1] /\ DOMAIN q = 1..Len(q) /\ DOMAIN Tail(q) = 1..Len(q) - 1 /\ Len(q) \in Nat
      /\ \A i \in DOMAIN Tail(q) : i + 1 \in DOMAIN q /\ Tail(q)[i] = q[i + 1]
      /\ \A i \in DOMAIN q : i # 1 => i - 1 \in DOMAIN Tail(q) /\ q[i] = Tail(q)[i - 1]
  BY TailFacts
<1>2. \A i, j \in DOMAIN Tail(q) : i < j /\ Tail(q)[i][1] = s /\ Tail(q)[j][1] = s => Tail(q)[i][2] < Tail(q)[j][2]
  <2> TAKE i, j \in DOMAIN Tail(q)
  <2>1. i + 1 \in DOMAIN q /\ j + 1 \in DOMAIN q /\ (i < j => i + 1 < j + 1)
    BY <1>1
  <2> QED BY <1>1, <2>1 DEF Carries
<1>3. ASSUME NEW n \in Nat
      PROVE  (\E i \in DOMAIN Tail(q) : Tail(q)[i][1] = s /\ Tail(q)[i][2] = n)
                <=> (\E i \in DOMAIN q : q[i][1] = s /\ q[i][2] = n)
  <2>1. ASSUME NEW i \in DOMAIN q, q[i][1] = s, q[i][2] = n
        PROVE  \E j \in DOMAIN Tail(q) : Tail(q)[j][1] = s /\ Tail(q)[j][2] = n
    <3>1. i - 1 \in DOMAIN Tail(q) /\ q[i] = Tail(q)[i - 1]
      BY <1>1, <2>1
    <3> QED BY <2>1, <3>1
  <2> QED BY <1>1, <2>1
<1> QED BY <1>2, <1>3 DEF Carries

(* When nothing is queued, the rows are all there is.                       *)
LEMMA CarriesAll ==
    ASSUME NEW rows \in Seq(Index(Nat)), NEW q \in Seq(Items), NEW s, NEW h \in Nat, q = <<>>, Carries(rows, q, s, h)
    PROVE  [i \in DOMAIN rows |-> rows[i].record] = Calibration!UpTo(h)
<1>1. Len(rows) \in Nat /\ DOMAIN rows = 1..Len(rows) /\ DOMAIN q = 1..0
  BY LenProperties, EmptySeq
<1>2. Len(rows) <= h /\ (\A i \in DOMAIN rows : rows[i].record = i)
  BY DEF Carries
<1>3. Len(rows) < h /\ h <= h => \E i \in DOMAIN q : q[i][1] = s /\ q[i][2] = h
  BY DEF Carries
<1>4. ~(Len(rows) < h)
  BY <1>1, <1>3
<1>5. Len(rows) = h
  BY <1>1, <1>2, <1>4
<1> QED BY <1>1, <1>2, <1>5 DEF Calibration!UpTo

(* At the beginning nothing is on its way.                                  *)
LEMMA CarriesNone ==
    ASSUME NEW rows \in Seq(Index(Nat)), NEW q \in Seq(Items), NEW s, rows = <<>>, q = <<>>
    PROVE  Carries(rows, q, s, 0)
<1>1. Len(rows) = 0 /\ DOMAIN rows = 1..0 /\ DOMAIN q = 1..0
  BY LenProperties, EmptySeq
<1> QED BY <1>1 DEF Carries

\* Batches of samples, first + 1 to last one after the other.
RelaysBy(ms, before, first, last) ==
    /\ before[1] = first /\ before[Len(ms) + 1] = last
    /\ \A m \in 1..Len(ms) :
           /\ before[m + 1] = before[m] + Len(ms[m].samples)
           /\ \A i \in DOMAIN ms[m].samples : ms[m].samples[i] = before[m] + i
Relays(ms, first, last) == \E before \in [1..Len(ms) + 1 -> Nat] : RelaysBy(ms, before, first, last)

(* No batch, no samples.                                                    *)
LEMMA RelaysNone ==
    ASSUME NEW ms \in Seq(Batches), ms = <<>>, NEW first \in Nat, NEW last
    PROVE  Relays(ms, first, last) <=> first = last
<1>1. Len(ms) = 0
  BY EmptySeq
<1>2. ASSUME Relays(ms, first, last) PROVE first = last
  BY <1>1, <1>2 DEF Relays, RelaysBy
<1>3. ASSUME first = last PROVE Relays(ms, first, last)
  <2> DEFINE before == [m \in 1..1 |-> first]
  <2>1. before \in [1..Len(ms) + 1 -> Nat] /\ RelaysBy(ms, before, first, last)
    BY <1>1, <1>3 DEF RelaysBy
  <2> QED BY <2>1 DEF Relays
<1> QED BY <1>2, <1>3

(* The samples that follow are sent.                                        *)
LEMMA RelaysSent ==
    ASSUME NEW ms \in Seq(Batches), NEW first \in Nat, NEW last \in Nat, NEW e \in Batches,
           Relays(ms, first, last), \A i \in DOMAIN e.samples : e.samples[i] = last + i
    PROVE  Relays(Append(ms, e), first, last + Len(e.samples))
<1> DEFINE more == Append(ms, e)
           k == Len(ms)
           n == Len(e.samples)
<1>1. /\ k \in Nat /\ DOMAIN ms = 1..k /\ Len(more) = k + 1
      /\ (\A m \in DOMAIN ms : more[m] = ms[m]) /\ more[k + 1] = e
  BY AppendFacts
<1>2. n \in Nat
  BY LenProperties DEF Batches
<1>3. PICK before \in [1..k + 1 -> Nat] : RelaysBy(ms, before, first, last)
  BY DEF Relays
<1> DEFINE after == [m \in 1..k + 2 |-> IF m = k + 2 THEN last + n ELSE before[m]]
<1> HIDE DEF more, k, n
<1>4. after \in [1..Len(more) + 1 -> Nat] /\ (\A m \in 1..k + 1 : after[m] = before[m]) /\ after[k + 2] = last + n
  BY <1>1, <1>2, <1>3
<1>5. before[k + 1] = last /\ before[1] = first
  BY <1>3 DEF RelaysBy, k
<1> HIDE DEF after
<1>6. after[1] = first /\ after[Len(more) + 1] = last + n
  BY <1>1, <1>4, <1>5
<1>7. ASSUME NEW m \in 1..Len(more)
      PROVE  /\ after[m + 1] = after[m] + Len(more[m].samples)
             /\ \A i \in DOMAIN more[m].samples : more[m].samples[i] = after[m] + i
  <2>1. CASE m \in 1..k
    <3>1. more[m] = ms[m] /\ after[m + 1] = before[m + 1] /\ after[m] = before[m]
      <4>1. m \in 1..k + 1 /\ m + 1 \in 1..k + 1
        BY <1>1, <2>1
      <4> QED BY <1>1, <1>4, <2>1, <4>1
    <3> QED BY <1>3, <2>1, <3>1 DEF RelaysBy, k
  <2>2. CASE m = k + 1
    <3>0. m + 1 = k + 2 /\ m \in 1..k + 1
      BY <1>1, <2>2
    <3>1. more[m] = e /\ after[m + 1] = last + n /\ after[m] = last
      BY <1>1, <1>4, <1>5, <2>2, <3>0
    <3> QED BY <3>1 DEF n
  <2> QED BY <1>1, <2>1, <2>2
<1>8. RelaysBy(more, after, first, last + n)
  BY <1>6, <1>7 DEF RelaysBy
<1>9. Relays(more, first, last + n)
  BY <1>4, <1>8 DEF Relays
<1> QED BY <1>9 DEF more, n

(* The first batch is taken.                                                *)
LEMMA RelaysTaken ==
    ASSUME NEW ms \in Seq(Batches), NEW first \in Nat, NEW last, ms # <<>>, Relays(ms, first, last)
    PROVE  /\ \A i \in DOMAIN Head(ms).samples : Head(ms).samples[i] = first + i
           /\ Relays(Tail(ms), first + Len(Head(ms).samples), last)
<1> DEFINE k == Len(ms)
           rest == Tail(ms)
<1>1. /\ k \in Nat \ {0} /\ Len(rest) = k - 1 /\ Head(ms) = ms[1]
      /\ DOMAIN rest = 1..k - 1 /\ \A m \in 1..k - 1 : rest[m] = ms[m + 1]
  BY TailFacts
<1>2. PICK before \in [1..k + 1 -> Nat] : RelaysBy(ms, before, first, last)
  BY DEF Relays
<1>3. before[1] = first /\ before[k + 1] = last
  BY <1>2 DEF RelaysBy
<1>4. \A m \in 1..k : /\ before[m + 1] = before[m] + Len(ms[m].samples)
                      /\ \A i \in DOMAIN ms[m].samples : ms[m].samples[i] = before[m] + i
  BY <1>2 DEF RelaysBy
<1> HIDE DEF k, rest
<1>5. /\ before[2] = first + Len(Head(ms).samples)
      /\ \A i \in DOMAIN Head(ms).samples : Head(ms).samples[i] = first + i
  <2>1. 1 \in 1..k /\ 1 + 1 = 2
    BY <1>1
  <2> QED BY <1>1, <1>3, <1>4, <2>1
<1> DEFINE after == [m \in 1..k |-> before[m + 1]]
<1>6. after \in [1..Len(rest) + 1 -> Nat] /\ \A m \in 1..k : after[m] = before[m + 1]
  BY <1>1, <1>2
<1> HIDE DEF after
<1>7. after[1] = first + Len(Head(ms).samples) /\ after[Len(rest) + 1] = last
  <2>1. 1 \in 1..k /\ k \in 1..k /\ 1 + 1 = 2 /\ Len(rest) + 1 = k
    BY <1>1
  <2>2. after[1] = before[2] /\ after[k] = before[k + 1]
    BY <1>6, <2>1
  <2> QED BY <1>3, <1>5, <2>1, <2>2
<1>8. ASSUME NEW m \in 1..Len(rest)
      PROVE  /\ after[m + 1] = after[m] + Len(rest[m].samples)
             /\ \A i \in DOMAIN rest[m].samples : rest[m].samples[i] = after[m] + i
  <2>1. m \in 1..k /\ m + 1 \in 1..k /\ m \in 1..k - 1
    BY <1>1
  <2>2. rest[m] = ms[m + 1] /\ after[m + 1] = before[m + 1 + 1] /\ after[m] = before[m + 1]
    BY <1>1, <1>6, <2>1
  <2> QED BY <1>4, <2>1, <2>2
<1>9. RelaysBy(rest, after, first + Len(Head(ms).samples), last)
  BY <1>7, <1>8 DEF RelaysBy
<1>10. Relays(rest, first + Len(Head(ms).samples), last)
  BY <1>6, <1>9 DEF Relays
<1> QED BY <1>5, <1>10 DEF rest

-----------------------------------------------------------------------------
(* main.                                                                    *)

(* The fields of the records.                                               *)
LEMMA FieldFacts ==
    ASSUME CalibrationTypes
    PROVE  /\ recorder.active \in BOOLEAN /\ recorder.error \in BOOLEAN /\ recorder.video \in Nat
           /\ recorder.samples \in Nat /\ recorder.xuFailures \in Nat
           /\ video.at \in {"idle", "put", "preview"} /\ video.n \in Nat
           /\ child.batch \in Seq(Nat) /\ child.read \in Nat /\ child.error \in BOOLEAN
           /\ main.pc \in Places /\ main.pending \in Seq(Nat) /\ main.half \in BOOLEAN
           /\ main.raised \in {None, "error", "interrupt"} /\ main.aborted \in BOOLEAN
           /\ dataset.rows \in [Streams -> Seq(Index(Nat))]
<1> USE DEF CalibrationTypes
<1>1. /\ recorder.active \in BOOLEAN /\ recorder.error \in BOOLEAN /\ recorder.video \in Nat
      /\ recorder.samples \in Nat /\ recorder.xuFailures \in Nat
  BY DEF Recorders
<1>2. video.at \in {"idle", "put", "preview"} /\ video.n \in Nat
  BY DEF Videos
<1>3. child.batch \in Seq(Nat) /\ child.read \in Nat /\ child.error \in BOOLEAN
  BY DEF Children
<1>4. /\ main.pc \in Places /\ main.pending \in Seq(Nat) /\ main.half \in BOOLEAN
      /\ main.raised \in {None, "error", "interrupt"} /\ main.aborted \in BOOLEAN
  BY DEF Mains
<1>5. dataset.rows \in [Streams -> Seq(Index(Nat))]
  BY WriterFacts
<1> QED BY <1>1, <1>2, <1>3, <1>4, <1>5

(* What main sets of itself when it goes on.                                *)
LEMMA GotoFacts ==
    ASSUME main \in Mains, NEW pc \in Places, Calibration!Goto(pc)
    PROVE  /\ main' \in Mains /\ main'.pc = pc
           /\ main'.pending = main.pending /\ main'.half = main.half
           /\ main'.raised = main.raised /\ main'.aborted = main.aborted
BY DEF Mains, Calibration!Goto

(* What it leaves undone at an exception, and where that takes it.          *)
LEMMA UnwindFacts ==
    ASSUME main \in Mains, main.pc \in Calibration!Guarded, NEW e \in {"error", "interrupt"},
           main' = [main EXCEPT !.pc = Calibration!Unwind(main.pc), !.raised = e, !.pending = <<>>, !.half = FALSE]
    PROVE  /\ main' \in Mains /\ main'.pending = <<>> /\ ~main'.half
           /\ main'.raised = e /\ main'.raised # None /\ main'.aborted = main.aborted
           /\ main'.pc \in {"stoppreview", "stopvideo", "stopimu", "close"}
           /\ main'.pc = "stoppreview" => main.pc \in {"preview", "writer", "close", "files", "seal"}
           /\ main'.pc = "close" => main.pc = "finishwrites"
<1> DEFINE pc == Calibration!Unwind(main.pc)
<1>1. /\ pc \in {"stoppreview", "stopvideo", "stopimu", "close"}
      /\ pc = "stoppreview" => main.pc \in {"preview", "writer", "close", "files", "seal"}
      /\ pc = "close" => main.pc = "finishwrites"
  BY DEF Calibration!Unwind, Calibration!Guarded
<1>2. pc \in Places
  BY <1>1 DEF Places, Calibration!Guarded
<1> HIDE DEF pc
<1>3. <<>> \in Seq(Nat) /\ e # None /\ e \in {None, "error", "interrupt"}
  BY EmptySeq DEF None
<1>4. main' = [[[[main EXCEPT !.pc = pc] EXCEPT !.raised = e] EXCEPT !.pending = <<>>] EXCEPT !.half = FALSE]
  BY DEF pc
<1>5. [main EXCEPT !.pc = pc] \in Mains
  BY <1>2 DEF Mains
<1>6. [[main EXCEPT !.pc = pc] EXCEPT !.raised = e] \in Mains
  BY <1>3, <1>5 DEF Mains
<1>7. main' \in Mains
  BY <1>3, <1>4, <1>6 DEF Mains
<1>8. main'.pc = pc /\ main'.raised = e /\ main'.pending = <<>> /\ ~main'.half /\ main'.aborted = main.aborted
  BY <1>4 DEF Mains
<1> QED BY <1>1, <1>3, <1>7, <1>8

LEMMA RaiseFacts ==
    ASSUME main \in Mains, main.pc \in Calibration!Guarded, Calibration!Raise
    PROVE  /\ main' \in Mains /\ main'.pending = <<>> /\ ~main'.half
           /\ main'.raised # None /\ main'.aborted = main.aborted
           /\ main'.pc \in {"stoppreview", "stopvideo", "stopimu", "close"}
           /\ main'.pc = "stoppreview" => main.pc \in {"preview", "writer", "close", "files", "seal"}
           /\ main'.pc = "close" => main.pc = "finishwrites"
<1>1. "error" \in {"error", "interrupt"}
  OBVIOUS
<1>2. main' = [main EXCEPT !.pc = Calibration!Unwind(main.pc), !.raised = "error", !.pending = <<>>, !.half = FALSE]
  BY DEF Calibration!Raise
<1> QED BY <1>1, <1>2, UnwindFacts

(* What the steps of main do to the recorder.                               *)
LEMMA RecorderFacts ==
    ASSUME recorder \in Recorders, NEW b \in BOOLEAN, NEW n \in Nat
    PROVE  /\ [recorder EXCEPT !.active = b] \in Recorders
           /\ [recorder EXCEPT !.active = b].error = recorder.error
           /\ [recorder EXCEPT !.active = b].video = recorder.video
           /\ [recorder EXCEPT !.active = b].samples = recorder.samples
           /\ [recorder EXCEPT !.error = b] \in Recorders
           /\ [recorder EXCEPT !.error = b].error = b
           /\ [recorder EXCEPT !.error = b].video = recorder.video
           /\ [recorder EXCEPT !.error = b].samples = recorder.samples
           /\ [recorder EXCEPT !.xuFailures = n] \in Recorders
           /\ [recorder EXCEPT !.xuFailures = n].error = recorder.error
           /\ [recorder EXCEPT !.xuFailures = n].video = recorder.video
           /\ [recorder EXCEPT !.xuFailures = n].samples = recorder.samples
           /\ [recorder EXCEPT !.samples = n, !.error = b] \in Recorders
           /\ [recorder EXCEPT !.samples = n, !.error = b].error = b
           /\ [recorder EXCEPT !.samples = n, !.error = b].video = recorder.video
           /\ [recorder EXCEPT !.samples = n, !.error = b].samples = n
BY DEF Recorders

-----------------------------------------------------------------------------
(* The inductive invariant of the recording.                                *)

\* The frames and the samples that have been queued for the writer.
QueuedFrames == IF video.at = "put" THEN recorder.video - 1 ELSE recorder.video
QueuedSamples == IF main.half THEN recorder.samples - 1 ELSE recorder.samples

VideoFlows ==
    ~recorder.error =>
        /\ video.at = "put" => recorder.video > 0 /\ video.n = recorder.video
        /\ Carries(dataset.rows["ego.video"], writes, "ego.video", QueuedFrames)

\* Nothing has gone wrong so far.
Whole == ~recorder.error /\ main.raised = None /\ ~main.aborted /\ ~child.error

\* The child's batch holds its last reads.
Reading(c) ==
    /\ Len(c.batch) <= c.read
    /\ \A i \in DOMAIN c.batch : c.batch[i] = c.read - Len(c.batch) + i

SamplesFlow ==
    Whole =>
        /\ main.half => recorder.samples > 0
        /\ Carries(dataset.rows["ego.xu.packet"], writes, "ego.xu.packet", recorder.samples)
        /\ Carries(dataset.rows["ego.imu"], writes, "ego.imu", QueuedSamples)
        /\ \A i \in DOMAIN main.pending : main.pending[i] = QueuedSamples + i
        /\ Relays(messages, QueuedSamples + Len(main.pending), child.read - Len(child.batch))
        /\ Reading(child)

\* What main has in hand, and what it has said.
PendingHold ==
    /\ main.pending # <<>> => main.pc \in {"loop", "finish"}
    /\ main.half => main.pending # <<>>
    /\ main.pc = "report" => main.raised = None
    /\ outcome.status # None => main.pc = "exit"

\* A child that has not begun, or that has ended well, holds no sample.
ChildHold ==
    /\ child.pc \in {"off", "warm", "ready"} => child.batch = <<>>
    /\ main.pc \in {"preview", "writer", "play", "imu"} => child.pc = "off"
    /\ main.raised = None /\ child.pc \in {"exiting", "ended"} /\ ~child.error => child.batch = <<>>

\* What is over at each stage of a stop without an exception.
Ended == {"stoppreview", "report", "exit"}
Closing == {"close", "files", "seal"} \cup Ended

StagesHold ==
    main.raised = None =>
        /\ main.pc \in {"stopimu", "stopvideo", "finishwrites"} \cup Closing =>
               child.pc = "ended" /\ ~child.error /\ messages = <<>>
        /\ main.pc \in {"finishwrites"} \cup Closing => ~playing /\ video.at = "idle"
        /\ main.pc \in Closing => writes = <<>> /\ ~writing /\ ~recorder.error
        /\ main.pc \in {"seal"} \cup Ended => dataset.manifest = Opened(dataset)
        /\ main.pc \in Ended => dataset.state = "sealed"

CalibrationFiles == Hashed(dataset) /\ (main.pc \notin Ended => dataset.state = "active")

\* An accepted report counts what was queued.
AcceptedIsCounted ==
    Calibration!Accepted =>
        /\ main.pc = "exit" /\ main.raised = None /\ ~main.aborted
        /\ outcome.video = recorder.video /\ outcome.samples = recorder.samples

CalibrationInv ==
    VideoFlows /\ SamplesFlow /\ PendingHold /\ ChildHold /\ StagesHold /\ CalibrationFiles /\ AcceptedIsCounted

(* What leaves the frames, the samples and the files as they are.           *)
LEMMA VideoStays ==
    ASSUME VideoFlows, ~recorder'.error => ~recorder.error, recorder'.video = recorder.video,
           video'.at = video.at, video'.n = video.n, dataset'.rows = dataset.rows, writes' = writes
    PROVE  VideoFlows'
BY DEF VideoFlows, QueuedFrames

LEMMA SamplesStay ==
    ASSUME SamplesFlow,
           Whole' => /\ Whole /\ recorder'.samples = recorder.samples
                     /\ main'.half = main.half /\ main'.pending = main.pending
                     /\ dataset'.rows = dataset.rows /\ writes' = writes /\ messages' = messages
                     /\ child'.batch = child.batch /\ child'.read = child.read
    PROVE  SamplesFlow'
<1> SUFFICES ASSUME Whole'
             PROVE  SamplesFlow'
  BY DEF SamplesFlow
<1> QED BY DEF SamplesFlow, QueuedSamples, Reading

LEMMA FilesStay ==
    ASSUME CalibrationFiles, dataset' = dataset, main'.pc \notin Ended => main.pc \notin Ended
    PROVE  CalibrationFiles'
BY DEF CalibrationFiles, Hashed

(* A report is not accepted before the exit.                                *)
LEMMA NotYetCounted ==
    ASSUME PendingHold, main.pc # "exit", outcome' = outcome
    PROVE  AcceptedIsCounted' /\ outcome.status = None
BY SameWriter DEF PendingHold, AcceptedIsCounted, Calibration!Accepted, None

LEMMA CountedStays ==
    ASSUME AcceptedIsCounted, outcome' = outcome, main' = main,
           Calibration!Accepted => recorder'.video = recorder.video /\ recorder'.samples = recorder.samples
    PROVE  AcceptedIsCounted'
BY DEF AcceptedIsCounted, Calibration!Accepted

(* The streaming thread.                                                    *)
LEMMA StreamingKeeps ==
    ASSUME CalibrationTypes, CalibrationInv, Calibration!Streaming
    PROVE  CalibrationInv'
<1> USE DEF CalibrationInv
<1>1. /\ recorder \in Recorders /\ video \in Videos /\ writes \in Seq(Items)
      /\ dataset.rows["ego.video"] \in Seq(Index(Nat)) /\ dataset.rows["ego.imu"] \in Seq(Index(Nat))
      /\ dataset.rows["ego.xu.packet"] \in Seq(Index(Nat))
      /\ recorder.video \in Nat /\ recorder.samples \in Nat /\ recorder.error \in BOOLEAN
  BY FieldFacts, CalibrationAssumption DEF CalibrationTypes
<1>2. main' = main /\ outcome' = outcome /\ dataset' = dataset /\ child' = child /\ messages' = messages
      /\ writing' = writing /\ playing' = playing
  BY DEF Calibration!Streaming, Calibration!Frame, Calibration!PutVideo, Calibration!Submit
<1>3. /\ video.at = "put" \/ video.at = "preview" \/ playing
      /\ recorder'.samples = recorder.samples /\ (~recorder'.error => ~recorder.error)
  <2>1. CASE Calibration!Frame
    BY <1>1, <2>1 DEF Calibration!Frame, Recorders
  <2>2. CASE Calibration!PutVideo
    BY <1>1, <2>2 DEF Calibration!PutVideo, Recorders
  <2>3. CASE Calibration!Submit
    BY <1>1, <2>3 DEF Calibration!Submit, Recorders
  <2> QED BY <2>1, <2>2, <2>3 DEF Calibration!Streaming
<1>4. ~(main.raised = None /\ main.pc \in {"finishwrites"} \cup Closing)
  BY <1>3 DEF StagesHold
<1>5. VideoFlows'
  <2>1. CASE Calibration!Frame
    <3>1. \/ /\ recorder'.video = recorder.video + 1 /\ recorder'.error = recorder.error
             /\ video'.at = "put" /\ video'.n = recorder.video + 1
          \/ video'.at = "preview" /\ recorder' = recorder
          \/ recorder'.error
      <4> DEFINE counted == [recorder EXCEPT !.video = @ + 1]
                 fresh   == [at |-> "put", n |-> recorder.video + 1, seen |-> video.seen + 1]
                 shown   == [video EXCEPT !.at = "preview", !.seen = @ + 1]
                 broken  == [recorder EXCEPT !.error = TRUE]
      <4>1. counted.video = recorder.video + 1 /\ counted.error = recorder.error
        BY <1>1 DEF Recorders
      <4>2. fresh.at = "put" /\ fresh.n = recorder.video + 1 /\ shown.at = "preview"
        BY <1>1 DEF Videos
      <4>3. broken.error
        BY <1>1 DEF Recorders
      <4>4. \/ recorder' = counted /\ video' = fresh
            \/ recorder' = recorder /\ video' = shown
            \/ recorder' = broken
        BY <2>1 DEF Calibration!Frame
      <4> HIDE DEF counted, fresh, shown, broken
      <4> QED BY <4>1, <4>2, <4>3, <4>4
    <3>2. writes' = writes /\ video.at = "idle"
      BY <2>1 DEF Calibration!Frame
    <3>3. CASE /\ recorder'.video = recorder.video + 1 /\ recorder'.error = recorder.error
               /\ video'.at = "put" /\ video'.n = recorder.video + 1
      <4>1. QueuedFrames' = QueuedFrames
        BY <1>1, <3>2, <3>3 DEF QueuedFrames
      <4> QED BY <1>1, <1>2, <3>2, <3>3, <4>1 DEF VideoFlows
    <3>4. CASE video'.at = "preview" /\ recorder' = recorder
      <4>1. QueuedFrames' = QueuedFrames
        BY <3>2, <3>4 DEF QueuedFrames
      <4> QED BY <1>2, <3>2, <3>4, <4>1 DEF VideoFlows
    <3> QED BY <3>1, <3>3, <3>4 DEF VideoFlows
  <2>2. CASE Calibration!PutVideo
    <3>1. CASE Calibration!Refuses
      BY <1>1, <2>2, <3>1 DEF Calibration!PutVideo, Recorders, VideoFlows
    <3>2. CASE ~Calibration!Refuses
      <4> DEFINE e == <<"ego.video", video.n>>
      <4>1. e \in Items /\ e[1] = "ego.video" /\ e[2] = video.n
        BY <1>1 DEF Items, Videos, CalibrationStreams
      <4>2. /\ writes' = Append(writes, e) /\ recorder' = recorder /\ video.at = "put" /\ ~recorder.error
            /\ video'.at = "preview"
        BY <1>1, <2>2, <3>2 DEF Calibration!PutVideo, Calibration!Refuses, Videos
      <4> HIDE DEF e
      <4>3. /\ recorder.video > 0 /\ video.n = recorder.video
            /\ Carries(dataset.rows["ego.video"], writes, "ego.video", recorder.video - 1)
        BY <4>2 DEF VideoFlows, QueuedFrames
      <4>4. recorder.video - 1 \in Nat /\ recorder.video - 1 + 1 = recorder.video
        BY <1>1, <4>3
      <4>5. Carries(dataset.rows["ego.video"], Append(writes, e), "ego.video", recorder.video)
        BY <1>1, <4>1, <4>3, <4>4, CarriesMore
      <4> QED BY <1>2, <4>2, <4>5 DEF VideoFlows, QueuedFrames
    <3> QED BY <3>1, <3>2
  <2>3. CASE Calibration!Submit
    <3>1. video.at = "preview" /\ video'.at = "idle" /\ writes' = writes /\ recorder'.video = recorder.video
      BY <1>1, <2>3 DEF Calibration!Submit, Videos, Recorders
    <3>2. QueuedFrames' = QueuedFrames
      BY <3>1 DEF QueuedFrames
    <3> QED BY <1>2, <1>3, <3>1, <3>2 DEF VideoFlows
  <2> QED BY <2>1, <2>2, <2>3 DEF Calibration!Streaming
<1>6. SamplesFlow'
  <2>1. Whole' => Whole
    BY <1>2, <1>3 DEF Whole
  <2>2. CASE writes' = writes
    BY <1>2, <1>3, <2>1, <2>2, SamplesStay
  <2>3. CASE writes' # writes
    <3> DEFINE e == <<"ego.video", video.n>>
    <3>1. e \in Items /\ e[1] = "ego.video"
      BY <1>1 DEF Items, Videos, CalibrationStreams
    <3>2. writes' = Append(writes, e)
      BY <2>3 DEF Calibration!Streaming, Calibration!Frame, Calibration!PutVideo, Calibration!Submit
    <3> HIDE DEF e
    <3>3. SUFFICES ASSUME Whole'
                   PROVE  SamplesFlow'
      BY DEF SamplesFlow
    <3>4. /\ main.half => recorder.samples > 0
          /\ Carries(dataset.rows["ego.xu.packet"], writes, "ego.xu.packet", recorder.samples)
          /\ Carries(dataset.rows["ego.imu"], writes, "ego.imu", QueuedSamples)
      BY <2>1, <3>3 DEF SamplesFlow
    <3>5. QueuedSamples \in Nat /\ QueuedSamples' = QueuedSamples
      BY <1>1, <1>2, <1>3, <3>4 DEF QueuedSamples
    <3>6. Carries(dataset.rows["ego.xu.packet"], writes', "ego.xu.packet", recorder.samples)
      BY <1>1, <3>1, <3>2, <3>4, CarriesOther
    <3>7. Carries(dataset.rows["ego.imu"], writes', "ego.imu", QueuedSamples)
      BY <1>1, <3>1, <3>2, <3>4, <3>5, CarriesOther
    <3> QED BY <1>2, <1>3, <2>1, <3>3, <3>5, <3>6, <3>7 DEF SamplesFlow, Reading
  <2> QED BY <2>2, <2>3
<1>7. PendingHold' /\ ChildHold'
  BY <1>2 DEF PendingHold, ChildHold
<1>8. StagesHold'
  <2>1. main'.pc = main.pc /\ main'.raised = main.raised
    BY <1>2
  <2> QED BY <1>2, <1>4, <2>1 DEF StagesHold, Closing, Ended
<1>9. CalibrationFiles'
  BY <1>2, FilesStay
<1>10. AcceptedIsCounted'
  <2>1. ~Calibration!Accepted
    BY <1>4 DEF AcceptedIsCounted, Closing, Ended
  <2> QED BY <1>2, <2>1, CountedStays
<1> QED BY <1>5, <1>6, <1>7, <1>8, <1>9, <1>10

(* A row that is written was the head of the queue.                         *)
LEMMA WrittenCarries ==
    ASSUME CalibrationTypes, Calibration!WriteOne, ~recorder'.error,
           NEW s \in CalibrationStreams, NEW h \in Nat, Carries(dataset.rows[s], writes, s, h)
    PROVE  Carries(dataset'.rows[s], writes', s, h)
<1>1. writes \in Seq(Items) /\ writes # <<>> /\ writes' = Tail(writes) /\ dataset \in Writers(Nat)
      /\ recorder \in Recorders /\ s \in Streams
  BY CalibrationAssumption DEF Calibration!WriteOne, CalibrationTypes, CalibrationStreams
<1>2. Head(writes) \in Items
  BY <1>1, TailFacts
<1>3. Head(writes)[1] \in CalibrationStreams /\ Head(writes)[2] \in Nat /\ Head(writes)[1] \in Streams
  BY <1>2, CalibrationAssumption DEF Items, CalibrationStreams
<1>4. ~recorder.error
  BY DEF Calibration!WriteOne
<1>5. PICK o \in AppendOutcomes(dataset, Head(writes)[1], Head(writes)[2]) :
          dataset' = o.writer /\ recorder' = [recorder EXCEPT !.error = o.error # None]
  BY <1>4, SameWriter DEF Calibration!WriteOne
<1>6. o.error = None
  BY <1>1, <1>5 DEF Recorders
<1>7. dataset.rows[s] \in Seq(Index(Nat)) /\ Len(dataset.payload[s]) \in Nat
  BY <1>1, WriterFacts, LenProperties
<1>8. CASE Head(writes)[1] = s
  <2>1. dataset'.rows[s] = Append(dataset.rows[s], Row(Head(writes)[2], Len(dataset.payload[s])))
    BY <1>1, <1>3, <1>5, <1>6, <1>8, Appended
  <2> QED BY <1>1, <1>7, <1>8, <2>1, CarriesWritten
<1>9. CASE Head(writes)[1] # s
  <2>1. dataset'.rows[s] = dataset.rows[s]
    BY <1>1, <1>3, <1>5, <1>9, AppendedElsewhere
  <2> QED BY <1>1, <1>7, <1>9, <2>1, CarriesTail
<1> QED BY <1>8, <1>9

(* An append leaves what is hashed alone.                                   *)
LEMMA AppendKeepsHashes ==
    ASSUME NEW R, NEW w \in Writers(R), NEW s \in Streams, NEW r \in R, NEW o \in AppendOutcomes(w, s, r), Hashed(w)
    PROVE  Hashed(o.writer)
<1> SUFFICES ASSUME NEW t \in Streams, t \in o.writer.manifest \/ (t \in o.writer.closed /\ o.writer.state = "active")
             PROVE  t \in o.writer.closed /\ o.writer.hashed[t] = <<o.writer.payload[t], o.writer.rows[t]>>
  BY DEF Hashed
<1>1. /\ o.writer.state = w.state /\ o.writer.closed = w.closed
      /\ o.writer.manifest = w.manifest /\ o.writer.hashed = w.hashed
  BY Appended
<1>2. t \in w.closed /\ w.hashed[t] = <<w.payload[t], w.rows[t]>>
  BY <1>1 DEF Hashed
<1>3. CASE t # s
  BY <1>1, <1>2, <1>3, AppendedElsewhere
<1>4. CASE t = s
  <2>1. o.writer.payload[s] = w.payload[s]
    BY <1>2, <1>4, Appended
  <2>2. o.error # None
    BY <1>2, <1>4, Appended
  <2>3. o.writer.rows = w.rows
    BY <2>2, Appended
  <2> QED BY <1>1, <1>2, <1>4, <2>1, <2>3
<1> QED BY <1>3, <1>4

(* The writer thread.                                                       *)
LEMMA WriteOneKeeps ==
    ASSUME CalibrationTypes, CalibrationInv, Calibration!WriteOne
    PROVE  CalibrationInv'
<1> USE DEF CalibrationInv
<1>1. /\ dataset \in Writers(Nat) /\ recorder \in Recorders /\ writes \in Seq(Items)
      /\ recorder.video \in Nat /\ recorder.samples \in Nat
      /\ "ego.video" \in CalibrationStreams /\ "ego.imu" \in CalibrationStreams
      /\ "ego.xu.packet" \in CalibrationStreams
  BY FieldFacts DEF CalibrationTypes, CalibrationStreams
<1>2. /\ main' = main /\ outcome' = outcome /\ child' = child /\ messages' = messages /\ video' = video
      /\ writing' = writing /\ playing' = playing /\ writing /\ writes # <<>>
  BY DEF Calibration!WriteOne
<1>3. /\ recorder'.video = recorder.video /\ recorder'.samples = recorder.samples
      /\ ~recorder'.error => ~recorder.error
  <2>1. recorder' = recorder \/ \E b \in BOOLEAN : ~recorder.error /\ recorder' = [recorder EXCEPT !.error = b]
    BY DEF Calibration!WriteOne
  <2> QED BY <1>1, <2>1 DEF Recorders
<1>4. ~(main.raised = None /\ main.pc \in Closing)
  BY <1>2 DEF StagesHold
<1>5. VideoFlows'
  <2> SUFFICES ASSUME ~recorder'.error
               PROVE  VideoFlows'
    BY DEF VideoFlows
  <2>1. /\ video.at = "put" => recorder.video > 0 /\ video.n = recorder.video
        /\ Carries(dataset.rows["ego.video"], writes, "ego.video", QueuedFrames)
    BY <1>3 DEF VideoFlows
  <2>2. QueuedFrames \in Nat /\ QueuedFrames' = QueuedFrames
    BY <1>1, <1>2, <1>3, <2>1 DEF QueuedFrames
  <2>3. Carries(dataset'.rows["ego.video"], writes', "ego.video", QueuedFrames)
    BY <1>1, <2>1, <2>2, WrittenCarries
  <2> QED BY <1>2, <1>3, <2>1, <2>2, <2>3 DEF VideoFlows
<1>6. SamplesFlow'
  <2> SUFFICES ASSUME Whole'
               PROVE  SamplesFlow'
    BY DEF SamplesFlow
  <2>1. Whole /\ ~recorder'.error
    BY <1>2, <1>3 DEF Whole
  <2>2. /\ main.half => recorder.samples > 0
        /\ Carries(dataset.rows["ego.xu.packet"], writes, "ego.xu.packet", recorder.samples)
        /\ Carries(dataset.rows["ego.imu"], writes, "ego.imu", QueuedSamples)
    BY <2>1 DEF SamplesFlow
  <2>3. QueuedSamples \in Nat /\ QueuedSamples' = QueuedSamples
    BY <1>1, <1>2, <1>3, <2>2 DEF QueuedSamples
  <2>4. Carries(dataset'.rows["ego.xu.packet"], writes', "ego.xu.packet", recorder.samples)
    BY <1>1, <2>1, <2>2, WrittenCarries
  <2>5. Carries(dataset'.rows["ego.imu"], writes', "ego.imu", QueuedSamples)
    BY <1>1, <2>1, <2>2, <2>3, WrittenCarries
  <2> QED BY <1>2, <1>3, <2>1, <2>3, <2>4, <2>5 DEF SamplesFlow, Reading
<1>7. PendingHold' /\ ChildHold'
  BY <1>2 DEF PendingHold, ChildHold
<1>8. StagesHold'
  <2>1. main'.pc = main.pc /\ main'.raised = main.raised
    BY <1>2
  <2> QED BY <1>2, <1>4, <2>1 DEF StagesHold, Closing, Ended
<1>9. CalibrationFiles'
  <2>1. CASE dataset' = dataset
    BY <1>2, <2>1, FilesStay
  <2>2. CASE dataset' # dataset
    <3>1. Head(writes)[1] \in Streams /\ Head(writes)[2] \in Nat
      <4>1. Head(writes) \in Items
        BY <1>1, <1>2, TailFacts
      <4> QED BY <4>1, CalibrationAssumption DEF Items, CalibrationStreams
    <3>2. PICK o \in AppendOutcomes(dataset, Head(writes)[1], Head(writes)[2]) : dataset' = o.writer
      BY <2>2, SameWriter DEF Calibration!WriteOne
    <3>3. Hashed(dataset') /\ dataset'.state = dataset.state
      BY <1>1, <3>1, <3>2, Appended, AppendKeepsHashes DEF CalibrationFiles
    <3>4. Hashed(dataset)'
      BY <3>3 DEF Hashed
    <3> QED BY <1>2, <3>3, <3>4 DEF CalibrationFiles
  <2> QED BY <2>1, <2>2
<1>10. AcceptedIsCounted'
  BY <1>2, <1>3, CountedStays
<1> QED BY <1>5, <1>6, <1>7, <1>8, <1>9, <1>10

(* What the child sends, and what it keeps.                                 *)
LEMMA SendFlows ==
    ASSUME messages \in Seq(Batches), NEW c \in Children, NEW first \in Nat,
           Calibration!Send(c) \/ (child' = c /\ UNCHANGED messages),
           Reading(c), Relays(messages, first, c.read - Len(c.batch))
    PROVE  child'.error \/ /\ Reading(child') /\ child'.read = c.read
                           /\ Relays(messages', first, child'.read - Len(child'.batch))
<1>1. c.batch \in Seq(Nat) /\ c.read \in Nat /\ c.error \in BOOLEAN
  BY DEF Children
<1>2. Len(c.batch) \in Nat /\ DOMAIN c.batch = 1..Len(c.batch)
  BY <1>1, LenProperties
<1>3. CASE Calibration!Send(c) /\ Len(messages) < MessageDepth
  <2> DEFINE e == [samples |-> c.batch, failures |-> c.failures]
  <2>1. e \in Batches /\ e.samples = c.batch
    BY DEF Children, Batches
  <2>2. child' = [[c EXCEPT !.batch = <<>>] EXCEPT !.failures = 0] /\ messages' = Append(messages, e)
    BY <1>3 DEF Calibration!Send
  <2>3. child'.batch = <<>> /\ child'.read = c.read
    BY <2>2 DEF Children
  <2> HIDE DEF e
  <2>4. c.read - Len(c.batch) \in Nat
    BY <1>1, <1>2 DEF Reading
  <2>5. Relays(Append(messages, e), first, c.read - Len(c.batch) + Len(e.samples))
    <3>1. \A i \in DOMAIN e.samples : e.samples[i] = c.read - Len(c.batch) + i
      BY <2>1 DEF Reading
    <3> QED BY <2>1, <2>4, <3>1, RelaysSent
  <2>6. c.read - Len(c.batch) + Len(e.samples) = c.read
    BY <1>1, <1>2, <2>1
  <2>7. Len(child'.batch) = 0 /\ DOMAIN child'.batch = 1..0
    BY <2>3, EmptySeq, LenProperties
  <2>8. Reading(child') /\ child'.read - Len(child'.batch) = c.read
    BY <1>1, <2>3, <2>7 DEF Reading
  <2> QED BY <2>2, <2>3, <2>5, <2>6, <2>8
<1>4. CASE Calibration!Send(c) /\ ~(Len(messages) < MessageDepth)
  <2>1. child' = [[c EXCEPT !.pc = "exiting"] EXCEPT !.error = TRUE]
    BY <1>4 DEF Calibration!Send
  <2> QED BY <2>1 DEF Children
<1>5. CASE child' = c /\ UNCHANGED messages
  BY <1>5 DEF Reading
<1> QED BY <1>3, <1>4, <1>5

(* What a step of the child disturbs at most.                               *)
LEMMA ChildElsewhere ==
    ASSUME CalibrationInv, child.pc # "ended",
           UNCHANGED <<dataset, recorder, writes, writing, video, playing, main, outcome>>,
           SamplesFlow', ChildHold'
    PROVE  CalibrationInv'
<1> USE DEF CalibrationInv
<1>1. VideoFlows'
  BY VideoStays
<1>2. PendingHold' /\ AcceptedIsCounted'
  BY CountedStays DEF PendingHold
<1>3. ~(main.raised = None /\ main.pc \in {"stopimu", "stopvideo", "finishwrites"} \cup Closing)
  BY DEF StagesHold
<1>4. StagesHold'
  BY <1>3 DEF StagesHold, Closing, Ended
<1>5. CalibrationFiles'
  BY FilesStay
<1> QED BY <1>1, <1>2, <1>4, <1>5

(* The IMU's process.                                                       *)
LEMMA ChildKeeps ==
    ASSUME CalibrationTypes, CalibrationInv, Calibration!Child \/ Calibration!ChildDies
    PROVE  CalibrationInv'
<1> USE DEF CalibrationInv
<1>1. /\ child \in Children /\ messages \in Seq(Batches) /\ child.batch \in Seq(Nat) /\ child.read \in Nat
      /\ child.error \in BOOLEAN /\ recorder.samples \in Nat /\ main.pending \in Seq(Nat)
      /\ Len(main.pending) \in Nat /\ Len(child.batch) \in Nat
  BY FieldFacts, LenProperties DEF CalibrationTypes
<1>2. child.pc # "ended" /\ UNCHANGED <<dataset, recorder, writes, writing, video, playing, main, outcome>>
  BY DEF Calibration!Child, Calibration!ChildDies, Calibration!ChildReady, Calibration!ChildStarts,
         Calibration!ChildReads, Calibration!ChildEnds, Calibration!ChildExits
<1>3. Whole => Reading(child) /\ QueuedSamples + Len(main.pending) \in Nat
               /\ Relays(messages, QueuedSamples + Len(main.pending), child.read - Len(child.batch))
  BY <1>1 DEF SamplesFlow, QueuedSamples
<1>4. ASSUME child.error => child'.error,
             Whole /\ ~child'.error =>
                 Reading(child') /\ Relays(messages', QueuedSamples + Len(main.pending), child'.read - Len(child'.batch))
      PROVE  SamplesFlow'
  <2> SUFFICES ASSUME Whole'
               PROVE  SamplesFlow'
    BY DEF SamplesFlow
  <2>1. Whole /\ ~child'.error
    BY <1>2, <1>4 DEF Whole
  <2>2. Reading(child)' /\ QueuedSamples' = QueuedSamples
    BY <1>2, <1>4, <2>1 DEF Reading, QueuedSamples
  <2> QED BY <1>2, <1>4, <2>1, <2>2 DEF SamplesFlow
<1>5. ASSUME NEW c \in Children, Calibration!Send(c) \/ (child' = c /\ UNCHANGED messages), c.error = child.error,
             Reading(child) => Reading(c) /\ c.read - Len(c.batch) = child.read - Len(child.batch)
      PROVE  SamplesFlow'
  <2>1. child.error => child'.error
    BY <1>5 DEF Calibration!Send, Children
  <2>2. ASSUME Whole, ~child'.error
        PROVE  /\ Reading(child')
               /\ Relays(messages', QueuedSamples + Len(main.pending), child'.read - Len(child'.batch))
    BY <1>1, <1>3, <1>5, <2>2, SendFlows
  <2> QED BY <1>4, <2>1, <2>2
<1>6. CASE Calibration!ChildReady \/ Calibration!ChildStarts \/ Calibration!ChildExits
  <2>1. /\ child'.batch = child.batch /\ child'.read = child.read /\ messages' = messages
        /\ child.error => child'.error
    BY <1>1, <1>6 DEF Calibration!ChildReady, Calibration!ChildStarts, Calibration!ChildExits, Children
  <2>2. SamplesFlow'
    <3>1. Whole' => Whole
      BY <1>2, <2>1 DEF Whole
    <3> QED BY <1>2, <2>1, <3>1, SamplesStay
  <2>3. \/ child.pc \in {"warm", "ready"}
        \/ child.pc = "exiting" /\ child'.pc = "ended" /\ child'.error = child.error
    BY <1>1, <1>6 DEF Calibration!ChildReady, Calibration!ChildStarts, Calibration!ChildExits, Children
  <2>4. ChildHold'
    BY <1>2, <2>1, <2>3 DEF ChildHold
  <2> QED BY <1>2, <2>2, <2>4, ChildElsewhere
<1>7. CASE Calibration!ChildReads
  <2> DEFINE read   == [child EXCEPT !.reads = @ + 1, !.read = @ + 1, !.batch = Append(@, child.read + 1)]
             failed == [child EXCEPT !.reads = @ + 1, !.failures = @ + 1]
  <2>1. PICK c \in {read, failed} : Calibration!Send(c) \/ (child' = c /\ UNCHANGED messages)
    BY <1>7 DEF Calibration!ChildReads
  <2>2. /\ Append(child.batch, child.read + 1) \in Seq(Nat)
        /\ Len(Append(child.batch, child.read + 1)) = Len(child.batch) + 1
        /\ DOMAIN child.batch = 1..Len(child.batch)
        /\ DOMAIN Append(child.batch, child.read + 1) = 1..Len(child.batch) + 1
        /\ \A i \in DOMAIN child.batch : Append(child.batch, child.read + 1)[i] = child.batch[i]
        /\ Append(child.batch, child.read + 1)[Len(child.batch) + 1] = child.read + 1
    BY <1>1, AppendFacts
  <2>a. child.failures + 1 \in Nat /\ child.read + 1 \in Nat
    BY <1>1 DEF Children
  <2>b. child \in Children
    BY <1>1
  <2>3. [child EXCEPT !.reads = @ + 1] \in Children
    BY <2>b DEF Children
  <2>4. /\ failed \in Children /\ failed.batch = child.batch /\ failed.read = child.read
        /\ failed.error = child.error /\ failed.pc = child.pc
    BY <1>1, <2>a, <2>3 DEF Children
  <2>5. [[child EXCEPT !.reads = @ + 1] EXCEPT !.read = child.read + 1] \in Children
    BY <2>a, <2>3 DEF Children
  <2>6. read = [[[child EXCEPT !.reads = @ + 1] EXCEPT !.read = child.read + 1]
                   EXCEPT !.batch = Append(child.batch, child.read + 1)]
    OBVIOUS
  <2>7. /\ read \in Children /\ read.read = child.read + 1 /\ read.error = child.error /\ read.pc = child.pc
        /\ read.batch = Append(child.batch, child.read + 1)
    BY <2>2, <2>5, <2>6 DEF Children
  <2> HIDE DEF read, failed
  <2>8. c \in Children /\ c.error = child.error /\ c.pc = child.pc
    BY <2>1, <2>4, <2>7
  <2>9. Reading(child) => Reading(c) /\ c.read - Len(c.batch) = child.read - Len(child.batch)
    <3>1. CASE c = failed
      BY <2>4, <3>1 DEF Reading
    <3>2. CASE c = read
      <4>1. Len(c.batch) = Len(child.batch) + 1 /\ c.read = child.read + 1 /\ DOMAIN c.batch = 1..Len(child.batch) + 1
        BY <2>2, <2>7, <3>2
      <4>2. ASSUME Reading(child), NEW i \in DOMAIN c.batch
            PROVE  c.batch[i] = c.read - Len(c.batch) + i
        <5>1. CASE i \in DOMAIN child.batch
          <6>1. c.batch[i] = child.read - Len(child.batch) + i
            <7>1. child.batch[i] = child.read - Len(child.batch) + i
              BY <4>2, <5>1 DEF Reading
            <7>2. c.batch[i] = child.batch[i]
              BY <2>2, <2>7, <3>2, <5>1
            <7> QED BY <7>1, <7>2
          <6>2. c.read - Len(c.batch) = child.read - Len(child.batch)
            <7>1. \A a, b \in Nat : (a + 1) - (b + 1) = a - b
              OBVIOUS
            <7> QED BY <1>1, <4>1, <7>1
          <6> QED BY <6>1, <6>2
        <5>2. CASE i \notin DOMAIN child.batch
          <6>1. i = Len(child.batch) + 1
            BY <1>1, <2>2, <4>1, <5>2
          <6>2. c.batch[i] = child.read + 1
            BY <2>2, <2>7, <3>2, <6>1
          <6> QED BY <1>1, <4>1, <6>1, <6>2
        <5> QED BY <5>1, <5>2
      <4> QED BY <1>1, <4>1, <4>2 DEF Reading
    <3> QED BY <2>1, <3>1, <3>2
  <2>10. SamplesFlow'
    BY <1>5, <2>1, <2>8, <2>9
  <2>11. child.pc = "poll" /\ (child'.pc = "poll" \/ (child'.pc = "exiting" /\ child'.error))
    <3>1. child.pc = "poll"
      BY <1>7 DEF Calibration!ChildReads
    <3>2. ASSUME Calibration!Send(c)
          PROVE  child'.pc = c.pc \/ (child'.pc = "exiting" /\ child'.error)
      <4>1. CASE Len(messages) < MessageDepth
        <5>1. child' = [[c EXCEPT !.batch = <<>>] EXCEPT !.failures = 0]
          BY <3>2, <4>1 DEF Calibration!Send
        <5>2. c \in Children
          BY <2>8
        <5>3. child'.pc = c.pc
          BY <5>1, <5>2 DEF Children
        <5> QED BY <5>3
      <4>2. CASE ~(Len(messages) < MessageDepth)
        <5>1. child' = [[c EXCEPT !.pc = "exiting"] EXCEPT !.error = TRUE]
          BY <3>2, <4>2 DEF Calibration!Send
        <5>2. c \in Children
          BY <2>8
        <5>3. child'.pc = "exiting" /\ child'.error
          BY <5>1, <5>2 DEF Children
        <5> QED BY <5>3
      <4> QED BY <4>1, <4>2
    <3> QED BY <2>1, <2>8, <3>1, <3>2
  <2>12. ChildHold'
    BY <1>2, <2>11 DEF ChildHold
  <2> QED BY <1>2, <2>10, <2>12, ChildElsewhere
<1>8. CASE Calibration!ChildEnds
  <2> DEFINE c == [child EXCEPT !.pc = "exiting"]
  <2>1. /\ Calibration!Send(c) \/ (child' = c /\ UNCHANGED messages /\ c.batch = <<>>)
        /\ child.pc = "poll"
    BY <1>8 DEF Calibration!ChildEnds
  <2>2. /\ c \in Children /\ c.batch = child.batch /\ c.read = child.read /\ c.error = child.error
        /\ c.pc = "exiting"
    BY <1>1 DEF Children
  <2> HIDE DEF c
  <2>3. SamplesFlow'
    BY <1>5, <2>1, <2>2 DEF Reading
  <2>4. child'.pc = "exiting" /\ (child'.batch = <<>> \/ child'.error)
    BY <2>1, <2>2 DEF Calibration!Send, Children
  <2>5. ChildHold'
    BY <1>2, <2>1, <2>4 DEF ChildHold
  <2> QED BY <1>2, <2>3, <2>5, ChildElsewhere
<1>9. CASE Calibration!ChildDies
  <2>1. child'.error /\ child'.pc = "ended"
    BY <1>1, <1>9 DEF Calibration!ChildDies, Children
  <2>2. SamplesFlow'
    BY <2>1 DEF SamplesFlow, Whole
  <2>3. child.pc # "off"
    BY <1>9 DEF Calibration!ChildDies
  <2>4. ChildHold'
    BY <1>2, <2>1, <2>3 DEF ChildHold
  <2> QED BY <1>2, <2>2, <2>4, ChildElsewhere
<1> QED BY <1>6, <1>7, <1>8, <1>9 DEF Calibration!Child

(* The preview process and the deadline.                                    *)
LEMMA OutsideKeeps ==
    ASSUME CalibrationTypes, CalibrationInv, Calibration!PreviewEnds \/ Calibration!DeadlinePasses
    PROVE  CalibrationTypes' /\ CalibrationInv'
<1>1. UNCHANGED <<dataset, recorder, writes, writing, video, playing, child, messages, main, outcome>>
  BY DEF Calibration!PreviewEnds, Calibration!DeadlinePasses
<1>2. upsets' \in Nat /\ preview' \in Previews
  BY DEF Calibration!PreviewEnds, Calibration!DeadlinePasses, Calibration!Upset, CalibrationTypes, Previews
<1>3. flags' \in Flags
  BY DEF Calibration!PreviewEnds, Calibration!DeadlinePasses, CalibrationTypes, Flags
<1>4. CalibrationTypes'
  BY <1>1, <1>2, <1>3 DEF CalibrationTypes
<1>5. VideoFlows' /\ CalibrationFiles' /\ AcceptedIsCounted'
  BY <1>1, VideoStays, FilesStay, CountedStays DEF CalibrationInv
<1>6. SamplesFlow'
  BY <1>1, SamplesStay DEF CalibrationInv, Whole
<1>7. PendingHold' /\ ChildHold' /\ StagesHold'
  BY <1>1 DEF CalibrationInv, PendingHold, ChildHold, StagesHold, Closing, Ended
<1> QED BY <1>4, <1>5, <1>6, <1>7 DEF CalibrationInv

-----------------------------------------------------------------------------
(* main keeps the invariant.                                                *)

(* What a step of main that leaves queues and files alone keeps.            *)
LEMMA MainQuiet ==
    ASSUME CalibrationInv, UNCHANGED <<dataset, writes, messages, video, outcome>>, main.pc \notin Ended,
           ~recorder'.error => ~recorder.error, recorder'.video = recorder.video,
           \/ /\ main'.pending = main.pending /\ main'.half = main.half
              /\ main'.raised = main.raised /\ (main.aborted => main'.aborted)
              /\ recorder'.samples = recorder.samples
              /\ child'.batch = child.batch /\ child'.read = child.read /\ child'.error = child.error
           \/ main'.raised # None
           \/ main'.aborted
    PROVE  VideoFlows' /\ SamplesFlow' /\ CalibrationFiles' /\ AcceptedIsCounted'
<1> USE DEF CalibrationInv
<1>1. VideoFlows'
  BY VideoStays
<1>2. SamplesFlow'
  <2>1. Whole' => Whole /\ main'.raised = None /\ ~main'.aborted
    BY DEF Whole
  <2> QED BY <2>1, SamplesStay
<1>3. CalibrationFiles'
  BY FilesStay
<1>4. AcceptedIsCounted'
  BY NotYetCounted DEF Ended
<1> QED BY <1>1, <1>2, <1>3, <1>4

(* An exception leaves the files, and all that was queued, as they are.     *)
LEMMA UnwindKeeps ==
    ASSUME CalibrationInv, UNCHANGED <<dataset, writes, messages, video, child, outcome>>, main.pc \notin Ended,
           ~recorder'.error => ~recorder.error, recorder'.video = recorder.video,
           main'.raised # None, main'.pending = <<>>, ~main'.half,
           main'.pc \in {"stoppreview", "stopvideo", "stopimu", "close"}
    PROVE  CalibrationInv'
<1>1. VideoFlows' /\ SamplesFlow' /\ CalibrationFiles' /\ AcceptedIsCounted'
  BY MainQuiet
<1>2. outcome.status = None
  BY NotYetCounted DEF CalibrationInv, Ended
<1>3. PendingHold'
  BY <1>2 DEF PendingHold
<1>4. ChildHold' /\ StagesHold'
  BY DEF CalibrationInv, ChildHold, StagesHold
<1> QED BY <1>1, <1>3, <1>4 DEF CalibrationInv

(* Where main goes on without an exception, and nothing is queued or taken. *)
LEMMA GotoKeeps ==
    ASSUME CalibrationTypes, CalibrationInv, UNCHANGED <<dataset, writes, messages, video, outcome>>, main.pc \notin Ended,
           recorder'.error = recorder.error, recorder'.video = recorder.video, recorder'.samples = recorder.samples,
           child'.batch = child.batch, child'.read = child.read, child'.error = child.error,
           NEW pc \in Places, pc \notin {"report", "exit"}, Calibration!Goto(pc),
           main.pending = <<>> \/ pc \in {"loop", "finish"}, ChildHold', StagesHold'
    PROVE  CalibrationInv' /\ main' \in Mains
<1>1. /\ main' \in Mains /\ main'.pc = pc
      /\ main'.pending = main.pending /\ main'.half = main.half
      /\ main'.raised = main.raised /\ main'.aborted = main.aborted
  BY GotoFacts DEF CalibrationTypes
<1>2. VideoFlows' /\ SamplesFlow' /\ CalibrationFiles' /\ AcceptedIsCounted'
  BY <1>1, MainQuiet
<1>3. outcome.status = None
  BY NotYetCounted DEF CalibrationInv, Ended
<1>4. PendingHold'
  BY <1>1, <1>3 DEF CalibrationInv, PendingHold
<1> QED BY <1>1, <1>2, <1>4 DEF CalibrationInv

(* The stages before the first close.                                       *)
LEMMA EarlyStages ==
    ASSUME NEW pc \in {"preview", "writer", "play", "imu", "wait", "begin", "loop", "finish"}, main'.pc = pc
    PROVE  StagesHold'
BY DEF StagesHold, Closing, Ended

(* An exception, from any step but those of close().                        *)
LEMMA RaiseKeeps ==
    ASSUME CalibrationTypes, CalibrationInv, UNCHANGED <<dataset, writes, messages, video, child, outcome>>,
           main.pc \in Calibration!Guarded,
           ~recorder'.error => ~recorder.error, recorder'.video = recorder.video, Calibration!Raise
    PROVE  CalibrationInv' /\ main' \in Mains
<1>1. /\ main' \in Mains /\ main'.pending = <<>> /\ ~main'.half /\ main'.raised # None
      /\ main'.pc \in {"stoppreview", "stopvideo", "stopimu", "close"}
  BY RaiseFacts DEF CalibrationTypes
<1>2. main.pc \notin Ended
  BY DEF Calibration!Guarded, Ended
<1> QED BY <1>1, <1>2, UnwindKeeps

(* Everything is set up.                                                    *)
LEMMA SetUpKeeps ==
    ASSUME CalibrationTypes, CalibrationInv,
           \/ Calibration!StartPreview \/ Calibration!OpenSession \/ Calibration!Play \/ Calibration!StartImu
           \/ Calibration!AwaitImu \/ Calibration!BeginRecording
    PROVE  CalibrationTypes' /\ CalibrationInv'
<1> DEFINE from == {"preview", "writer", "play", "imu", "wait", "begin"}
           to   == {"writer", "play", "imu", "wait", "begin", "loop"}
<1>1. UNCHANGED <<dataset, writes, messages, video, outcome>> /\ main.pc \in from
  BY DEF Calibration!StartPreview, Calibration!OpenSession, Calibration!Play, Calibration!StartImu,
         Calibration!AwaitImu, Calibration!BeginRecording
<1>2. main.pc \notin Ended /\ main.pc \in Calibration!Guarded /\ main.pending = <<>>
  BY <1>1 DEF Ended, Calibration!Guarded, CalibrationInv, PendingHold
<1>3. /\ recorder' \in Recorders /\ recorder'.error = recorder.error
      /\ recorder'.video = recorder.video /\ recorder'.samples = recorder.samples
  <2>1. recorder' = recorder \/ recorder' = [recorder EXCEPT !.active = TRUE]
    BY DEF Calibration!StartPreview, Calibration!OpenSession, Calibration!Play, Calibration!StartImu,
           Calibration!AwaitImu, Calibration!BeginRecording
  <2> QED BY <2>1, RecorderFacts DEF CalibrationTypes
<1>4. /\ child' \in Children /\ child'.batch = child.batch /\ child'.read = child.read /\ child'.error = child.error
      /\ \/ child' = child
         \/ main.pc = "imu" /\ child'.pc = "warm" /\ Calibration!Goto("wait")
  <2>1. \/ child' = child
        \/ main.pc = "imu" /\ child' = [child EXCEPT !.pc = "warm"] /\ Calibration!Goto("wait")
    BY DEF Calibration!StartPreview, Calibration!OpenSession, Calibration!Play, Calibration!StartImu,
           Calibration!AwaitImu, Calibration!BeginRecording
  <2>2. child \in Children
    BY DEF CalibrationTypes
  <2> QED BY <2>1, <2>2 DEF Children
<1>5. upsets' \in Nat /\ writing' \in BOOLEAN /\ playing' \in BOOLEAN /\ preview' \in Previews
  <2>1. upsets' = upsets \/ Calibration!Upset
    BY DEF Calibration!StartPreview, Calibration!OpenSession, Calibration!Play, Calibration!StartImu,
           Calibration!AwaitImu, Calibration!BeginRecording
  <2>2. /\ writing' = writing \/ writing' = TRUE
        /\ playing' = playing \/ playing' = TRUE
        /\ preview' = preview \/ preview' = "off" \/ preview' = "run"
    BY DEF Calibration!StartPreview, Calibration!OpenSession, Calibration!Play, Calibration!StartImu,
           Calibration!AwaitImu, Calibration!BeginRecording
  <2>3. upsets' \in Nat
    BY <2>1 DEF Calibration!Upset, CalibrationTypes
  <2>4. writing' \in BOOLEAN /\ playing' \in BOOLEAN
    BY <2>2 DEF CalibrationTypes
  <2>5. preview' \in Previews
    BY <2>2 DEF CalibrationTypes, Previews
  <2> QED BY <2>3, <2>4, <2>5
<1>6. flags' \in Flags
  <2>1. flags' = flags \/ flags' = [flags EXCEPT !.start = TRUE]
    BY DEF Calibration!StartPreview, Calibration!OpenSession, Calibration!Play, Calibration!StartImu,
           Calibration!AwaitImu, Calibration!BeginRecording
  <2> QED BY <2>1 DEF CalibrationTypes, Flags
<1>7. \/ /\ child' = child /\ Calibration!Raise
      \/ \E pc \in to : Calibration!Goto(pc) /\ (pc \in {"preview", "writer", "play", "imu"} => child' = child)
                        /\ (child' = child => main.pc # "imu")
                        /\ (pc \in {"writer", "play", "imu"} => main.pc \in {"preview", "writer", "play"})
  <2>1. CASE Calibration!StartPreview
    BY <2>1 DEF Calibration!StartPreview
  <2>2. CASE Calibration!OpenSession
    BY <2>2 DEF Calibration!OpenSession
  <2>3. CASE Calibration!Play
    BY <2>3 DEF Calibration!Play
  <2>4. CASE Calibration!StartImu
    <3>1. Calibration!Goto("wait") /\ child'.pc = "warm" /\ child.pc = "off"
      BY <2>4 DEF Calibration!StartImu, CalibrationTypes, Children, CalibrationInv, ChildHold
    <3> QED BY <3>1
  <2>5. CASE Calibration!AwaitImu
    BY <2>5 DEF Calibration!AwaitImu
  <2>6. CASE Calibration!BeginRecording
    BY <2>6 DEF Calibration!BeginRecording
  <2> QED BY <2>1, <2>2, <2>3, <2>4, <2>5, <2>6
<1>8. CalibrationInv' /\ main' \in Mains
  <2>1. CASE child' = child /\ Calibration!Raise
    BY <1>1, <1>2, <1>3, <2>1, RaiseKeeps
  <2>2. ASSUME NEW pc \in to, Calibration!Goto(pc), pc \in {"preview", "writer", "play", "imu"} => child' = child,
               pc \in {"writer", "play", "imu"} => main.pc \in {"preview", "writer", "play"}
        PROVE  CalibrationInv' /\ main' \in Mains
    <3>1. pc \in Places /\ pc \notin {"report", "exit"}
      BY DEF Places, Calibration!Guarded
    <3>2. main'.pc = pc /\ main'.raised = main.raised
      BY <2>2, <3>1, GotoFacts DEF CalibrationTypes
    <3>3. StagesHold'
      BY <3>2, EarlyStages
    <3>4. ChildHold'
      <4>1. child' = child \/ child'.pc = "warm"
        BY <1>4
      <4>2. child.batch = <<>> \/ child' = child
        BY <1>4 DEF CalibrationInv, ChildHold
      <4> QED BY <1>4, <2>2, <3>2, <4>1, <4>2 DEF CalibrationInv, ChildHold
    <3> QED BY <1>1, <1>2, <1>3, <1>4, <2>2, <3>1, <3>3, <3>4, GotoKeeps
  <2> QED BY <1>7, <2>1, <2>2
<1>9. CalibrationTypes'
  BY <1>1, <1>3, <1>4, <1>5, <1>6, <1>8 DEF CalibrationTypes
<1> QED BY <1>8, <1>9

(* A batch of the child is taken from the queue.                            *)
LEMMA TakeKeeps ==
    ASSUME CalibrationTypes, CalibrationInv, Calibration!TakeMessage
    PROVE  CalibrationTypes' /\ CalibrationInv'
<1>1. /\ UNCHANGED <<upsets, dataset, writes, writing, video, playing, child, flags, preview, outcome>>
      /\ main.pc \in {"loop", "finish"} /\ main.pending = <<>> /\ messages # <<>> /\ messages' = Tail(messages)
      /\ main' = [main EXCEPT !.pending = Head(messages).samples]
      /\ recorder' = [recorder EXCEPT !.xuFailures = recorder.xuFailures + Head(messages).failures]
  BY DEF Calibration!TakeMessage
<1>2. /\ main \in Mains /\ recorder \in Recorders /\ messages \in Seq(Batches)
      /\ recorder.samples \in Nat /\ recorder.xuFailures \in Nat
  BY FieldFacts DEF CalibrationTypes
<1>3. Head(messages) \in Batches /\ Tail(messages) \in Seq(Batches)
  BY <1>1, <1>2, TailFacts
<1>4. Head(messages).samples \in Seq(Nat) /\ Head(messages).failures \in Nat
  BY <1>3 DEF Batches
<1>5. /\ main' \in Mains /\ main'.pc = main.pc /\ main'.pending = Head(messages).samples /\ main'.half = main.half
      /\ main'.raised = main.raised /\ main'.aborted = main.aborted
  BY <1>1, <1>2, <1>4 DEF Mains
<1>6. /\ recorder' \in Recorders /\ recorder'.error = recorder.error
      /\ recorder'.video = recorder.video /\ recorder'.samples = recorder.samples
  <2>1. recorder.xuFailures + Head(messages).failures \in Nat
    BY <1>2, <1>4
  <2> QED BY <1>1, <1>2, <2>1, RecorderFacts
<1>7. CalibrationTypes'
  BY <1>1, <1>3, <1>5, <1>6 DEF CalibrationTypes
<1>8. ~main.half /\ main.pc \notin Ended /\ outcome.status = None
  BY <1>1, SameWriter DEF CalibrationInv, PendingHold, Ended
<1>9. VideoFlows' /\ CalibrationFiles'
  BY <1>1, <1>5, <1>6, VideoStays, FilesStay DEF CalibrationInv
<1>10. AcceptedIsCounted'
  BY <1>1, <1>8, NotYetCounted DEF CalibrationInv, Ended
<1>11. PendingHold' /\ ChildHold'
  BY <1>1, <1>5, <1>8 DEF CalibrationInv, PendingHold, ChildHold
<1>12. StagesHold'
  BY <1>1, <1>5, EarlyStages
<1>13. SamplesFlow'
  <2> SUFFICES ASSUME Whole'
               PROVE  SamplesFlow'
    BY DEF SamplesFlow
  <2>1. Whole
    BY <1>1, <1>5, <1>6 DEF Whole
  <2>2. QueuedSamples = recorder.samples /\ QueuedSamples' = recorder.samples
    BY <1>5, <1>6, <1>8 DEF QueuedSamples
  <2>3. Len(main.pending) = 0 /\ QueuedSamples + Len(main.pending) = recorder.samples
    BY <1>1, <1>2, <2>2, EmptySeq
  <2>4. Relays(messages, recorder.samples, child.read - Len(child.batch))
    BY <2>1, <2>3 DEF CalibrationInv, SamplesFlow
  <2>5. /\ \A i \in DOMAIN main'.pending : main'.pending[i] = recorder.samples + i
        /\ Relays(messages', recorder.samples + Len(main'.pending), child.read - Len(child.batch))
    BY <1>1, <1>2, <1>5, <2>4, RelaysTaken
  <2> QED BY <1>1, <1>5, <1>6, <1>8, <2>1, <2>2, <2>5 DEF CalibrationInv, SamplesFlow, Reading
<1> QED BY <1>7, <1>9, <1>10, <1>11, <1>12, <1>13 DEF CalibrationInv

(* What goes on with another record in the queue of the writer.             *)
LEMMA QueuedElsewhere ==
    ASSUME CalibrationTypes, CalibrationInv, UNCHANGED <<dataset, video, child, messages, outcome>>,
           main.pc \in {"loop", "finish"}, main'.pc = main.pc, main'.raised = main.raised,
           ~recorder'.error => ~recorder.error, recorder'.video = recorder.video,
           main'.half => main'.pending # <<>>,
           NEW e \in Items, e[1] # "ego.video", writes' = Append(writes, e)
    PROVE  VideoFlows' /\ PendingHold' /\ ChildHold' /\ StagesHold' /\ CalibrationFiles' /\ AcceptedIsCounted'
<1>1. /\ writes \in Seq(Items) /\ recorder.video \in Nat /\ dataset.rows["ego.video"] \in Seq(Index(Nat))
  BY FieldFacts, CalibrationAssumption DEF CalibrationTypes
<1>2. VideoFlows'
  <2> SUFFICES ASSUME ~recorder'.error
               PROVE  VideoFlows'
    BY DEF VideoFlows
  <2>1. /\ video.at = "put" => recorder.video > 0 /\ video.n = recorder.video
        /\ Carries(dataset.rows["ego.video"], writes, "ego.video", QueuedFrames)
    BY DEF CalibrationInv, VideoFlows
  <2>2. QueuedFrames \in Nat /\ QueuedFrames' = QueuedFrames
    BY <1>1, <2>1 DEF QueuedFrames
  <2>3. Carries(dataset.rows["ego.video"], writes', "ego.video", QueuedFrames)
    BY <1>1, <2>1, <2>2, CarriesOther
  <2> QED BY <2>1, <2>2, <2>3 DEF VideoFlows
<1>3. main.pc # "exit" /\ main.pc \notin Ended
  BY DEF Ended
<1>4. AcceptedIsCounted' /\ outcome.status = None
  BY <1>3, NotYetCounted DEF CalibrationInv
<1>5. PendingHold' /\ ChildHold'
  BY <1>4 DEF CalibrationInv, PendingHold, ChildHold
<1>6. StagesHold'
  BY EarlyStages
<1>7. CalibrationFiles'
  BY <1>3, FilesStay DEF CalibrationInv
<1> QED BY <1>2, <1>4, <1>5, <1>6, <1>7

(* A packet is counted and queued.                                          *)
LEMMA PacketKeeps ==
    ASSUME CalibrationTypes, CalibrationInv, Calibration!RecordPacket
    PROVE  CalibrationTypes' /\ CalibrationInv'
<1>1. /\ UNCHANGED <<upsets, dataset, writing, video, playing, child, messages, flags, preview, outcome>>
      /\ main.pending # <<>> /\ ~main.half
      /\ recorder' = [recorder EXCEPT !.samples = recorder.samples + 1, !.error = Calibration!Refuses]
  BY DEF Calibration!RecordPacket
<1>2. /\ main \in Mains /\ recorder \in Recorders /\ writes \in Seq(Items)
      /\ recorder.samples \in Nat /\ recorder.error \in BOOLEAN /\ main.pending \in Seq(Nat)
      /\ dataset.rows["ego.imu"] \in Seq(Index(Nat)) /\ dataset.rows["ego.xu.packet"] \in Seq(Index(Nat))
  BY FieldFacts, CalibrationAssumption DEF CalibrationTypes
<1>3. main.pc \in {"loop", "finish"} /\ main.pc \in Calibration!Guarded
  BY <1>1 DEF CalibrationInv, PendingHold, Calibration!Guarded
<1>4. /\ recorder' \in Recorders /\ recorder'.error = Calibration!Refuses
      /\ recorder'.video = recorder.video /\ recorder'.samples = recorder.samples + 1
  <2>1. Calibration!Refuses \in BOOLEAN /\ recorder.samples + 1 \in Nat
    BY <1>2 DEF Calibration!Refuses
  <2> QED BY <1>1, <1>2, <2>1, RecorderFacts
<1>5. ~recorder'.error => ~recorder.error
  BY <1>4 DEF Calibration!Refuses
<1>6. CASE Calibration!Refuses
  <2>1. Calibration!Raise /\ writes' = writes
    BY <1>6 DEF Calibration!RecordPacket
  <2>2. CalibrationInv' /\ main' \in Mains
    BY <1>1, <1>3, <1>4, <1>5, <2>1, RaiseKeeps
  <2> QED BY <1>1, <1>4, <2>1, <2>2 DEF CalibrationTypes
<1>7. CASE ~Calibration!Refuses
  <2> DEFINE e == <<"ego.xu.packet", Head(main.pending)>>
  <2>1. Head(main.pending) = main.pending[1] /\ main.pending[1] \in Nat /\ 1 \in DOMAIN main.pending
    BY <1>1, <1>2, TailFacts
  <2>2. e \in Items /\ e[1] = "ego.xu.packet" /\ e[2] = main.pending[1]
    BY <2>1 DEF Items, CalibrationStreams
  <2>3. writes' = Append(writes, e) /\ main' = [main EXCEPT !.half = TRUE]
    BY <1>7 DEF Calibration!RecordPacket
  <2> HIDE DEF e
  <2>4. /\ main' \in Mains /\ main'.pc = main.pc /\ main'.pending = main.pending /\ main'.half
        /\ main'.raised = main.raised /\ main'.aborted = main.aborted
    BY <1>2, <2>3 DEF Mains
  <2>5. writes' \in Seq(Items)
    BY <1>2, <2>2, <2>3, AppendFacts
  <2>6. CalibrationTypes'
    BY <1>1, <1>4, <2>4, <2>5 DEF CalibrationTypes
  <2>7. VideoFlows' /\ PendingHold' /\ ChildHold' /\ StagesHold' /\ CalibrationFiles' /\ AcceptedIsCounted'
    BY <1>1, <1>3, <1>4, <1>5, <2>2, <2>3, <2>4, QueuedElsewhere
  <2>8. SamplesFlow'
    <3> SUFFICES ASSUME Whole'
                 PROVE  SamplesFlow'
      BY DEF SamplesFlow
    <3>1. Whole
      BY <1>1, <1>5, <2>4 DEF Whole
    <3>2. QueuedSamples = recorder.samples /\ QueuedSamples' = recorder.samples
      BY <1>1, <1>2, <1>4, <2>4 DEF QueuedSamples
    <3>3. /\ Carries(dataset.rows["ego.xu.packet"], writes, "ego.xu.packet", recorder.samples)
          /\ Carries(dataset.rows["ego.imu"], writes, "ego.imu", recorder.samples)
          /\ \A i \in DOMAIN main.pending : main.pending[i] = recorder.samples + i
          /\ Relays(messages, recorder.samples + Len(main.pending), child.read - Len(child.batch))
          /\ Reading(child)
      BY <3>1, <3>2 DEF CalibrationInv, SamplesFlow
    <3>4. e[2] = recorder.samples + 1
      BY <2>1, <2>2, <3>3
    <3>5. Carries(dataset.rows["ego.xu.packet"], writes', "ego.xu.packet", recorder.samples + 1)
      BY <1>2, <2>2, <2>3, <3>3, <3>4, CarriesMore
    <3>6. Carries(dataset.rows["ego.imu"], writes', "ego.imu", recorder.samples)
      BY <1>2, <2>2, <2>3, <3>3, CarriesOther
    <3>7. recorder'.samples > 0 /\ Reading(child)'
      BY <1>1, <1>2, <1>4, <3>3 DEF Reading
    <3> QED BY <1>1, <1>4, <2>4, <3>2, <3>3, <3>5, <3>6, <3>7 DEF SamplesFlow
  <2> QED BY <2>6, <2>7, <2>8 DEF CalibrationInv
<1> QED BY <1>6, <1>7

(* Its sample is queued.                                                    *)
LEMMA SampleKeeps ==
    ASSUME CalibrationTypes, CalibrationInv, Calibration!RecordSample
    PROVE  CalibrationTypes' /\ CalibrationInv'
<1>1. /\ UNCHANGED <<upsets, dataset, writing, video, playing, child, messages, flags, preview, outcome>>
      /\ main.half /\ recorder' = [recorder EXCEPT !.error = Calibration!Refuses]
  BY DEF Calibration!RecordSample
<1>2. /\ main \in Mains /\ recorder \in Recorders /\ writes \in Seq(Items)
      /\ recorder.samples \in Nat /\ recorder.error \in BOOLEAN /\ main.pending \in Seq(Nat)
      /\ dataset.rows["ego.imu"] \in Seq(Index(Nat)) /\ dataset.rows["ego.xu.packet"] \in Seq(Index(Nat))
  BY FieldFacts, CalibrationAssumption DEF CalibrationTypes
<1>3. main.pending # <<>> /\ main.pc \in {"loop", "finish"} /\ main.pc \in Calibration!Guarded
  BY <1>1 DEF CalibrationInv, PendingHold, Calibration!Guarded
<1>4. /\ recorder' \in Recorders /\ recorder'.error = Calibration!Refuses
      /\ recorder'.video = recorder.video /\ recorder'.samples = recorder.samples
  <2>1. Calibration!Refuses \in BOOLEAN
    BY <1>2 DEF Calibration!Refuses
  <2> QED BY <1>1, <1>2, <2>1, RecorderFacts
<1>5. ~recorder'.error => ~recorder.error
  BY <1>4 DEF Calibration!Refuses
<1>6. CASE Calibration!Refuses
  <2>1. Calibration!Raise /\ writes' = writes
    BY <1>6 DEF Calibration!RecordSample
  <2>2. CalibrationInv' /\ main' \in Mains
    BY <1>1, <1>3, <1>4, <1>5, <2>1, RaiseKeeps
  <2> QED BY <1>1, <1>4, <2>1, <2>2 DEF CalibrationTypes
<1>7. CASE ~Calibration!Refuses
  <2> DEFINE e == <<"ego.imu", Head(main.pending)>>
             rest == Tail(main.pending)
  <2>1. /\ Head(main.pending) = main.pending[1] /\ main.pending[1] \in Nat /\ 1 \in DOMAIN main.pending
        /\ rest \in Seq(Nat) /\ Len(rest) = Len(main.pending) - 1 /\ Len(main.pending) \in Nat \ {0}
        /\ DOMAIN rest = 1..Len(main.pending) - 1
        /\ \A i \in DOMAIN rest : i + 1 \in DOMAIN main.pending /\ rest[i] = main.pending[i + 1]
    BY <1>2, <1>3, TailFacts
  <2>2. e \in Items /\ e[1] = "ego.imu" /\ e[2] = main.pending[1]
    BY <2>1 DEF Items, CalibrationStreams
  <2>3. writes' = Append(writes, e) /\ main' = [[main EXCEPT !.half = FALSE] EXCEPT !.pending = rest]
    BY <1>7 DEF Calibration!RecordSample
  <2> HIDE DEF e, rest
  <2>4. /\ main' \in Mains /\ main'.pc = main.pc /\ main'.pending = rest /\ ~main'.half
        /\ main'.raised = main.raised /\ main'.aborted = main.aborted
    <3>1. [main EXCEPT !.half = FALSE] \in Mains
      BY <1>2 DEF Mains
    <3> QED BY <1>2, <2>1, <2>3, <3>1 DEF Mains
  <2>5. writes' \in Seq(Items)
    BY <1>2, <2>2, <2>3, AppendFacts
  <2>6. CalibrationTypes'
    BY <1>1, <1>4, <2>4, <2>5 DEF CalibrationTypes
  <2>7. VideoFlows' /\ PendingHold' /\ ChildHold' /\ StagesHold' /\ CalibrationFiles' /\ AcceptedIsCounted'
    BY <1>1, <1>3, <1>4, <1>5, <2>2, <2>3, <2>4, QueuedElsewhere
  <2>8. SamplesFlow'
    <3> SUFFICES ASSUME Whole'
                 PROVE  SamplesFlow'
      BY DEF SamplesFlow
    <3>1. Whole
      BY <1>1, <1>5, <2>4 DEF Whole
    <3>2. recorder.samples > 0 /\ QueuedSamples = recorder.samples - 1 /\ QueuedSamples' = recorder.samples
      BY <1>1, <1>4, <2>4, <3>1 DEF CalibrationInv, SamplesFlow, QueuedSamples
    <3>3. QueuedSamples \in Nat /\ QueuedSamples + 1 = recorder.samples
      BY <1>2, <3>2
    <3>4. /\ Carries(dataset.rows["ego.xu.packet"], writes, "ego.xu.packet", recorder.samples)
          /\ Carries(dataset.rows["ego.imu"], writes, "ego.imu", QueuedSamples)
          /\ \A i \in DOMAIN main.pending : main.pending[i] = QueuedSamples + i
          /\ Relays(messages, QueuedSamples + Len(main.pending), child.read - Len(child.batch))
          /\ Reading(child)
      BY <3>1 DEF CalibrationInv, SamplesFlow
    <3>5. e[2] = QueuedSamples + 1
      BY <2>1, <2>2, <3>4
    <3>6. Carries(dataset.rows["ego.imu"], writes', "ego.imu", recorder.samples)
      BY <1>2, <2>2, <2>3, <3>3, <3>4, <3>5, CarriesMore
    <3>7. Carries(dataset.rows["ego.xu.packet"], writes', "ego.xu.packet", recorder.samples)
      BY <1>2, <2>2, <2>3, <3>4, CarriesOther
    <3>8. \A i \in DOMAIN rest : rest[i] = recorder.samples + i
      <4>1. \A i \in DOMAIN rest : rest[i] = QueuedSamples + (i + 1)
        BY <2>1, <3>4
      <4>2. \A a \in Nat, i \in Nat : a + (i + 1) = (a + 1) + i
        OBVIOUS
      <4>3. \A i \in DOMAIN rest : i \in Nat
        BY <2>1
      <4> QED BY <3>3, <4>1, <4>2, <4>3
    <3>9. recorder.samples + Len(rest) = QueuedSamples + Len(main.pending)
      BY <2>1, <3>3
    <3>10. Reading(child)'
      BY <1>1, <3>4 DEF Reading
    <3> QED BY <1>1, <1>4, <2>4, <3>2, <3>4, <3>6, <3>7, <3>8, <3>9, <3>10 DEF SamplesFlow
  <2> QED BY <2>6, <2>7, <2>8 DEF CalibrationInv
<1> QED BY <1>6, <1>7

(* The capture is aborted.                                                  *)
LEMMA AbortKeeps ==
    ASSUME CalibrationInv, main.pc = "loop",
           UNCHANGED <<dataset, recorder, writes, writing, video, playing, child, messages, outcome>>,
           main'.pc = "finish", main'.aborted, main'.raised = main.raised, main'.pending = <<>>, ~main'.half
    PROVE  CalibrationInv'
<1>1. main.pc \notin Ended /\ main.pc # "exit"
  BY DEF Ended
<1>2. VideoFlows' /\ SamplesFlow' /\ CalibrationFiles' /\ AcceptedIsCounted'
  BY <1>1, MainQuiet
<1>3. outcome.status = None
  BY <1>1, NotYetCounted DEF CalibrationInv
<1>4. PendingHold' /\ ChildHold'
  BY <1>3 DEF CalibrationInv, PendingHold, ChildHold
<1>5. StagesHold'
  BY EarlyStages
<1> QED BY <1>2, <1>4, <1>5 DEF CalibrationInv

(* The turn of the loop.                                                    *)
LEMMA LoopKeeps ==
    ASSUME CalibrationTypes, CalibrationInv, Calibration!LoopTop \/ Calibration!InterruptLoop
    PROVE  CalibrationTypes' /\ CalibrationInv'
<1>1. /\ UNCHANGED <<dataset, recorder, writes, writing, video, playing, child, messages, preview, outcome>>
      /\ main.pc = "loop"
  BY DEF Calibration!LoopTop, Calibration!InterruptLoop
<1>2. /\ main.pc \notin Ended /\ main.pc \in Calibration!Guarded /\ main \in Mains
      /\ "finish" \in Places /\ "finish" \notin {"report", "exit"} /\ "finish" \in {"loop", "finish"}
  BY <1>1 DEF Ended, Calibration!Guarded, CalibrationTypes, Places
<1>3. upsets' \in Nat
  BY DEF Calibration!LoopTop, Calibration!InterruptLoop, Calibration!Upset, CalibrationTypes
<1>4. flags' \in Flags
  <2>1. flags' = flags \/ flags' = [flags EXCEPT !.stop = TRUE]
    BY DEF Calibration!LoopTop, Calibration!InterruptLoop
  <2> QED BY <2>1 DEF CalibrationTypes, Flags
<1>5. CalibrationInv' /\ main' \in Mains
  <2>1. CASE Calibration!Goto("finish")
    <3>1. main'.pc = "finish" /\ main'.raised = main.raised
      BY <1>2, <2>1, GotoFacts
    <3>2. ChildHold'
      BY <1>1, <3>1 DEF CalibrationInv, ChildHold
    <3>3. StagesHold'
      BY <3>1, EarlyStages
    <3> QED BY <1>1, <1>2, <2>1, <3>2, <3>3, GotoKeeps
  <2>2. CASE Calibration!Raise
    BY <1>1, <1>2, <2>2, RaiseKeeps
  <2>3. CASE /\ Calibration!LoopTop
             /\ main' = [main EXCEPT !.pc = "finish", !.aborted = TRUE]
    <3>1. main.pending = <<>> /\ ~main.half
      BY <2>3 DEF Calibration!LoopTop, CalibrationInv, PendingHold
    <3>2. [main EXCEPT !.pc = "finish"] \in Mains
      BY <1>2 DEF Mains
    <3>3. main' = [[main EXCEPT !.pc = "finish"] EXCEPT !.aborted = TRUE]
      BY <2>3
    <3>4. /\ main' \in Mains /\ main'.pc = "finish" /\ main'.aborted /\ main'.raised = main.raised
          /\ main'.pending = main.pending /\ main'.half = main.half
      BY <1>2, <3>2, <3>3 DEF Mains
    <3> QED BY <1>1, <3>1, <3>4, AbortKeeps
  <2>4. CASE Calibration!InterruptLoop
    <3>1. main' = [[[[main EXCEPT !.pc = "finish"] EXCEPT !.aborted = TRUE] EXCEPT !.pending = <<>>] EXCEPT !.half = FALSE]
      BY <2>4 DEF Calibration!InterruptLoop
    <3>2. [main EXCEPT !.pc = "finish"] \in Mains
      BY <1>2 DEF Mains
    <3>3. [[main EXCEPT !.pc = "finish"] EXCEPT !.aborted = TRUE] \in Mains
      BY <3>2 DEF Mains
    <3>4. <<>> \in Seq(Nat)
      BY EmptySeq
    <3>5. main' \in Mains
      BY <3>1, <3>3, <3>4 DEF Mains
    <3>6. /\ main'.pc = "finish" /\ main'.aborted /\ main'.raised = main.raised
          /\ main'.pending = <<>> /\ ~main'.half
      BY <1>2, <3>1 DEF Mains
    <3> QED BY <1>1, <3>5, <3>6, AbortKeeps
  <2> QED BY <2>1, <2>2, <2>3, <2>4 DEF Calibration!LoopTop
<1> QED BY <1>1, <1>3, <1>4, <1>5 DEF CalibrationTypes

(* The child has finished, and everything is stopped.                       *)
LEMMA StopKeeps ==
    ASSUME CalibrationTypes, CalibrationInv,
           Calibration!Finish \/ Calibration!StopImu \/ Calibration!StopVideo \/ Calibration!FinishWrites
    PROVE  CalibrationTypes' /\ CalibrationInv'
<1>1. /\ UNCHANGED <<upsets, dataset, writes, video, messages, preview, outcome>>
      /\ main.pc \in {"finish", "stopimu", "stopvideo", "finishwrites"} /\ main.pending = <<>>
  <2>1. /\ UNCHANGED <<upsets, dataset, writes, video, messages, preview, outcome>>
        /\ main.pc \in {"finish", "stopimu", "stopvideo", "finishwrites"}
    BY DEF Calibration!Finish, Calibration!StopImu, Calibration!StopVideo, Calibration!FinishWrites
  <2>2. CASE Calibration!Finish
    BY <2>1, <2>2 DEF Calibration!Finish
  <2>3. CASE ~Calibration!Finish
    BY <2>1, <2>3 DEF Calibration!StopImu, Calibration!StopVideo, Calibration!FinishWrites, CalibrationInv, PendingHold
  <2> QED BY <2>1, <2>2, <2>3
<1>2. main.pc \notin Ended /\ main \in Mains
  BY <1>1 DEF Ended, CalibrationTypes
<1>3. /\ recorder' \in Recorders /\ recorder'.error = recorder.error
      /\ recorder'.video = recorder.video /\ recorder'.samples = recorder.samples
  <2>1. recorder' = recorder \/ recorder' = [recorder EXCEPT !.active = FALSE]
    BY DEF Calibration!Finish, Calibration!StopImu, Calibration!StopVideo, Calibration!FinishWrites
  <2> QED BY <2>1, RecorderFacts DEF CalibrationTypes
<1>4. /\ child' \in Children /\ child'.batch = child.batch /\ child'.read = child.read /\ child'.error = child.error
      /\ \/ child' = child
         \/ main.pc = "stopimu" /\ child'.pc = "ended"
  <2>1. child' = child \/ (main.pc = "stopimu" /\ child' = [child EXCEPT !.pc = "ended"])
    BY DEF Calibration!Finish, Calibration!StopImu, Calibration!StopVideo, Calibration!FinishWrites
  <2>2. child \in Children
    BY DEF CalibrationTypes
  <2> QED BY <2>1, <2>2 DEF Children
<1>5. writing' \in BOOLEAN /\ playing' \in BOOLEAN
  <2>1. (writing' = writing \/ writing' = FALSE) /\ (playing' = playing \/ playing' = FALSE)
    BY DEF Calibration!Finish, Calibration!StopImu, Calibration!StopVideo, Calibration!FinishWrites
  <2> QED BY <2>1 DEF CalibrationTypes
<1>6. flags' \in Flags
  <2>1. flags' = flags \/ flags' = [flags EXCEPT !.stop = TRUE]
    BY DEF Calibration!Finish, Calibration!StopImu, Calibration!StopVideo, Calibration!FinishWrites
  <2> QED BY <2>1 DEF CalibrationTypes, Flags
<1>7. ASSUME NEW pc \in {"stopimu", "stopvideo", "finishwrites", "close"}, Calibration!Goto(pc), StagesHold'
      PROVE  CalibrationInv' /\ main' \in Mains
  <2>1. pc \in Places /\ pc \notin {"report", "exit"}
    BY DEF Places, Calibration!Guarded
  <2>2. main'.pc = pc /\ main'.raised = main.raised
    BY <1>2, <1>7, <2>1, GotoFacts
  <2>3. main.raised = None /\ main.pc = "stopimu" => child.pc = "ended"
    BY DEF CalibrationInv, StagesHold
  <2>4. ChildHold'
    BY <1>4, <2>2, <2>3 DEF CalibrationInv, ChildHold
  <2> QED BY <1>1, <1>2, <1>3, <1>4, <1>7, <2>1, <2>4, GotoKeeps
<1>8. ASSUME NEW pc \in {"stopimu", "stopvideo", "finishwrites", "close"}, Calibration!Goto(pc)
      PROVE  main'.pc = pc /\ main'.raised = main.raised
  <2>1. pc \in Places
    BY DEF Places, Calibration!Guarded
  <2> QED BY <1>2, <1>8, <2>1, GotoFacts
<1>9. ASSUME Calibration!Raise, child' = child, main.pc \in {"finish", "finishwrites"}
      PROVE  CalibrationInv' /\ main' \in Mains
  <2>1. main.pc \in Calibration!Guarded
    BY <1>9 DEF Calibration!Guarded
  <2> QED BY <1>1, <1>3, <1>9, <2>1, RaiseKeeps
<1>10. CASE Calibration!Finish
  <2>1. child' = child /\ messages = <<>> /\ main.pc = "finish"
    BY <1>10 DEF Calibration!Finish
  <2>2. CASE Calibration!Raise
    BY <1>9, <2>1, <2>2, <1>1, <1>3, <1>4, <1>5, <1>6 DEF CalibrationTypes
  <2>3. CASE child.pc = "ended" /\ ~child.error /\ Calibration!Goto("stopimu")
    <3>1. main'.pc = "stopimu" /\ main'.raised = main.raised
      BY <1>8, <2>3
    <3>2. StagesHold'
      BY <1>1, <2>1, <2>3, <3>1 DEF StagesHold, Closing, Ended
    <3> QED BY <1>7, <2>3, <3>2, <1>1, <1>3, <1>4, <1>5, <1>6 DEF CalibrationTypes
  <2> QED BY <1>10, <2>2, <2>3 DEF Calibration!Finish
<1>11. CASE Calibration!StopImu
  <2>1. Calibration!Goto("stopvideo") /\ main.pc = "stopimu"
    BY <1>11 DEF Calibration!StopImu
  <2>2. main'.pc = "stopvideo" /\ main'.raised = main.raised
    BY <1>8, <2>1
  <2>3. main.raised = None => child.pc = "ended" /\ ~child.error /\ messages = <<>>
    BY <2>1 DEF CalibrationInv, StagesHold
  <2>4. StagesHold'
    BY <1>1, <1>4, <2>2, <2>3 DEF StagesHold, Closing, Ended
  <2> QED BY <1>7, <2>1, <2>4, <1>1, <1>3, <1>4, <1>5, <1>6 DEF CalibrationTypes
<1>12. CASE Calibration!StopVideo
  <2>1. /\ Calibration!Goto("finishwrites") /\ main.pc = "stopvideo" /\ child' = child
        /\ video.at = "idle" /\ ~playing'
    BY <1>12 DEF Calibration!StopVideo
  <2>2. main'.pc = "finishwrites" /\ main'.raised = main.raised
    BY <1>8, <2>1
  <2>3. main.raised = None => child.pc = "ended" /\ ~child.error /\ messages = <<>>
    BY <2>1 DEF CalibrationInv, StagesHold
  <2>4. StagesHold'
    BY <1>1, <2>1, <2>2, <2>3 DEF StagesHold, Closing, Ended
  <2> QED BY <1>7, <2>1, <2>4, <1>1, <1>3, <1>4, <1>5, <1>6 DEF CalibrationTypes
<1>13. CASE Calibration!FinishWrites
  <2>1. /\ main.pc = "finishwrites" /\ child' = child /\ recorder' = recorder /\ playing' = playing
        /\ writes = <<>> /\ ~writing'
    BY <1>13 DEF Calibration!FinishWrites
  <2>2. CASE recorder.error
    <3>1. Calibration!Raise
      BY <1>13, <2>2 DEF Calibration!FinishWrites
    <3> QED BY <1>9, <2>1, <3>1, <1>1, <1>3, <1>4, <1>5, <1>6 DEF CalibrationTypes
  <2>3. CASE ~recorder.error
    <3>1. Calibration!Goto("close")
      BY <1>13, <2>3 DEF Calibration!FinishWrites
    <3>2. main'.pc = "close" /\ main'.raised = main.raised
      BY <1>8, <3>1
    <3>3. main.raised = None => /\ child.pc = "ended" /\ ~child.error /\ messages = <<>>
                                /\ ~playing /\ video.at = "idle"
      BY <2>1 DEF CalibrationInv, StagesHold
    <3>4. StagesHold'
      BY <1>1, <2>1, <2>3, <3>2, <3>3 DEF StagesHold, Closing, Ended
    <3> QED BY <1>7, <3>1, <3>4, <1>1, <1>3, <1>4, <1>5, <1>6 DEF CalibrationTypes
  <2> QED BY <2>2, <2>3
<1> QED BY <1>10, <1>11, <1>12, <1>13

(* What a step of close() disturbs at most.                                 *)
LEMMA ClosingQuiet ==
    ASSUME CalibrationInv, UNCHANGED <<recorder, writes, video, child, messages, outcome>>,
           main.pc \in {"close", "files", "seal"}, dataset'.rows = dataset.rows, main'.aborted = main.aborted,
           \/ main'.pending = main.pending /\ main'.half = main.half /\ main'.raised = main.raised
           \/ main'.raised # None
    PROVE  VideoFlows' /\ SamplesFlow' /\ AcceptedIsCounted' /\ outcome.status = None
<1>1. main.pc # "exit"
  OBVIOUS
<1>2. VideoFlows'
  BY VideoStays DEF CalibrationInv
<1>3. SamplesFlow'
  <2>1. Whole' => Whole /\ main'.raised = None
    BY DEF Whole
  <2> QED BY <2>1, SamplesStay DEF CalibrationInv
<1>4. AcceptedIsCounted' /\ outcome.status = None
  BY <1>1, NotYetCounted DEF CalibrationInv
<1> QED BY <1>2, <1>3, <1>4

(* close() fails, or is interrupted.                                        *)
LEMMA ClosingFails ==
    ASSUME CalibrationInv,
           UNCHANGED <<recorder, writes, writing, video, playing, child, messages, outcome>>,
           main.pc \in {"close", "files", "seal"}, dataset'.rows = dataset.rows, Hashed(dataset'),
           main'.pc = "stoppreview", main'.raised # None, main'.pending = <<>>, ~main'.half,
           main'.aborted = main.aborted
    PROVE  CalibrationInv'
<1>1. VideoFlows' /\ SamplesFlow' /\ AcceptedIsCounted' /\ outcome.status = None
  BY ClosingQuiet
<1>2. PendingHold'
  BY <1>1 DEF PendingHold
<1>3. ChildHold' /\ StagesHold'
  BY DEF CalibrationInv, ChildHold, StagesHold
<1>4. CalibrationFiles'
  BY DEF CalibrationFiles, Hashed, Ended
<1> QED BY <1>1, <1>2, <1>3, <1>4 DEF CalibrationInv

(* The session is closed.                                                   *)
LEMMA CloseKeeps ==
    ASSUME CalibrationTypes, CalibrationInv, Calibration!CloseWriter
    PROVE  CalibrationTypes' /\ CalibrationInv'
<1>1. /\ UNCHANGED <<recorder, writes, writing, video, playing, child, messages, flags, preview, outcome>>
      /\ main.pc \in {"close", "files", "seal"} /\ main.pc \in Calibration!Guarded
  BY DEF Calibration!CloseWriter, Calibration!Guarded
<1>2. /\ main \in Mains /\ dataset \in Writers(Nat) /\ Hashed(dataset) /\ dataset.state = "active"
  BY <1>1 DEF CalibrationTypes, CalibrationInv, CalibrationFiles, Ended
<1>3. PICK o \in Calibration!CloseOutcomes :
          /\ dataset' = o.writer /\ upsets' \in Nat
          /\ o.error # None => Calibration!Raise
          /\ o.error = None => Calibration!Goto(Calibration!AfterClose(dataset.listed \subseteq dataset.closed))
  BY SameWriter DEF Calibration!CloseWriter, Calibration!Upset, CalibrationTypes
<1>4. /\ o.writer \in Writers(Nat) /\ o.writer.rows = dataset.rows /\ o.writer.payload = dataset.payload
      /\ Hashed(o.writer)
      /\ o.error = None =>
             /\ main.pc = "close" => o.writer.state = "active"
             /\ main.pc = "files" =>
                    /\ o.writer.state = "active"
                    /\ dataset.listed \subseteq dataset.closed => o.writer.manifest = Opened(o.writer)
             /\ main.pc = "seal" => o.writer.state = "sealed" /\ o.writer.manifest = dataset.manifest
  <2>1. CASE main.pc = "close"
    <3>1. o = Outcome(BeginClose(dataset), None)
      BY <2>1, SameWriter DEF Calibration!CloseOutcomes
    <3>2. o.writer = BeginClose(dataset)
      BY <3>1 DEF Outcome
    <3> QED BY <1>2, <2>1, <3>2, CloseBegins
  <2>2. CASE main.pc = "files" /\ dataset.listed \subseteq dataset.closed
    <3>1. o \in PublishOutcomes(dataset)
      BY <2>2, SameWriter DEF Calibration!CloseOutcomes
    <3> QED BY <1>2, <2>2, <3>1, ManifestPublished
  <2>3. CASE main.pc = "files" /\ ~(dataset.listed \subseteq dataset.closed)
    <3>1. PICK s \in dataset.listed : o \in CloseStreamOutcomes(dataset, s)
      BY <2>3, SameWriter DEF Calibration!CloseOutcomes
    <3>2. s \in Streams
      BY <1>2, WriterFacts
    <3> QED BY <1>2, <2>3, <3>1, <3>2, StreamCloses
  <2>4. CASE main.pc = "seal"
    <3>1. o \in SealOutcomes(dataset)
      BY <2>4, SameWriter DEF Calibration!CloseOutcomes
    <3> QED BY <1>2, <2>4, <3>1, SessionSealed
  <2> QED BY <1>1, <2>1, <2>2, <2>3, <2>4
<1>5. Hashed(dataset') /\ dataset' \in Writers(Nat) /\ dataset'.rows = dataset.rows
  BY <1>3, <1>4 DEF Hashed
<1>6. CASE o.error # None
  <2>1. /\ main' \in Mains /\ main'.pending = <<>> /\ ~main'.half /\ main'.raised # None
        /\ main'.aborted = main.aborted
        /\ main'.pc \in {"stoppreview", "stopvideo", "stopimu", "close"}
    BY <1>1, <1>2, <1>3, <1>6, RaiseFacts
  <2>2. main'.pc = "stoppreview"
    <3>1. main' = [main EXCEPT !.pc = "stoppreview", !.raised = "error", !.pending = <<>>, !.half = FALSE]
      BY <1>1, <1>3, <1>6 DEF Calibration!Raise, Calibration!Unwind
    <3> QED BY <1>2, <3>1 DEF Mains
  <2>3. CalibrationInv'
    BY <1>1, <1>5, <2>1, <2>2, ClosingFails
  <2> QED BY <1>1, <1>3, <1>5, <2>1, <2>3 DEF CalibrationTypes
<1>7. CASE o.error = None
  <2> DEFINE pc == Calibration!AfterClose(dataset.listed \subseteq dataset.closed)
  <2>1. /\ pc \in {"files", "seal", "stoppreview"}
        /\ pc = "files" => main.pc \in {"close", "files"}
        /\ pc = "seal" => main.pc = "files" /\ dataset.listed \subseteq dataset.closed
        /\ pc = "stoppreview" => main.pc = "seal"
    BY <1>1 DEF Calibration!AfterClose
  <2>2. pc \in Places
    BY <2>1 DEF Places, Calibration!Guarded
  <2>3. Calibration!Goto(pc)
    BY <1>3, <1>7
  <2> HIDE DEF pc
  <2>4. /\ main' \in Mains /\ main'.pc = pc
        /\ main'.pending = main.pending /\ main'.half = main.half
        /\ main'.raised = main.raised /\ main'.aborted = main.aborted
    BY <1>2, <2>2, <2>3, GotoFacts
  <2>5. VideoFlows' /\ SamplesFlow' /\ AcceptedIsCounted' /\ outcome.status = None
    BY <1>1, <1>5, <2>4, ClosingQuiet
  <2>6. main.pending = <<>> /\ ~main.half
    BY <1>1 DEF CalibrationInv, PendingHold
  <2>7. PendingHold' /\ ChildHold'
    BY <1>1, <2>1, <2>4, <2>5, <2>6 DEF CalibrationInv, PendingHold, ChildHold
  <2>8. CalibrationFiles'
    <3>1. pc # "stoppreview" => dataset'.state = "active"
      BY <1>3, <1>4, <1>7, <2>1
    <3> QED BY <1>5, <2>1, <2>4, <3>1 DEF CalibrationFiles, Hashed, Ended
  <2>9. StagesHold'
    <3> SUFFICES ASSUME main.raised = None
                 PROVE  StagesHold'
      BY <2>4 DEF StagesHold
    <3>1. /\ child.pc = "ended" /\ ~child.error /\ messages = <<>>
          /\ ~playing /\ video.at = "idle" /\ writes = <<>> /\ ~writing /\ ~recorder.error
          /\ main.pc = "seal" => dataset.manifest = Opened(dataset)
      BY <1>1 DEF CalibrationInv, StagesHold, Closing
    <3>2. Opened(dataset') = Opened(dataset) /\ Opened(dataset)' = Opened(dataset')
      BY <1>3, <1>4 DEF Opened
    <3>3. pc \in {"seal", "stoppreview"} => dataset'.manifest = Opened(dataset')
      BY <1>3, <1>4, <1>7, <2>1, <3>1, <3>2
    <3>4. pc = "stoppreview" => dataset'.state = "sealed"
      BY <1>3, <1>4, <1>7, <2>1
    <3> QED BY <1>1, <2>1, <2>4, <3>1, <3>2, <3>3, <3>4 DEF StagesHold, Closing, Ended
  <2>10. CalibrationInv'
    BY <2>5, <2>7, <2>8, <2>9 DEF CalibrationInv
  <2> QED BY <1>1, <1>3, <1>5, <2>4, <2>10 DEF CalibrationTypes
<1> QED BY <1>6, <1>7

(* Ctrl-C outside of the loop.                                              *)
LEMMA InterruptKeeps ==
    ASSUME CalibrationTypes, CalibrationInv, Calibration!Interrupt
    PROVE  CalibrationTypes' /\ CalibrationInv'
<1>1. /\ UNCHANGED <<recorder, writes, writing, video, playing, child, messages, flags, preview, outcome>>
      /\ main.pc \in Calibration!Guarded /\ upsets' \in Nat
      /\ main' = [main EXCEPT !.pc = Calibration!Unwind(main.pc), !.raised = "interrupt", !.pending = <<>>, !.half = FALSE]
  BY DEF Calibration!Interrupt, Calibration!Upset, CalibrationTypes
<1>2. main \in Mains /\ dataset \in Writers(Nat) /\ Hashed(dataset) /\ "interrupt" \in {"error", "interrupt"}
  BY DEF CalibrationTypes, CalibrationInv, CalibrationFiles
<1>3. /\ main' \in Mains /\ main'.pending = <<>> /\ ~main'.half
      /\ main'.raised # None /\ main'.aborted = main.aborted
      /\ main'.pc \in {"stoppreview", "stopvideo", "stopimu", "close"}
  BY <1>1, <1>2, UnwindFacts
<1>4. CASE main.pc \in {"close", "files", "seal"}
  <2>1. dataset' = Failed(dataset)
    BY <1>4, SameWriter DEF Calibration!Interrupt
  <2>2. dataset' \in Writers(Nat) /\ dataset'.rows = dataset.rows /\ Hashed(dataset')
    <3>1. Failed(dataset) \in Writers(Nat) /\ Failed(dataset).rows = dataset.rows /\ Hashed(Failed(dataset))
      BY <1>2, FailedFacts, FailureKeepsHashes
    <3> QED BY <2>1, <3>1 DEF Hashed
  <2>3. main'.pc = "stoppreview"
    <3>1. main' = [main EXCEPT !.pc = "stoppreview", !.raised = "interrupt", !.pending = <<>>, !.half = FALSE]
      BY <1>1, <1>4 DEF Calibration!Unwind
    <3> QED BY <1>2, <3>1 DEF Mains
  <2>4. CalibrationInv'
    BY <1>1, <1>3, <1>4, <2>2, <2>3, ClosingFails
  <2> QED BY <1>1, <1>3, <2>2, <2>4 DEF CalibrationTypes
<1>5. CASE main.pc \notin {"close", "files", "seal"}
  <2>1. dataset' = dataset
    BY <1>5 DEF Calibration!Interrupt
  <2>2. main.pc \notin Ended
    BY <1>1 DEF Calibration!Guarded, Ended
  <2>3. CalibrationInv'
    BY <1>1, <1>3, <2>1, <2>2, UnwindKeeps
  <2> QED BY <1>1, <1>3, <2>1, <2>3 DEF CalibrationTypes
<1> QED BY <1>4, <1>5

(* The end: the preview is stopped, the report written.                     *)
LEMMA EndKeeps ==
    ASSUME CalibrationTypes, CalibrationInv, Calibration!StopPreview \/ Calibration!Report
    PROVE  CalibrationTypes' /\ CalibrationInv'
<1>1. /\ UNCHANGED <<dataset, recorder, writes, writing, video, playing, child, messages, flags>>
      /\ main.pc \in {"stoppreview", "report"}
  BY DEF Calibration!StopPreview, Calibration!Report
<1>2. main \in Mains /\ outcome \in Outcomes /\ main.raised \in {None, "error", "interrupt"}
  BY FieldFacts DEF CalibrationTypes
<1>3. outcome.status = None /\ main.pending = <<>> /\ ~main.half
      /\ (main.pc = "report" => main.raised = None) /\ ~Calibration!Accepted
  BY <1>1, SameWriter DEF CalibrationInv, PendingHold, Calibration!Accepted, None
<1>4. upsets' \in Nat
  BY DEF Calibration!StopPreview, Calibration!Report, Calibration!Upset, CalibrationTypes
<1>5. preview' \in Previews
  <2>1. preview' \in {preview, "stopped", "failed"}
    BY DEF Calibration!StopPreview, Calibration!Report
  <2> QED BY <2>1 DEF CalibrationTypes, Previews
<1>6. ASSUME NEW pc \in {"report", "exit"}, Calibration!Goto(pc), pc = "report" => main.raised = None,
             outcome' \in Outcomes, pc = "report" => outcome' = outcome,
             Calibration!Accepted' => /\ pc = "exit" /\ main.raised = None /\ ~main.aborted
                                      /\ outcome'.video = recorder.video /\ outcome'.samples = recorder.samples
      PROVE  CalibrationTypes' /\ CalibrationInv'
  <2>1. pc \in Places
    BY DEF Places
  <2>2. /\ main' \in Mains /\ main'.pc = pc
        /\ main'.pending = main.pending /\ main'.half = main.half
        /\ main'.raised = main.raised /\ main'.aborted = main.aborted
    BY <1>2, <1>6, <2>1, GotoFacts
  <2>3. CalibrationTypes'
    BY <1>1, <1>4, <1>5, <1>6, <2>2 DEF CalibrationTypes
  <2>4. VideoFlows'
    BY <1>1, VideoStays DEF CalibrationInv
  <2>5. SamplesFlow'
    <3>1. Whole' => Whole
      BY <1>1, <2>2 DEF Whole
    <3> QED BY <1>1, <2>2, <3>1, SamplesStay DEF CalibrationInv
  <2>6. PendingHold' /\ ChildHold'
    BY <1>1, <1>3, <1>6, <2>2 DEF CalibrationInv, PendingHold, ChildHold
  <2>7. StagesHold'
    BY <1>1, <2>2 DEF CalibrationInv, StagesHold, Closing, Ended
  <2>8. CalibrationFiles'
    BY <1>1, <2>2, FilesStay DEF CalibrationInv, Ended
  <2>9. AcceptedIsCounted'
    BY <1>1, <1>6, <2>2 DEF AcceptedIsCounted
  <2> QED BY <2>3, <2>4, <2>5, <2>6, <2>7, <2>8, <2>9 DEF CalibrationInv
<1>7. CASE Calibration!StopPreview
  <2>1. CASE main.raised = None
    <3>1. Calibration!Goto("report") /\ outcome' = outcome
      BY <1>7, <2>1, SameWriter DEF Calibration!StopPreview
    <3>2. ~Calibration!Accepted'
      BY <1>3, <3>1 DEF Calibration!Accepted
    <3> QED BY <1>2, <1>6, <2>1, <3>1, <3>2
  <2>2. CASE main.raised # None
    <3>1. Calibration!Goto("exit") /\ outcome' = [outcome EXCEPT !.status = main.raised]
      BY <1>7, <2>2, SameWriter DEF Calibration!StopPreview
    <3>2. outcome' \in Outcomes /\ outcome'.status \in {"error", "interrupt"}
      BY <1>2, <2>2, <3>1 DEF Outcomes
    <3>3. ~Calibration!Accepted'
      BY <3>2 DEF Calibration!Accepted
    <3> QED BY <1>6, <3>1, <3>2, <3>3
  <2> QED BY <2>1, <2>2
<1>8. CASE Calibration!Report
  <2>1. Calibration!Goto("exit") /\ main.pc = "report" /\ main.raised = None
    BY <1>3, <1>8 DEF Calibration!Report
  <2>2. CASE outcome' = [outcome EXCEPT !.status = "error"]
    <3>1. outcome' \in Outcomes /\ outcome'.status = "error"
      BY <1>2, <2>2 DEF Outcomes
    <3>2. ~Calibration!Accepted'
      BY <3>1 DEF Calibration!Accepted
    <3> QED BY <1>6, <2>1, <3>1, <3>2
  <2>3. ASSUME NEW stage \in Calibration!Stages, NEW c \in Calibration!Checks, NEW p \in Calibration!PreviewVerdicts,
               outcome' = [status |-> Calibration!Verdict(stage, c, p), video |-> recorder.video,
                           samples |-> recorder.samples]
        PROVE  CalibrationTypes' /\ CalibrationInv'
    <3> DEFINE v == Calibration!Verdict(stage, c, p)
    <3>1. v \in {"PASS", "PROVISIONAL_PASS", "FAIL"} /\ (v # "FAIL" => c.video)
      BY DEF Calibration!Verdict, Calibration!Stages
    <3>2. c.video => ~main.aborted
      BY DEF Calibration!Checks
    <3> HIDE DEF v
    <3>3. outcome' = [status |-> v, video |-> recorder.video, samples |-> recorder.samples]
      BY <2>3 DEF v
    <3>4. outcome'.status = v /\ outcome'.video = recorder.video /\ outcome'.samples = recorder.samples
      BY <3>3
    <3>5. outcome' \in Outcomes
      BY <3>1, <3>3, FieldFacts DEF Outcomes
    <3>6. Calibration!Accepted' => v # "FAIL"
      BY <3>4 DEF Calibration!Accepted
    <3> QED BY <1>6, <2>1, <3>1, <3>2, <3>4, <3>5, <3>6
  <2> QED BY <1>8, <2>2, <2>3 DEF Calibration!Report
<1> QED BY <1>7, <1>8

-----------------------------------------------------------------------------
(* The recording as a whole.                                                *)

LEMMA CalibrationStart ==
    ASSUME Calibration!Init
    PROVE  CalibrationTypes /\ CalibrationInv
<1>1. CalibrationTypes
  BY CalibrationTypesInit
<1>2. /\ dataset = NewWriter /\ writes = <<>> /\ messages = <<>>
      /\ ~recorder.error /\ recorder.video = 0 /\ recorder.samples = 0
      /\ video.at = "idle" /\ child.pc = "off" /\ child.batch = <<>> /\ child.read = 0
      /\ main.pc = "preview" /\ main.pending = <<>> /\ ~main.half /\ outcome.status = None
  BY SameWriter DEF Calibration!Init
<1>3. /\ dataset.state = "active" /\ dataset.manifest = {} /\ dataset.closed = {}
      /\ \A s \in CalibrationStreams : dataset.rows[s] = <<>>
  BY <1>2, CalibrationAssumption DEF NewWriter, CalibrationStreams
<1>4. /\ writes \in Seq(Items) /\ messages \in Seq(Batches)
      /\ \A s \in CalibrationStreams : dataset.rows[s] \in Seq(Index(Nat))
  BY <1>1, FieldFacts, CalibrationAssumption DEF CalibrationTypes, CalibrationStreams
<1>5. \A s \in CalibrationStreams : Carries(dataset.rows[s], writes, s, 0)
  BY <1>2, <1>3, <1>4, CarriesNone
<1>6. QueuedFrames = 0 /\ QueuedSamples = 0
  BY <1>2 DEF QueuedFrames, QueuedSamples
<1>7. VideoFlows
  BY <1>2, <1>5, <1>6 DEF VideoFlows, CalibrationStreams
<1>8. SamplesFlow
  <2>1. Len(main.pending) = 0 /\ Len(child.batch) = 0 /\ DOMAIN main.pending = {} /\ DOMAIN child.batch = {}
    BY <1>2
  <2>2. Relays(messages, 0, 0)
    BY <1>2, <1>4, RelaysNone
  <2>3. Carries(dataset.rows["ego.xu.packet"], writes, "ego.xu.packet", 0) /\ Carries(dataset.rows["ego.imu"], writes, "ego.imu", 0)
    BY <1>5 DEF CalibrationStreams
  <2>4. Reading(child)
    BY <1>2, <2>1 DEF Reading
  <2>5. 0 + 0 = 0 /\ 0 - 0 = 0
    OBVIOUS
  <2> QED BY <1>2, <1>6, <2>1, <2>2, <2>3, <2>4, <2>5 DEF SamplesFlow
<1>9. PendingHold /\ ChildHold
  BY <1>2 DEF PendingHold, ChildHold
<1>10. StagesHold
  BY <1>2 DEF StagesHold, Closing, Ended
<1>11. CalibrationFiles
  BY <1>3 DEF CalibrationFiles, Hashed
<1>12. AcceptedIsCounted
  BY <1>2 DEF AcceptedIsCounted, Calibration!Accepted, None
<1> QED BY <1>1, <1>7, <1>8, <1>9, <1>10, <1>11, <1>12 DEF CalibrationInv

LEMMA CalibrationStays ==
    ASSUME CalibrationTypes, CalibrationInv, UNCHANGED calibrationVars
    PROVE  CalibrationTypes' /\ CalibrationInv'
<1>1. UNCHANGED <<upsets, dataset, recorder, writes, writing, video, playing, child, messages, flags, preview, main,
                  outcome>>
  BY DEF calibrationVars
<1>2. CalibrationTypes'
  BY <1>1 DEF CalibrationTypes
<1>3. VideoFlows' /\ SamplesFlow'
  BY <1>1, VideoStays, SamplesStay DEF CalibrationInv, Whole
<1>4. PendingHold' /\ ChildHold' /\ StagesHold'
  BY <1>1 DEF CalibrationInv, PendingHold, ChildHold, StagesHold
<1>5. CalibrationFiles' /\ AcceptedIsCounted'
  BY <1>1, FilesStay, CountedStays DEF CalibrationInv
<1> QED BY <1>2, <1>3, <1>4, <1>5 DEF CalibrationInv

(* Every step of the threads and processes of a calibration keeps it.       *)
LEMMA CalibrationStep ==
    ASSUME CalibrationTypes, CalibrationInv, Calibration!Next
    PROVE  CalibrationTypes' /\ CalibrationInv'
<1>1. CASE Calibration!Streaming
  BY <1>1, StreamingTypes, StreamingKeeps
<1>2. CASE Calibration!WriteOne
  BY <1>2, StreamingTypes, WriteOneKeeps
<1>3. CASE Calibration!Child \/ Calibration!ChildDies
  BY <1>3, ChildTypes, ChildKeeps
<1>4. CASE Calibration!PreviewEnds \/ Calibration!DeadlinePasses
  BY <1>4, OutsideKeeps
<1>5. CASE Calibration!Main
  BY <1>5, SetUpKeeps, TakeKeeps, PacketKeeps, SampleKeeps, LoopKeeps, StopKeeps, CloseKeeps, EndKeeps
     DEF Calibration!Main
<1>6. CASE Calibration!InterruptLoop \/ Calibration!Interrupt
  BY <1>6, LoopKeeps, InterruptKeeps
<1> QED BY <1>1, <1>2, <1>3, <1>4, <1>5, <1>6 DEF Calibration!Next

LEMMA CalibrationSound ==
    ASSUME CalibrationTypes, CalibrationInv
    PROVE  Calibration!SealIsFinal /\ CalibrationIsPersisted
<1>1. Calibration!SealIsFinal
  <2>1. dataset.manifest \subseteq Streams
    BY WriterFacts DEF CalibrationTypes
  <2> QED BY <2>1 DEF CalibrationInv, CalibrationFiles, Hashed, Calibration!SealIsFinal
<1>2. ASSUME Calibration!Accepted
      PROVE  /\ dataset.state = "sealed" /\ dataset.manifest = Calibration!Opened(dataset)
             /\ Calibration!Rows("ego.video") = Calibration!UpTo(outcome.video)
             /\ outcome.samples = child.read
             /\ Calibration!Rows("ego.xu.packet") = Calibration!UpTo(child.read)
             /\ Calibration!Rows("ego.imu") = Calibration!UpTo(child.read)
  <2>1. /\ main.pc = "exit" /\ main.raised = None /\ ~main.aborted
        /\ outcome.video = recorder.video /\ outcome.samples = recorder.samples
    BY <1>2 DEF CalibrationInv, AcceptedIsCounted
  <2>2. /\ child.pc = "ended" /\ ~child.error /\ messages = <<>> /\ video.at = "idle"
        /\ writes = <<>> /\ ~recorder.error /\ dataset.manifest = Opened(dataset) /\ dataset.state = "sealed"
    BY <2>1 DEF CalibrationInv, StagesHold, Closing, Ended
  <2>3. child.batch = <<>> /\ main.pending = <<>> /\ ~main.half
    BY <2>1, <2>2 DEF CalibrationInv, ChildHold, PendingHold
  <2>4. QueuedFrames = recorder.video /\ QueuedSamples = recorder.samples
    BY <2>2, <2>3 DEF QueuedFrames, QueuedSamples
  <2>5. Whole
    BY <2>1, <2>2 DEF Whole
  <2>6. /\ writes \in Seq(Items) /\ messages \in Seq(Batches) /\ recorder.video \in Nat /\ recorder.samples \in Nat
        /\ child.read \in Nat /\ \A s \in CalibrationStreams : dataset.rows[s] \in Seq(Index(Nat))
    BY FieldFacts, CalibrationAssumption DEF CalibrationTypes, CalibrationStreams
  <2>7. Carries(dataset.rows["ego.video"], writes, "ego.video", recorder.video)
    BY <2>2, <2>4 DEF CalibrationInv, VideoFlows
  <2>8. /\ Carries(dataset.rows["ego.xu.packet"], writes, "ego.xu.packet", recorder.samples)
        /\ Carries(dataset.rows["ego.imu"], writes, "ego.imu", recorder.samples)
        /\ Relays(messages, recorder.samples + Len(main.pending), child.read - Len(child.batch))
    BY <2>4, <2>5 DEF CalibrationInv, SamplesFlow
  <2>9. recorder.samples = child.read
    <3>1. Len(main.pending) = 0 /\ Len(child.batch) = 0
      BY <2>3
    <3>2. recorder.samples + 0 = recorder.samples /\ child.read - 0 = child.read
      BY <2>6
    <3>3. Relays(messages, recorder.samples, child.read)
      BY <2>8, <3>1, <3>2
    <3> QED BY <2>2, <2>6, <3>3, RelaysNone
  <2>10. /\ [i \in DOMAIN dataset.rows["ego.video"] |-> dataset.rows["ego.video"][i].record] = Calibration!UpTo(recorder.video)
         /\ [i \in DOMAIN dataset.rows["ego.xu.packet"] |-> dataset.rows["ego.xu.packet"][i].record]
               = Calibration!UpTo(recorder.samples)
         /\ [i \in DOMAIN dataset.rows["ego.imu"] |-> dataset.rows["ego.imu"][i].record] = Calibration!UpTo(recorder.samples)
    BY <2>2, <2>6, <2>7, <2>8, CarriesAll DEF CalibrationStreams
  <2> QED BY <2>1, <2>2, <2>9, <2>10, SameWriter DEF Calibration!Rows
<1> QED BY <1>1, <1>2 DEF CalibrationIsPersisted, Calibration!CalibrationIsPersisted

-----------------------------------------------------------------------------
(* Both programs.                                                           *)

(* Every step of either program keeps both invariants.                      *)
LEMMA BothStep ==
    ASSUME TypeOK, IInv, CalibrationTypes, CalibrationInv, [MCNext]_allVars
    PROVE  TypeOK' /\ IInv' /\ CalibrationTypes' /\ CalibrationInv'
<1>1. [Next]_vars /\ (Calibration!Next \/ UNCHANGED calibrationVars)
  BY DEF MCNext, Worker, Recording, allVars
<1> QED BY <1>1, Step, CalibrationStep, CalibrationStays

(* The inductive invariants of the workers and of the calibration recording *)
(* hold together, whichever of the two programs runs.                       *)
THEOREM BothInvariance == MCSpec => [](TypeOK /\ IInv /\ CalibrationTypes /\ CalibrationInv)
<1>1. MCInit => TypeOK /\ IInv /\ CalibrationTypes /\ CalibrationInv
  BY Start, CalibrationStart DEF MCInit
<1>2. TypeOK /\ IInv /\ CalibrationTypes /\ CalibrationInv /\ [MCNext]_allVars
        => (TypeOK /\ IInv /\ CalibrationTypes /\ CalibrationInv)'
  BY BothStep
<1> QED BY <1>1, <1>2, PTL DEF MCSpec

(* The files of every program that uses AppendOnlySessionWriter are sound:  *)
(* rows point at their payloads, and what manifest.json has hashed is what  *)
(* the files hold, also after an interrupt that leaves the writer thread of *)
(* a calibration at work while main closes the session.                     *)
THEOREM SealedFilesAlwaysSound == MCSpec => []SealedFilesAreSound
<1>1. TypeOK /\ IInv /\ CalibrationTypes /\ CalibrationInv => SealedFilesAreSound
  <2>1. ASSUME FileInv PROVE FilesAreSound
    BY <2>1, StreamFacts DEF FileInv, Hashed, FilesAreSound
  <2> QED BY <2>1, CalibrationSound DEF IInv, SealedFilesAreSound
<1> QED BY <1>1, BothInvariance, PTL

(* A calibration that is accepted is sealed and holds every frame that its  *)
(* report counts and every sample that the IMU process has read, each once  *)
(* and in order, for queues and pipes of any size (IsolatedImuReader.finish *)
(* and the order of capture's ExitStack).                                   *)
THEOREM CalibrationAlwaysPersisted == MCSpec => []CalibrationIsPersisted
<1>1. TypeOK /\ IInv /\ CalibrationTypes /\ CalibrationInv => CalibrationIsPersisted
  BY CalibrationSound
<1> QED BY <1>1, BothInvariance, PTL

=============================================================================
