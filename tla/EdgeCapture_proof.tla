-------------------------- MODULE EdgeCapture_proof --------------------------
(***************************************************************************)
(* What the edge programs promise of a sealed session, for any number of   *)
(* frames, queues and chunks of any size, and every schedule of main, of   *)
(* the threads and of the processes they write to.                         *)
(*                                                                         *)
(* The Z2 writer (EdgeSession): until it fails, the refs of the rows tile  *)
(* the chunks and the counts are those of the rows (RowsHold); the         *)
(* manifest repeats both, and the marker goes last (SealHolds).            *)
(*                                                                         *)
(* The v4l2 capture (SpoolCapture): how far threads and processes are, and *)
(* what the directory holds, at each stage of main (SpoolControl); every   *)
(* row's frame is in the file, the queue or the FIFO, in the order of the  *)
(* rows, and frames without a row only shift those behind them             *)
(* (SpoolFlow).  The verdict compares numbers only: a file of as many      *)
(* frames as there are rows has no room for a shift.                       *)
(*                                                                         *)
(* The RSUSB capture (EdgeCapture): the stages of main, of its children    *)
(* and of the directory (EdgeControl); the entries of an infrared writer   *)
(* are the rows, then at most its sentinels, and those of the encoder the  *)
(* color frames (EdgeFlow); rows pair frames of both eyes by number, so    *)
(* that equal numbers of frames and rows leave no eye a frame of its own   *)
(* (Pairing); the target that a signal or a duration set (TargetStages);   *)
(* and what was judged stays true of what is sealed (EdgeVerdict).         *)
(***************************************************************************)
EXTENDS MCEdgeCapture, SequenceTheorems, FiniteSetTheorems, TLAPS
-----------------------------------------------------------------------------
(* The Z2 session.                                                          *)

Refs == [chunk : Nat, offset : Nat, size : Nat]
RowsOf(s) == [stamp : Nat, refs : [DOMAIN Session!PayloadsOf(s) -> Refs]]
WriterStates == {"active", "failed", "aborted", "sealed", "gone"}
Recordings ==
    [state : WriterStates, step : {"idle", "manifest", "unlink", "sync"},
     last : [Session!EdgeStreams -> Nat], count : [Session!EdgeStreams -> Nat]]

SessionTypes ==
    /\ record \in Recordings
    /\ chunks \in [Session!Payloads -> Seq(Nat)]
    /\ DOMAIN index = Session!EdgeStreams /\ \A s \in Session!EdgeStreams : index[s] \in Seq(RowsOf(s))
    /\ DOMAIN sealing = {"marker", "manifest"} /\ sealing.marker \in BOOLEAN

\* The stream a payload belongs to, and its place in the rows.
StreamOf(p) == IF p \in {"left", "right"} THEN "ir" ELSE p
PlaceOf(p) == IF p = "right" THEN 2 ELSE 1

RefsTo(p) == [i \in DOMAIN index[StreamOf(p)] |-> index[StreamOf(p)][i].refs[PlaceOf(p)]]

\* A ref holds a byte of a chunk.
Holds(ref, k, byte) == ref.chunk = k /\ ref.offset <= byte /\ byte < ref.offset + ref.size

\* The refs to a payload lie in its chunks, and each byte is that of one ref.
Tiled(refs, sizes) ==
    /\ \A i \in DOMAIN refs : refs[i].chunk \in DOMAIN sizes /\ refs[i].offset + refs[i].size <= sizes[refs[i].chunk]
    /\ \A k \in DOMAIN sizes :
         /\ \E i \in DOMAIN refs : refs[i].chunk = k
         /\ \A byte \in 0 .. sizes[k] - 1 :
              \E i \in DOMAIN refs : Holds(refs[i], k, byte) /\ \A j \in DOMAIN refs : Holds(refs[j], k, byte) => j = i

\* The three streams, and their four payloads by stream and place.
LEMMA PayloadFacts ==
    /\ Session!EdgeStreams = {"ir", "rgb", "stm32"} /\ Session!Payloads = {"left", "right", "rgb", "stm32"}
    /\ \A p \in Session!Payloads :
         /\ StreamOf(p) \in Session!EdgeStreams /\ PlaceOf(p) \in DOMAIN Session!PayloadsOf(StreamOf(p))
         /\ Session!PayloadsOf(StreamOf(p))[PlaceOf(p)] = p
    /\ \A s \in Session!EdgeStreams : \A j \in DOMAIN Session!PayloadsOf(s) :
         /\ Session!PayloadsOf(s)[j] \in Session!Payloads
         /\ StreamOf(Session!PayloadsOf(s)[j]) = s /\ PlaceOf(Session!PayloadsOf(s)[j]) = j
<1>1. Session!PayloadsOf("ir") = <<"left", "right">> /\ Session!PayloadsOf("rgb") = <<"rgb">>
      /\ Session!PayloadsOf("stm32") = <<"stm32">>
  BY DEF Session!PayloadsOf
<1>2. DOMAIN <<"left", "right">> = {1, 2} /\ DOMAIN <<"rgb">> = {1} /\ DOMAIN <<"stm32">> = {1}
  OBVIOUS
<1>3. Session!EdgeStreams = {"ir", "rgb", "stm32"} /\ Session!Payloads = {"left", "right", "rgb", "stm32"}
  BY DEF Session!EdgeStreams, Session!Payloads
<1> QED BY <1>1, <1>2, <1>3 DEF StreamOf, PlaceOf

(* What an element at the end adds.                                         *)
LEMMA EndFacts ==
    ASSUME NEW S, NEW q \in Seq(S), NEW e \in S
    PROVE  /\ Append(q, e) \in Seq(S) /\ Append(q, e) # <<>>
           /\ Len(Append(q, e)) = Len(q) + 1 /\ Len(q) \in Nat
           /\ DOMAIN q = 1 .. Len(q)
           /\ DOMAIN Append(q, e) = 1 .. Len(q) + 1
           /\ \A i \in DOMAIN q : Append(q, e)[i] = q[i]
           /\ Append(q, e)[Len(q) + 1] = e
BY AppendProperties, LenProperties

(* A payload that is appended extends the tiling, in the last chunk or in a *)
(* new one (_ChunkedPayloadWriter.append).                                  *)
LEMMA AppendTiles ==
    ASSUME NEW refs \in Seq(Refs), NEW sizes \in Seq(Nat), NEW size \in 1 .. ChunkBytes, Tiled(refs, sizes)
    PROVE  /\ Session!Ref(sizes, size) \in Refs /\ Session!Appended(sizes, size) \in Seq(Nat)
           /\ Tiled(Append(refs, Session!Ref(sizes, size)), Session!Appended(sizes, size))
<1> DEFINE ref == Session!Ref(sizes, size)
           more == Append(refs, ref)
           new == Session!Appended(sizes, size)
<1>0. size \in Nat /\ size > 0 /\ ChunkBytes \in Nat /\ Len(sizes) \in Nat /\ DOMAIN sizes = 1 .. Len(sizes)
      /\ \A k \in DOMAIN sizes : sizes[k] \in Nat
  BY SessionAssumption, LenProperties, ElementOfSeq
<1>00. Len(refs) \in Nat /\ DOMAIN refs = 1 .. Len(refs)
       /\ \A i \in DOMAIN refs : refs[i].chunk \in Nat /\ refs[i].offset \in Nat /\ refs[i].size \in Nat
  <2>1. Len(refs) \in Nat /\ DOMAIN refs = 1 .. Len(refs)
    BY LenProperties
  <2>2. \A i \in DOMAIN refs : refs[i] \in Refs
    BY <2>1, ElementOfSeq
  <2> QED BY <2>1, <2>2 DEF Refs
<1>1. CASE sizes = <<>> \/ sizes[Len(sizes)] + size > ChunkBytes
  <2>1. Session!Rotates(sizes, size)
    BY <1>1 DEF Session!Rotates
  <2>2. ref = [chunk |-> Len(sizes) + 1, offset |-> 0, size |-> size] /\ new = Append(sizes, size)
    BY <2>1 DEF Session!Ref, Session!Appended
  <2>3. ref \in Refs /\ ref.chunk = Len(sizes) + 1 /\ ref.offset = 0 /\ ref.size = size
    BY <1>0, <2>2 DEF Refs
  <2>4. /\ DOMAIN more = 1 .. Len(refs) + 1 /\ (\A i \in DOMAIN refs : more[i] = refs[i]) /\ more[Len(refs) + 1] = ref
    BY <2>3, EndFacts
  <2>5. /\ new \in Seq(Nat) /\ DOMAIN new = 1 .. Len(sizes) + 1 /\ (\A k \in DOMAIN sizes : new[k] = sizes[k])
        /\ new[Len(sizes) + 1] = size
    BY <1>0, <2>2, EndFacts
  <2> HIDE DEF ref, more, new
  <2>6. \A i \in DOMAIN more : more[i].chunk \in DOMAIN new /\ more[i].offset + more[i].size <= new[more[i].chunk]
    <3> TAKE i \in DOMAIN more
    <3>1. CASE i \in DOMAIN refs
      BY SMTT(30), <1>0, <2>4, <2>5, <3>1 DEF Tiled
    <3>2. CASE i = Len(refs) + 1
      BY <1>0, <2>3, <2>4, <2>5, <3>2
    <3> QED BY <1>00, <2>4, <3>1, <3>2
  <2>7. ASSUME NEW k \in DOMAIN new
        PROVE  /\ \E i \in DOMAIN more : more[i].chunk = k
               /\ \A byte \in 0 .. new[k] - 1 :
                    \E i \in DOMAIN more : Holds(more[i], k, byte) /\ \A j \in DOMAIN more : Holds(more[j], k, byte) => j = i
    <3>1. CASE k \in DOMAIN sizes
      <4>1. PICK i \in DOMAIN refs : refs[i].chunk = k
        BY <3>1 DEF Tiled
      <4>2. i \in DOMAIN more /\ more[i].chunk = k
        BY <1>00, <2>4, <4>1
      <4>3. ASSUME NEW byte \in 0 .. new[k] - 1
            PROVE  \E x \in DOMAIN more : Holds(more[x], k, byte) /\ \A j \in DOMAIN more : Holds(more[j], k, byte) => j = x
        <5>1. byte \in 0 .. sizes[k] - 1
          BY <2>5, <3>1
        <5>2. PICK x \in DOMAIN refs : Holds(refs[x], k, byte) /\ \A j \in DOMAIN refs : Holds(refs[j], k, byte) => j = x
          BY <3>1, <5>1 DEF Tiled
        <5>3. ~Holds(ref, k, byte)
          BY <1>0, <2>3, <3>1 DEF Holds
        <5>4. x \in DOMAIN more /\ Holds(more[x], k, byte)
          BY <1>00, <2>4, <5>2
        <5>5. ASSUME NEW j \in DOMAIN more, Holds(more[j], k, byte) PROVE j = x
          <6>1. j \in DOMAIN refs \/ j = Len(refs) + 1
            BY <1>00, <2>4
          <6> QED BY <2>4, <5>2, <5>3, <5>5, <6>1
        <5> QED BY <5>4, <5>5
      <4> QED BY <4>2, <4>3
    <3>2. CASE k = Len(sizes) + 1
      <4>1. Len(refs) + 1 \in DOMAIN more /\ more[Len(refs) + 1] = ref /\ ref.chunk = k
        BY <1>00, <2>3, <2>4, <3>2
      <4>2. \A j \in DOMAIN refs : refs[j].chunk # k
        BY <1>0, <3>2 DEF Tiled
      <4>3. \A byte \in 0 .. new[k] - 1 : Holds(ref, k, byte)
        BY <1>0, <2>3, <2>5, <3>2, <4>1 DEF Holds
      <4>4. \A byte : \A j \in DOMAIN more : Holds(more[j], k, byte) => j = Len(refs) + 1
        BY <1>00, <2>4, <4>2 DEF Holds
      <4> QED BY <4>1, <4>3, <4>4
    <3> QED BY <1>0, <2>5, <3>1, <3>2
  <2>8. Tiled(more, new)
    BY <2>6, <2>7 DEF Tiled
  <2> QED BY <2>3, <2>5, <2>8 DEF ref, more, new
<1>2. CASE ~(sizes = <<>> \/ sizes[Len(sizes)] + size > ChunkBytes)
  <2> DEFINE n == Len(sizes)
             old == sizes[Len(sizes)]
  <2>0. n \in DOMAIN sizes /\ n > 0 /\ old \in Nat
    BY <1>0, <1>2, EmptySeq
  <2>1. ~Session!Rotates(sizes, size)
    BY <1>2 DEF Session!Rotates
  <2>2. ref = [chunk |-> n, offset |-> old, size |-> size] /\ new = [sizes EXCEPT ![n] = old + size]
    BY <2>1 DEF Session!Ref, Session!Appended
  <2>3. ref \in Refs /\ ref.chunk = n /\ ref.offset = old /\ ref.size = size
    BY <1>0, <2>0, <2>2 DEF Refs
  <2>4. /\ DOMAIN more = 1 .. Len(refs) + 1 /\ (\A i \in DOMAIN refs : more[i] = refs[i]) /\ more[Len(refs) + 1] = ref
    BY <2>3, EndFacts
  <2>5. /\ new \in Seq(Nat) /\ DOMAIN new = DOMAIN sizes /\ (\A k \in DOMAIN sizes : k # n => new[k] = sizes[k])
        /\ new[n] = old + size
    <3>1. old + size \in Nat /\ n \in 1 .. Len(sizes)
      BY <1>0, <2>0
    <3>2. new \in Seq(Nat)
      BY <2>2, <3>1, ExceptSeq
    <3> QED BY <2>0, <2>2, <3>2
  <2> HIDE DEF ref, more, new, n, old
  <2>6. \A i \in DOMAIN more : more[i].chunk \in DOMAIN new /\ more[i].offset + more[i].size <= new[more[i].chunk]
    <3> TAKE i \in DOMAIN more
    <3>1. CASE i \in DOMAIN refs
      <4>1. refs[i].chunk \in DOMAIN sizes /\ refs[i].offset + refs[i].size <= sizes[refs[i].chunk]
        BY <3>1 DEF Tiled
      <4>2. refs[i].offset + refs[i].size <= new[refs[i].chunk]
        <5>1. CASE refs[i].chunk = n
          <6>1. refs[i].offset + refs[i].size <= old /\ refs[i].offset \in Nat /\ refs[i].size \in Nat
            BY <1>00, <3>1, <4>1, <5>1 DEF n, old
          <6> QED BY SMTT(30), <1>0, <2>0, <2>5, <5>1, <6>1
        <5>2. CASE refs[i].chunk # n
          BY <2>5, <4>1, <5>2
        <5> QED BY <5>1, <5>2
      <4> QED BY <2>4, <2>5, <3>1, <4>1, <4>2
    <3>2. CASE i = Len(refs) + 1
      BY <1>0, <2>0, <2>3, <2>4, <2>5, <3>2
    <3> QED BY <1>00, <2>4, <3>1, <3>2
  <2>7. ASSUME NEW k \in DOMAIN new
        PROVE  /\ \E i \in DOMAIN more : more[i].chunk = k
               /\ \A byte \in 0 .. new[k] - 1 :
                    \E i \in DOMAIN more : Holds(more[i], k, byte) /\ \A j \in DOMAIN more : Holds(more[j], k, byte) => j = i
    <3>1. PICK i \in DOMAIN refs : refs[i].chunk = k
      BY <2>5 DEF Tiled
    <3>2. i \in DOMAIN more /\ more[i].chunk = k
      BY <1>00, <2>4, <3>1
    <3>3. ASSUME NEW byte \in 0 .. new[k] - 1
          PROVE  \E x \in DOMAIN more : Holds(more[x], k, byte) /\ \A j \in DOMAIN more : Holds(more[j], k, byte) => j = x
      <4>1. CASE byte < sizes[k]
        <5>1. byte \in 0 .. sizes[k] - 1
          BY <1>0, <2>5, <4>1
        <5>2. PICK x \in DOMAIN refs : Holds(refs[x], k, byte) /\ \A j \in DOMAIN refs : Holds(refs[j], k, byte) => j = x
          BY <2>5, <5>1 DEF Tiled
        <5>3. ~Holds(ref, k, byte)
          BY <1>0, <2>0, <2>3, <4>1 DEF Holds, n, old
        <5>4. x \in DOMAIN more /\ Holds(more[x], k, byte)
          BY <1>00, <2>4, <5>2
        <5>5. ASSUME NEW j \in DOMAIN more, Holds(more[j], k, byte) PROVE j = x
          <6>1. j \in DOMAIN refs \/ j = Len(refs) + 1
            BY <1>00, <2>4
          <6> QED BY <2>4, <5>2, <5>3, <5>5, <6>1
        <5> QED BY <5>4, <5>5
      <4>2. CASE ~(byte < sizes[k])
        <5>1. k = n /\ byte >= old /\ byte < old + size /\ byte \in Nat
          <6>1. byte \in Nat /\ byte < new[k] /\ sizes[k] \in Nat
            BY <1>0, <2>0, <2>5
          <6>2. k = n
            BY <1>0, <2>5, <4>2, <6>1
          <6> QED BY <2>5, <4>2, <6>1, <6>2 DEF n, old
        <5>2. Holds(ref, k, byte) /\ Len(refs) + 1 \in DOMAIN more /\ more[Len(refs) + 1] = ref
          BY <1>0, <1>00, <2>0, <2>3, <2>4, <5>1 DEF Holds
        <5>3. \A j \in DOMAIN refs : ~Holds(refs[j], k, byte)
          BY SMTT(30), <1>00, <2>0, <5>1 DEF Tiled, Holds, n, old
        <5>4. ASSUME NEW j \in DOMAIN more, Holds(more[j], k, byte) PROVE j = Len(refs) + 1
          <6>1. j \in DOMAIN refs \/ j = Len(refs) + 1
            BY <1>00, <2>4
          <6> QED BY <2>4, <5>3, <5>4, <6>1
        <5> QED BY <5>2, <5>4
      <4> QED BY <4>1, <4>2
    <3> QED BY <3>2, <3>3
  <2>8. Tiled(more, new)
    BY <2>6, <2>7 DEF Tiled
  <2> QED BY <2>3, <2>5, <2>8 DEF ref, more, new
<1> QED BY <1>1, <1>2

\* The cardinality that the instance uses is the one the library is about.
LEMMA SameCardinality == \A S : Session!Cardinality(S) = Cardinality(S)
BY DEF Session!Cardinality, Cardinality

(* What is tiled the validator accepts.                                     *)
LEMMA TiledIsCovered ==
    ASSUME NEW refs, NEW sizes, Tiled(refs, sizes)
    PROVE  Session!Covered(refs, sizes)
<1>1. ASSUME NEW k \in DOMAIN sizes, NEW byte \in 0 .. sizes[k] - 1
      PROVE  Cardinality({i \in DOMAIN refs : refs[i].chunk = k /\ refs[i].offset <= byte
                                              /\ byte < refs[i].offset + refs[i].size}) = 1
  <2>1. PICK i \in DOMAIN refs : Holds(refs[i], k, byte) /\ \A j \in DOMAIN refs : Holds(refs[j], k, byte) => j = i
    BY <1>1 DEF Tiled
  <2>2. {x \in DOMAIN refs : refs[x].chunk = k /\ refs[x].offset <= byte /\ byte < refs[x].offset + refs[x].size} = {i}
    BY <2>1 DEF Holds
  <2> QED BY <2>2, FS_Singleton
<1> QED BY <1>1, SameCardinality DEF Tiled, Session!Covered

\* The rows of a stream are in order, the last of them no later than the stamp.
InOrder(rows, last) ==
    /\ \A i \in DOMAIN rows : rows[i].stamp <= last
    /\ \A i, j \in DOMAIN rows : i < j => rows[i].stamp < rows[j].stamp

\* The inductive invariant of the writer: until it fails, its refs tile its
\* chunks and its counts are those of its rows; from the seal on its manifest
\* repeats both; the marker goes with the last step but the sync.
RowsHold ==
    record.state \in {"active", "sealed"} =>
        /\ \A p \in Session!Payloads : Tiled(RefsTo(p), chunks[p])
        /\ \A s \in Session!EdgeStreams : InOrder(index[s], record.last[s]) /\ record.count[s] = Len(index[s])

SealHolds ==
    /\ record.state \in {"active", "sealed"} /\ record.step # "idle" =>
           \A s \in Session!EdgeStreams : record.count[s] > 0
    /\ record.state \in {"active", "sealed"} /\ record.step \in {"unlink", "sync"} =>
           sealing.manifest = [counts |-> record.count, sizes |-> chunks]
    /\ record.state \in {"active", "sealed"} /\ record.step = "sync" => ~sealing.marker
    /\ record.state = "sealed" => record.step = "sync"
    /\ ~sealing.marker => record.step = "sync"

SessionInv == SessionTypes /\ RowsHold /\ SealHolds

\* The fields of the writer's state.
LEMMA RecordFacts ==
    ASSUME record \in Recordings
    PROVE  /\ record.state \in WriterStates /\ record.step \in {"idle", "manifest", "unlink", "sync"}
           /\ record.last \in [Session!EdgeStreams -> Nat] /\ record.count \in [Session!EdgeStreams -> Nat]
BY DEF Recordings

\* The refs to a payload, one for each row of its stream.
LEMMA RefsFacts ==
    ASSUME SessionTypes, NEW p \in Session!Payloads
    PROVE  RefsTo(p) \in Seq(Refs) /\ DOMAIN RefsTo(p) = DOMAIN index[StreamOf(p)]
           /\ Len(RefsTo(p)) = Len(index[StreamOf(p)])
<1> DEFINE s == StreamOf(p)
<1>1. s \in Session!EdgeStreams /\ PlaceOf(p) \in DOMAIN Session!PayloadsOf(s)
  BY PayloadFacts
<1>2. index[s] \in Seq(RowsOf(s))
  BY <1>1 DEF SessionTypes
<1>3. Len(index[s]) \in Nat /\ DOMAIN index[s] = 1 .. Len(index[s])
  BY <1>2, LenProperties
<1>4. \A i \in 1 .. Len(index[s]) : index[s][i].refs[PlaceOf(p)] \in Refs
  <2> TAKE i \in 1 .. Len(index[s])
  <2>1. index[s][i] \in RowsOf(s)
    BY <1>2, <1>3, ElementOfSeq
  <2>2. index[s][i].refs \in [DOMAIN Session!PayloadsOf(s) -> Refs]
    BY <2>1 DEF RowsOf
  <2> QED BY <1>1, <2>2
<1>5. RefsTo(p) = [i \in 1 .. Len(index[s]) |-> index[s][i].refs[PlaceOf(p)]]
  BY <1>3 DEF RefsTo
<1>6. RefsTo(p) \in Seq(Refs)
  BY <1>3, <1>4, <1>5, IsASeq
<1>7. Len(RefsTo(p)) = Len(index[s])
  BY <1>3, <1>5, <1>6, LenProperties
<1> QED BY <1>3, <1>5, <1>6, <1>7

\* A new writer satisfies the invariant.
LEMMA SessionStart ==
    ASSUME Session!SessionInit
    PROVE  SessionInv
<1>1. /\ record = [state |-> "active", step |-> "idle",
                   last |-> [s \in Session!EdgeStreams |-> 0], count |-> [s \in Session!EdgeStreams |-> 0]]
      /\ chunks = [p \in Session!Payloads |-> <<>>] /\ index = [s \in Session!EdgeStreams |-> <<>>]
      /\ sealing = [marker |-> TRUE, manifest |-> Session!NoManifest]
  BY DEF Session!SessionInit
<1>2. record \in Recordings /\ record.step = "idle" /\ (\A s \in Session!EdgeStreams : record.count[s] = 0)
      /\ sealing.marker = TRUE /\ DOMAIN sealing = {"marker", "manifest"}
  BY <1>1 DEF Recordings, WriterStates
<1>3. SessionTypes
  <2>1. \A s \in Session!EdgeStreams : <<>> \in Seq(RowsOf(s))
    BY EmptySeq
  <2>2. chunks \in [Session!Payloads -> Seq(Nat)]
    BY <1>1, EmptySeq
  <2> QED BY <1>1, <1>2, <2>1, <2>2 DEF SessionTypes
<1>4. \A s \in Session!EdgeStreams : Len(index[s]) = 0 /\ DOMAIN index[s] = {}
  BY <1>1
<1>5. \A p \in Session!Payloads : Tiled(RefsTo(p), chunks[p])
  <2> TAKE p \in Session!Payloads
  <2>1. DOMAIN chunks[p] = {} /\ DOMAIN RefsTo(p) = {}
    BY <1>1, <1>3, <1>4, RefsFacts, PayloadFacts
  <2> QED BY <2>1 DEF Tiled
<1>6. RowsHold
  BY <1>2, <1>4, <1>5 DEF RowsHold, InOrder
<1> QED BY <1>2, <1>3, <1>6, <1>1 DEF SessionInv, SealHolds

\* A record that is appended (Z2EdgeSessionWriter.append).
LEMMA AppendKeeps ==
    ASSUME SessionInv, NEW s \in Session!EdgeStreams, NEW stamp \in 1 .. MaxStamp, NEW size \in 1 .. ChunkBytes,
           Session!AppendRecord(s, stamp, size)
    PROVE  SessionInv'
<1> DEFINE ps == Session!PayloadsOf(s)
           row == [stamp |-> stamp, refs |-> [i \in DOMAIN ps |-> Session!Ref(chunks[ps[i]], size)]]
<1>1. /\ record \in Recordings /\ chunks \in [Session!Payloads -> Seq(Nat)] /\ stamp \in Nat
      /\ DOMAIN index = Session!EdgeStreams /\ (\A t \in Session!EdgeStreams : index[t] \in Seq(RowsOf(t)))
  BY SessionAssumption DEF SessionInv, SessionTypes
<1>2. /\ record.state = "active" /\ record.step = "idle" /\ stamp > record.last[s]
      /\ chunks' = [p \in Session!Payloads |-> IF \E i \in DOMAIN ps : ps[i] = p THEN Session!Appended(chunks[p], size)
                                                                                  ELSE chunks[p]]
      /\ index' = [index EXCEPT ![s] = Append(index[s], row)]
      /\ record' = [[record EXCEPT !.last[s] = stamp] EXCEPT !.count[s] = record.count[s] + 1]
      /\ UNCHANGED sealing
  BY DEF Session!AppendRecord, Session!Calls
<1>3. \A p \in Session!Payloads : Tiled(RefsTo(p), chunks[p]) /\ RefsTo(p) \in Seq(Refs) /\ chunks[p] \in Seq(Nat)
  BY <1>1, <1>2, RefsFacts DEF SessionInv, RowsHold
<1>4. \A i \in DOMAIN ps : ps[i] \in Session!Payloads /\ StreamOf(ps[i]) = s /\ PlaceOf(ps[i]) = i
  BY PayloadFacts
<1>5. row \in RowsOf(s) /\ row.stamp = stamp /\ \A i \in DOMAIN ps : row.refs[i] = Session!Ref(chunks[ps[i]], size)
  <2>1. \A i \in DOMAIN ps : Session!Ref(chunks[ps[i]], size) \in Refs
    BY <1>3, <1>4, AppendTiles
  <2> QED BY <1>1, <2>1 DEF RowsOf
<1> HIDE DEF row
<1>6. index[s] \in Seq(RowsOf(s)) /\ Len(index[s]) \in Nat /\ DOMAIN index[s] = 1 .. Len(index[s])
  BY <1>1, LenProperties
<1>7. /\ DOMAIN index' = Session!EdgeStreams /\ (\A t \in Session!EdgeStreams : t # s => index'[t] = index[t])
      /\ index'[s] = Append(index[s], row) /\ index'[s] \in Seq(RowsOf(s))
      /\ Len(index'[s]) = Len(index[s]) + 1 /\ DOMAIN index'[s] = 1 .. Len(index[s]) + 1
      /\ (\A i \in DOMAIN index[s] : index'[s][i] = index[s][i]) /\ index'[s][Len(index[s]) + 1] = row
  BY <1>1, <1>2, <1>5, <1>6, EndFacts
<1>8. /\ record' \in Recordings /\ record'.state = "active" /\ record'.step = "idle"
      /\ record'.last[s] = stamp /\ record'.count[s] = record.count[s] + 1
      /\ \A t \in Session!EdgeStreams : t # s => record'.last[t] = record.last[t] /\ record'.count[t] = record.count[t]
  <2> DEFINE late == [record EXCEPT !.last[s] = stamp]
  <2>1. /\ late \in Recordings /\ late.state = "active" /\ late.step = "idle" /\ late.count = record.count
        /\ late.last = [record.last EXCEPT ![s] = stamp]
    BY <1>1, <1>2, RecordFacts DEF Recordings
  <2>2. record' = [late EXCEPT !.count[s] = record.count[s] + 1]
    BY <1>2
  <2> HIDE DEF late
  <2>3. record.count[s] + 1 \in Nat
    BY <1>1, RecordFacts
  <2>4. /\ record' \in Recordings /\ record'.state = "active" /\ record'.step = "idle" /\ record'.last = late.last
        /\ record'.count = [late.count EXCEPT ![s] = record.count[s] + 1]
    BY <2>1, <2>2, <2>3 DEF Recordings
  <2> QED BY <1>1, <2>1, <2>4, RecordFacts
<1>9. \A p \in Session!Payloads : chunks'[p] = IF StreamOf(p) = s THEN Session!Appended(chunks[p], size) ELSE chunks[p]
  <2> TAKE p \in Session!Payloads
  <2>1. (\E i \in DOMAIN ps : ps[i] = p) <=> StreamOf(p) = s
    BY <1>4, PayloadFacts
  <2> QED BY <1>2, <2>1
<1>10. SessionTypes'
  <2>1. \A p \in Session!Payloads : chunks'[p] \in Seq(Nat)
    BY <1>3, <1>9, AppendTiles
  <2>2. chunks' \in [Session!Payloads -> Seq(Nat)]
    BY <1>2, <2>1
  <2>3. \A t \in Session!EdgeStreams : index'[t] \in Seq(RowsOf(t))
    BY <1>1, <1>7
  <2> QED BY <1>2, <1>7, <1>8, <2>2, <2>3 DEF SessionTypes, SessionInv
<1>11. ASSUME NEW p \in Session!Payloads
       PROVE  Tiled(RefsTo(p)', chunks'[p])
  <2>1. CASE StreamOf(p) # s
    <3>1. StreamOf(p) \in Session!EdgeStreams
      BY PayloadFacts
    <3>2. RefsTo(p)' = RefsTo(p) /\ chunks'[p] = chunks[p]
      BY <1>7, <1>9, <2>1, <3>1 DEF RefsTo
    <3> QED BY <1>3, <3>2
  <2>2. CASE StreamOf(p) = s
    <3> DEFINE ref == Session!Ref(chunks[p], size)
               more == RefsTo(p)'
    <3>1. ref \in Refs /\ Tiled(Append(RefsTo(p), ref), Session!Appended(chunks[p], size))
      BY <1>3, AppendTiles
    <3>2. PlaceOf(p) \in DOMAIN ps /\ ps[PlaceOf(p)] = p
      BY <2>2, PayloadFacts
    <3>3. row.refs[PlaceOf(p)] = ref
      BY <1>5, <3>2
    <3>4. more = [i \in 1 .. Len(index[s]) + 1 |-> index'[s][i].refs[PlaceOf(p)]]
      BY <1>7, <2>2 DEF RefsTo
    <3>5. RefsTo(p) = [i \in 1 .. Len(index[s]) |-> index[s][i].refs[PlaceOf(p)]] /\ Len(RefsTo(p)) = Len(index[s])
      BY <1>6, <2>2, RefsFacts DEF RefsTo, SessionInv
    <3> HIDE DEF ref, more
    <3>6. more \in Seq(Refs) /\ Len(more) = Len(index[s]) + 1
      <4>1. \A i \in 1 .. Len(index[s]) + 1 : index'[s][i].refs[PlaceOf(p)] \in Refs
        <5> TAKE i \in 1 .. Len(index[s]) + 1
        <5>1. CASE i \in DOMAIN index[s]
          <6>1. index'[s][i].refs[PlaceOf(p)] = RefsTo(p)[i]
            BY <1>6, <1>7, <3>5, <5>1
          <6> QED BY <1>3, <1>6, <3>5, <5>1, <6>1, ElementOfSeq
        <5>2. CASE i = Len(index[s]) + 1
          BY <1>7, <3>1, <3>3, <5>2
        <5> QED BY <1>6, <5>1, <5>2
      <4>2. Len(index[s]) + 1 \in Nat
        BY <1>6
      <4>3. more \in Seq(Refs)
        BY <3>4, <4>1, <4>2, IsASeq
      <4> QED BY <3>4, <4>2, <4>3, LenProperties
    <3>7. more = Append(RefsTo(p), ref)
      <4>1. /\ Append(RefsTo(p), ref) \in Seq(Refs) /\ Len(Append(RefsTo(p), ref)) = Len(index[s]) + 1
            /\ (\A i \in 1 .. Len(index[s]) : Append(RefsTo(p), ref)[i] = RefsTo(p)[i])
            /\ Append(RefsTo(p), ref)[Len(index[s]) + 1] = ref
        BY <1>3, <1>6, <3>1, <3>5, EndFacts
      <4>2. ASSUME NEW i \in 1 .. Len(more) PROVE more[i] = Append(RefsTo(p), ref)[i]
        <5>1. CASE i \in 1 .. Len(index[s])
          BY <1>6, <1>7, <3>4, <3>5, <3>6, <4>1, <5>1
        <5>2. CASE i = Len(index[s]) + 1
          BY <1>6, <1>7, <3>3, <3>4, <3>6, <4>1, <5>2
        <5>3. i \in 1 .. Len(index[s]) \/ i = Len(index[s]) + 1
          BY <1>6, <3>6
        <5> QED BY <5>1, <5>2, <5>3
      <4> QED BY <3>6, <4>1, <4>2, SeqEqual
    <3>8. chunks'[p] = Session!Appended(chunks[p], size)
      BY <1>9, <2>2
    <3> QED BY <3>1, <3>7, <3>8 DEF more
  <2> QED BY <2>1, <2>2
<1>12. ASSUME NEW t \in Session!EdgeStreams
       PROVE  InOrder(index'[t], record'.last[t]) /\ record'.count[t] = Len(index'[t])
  <2>1. InOrder(index[t], record.last[t]) /\ record.count[t] = Len(index[t])
    BY <1>2 DEF SessionInv, RowsHold
  <2>2. CASE t # s
    BY <1>7, <1>8, <2>1, <2>2
  <2>3. CASE t = s
    <3>1. \A i \in DOMAIN index[s] : index[s][i].stamp \in Nat
      <4> TAKE i \in DOMAIN index[s]
      <4>1. index[s][i] \in RowsOf(s)
        BY <1>6, ElementOfSeq
      <4> QED BY <4>1 DEF RowsOf
    <3>2. \A i \in DOMAIN index[s] : index[s][i].stamp < stamp
      BY <1>1, <1>2, <2>1, <2>3, <3>1, RecordFacts DEF InOrder
    <3>3. \A i \in DOMAIN index'[s] : i \in DOMAIN index[s] \/ i = Len(index[s]) + 1
      BY <1>6, <1>7
    <3>4. \A i \in DOMAIN index'[s] : index'[s][i].stamp <= stamp
      BY <1>1, <1>5, <1>7, <3>1, <3>2, <3>3
    <3>5. ASSUME NEW i \in DOMAIN index'[s], NEW j \in DOMAIN index'[s], i < j
          PROVE  index'[s][i].stamp < index'[s][j].stamp
      <4>1. i \in DOMAIN index[s]
        BY <1>6, <1>7, <3>5
      <4>2. CASE j \in DOMAIN index[s]
        BY <1>7, <2>1, <2>3, <3>5, <4>1, <4>2 DEF InOrder
      <4>3. CASE j = Len(index[s]) + 1
        BY <1>5, <1>7, <3>2, <4>1, <4>3
      <4> QED BY <3>3, <4>2, <4>3
    <3> QED BY <1>7, <1>8, <2>1, <2>3, <3>4, <3>5 DEF InOrder
  <2> QED BY <2>2, <2>3
<1>13. RowsHold'
  BY <1>11, <1>12 DEF RowsHold
<1>14. SealHolds'
  BY <1>2, <1>8 DEF SealHolds, SessionInv
<1> QED BY <1>10, <1>13, <1>14 DEF SessionInv

(* A failure, an abort or a death leaves nothing that is promised.          *)
LEMMA FailureKeeps ==
    ASSUME SessionInv, record' \in Recordings, record'.state \notin {"active", "sealed"}, record'.step = record.step,
           chunks' \in [Session!Payloads -> Seq(Nat)], UNCHANGED <<index, sealing>>
    PROVE  SessionInv'
<1>1. SessionTypes'
  BY DEF SessionInv, SessionTypes
<1>2. RowsHold' /\ SealHolds'
  BY DEF SessionInv, RowsHold, SealHolds
<1> QED BY <1>1, <1>2 DEF SessionInv

\* The chunks that a full or a torn append leaves.
LEMMA TornTypes ==
    ASSUME NEW sizes \in Seq(Nat), NEW size \in 1 .. ChunkBytes
    PROVE  Session!Appended(sizes, size) \in Seq(Nat) /\ Session!Torn(sizes, size) \subseteq Seq(Nat)
<1>1. ASSUME NEW n \in 1 .. size PROVE Session!Appended(sizes, n) \in Seq(Nat)
  <2>1. n \in Nat /\ Len(sizes) \in Nat /\ \A k \in 1 .. Len(sizes) : sizes[k] \in Nat
    BY SessionAssumption, LenProperties, ElementOfSeq
  <2>2. CASE Session!Rotates(sizes, n)
    BY <2>1, <2>2, EndFacts DEF Session!Appended
  <2>3. CASE ~Session!Rotates(sizes, n)
    <3>1. Len(sizes) \in 1 .. Len(sizes)
      BY <2>1, <2>3, EmptySeq DEF Session!Rotates
    <3>2. sizes[Len(sizes)] + n \in Nat
      BY <2>1, <3>1
    <3>3. [sizes EXCEPT ![Len(sizes)] = sizes[Len(sizes)] + n] \in Seq(Nat)
      BY <3>1, <3>2, ExceptSeq
    <3> QED BY <2>3, <3>3 DEF Session!Appended
  <2> QED BY <2>2, <2>3
<1>2. Append(sizes, 0) \in Seq(Nat)
  BY EndFacts
<1>3. size \in 1 .. size
  BY SessionAssumption
<1> QED BY <1>1, <1>2, <1>3 DEF Session!Torn

\* A record whose append fails between two of its payloads.
LEMMA AppendFailsKeeps ==
    ASSUME SessionInv, NEW s \in Session!EdgeStreams, NEW stamp \in 1 .. MaxStamp, NEW size \in 1 .. ChunkBytes,
           Session!AppendFails(s, stamp, size)
    PROVE  SessionInv'
<1> DEFINE ps == Session!PayloadsOf(s)
<1>1. record \in Recordings /\ chunks \in [Session!Payloads -> Seq(Nat)]
  BY DEF SessionInv, SessionTypes
<1>2. PICK i \in DOMAIN ps : \E torn \in Session!Torn(chunks[ps[i]], size) :
          chunks' = [p \in Session!Payloads |->
                       IF p = ps[i] THEN torn
                       ELSE IF \E j \in 1 .. i - 1 : ps[j] = p THEN Session!Appended(chunks[p], size) ELSE chunks[p]]
  BY DEF Session!AppendFails
<1>3. Session!Torn(chunks[ps[i]], size) \subseteq Seq(Nat)
  BY <1>1, PayloadFacts, TornTypes
<1>4. \A p \in Session!Payloads : chunks[p] \in Seq(Nat) /\ Session!Appended(chunks[p], size) \in Seq(Nat)
  BY <1>1, TornTypes
<1>5. chunks' \in [Session!Payloads -> Seq(Nat)]
  BY <1>2, <1>3, <1>4
<1>6. record' = [record EXCEPT !.state = "failed"] /\ UNCHANGED <<index, sealing>>
  BY DEF Session!AppendFails
<1>7. record' \in Recordings /\ record'.state = "failed" /\ record'.step = record.step
  BY <1>1, <1>6 DEF Recordings, WriterStates
<1> QED BY <1>5, <1>6, <1>7, FailureKeeps

(* The steps of the seal, the abort and the death.                          *)
LEMMA SealKeeps ==
    ASSUME SessionInv,
           \/ Session!CloseAll \/ Session!WriteSessionManifest \/ Session!UnlinkRecording \/ Session!SyncSession
           \/ Session!AbortSession \/ Session!CollectorDies
    PROVE  SessionInv'
<1>1. /\ record \in Recordings /\ chunks \in [Session!Payloads -> Seq(Nat)] /\ DOMAIN sealing = {"marker", "manifest"}
      /\ sealing.marker \in BOOLEAN
  BY DEF SessionInv, SessionTypes
<1>2. UNCHANGED <<chunks, index>>
  BY DEF Session!CloseAll, Session!WriteSessionManifest, Session!UnlinkRecording, Session!SyncSession,
         Session!AbortSession, Session!CollectorDies, Session!SealStep
<1>3. ASSUME NEW state \in {"failed", "aborted", "gone"}, record' = [record EXCEPT !.state = state], UNCHANGED sealing
      PROVE  SessionInv'
  <2>1. record' \in Recordings /\ record'.state = state /\ record'.step = record.step
    BY <1>1, <1>3 DEF Recordings, WriterStates
  <2> QED BY <1>1, <1>2, <1>3, <2>1, FailureKeeps
<1>4. ASSUME NEW then \in {"manifest", "unlink", "sync"}, record.state = "active",
             record' = [record EXCEPT !.step = then]
      PROVE  /\ record' \in Recordings /\ record'.state = "active" /\ record'.step = then
             /\ record'.last = record.last /\ record'.count = record.count
  BY <1>1, <1>4 DEF Recordings
<1>5. ASSUME record'.state \in {"active", "sealed"} => record.state = "active",
             record'.last = record.last, record'.count = record.count
      PROVE  RowsHold'
  <2>1. \A p \in Session!Payloads : RefsTo(p)' = RefsTo(p)
    BY <1>2 DEF RefsTo
  <2> QED BY <1>2, <1>5, <2>1 DEF RowsHold, SessionInv
<1>6. CASE Session!CloseAll
  <2>1. CASE record' = [record EXCEPT !.step = "manifest"] /\ sealing' = sealing
    <3>1. record.state = "active" /\ record.step = "idle" /\ \A s \in Session!EdgeStreams : record.count[s] > 0
      BY <1>6 DEF Session!CloseAll, Session!SealStep
    <3>2. /\ record' \in Recordings /\ record'.state = "active" /\ record'.step = "manifest"
          /\ record'.last = record.last /\ record'.count = record.count
      BY <1>4, <2>1, <3>1
    <3>3. SessionTypes'
      BY <1>2, <2>1, <3>2 DEF SessionInv, SessionTypes
    <3>4. RowsHold'
      BY <1>5, <3>1, <3>2
    <3>5. SealHolds'
      BY <2>1, <3>1, <3>2 DEF SealHolds, SessionInv
    <3> QED BY <3>3, <3>4, <3>5 DEF SessionInv
  <2> QED BY <1>3, <1>6, <2>1 DEF Session!CloseAll, Session!SealStep
<1>7. CASE Session!WriteSessionManifest
  <2> DEFINE after == [sealing EXCEPT !.manifest = [counts |-> record.count, sizes |-> chunks]]
  <2>1. CASE record' = [record EXCEPT !.step = "unlink"] /\ sealing' = after
    <3>1. record.state = "active" /\ record.step = "manifest"
      BY <1>7 DEF Session!WriteSessionManifest, Session!SealStep
    <3>2. /\ record' \in Recordings /\ record'.state = "active" /\ record'.step = "unlink"
          /\ record'.last = record.last /\ record'.count = record.count
      BY <1>4, <2>1, <3>1
    <3>3. /\ DOMAIN sealing' = {"marker", "manifest"} /\ sealing'.marker = sealing.marker
          /\ sealing'.manifest = [counts |-> record.count, sizes |-> chunks]
      BY <1>1, <2>1
    <3>4. SessionTypes'
      BY <1>1, <1>2, <3>2, <3>3 DEF SessionInv, SessionTypes
    <3>5. RowsHold'
      BY <1>5, <3>1, <3>2
    <3>6. SealHolds'
      BY <1>2, <3>1, <3>2, <3>3 DEF SealHolds, SessionInv
    <3> QED BY <3>4, <3>5, <3>6 DEF SessionInv
  <2> QED BY <1>3, <1>7, <2>1 DEF Session!WriteSessionManifest, Session!SealStep
<1>8. CASE Session!UnlinkRecording
  <2> DEFINE after == [sealing EXCEPT !.marker = FALSE]
  <2>1. CASE record' = [record EXCEPT !.step = "sync"] /\ sealing' = after
    <3>1. record.state = "active" /\ record.step = "unlink"
      BY <1>8 DEF Session!UnlinkRecording, Session!SealStep
    <3>2. /\ record' \in Recordings /\ record'.state = "active" /\ record'.step = "sync"
          /\ record'.last = record.last /\ record'.count = record.count
      BY <1>4, <2>1, <3>1
    <3>3. DOMAIN sealing' = {"marker", "manifest"} /\ sealing'.marker = FALSE /\ sealing'.manifest = sealing.manifest
      BY <1>1, <2>1
    <3>4. SessionTypes'
      BY <1>1, <1>2, <3>2, <3>3 DEF SessionInv, SessionTypes
    <3>5. RowsHold'
      BY <1>5, <3>1, <3>2
    <3>6. SealHolds'
      BY <1>2, <3>1, <3>2, <3>3 DEF SealHolds, SessionInv
    <3> QED BY <3>4, <3>5, <3>6 DEF SessionInv
  <2> QED BY <1>3, <1>8, <2>1 DEF Session!UnlinkRecording, Session!SealStep
<1>9. CASE Session!SyncSession
  <2>1. CASE record' = [record EXCEPT !.state = "sealed"]
    <3>1. record.state = "active" /\ record.step = "sync" /\ UNCHANGED sealing
      BY <1>9 DEF Session!SyncSession
    <3>2. /\ record' \in Recordings /\ record'.state = "sealed" /\ record'.step = "sync"
          /\ record'.last = record.last /\ record'.count = record.count
      BY <1>1, <2>1, <3>1 DEF Recordings, WriterStates
    <3>3. SessionTypes'
      BY <1>1, <1>2, <3>1, <3>2 DEF SessionInv, SessionTypes
    <3>4. RowsHold'
      BY <1>5, <3>1, <3>2
    <3>5. SealHolds'
      BY <1>2, <3>1, <3>2 DEF SealHolds, SessionInv
    <3> QED BY <3>3, <3>4, <3>5 DEF SessionInv
  <2> QED BY <1>3, <1>9, <2>1 DEF Session!SyncSession
<1>10. CASE Session!AbortSession \/ Session!CollectorDies
  BY <1>3, <1>10 DEF Session!AbortSession, Session!CollectorDies
<1> QED BY <1>6, <1>7, <1>8, <1>9, <1>10

\* Every step of the writer keeps its invariant.
LEMMA SessionStep ==
    ASSUME SessionInv, [Session!SessionNext]_sessionVars
    PROVE  SessionInv'
<1>1. CASE UNCHANGED sessionVars
  <2>1. UNCHANGED <<record, chunks, index, sealing>>
    BY <1>1 DEF sessionVars
  <2>2. \A p \in Session!Payloads : RefsTo(p)' = RefsTo(p)
    BY <2>1 DEF RefsTo
  <2> QED BY <2>1, <2>2 DEF SessionInv, SessionTypes, RowsHold, SealHolds
<1>2. ASSUME NEW s \in Session!EdgeStreams, NEW stamp \in 1 .. MaxStamp, NEW size \in 1 .. ChunkBytes,
             Session!AppendRecord(s, stamp, size) \/ Session!AppendFails(s, stamp, size)
      PROVE  SessionInv'
  BY <1>2, AppendKeeps, AppendFailsKeeps
<1> QED BY <1>1, <1>2, SealKeeps DEF Session!SessionNext

(* What is sealed the validator accepts.                                    *)
LEMMA SessionSound ==
    ASSUME SessionInv
    PROVE  Session!SealedIsAccepted
<1>1. ASSUME record.state = "sealed"
      PROVE  Session!Accepted
  <2>1. /\ record.step = "sync" /\ ~sealing.marker /\ sealing.manifest = [counts |-> record.count, sizes |-> chunks]
        /\ \A s \in Session!EdgeStreams : record.count[s] > 0
    BY <1>1 DEF SessionInv, SealHolds
  <2>2. /\ \A p \in Session!Payloads : Tiled(RefsTo(p), chunks[p])
        /\ \A s \in Session!EdgeStreams : InOrder(index[s], record.last[s]) /\ record.count[s] = Len(index[s])
    BY <1>1 DEF SessionInv, RowsHold
  <2>3. sealing.manifest # Session!NoManifest
    <3>1. DOMAIN record.count = Session!EdgeStreams /\ "ir" \in Session!EdgeStreams
      BY PayloadFacts, RecordFacts DEF SessionInv, SessionTypes
    <3>2. DOMAIN <<>> = {}
      OBVIOUS
    <3>3. sealing.manifest.counts # <<>>
      BY <2>1, <3>1, <3>2
    <3> QED BY <3>3 DEF Session!NoManifest
  <2>4. ASSUME NEW s \in Session!EdgeStreams PROVE Session!RowsAccepted(s)
    <3>1. index[s] \in Seq(RowsOf(s)) /\ Len(index[s]) \in Nat /\ DOMAIN index[s] = 1 .. Len(index[s])
      BY LenProperties DEF SessionInv, SessionTypes
    <3>2. \A i \in 2 .. Len(index[s]) : index[s][i].stamp > index[s][i - 1].stamp
      <4> TAKE i \in 2 .. Len(index[s])
      <4>1. i \in DOMAIN index[s] /\ i - 1 \in DOMAIN index[s] /\ i - 1 < i
        BY <3>1
      <4>2. index[s][i - 1].stamp < index[s][i].stamp
        BY <2>2, <4>1 DEF InOrder
      <4> QED BY <4>2
    <3>3. ASSUME NEW j \in DOMAIN Session!PayloadsOf(s)
          PROVE  Session!Covered([i \in DOMAIN index[s] |-> index[s][i].refs[j]], chunks[Session!PayloadsOf(s)[j]])
      <4> DEFINE p == Session!PayloadsOf(s)[j]
      <4>1. p \in Session!Payloads /\ StreamOf(p) = s /\ PlaceOf(p) = j
        BY PayloadFacts
      <4>2. RefsTo(p) = [i \in DOMAIN index[s] |-> index[s][i].refs[j]]
        BY <4>1 DEF RefsTo
      <4> QED BY <2>2, <4>1, <4>2, TiledIsCovered
    <3> QED BY <3>2, <3>3 DEF Session!RowsAccepted
  <2>5. sealing.manifest.sizes = chunks /\ \A s \in Session!EdgeStreams : sealing.manifest.counts[s] = record.count[s]
    BY <2>1
  <2> QED BY <2>1, <2>2, <2>3, <2>4, <2>5 DEF Session!Accepted
<1>2. ASSUME Session!Accepted
      PROVE  record.state = "sealed" \/ record.step = "sync"
  BY <1>2 DEF Session!Accepted, SessionInv, SealHolds
<1> QED BY <1>1, <1>2 DEF Session!SealedIsAccepted

-----------------------------------------------------------------------------
(* The v4l2 capture.                                                        *)

SpoolPreparing == {"server.build", "server.start", "serial.start", "spooler.start", "cameras.start"}
SpoolJoining == {"reader.join", "reader.again", "writer.join"}
SpoolJudging == {"serial.stop", "server.stop", "indexes", "judge"}
SpoolPublishing == {"rename", "inspect", "manifest", "unlink", "sync", "replace", "root", "return"}
SpoolCleaning == {"clean.ir", "clean.rgb", "clean.spooler", "clean.server", "clean.files"}
SpoolSteps ==
    {"preflight", "prepare", "join", "end"} \cup SpoolPreparing \cup SpoolJoining \cup SpoolJudging
        \cup SpoolPublishing \cup SpoolCleaning

Captures == [at : SpoolSteps, error : {Spool!Unset, "fail", "interrupt"}]
Processes == {Spool!Unset, "run", "ended", "failed", "hung", "stopped", "killed"}
Threads == {Spool!Unset, "start", "run", "done"}
Codes == {Spool!Unset, "ended", "failed"}
Cameras == [process : Processes, thread : Threads, code : Codes, next : Int, sent : Int, rows : Seq(Int)]
Readers == {Spool!Unset, "open", "read", "sentinel", "done"}
FileWriters == {Spool!Unset, "run", "done", "stuck"}
Spoolers ==
    [pipe : Seq(Int), reader : Readers, queue : Seq(Int), writer : FileWriters, file : Seq(Int), failed : BOOLEAN]
Colors == [process : Processes, thread : Threads, code : Codes, full : BOOLEAN]
SpoolEntries == {"name", "marker", "manifest", "payloads"}
Folders ==
    [name : {"absent", "partial", "final"}, marker : BOOLEAN, manifest : BOOLEAN, failure : BOOLEAN, named : BOOLEAN,
     unsynced : SUBSET SpoolEntries, durable : SUBSET {"infrared", "stm32", "index"}]

SpoolTypes ==
    /\ capture \in Captures /\ ir \in Cameras /\ spooler \in Spoolers /\ rgb \in Colors
    /\ collector \in {"new", "recording", "gapless", "lossy"}
    /\ server \in {"off", "wanted", "built", "running", "stopped", "broken"}
    /\ folder \in Folders

\* The fields of the capture's state.
LEMMA SpoolFacts ==
    ASSUME SpoolTypes
    PROVE  /\ capture.at \in SpoolSteps /\ capture.error \in {Spool!Unset, "fail", "interrupt"}
           /\ ir.process \in Processes /\ ir.thread \in Threads /\ ir.code \in Codes /\ ir.next \in Int /\ ir.sent \in Int
           /\ ir.rows \in Seq(Int)
           /\ spooler.pipe \in Seq(Int) /\ spooler.reader \in Readers /\ spooler.queue \in Seq(Int)
           /\ spooler.writer \in FileWriters /\ spooler.file \in Seq(Int) /\ spooler.failed \in BOOLEAN
           /\ rgb.process \in Processes /\ rgb.thread \in Threads /\ rgb.code \in Codes /\ rgb.full \in BOOLEAN
           /\ folder.name \in {"absent", "partial", "final"} /\ folder.marker \in BOOLEAN
           /\ folder.manifest \in BOOLEAN /\ folder.failure \in BOOLEAN /\ folder.named \in BOOLEAN
           /\ folder.unsynced \subseteq SpoolEntries /\ folder.durable \subseteq {"infrared", "stm32", "index"}
BY DEF SpoolTypes, Captures, Cameras, Spoolers, Colors, Folders

\* The steps of the threads and processes, each with what it changes.
LEMMA StepFacts ==
    ASSUME capture \in Captures, NEW p \in SpoolSteps
    PROVE  /\ Spool!Step(p) => capture' \in Captures /\ capture'.at = p /\ capture'.error = capture.error
           /\ Spool!Fails => capture' \in Captures /\ capture'.at = "clean.ir" /\ capture'.error = "fail"
           /\ \A e \in {Spool!Unset, "fail", "interrupt"} :
                Spool!Quit(e) => capture' \in Captures /\ capture'.at = "end" /\ capture'.error = e
BY DEF Captures, Spool!Step, Spool!Fails, Spool!Quit, SpoolSteps, SpoolCleaning

\* Where main is, and what it has raised.
SpoolBeginning == {"preflight", "prepare"}
SpoolWorking ==
    SpoolBeginning \cup SpoolPreparing \cup {"join"} \cup SpoolJoining \cup SpoolJudging \cup SpoolPublishing

SpoolStages ==
    /\ capture.at \in SpoolWorking => capture.error = Spool!Unset
    /\ capture.at \in SpoolCleaning => capture.error # Spool!Unset

\* How far the threads are at a stage of main: none runs before it is started,
\* and past its join it has ended.
Ended == ir.thread = "done" /\ rgb.thread = "done"
Drained == spooler.reader = "done" /\ spooler.writer = "done" /\ ~spooler.failed
ThreadStages ==
    /\ capture.at \in SpoolBeginning \cup (SpoolPreparing \ {"cameras.start"}) =>
         spooler.reader = Spool!Unset /\ spooler.writer = Spool!Unset
    /\ capture.at = "cameras.start" => spooler.reader = "open" /\ spooler.writer \notin {Spool!Unset}
    /\ capture.at \in SpoolBeginning \cup SpoolPreparing => ir.thread = Spool!Unset /\ rgb.thread = Spool!Unset
    /\ capture.at \in SpoolJoining \cup SpoolJudging \cup SpoolPublishing => Ended
    /\ capture.at \in SpoolJudging \cup SpoolPublishing => Drained

\* A process that was never started has done nothing, and one whose return code
\* was read has ended by it; past its cleanup none runs, and one that hangs has
\* no return code.
Idle(p) == p.thread \in {Spool!Unset, "start"} => p.process = Spool!Unset /\ p.code = Spool!Unset
Reaped(p) == p.code # Spool!Unset => p.process = p.code
Quiet(p) == p.process # "run" /\ (p.process = "hung" => p.code = Spool!Unset)
ProcessStages ==
    /\ Idle(ir) /\ Idle(rgb) /\ Reaped(ir) /\ Reaped(rgb)
    /\ \/ capture.at \in {"clean.rgb", "clean.spooler", "clean.server", "clean.files"}
       \/ capture.at = "end" /\ capture.error = "fail"
       => Quiet(ir)
    /\ \/ capture.at \in {"clean.spooler", "clean.server", "clean.files"}
       \/ capture.at = "end" /\ capture.error = "fail"
       => Quiet(rgb)

\* What the directory holds and what is synced of it, at each stage of main.
SpoolFolder ==
    /\ capture.at \in SpoolBeginning => folder.name = "absent"
    /\ folder.name = "absent" => folder.unsynced = {} /\ ~folder.marker
    /\ capture.at \in SpoolPreparing \cup {"join"} \cup SpoolJoining \cup SpoolJudging
                      \cup {"rename", "inspect", "manifest", "unlink"} => folder.marker
    /\ folder.name # "final" => "name" \notin folder.unsynced
    /\ capture.at \in {"inspect", "manifest", "unlink", "sync", "replace"} => folder.named
    /\ capture.at \in {"unlink", "sync", "replace"} => folder.manifest
    /\ capture.at \in {"sync", "replace"} => ~folder.marker
    /\ capture.at = "replace" => folder.unsynced = {}
    /\ capture.at \in SpoolJudging \cup SpoolPublishing => "infrared" \in folder.durable
    /\ capture.at \in {"server.stop", "indexes", "judge"} \cup SpoolPublishing => "stm32" \in folder.durable
    /\ capture.at \in {"judge"} \cup SpoolPublishing => "index" \in folder.durable
    /\ capture.at \in SpoolWorking \ {"root", "return"} => folder.name # "final"
    /\ folder.name # "absent" /\ ~folder.marker => folder.manifest
    /\ folder.failure => folder.name = "partial" /\ capture.at = "end"
    /\ folder.name = "final" => /\ ~folder.marker /\ folder.manifest /\ folder.named
                                /\ folder.unsynced \subseteq {"name"}
                                /\ {"infrared", "stm32", "index"} \subseteq folder.durable

\* The verdict, from where it is reached on, and for what it has sealed.
Verdict ==
    /\ Ended /\ Drained
    /\ Len(ir.rows) = SpoolFrames /\ spooler.file = ir.rows /\ Spool!Following(ir.rows)
    /\ rgb.full /\ collector = "gapless"
SpoolVerdict ==
    /\ capture.at \in SpoolPublishing \/ folder.name = "final" => Verdict
    /\ capture.at \in SpoolPublishing \ {"rename", "inspect"} \/ folder.name = "final" => server # "broken"

SpoolControl == SpoolStages /\ ThreadStages /\ ProcessStages /\ SpoolFolder /\ SpoolVerdict

(* The way of a frame: from the FIFO through the queue into the file.       *)
Carried == (spooler.file \o spooler.queue) \o spooler.pipe
Marks == IF spooler.reader = "done" /\ spooler.writer = "run" THEN 1 ELSE 0
FlowStages ==
    /\ Len(spooler.pipe) \in {0, 1} /\ ir.next >= 1
    /\ ir.thread \in {Spool!Unset, "start"} => ir.rows = <<>>
    /\ spooler.reader = Spool!Unset <=> spooler.writer = Spool!Unset
    /\ spooler.reader = Spool!Unset => spooler.pipe = <<>> /\ spooler.queue = <<>> /\ spooler.file = <<>> /\ ir.thread = Spool!Unset
    /\ spooler.reader = "open" => ir.process = Spool!Unset /\ spooler.pipe = <<>>
    /\ spooler.reader = "read" => ir.thread \notin {Spool!Unset, "start"}
\* While the spooler has not failed.
Whole == ~spooler.failed /\ spooler.writer # "stuck"
FlowEnds ==
    /\ spooler.reader \in {"sentinel", "done"} =>
         spooler.pipe = <<>> /\ ir.process \notin {"run", "hung"} /\ ir.thread \in {"run", "done"}
    /\ spooler.writer = "done" => spooler.reader = "done" /\ spooler.queue = <<>>
\* Which entries of the queue are the end mark: the last one, once it was put.
Marked(queue, mark) ==
    /\ mark = 1 => queue # <<>>
    /\ \A i \in DOMAIN queue : queue[i] = Spool!EndMark <=> mark = 1 /\ i = Len(queue)
FlowMarks ==
    /\ Marked(spooler.queue, Marks)
    /\ \A i \in DOMAIN spooler.pipe : spooler.pipe[i] # Spool!EndMark
\* Every row stands for a frame that was carried, and frames without a row only
\* shift the frames behind them.
RowsIn(carried, marks, rows) ==
    /\ Len(rows) <= Len(carried) - marks
    /\ \A k \in DOMAIN rows : \E d \in 0 .. Len(carried) - marks - Len(rows) : carried[k + d] = rows[k]
RowsCarried == RowsIn(Carried, Marks, ir.rows)
SpoolFlow == FlowStages /\ (Whole => FlowEnds /\ FlowMarks /\ RowsCarried)

SpoolInv == SpoolTypes /\ SpoolControl /\ SpoolFlow

-----------------------------------------------------------------------------
(* What the steps of the threads and processes change.                      *)

\* Main and what it works on.
mainVars == <<capture, collector, server, folder, interrupts>>

\* The camera's thread starts its process, which opens the FIFO, or fails to.
LEMMA StartCameraMoves ==
    ASSUME SpoolTypes, Spool!StartCamera
    PROVE  /\ UNCHANGED <<mainVars, rgb>> /\ capture.error = Spool!Unset /\ capture.at # "end"
           /\ ir' \in Cameras /\ spooler' \in Spoolers
           /\ ir.thread = "start" /\ ir'.thread \in {"run", "done"}
           /\ ir'.process = IF ir'.thread = "run" THEN "run" ELSE ir.process
           /\ ir'.code = ir.code /\ ir'.next = ir.next /\ ir'.rows = ir.rows
           /\ spooler'.reader = IF ir'.thread = "run" /\ spooler.reader = "open" THEN "read" ELSE spooler.reader
           /\ spooler'.pipe = spooler.pipe /\ spooler'.queue = spooler.queue /\ spooler'.file = spooler.file
           /\ spooler'.writer = spooler.writer /\ spooler'.failed = spooler.failed
<1> USE SpoolFacts
<1>1. UNCHANGED <<mainVars, rgb>> /\ capture.error = Spool!Unset /\ capture.at # "end" /\ ir.thread = "start"
  BY DEF Spool!StartCamera, Spool!Thread, Spool!Working, mainVars
<1>2. CASE /\ ir' = [ir EXCEPT !.thread = "run", !.process = "run"]
           /\ spooler' = [spooler EXCEPT !.reader = IF spooler.reader = "open" THEN "read" ELSE spooler.reader]
  <2>1. ir' \in Cameras /\ ir'.thread = "run" /\ ir'.process = "run"
        /\ ir'.code = ir.code /\ ir'.next = ir.next /\ ir'.rows = ir.rows
    BY <1>2 DEF SpoolTypes, Cameras, Processes, Threads
  <2> DEFINE r == IF spooler.reader = "open" THEN "read" ELSE spooler.reader
  <2>2. r \in Readers
    BY DEF Readers
  <2>3. spooler' = [spooler EXCEPT !.reader = r]
    BY <1>2
  <2> HIDE DEF r
  <2>4. spooler' \in Spoolers /\ spooler'.reader = r
        /\ spooler'.pipe = spooler.pipe /\ spooler'.queue = spooler.queue /\ spooler'.file = spooler.file
        /\ spooler'.writer = spooler.writer /\ spooler'.failed = spooler.failed
    BY <2>2, <2>3 DEF SpoolTypes, Spoolers
  <2> QED BY <1>1, <2>1, <2>4 DEF r
<1>3. CASE ir' = [ir EXCEPT !.thread = "done"] /\ UNCHANGED spooler
  <2>1. ir' \in Cameras /\ ir'.thread = "done" /\ ir'.process = ir.process
        /\ ir'.code = ir.code /\ ir'.next = ir.next /\ ir'.rows = ir.rows
    BY <1>3 DEF SpoolTypes, Cameras, Threads
  <2> QED BY <1>1, <1>3, <2>1 DEF SpoolTypes
<1> QED BY <1>2, <1>3 DEF Spool!StartCamera

\* A frame goes into the FIFO, and its row to the thread while that reads.
LEMMA CameraFrameMoves ==
    ASSUME SpoolTypes, Spool!CameraFrame
    PROVE  /\ UNCHANGED <<mainVars, rgb>> /\ capture.error = Spool!Unset /\ capture.at # "end"
           /\ ir' \in Cameras /\ spooler' \in Spoolers
           /\ ir.process = "run" /\ spooler.reader = "read" /\ spooler.pipe = <<>>
           /\ ir'.thread = ir.thread /\ ir'.process = "run" /\ ir'.code = ir.code
           /\ \E q \in {ir.next, ir.next + 1} :
                /\ ir'.next = q + 1 /\ ir'.rows = IF ir.thread = "run" THEN Append(ir.rows, q) ELSE ir.rows
                /\ spooler'.pipe = <<q>>
           /\ spooler'.reader = spooler.reader /\ spooler'.queue = spooler.queue /\ spooler'.file = spooler.file
           /\ spooler'.writer = spooler.writer /\ spooler'.failed = spooler.failed
<1> USE SpoolFacts
<1>1. UNCHANGED <<mainVars, rgb>> /\ capture.error = Spool!Unset /\ capture.at # "end"
      /\ ir.process = "run" /\ spooler.reader = "read" /\ spooler.pipe = <<>>
  BY DEF Spool!CameraFrame, Spool!Thread, Spool!Working, mainVars
<1>2. PICK q \in {ir.next, ir.next + 1} :
        /\ ir' = [ir EXCEPT !.next = q + 1, !.sent = ir.sent + 1, !.rows = Spool!Row(q)]
        /\ spooler' = [spooler EXCEPT !.pipe = <<q>>]
  BY DEF Spool!CameraFrame
<1>3. q \in Int /\ q + 1 \in Int /\ ir.sent + 1 \in Int
  OBVIOUS
<1>4. Spool!Row(q) \in Seq(Int)
  BY <1>3, EndFacts DEF Spool!Row
<1>5. <<q>> \in Seq(Int)
  BY <1>3
<1>6. spooler' \in Spoolers /\ spooler'.pipe = <<q>>
      /\ spooler'.reader = spooler.reader /\ spooler'.queue = spooler.queue /\ spooler'.file = spooler.file
      /\ spooler'.writer = spooler.writer /\ spooler'.failed = spooler.failed
  BY <1>2, <1>5 DEF SpoolTypes, Spoolers
<1>7. ir' \in Cameras /\ ir'.thread = ir.thread /\ ir'.process = ir.process /\ ir'.code = ir.code
      /\ ir'.next = q + 1 /\ ir'.rows = Spool!Row(q)
  BY <1>2, <1>3, <1>4 DEF SpoolTypes, Cameras
<1> QED BY <1>1, <1>6, <1>7 DEF Spool!Row

\* A frame without a row, which the FIFO may get or not.
LEMMA ErroneousFrameMoves ==
    ASSUME SpoolTypes, Spool!ErroneousFrame
    PROVE  /\ UNCHANGED <<mainVars, rgb>> /\ capture.error = Spool!Unset /\ capture.at # "end"
           /\ ir' \in Cameras /\ spooler' \in Spoolers
           /\ ir.process = "run" /\ spooler.reader = "read" /\ spooler.pipe = <<>>
           /\ ir'.thread = ir.thread /\ ir'.process = "run" /\ ir'.code = ir.code
           /\ ir'.next = ir.next + 1 /\ ir'.rows = ir.rows
           /\ spooler'.pipe \in {<<>>, <<ir.next>>}
           /\ spooler'.reader = spooler.reader /\ spooler'.queue = spooler.queue /\ spooler'.file = spooler.file
           /\ spooler'.writer = spooler.writer /\ spooler'.failed = spooler.failed
<1> USE SpoolFacts
<1>1. UNCHANGED <<mainVars, rgb>> /\ capture.error = Spool!Unset /\ capture.at # "end"
      /\ ir.process = "run" /\ spooler.reader = "read" /\ spooler.pipe = <<>>
  BY DEF Spool!ErroneousFrame, Spool!Thread, Spool!Working, mainVars
<1>2. PICK counted \in {0, 1} : ir' = [ir EXCEPT !.next = ir.next + 1, !.sent = ir.sent + counted]
  BY DEF Spool!ErroneousFrame
<1>3. PICK written \in {<<>>, <<ir.next>>} : spooler' = [spooler EXCEPT !.pipe = written]
  BY DEF Spool!ErroneousFrame
<1>4. <<>> \in Seq(Int) /\ <<ir.next>> \in Seq(Int)
  BY EmptySeq
<1>5. written \in Seq(Int)
  BY <1>4
<1>6. ir.next + 1 \in Int /\ ir.sent + counted \in Int
  OBVIOUS
<1>7. spooler' \in Spoolers /\ spooler'.pipe = written
      /\ spooler'.reader = spooler.reader /\ spooler'.queue = spooler.queue /\ spooler'.file = spooler.file
      /\ spooler'.writer = spooler.writer /\ spooler'.failed = spooler.failed
  BY <1>3, <1>5 DEF SpoolTypes, Spoolers
<1>8. ir' \in Cameras /\ ir'.thread = ir.thread /\ ir'.process = ir.process /\ ir'.code = ir.code
      /\ ir'.next = ir.next + 1 /\ ir'.rows = ir.rows
  BY <1>2, <1>6 DEF SpoolTypes, Cameras
<1> QED BY <1>1, <1>7, <1>8

\* The camera's process or its thread ends, or fails.
LEMMA CameraEndMoves ==
    ASSUME SpoolTypes, Spool!CameraEnds \/ Spool!CameraFails \/ Spool!CameraThreadEnds
    PROVE  /\ UNCHANGED <<mainVars, rgb>> /\ capture.error = Spool!Unset /\ capture.at # "end"
           /\ ir' \in Cameras /\ spooler' \in Spoolers
           /\ ir'.next = ir.next /\ ir'.rows = ir.rows
           /\ \/ /\ ir.process = "run" /\ ir'.process \in {"ended", "failed", "hung"}
                 /\ ir'.thread = ir.thread /\ ir'.code = ir.code
                 /\ spooler'.pipe # spooler.pipe => spooler.pipe = <<>> /\ spooler'.pipe = <<Spool!CutFrame>>
              \/ /\ ir.thread = "run" /\ ir'.thread = "done" /\ ir'.process = ir.process
                 /\ ir'.code = ir.code \/ (ir.process \in {"ended", "failed"} /\ ir'.code = ir.process)
                 /\ spooler'.pipe = spooler.pipe
           /\ spooler'.reader = spooler.reader /\ spooler'.queue = spooler.queue /\ spooler'.file = spooler.file
           /\ spooler'.writer = spooler.writer /\ spooler'.failed = spooler.failed
<1> USE SpoolFacts
<1>1. UNCHANGED <<mainVars, rgb>> /\ capture.error = Spool!Unset /\ capture.at # "end"
  BY DEF Spool!CameraEnds, Spool!CameraFails, Spool!CameraThreadEnds, Spool!Thread, Spool!Working, mainVars
<1>2. CASE Spool!CameraEnds
  <2>1. ir' = [ir EXCEPT !.process = "ended"] /\ ir.process = "run" /\ spooler' = spooler
    BY <1>2 DEF Spool!CameraEnds, Spool!Thread
  <2>2. ir' \in Cameras /\ ir'.process = "ended" /\ ir'.thread = ir.thread /\ ir'.code = ir.code
        /\ ir'.next = ir.next /\ ir'.rows = ir.rows
    BY <2>1 DEF SpoolTypes, Cameras, Processes
  <2> QED BY <1>1, <2>1, <2>2 DEF SpoolTypes
<1>3. CASE Spool!CameraFails
  <2>1. PICK p \in {"failed", "hung"} : ir' = [ir EXCEPT !.process = p]
    BY <1>3 DEF Spool!CameraFails
  <2>2. ir' \in Cameras /\ ir'.process = p /\ ir'.thread = ir.thread /\ ir'.code = ir.code
        /\ ir'.next = ir.next /\ ir'.rows = ir.rows
    BY <2>1 DEF SpoolTypes, Cameras, Processes
  <2>3. <<Spool!CutFrame>> \in Seq(Int)
    BY DEF Spool!CutFrame
  <2>4. \/ spooler' = spooler
        \/ spooler.pipe = <<>> /\ spooler' = [spooler EXCEPT !.pipe = <<Spool!CutFrame>>]
    BY <1>3 DEF Spool!CameraFails
  <2>5. spooler' \in Spoolers
        /\ (spooler'.pipe # spooler.pipe => spooler.pipe = <<>> /\ spooler'.pipe = <<Spool!CutFrame>>)
        /\ spooler'.reader = spooler.reader /\ spooler'.queue = spooler.queue /\ spooler'.file = spooler.file
        /\ spooler'.writer = spooler.writer /\ spooler'.failed = spooler.failed
    <3>1. CASE spooler' = spooler
      BY <3>1 DEF SpoolTypes
    <3>2. CASE spooler.pipe = <<>> /\ spooler' = [spooler EXCEPT !.pipe = <<Spool!CutFrame>>]
      BY <3>2, <2>3 DEF SpoolTypes, Spoolers
    <3> QED BY <2>4, <3>1, <3>2
  <2>6. ir.process = "run"
    BY <1>3 DEF Spool!CameraFails
  <2> QED BY <1>1, <2>2, <2>5, <2>6
<1>4. CASE Spool!CameraThreadEnds
  <2>1. spooler' = spooler /\ ir.thread = "run"
    BY <1>4 DEF Spool!CameraThreadEnds, Spool!Thread
  <2>2. \/ ir' = [[ir EXCEPT !.thread = "done"] EXCEPT !.code = ir.process] /\ ir.process \in {"ended", "failed"}
        \/ ir' = [ir EXCEPT !.thread = "done"]
    BY <1>4 DEF Spool!CameraThreadEnds
  <2>3. ir' \in Cameras /\ ir'.thread = "done" /\ ir'.process = ir.process
        /\ (ir'.code = ir.code \/ (ir.process \in {"ended", "failed"} /\ ir'.code = ir.process))
        /\ ir'.next = ir.next /\ ir'.rows = ir.rows
    BY <2>2 DEF SpoolTypes, Cameras, Threads, Codes
  <2> QED BY <1>1, <2>1, <2>3 DEF SpoolTypes
<1> QED BY <1>2, <1>3, <1>4

\* The thread of the color camera and its process.
LEMMA ColorMoves ==
    ASSUME SpoolTypes, Spool!StartColor \/ Spool!ColorEnds
    PROVE  /\ UNCHANGED <<mainVars, ir, spooler>> /\ capture.error = Spool!Unset /\ capture.at # "end"
           /\ rgb' \in Colors
           /\ \/ /\ rgb.thread = "start" /\ rgb'.thread \in {"run", "done"} /\ rgb'.code = rgb.code
                 /\ rgb'.process = IF rgb'.thread = "run" THEN "run" ELSE rgb.process
              \/ /\ rgb.thread = "run" /\ rgb.process = "run"
                 /\ rgb'.thread \in {"run", "done"}
                 /\ rgb'.code = rgb'.process \/ rgb'.code = Spool!Unset
<1> USE SpoolFacts
<1>1. UNCHANGED <<mainVars, ir, spooler>> /\ capture.error = Spool!Unset /\ capture.at # "end"
  BY DEF Spool!StartColor, Spool!ColorEnds, Spool!Thread, Spool!Working, mainVars
<1>2. CASE Spool!StartColor
  <2>1. \/ rgb' = [[rgb EXCEPT !.thread = "run"] EXCEPT !.process = "run"]
        \/ rgb' = [rgb EXCEPT !.thread = "done"]
    BY <1>2 DEF Spool!StartColor
  <2>2. rgb.thread = "start"
    BY <1>2 DEF Spool!StartColor
  <2>3. CASE rgb' = [[rgb EXCEPT !.thread = "run"] EXCEPT !.process = "run"]
    <3>1. rgb' \in Colors /\ rgb'.thread = "run" /\ rgb'.process = "run" /\ rgb'.code = rgb.code
      BY <2>3 DEF SpoolTypes, Colors, Processes, Threads
    <3> QED BY <1>1, <2>2, <3>1
  <2>4. CASE rgb' = [rgb EXCEPT !.thread = "done"]
    <3>1. rgb' \in Colors /\ rgb'.thread = "done" /\ rgb'.process = rgb.process /\ rgb'.code = rgb.code
      BY <2>4 DEF SpoolTypes, Colors, Threads
    <3> QED BY <1>1, <2>2, <3>1
  <2> QED BY <2>1, <2>3, <2>4
<1>3. CASE Spool!ColorEnds
  <2>1. rgb.thread = "run" /\ rgb.process = "run"
    BY <1>3 DEF Spool!ColorEnds
  <2>2. \/ rgb' = [process |-> "ended", thread |-> "done", code |-> "ended", full |-> TRUE]
        \/ rgb' = [process |-> "ended", thread |-> "done", code |-> "ended", full |-> FALSE]
        \/ rgb' = [process |-> "failed", thread |-> "done", code |-> "failed", full |-> FALSE]
        \/ rgb' = [process |-> "run", thread |-> "done", code |-> Spool!Unset, full |-> FALSE]
        \/ rgb' = [process |-> "hung", thread |-> "run", code |-> Spool!Unset, full |-> FALSE]
    BY <1>3 DEF Spool!ColorEnds
  <2>3. rgb' \in Colors
    <3>1. CASE rgb' = [process |-> "ended", thread |-> "done", code |-> "ended", full |-> TRUE]
      BY <3>1 DEF Colors, Processes, Threads, Codes
    <3>2. CASE rgb' = [process |-> "ended", thread |-> "done", code |-> "ended", full |-> FALSE]
      BY <3>2 DEF Colors, Processes, Threads, Codes
    <3>3. CASE rgb' = [process |-> "failed", thread |-> "done", code |-> "failed", full |-> FALSE]
      BY <3>3 DEF Colors, Processes, Threads, Codes
    <3>4. CASE rgb' = [process |-> "run", thread |-> "done", code |-> Spool!Unset, full |-> FALSE]
      BY <3>4 DEF Colors, Processes, Threads, Codes
    <3>5. CASE rgb' = [process |-> "hung", thread |-> "run", code |-> Spool!Unset, full |-> FALSE]
      BY <3>5 DEF Colors, Processes, Threads, Codes
    <3> QED BY <2>2, <3>1, <3>2, <3>3, <3>4, <3>5
  <2> QED BY <1>1, <2>1, <2>2, <2>3
<1> QED BY <1>2, <1>3

\* The reader takes a frame from the FIFO into the queue, or finds it full.
LEMMA ReadFrameMoves ==
    ASSUME SpoolTypes, Spool!ReadFrame
    PROVE  /\ UNCHANGED <<mainVars, ir, rgb>> /\ capture.error = Spool!Unset /\ capture.at # "end"
           /\ spooler' \in Spoolers
           /\ spooler.reader = "read" /\ spooler.pipe # <<>> /\ spooler'.pipe = <<>>
           /\ spooler'.file = spooler.file /\ spooler'.writer = spooler.writer
           /\ \/ spooler'.failed /\ spooler'.reader = "sentinel"
              \/ /\ spooler'.failed = spooler.failed /\ spooler'.reader = spooler.reader
                 /\ spooler'.queue = Append(spooler.queue, spooler.pipe[1])
<1> USE SpoolFacts
<1>1. UNCHANGED <<mainVars, ir, rgb>> /\ capture.error = Spool!Unset /\ capture.at # "end"
      /\ spooler.reader = "read" /\ spooler.pipe # <<>>
  BY DEF Spool!ReadFrame, Spool!Spooling, Spool!Thread, Spool!Working, mainVars
<1>2. <<>> \in Seq(Int)
  BY EmptySeq
<1>3. CASE spooler' = [spooler EXCEPT !.pipe = <<>>, !.failed = TRUE, !.reader = "sentinel"]
  <2>1. spooler' \in Spoolers /\ spooler'.pipe = <<>> /\ spooler'.failed /\ spooler'.reader = "sentinel"
        /\ spooler'.file = spooler.file /\ spooler'.writer = spooler.writer
    BY <1>2, <1>3 DEF SpoolTypes, Spoolers, Readers
  <2> QED BY <1>1, <2>1
<1>4. CASE spooler' = [spooler EXCEPT !.pipe = <<>>, !.queue = Append(spooler.queue, spooler.pipe[1])]
  <2>1. spooler.pipe[1] \in Int
    BY <1>1, HeadTailProperties
  <2>2. Append(spooler.queue, spooler.pipe[1]) \in Seq(Int)
    BY <2>1, EndFacts
  <2>3. spooler' \in Spoolers /\ spooler'.pipe = <<>> /\ spooler'.failed = spooler.failed
        /\ spooler'.reader = spooler.reader /\ spooler'.queue = Append(spooler.queue, spooler.pipe[1])
        /\ spooler'.file = spooler.file /\ spooler'.writer = spooler.writer
    BY <1>2, <1>4, <2>2 DEF SpoolTypes, Spoolers
  <2> QED BY <1>1, <2>3
<1> QED BY <1>3, <1>4 DEF Spool!ReadFrame

\* The reader at the end of the FIFO, and the end mark it puts.
LEMMA ReaderEndMoves ==
    ASSUME SpoolTypes, Spool!EndOfFifo \/ Spool!PutEndMark
    PROVE  /\ UNCHANGED <<mainVars, ir, rgb>> /\ capture.error = Spool!Unset /\ capture.at # "end"
           /\ spooler' \in Spoolers
           /\ spooler'.pipe = spooler.pipe /\ spooler'.file = spooler.file
           /\ spooler'.writer = spooler.writer /\ spooler'.failed = spooler.failed
           /\ \/ /\ spooler.reader = "read" /\ spooler'.reader = "sentinel" /\ spooler.pipe = <<>>
                 /\ ir.process \notin {"run", "hung"} /\ spooler'.queue = spooler.queue
              \/ /\ spooler.reader = "sentinel" /\ spooler'.reader = "done"
                 /\ \/ spooler.writer = "done" /\ spooler'.queue = spooler.queue
                    \/ spooler.writer # "done" /\ spooler'.queue = Append(spooler.queue, Spool!EndMark)
<1> USE SpoolFacts
<1>1. UNCHANGED <<mainVars, ir, rgb>> /\ capture.error = Spool!Unset /\ capture.at # "end"
  BY DEF Spool!EndOfFifo, Spool!PutEndMark, Spool!Spooling, Spool!Thread, Spool!Working, mainVars
<1>2. CASE Spool!EndOfFifo
  <2>1. spooler.reader = "read" /\ spooler.pipe = <<>> /\ ir.process \notin {"run", "hung"}
        /\ spooler' = [spooler EXCEPT !.reader = "sentinel"]
    BY <1>2 DEF Spool!EndOfFifo
  <2>2. spooler' \in Spoolers /\ spooler'.reader = "sentinel" /\ spooler'.queue = spooler.queue
        /\ spooler'.pipe = spooler.pipe /\ spooler'.file = spooler.file
        /\ spooler'.writer = spooler.writer /\ spooler'.failed = spooler.failed
    BY <2>1 DEF SpoolTypes, Spoolers, Readers
  <2> QED BY <1>1, <2>1, <2>2
<1>3. CASE Spool!PutEndMark
  <2>1. Append(spooler.queue, Spool!EndMark) \in Seq(Int)
    BY EndFacts DEF Spool!EndMark
  <2>2. spooler.reader = "sentinel"
    BY <1>3 DEF Spool!PutEndMark
  <2>3. CASE spooler.writer = "done" /\ spooler' = [spooler EXCEPT !.reader = "done"]
    <3>1. spooler' \in Spoolers /\ spooler'.reader = "done" /\ spooler'.queue = spooler.queue
          /\ spooler'.pipe = spooler.pipe /\ spooler'.file = spooler.file
          /\ spooler'.writer = spooler.writer /\ spooler'.failed = spooler.failed
      BY <2>3 DEF SpoolTypes, Spoolers, Readers
    <3> QED BY <1>1, <2>2, <2>3, <3>1
  <2>4. CASE /\ spooler.writer # "done"
             /\ spooler' = [spooler EXCEPT !.reader = "done", !.queue = Append(spooler.queue, Spool!EndMark)]
    <3>1. spooler' \in Spoolers /\ spooler'.reader = "done"
          /\ spooler'.queue = Append(spooler.queue, Spool!EndMark)
          /\ spooler'.pipe = spooler.pipe /\ spooler'.file = spooler.file
          /\ spooler'.writer = spooler.writer /\ spooler'.failed = spooler.failed
      BY <2>1, <2>4 DEF SpoolTypes, Spoolers, Readers
    <3> QED BY <1>1, <2>2, <2>4, <3>1
  <2> QED BY <1>3, <2>3, <2>4 DEF Spool!PutEndMark
<1> QED BY <1>2, <1>3

\* The writer takes a frame into the file, or the end mark, or fails.
LEMMA WriteFrameMoves ==
    ASSUME SpoolTypes, Spool!WriteFrame
    PROVE  /\ UNCHANGED <<mainVars, ir, rgb>> /\ capture.error = Spool!Unset /\ capture.at # "end"
           /\ spooler' \in Spoolers
           /\ spooler.writer = "run" /\ spooler.queue # <<>>
           /\ spooler'.pipe = spooler.pipe /\ spooler'.reader = spooler.reader
           /\ spooler'.queue = Tail(spooler.queue)
           /\ \/ /\ Head(spooler.queue) = Spool!EndMark /\ spooler'.writer = "done"
                 /\ spooler'.failed = spooler.failed /\ spooler'.file = spooler.file
              \/ /\ Head(spooler.queue) # Spool!EndMark /\ spooler'.writer = "run"
                 /\ spooler'.failed = spooler.failed /\ spooler'.file = Append(spooler.file, Head(spooler.queue))
              \/ spooler'.failed /\ spooler'.writer = "done"
              \/ spooler'.writer = "stuck"
<1> USE SpoolFacts
<1> DEFINE taken == [spooler EXCEPT !.queue = Tail(spooler.queue)]
<1>1. UNCHANGED <<mainVars, ir, rgb>> /\ capture.error = Spool!Unset /\ capture.at # "end"
      /\ spooler.writer = "run" /\ spooler.queue # <<>>
  BY DEF Spool!WriteFrame, Spool!Spooling, Spool!Thread, Spool!Working, mainVars
<1>2. Tail(spooler.queue) \in Seq(Int) /\ Head(spooler.queue) \in Int
  BY <1>1, HeadTailProperties
<1>3. taken \in Spoolers /\ taken.file = spooler.file /\ taken.pipe = spooler.pipe /\ taken.reader = spooler.reader
      /\ taken.queue = Tail(spooler.queue) /\ taken.failed = spooler.failed /\ taken.writer = spooler.writer
  BY <1>2 DEF SpoolTypes, Spoolers
<1>4. Append(spooler.file, Head(spooler.queue)) \in Seq(Int)
  BY <1>2, EndFacts
<1>5. \/ Head(spooler.queue) = Spool!EndMark /\ spooler' = [taken EXCEPT !.writer = "done"]
      \/ Head(spooler.queue) # Spool!EndMark /\ spooler' = [taken EXCEPT !.file = Append(taken.file, Head(spooler.queue))]
      \/ spooler' = [[taken EXCEPT !.writer = "done"] EXCEPT !.failed = TRUE]
      \/ spooler' = [taken EXCEPT !.writer = "stuck"]
  BY <1>3 DEF Spool!WriteFrame
<1> HIDE DEF taken
<1>6. CASE Head(spooler.queue) = Spool!EndMark /\ spooler' = [taken EXCEPT !.writer = "done"]
  BY <1>1, <1>3, <1>6 DEF Spoolers, FileWriters
<1>7. CASE /\ Head(spooler.queue) # Spool!EndMark
           /\ spooler' = [taken EXCEPT !.file = Append(taken.file, Head(spooler.queue))]
  <2>1. spooler' \in Spoolers /\ spooler'.file = Append(spooler.file, Head(spooler.queue))
        /\ spooler'.pipe = taken.pipe /\ spooler'.reader = taken.reader /\ spooler'.queue = taken.queue
        /\ spooler'.failed = taken.failed /\ spooler'.writer = taken.writer
    BY <1>3, <1>4, <1>7 DEF Spoolers
  <2> QED BY <1>1, <1>3, <1>7, <2>1
<1>8. CASE spooler' = [[taken EXCEPT !.writer = "done"] EXCEPT !.failed = TRUE]
  BY <1>1, <1>3, <1>8 DEF Spoolers, FileWriters
<1>9. CASE spooler' = [taken EXCEPT !.writer = "stuck"]
  BY <1>1, <1>3, <1>9 DEF Spoolers, FileWriters
<1> QED BY <1>5, <1>6, <1>7, <1>8, <1>9

-----------------------------------------------------------------------------
(* The threads' steps keep what is said of main and of the directory.       *)

SpoolThreadSteps ==
    \/ Spool!StartCamera \/ Spool!CameraFrame \/ Spool!ErroneousFrame
    \/ Spool!CameraEnds \/ Spool!CameraFails \/ Spool!CameraThreadEnds
    \/ Spool!StartColor \/ Spool!ColorEnds
    \/ Spool!ReadFrame \/ Spool!EndOfFifo \/ Spool!PutEndMark \/ Spool!WriteFrame

\* What is said of main and of the directory does not depend on the threads'
\* steps.
LEMMA ThreadsKeepControl ==
    ASSUME SpoolTypes, SpoolControl, SpoolThreadSteps
    PROVE  SpoolTypes' /\ SpoolControl'
<1> USE SpoolFacts
<1>1. UNCHANGED mainVars /\ capture.error = Spool!Unset /\ capture.at # "end"
  BY StartCameraMoves, CameraFrameMoves, ErroneousFrameMoves, CameraEndMoves, ColorMoves, ReadFrameMoves,
     ReaderEndMoves, WriteFrameMoves DEF SpoolThreadSteps
<1>2. SpoolTypes'
  BY <1>1, StartCameraMoves, CameraFrameMoves, ErroneousFrameMoves, CameraEndMoves, ColorMoves, ReadFrameMoves,
     ReaderEndMoves, WriteFrameMoves DEF SpoolThreadSteps, SpoolTypes, mainVars
<1>3. SpoolStages' /\ SpoolFolder'
  BY <1>1 DEF SpoolControl, SpoolStages, SpoolFolder, mainVars
<1>4. capture.at \notin SpoolCleaning
  BY <1>1 DEF SpoolControl, SpoolStages
<1> DEFINE Kept == ThreadStages' /\ ProcessStages' /\ (Ended /\ Drained => /\ Ended' /\ Drained' /\ ir'.rows = ir.rows
                                                       /\ spooler'.file = spooler.file /\ rgb'.full = rgb.full)
<1> USE DEF SpoolControl, ThreadStages, ProcessStages, Idle, Reaped, Quiet, Ended, Drained, mainVars,
            SpoolBeginning, SpoolPreparing, SpoolJoining, SpoolJudging, SpoolPublishing, SpoolCleaning
<1>5. ASSUME Spool!StartCamera PROVE Kept
  BY <1>1, <1>4, <1>5, StartCameraMoves DEF Spool!Unset
<1>6. ASSUME Spool!CameraFrame PROVE Kept
  BY <1>1, <1>4, <1>6, CameraFrameMoves DEF Spool!Unset
<1>7. ASSUME Spool!ErroneousFrame PROVE Kept
  BY <1>1, <1>4, <1>7, ErroneousFrameMoves DEF Spool!Unset
<1>8. ASSUME Spool!CameraEnds \/ Spool!CameraFails \/ Spool!CameraThreadEnds PROVE Kept
  <2>1. /\ ir'.rows = ir.rows /\ rgb' = rgb /\ spooler'.file = spooler.file
        /\ spooler'.reader = spooler.reader /\ spooler'.writer = spooler.writer /\ spooler'.failed = spooler.failed
    BY <1>8, CameraEndMoves
  <2>2. CASE /\ ir.process = "run" /\ ir'.process \in {"ended", "failed", "hung"}
             /\ ir'.thread = ir.thread /\ ir'.code = ir.code
    BY <1>1, <1>4, <2>1, <2>2 DEF Spool!Unset, Codes
  <2>3. CASE /\ ir.thread = "run" /\ ir'.thread = "done" /\ ir'.process = ir.process
             /\ ir'.code = ir.code \/ (ir.process \in {"ended", "failed"} /\ ir'.code = ir.process)
    BY <1>1, <1>4, <2>1, <2>3 DEF Spool!Unset, Codes
  <2> QED BY <1>8, <2>2, <2>3, CameraEndMoves
<1>9. ASSUME Spool!StartColor \/ Spool!ColorEnds PROVE Kept
  BY <1>1, <1>4, <1>9, ColorMoves DEF Spool!Unset
<1>10. ASSUME Spool!ReadFrame PROVE Kept
  BY <1>1, <1>4, <1>10, ReadFrameMoves DEF Spool!Unset
<1>11. ASSUME Spool!EndOfFifo \/ Spool!PutEndMark PROVE Kept
  BY SMTT(30), <1>1, <1>4, <1>11, ReaderEndMoves DEF Spool!Unset
<1>12. ASSUME Spool!WriteFrame PROVE Kept
  BY <1>1, <1>4, <1>12, WriteFrameMoves DEF Spool!Unset
<1>13. Kept
  BY <1>5, <1>6, <1>7, <1>8, <1>9, <1>10, <1>11, <1>12 DEF SpoolThreadSteps
<1>14. SpoolVerdict'
  BY <1>1, <1>13 DEF SpoolVerdict, Verdict, Spool!Following
<1> QED BY <1>2, <1>3, <1>13, <1>14

-----------------------------------------------------------------------------
(* The rows and the frames that were carried.                               *)

\* A sequence of one element.
LEMMA Single ==
    ASSUME NEW s, NEW q \in Int, s = <<q>>
    PROVE  Len(s) = 1 /\ s[1] = q /\ DOMAIN s = {1}
OBVIOUS

\* The empty sequence.
LEMMA NoFrame ==
    ASSUME NEW s, s = <<>>
    PROVE  Len(s) = 0 /\ DOMAIN s = {}
OBVIOUS

\* A place in a shorter sequence is one in a longer.
LEMMA Shift ==
    ASSUME NEW a \in Int, NEW b \in Int, NEW r \in Int, NEW k \in 1 .. r, NEW e \in 0 .. a - r, a <= b
    PROVE  k + e \in 1 .. a /\ e \in 0 .. b - r
OBVIOUS

\* d begins with the frames of c.
Covers(d, n, c, m) == Len(c) - m <= Len(d) - n /\ \A i \in 1 .. Len(c) - m : d[i] = c[i]

\* Rows keep their frames when what was carried only grows, or loses its mark.
LEMMA RowsKeep ==
    ASSUME NEW c \in Seq(Int), NEW d \in Seq(Int), NEW m \in {0, 1}, NEW n \in {0, 1}, NEW rows \in Seq(Int),
           RowsIn(c, m, rows), Covers(d, n, c, m)
    PROVE  RowsIn(d, n, rows)
<1> USE DEF Covers
<1>1. Len(c) \in Nat /\ Len(d) \in Nat /\ Len(rows) \in Nat /\ DOMAIN rows = 1 .. Len(rows)
  BY LenProperties
<1>2. Len(rows) <= Len(d) - n
  BY <1>1 DEF RowsIn
<1>3. ASSUME NEW k \in DOMAIN rows PROVE \E e \in 0 .. Len(d) - n - Len(rows) : d[k + e] = rows[k]
  <2>1. PICK e \in 0 .. Len(c) - m - Len(rows) : c[k + e] = rows[k]
    BY <1>3 DEF RowsIn
  <2>2. Len(c) - m \in Int /\ Len(d) - n \in Int /\ k \in 1 .. Len(rows) /\ Len(rows) \in Int
    BY <1>1, <1>3
  <2>3. k + e \in 1 .. Len(c) - m /\ e \in 0 .. Len(d) - n - Len(rows)
    BY <2>2, Shift
  <2> QED BY <2>1, <2>3
<1> QED BY <1>2, <1>3 DEF RowsIn

\* A row that comes with its frame, behind everything carried.
LEMMA RowsGrow ==
    ASSUME NEW c \in Seq(Int), NEW d \in Seq(Int), NEW rows \in Seq(Int), NEW q \in Int,
           RowsIn(c, 0, rows), Len(d) = Len(c) + 1, \A i \in 1 .. Len(c) : d[i] = c[i], d[Len(c) + 1] = q
    PROVE  RowsIn(d, 0, Append(rows, q))
<1>1. Len(c) \in Nat /\ Len(rows) \in Nat /\ DOMAIN rows = 1 .. Len(rows)
  BY LenProperties
<1>2. /\ Len(Append(rows, q)) = Len(rows) + 1 /\ DOMAIN Append(rows, q) = 1 .. Len(rows) + 1
      /\ \A k \in DOMAIN rows : Append(rows, q)[k] = rows[k]
      /\ Append(rows, q)[Len(rows) + 1] = q
  BY EndFacts
<1>3. ASSUME NEW k \in DOMAIN Append(rows, q)
      PROVE  \E e \in 0 .. Len(d) - 0 - Len(Append(rows, q)) : d[k + e] = Append(rows, q)[k]
  <2>1. CASE k \in DOMAIN rows
    <3>1. PICK e \in 0 .. Len(c) - 0 - Len(rows) : c[k + e] = rows[k]
      BY <2>1 DEF RowsIn
    <3>2. Len(c) - 0 \in Int /\ Len(d) - 0 - 1 \in Int /\ k \in 1 .. Len(rows) /\ Len(rows) \in Int
          /\ Len(c) - 0 <= Len(d) - 0 - 1
      BY <1>1, <2>1
    <3>3. k + e \in 1 .. Len(c) - 0 /\ e \in 0 .. Len(d) - 0 - 1 - Len(rows)
      BY <3>2, Shift
    <3>4. k + e \in 1 .. Len(c) /\ Len(d) - 0 - 1 - Len(rows) = Len(d) - 0 - Len(Append(rows, q))
      BY <1>1, <1>2, <3>3
    <3> QED BY <1>2, <2>1, <3>1, <3>3, <3>4
  <2>2. CASE k = Len(rows) + 1
    <3> DEFINE e == Len(c) - Len(rows)
    <3>1. k + e = Len(c) + 1 /\ e \in 0 .. Len(d) - 0 - Len(Append(rows, q))
      BY <1>1, <1>2, <2>2 DEF RowsIn
    <3> QED BY <1>2, <2>2, <3>1
  <2>3. k \in DOMAIN rows \/ k = Len(rows) + 1
    BY SMTT(30), <1>1, <1>2, <1>3
  <2> QED BY <2>1, <2>2, <2>3
<1>4. Len(Append(rows, q)) <= Len(d) - 0
  BY <1>1, <1>2 DEF RowsIn
<1> QED BY <1>3, <1>4 DEF RowsIn

\* The three parts of what was carried, one behind the other.
Joined(F, Q, P, c) ==
    /\ c \in Seq(Int) /\ Len(c) = Len(F) + Len(Q) + Len(P)
    /\ Len(F) \in Nat /\ Len(Q) \in Nat /\ Len(P) \in Nat
    /\ \A i \in 1 .. Len(F) : c[i] = F[i]
    /\ \A i \in 1 .. Len(Q) : c[Len(F) + i] = Q[i]
    /\ \A i \in 1 .. Len(P) : c[Len(F) + Len(Q) + i] = P[i]

\* The entries of file, queue and FIFO by their places.
LEMMA Parts ==
    ASSUME NEW F \in Seq(Int), NEW Q \in Seq(Int), NEW P \in Seq(Int)
    PROVE  Joined(F, Q, P, (F \o Q) \o P)
<1> DEFINE b == F \o Q
           c == b \o P
<1>1. Len(F) \in Nat /\ Len(Q) \in Nat /\ Len(P) \in Nat
  BY LenProperties
<1>2. b \in Seq(Int) /\ Len(b) = Len(F) + Len(Q)
      /\ \A i \in 1 .. Len(F) + Len(Q) : b[i] = IF i <= Len(F) THEN F[i] ELSE Q[i - Len(F)]
  BY ConcatProperties
<1>3. c \in Seq(Int) /\ Len(c) = Len(b) + Len(P)
      /\ \A i \in 1 .. Len(b) + Len(P) : c[i] = IF i <= Len(b) THEN b[i] ELSE P[i - Len(b)]
  <2>1. b \in Seq(Int)
    BY <1>2
  <2> HIDE DEF b
  <2> QED BY <2>1, ConcatProperties
<1> HIDE DEF b, c
<1>4. ASSUME NEW i \in 1 .. Len(F) PROVE c[i] = F[i]
  <2>1. i \in 1 .. Len(F) + Len(Q) /\ i <= Len(F) /\ i \in 1 .. Len(b) + Len(P) /\ i <= Len(b)
    BY <1>1, <1>2
  <2> QED BY <1>2, <1>3, <2>1
<1>5. ASSUME NEW i \in 1 .. Len(Q) PROVE c[Len(F) + i] = Q[i]
  <2>1. Len(F) + i \in 1 .. Len(F) + Len(Q) /\ ~(Len(F) + i <= Len(F)) /\ (Len(F) + i) - Len(F) = i
        /\ Len(F) + i \in 1 .. Len(b) + Len(P) /\ Len(F) + i <= Len(b)
    BY <1>1, <1>2
  <2> QED BY <1>2, <1>3, <2>1
<1>6. ASSUME NEW i \in 1 .. Len(P) PROVE c[Len(F) + Len(Q) + i] = P[i]
  <2>1. Len(b) + i \in 1 .. Len(b) + Len(P) /\ ~(Len(b) + i <= Len(b)) /\ (Len(b) + i) - Len(b) = i
    BY <1>1, <1>2
  <2> QED BY <1>2, <1>3, <2>1
<1>7. Len(c) = Len(F) + Len(Q) + Len(P)
  BY <1>2, <1>3
<1>8. Joined(F, Q, P, c)
  BY <1>1, <1>3, <1>4, <1>5, <1>6, <1>7 DEF Joined
<1> QED BY <1>8 DEF b, c

\* A frame put into the empty pipe comes last.
Longer(c, d, q) ==
    /\ c \in Seq(Int) /\ d \in Seq(Int) /\ Len(d) = Len(c) + 1 /\ Len(c) \in Nat
    /\ \A i \in 1 .. Len(c) : d[i] = c[i]
    /\ d[Len(c) + 1] = q

\* A frame put into the FIFO is the last one carried.
LEMMA PipePut ==
    ASSUME NEW F \in Seq(Int), NEW Q \in Seq(Int), NEW P, P = <<>>, NEW q \in Int
    PROVE  Longer((F \o Q) \o P, (F \o Q) \o <<q>>, q)
<1> DEFINE c == F \o Q
           d == c \o <<q>>
<1>1. c \in Seq(Int) /\ Len(c) \in Nat
  BY ConcatProperties, LenProperties
<1>2. c \o P = c
  BY <1>1, ConcatEmptySeq
<1>3. d = Append(c, q)
  BY <1>1, AppendIsConcat
<1> HIDE DEF c
<1>4. Longer(c, Append(c, q), q)
  BY <1>1, EndFacts DEF Longer
<1> QED BY <1>2, <1>3, <1>4 DEF c

\* A frame that moves from the pipe to the queue keeps its place.
Cat(F, Q, P) == (F \o Q) \o P

\* From the FIFO to the queue nothing changes its place.
LEMMA PipeToQueue ==
    ASSUME NEW F \in Seq(Int), NEW Q \in Seq(Int), NEW P \in Seq(Int), Len(P) = 1, NEW E, E = <<>>
    PROVE  Cat(F, Append(Q, P[1]), E) = Cat(F, Q, P)
<1>1. P[1] \in Int /\ P = <<P[1]>>
  <2>1. P[1] \in Int
    <3>1. 1 \in 1 .. Len(P)
      OBVIOUS
    <3> QED BY <3>1, ElementOfSeq
  <2>2. <<P[1]>> \in Seq(Int) /\ Len(<<P[1]>>) = 1
    BY <2>1
  <2> QED BY <2>1, <2>2, SeqEqual
<1> DEFINE f == P[1]
<1>2. Append(Q, f) \in Seq(Int) /\ Append(Q, f) = Q \o <<f>> /\ <<f>> \in Seq(Int)
  BY <1>1, EndFacts, AppendIsConcat
<1> HIDE DEF f
<1>3. F \o Append(Q, f) = (F \o Q) \o <<f>> /\ F \o Append(Q, f) \in Seq(Int)
  BY <1>2, ConcatAssociative, ConcatProperties
<1>4. (F \o Append(Q, f)) \o E = F \o Append(Q, f)
  BY <1>3, ConcatEmptySeq
<1> QED BY <1>1, <1>3, <1>4 DEF f, Cat

\* So does a frame that is written.
LEMMA QueueToFile ==
    ASSUME NEW F \in Seq(Int), NEW Q \in Seq(Int), NEW P \in Seq(Int), Q # <<>>
    PROVE  Cat(Append(F, Head(Q)), Tail(Q), P) = Cat(F, Q, P)
<1>1. Head(Q) \in Int /\ Tail(Q) \in Seq(Int) /\ <<Head(Q)>> \in Seq(Int) /\ <<Head(Q)>> \o Tail(Q) = Q
  <2>1. Head(Q) \in Int /\ Tail(Q) \in Seq(Int) /\ Len(Tail(Q)) = Len(Q) - 1 /\ Len(Q) \in Nat \ {0}
        /\ Head(Q) = Q[1] /\ \A i \in 1 .. Len(Tail(Q)) : Tail(Q)[i] = Q[i + 1]
    BY HeadTailProperties, EmptySeq
  <2> DEFINE c == <<Head(Q)>> \o Tail(Q)
  <2>2. <<Head(Q)>> \in Seq(Int) /\ Len(<<Head(Q)>>) = 1 /\ <<Head(Q)>>[1] = Head(Q)
    BY <2>1
  <2>3. c \in Seq(Int) /\ Len(c) = Len(Q)
        /\ \A i \in 1 .. 1 + Len(Tail(Q)) : c[i] = IF i <= 1 THEN <<Head(Q)>>[i] ELSE Tail(Q)[i - 1]
    BY <2>1, <2>2, ConcatProperties
  <2> HIDE DEF c
  <2>4. ASSUME NEW i \in 1 .. Len(c) PROVE c[i] = Q[i]
    <3>1. CASE i = 1
      BY <2>1, <2>2, <2>3, <3>1
    <3>2. CASE i # 1
      <4>1. i - 1 \in 1 .. Len(Tail(Q)) /\ (i - 1) + 1 = i /\ i \in 1 .. 1 + Len(Tail(Q)) /\ ~(i <= 1)
        BY <2>1, <2>3, <3>2
      <4> QED BY <2>1, <2>3, <4>1
    <3> QED BY <3>1, <3>2
  <2>5. c = Q
    BY <2>3, <2>4, SeqEqual
  <2> QED BY <2>1, <2>2, <2>5 DEF c
<1>2. Append(F, Head(Q)) = F \o <<Head(Q)>>
  BY <1>1, AppendIsConcat
<1>3. (F \o <<Head(Q)>>) \o Tail(Q) = F \o (<<Head(Q)>> \o Tail(Q))
  BY <1>1, ConcatAssociative
<1> QED BY <1>1, <1>2, <1>3 DEF Cat

\* The end mark counts for no row, neither when it is put behind the frames,
LEMMA MarkPut ==
    ASSUME NEW F \in Seq(Int), NEW Q \in Seq(Int), NEW P \in Seq(Int), P = <<>>, NEW e \in Int,
           NEW rows \in Seq(Int), RowsIn((F \o Q) \o P, 0, rows)
    PROVE  RowsIn((F \o Append(Q, e)) \o P, 1, rows)
<1> DEFINE c == (F \o Q) \o P
           R == Append(Q, e)
           d == (F \o R) \o P
<1>0. Len(P) = 0
  BY NoFrame
<1>1. /\ R \in Seq(Int) /\ Len(R) = Len(Q) + 1 /\ DOMAIN Q = 1 .. Len(Q)
      /\ \A i \in DOMAIN Q : R[i] = Q[i]
  BY EndFacts
<1> HIDE DEF R
<1>2. Joined(F, Q, P, c)
  BY Parts
<1>3. Joined(F, R, P, d)
  BY <1>1, Parts
<1>4. RowsIn(c, 0, rows)
  OBVIOUS
<1> HIDE DEF c, d
<1> USE DEF Joined
<1>5. Len(c) - 0 <= Len(d) - 1
  BY <1>0, <1>1, <1>2, <1>3
<1>6. ASSUME NEW i \in 1 .. Len(c) - 0 PROVE d[i] = c[i]
  <2>1. CASE i \in 1 .. Len(F)
    BY <1>2, <1>3, <2>1
  <2>2. CASE i \notin 1 .. Len(F)
    <3> DEFINE j == i - Len(F)
    <3>1. j \in 1 .. Len(Q) /\ j \in 1 .. Len(R) /\ Len(F) + j = i
      BY <1>0, <1>1, <1>2, <2>2
    <3>2. Q[j] = R[j]
      BY <1>1, <3>1
    <3> HIDE DEF j
    <3>3. c[Len(F) + j] = Q[j]
      BY <1>2, <3>1
    <3>4. d[Len(F) + j] = R[j]
      BY <1>3, <3>1
    <3> QED BY <3>1, <3>2, <3>3, <3>4
  <2> QED BY <2>1, <2>2
<1>7. c \in Seq(Int) /\ d \in Seq(Int) /\ Covers(d, 1, c, 0)
  BY <1>2, <1>3, <1>5, <1>6 DEF Covers
<1> HIDE DEF Joined
<1>8. RowsIn(d, 1, rows)
  BY <1>4, <1>7, RowsKeep
<1> QED BY <1>8 DEF d, R

\* nor when it is taken.
LEMMA MarkTaken ==
    ASSUME NEW F \in Seq(Int), NEW Q \in Seq(Int), NEW P \in Seq(Int), P = <<>>, Len(Q) = 1,
           NEW rows \in Seq(Int), RowsIn((F \o Q) \o P, 1, rows)
    PROVE  RowsIn((F \o P) \o P, 0, rows)
<1> DEFINE c == (F \o Q) \o P
           d == (F \o P) \o P
<1>0. Len(P) = 0
  BY NoFrame
<1>1. Joined(F, Q, P, c)
  BY Parts
<1>2. Joined(F, P, P, d)
  BY Parts
<1>3. RowsIn(c, 1, rows)
  OBVIOUS
<1> HIDE DEF c, d
<1> USE DEF Joined
<1>4. Len(c) - 1 <= Len(d) - 0 /\ Len(c) - 1 = Len(F)
  BY <1>0, <1>1, <1>2
<1>5. \A i \in 1 .. Len(c) - 1 : d[i] = c[i]
  BY <1>1, <1>2, <1>4
<1>6. c \in Seq(Int) /\ d \in Seq(Int) /\ Covers(d, 0, c, 1)
  BY <1>1, <1>2, <1>4, <1>5 DEF Covers
<1> HIDE DEF Joined
<1>7. RowsIn(d, 0, rows)
  BY <1>3, <1>6, RowsKeep
<1> QED BY <1>7 DEF d

\* A frame without its row.
LEMMA FramePut ==
    ASSUME NEW F \in Seq(Int), NEW Q \in Seq(Int), NEW P \in Seq(Int), P = <<>>, NEW q \in Int,
           NEW rows \in Seq(Int), RowsIn((F \o Q) \o P, 0, rows)
    PROVE  /\ RowsIn((F \o Q) \o <<q>>, 0, rows)
           /\ RowsIn((F \o Q) \o <<q>>, 0, Append(rows, q))
<1> DEFINE c == (F \o Q) \o P
           d == (F \o Q) \o <<q>>
<1>1. Longer(c, d, q)
  BY PipePut
<1>2. RowsIn(c, 0, rows)
  OBVIOUS
<1> HIDE DEF c, d
<1> USE DEF Longer
<1>3. Len(c) \in Nat
  BY <1>1
<1>4. Len(c) - 0 <= Len(d) - 0 /\ \A i \in 1 .. Len(c) - 0 : d[i] = c[i]
  BY <1>1, <1>3
<1>5. RowsIn(d, 0, rows)
  BY <1>1, <1>2, <1>4, RowsKeep DEF Covers
<1>6. RowsIn(d, 0, Append(rows, q))
  BY <1>1, <1>2, RowsGrow
<1> QED BY <1>5, <1>6 DEF d

\* What the queue's mark is after a frame, or the mark, was put.
LEMMA MarkedPut ==
    ASSUME NEW Q \in Seq(Int), NEW e \in Int, Marked(Q, 0)
    PROVE  /\ e # Spool!EndMark => Marked(Append(Q, e), 0)
           /\ e = Spool!EndMark => Marked(Append(Q, e), 1)
<1> DEFINE R == Append(Q, e)
<1>1. /\ R \in Seq(Int) /\ R # <<>> /\ Len(R) = Len(Q) + 1 /\ DOMAIN Q = 1 .. Len(Q) /\ DOMAIN R = 1 .. Len(Q) + 1
      /\ Len(Q) \in Nat /\ R[Len(Q) + 1] = e
      /\ \A i \in DOMAIN Q : R[i] = Q[i]
  BY EndFacts
<1> HIDE DEF R
<1>2. ASSUME NEW i \in DOMAIN R
      PROVE  /\ i # Len(R) => R[i] # Spool!EndMark
             /\ i = Len(R) => R[i] = e
  <2>1. (i \in DOMAIN Q /\ i # Len(R)) \/ i = Len(Q) + 1
    BY <1>1
  <2>2. CASE i \in DOMAIN Q /\ i # Len(R)
    BY <1>1, <2>2 DEF Marked
  <2> QED BY <1>1, <2>1, <2>2
<1>3. (e # Spool!EndMark => Marked(R, 0)) /\ (e = Spool!EndMark => Marked(R, 1))
  BY <1>1, <1>2 DEF Marked
<1> QED BY <1>3 DEF R

\* The head of the queue is the mark only as its last entry.
LEMMA MarkedTake ==
    ASSUME NEW Q \in Seq(Int), NEW m \in 0 .. 1, Marked(Q, m), Q # <<>>
    PROVE  /\ Head(Q) \in Int /\ Tail(Q) \in Seq(Int)
           /\ Head(Q) = Spool!EndMark => m = 1 /\ Len(Q) = 1 /\ Tail(Q) = <<>>
           /\ Head(Q) # Spool!EndMark => Marked(Tail(Q), m)
<1> DEFINE T == Tail(Q)
<1>1. /\ Len(Q) \in Nat \ {0} /\ Head(Q) = Q[1] /\ Head(Q) \in Int
      /\ T \in Seq(Int) /\ Len(T) = Len(Q) - 1
      /\ \A i \in 1 .. Len(T) : T[i] = Q[i + 1]
      /\ DOMAIN Q = 1 .. Len(Q) /\ DOMAIN T = 1 .. Len(T)
  BY HeadTailProperties, EmptySeq, LenProperties
<1>2. T # <<>> => Len(T) \in Nat \ {0}
  BY <1>1, EmptySeq
<1>3. T = <<>> => Len(T) = 0
  BY NoFrame
<1> HIDE DEF T
<1>4. 1 \in DOMAIN Q
  BY <1>1
<1>5. Q[1] = Spool!EndMark <=> m = 1 /\ 1 = Len(Q)
  BY <1>4 DEF Marked
<1>6. Head(Q) = Spool!EndMark => m = 1 /\ Len(Q) = 1 /\ T = <<>>
  BY <1>1, <1>2, <1>5
<1>7. ASSUME NEW i \in DOMAIN T PROVE T[i] = Spool!EndMark <=> m = 1 /\ i = Len(T)
  <2>1. i + 1 \in DOMAIN Q /\ T[i] = Q[i + 1] /\ (i = Len(T) <=> i + 1 = Len(Q))
    BY SMTT(30), <1>1
  <2>2. Q[i + 1] = Spool!EndMark <=> m = 1 /\ i + 1 = Len(Q)
    BY <2>1 DEF Marked
  <2> QED BY <2>1, <2>2
<1>8. ASSUME Head(Q) # Spool!EndMark, m = 1 PROVE T # <<>>
  <2>1. Len(Q) # 1
    BY <1>1, <1>5, <1>8
  <2>2. Len(T) # 0
    BY <1>1, <2>1
  <2> QED BY <1>3, <2>2
<1>9. Head(Q) # Spool!EndMark => Marked(T, m)
  BY <1>7, <1>8 DEF Marked
<1> QED BY <1>1, <1>6, <1>9 DEF T

\* The threads' steps keep the way of the frames.
LEMMA ThreadsKeepStages ==
    ASSUME SpoolTypes, FlowStages, Idle(ir), SpoolThreadSteps
    PROVE  FlowStages'
<1> USE SpoolFacts DEF FlowStages
<1>0. /\ \A q \in Int : Len(<<q>>) = 1
      /\ Len(<<>>) = 0
      /\ Len(<<Spool!CutFrame>>) = 1
  OBVIOUS
<1>1. CASE Spool!StartCamera
  BY <1>1, StartCameraMoves DEF Spool!Unset
<1>2. CASE Spool!CameraFrame
  <2>1. PICK q \in {ir.next, ir.next + 1} :
               /\ ir'.next = q + 1 /\ ir'.rows = IF ir.thread = "run" THEN Append(ir.rows, q) ELSE ir.rows
               /\ spooler'.pipe = <<q>>
    BY <1>2, CameraFrameMoves
  <2>2. Len(spooler'.pipe) \in {0, 1} /\ ir'.next >= 1
    BY <1>0, <2>1
  <2>3. ir'.thread \in {Spool!Unset, "start"} => ir'.rows = <<>>
    BY <1>2, <2>1, CameraFrameMoves DEF Spool!Unset
  <2> QED BY <1>2, <2>2, <2>3, CameraFrameMoves DEF Spool!Unset
<1>3. CASE Spool!ErroneousFrame
  <2>1. Len(spooler'.pipe) \in {0, 1} /\ ir'.next >= 1
    <3>1. spooler'.pipe = <<>> \/ spooler'.pipe = <<ir.next>>
      BY <1>3, ErroneousFrameMoves
    <3>2. ir'.next = ir.next + 1
      BY <1>3, ErroneousFrameMoves
    <3>3. Len(spooler'.pipe) = 0 \/ Len(spooler'.pipe) = 1
      BY <3>1, Single, NoFrame
    <3>4. ir'.next >= 1
      BY <3>2
    <3>5. Len(spooler'.pipe) \in {0, 1}
      BY <3>3
    <3> QED BY <3>4, <3>5
  <2> QED BY <1>3, <2>1, ErroneousFrameMoves DEF Spool!Unset
<1>4. CASE Spool!CameraEnds \/ Spool!CameraFails \/ Spool!CameraThreadEnds
  <2>1. Len(spooler'.pipe) \in {0, 1} /\ ir'.next >= 1
    <3>1. spooler'.pipe = spooler.pipe \/ spooler'.pipe = <<Spool!CutFrame>>
      BY <1>4, CameraEndMoves
    <3>2. ir'.next = ir.next
      BY <1>4, CameraEndMoves
    <3>3. Spool!CutFrame \in Int
      BY DEF Spool!CutFrame
    <3>4. spooler'.pipe = spooler.pipe \/ Len(spooler'.pipe) = 1
      BY <3>1, <3>3, Single
    <3>5. ir'.next >= 1
      BY <3>2
    <3>6. Len(spooler'.pipe) \in {0, 1}
      BY <3>4
    <3> QED BY <3>5, <3>6
  <2>2. ir'.thread \in {Spool!Unset, "start"} => ir'.rows = <<>>
    BY <1>4, CameraEndMoves DEF Spool!Unset
  <2>3. spooler.reader \in {"open", Spool!Unset} => ir.process # "run" /\ spooler.pipe = <<>>
    BY DEF Spool!Unset, Idle
  <2>4. spooler.reader \in {"open", Spool!Unset} => /\ ir.thread = "run" /\ spooler'.pipe = spooler.pipe
                                                   /\ ir'.process = ir.process /\ ir'.thread = "done"
    BY <1>4, <2>3, CameraEndMoves
  <2>5. /\ spooler'.reader = spooler.reader /\ spooler'.queue = spooler.queue /\ spooler'.file = spooler.file
        /\ spooler'.writer = spooler.writer
        /\ ir.thread \notin {Spool!Unset, "start"} => ir'.thread \notin {Spool!Unset, "start"}
    BY <1>4, CameraEndMoves DEF Spool!Unset
  <2> QED BY <2>1, <2>2, <2>3, <2>4, <2>5 DEF Spool!Unset
<1>5. CASE Spool!StartColor \/ Spool!ColorEnds
  BY <1>5, ColorMoves DEF Spool!Unset
<1>6. CASE Spool!ReadFrame
  BY <1>0, <1>6, ReadFrameMoves DEF Spool!Unset
<1>7. CASE Spool!EndOfFifo \/ Spool!PutEndMark
  BY <1>7, ReaderEndMoves DEF Spool!Unset
<1>8. CASE Spool!WriteFrame
  BY <1>8, WriteFrameMoves DEF Spool!Unset
<1> QED BY <1>1, <1>2, <1>3, <1>4, <1>5, <1>6, <1>7, <1>8 DEF SpoolThreadSteps

\* A step that changes none of the three, and no mark.
LEMMA SameFlow ==
    ASSUME FlowMarks, RowsCarried, Marks' = Marks, spooler'.file = spooler.file, spooler'.queue = spooler.queue,
           spooler'.pipe = spooler.pipe, ir'.rows = ir.rows
    PROVE  FlowMarks' /\ RowsCarried'
BY DEF FlowMarks, RowsCarried, Carried

\* A spooler that has failed stays failed.
LEMMA WholeStays ==
    ASSUME SpoolTypes, SpoolThreadSteps
    PROVE  Whole' => Whole
<1> USE DEF Whole
<1>1. ASSUME Spool!StartCamera PROVE Whole' => Whole
  BY <1>1, StartCameraMoves
<1>2. ASSUME Spool!CameraFrame PROVE Whole' => Whole
  BY <1>2, CameraFrameMoves
<1>3. ASSUME Spool!ErroneousFrame PROVE Whole' => Whole
  BY <1>3, ErroneousFrameMoves
<1>4. ASSUME Spool!CameraEnds \/ Spool!CameraFails \/ Spool!CameraThreadEnds PROVE Whole' => Whole
  BY <1>4, CameraEndMoves
<1>5. ASSUME Spool!StartColor \/ Spool!ColorEnds PROVE Whole' => Whole
  BY <1>5, ColorMoves
<1>6. ASSUME Spool!ReadFrame PROVE Whole' => Whole
  BY <1>6, ReadFrameMoves
<1>7. ASSUME Spool!EndOfFifo \/ Spool!PutEndMark PROVE Whole' => Whole
  BY <1>7, ReaderEndMoves
<1>8. ASSUME Spool!WriteFrame PROVE Whole' => Whole
  BY <1>8, WriteFrameMoves
<1> QED BY <1>1, <1>2, <1>3, <1>4, <1>5, <1>6, <1>7, <1>8 DEF SpoolThreadSteps

\* A frame is put into the pipe, with or without its row.
LEMMA PipePutKeeps ==
    ASSUME SpoolTypes, FlowMarks, RowsCarried, Marks = 0, Marks' = 0, spooler.pipe = <<>>,
           NEW q \in Int, q # Spool!EndMark, spooler'.pipe = <<q>>,
           spooler'.file = spooler.file, spooler'.queue = spooler.queue,
           ir'.rows = ir.rows \/ ir'.rows = Append(ir.rows, q)
    PROVE  FlowMarks' /\ RowsCarried'
<1>1. /\ spooler.file \in Seq(Int) /\ spooler.queue \in Seq(Int) /\ spooler.pipe \in Seq(Int)
      /\ ir.rows \in Seq(Int)
  BY SpoolFacts
<1>2. spooler'.pipe[1] = q /\ DOMAIN spooler'.pipe = {1}
  BY Single
<1>3. FlowMarks'
  BY <1>2 DEF FlowMarks
<1>4. RowsIn((spooler.file \o spooler.queue) \o spooler.pipe, 0, ir.rows)
  BY DEF RowsCarried, Carried
<1>5. /\ RowsIn((spooler.file \o spooler.queue) \o <<q>>, 0, ir.rows)
      /\ RowsIn((spooler.file \o spooler.queue) \o <<q>>, 0, Append(ir.rows, q))
  BY <1>1, <1>4, FramePut
<1>6. Carried' = (spooler.file \o spooler.queue) \o <<q>>
  BY DEF Carried
<1>7. RowsIn(Carried', Marks', ir'.rows)
  BY <1>5, <1>6
<1> QED BY <1>3, <1>7 DEF RowsCarried

SpoolFlowing == SpoolTypes /\ FlowStages /\ FlowEnds /\ FlowMarks /\ RowsCarried /\ Whole
FlowKept == FlowEnds' /\ FlowMarks' /\ RowsCarried'

\* A frame of the camera, with a row or without.
LEMMA FrameKeepsFlow ==
    ASSUME SpoolFlowing, Spool!CameraFrame \/ Spool!ErroneousFrame
    PROVE  FlowKept
<1>0. SpoolTypes /\ FlowStages /\ FlowEnds /\ FlowMarks /\ RowsCarried
  BY DEF SpoolFlowing
<1>1. /\ spooler.reader = "read" /\ spooler'.reader = "read" /\ spooler.pipe = <<>>
      /\ spooler'.file = spooler.file /\ spooler'.queue = spooler.queue
      /\ spooler'.writer = spooler.writer
  BY <1>0, CameraFrameMoves, ErroneousFrameMoves
<1>2. Marks = 0 /\ Marks' = 0
  BY <1>1 DEF Marks
<1>3. FlowEnds'
  BY <1>0, <1>1 DEF FlowEnds
<1>4. ir.next \in Int /\ ir.next >= 1
  BY <1>0, SpoolFacts DEF FlowStages
<1>5. \/ spooler'.pipe = spooler.pipe /\ ir'.rows = ir.rows
      \/ \E q \in {ir.next, ir.next + 1} :
           spooler'.pipe = <<q>> /\ (ir'.rows = ir.rows \/ ir'.rows = Append(ir.rows, q))
  BY <1>0, CameraFrameMoves, ErroneousFrameMoves
<1>6. CASE spooler'.pipe = spooler.pipe /\ ir'.rows = ir.rows
  BY <1>0, <1>1, <1>2, <1>3, <1>6, SameFlow DEF FlowKept
<1>7. ASSUME NEW q \in {ir.next, ir.next + 1},
             spooler'.pipe = <<q>>, ir'.rows = ir.rows \/ ir'.rows = Append(ir.rows, q)
      PROVE  FlowKept
  <2>1. q \in Int /\ q # Spool!EndMark
    BY <1>4 DEF Spool!EndMark
  <2> QED BY <1>0, <1>1, <1>2, <1>3, <1>7, <2>1, PipePutKeeps DEF FlowKept
<1> QED BY <1>5, <1>6, <1>7

\* The ends of the camera's process and of its thread.
LEMMA CameraEndKeepsFlow ==
    ASSUME SpoolFlowing, Spool!CameraEnds \/ Spool!CameraFails \/ Spool!CameraThreadEnds
    PROVE  FlowKept
<1>0. SpoolTypes /\ FlowStages /\ FlowEnds /\ FlowMarks /\ RowsCarried
  BY DEF SpoolFlowing
<1>1. /\ spooler'.file = spooler.file /\ spooler'.queue = spooler.queue /\ ir'.rows = ir.rows
      /\ spooler'.reader = spooler.reader /\ spooler'.writer = spooler.writer
  BY <1>0, CameraEndMoves
<1>2. \/ /\ ir.process = "run"
         /\ spooler'.pipe = spooler.pipe \/ (spooler.pipe = <<>> /\ spooler'.pipe = <<Spool!CutFrame>>)
      \/ /\ ir'.process = ir.process /\ ir'.thread = "done" /\ spooler'.pipe = spooler.pipe
  BY <1>0, CameraEndMoves
<1>3. Marks' = Marks
  BY <1>1 DEF Marks
<1>4. FlowEnds'
  BY <1>0, <1>1, <1>2 DEF FlowEnds
<1>5. CASE spooler'.pipe = spooler.pipe
  BY <1>0, <1>1, <1>3, <1>4, <1>5, SameFlow DEF FlowKept
<1>6. CASE ir.process = "run" /\ spooler.pipe = <<>> /\ spooler'.pipe = <<Spool!CutFrame>>
  <2>1. Spool!CutFrame \in Int /\ Spool!CutFrame # Spool!EndMark
    BY DEF Spool!CutFrame, Spool!EndMark
  <2>2. Marks = 0 /\ Marks' = 0
    BY <1>0, <1>3, <1>6 DEF FlowEnds, Marks
  <2> QED BY <1>0, <1>1, <1>4, <1>6, <2>1, <2>2, PipePutKeeps DEF FlowKept
<1> QED BY <1>2, <1>5, <1>6

\* A frame from the FIFO into the queue.
LEMMA ReadKeepsFlow ==
    ASSUME SpoolFlowing, Spool!ReadFrame, ~spooler'.failed
    PROVE  FlowKept
<1>0. SpoolTypes /\ FlowStages /\ FlowEnds /\ FlowMarks /\ RowsCarried
  BY DEF SpoolFlowing
<1>1. /\ spooler.reader = "read" /\ spooler'.reader = "read" /\ spooler.pipe # <<>> /\ spooler'.pipe = <<>>
      /\ spooler'.file = spooler.file /\ spooler'.writer = spooler.writer /\ ir' = ir
      /\ spooler'.queue = Append(spooler.queue, spooler.pipe[1])
  BY <1>0, ReadFrameMoves
<1>2. Marks = 0 /\ Marks' = 0
  BY <1>1 DEF Marks
<1>3. FlowEnds'
  BY <1>0, <1>1 DEF FlowEnds
<1>4. /\ spooler.file \in Seq(Int) /\ spooler.queue \in Seq(Int) /\ spooler.pipe \in Seq(Int)
  BY <1>0, SpoolFacts
<1>5. Len(spooler.pipe) = 1
  <2>1. Len(spooler.pipe) # 0
    BY <1>1, <1>4, EmptySeq
  <2>2. Len(spooler.pipe) \in {0, 1}
    BY <1>0 DEF FlowStages
  <2> QED BY <2>1, <2>2
<1>6. spooler.pipe[1] \in Int /\ spooler.pipe[1] # Spool!EndMark
  <2>1. 1 \in DOMAIN spooler.pipe /\ 1 \in 1 .. Len(spooler.pipe)
    BY <1>4, <1>5, LenProperties
  <2>2. spooler.pipe[1] \in Int
    BY <1>4, <2>1, ElementOfSeq
  <2> QED BY <1>0, <2>1, <2>2 DEF FlowMarks
<1>7. Carried' = Carried
  <2>1. Cat(spooler.file, Append(spooler.queue, spooler.pipe[1]), spooler'.pipe)
        = Cat(spooler.file, spooler.queue, spooler.pipe)
    BY <1>1, <1>4, <1>5, PipeToQueue
  <2> QED BY <1>1, <2>1 DEF Carried, Cat
<1>8. RowsCarried'
  BY <1>0, <1>1, <1>2, <1>7 DEF RowsCarried
<1>9. Marked(spooler.queue, 0)
  BY <1>0, <1>2 DEF FlowMarks
<1>10. Marked(spooler'.queue, 0)
  <2> DEFINE f == spooler.pipe[1]
  <2>1. f \in Int /\ f # Spool!EndMark /\ spooler'.queue = Append(spooler.queue, f)
    BY <1>1, <1>6
  <2> HIDE DEF f
  <2> QED BY <1>4, <1>9, <2>1, MarkedPut
<1>11. DOMAIN spooler'.pipe = {}
  BY <1>1, NoFrame
<1> QED BY <1>2, <1>3, <1>8, <1>10, <1>11 DEF FlowKept, FlowMarks

\* The end of the FIFO and the end mark.
LEMMA ReaderEndKeepsFlow ==
    ASSUME SpoolFlowing, Spool!EndOfFifo \/ Spool!PutEndMark
    PROVE  FlowKept
<1>0. SpoolTypes /\ FlowStages /\ FlowEnds /\ FlowMarks /\ RowsCarried /\ Whole
  BY DEF SpoolFlowing
<1>1. /\ spooler'.pipe = spooler.pipe /\ spooler'.file = spooler.file /\ ir' = ir
      /\ spooler'.writer = spooler.writer
  BY <1>0, ReaderEndMoves
<1>2. /\ spooler.file \in Seq(Int) /\ spooler.queue \in Seq(Int) /\ spooler.pipe \in Seq(Int)
      /\ ir.rows \in Seq(Int) /\ spooler.writer \in FileWriters /\ ir.thread \in Threads
  BY <1>0, SpoolFacts
<1>3. CASE /\ spooler.reader = "read" /\ spooler'.reader = "sentinel" /\ spooler.pipe = <<>>
           /\ ir.process \notin {"run", "hung"} /\ spooler'.queue = spooler.queue
  <2>1. Marks' = Marks
    BY <1>1, <1>3 DEF Marks
  <2>2. spooler.writer # "done" /\ ir.thread \in {"run", "done"}
    BY <1>0, <1>2, <1>3 DEF FlowEnds, FlowStages, Threads
  <2>3. FlowEnds'
    BY <1>1, <1>3, <2>2 DEF FlowEnds
  <2>4. ir'.rows = ir.rows
    BY <1>1
  <2> QED BY <1>0, <1>1, <1>3, <2>1, <2>3, <2>4, SameFlow DEF FlowKept
<1>4. CASE /\ spooler.reader = "sentinel" /\ spooler'.reader = "done" /\ spooler.writer # "done"
           /\ spooler'.queue = Append(spooler.queue, Spool!EndMark)
  <2>1. spooler.writer = "run"
    BY <1>0, <1>2, <1>4 DEF Whole, FlowStages, FileWriters, Spool!Unset
  <2>2. Marks = 0 /\ Marks' = 1 /\ spooler.pipe = <<>>
    BY <1>0, <1>1, <1>4, <2>1 DEF Marks, FlowEnds
  <2>3. FlowEnds'
    BY <1>0, <1>1, <1>4 DEF FlowEnds
  <2>4. Spool!EndMark \in Int
    BY DEF Spool!EndMark
  <2>5. Marked(spooler.queue, 0)
    BY <1>0, <2>2 DEF FlowMarks
  <2>6. Marked(spooler'.queue, 1)
    BY <1>2, <1>4, <2>4, <2>5, MarkedPut
  <2>7. FlowMarks'
    BY <1>0, <1>1, <2>2, <2>6 DEF FlowMarks
  <2>8. RowsIn((spooler.file \o spooler.queue) \o spooler.pipe, 0, ir.rows)
    BY <1>0, <2>2 DEF RowsCarried, Carried
  <2>9. RowsIn((spooler.file \o Append(spooler.queue, Spool!EndMark)) \o spooler.pipe, 1, ir.rows)
    BY <1>2, <2>2, <2>4, <2>8, MarkPut
  <2>10. Carried' = (spooler.file \o Append(spooler.queue, Spool!EndMark)) \o spooler.pipe
    BY <1>1, <1>4 DEF Carried
  <2>11. RowsCarried'
    BY <1>1, <2>2, <2>9, <2>10 DEF RowsCarried
  <2> QED BY <2>3, <2>7, <2>11 DEF FlowKept
<1>5. ~(spooler.reader = "sentinel" /\ spooler.writer = "done")
  BY <1>0 DEF FlowEnds
<1> QED BY <1>0, <1>3, <1>4, <1>5, ReaderEndMoves

\* A frame, or the end mark, out of the queue.
LEMMA WriteKeepsFlow ==
    ASSUME SpoolFlowing, Spool!WriteFrame, Whole'
    PROVE  FlowKept
<1>0. SpoolTypes /\ FlowStages /\ FlowEnds /\ FlowMarks /\ RowsCarried /\ Whole
  BY DEF SpoolFlowing
<1>1. /\ spooler.writer = "run" /\ spooler.queue # <<>> /\ spooler'.pipe = spooler.pipe
      /\ spooler'.reader = spooler.reader /\ spooler'.queue = Tail(spooler.queue) /\ ir' = ir
      /\ spooler'.writer # "stuck" /\ ~spooler'.failed
  BY <1>0, WriteFrameMoves DEF Whole
<1>2. /\ spooler.file \in Seq(Int) /\ spooler.queue \in Seq(Int) /\ spooler.pipe \in Seq(Int)
      /\ ir.rows \in Seq(Int)
  BY <1>0, SpoolFacts
<1>3. Marks \in 0 .. 1 /\ Marked(spooler.queue, Marks)
  BY <1>0 DEF FlowMarks, Marks
<1>4. CASE Head(spooler.queue) = Spool!EndMark /\ spooler'.writer = "done" /\ spooler'.file = spooler.file
  <2>1. Marks = 1 /\ Len(spooler.queue) = 1 /\ spooler'.queue = <<>>
    BY <1>1, <1>2, <1>3, <1>4, MarkedTake
  <2>2. spooler.reader = "done" /\ Marks' = 0
    BY <1>1, <1>4, <2>1 DEF Marks
  <2>3. spooler.pipe = <<>>
    BY <1>0, <2>2 DEF FlowEnds
  <2>4. FlowEnds'
    BY <1>0, <1>1, <1>4, <2>1, <2>2 DEF FlowEnds
  <2>5. DOMAIN spooler'.queue = {} /\ DOMAIN spooler'.pipe = {}
    BY <1>1, <2>1, <2>3, NoFrame
  <2>6. FlowMarks'
    BY <2>2, <2>5 DEF FlowMarks, Marked
  <2>7. RowsIn((spooler.file \o spooler.queue) \o spooler.pipe, 1, ir.rows)
    BY <1>0, <2>1 DEF RowsCarried, Carried
  <2>8. RowsIn((spooler.file \o spooler.pipe) \o spooler.pipe, 0, ir.rows)
    BY <1>2, <2>1, <2>3, <2>7, MarkTaken
  <2>9. Carried' = (spooler.file \o spooler.pipe) \o spooler.pipe
    BY <1>1, <1>4, <2>1, <2>3 DEF Carried
  <2>10. RowsCarried'
    BY <1>1, <2>2, <2>8, <2>9 DEF RowsCarried
  <2> QED BY <2>4, <2>6, <2>10 DEF FlowKept
<1>5. CASE /\ Head(spooler.queue) # Spool!EndMark /\ spooler'.writer = "run"
           /\ spooler'.file = Append(spooler.file, Head(spooler.queue))
  <2>1. Marks' = Marks
    BY <1>1, <1>5 DEF Marks
  <2>2. FlowEnds'
    BY <1>0, <1>1, <1>5 DEF FlowEnds
  <2>3. Carried' = Carried
    <3>1. Cat(Append(spooler.file, Head(spooler.queue)), Tail(spooler.queue), spooler.pipe)
          = Cat(spooler.file, spooler.queue, spooler.pipe)
      BY <1>1, <1>2, QueueToFile
    <3> QED BY <1>1, <1>5, <3>1 DEF Carried, Cat
  <2>4. RowsCarried'
    BY <1>0, <1>1, <2>1, <2>3 DEF RowsCarried
  <2>5. Marked(spooler'.queue, Marks)
    BY <1>1, <1>2, <1>3, <1>5, MarkedTake
  <2>6. FlowMarks'
    BY <1>0, <1>1, <2>1, <2>5 DEF FlowMarks
  <2> QED BY <2>2, <2>4, <2>6 DEF FlowKept
<1> QED BY <1>0, <1>1, <1>4, <1>5, WriteFrameMoves

\* Every step of the threads keeps the rows with their frames.
LEMMA ThreadsKeepFlow ==
    ASSUME SpoolTypes, SpoolControl, SpoolFlow, SpoolThreadSteps
    PROVE  SpoolFlow'
<1>1. FlowStages'
  BY ThreadsKeepStages DEF SpoolFlow, SpoolControl, ProcessStages
<1>2. ASSUME Whole' PROVE FlowKept
  <2>1. SpoolFlowing
    BY <1>2, WholeStays DEF SpoolFlow, SpoolFlowing
  <2>2. CASE Spool!StartCamera
    <3>1. SpoolTypes /\ FlowStages /\ FlowEnds /\ FlowMarks /\ RowsCarried
      BY <2>1 DEF SpoolFlowing
    <3>2. spooler'.file = spooler.file /\ spooler'.queue = spooler.queue /\ spooler'.pipe = spooler.pipe
          /\ ir'.rows = ir.rows
      BY <2>2, StartCameraMoves
    <3>3. Marks' = Marks
      BY <2>2, StartCameraMoves DEF Marks
    <3>4. FlowEnds'
      BY <2>2, <3>1, <3>2, StartCameraMoves DEF FlowEnds
    <3> QED BY <3>1, <3>2, <3>3, <3>4, SameFlow DEF FlowKept
  <2>3. CASE Spool!StartColor \/ Spool!ColorEnds
    <3>1. spooler' = spooler /\ ir' = ir
      BY <2>3, ColorMoves
    <3>2. FlowEnds' /\ FlowMarks' /\ RowsCarried'
      BY <2>1, <3>1 DEF SpoolFlowing, FlowEnds, FlowMarks, RowsCarried, Marks, Carried
    <3> QED BY <3>2 DEF FlowKept
  <2>4. ~spooler'.failed
    BY <1>2 DEF Whole
  <2> QED BY <1>2, <2>1, <2>2, <2>3, <2>4, FrameKeepsFlow, CameraEndKeepsFlow, ReadKeepsFlow, ReaderEndKeepsFlow,
             WriteKeepsFlow DEF SpoolThreadSteps
<1> QED BY <1>1, <1>2 DEF SpoolFlow, FlowKept

-----------------------------------------------------------------------------
(* The steps of main.                                                       *)

\* A step of main that succeeds, or raises into the cleanup.
LEMMA TryFacts ==
    ASSUME SpoolTypes, NEW from \in SpoolSteps, NEW to \in SpoolSteps, Spool!Try(from, to)
    PROVE  /\ capture.at = from /\ capture' \in Captures
           /\ \/ capture'.at = to /\ capture'.error = capture.error
              \/ capture'.at = "clean.ir" /\ capture'.error = "fail"
BY StepFacts DEF Spool!Try, SpoolTypes

\* A step of main that ends the program.
LEMMA QuitFacts ==
    ASSUME SpoolTypes, NEW e \in {Spool!Unset, "fail", "interrupt"}, Spool!Quit(e)
    PROVE  capture' \in Captures /\ capture'.at = "end" /\ capture'.error = e
BY DEF Spool!Quit, SpoolTypes, Captures, SpoolSteps

\* Nothing but main's place and the devices changes.
LEMMA SameThreads ==
    ASSUME UNCHANGED <<ir, spooler>>, SpoolFlow
    PROVE  SpoolFlow'
<1>1. ir' = ir /\ spooler' = spooler
  OBVIOUS
<1> QED BY <1>1 DEF SpoolFlow, FlowStages, Whole, FlowEnds, FlowMarks, RowsCarried, Marks, Carried

(* Main's steps that leave threads and directory alone.                     *)
SpoolIdleSteps ==
    \/ Spool!CheckHost \/ Spool!BuildServer \/ Spool!StartServer \/ Spool!StartCollector
    \/ Spool!JoinCameras \/ Spool!JoinReaderAgain \/ Spool!StopServer \/ Spool!JudgeRecording
    \/ Spool!Inspect \/ Spool!ReturnSession \/ Spool!FinishSpooler \/ Spool!CleanUpServer \/ Spool!Interrupt

\* Where such a step leads, and what it has found.
SpoolIdleMoves ==
    \/ capture.at = "preflight" /\ capture'.at = "prepare" /\ capture'.error = capture.error
    \/ capture.at \in SpoolBeginning /\ capture'.at = "end" /\ capture'.error \in {"fail", "interrupt"}
    \/ /\ capture.at \in SpoolWorking \ SpoolBeginning
       /\ capture'.at = "clean.ir" /\ capture'.error \in {"fail", "interrupt"}
    \/ /\ capture.at \in SpoolCleaning \ {"clean.spooler"} /\ capture'.at = "end" /\ capture'.error = "interrupt"
    \/ /\ capture.at = "clean.spooler" /\ capture'.at = "clean.server" /\ capture'.error = capture.error
    \/ /\ capture.at = "clean.server" /\ capture'.at = "clean.files" /\ capture'.error = capture.error
    \/ /\ capture'.error = capture.error
       /\ \/ capture.at = "server.build" /\ capture'.at = "server.start"
          \/ capture.at = "server.start" /\ capture'.at = "serial.start"
          \/ capture.at = "serial.start" /\ capture'.at = "spooler.start"
          \/ capture.at = "join" /\ capture'.at = "reader.join" /\ Ended
          \/ capture.at = "reader.again" /\ capture'.at = "writer.join"
          \/ capture.at = "server.stop" /\ capture'.at = "indexes"
          \/ capture.at = "judge" /\ capture'.at = "rename" /\ Verdict
          \/ capture.at = "inspect" /\ capture'.at = "manifest" /\ server # "broken"
    \/ capture.at = "return" /\ capture'.at = "end" /\ capture'.error = Spool!Unset

\* The devices change only before the verdict.
DevicesKept ==
    /\ collector' \in {"new", "recording", "gapless", "lossy"}
    /\ server' \in {"off", "wanted", "built", "running", "stopped", "broken"}
    /\ collector' = collector \/ capture.at = "serial.start"
    /\ server' = server \/ capture.at \in {"server.build", "server.start", "server.stop"}

\* What the verdict finds makes the file that of the rows.
LEMMA JudgeFacts ==
    ASSUME SpoolTypes, SpoolControl, SpoolFlow, capture.at = "judge",
           Len(ir.rows) = SpoolFrames, Len(spooler.file) = SpoolFrames, Spool!Following(ir.rows),
           rgb.full, collector = "gapless"
    PROVE  Verdict
<1>1. Ended /\ Drained
  BY DEF SpoolControl, ThreadStages, SpoolJudging
<1>2. Whole /\ FlowEnds /\ RowsCarried
  BY <1>1 DEF Whole, Drained, SpoolFlow
<1>3. spooler.queue = <<>> /\ spooler.pipe = <<>> /\ Marks = 0
  BY <1>1, <1>2 DEF FlowEnds, Drained, Marks
<1>4. spooler.file \in Seq(Int) /\ ir.rows \in Seq(Int)
  BY SpoolFacts
<1>5. Carried = spooler.file
  <2>1. spooler.file \o spooler.queue = spooler.file
    BY <1>3, <1>4, ConcatEmptySeq
  <2> QED BY <1>3, <1>4, <2>1, ConcatEmptySeq DEF Carried
<1>6. RowsIn(spooler.file, 0, ir.rows)
  BY <1>2, <1>3, <1>5 DEF RowsCarried
<1>7. Len(ir.rows) \in Nat /\ DOMAIN ir.rows = 1 .. Len(ir.rows) /\ Len(ir.rows) = Len(spooler.file)
  BY <1>4, LenProperties
<1>8. ASSUME NEW k \in 1 .. Len(ir.rows) PROVE spooler.file[k] = ir.rows[k]
  <2>1. PICK d \in 0 .. Len(spooler.file) - 0 - Len(ir.rows) : spooler.file[k + d] = ir.rows[k]
    BY <1>6, <1>7 DEF RowsIn
  <2>2. k + d = k
    BY <1>7, <2>1
  <2> QED BY <2>1, <2>2
<1>9. spooler.file = ir.rows
  BY <1>4, <1>7, <1>8, SeqEqual
<1> QED BY <1>1, <1>9 DEF Verdict

\* Where these steps lead main.
LEMMA IdleStepMoves ==
    ASSUME SpoolTypes, SpoolControl, SpoolFlow, SpoolIdleSteps
    PROVE  /\ UNCHANGED <<ir, spooler, rgb, folder>> /\ capture' \in Captures /\ DevicesKept /\ SpoolIdleMoves
<1> USE SpoolFacts, StepFacts, QuitFacts, TryFacts
<1> DEFINE Goal == /\ UNCHANGED <<ir, spooler, rgb, folder>> /\ capture' \in Captures /\ DevicesKept /\ SpoolIdleMoves
<1>0. capture \in Captures /\ SpoolStages
  BY DEF SpoolTypes, SpoolControl
<1>1. ASSUME Spool!CheckHost PROVE Goal
  BY SMTT(30), <1>0, <1>1
     DEF Spool!CheckHost, Spool!Refuse, Spool!threads, Spool!devices, SpoolStages, SpoolIdleMoves, DevicesKept, SpoolTypes,
         SpoolSteps, SpoolWorking, SpoolBeginning, SpoolPreparing, SpoolJoining, SpoolJudging, SpoolPublishing, SpoolCleaning
<1>2. ASSUME Spool!BuildServer PROVE Goal
  BY SMTT(30), <1>0, <1>2
     DEF Spool!BuildServer, Spool!threads, Spool!devices, SpoolStages, SpoolIdleMoves, DevicesKept, SpoolTypes,
         SpoolSteps, SpoolWorking, SpoolBeginning, SpoolPreparing, SpoolJoining, SpoolJudging, SpoolPublishing, SpoolCleaning
<1>3. ASSUME Spool!StartServer PROVE Goal
  BY SMTT(30), <1>0, <1>3
     DEF Spool!StartServer, Spool!threads, Spool!devices, SpoolStages, SpoolIdleMoves, DevicesKept, SpoolTypes,
         SpoolSteps, SpoolWorking, SpoolBeginning, SpoolPreparing, SpoolJoining, SpoolJudging, SpoolPublishing, SpoolCleaning
<1>4. ASSUME Spool!StartCollector PROVE Goal
  BY <1>0, <1>4
     DEF Spool!StartCollector, Spool!threads, Spool!devices, SpoolStages, SpoolIdleMoves, DevicesKept, SpoolTypes,
         SpoolSteps, SpoolWorking, SpoolBeginning, SpoolPreparing, SpoolJoining, SpoolJudging, SpoolPublishing, SpoolCleaning
<1>5. ASSUME Spool!JoinCameras PROVE Goal
  <2>1. /\ capture.at = "join" /\ UNCHANGED <<ir, spooler, rgb, folder, collector, server>>
        /\ (Spool!Step("reader.join") /\ Ended) \/ Spool!Fails
    <3>1. ({ir.thread, rgb.thread} = {"done"}) => Ended
      BY DEF Ended
    <3> QED BY <1>5, <3>1 DEF Spool!JoinCameras, Spool!threads, Spool!devices
  <2> QED BY <1>0, <2>1
     DEF SpoolStages, SpoolIdleMoves, DevicesKept, SpoolTypes,
         SpoolSteps, SpoolWorking, SpoolBeginning, SpoolPreparing, SpoolJoining, SpoolJudging, SpoolPublishing, SpoolCleaning
<1>6. ASSUME Spool!JoinReaderAgain PROVE Goal
  BY <1>0, <1>6
     DEF Spool!JoinReaderAgain, Spool!threads, Spool!devices, SpoolStages, SpoolIdleMoves, DevicesKept, SpoolTypes,
         SpoolSteps, SpoolWorking, SpoolBeginning, SpoolPreparing, SpoolJoining, SpoolJudging, SpoolPublishing, SpoolCleaning
<1>7. ASSUME Spool!StopServer PROVE Goal
  BY <1>0, <1>7
     DEF Spool!StopServer, Spool!threads, Spool!devices, SpoolStages, SpoolIdleMoves, DevicesKept, SpoolTypes,
         SpoolSteps, SpoolWorking, SpoolBeginning, SpoolPreparing, SpoolJoining, SpoolJudging, SpoolPublishing, SpoolCleaning
<1>8. ASSUME Spool!JudgeRecording PROVE Goal
  BY <1>0, <1>8, JudgeFacts
     DEF Spool!JudgeRecording, Spool!threads, Spool!devices, SpoolStages, SpoolIdleMoves, DevicesKept, SpoolTypes,
         SpoolSteps, SpoolWorking, SpoolBeginning, SpoolPreparing, SpoolJoining, SpoolJudging, SpoolPublishing, SpoolCleaning
<1>9. ASSUME Spool!Inspect PROVE Goal
  BY <1>0, <1>9
     DEF Spool!Inspect, Spool!threads, Spool!devices, SpoolStages, SpoolIdleMoves, DevicesKept, SpoolTypes,
         SpoolSteps, SpoolWorking, SpoolBeginning, SpoolPreparing, SpoolJoining, SpoolJudging, SpoolPublishing, SpoolCleaning
<1>10. ASSUME Spool!ReturnSession PROVE Goal
  BY <1>0, <1>10
     DEF Spool!ReturnSession, Spool!threads, Spool!devices, SpoolStages, SpoolIdleMoves, DevicesKept, SpoolTypes,
         SpoolSteps, SpoolWorking, SpoolBeginning, SpoolPreparing, SpoolJoining, SpoolJudging, SpoolPublishing, SpoolCleaning
<1>11. ASSUME Spool!FinishSpooler PROVE Goal
  BY <1>0, <1>11
     DEF Spool!FinishSpooler, Spool!threads, Spool!devices, SpoolStages, SpoolIdleMoves, DevicesKept, SpoolTypes,
         SpoolSteps, SpoolWorking, SpoolBeginning, SpoolPreparing, SpoolJoining, SpoolJudging, SpoolPublishing, SpoolCleaning
<1>12. ASSUME Spool!CleanUpServer PROVE Goal
  BY <1>0, <1>12
     DEF Spool!CleanUpServer, Spool!threads, Spool!devices, SpoolStages, SpoolIdleMoves, DevicesKept, SpoolTypes,
         SpoolSteps, SpoolWorking, SpoolBeginning, SpoolPreparing, SpoolJoining, SpoolJudging, SpoolPublishing, SpoolCleaning
<1>13. ASSUME Spool!Interrupt PROVE Goal
  <2>1. UNCHANGED <<ir, spooler, rgb, folder, collector, server>>
    BY <1>13 DEF Spool!Interrupt, Spool!threads, Spool!devices
  <2>2. \/ capture.at \in Spool!Cleaning \cup {"preflight", "prepare"} /\ Spool!Quit("interrupt")
        \/ capture.at = "clean.spooler" /\ Spool!Step("clean.server")
        \/ /\ capture.at \notin Spool!Cleaning \cup {"preflight", "prepare", "clean.spooler", "end"}
           /\ capture' = [at |-> "clean.ir", error |-> "interrupt"]
    BY <1>13 DEF Spool!Interrupt, Spool!Cleaning
  <2>3. DevicesKept
    BY <2>1 DEF DevicesKept, SpoolTypes
  <2>4. CASE capture.at \in Spool!Cleaning \cup {"preflight", "prepare"} /\ Spool!Quit("interrupt")
    BY <2>1, <2>3, <2>4 DEF Spool!Cleaning, SpoolIdleMoves, SpoolBeginning, SpoolCleaning
  <2>5. CASE capture.at = "clean.spooler" /\ Spool!Step("clean.server")
    BY <1>0, <2>1, <2>3, <2>5 DEF SpoolIdleMoves, SpoolSteps, SpoolCleaning
  <2>6. CASE /\ capture.at \notin Spool!Cleaning \cup {"preflight", "prepare", "clean.spooler", "end"}
             /\ capture' = [at |-> "clean.ir", error |-> "interrupt"]
    <3>1. capture' \in Captures /\ capture'.at = "clean.ir" /\ capture'.error = "interrupt"
      BY <2>6 DEF Captures, SpoolSteps, SpoolCleaning
    <3>2. capture.at \in SpoolWorking \ SpoolBeginning
      BY <2>6 DEF Spool!Cleaning, SpoolSteps, SpoolWorking, SpoolBeginning, SpoolPreparing, SpoolJoining, SpoolJudging,
                  SpoolPublishing, SpoolCleaning
    <3> QED BY <2>1, <2>3, <3>1, <3>2 DEF SpoolIdleMoves
  <2> QED BY <2>2, <2>4, <2>5, <2>6
<1> QED BY <1>1, <1>2, <1>3, <1>4, <1>5, <1>6, <1>7, <1>8, <1>9, <1>10, <1>11, <1>12, <1>13 DEF SpoolIdleSteps

\* They keep the invariant.
LEMMA IdleStepsKeep ==
    ASSUME SpoolTypes, SpoolControl, SpoolFlow, SpoolIdleSteps
    PROVE  SpoolTypes' /\ SpoolControl' /\ SpoolFlow'
<1>1. /\ ir' = ir /\ spooler' = spooler /\ rgb' = rgb /\ folder' = folder
      /\ capture' \in Captures /\ DevicesKept /\ SpoolIdleMoves
  BY IdleStepMoves
<1>2. SpoolTypes' /\ SpoolFlow'
  BY <1>1, SameThreads DEF SpoolTypes, DevicesKept
<1>3. SpoolStages /\ ThreadStages /\ ProcessStages /\ SpoolFolder /\ SpoolVerdict
  BY DEF SpoolControl
<1> USE DEF SpoolIdleMoves, SpoolWorking, SpoolBeginning, SpoolPreparing, SpoolJoining, SpoolJudging, SpoolPublishing,
            SpoolCleaning
<1>4. SpoolStages'
  BY <1>1, <1>3 DEF SpoolStages, Spool!Unset
<1>5. ThreadStages'
  BY <1>1, <1>3 DEF ThreadStages, Ended, Drained, Verdict
<1>6. ProcessStages'
  BY <1>1, <1>3, SpoolFacts DEF ProcessStages, ThreadStages, Idle, Reaped, Quiet, Spool!Unset
<1>7. SpoolFolder'
  BY <1>1, <1>3 DEF SpoolFolder
<1>8. SpoolVerdict'
  <2>1. capture.at \in SpoolPublishing \/ folder.name = "final" => collector' = collector /\ server' = server
    BY <1>1, <1>3 DEF DevicesKept, SpoolFolder
  <2>2. Verdict /\ collector' = collector => Verdict'
    BY <1>1, <1>3 DEF Verdict, Ended, Drained, Spool!Following
  <2>3. capture.at = "judge" => collector' = collector
    BY SMTT(30), <1>1 DEF DevicesKept
  <2> QED BY <1>1, <1>3, <2>1, <2>2, <2>3 DEF SpoolVerdict
<1> QED BY <1>2, <1>4, <1>5, <1>6, <1>7, <1>8 DEF SpoolControl

(* Main's steps that change the directory.                                  *)
SpoolFolderSteps ==
    \/ Spool!MakeFolder \/ Spool!JoinWriter \/ Spool!StopCollector \/ Spool!SyncIndexFiles \/ Spool!RenamePayloads
    \/ Spool!WriteSpoolManifest \/ Spool!RemoveMarker \/ Spool!SyncFolder \/ Spool!Publish \/ Spool!SyncOutputRoot
    \/ Spool!CleanUpFiles

MadeFolder ==
    /\ capture.at = "prepare"
    /\ \/ capture'.at \in {"server.build", "serial.start"} /\ capture'.error = capture.error
       \/ capture'.at = "end" /\ capture'.error = "fail"
    /\ folder'.name = "partial" /\ folder'.marker = TRUE /\ folder'.manifest = folder.manifest /\ folder'.failure = folder.failure
    /\ folder'.named = folder.named /\ folder'.unsynced = {"marker"} /\ folder'.durable = folder.durable
DoneJoinWriter ==
    /\ capture.at = "writer.join" /\ capture'.at = "serial.stop" /\ capture'.error = capture.error /\ Drained
    /\ folder'.name = folder.name /\ folder'.marker = folder.marker /\ folder'.manifest = folder.manifest /\ folder'.failure = folder.failure
    /\ folder'.named = folder.named /\ folder'.unsynced = folder.unsynced /\ folder'.durable = folder.durable \cup {"infrared"}
DoneStopCollector ==
    /\ capture.at = "serial.stop" /\ capture'.at \in {"indexes", "server.stop"} /\ capture'.error = capture.error
    /\ folder'.name = folder.name /\ folder'.marker = folder.marker /\ folder'.manifest = folder.manifest /\ folder'.failure = folder.failure
    /\ folder'.named = folder.named /\ folder'.unsynced = folder.unsynced /\ folder'.durable = folder.durable \cup {"stm32"}
DoneSyncIndexFiles ==
    /\ capture.at = "indexes" /\ capture'.at = "judge" /\ capture'.error = capture.error
    /\ folder'.name = folder.name /\ folder'.marker = folder.marker /\ folder'.manifest = folder.manifest /\ folder'.failure = folder.failure
    /\ folder'.named = folder.named /\ folder'.unsynced = folder.unsynced /\ folder'.durable = folder.durable \cup {"index"}
DoneRenamePayloads ==
    /\ capture.at = "rename"
    /\ \/ capture'.at = "inspect" /\ capture'.error = capture.error
       \/ capture'.at = "clean.ir" /\ capture'.error = "fail"
    /\ folder'.name = folder.name /\ folder'.marker = folder.marker /\ folder'.manifest = folder.manifest /\ folder'.failure = folder.failure
    /\ folder'.named = TRUE /\ folder'.unsynced = folder.unsynced \cup {"payloads"} /\ folder'.durable = folder.durable
DoneWriteSpoolManifest ==
    /\ capture.at = "manifest" /\ capture'.at = "unlink" /\ capture'.error = capture.error
    /\ folder'.name = folder.name /\ folder'.marker = folder.marker /\ folder'.manifest = TRUE /\ folder'.failure = folder.failure
    /\ folder'.named = folder.named /\ folder'.unsynced = folder.unsynced \cup {"manifest"} /\ folder'.durable = folder.durable
DoneRemoveMarker ==
    /\ capture.at = "unlink" /\ capture'.at = "sync" /\ capture'.error = capture.error
    /\ folder'.name = folder.name /\ folder'.marker = FALSE /\ folder'.manifest = folder.manifest /\ folder'.failure = folder.failure
    /\ folder'.named = folder.named /\ folder'.unsynced = folder.unsynced \cup {"marker"} /\ folder'.durable = folder.durable
DoneSyncFolder ==
    /\ capture.at = "sync" /\ capture'.at = "replace" /\ capture'.error = capture.error
    /\ folder'.name = folder.name /\ folder'.marker = folder.marker /\ folder'.manifest = folder.manifest /\ folder'.failure = folder.failure
    /\ folder'.named = folder.named /\ folder'.unsynced = {} /\ folder'.durable = folder.durable
DonePublish ==
    /\ capture.at = "replace" /\ capture'.at = "root" /\ capture'.error = capture.error
    /\ folder'.name = "final" /\ folder'.marker = folder.marker /\ folder'.manifest = folder.manifest /\ folder'.failure = folder.failure
    /\ folder'.named = folder.named /\ folder'.unsynced = folder.unsynced \cup {"name"} /\ folder'.durable = folder.durable
DoneSyncOutputRoot ==
    /\ capture.at = "root" /\ capture'.at = "return" /\ capture'.error = capture.error
    /\ folder'.name = folder.name /\ folder'.marker = folder.marker /\ folder'.manifest = folder.manifest /\ folder'.failure = folder.failure
    /\ folder'.named = folder.named /\ folder'.unsynced = {} /\ folder'.durable = folder.durable
WroteFailure ==
    /\ capture.at = "clean.files" /\ capture'.at = "end" /\ capture'.error = capture.error
    /\ folder'.failure => folder'.name = "partial"
    /\ folder'.name = folder.name /\ folder'.marker = folder.marker /\ folder'.manifest = folder.manifest
    /\ folder'.named = folder.named /\ folder'.unsynced = folder.unsynced /\ folder'.durable = folder.durable
FolderStepFails ==
    /\ capture.at \in SpoolWorking \ SpoolBeginning /\ capture'.at = "clean.ir" /\ capture'.error = "fail"
    /\ folder' = folder
SpoolFolderMoves ==
    \/ MadeFolder \/ WroteFailure \/ FolderStepFails
    \/ DoneJoinWriter \/ DoneStopCollector \/ DoneSyncIndexFiles \/ DoneRenamePayloads \/ DoneWriteSpoolManifest
    \/ DoneRemoveMarker \/ DoneSyncFolder \/ DonePublish \/ DoneSyncOutputRoot

\* Where these steps lead main, and what they do to the directory.
LEMMA FolderStepMoves ==
    ASSUME SpoolTypes, SpoolControl, SpoolFolderSteps
    PROVE  /\ UNCHANGED <<ir, spooler, rgb, server>> /\ capture' \in Captures /\ folder' \in Folders
           /\ collector' \in {"new", "recording", "gapless", "lossy"}
           /\ collector' = collector \/ capture.at = "serial.stop"
           /\ SpoolFolderMoves
<1> USE SpoolFacts, StepFacts, QuitFacts, TryFacts
<1> DEFINE Goal == /\ UNCHANGED <<ir, spooler, rgb, server>> /\ capture' \in Captures /\ folder' \in Folders
                   /\ collector' \in {"new", "recording", "gapless", "lossy"}
                   /\ collector' = collector \/ capture.at = "serial.stop"
                   /\ SpoolFolderMoves
<1>0. capture \in Captures /\ SpoolStages /\ folder \in Folders
  BY DEF SpoolTypes, SpoolControl
<1> USE DEF SpoolSteps, SpoolWorking, SpoolBeginning, SpoolPreparing, SpoolJoining, SpoolJudging, SpoolPublishing,
            SpoolCleaning
<1>1. ASSUME Spool!MakeFolder PROVE Goal
  <2>1. folder' = [[[folder EXCEPT !.name = "partial"] EXCEPT !.marker = TRUE] EXCEPT !.unsynced = {"marker"}]
    BY SMTT(30), <1>1 DEF Spool!MakeFolder
  <2>2. folder' \in Folders /\ folder'.name = "partial" /\ folder'.marker = TRUE /\ folder'.manifest = folder.manifest /\ folder'.failure = folder.failure
       /\ folder'.named = folder.named /\ folder'.unsynced = {"marker"} /\ folder'.durable = folder.durable
    BY <1>0, <2>1 DEF Folders, SpoolEntries
  <2>3. UNCHANGED <<ir, spooler, rgb, server, collector>> /\ capture.at = "prepare"
        /\ (Spool!Step("serial.start") \/ Spool!Step("server.build") \/ Spool!Quit("fail"))
    BY <1>1 DEF Spool!MakeFolder, Spool!threads, Spool!devices
  <2> QED BY <1>0, <2>2, <2>3 DEF SpoolFolderMoves, MadeFolder, SpoolTypes
<1>2. ASSUME Spool!JoinWriter PROVE Goal
  <2> DEFINE after == [folder EXCEPT !.durable = folder.durable \cup {"infrared"}]
  <2>1. after \in Folders
        /\ after.name = folder.name /\ after.marker = folder.marker /\ after.manifest = folder.manifest /\ after.failure = folder.failure
        /\ after.named = folder.named /\ after.unsynced = folder.unsynced /\ after.durable = folder.durable \cup {"infrared"}
    BY <1>0 DEF Folders, SpoolEntries
  <2>2. UNCHANGED <<ir, spooler, rgb, server>> /\ capture.at = "writer.join" /\ collector' = collector
        /\ ((Spool!Step("serial.stop") /\ Drained /\ folder' = after) \/ (Spool!Fails /\ folder' = folder))
    BY <1>2, <1>0 DEF Spool!JoinWriter, Drained, Spool!threads, Spool!devices, Spool!Step, Spool!Fails,
                    Captures, Spool!Unset, SpoolStages
  <2> HIDE DEF after
  <2> QED BY SMTT(30), <1>0, <2>1, <2>2 DEF SpoolFolderMoves, DoneJoinWriter, FolderStepFails, SpoolTypes
<1>3. ASSUME Spool!StopCollector PROVE Goal
  <2> DEFINE after == [folder EXCEPT !.durable = folder.durable \cup {"stm32"}]
  <2>1. after \in Folders
        /\ after.name = folder.name /\ after.marker = folder.marker /\ after.manifest = folder.manifest /\ after.failure = folder.failure
        /\ after.named = folder.named /\ after.unsynced = folder.unsynced /\ after.durable = folder.durable \cup {"stm32"}
    BY <1>0 DEF Folders, SpoolEntries
  <2>2. UNCHANGED <<ir, spooler, rgb, server>> /\ capture.at = "serial.stop" /\ collector' \in {collector, "gapless", "lossy"}
        /\ (((Spool!Step("indexes") \/ Spool!Step("server.stop")) /\ folder' = after) \/ (Spool!Fails /\ folder' = folder))
    BY <1>3, <1>0 DEF Spool!StopCollector, Spool!threads, Spool!devices, Spool!Step, Spool!Fails,
                    Captures, Spool!Unset, SpoolStages
  <2> HIDE DEF after
  <2> QED BY SMTT(30), <1>0, <2>1, <2>2 DEF SpoolFolderMoves, DoneStopCollector, FolderStepFails, SpoolTypes
<1>4. ASSUME Spool!SyncIndexFiles PROVE Goal
  <2> DEFINE after == [folder EXCEPT !.durable = folder.durable \cup {"index"}]
  <2>1. after \in Folders
        /\ after.name = folder.name /\ after.marker = folder.marker /\ after.manifest = folder.manifest /\ after.failure = folder.failure
        /\ after.named = folder.named /\ after.unsynced = folder.unsynced /\ after.durable = folder.durable \cup {"index"}
    BY <1>0 DEF Folders, SpoolEntries
  <2>2. UNCHANGED <<ir, spooler, rgb, server>> /\ capture.at = "indexes" /\ collector' = collector
        /\ ((Spool!Step("judge") /\ folder' = after) \/ (Spool!Fails /\ folder' = folder))
    BY <1>4, <1>0 DEF Spool!SyncIndexFiles, Spool!Try, Spool!threads, Spool!devices, Spool!Step, Spool!Fails,
                    Captures, Spool!Unset, SpoolStages
  <2> HIDE DEF after
  <2> QED BY SMTT(30), <1>0, <2>1, <2>2 DEF SpoolFolderMoves, DoneSyncIndexFiles, FolderStepFails, SpoolTypes
<1>5. ASSUME Spool!RenamePayloads PROVE Goal
  <2> DEFINE after == [[folder EXCEPT !.named = TRUE] EXCEPT !.unsynced = folder.unsynced \cup {"payloads"}]
  <2>1. after \in Folders
        /\ after.name = folder.name /\ after.marker = folder.marker /\ after.manifest = folder.manifest /\ after.failure = folder.failure
        /\ after.named = TRUE /\ after.unsynced = folder.unsynced \cup {"payloads"} /\ after.durable = folder.durable
    BY <1>0 DEF Folders, SpoolEntries
  <2>2. UNCHANGED <<ir, spooler, rgb, server>> /\ capture.at = "rename" /\ collector' = collector
        /\ (Spool!Step("inspect") \/ Spool!Fails) /\ folder' = after
    BY <1>5, <1>0 DEF Spool!RenamePayloads, Spool!Try, Spool!threads, Spool!devices, Spool!Step, Spool!Fails,
                    Captures, Spool!Unset, SpoolStages
  <2> HIDE DEF after
  <2> QED BY SMTT(30), <1>0, <2>1, <2>2 DEF SpoolFolderMoves, DoneRenamePayloads, FolderStepFails, SpoolTypes
<1>6. ASSUME Spool!WriteSpoolManifest PROVE Goal
  <2> DEFINE after == [[folder EXCEPT !.manifest = TRUE] EXCEPT !.unsynced = folder.unsynced \cup {"manifest"}]
  <2>1. after \in Folders
        /\ after.name = folder.name /\ after.marker = folder.marker /\ after.manifest = TRUE /\ after.failure = folder.failure
        /\ after.named = folder.named /\ after.unsynced = folder.unsynced \cup {"manifest"} /\ after.durable = folder.durable
    BY <1>0 DEF Folders, SpoolEntries
  <2>2. UNCHANGED <<ir, spooler, rgb, server>> /\ capture.at = "manifest" /\ collector' = collector
        /\ ((Spool!Step("unlink") /\ folder' = after) \/ (Spool!Fails /\ folder' = folder))
    BY <1>6, <1>0 DEF Spool!WriteSpoolManifest, Spool!Entry, Spool!Set, Spool!Try, Spool!threads, Spool!devices, Spool!Step, Spool!Fails,
                    Captures, Spool!Unset, SpoolStages
  <2> HIDE DEF after
  <2> QED BY SMTT(30), <1>0, <2>1, <2>2 DEF SpoolFolderMoves, DoneWriteSpoolManifest, FolderStepFails, SpoolTypes
<1>7. ASSUME Spool!RemoveMarker PROVE Goal
  <2> DEFINE after == [[folder EXCEPT !.marker = FALSE] EXCEPT !.unsynced = folder.unsynced \cup {"marker"}]
  <2>1. after \in Folders
        /\ after.name = folder.name /\ after.marker = FALSE /\ after.manifest = folder.manifest /\ after.failure = folder.failure
        /\ after.named = folder.named /\ after.unsynced = folder.unsynced \cup {"marker"} /\ after.durable = folder.durable
    BY <1>0 DEF Folders, SpoolEntries
  <2>2. UNCHANGED <<ir, spooler, rgb, server>> /\ capture.at = "unlink" /\ collector' = collector
        /\ ((Spool!Step("sync") /\ folder' = after) \/ (Spool!Fails /\ folder' = folder))
    BY <1>7, <1>0 DEF Spool!RemoveMarker, Spool!Entry, Spool!Set, Spool!Try, Spool!threads, Spool!devices, Spool!Step, Spool!Fails,
                    Captures, Spool!Unset, SpoolStages
  <2> HIDE DEF after
  <2> QED BY SMTT(30), <1>0, <2>1, <2>2 DEF SpoolFolderMoves, DoneRemoveMarker, FolderStepFails, SpoolTypes
<1>8. ASSUME Spool!SyncFolder PROVE Goal
  <2> DEFINE after == [folder EXCEPT !.unsynced = {}]
  <2>1. after \in Folders
        /\ after.name = folder.name /\ after.marker = folder.marker /\ after.manifest = folder.manifest /\ after.failure = folder.failure
        /\ after.named = folder.named /\ after.unsynced = {} /\ after.durable = folder.durable
    BY <1>0 DEF Folders, SpoolEntries
  <2>2. UNCHANGED <<ir, spooler, rgb, server>> /\ capture.at = "sync" /\ collector' = collector
        /\ ((Spool!Step("replace") /\ folder' = after) \/ (Spool!Fails /\ folder' = folder))
    BY <1>8, <1>0 DEF Spool!SyncFolder, Spool!Entry, Spool!Set, Spool!Try, Spool!threads, Spool!devices, Spool!Step, Spool!Fails,
                    Captures, Spool!Unset, SpoolStages
  <2> HIDE DEF after
  <2> QED BY SMTT(30), <1>0, <2>1, <2>2 DEF SpoolFolderMoves, DoneSyncFolder, FolderStepFails, SpoolTypes
<1>9. ASSUME Spool!Publish PROVE Goal
  <2> DEFINE after == [[folder EXCEPT !.name = "final"] EXCEPT !.unsynced = folder.unsynced \cup {"name"}]
  <2>1. after \in Folders
        /\ after.name = "final" /\ after.marker = folder.marker /\ after.manifest = folder.manifest /\ after.failure = folder.failure
        /\ after.named = folder.named /\ after.unsynced = folder.unsynced \cup {"name"} /\ after.durable = folder.durable
    BY <1>0 DEF Folders, SpoolEntries
  <2>2. UNCHANGED <<ir, spooler, rgb, server>> /\ capture.at = "replace" /\ collector' = collector
        /\ ((Spool!Step("root") /\ folder' = after) \/ (Spool!Fails /\ folder' = folder))
    BY <1>9, <1>0 DEF Spool!Publish, Spool!Entry, Spool!Set, Spool!Try, Spool!threads, Spool!devices, Spool!Step, Spool!Fails,
                    Captures, Spool!Unset, SpoolStages
  <2> HIDE DEF after
  <2> QED BY SMTT(30), <1>0, <2>1, <2>2 DEF SpoolFolderMoves, DonePublish, FolderStepFails, SpoolTypes
<1>10. ASSUME Spool!SyncOutputRoot PROVE Goal
  <2> DEFINE after == [folder EXCEPT !.unsynced = {}]
  <2>1. after \in Folders
        /\ after.name = folder.name /\ after.marker = folder.marker /\ after.manifest = folder.manifest /\ after.failure = folder.failure
        /\ after.named = folder.named /\ after.unsynced = {} /\ after.durable = folder.durable
    BY <1>0 DEF Folders, SpoolEntries
  <2>2. UNCHANGED <<ir, spooler, rgb, server>> /\ capture.at = "root" /\ collector' = collector
        /\ ((Spool!Step("return") /\ folder' = after) \/ (Spool!Fails /\ folder' = folder))
    BY <1>10, <1>0 DEF Spool!SyncOutputRoot, Spool!Entry, Spool!Set, Spool!Try, Spool!threads, Spool!devices, Spool!Step, Spool!Fails,
                    Captures, Spool!Unset, SpoolStages
  <2> HIDE DEF after
  <2> QED BY SMTT(30), <1>0, <2>1, <2>2 DEF SpoolFolderMoves, DoneSyncOutputRoot, FolderStepFails, SpoolTypes
<1>11. ASSUME Spool!CleanUpFiles PROVE Goal
  <2>1. PICK wrote \in BOOLEAN : folder' = [folder EXCEPT !.failure = wrote] /\ (wrote => folder.name = "partial" \/ folder.failure)
    <3>1. folder' = [folder EXCEPT !.failure = folder.name = "partial"] \/ folder' = folder
      BY <1>11 DEF Spool!CleanUpFiles
    <3>2. folder = [folder EXCEPT !.failure = folder.failure]
      BY SMTT(30), <1>0 DEF Folders
    <3> QED BY <3>1, <3>2
  <2>2. folder' \in Folders /\ folder'.failure = wrote
        /\ folder'.name = folder.name /\ folder'.marker = folder.marker /\ folder'.manifest = folder.manifest
        /\ folder'.named = folder.named /\ folder'.unsynced = folder.unsynced /\ folder'.durable = folder.durable
    BY <1>0, <2>1 DEF Folders
  <2>3. ~folder.failure
    BY <1>11 DEF Spool!CleanUpFiles, SpoolControl, SpoolFolder
  <2>4. UNCHANGED <<ir, spooler, rgb, server, collector>> /\ capture.at = "clean.files" /\ Spool!Quit(capture.error)
    BY <1>11 DEF Spool!CleanUpFiles, Spool!threads, Spool!devices
  <2> QED BY SMTT(30), <2>1, <2>2, <2>3, <2>4 DEF SpoolFolderMoves, WroteFailure, SpoolTypes
<1> QED BY <1>1, <1>2, <1>3, <1>4, <1>5, <1>6, <1>7, <1>8, <1>9, <1>10, <1>11 DEF SpoolFolderSteps

\* They keep the invariant.
LEMMA FolderStepsKeep ==
    ASSUME SpoolTypes, SpoolControl, SpoolFlow, SpoolFolderSteps
    PROVE  SpoolTypes' /\ SpoolControl' /\ SpoolFlow'
<1>1. /\ ir' = ir /\ spooler' = spooler /\ rgb' = rgb /\ server' = server
      /\ capture' \in Captures /\ folder' \in Folders
      /\ collector' \in {"new", "recording", "gapless", "lossy"}
      /\ (collector' = collector \/ capture.at = "serial.stop")
      /\ SpoolFolderMoves
  BY FolderStepMoves
<1>2. SpoolTypes' /\ SpoolFlow'
  BY <1>1, SameThreads DEF SpoolTypes
<1>3. SpoolStages /\ ThreadStages /\ ProcessStages /\ SpoolFolder /\ SpoolVerdict
  BY DEF SpoolControl
<1> USE DEF SpoolFolderMoves, MadeFolder, WroteFailure, FolderStepFails,
            DoneJoinWriter, DoneStopCollector, DoneSyncIndexFiles, DoneRenamePayloads, DoneWriteSpoolManifest,
            DoneRemoveMarker, DoneSyncFolder, DonePublish, DoneSyncOutputRoot,
            SpoolWorking, SpoolBeginning, SpoolPreparing, SpoolJoining, SpoolJudging, SpoolPublishing, SpoolCleaning
<1>4. SpoolStages'
  BY <1>1, <1>3 DEF SpoolStages, Spool!Unset
<1>5. ThreadStages'
  BY <1>1, <1>3 DEF ThreadStages, Ended, Drained
<1>6. ProcessStages'
  BY <1>1, <1>3, SpoolFacts DEF ProcessStages, ThreadStages, Idle, Reaped, Quiet, Spool!Unset
<1>7. SpoolFolder'
  <2>1. ASSUME MadeFolder PROVE SpoolFolder'
    BY <1>1, <1>3, <2>1, SpoolFacts DEF SpoolFolder, SpoolVerdict, Verdict, SpoolEntries
  <2>2. ASSUME WroteFailure PROVE SpoolFolder'
    BY <1>1, <1>3, <2>2, SpoolFacts DEF SpoolFolder, SpoolVerdict, Verdict, SpoolEntries
  <2>3. ASSUME FolderStepFails PROVE SpoolFolder'
    BY <1>1, <1>3, <2>3, SpoolFacts DEF SpoolFolder, SpoolVerdict, Verdict, SpoolEntries
  <2>4. ASSUME DoneJoinWriter PROVE SpoolFolder'
    BY <1>1, <1>3, <2>4, SpoolFacts DEF SpoolFolder, SpoolVerdict, Verdict, SpoolEntries
  <2>5. ASSUME DoneStopCollector PROVE SpoolFolder'
    BY <1>1, <1>3, <2>5, SpoolFacts DEF SpoolFolder, SpoolVerdict, Verdict, SpoolEntries
  <2>6. ASSUME DoneSyncIndexFiles PROVE SpoolFolder'
    BY <1>1, <1>3, <2>6, SpoolFacts DEF SpoolFolder, SpoolVerdict, Verdict, SpoolEntries
  <2>7. ASSUME DoneRenamePayloads PROVE SpoolFolder'
    BY <1>1, <1>3, <2>7, SpoolFacts DEF SpoolFolder, SpoolVerdict, Verdict, SpoolEntries
  <2>8. ASSUME DoneWriteSpoolManifest PROVE SpoolFolder'
    BY <1>1, <1>3, <2>8, SpoolFacts DEF SpoolFolder, SpoolVerdict, Verdict, SpoolEntries
  <2>9. ASSUME DoneRemoveMarker PROVE SpoolFolder'
    BY <1>1, <1>3, <2>9, SpoolFacts DEF SpoolFolder, SpoolVerdict, Verdict, SpoolEntries
  <2>10. ASSUME DoneSyncFolder PROVE SpoolFolder'
    BY <1>1, <1>3, <2>10, SpoolFacts DEF SpoolFolder, SpoolVerdict, Verdict, SpoolEntries
  <2>11. ASSUME DonePublish PROVE SpoolFolder'
    BY <1>1, <1>3, <2>11, SpoolFacts DEF SpoolFolder, SpoolVerdict, Verdict, SpoolEntries
  <2>12. ASSUME DoneSyncOutputRoot PROVE SpoolFolder'
    BY <1>1, <1>3, <2>12, SpoolFacts DEF SpoolFolder, SpoolVerdict, Verdict, SpoolEntries
  <2> QED BY <1>1, <2>1, <2>2, <2>3, <2>4, <2>5, <2>6, <2>7, <2>8, <2>9, <2>10, <2>11, <2>12
<1>8. SpoolVerdict'
  <2>1. capture.at \in SpoolPublishing \/ folder.name = "final" => collector' = collector
    BY <1>1, <1>3 DEF SpoolFolder
  <2>2. Verdict /\ collector' = collector => Verdict'
    BY <1>1 DEF Verdict, Ended, Drained, Spool!Following
  <2> QED BY <1>1, <1>3, <2>1, <2>2 DEF SpoolVerdict
<1> QED BY <1>2, <1>4, <1>5, <1>6, <1>7, <1>8 DEF SpoolControl

(* Main's steps that start, wake or stop the threads.                       *)
LEMMA StartSpoolerKeeps ==
    ASSUME SpoolTypes, SpoolControl, SpoolFlow, Spool!StartSpooler
    PROVE  SpoolTypes' /\ SpoolControl' /\ SpoolFlow'
<1>1. SpoolStages /\ ThreadStages /\ ProcessStages /\ SpoolFolder /\ SpoolVerdict
  BY DEF SpoolControl
<1>2. "spooler.start" \in SpoolSteps /\ "cameras.start" \in SpoolSteps
  BY DEF SpoolSteps, SpoolPreparing
<1>3. /\ capture.at = "spooler.start" /\ capture' \in Captures
      /\ \/ capture'.at = "cameras.start" /\ capture'.error = capture.error
         \/ capture'.at = "clean.ir" /\ capture'.error = "fail"
  BY <1>2, TryFacts DEF Spool!StartSpooler
<1>4. /\ ir' = ir /\ rgb' = rgb /\ folder' = folder /\ collector' = collector /\ server' = server
      /\ \/ capture'.error = Spool!Unset /\ spooler' = [[spooler EXCEPT !.reader = "open"] EXCEPT !.writer = "run"]
         \/ capture'.error # Spool!Unset /\ spooler' = spooler
  BY DEF Spool!StartSpooler, Spool!devices
<1>5. capture.error = Spool!Unset /\ spooler.reader = Spool!Unset /\ spooler.writer = Spool!Unset
      /\ ir.thread = Spool!Unset /\ ir.process = Spool!Unset
  BY <1>1, <1>3 DEF SpoolStages, ThreadStages, ProcessStages, Idle, SpoolWorking, SpoolPreparing
<1>6. CASE spooler' = spooler /\ capture'.at = "clean.ir" /\ capture'.error = "fail"
  <2>1. SpoolTypes' /\ SpoolFlow'
    BY <1>3, <1>4, <1>6, SameThreads DEF SpoolTypes
  <2>2. SpoolStages' /\ ThreadStages' /\ ProcessStages' /\ SpoolFolder' /\ SpoolVerdict'
    BY <1>1, <1>3, <1>4, <1>6 DEF SpoolStages, ThreadStages, ProcessStages, SpoolFolder, SpoolVerdict, Verdict, Ended,
       Drained, Idle, Reaped, Quiet, Spool!Following, SpoolWorking, SpoolBeginning, SpoolPreparing, SpoolJoining,
       SpoolJudging, SpoolPublishing, SpoolCleaning, Spool!Unset
  <2> QED BY <2>1, <2>2 DEF SpoolControl
<1>7. CASE /\ capture'.at = "cameras.start" /\ capture'.error = Spool!Unset
           /\ spooler' = [[spooler EXCEPT !.reader = "open"] EXCEPT !.writer = "run"]
  <2>1. /\ spooler' \in Spoolers /\ spooler'.reader = "open" /\ spooler'.writer = "run"
        /\ spooler'.pipe = spooler.pipe /\ spooler'.queue = spooler.queue /\ spooler'.file = spooler.file
        /\ spooler'.failed = spooler.failed
    BY <1>7 DEF SpoolTypes, Spoolers, Readers, FileWriters
  <2>2. SpoolTypes'
    BY <1>3, <1>4, <2>1 DEF SpoolTypes
  <2>3. SpoolStages' /\ ThreadStages' /\ ProcessStages' /\ SpoolFolder'
    BY <1>1, <1>3, <1>4, <1>7, <2>1 DEF SpoolStages, ThreadStages, ProcessStages, SpoolFolder, Ended,
       Drained, Idle, Reaped, Quiet, SpoolWorking, SpoolBeginning, SpoolPreparing, SpoolJoining,
       SpoolJudging, SpoolPublishing, SpoolCleaning, Spool!Unset
  <2>4. folder.name # "final"
    BY <1>1, <1>3 DEF SpoolFolder, SpoolWorking, SpoolPreparing
  <2>5. SpoolVerdict'
    BY <1>4, <1>7, <2>4 DEF SpoolVerdict, SpoolPublishing
  <2>6. FlowStages /\ spooler.pipe = <<>> /\ spooler.queue = <<>> /\ spooler.file = <<>> /\ ir.rows = <<>>
    BY <1>5 DEF SpoolFlow, FlowStages
  <2>7. FlowStages'
    BY <1>4, <1>5, <2>1, <2>6 DEF FlowStages, Spool!Unset
  <2>8. FlowEnds' /\ Marks' = 0
    BY <2>1 DEF FlowEnds, Marks
  <2>9. DOMAIN spooler'.queue = {} /\ DOMAIN spooler'.pipe = {} /\ DOMAIN ir'.rows = {} /\ Len(ir'.rows) = 0
    BY <1>4, <2>1, <2>6, NoFrame
  <2>10. FlowMarks'
    BY <2>8, <2>9 DEF FlowMarks, Marked
  <2>11. RowsCarried'
    <3>1. Carried' \in Seq(Int)
      BY <2>1, SpoolFacts, ConcatProperties DEF Carried
    <3>2. Len(Carried') \in Nat
      BY <3>1, LenProperties
    <3>3. Len(ir'.rows) <= Len(Carried') - Marks'
      BY <2>8, <2>9, <3>2
    <3> QED BY <2>9, <3>3 DEF RowsCarried, RowsIn
  <2> QED BY <2>2, <2>3, <2>5, <2>7, <2>8, <2>10, <2>11 DEF SpoolControl, SpoolFlow
<1> QED BY <1>3, <1>4, <1>5, <1>6, <1>7 DEF Spool!Unset

\* Main starts the two cameras' threads.
LEMMA StartCamerasKeeps ==
    ASSUME SpoolTypes, SpoolControl, SpoolFlow, Spool!StartCameras
    PROVE  SpoolTypes' /\ SpoolControl' /\ SpoolFlow'
<1>1. SpoolStages /\ ThreadStages /\ ProcessStages /\ SpoolFolder /\ SpoolVerdict /\ capture \in Captures
  BY DEF SpoolControl, SpoolTypes
<1>2. /\ capture.at = "cameras.start" /\ capture' \in Captures /\ capture'.at = "join"
      /\ capture'.error = capture.error
  BY <1>1, StepFacts DEF Spool!StartCameras, SpoolSteps
<1>3. /\ spooler' = spooler /\ folder' = folder /\ collector' = collector /\ server' = server
      /\ ir' = [ir EXCEPT !.thread = "start"] /\ rgb' = [rgb EXCEPT !.thread = "start"]
  BY DEF Spool!StartCameras, Spool!devices
<1>4. /\ ir' \in Cameras /\ ir'.thread = "start" /\ ir'.process = ir.process /\ ir'.code = ir.code
      /\ ir'.rows = ir.rows /\ ir'.next = ir.next
  BY <1>3 DEF SpoolTypes, Cameras, Threads
<1>5. /\ rgb' \in Colors /\ rgb'.thread = "start" /\ rgb'.process = rgb.process /\ rgb'.code = rgb.code
  BY <1>3 DEF SpoolTypes, Colors, Threads
<1>6. SpoolTypes'
  BY <1>2, <1>3, <1>4, <1>5 DEF SpoolTypes
<1>7. /\ ir.thread = Spool!Unset /\ ir.process = Spool!Unset /\ ir.code = Spool!Unset /\ spooler.reader = "open"
      /\ rgb.thread = Spool!Unset /\ rgb.process = Spool!Unset /\ rgb.code = Spool!Unset
      /\ capture.error = Spool!Unset /\ folder.name # "final"
  BY <1>1, <1>2 DEF ThreadStages, ProcessStages, Idle, SpoolPreparing, SpoolStages, SpoolWorking, SpoolFolder
<1>8. SpoolStages' /\ ThreadStages' /\ ProcessStages' /\ SpoolFolder' /\ SpoolVerdict'
  BY <1>1, <1>2, <1>3, <1>4, <1>5, <1>7 DEF SpoolStages, ThreadStages, ProcessStages, SpoolFolder, SpoolVerdict,
     Idle, Reaped, Quiet, SpoolWorking, SpoolBeginning, SpoolPreparing, SpoolJoining,
     SpoolJudging, SpoolPublishing, SpoolCleaning, Spool!Unset
<1>9. FlowStages'
  BY <1>3, <1>4, <1>7 DEF SpoolFlow, FlowStages, Spool!Unset
<1>10. Whole' => Whole /\ FlowEnds' /\ FlowMarks' /\ RowsCarried'
  BY <1>3, <1>4, <1>7 DEF SpoolFlow, Whole, FlowEnds, FlowMarks, RowsCarried, Marks, Carried, FlowStages, Spool!Unset
<1> QED BY <1>6, <1>8, <1>9, <1>10 DEF SpoolControl, SpoolFlow

\* Main joins the reader, which may hang.
LEMMA JoinReaderKeeps ==
    ASSUME SpoolTypes, SpoolControl, SpoolFlow, Spool!JoinReader
    PROVE  SpoolTypes' /\ SpoolControl' /\ SpoolFlow'
<1>1. SpoolStages /\ ThreadStages /\ ProcessStages /\ SpoolFolder /\ SpoolVerdict /\ capture \in Captures
  BY DEF SpoolControl, SpoolTypes
<1>2. /\ capture.at = "reader.join" /\ capture' \in Captures /\ capture'.at \in {"writer.join", "reader.again"}
      /\ capture'.error = capture.error
  BY <1>1, StepFacts DEF Spool!JoinReader, SpoolSteps, SpoolJoining
<1>3. /\ ir' = ir /\ rgb' = rgb /\ folder' = folder /\ collector' = collector /\ server' = server
      /\ \/ spooler' = spooler
         \/ spooler.reader = "open" /\ spooler' = [spooler EXCEPT !.reader = "sentinel"]
  <2>1. spooler = [spooler EXCEPT !.reader = spooler.reader]
    BY DEF SpoolTypes, Spoolers
  <2> QED BY <2>1 DEF Spool!JoinReader, Spool!devices
<1>4. Ended /\ folder.name # "final" /\ capture.error = Spool!Unset
  BY <1>1, <1>2 DEF ThreadStages, SpoolStages, SpoolWorking, SpoolJoining, SpoolFolder
<1>5. SpoolStages' /\ ProcessStages' /\ SpoolFolder' /\ SpoolVerdict'
  BY <1>1, <1>2, <1>3, <1>4 DEF SpoolStages, ProcessStages, SpoolFolder, SpoolVerdict,
     Idle, Reaped, Quiet, SpoolWorking, SpoolBeginning, SpoolPreparing, SpoolJoining,
     SpoolJudging, SpoolPublishing, SpoolCleaning, Spool!Unset
<1>6. ThreadStages'
  BY <1>2, <1>3, <1>4 DEF ThreadStages, Ended, SpoolBeginning, SpoolPreparing, SpoolJoining, SpoolJudging,
     SpoolPublishing
<1>7. CASE spooler' = spooler
  <2>1. SpoolTypes' /\ SpoolFlow'
    BY <1>2, <1>3, <1>7, SameThreads DEF SpoolTypes
  <2> QED BY <1>5, <1>6, <2>1 DEF SpoolControl
<1>8. CASE spooler.reader = "open" /\ spooler' = [spooler EXCEPT !.reader = "sentinel"]
  <2>1. /\ spooler' \in Spoolers /\ spooler'.reader = "sentinel" /\ spooler'.writer = spooler.writer
        /\ spooler'.pipe = spooler.pipe /\ spooler'.queue = spooler.queue /\ spooler'.file = spooler.file
        /\ spooler'.failed = spooler.failed
    BY <1>8 DEF SpoolTypes, Spoolers, Readers
  <2>2. SpoolTypes'
    BY <1>2, <1>3, <2>1 DEF SpoolTypes
  <2>3. ir.process = Spool!Unset /\ spooler.pipe = <<>> /\ ir.thread = "done"
    BY <1>4, <1>8 DEF SpoolFlow, FlowStages, Ended
  <2>4. FlowStages'
    BY <1>3, <1>8, <2>1 DEF SpoolFlow, FlowStages, Spool!Unset
  <2>5. Whole' => Whole /\ FlowEnds' /\ FlowMarks' /\ RowsCarried'
    BY <1>3, <1>8, <2>1, <2>3 DEF SpoolFlow, Whole, FlowEnds, FlowMarks, RowsCarried, Marks, Carried, Spool!Unset
  <2> QED BY <1>5, <1>6, <2>2, <2>4, <2>5 DEF SpoolControl, SpoolFlow
<1> QED BY <1>3, <1>7, <1>8

\* What the stop of a process and its thread comes to.
LEMMA StoppedCamera ==
    ASSUME SpoolTypes
    PROVE  LET p == Spool!Stopped(ir)
           IN  /\ p \in Cameras /\ p.code = ir.code /\ p.next = ir.next /\ p.rows = ir.rows
               /\ p.thread = IF ir.thread = Spool!Unset THEN Spool!Unset ELSE "done"
               /\ \/ ir.process = "run" /\ p.process = "stopped"
                  \/ ir.process = "hung" /\ p.process \in {"killed", "hung"}
                  \/ ir.process \notin {"run", "hung"} /\ p.process = ir.process
<1> DEFINE a == CASE ir.process = "run" -> "stopped"
                  [] ir.process = "hung" /\ ir.thread # "done" -> "killed"
                  [] OTHER -> ir.process
           b == IF ir.thread = Spool!Unset THEN ir.thread ELSE "done"
<1>1. /\ \/ ir.process = "run" /\ a = "stopped"
         \/ ir.process = "hung" /\ a \in {"killed", "hung"}
         \/ ir.process \notin {"run", "hung"} /\ a = ir.process
      /\ a \in Processes /\ b \in Threads
  BY SpoolFacts DEF Processes, Threads
<1>2. Spool!Stopped(ir) = [[ir EXCEPT !.process = a] EXCEPT !.thread = b]
  BY DEF SpoolTypes, Cameras, Spool!Stopped
<1> DEFINE p == [[ir EXCEPT !.process = a] EXCEPT !.thread = b]
<1>3. b = IF ir.thread = Spool!Unset THEN Spool!Unset ELSE "done"
  OBVIOUS
<1> HIDE DEF a, b
<1>4. /\ p \in Cameras /\ p.code = ir.code /\ p.next = ir.next /\ p.rows = ir.rows /\ p.thread = b /\ p.process = a
  BY <1>1 DEF SpoolTypes, Cameras
<1> QED BY <1>1, <1>2, <1>3, <1>4

\* The color camera after its process was stopped.
LEMMA StoppedColor ==
    ASSUME SpoolTypes
    PROVE  LET p == Spool!Stopped(rgb)
           IN  /\ p \in Colors /\ p.code = rgb.code /\ p.full = rgb.full
               /\ p.thread = IF rgb.thread = Spool!Unset THEN Spool!Unset ELSE "done"
               /\ \/ rgb.process = "run" /\ p.process = "stopped"
                  \/ rgb.process = "hung" /\ p.process \in {"killed", "hung"}
                  \/ rgb.process \notin {"run", "hung"} /\ p.process = rgb.process
<1> DEFINE a == CASE rgb.process = "run" -> "stopped"
                  [] rgb.process = "hung" /\ rgb.thread # "done" -> "killed"
                  [] OTHER -> rgb.process
           b == IF rgb.thread = Spool!Unset THEN rgb.thread ELSE "done"
<1>1. /\ \/ rgb.process = "run" /\ a = "stopped"
         \/ rgb.process = "hung" /\ a \in {"killed", "hung"}
         \/ rgb.process \notin {"run", "hung"} /\ a = rgb.process
      /\ a \in Processes /\ b \in Threads
  BY SpoolFacts DEF Processes, Threads
<1>2. Spool!Stopped(rgb) = [[rgb EXCEPT !.process = a] EXCEPT !.thread = b]
  BY DEF SpoolTypes, Colors, Spool!Stopped
<1> DEFINE p == [[rgb EXCEPT !.process = a] EXCEPT !.thread = b]
<1>3. b = IF rgb.thread = Spool!Unset THEN Spool!Unset ELSE "done"
  OBVIOUS
<1> HIDE DEF a, b
<1>4. /\ p \in Colors /\ p.code = rgb.code /\ p.full = rgb.full /\ p.thread = b /\ p.process = a
  BY <1>1 DEF SpoolTypes, Colors
<1> QED BY <1>1, <1>2, <1>3, <1>4

\* The cleanup stops the infrared camera.
LEMMA StopCameraKeeps ==
    ASSUME SpoolTypes, SpoolControl, SpoolFlow, Spool!StopCamera
    PROVE  SpoolTypes' /\ SpoolControl' /\ SpoolFlow'
<1>1. SpoolStages /\ ThreadStages /\ ProcessStages /\ SpoolFolder /\ SpoolVerdict /\ capture \in Captures
  BY DEF SpoolControl, SpoolTypes
<1>2. /\ capture.at = "clean.ir" /\ capture' \in Captures /\ capture'.at = "clean.rgb"
      /\ capture'.error = capture.error /\ capture.error # Spool!Unset
  BY <1>1, StepFacts DEF Spool!StopCamera, SpoolSteps, SpoolCleaning, SpoolStages
<1>3. /\ spooler' = spooler /\ rgb' = rgb /\ folder' = folder /\ collector' = collector /\ server' = server
      /\ ir' = Spool!Stopped(ir)
  BY DEF Spool!StopCamera, Spool!devices
<1>4. /\ ir' \in Cameras /\ ir'.code = ir.code /\ ir'.next = ir.next /\ ir'.rows = ir.rows
      /\ ir'.thread = IF ir.thread = Spool!Unset THEN Spool!Unset ELSE "done"
      /\ \/ ir.process = "run" /\ ir'.process = "stopped"
         \/ ir.process = "hung" /\ ir'.process \in {"killed", "hung"}
         \/ ir.process \notin {"run", "hung"} /\ ir'.process = ir.process
  BY <1>3, StoppedCamera
<1>5. SpoolTypes'
  BY <1>2, <1>3, <1>4 DEF SpoolTypes
<1>6. SpoolStages' /\ ThreadStages' /\ SpoolFolder'
  BY <1>1, <1>2, <1>3 DEF SpoolStages, ThreadStages, SpoolFolder, SpoolWorking, SpoolBeginning, SpoolPreparing,
     SpoolJoining, SpoolJudging, SpoolPublishing, SpoolCleaning
<1>7. ir.code \in Codes
  BY SpoolFacts
<1>8. ProcessStages'
  BY <1>1, <1>2, <1>3, <1>4, <1>7 DEF ProcessStages, Idle, Reaped, Quiet, Spool!Unset, Codes
<1>9. SpoolVerdict'
  BY <1>1, <1>2, <1>3, <1>4 DEF SpoolVerdict, Verdict, Ended, Drained, Spool!Following, SpoolPublishing, Spool!Unset
<1>10. FlowStages'
  BY <1>1, <1>3, <1>4 DEF SpoolFlow, FlowStages, ProcessStages, Idle, Spool!Unset
<1>11. Whole' => Whole /\ FlowEnds' /\ FlowMarks' /\ RowsCarried'
  BY <1>3, <1>4 DEF SpoolFlow, Whole, FlowEnds, FlowMarks, RowsCarried, Marks, Carried, Spool!Unset
<1> QED BY <1>5, <1>6, <1>8, <1>9, <1>10, <1>11 DEF SpoolControl, SpoolFlow

\* The cleanup stops the color camera.
LEMMA StopColorKeeps ==
    ASSUME SpoolTypes, SpoolControl, SpoolFlow, Spool!StopColor
    PROVE  SpoolTypes' /\ SpoolControl' /\ SpoolFlow'
<1>1. SpoolStages /\ ThreadStages /\ ProcessStages /\ SpoolFolder /\ SpoolVerdict /\ capture \in Captures
  BY DEF SpoolControl, SpoolTypes
<1>2. /\ capture.at = "clean.rgb" /\ capture' \in Captures /\ capture'.at = "clean.spooler"
      /\ capture'.error = capture.error /\ capture.error # Spool!Unset
  BY <1>1, StepFacts DEF Spool!StopColor, SpoolSteps, SpoolCleaning, SpoolStages
<1>3. /\ spooler' = spooler /\ ir' = ir /\ folder' = folder /\ collector' = collector /\ server' = server
      /\ rgb' = Spool!Stopped(rgb)
  BY DEF Spool!StopColor, Spool!devices
<1>4. /\ rgb' \in Colors /\ rgb'.code = rgb.code /\ rgb'.full = rgb.full
      /\ rgb'.thread = IF rgb.thread = Spool!Unset THEN Spool!Unset ELSE "done"
      /\ \/ rgb.process = "run" /\ rgb'.process = "stopped"
         \/ rgb.process = "hung" /\ rgb'.process \in {"killed", "hung"}
         \/ rgb.process \notin {"run", "hung"} /\ rgb'.process = rgb.process
  BY <1>3, StoppedColor
<1>5. SpoolTypes' /\ SpoolFlow'
  BY <1>2, <1>3, <1>4, SameThreads DEF SpoolTypes
<1>6. SpoolStages' /\ ThreadStages' /\ SpoolFolder'
  BY <1>1, <1>2, <1>3 DEF SpoolStages, ThreadStages, SpoolFolder, SpoolWorking, SpoolBeginning, SpoolPreparing,
     SpoolJoining, SpoolJudging, SpoolPublishing, SpoolCleaning
<1>7. rgb.code \in Codes
  BY SpoolFacts
<1>8. ProcessStages'
  BY <1>1, <1>2, <1>3, <1>4, <1>7 DEF ProcessStages, Idle, Reaped, Quiet, Spool!Unset, Codes
<1>9. SpoolVerdict'
  BY <1>1, <1>2, <1>3, <1>4 DEF SpoolVerdict, Verdict, Ended, Drained, Spool!Following, SpoolPublishing, Spool!Unset
<1> QED BY <1>5, <1>6, <1>8, <1>9 DEF SpoolControl

-----------------------------------------------------------------------------
(* The invariant of the v4l2 capture.                                       *)

\* The capture's initial states satisfy the invariant.
LEMMA SpoolStart ==
    ASSUME Spool!SpoolInit
    PROVE  SpoolInv
<1>1. /\ capture.at = "preflight" /\ capture.error = Spool!Unset
      /\ ir.process = Spool!Unset /\ ir.thread = Spool!Unset /\ ir.code = Spool!Unset /\ ir.next = 1 /\ ir.rows = <<>>
      /\ rgb.process = Spool!Unset /\ rgb.thread = Spool!Unset /\ rgb.code = Spool!Unset
      /\ spooler.pipe = <<>> /\ spooler.queue = <<>> /\ spooler.file = <<>> /\ spooler.reader = Spool!Unset
      /\ spooler.writer = Spool!Unset /\ ~spooler.failed
      /\ folder.name = "absent" /\ ~folder.marker /\ folder.unsynced = {} /\ ~folder.failure
  BY DEF Spool!SpoolInit
<1>2. <<>> \in Seq(Int)
  BY EmptySeq
<1>3. SpoolTypes
  BY <1>2 DEF Spool!SpoolInit, SpoolTypes, Captures, SpoolSteps, Cameras, Processes, Threads, Codes, Spoolers, Readers,
     FileWriters, Colors, Folders, Spool!Unset
<1>4. SpoolControl
  BY <1>1 DEF SpoolControl, SpoolStages, ThreadStages, ProcessStages, SpoolFolder, SpoolVerdict,
     Idle, Reaped, Quiet, SpoolWorking, SpoolBeginning, SpoolPreparing, SpoolJoining,
     SpoolJudging, SpoolPublishing, SpoolCleaning, Spool!Unset
<1>5. DOMAIN spooler.queue = {} /\ DOMAIN spooler.pipe = {} /\ DOMAIN ir.rows = {} /\ Len(ir.rows) = 0
      /\ Len(spooler.pipe) = 0
  BY <1>1, NoFrame
<1>6. Marks = 0 /\ FlowEnds /\ FlowStages
  BY <1>1, <1>5 DEF Marks, FlowEnds, FlowStages, Spool!Unset
<1>7. FlowMarks
  BY <1>5, <1>6 DEF FlowMarks, Marked
<1>8. RowsCarried
  <2>1. Carried \in Seq(Int)
    BY <1>1, <1>2, ConcatProperties DEF Carried
  <2>2. Len(Carried) \in Nat
    BY <2>1, LenProperties
  <2>3. Len(ir.rows) <= Len(Carried) - Marks
    BY <1>5, <1>6, <2>2
  <2> QED BY <1>5, <2>3 DEF RowsCarried, RowsIn
<1> QED BY <1>3, <1>4, <1>6, <1>7, <1>8 DEF SpoolInv, SpoolFlow

\* Every step of the capture keeps it.
LEMMA SpoolStep ==
    ASSUME SpoolInv, [Spool!SpoolNext]_spoolVars
    PROVE  SpoolInv'
<1>0. SpoolTypes /\ SpoolControl /\ SpoolFlow
  BY DEF SpoolInv
<1>1. CASE UNCHANGED spoolVars
  <2>1. /\ capture' = capture /\ ir' = ir /\ spooler' = spooler /\ rgb' = rgb /\ collector' = collector
        /\ server' = server /\ folder' = folder
    BY <1>1 DEF spoolVars
  <2>2. SpoolTypes' /\ SpoolFlow'
    BY <1>0, <2>1, SameThreads DEF SpoolTypes
  <2>3. SpoolControl'
    BY <1>0, <2>1 DEF SpoolControl, SpoolStages, ThreadStages, ProcessStages, SpoolFolder, SpoolVerdict, Verdict, Ended,
       Drained, Idle, Reaped, Quiet, Spool!Following
  <2> QED BY <2>2, <2>3 DEF SpoolInv
<1>2. CASE Spool!SpoolNext
  <2>1. \/ SpoolThreadSteps \/ SpoolIdleSteps \/ SpoolFolderSteps
        \/ Spool!StartSpooler \/ Spool!StartCameras \/ Spool!JoinReader \/ Spool!StopCamera \/ Spool!StopColor
    BY <1>2 DEF Spool!SpoolNext, Spool!SpoolMain, Spool!SpoolThreads, SpoolThreadSteps, SpoolIdleSteps, SpoolFolderSteps
  <2> QED BY <1>0, <2>1, ThreadsKeepControl, ThreadsKeepFlow, IdleStepsKeep, FolderStepsKeep, StartSpoolerKeeps,
             StartCamerasKeeps, JoinReaderKeeps, StopCameraKeeps, StopColorKeeps DEF SpoolInv
<1> QED BY <1>1, <1>2

\* What the invariant says of a recording that is sealed, of one that has
\* failed, and of one whose power was lost.
LEMMA SpoolSound ==
    ASSUME SpoolInv
    PROVE  Spool!SpoolIsComplete /\ Spool!SpoolFailureIsContained /\ Spool!SpoolSurvivesPowerLoss
<1>1. SpoolStages /\ ThreadStages /\ ProcessStages /\ SpoolFolder /\ SpoolVerdict
  BY DEF SpoolInv, SpoolControl
<1>2. Spool!SpoolIsComplete
  BY <1>1 DEF Spool!SpoolIsComplete, Spool!SealedFolder, SpoolFolder, SpoolVerdict, Verdict
<1>3. Spool!SpoolFailureIsContained
  <2>1. ASSUME capture.at = "end", capture.error = "fail"
        PROVE  /\ Quiet(ir) /\ Quiet(rgb)
               /\ folder.name # "absent" /\ ~folder.marker => folder.manifest
    BY <1>1, <2>1 DEF ProcessStages, SpoolFolder
  <2> QED BY <2>1 DEF Spool!SpoolFailureIsContained, Quiet
<1>4. Spool!SpoolSurvivesPowerLoss
  <2>1. ASSUME NEW d \in [name : {"absent", "partial", "final"}, marker : BOOLEAN, manifest : BOOLEAN, named : BOOLEAN],
               \A e \in {"name", "marker", "manifest"} : e \in folder.unsynced \/ d[e] = folder[e],
               "payloads" \in folder.unsynced \/ d.named = folder.named,
               Spool!SealedFolder(d)
        PROVE  d.manifest /\ d.named /\ {"infrared", "stm32", "index"} \subseteq folder.durable
    <3>1. /\ "name" \in folder.unsynced \/ d.name = folder.name
          /\ "manifest" \in folder.unsynced \/ d.manifest = folder.manifest
      BY <2>1
    <3>2. d.name = "final"
      BY <2>1 DEF Spool!SealedFolder
    <3>3. folder.name = "final"
      BY <1>1, <3>1, <3>2 DEF SpoolFolder
    <3> QED BY <1>1, <2>1, <3>1, <3>3 DEF SpoolFolder
  <2> QED BY <2>1 DEF Spool!SpoolSurvivesPowerLoss
<1> QED BY <1>2, <1>3, <1>4

-----------------------------------------------------------------------------
(* The RSUSB capture.                                                       *)

Modes == {"until_signal", "fixed_frames", "interleaved"}
Starting == {"serial.start", "ir.start", "rgb.start", "sensor.start", "warmup"}
Looping == {"loop.top", "loop.wait"}
Stopping == {"serial.stop", "sensor.stop"}
ColorFinish == {"rgb.put", "rgb.join", "rgb.wait"}
LeftFinish == {"left.put", "left.join"}
RightFinish == {"right.put", "right.join"}
StereoFinish == {"stereo.put", "stereo.join"}
Finishing == ColorFinish \cup LeftFinish \cup RightFinish \cup StereoFinish
Judging == {"index", "judge"}
Sealing == {"finalize", "manifest", "publish.sync", "publish.rename"}
Publishing == Published \cup {"return"}
CleaningUp == {"sensor.cleanup", "children.cleanup", "failure"}
Recording == Starting \cup Looping \cup Stopping \cup Finishing \cup Judging
EdgeWorking == {"preflight", "prepare"} \cup Recording \cup Sealing \cup Publishing
EdgeSteps == EdgeWorking \cup Undoing \cup CleaningUp \cup {"end"}

EdgeErrors == {None, "fail", "abort"}
Mains == [at : EdgeSteps, error : EdgeErrors, started : SUBSET (Sides \cup {"stereo", "rgb"}),
          publish : {"no", "cut", "returned"}]
EdgeThreads == {"new", "take", "write", "wait", "done"}
EdgeProcesses == {None, "run", "hung", "crashed", "killed", "ended"}
Kids == [thread : EdgeThreads, queue : Seq(Int), held : Seq(Int), written : Seq(Int),
         process : EdgeProcesses, failed : BOOLEAN, cancel : BOOLEAN]
EdgeEntries == {"name", "marker", "manifest"}
Disks == [name : {"absent", "partial", "final"}, marker : BOOLEAN, manifest : BOOLEAN, failure : BOOLEAN,
          unsynced : SUBSET EdgeEntries,
          durable : SUBSET (Sides \cup {"stereo", "rgb", "stm32", "index"})]
Evidences == [reason : {"fixed_duration_complete", "external_stop", "maximum_duration_complete",
                        "low_storage_guard"},
              stop : {None, "signal", "storage"}]

EdgeTypes ==
    /\ mode \in Modes /\ main \in Mains /\ signals \in {0, 1, 2}
    /\ serial \in {"new", "recording", "gapless", "lossy"}
    /\ child \in [Children -> Kids] /\ disk \in Disks

StreamTypes ==
    /\ next \in [Streams -> Int] /\ seen \in [Streams -> Seq(Int)] /\ target \in Nat
    /\ pending \subseteq Int \X Sides /\ irRows \in Seq(Int) /\ evidence \in Evidences

\* What main has raised, and what it says of the publication.
EdgeStages ==
    /\ main.at \in EdgeWorking => main.error = None /\ main.publish = "no"
    /\ main.at \in Undoing => main.error # None /\ main.publish = "no"
    /\ main.at \in CleaningUp => main.error # None /\ main.publish # "returned"
    /\ main.at \in LeftFinish \cup RightFinish => mode # "interleaved"
    /\ main.at \in StereoFinish => mode = "interleaved"

\* How far the children are: where main has joined one it has ended, and the
\* file of an infrared writer that has ended is synced.
Complete(w) == child[w].thread = "done" /\ child[w].process = "ended" /\ ~child[w].failed
Unstarted == {"preflight", "prepare", "serial.start", "ir.start"}
Later == Judging \cup Sealing \cup Publishing
ChildStages ==
    /\ \A w \in Writers : child[w].thread = "done" /\ ~child[w].failed => Complete(w) /\ w \in disk.durable
    /\ main.at \in Unstarted => \A w \in Children : child[w].thread = "new"
    /\ main.at = "rgb.start" => child["rgb"].thread = "new"
    /\ main.at = "rgb.wait" => child["rgb"].thread = "done"
    /\ main.at \in (Finishing \ ColorFinish) \cup Later => Complete("rgb")
    /\ main.at \in RightFinish => Complete("left")
    /\ main.at \in Later => main.started = {} /\ \A w \in Writers : Complete(w)
    \* Cancelled children, and frames in a thread's hands.
    /\ \A w \in Children : child[w].cancel => main.error # None
    /\ \A w \in Children : child[w].thread # "write" => child[w].held = <<>>

\* The directory.
Settled == disk.manifest /\ "manifest" \notin disk.unsynced
Lasting == Writers \cup {"stm32", "index"}
DiskStages ==
    /\ main.at \in {"preflight", "prepare"} => disk.name = "absent" /\ disk.unsynced = {}
    /\ main.at \in Recording \cup Sealing => disk.name = "partial" /\ "name" \notin disk.unsynced
    /\ main.at \in Recording \cup Sealing \cup {"publish.root", "publish.unlink"} => disk.marker
    /\ disk.name = "absent" => ~disk.marker
    /\ main.at \in Finishing \cup Later \cup {"sensor.stop"} => "stm32" \in disk.durable
    /\ main.at \in (Later \ {"index"}) => "index" \in disk.durable
    /\ main.at \in {"publish.sync", "publish.rename"} \cup Publishing \cup Undoing => disk.manifest
    /\ main.at \in {"publish.rename"} \cup Publishing \cup Undoing => Settled
    /\ main.at \in Publishing \cup {"undo.mark", "undo.sync", "undo.rename"} => disk.name = "final"
    /\ main.at \in {"undo.sync", "undo.rename"} => disk.marker
    /\ main.at = "undo.root" => disk.name = "partial"
    /\ disk.failure => main.at = "end" /\ disk.name = "partial"
    /\ disk.name = "final" \/ "name" \in disk.unsynced => Settled /\ Lasting \subseteq disk.durable
    /\ main.at \in CleaningUp \cup {"end"} /\ main.error # None /\ main.publish = "no" => ~Sealed(disk)

EdgeControl == EdgeTypes /\ EdgeStages /\ ChildStages /\ DiskStages

-----------------------------------------------------------------------------
(* The frames.                                                              *)

\* The entries begin with the rows; beyond them are at most some frames, and
\* then sentinels.
Follows(e, rows, spare) ==
    /\ Len(rows) <= Len(e)
    /\ \A i \in DOMAIN rows : e[i] = rows[i]
    /\ \A i \in DOMAIN e : i > Len(rows) + spare => e[i] = Sentinel

Filling == {"preflight", "prepare"} \cup Starting \cup Looping
RowsOfWriters ==
    \A w \in Writers : ~child[w].failed /\ ~child[w].cancel =>
        /\ Follows(Entries(child[w]), irRows, IF main.error = None THEN 0 ELSE 1)
        /\ main.at \in Filling => Len(Entries(child[w])) = Len(irRows)
FramesOfColor ==
    main.error = None /\ ~child["rgb"].failed =>
        /\ Follows(Entries(child["rgb"]), seen["color"], 0)
        /\ main.at \in Filling => Len(Entries(child["rgb"])) = Len(seen["color"])
EdgeFlow == RowsOfWriters /\ FramesOfColor

\* Each stream's numbers ascend; a row stands in both streams, and rows are as
\* far apart in them as among themselves.
Ascending(s) ==
    /\ 1 <= next[s]
    /\ \A i \in DOMAIN seen[s] : 1 <= seen[s][i] /\ seen[s][i] < next[s]
    /\ \A i, j \in DOMAIN seen[s] : i < j => seen[s][i] < seen[s][j]
Occurs(q, s) == \E i \in DOMAIN seen[s] : seen[s][i] = q
RowsApart(s) ==
    \A j, k \in DOMAIN irRows : \A p, r \in DOMAIN seen[s] :
        seen[s][p] = irRows[j] /\ seen[s][r] = irRows[k] /\ j <= k => k - j <= r - p
Pairing ==
    /\ \A s \in Streams : Ascending(s)
    /\ \A s \in Sides : (\A k \in DOMAIN irRows : Occurs(irRows[k], s)) /\ RowsApart(s)
    /\ \A p \in pending : Occurs(p[1], p[2])

\* The target of the capture, and how it was chosen.
Before == {"preflight", "prepare"} \cup Starting
TargetStages ==
    /\ main.at \in Before => \A s \in Streams : seen[s] = <<>>
    /\ target # 0 => 2 <= target /\ target <= MaxFrames /\ \A s \in Streams : Len(seen[s]) <= target
    /\ target = 0 => mode = "until_signal" /\ evidence.stop = None /\ \A s \in Streams : Len(seen[s]) <= MaxFrames
    /\ mode # "until_signal" => target = MaxFrames
    /\ mode = "until_signal" /\ target # 0 =>
         \/ evidence \in {[reason |-> "external_stop", stop |-> "signal"],
                           [reason |-> "low_storage_guard", stop |-> "storage"]}
         \/ evidence = [reason |-> "maximum_duration_complete", stop |-> None] /\ target = MaxFrames
    /\ main.at \in Stopping \cup Finishing \cup Later => target # 0 /\ \A s \in Streams : Len(seen[s]) = target

\* What was judged.
Judged ==
    LET n == Len(seen["color"])
    IN  /\ \A w \in Children : Complete(w) /\ Len(child[w].written) = n
        /\ main.started = {} /\ target = n /\ serial = "gapless"
        /\ \A s \in Streams : Len(seen[s]) = n /\ Gapless(seen[s])
        /\ pending = {} /\ Len(irRows) = n
        /\ \A w \in Writers : child[w].written = irRows
        /\ child["rgb"].written = seen["color"]
        /\ \A s \in Sides : seen[s] = irRows
        /\ target # 0
EdgeVerdict == main.at \in Sealing \cup Publishing \/ disk.name = "final" => Judged

EdgeInv == EdgeControl /\ StreamTypes /\ EdgeFlow /\ Pairing /\ TargetStages /\ EdgeVerdict

\* The writers and their encoder, which a run does not change.
LEMMA ChildrenFacts ==
    /\ Writers \subseteq Sides \cup {"stereo"} /\ "rgb" \notin Writers
    /\ Children = Writers \cup {"rgb"} /\ Children \subseteq Sides \cup {"stereo", "rgb"}
    /\ mode' = mode => Writers' = Writers /\ Children' = Children
BY DEF Writers, Children, Sides

\* The fields of the capture's state.
LEMMA EdgeFacts ==
    ASSUME EdgeTypes
    PROVE  /\ mode \in Modes /\ main \in Mains /\ disk \in Disks /\ child \in [Children -> Kids]
           /\ main.at \in EdgeSteps /\ main.error \in EdgeErrors /\ main.publish \in {"no", "cut", "returned"}
           /\ main.started \subseteq Sides \cup {"stereo", "rgb"}
           /\ disk.name \in {"absent", "partial", "final"} /\ disk.marker \in BOOLEAN /\ disk.manifest \in BOOLEAN
           /\ disk.failure \in BOOLEAN /\ disk.unsynced \subseteq EdgeEntries
           /\ disk.durable \subseteq Sides \cup {"stereo", "rgb", "stm32", "index"}
BY DEF EdgeTypes, Mains, Disks

\* The fields of a child's state.
LEMMA KidFacts ==
    ASSUME NEW c \in Kids
    PROVE  /\ c.thread \in EdgeThreads /\ c.process \in EdgeProcesses /\ c.failed \in BOOLEAN /\ c.cancel \in BOOLEAN
           /\ c.queue \in Seq(Int) /\ c.held \in Seq(Int) /\ c.written \in Seq(Int)
BY DEF Kids

\* The new state of a child is one of a child.
LEMMA SetChild ==
    ASSUME child \in [Children -> Kids], NEW w \in Children, NEW k \in Kids,
           child' = [child EXCEPT ![w] = k], mode' = mode
    PROVE  /\ child' \in [Children' -> Kids] /\ child'[w] = k
           /\ \A v \in Children : v # w => child'[v] = child[v]
BY ChildrenFacts

\* A child that has died.
LEMMA DiedFacts ==
    ASSUME NEW c \in Kids
    PROVE  /\ Died(c) \in Kids /\ Died(c).thread = "done" /\ Died(c).failed = TRUE
           /\ Died(c).cancel = c.cancel /\ Died(c).held = c.held
<1> DEFINE p == IF c.process \in {"run", "hung"} THEN "killed" ELSE c.process
<1>1. p \in EdgeProcesses
  BY KidFacts DEF EdgeProcesses
<1>2. Died(c) = [[[c EXCEPT !.thread = "done"] EXCEPT !.failed = TRUE] EXCEPT !.process = p]
  BY DEF Died, Kids
<1> HIDE DEF p
<1> QED BY <1>1, <1>2 DEF Kids, EdgeThreads

\* The first entry of the queue goes into the file.
LEMMA FrameWritten ==
    ASSUME NEW W \in Seq(Int), NEW E \in Seq(Int), E = <<>>, NEW Q \in Seq(Int), Q # <<>>
    PROVE  /\ Head(Q) \in Int /\ Tail(Q) \in Seq(Int) /\ Append(W, Head(Q)) \in Seq(Int) /\ <<Head(Q)>> \in Seq(Int)
           /\ (Append(W, Head(Q)) \o E) \o Tail(Q) = (W \o E) \o Q
           /\ (W \o <<Head(Q)>>) \o Tail(Q) = (W \o E) \o Q
<1>1. E \in Seq(Int) /\ W \o E = W
  BY EmptySeq, ConcatEmptySeq
<1>2. Head(Q) \in Int /\ Tail(Q) \in Seq(Int) /\ Append(W, Head(Q)) \in Seq(Int) /\ <<Head(Q)>> \in Seq(Int)
      /\ W \o <<Head(Q)>> = Append(W, Head(Q))
  <2>1. Head(Q) \in Int /\ Tail(Q) \in Seq(Int)
    BY HeadTailProperties
  <2> QED BY <2>1, AppendProperties, AppendIsConcat
<1>3. Append(W, Head(Q)) \o E = Append(W, Head(Q))
  BY <1>1, <1>2, ConcatEmptySeq
<1>4. Cat(Append(W, Head(Q)), Tail(Q), E) = Cat(W, Q, E)
  BY <1>1, QueueToFile
<1>5. Append(W, Head(Q)) \o Tail(Q) \in Seq(Int) /\ W \o Q \in Seq(Int)
  BY <1>2, ConcatProperties
<1>6. Cat(Append(W, Head(Q)), Tail(Q), E) = Append(W, Head(Q)) \o Tail(Q) /\ Cat(W, Q, E) = W \o Q
  BY <1>1, <1>5, ConcatEmptySeq DEF Cat
<1> QED BY <1>1, <1>2, <1>3, <1>4, <1>6

\* A frame that a thread takes: it is in its file, in its hands, or the thread
\* has died.
LEMMA FedFacts ==
    ASSUME NEW c \in Kids, c.thread = "take", c.held = <<>>, c.queue # <<>>
    PROVE  /\ Fed(c) \in Kids /\ Fed(c).cancel = c.cancel
           /\ \/ /\ Fed(c).thread = "done" /\ Fed(c).failed = TRUE /\ Fed(c).held = <<>>
              \/ /\ Fed(c).thread \in {"take", "write"} /\ Fed(c).failed = c.failed
                 /\ Fed(c).thread = "take" => Fed(c).held = <<>>
                 /\ Entries(Fed(c)) = Entries(c)
<1> DEFINE f == Head(c.queue)
           t == Tail(c.queue)
           taken == [c EXCEPT !.queue = t]
           W == Append(c.written, f)
           H == <<f>>
<1>1. f \in Int /\ t \in Seq(Int) /\ W \in Seq(Int) /\ H \in Seq(Int)
      /\ (W \o c.held) \o t = (c.written \o c.held) \o c.queue
      /\ (c.written \o H) \o t = (c.written \o c.held) \o c.queue
  <2> DEFINE w0 == c.written
             h0 == c.held
             q0 == c.queue
  <2>1. w0 \in Seq(Int) /\ q0 \in Seq(Int) /\ h0 \in Seq(Int) /\ h0 = <<>> /\ q0 # <<>>
    BY KidFacts
  <2> HIDE DEF w0, h0, q0
  <2>2. /\ Head(q0) \in Int /\ Tail(q0) \in Seq(Int) /\ Append(w0, Head(q0)) \in Seq(Int) /\ <<Head(q0)>> \in Seq(Int)
        /\ (Append(w0, Head(q0)) \o h0) \o Tail(q0) = (w0 \o h0) \o q0
        /\ (w0 \o <<Head(q0)>>) \o Tail(q0) = (w0 \o h0) \o q0
    BY SMTT(30), <2>1, FrameWritten
  <2> QED BY <2>2 DEF w0, h0, q0
<1>2. taken \in Kids
  BY <1>1 DEF Kids
<1>3. CASE c.process = "run"
  <2>1. Fed(c) = [[c EXCEPT !.queue = t] EXCEPT !.written = W]
    BY <1>3 DEF Fed
  <2> HIDE DEF W, t
  <2> QED BY <1>1, <2>1 DEF Kids, Entries
<1>4. CASE c.process = "hung"
  <2>1. Fed(c) = [[[c EXCEPT !.queue = t] EXCEPT !.held = H] EXCEPT !.thread = "write"]
    BY <1>4 DEF Fed, Kids
  <2> HIDE DEF H, t
  <2> QED BY <1>1, <2>1 DEF Kids, Entries, EdgeThreads
<1>5. CASE c.process \notin {"run", "hung"}
  <2>1. Fed(c) = Died(taken)
    BY <1>5 DEF Fed
  <2>2. taken.cancel = c.cancel /\ taken.held = c.held
    BY DEF Kids
  <2> HIDE DEF taken
  <2> QED BY <1>2, <2>1, <2>2, DiedFacts
<1> QED BY <1>3, <1>4, <1>5

-----------------------------------------------------------------------------
(* The steps of the writers' threads and their processes.                   *)

KidSteps(w) ==
    \/ Feed(w) \/ EndOfInput(w) \/ AwaitProcess(w) \/ ProcessFails(w)
    \/ w = "rgb" /\ RgbEnds

\* What becomes of a child: it fails; or its entries stay; or it takes the
\* sentinel.
KidGoesOn(c, k) ==
    \/ k.failed = TRUE
    \/ k.failed = c.failed /\ Entries(k) = Entries(c)
    \/ /\ k.failed = c.failed /\ k.written = c.written /\ k.held = c.held
       /\ c.queue # <<>> /\ Head(c.queue) = Sentinel /\ k.queue = Tail(c.queue)

KidMoves(w) ==
    /\ UNCHANGED <<mode, main, signals, streams, serial>> /\ main.error = None /\ main.at # "end"
    /\ disk' \in Disks /\ disk.durable \subseteq disk'.durable
    /\ disk'.name = disk.name /\ disk'.marker = disk.marker /\ disk'.manifest = disk.manifest
    /\ disk'.failure = disk.failure /\ disk'.unsynced = disk.unsynced
    /\ child' \in [Children' -> Kids] /\ \A v \in Children : v # w => child'[v] = child[v]
    /\ ~Complete(w)
    /\ w \in Writers /\ child'[w].thread = "done" /\ child'[w].failed = FALSE =>
         child'[w].process = "ended" /\ w \in disk'.durable
    /\ w = "rgb" /\ child[w].thread = "done" => child'[w].thread = "done"
    /\ child[w].thread = "new" => child'[w].thread = "new"
    /\ child'[w].cancel = child[w].cancel
    /\ child'[w].thread # "write" => child'[w].held = <<>>
    /\ KidGoesOn(child[w], child'[w])

\* What a step of a child's thread or process does to the child.
LEMMA ThreadMoves ==
    ASSUME EdgeTypes, ChildStages, NEW w \in Children, KidSteps(w)
    PROVE  KidMoves(w)
<1> DEFINE c == child[w]
<1>1. /\ child \in [Children -> Kids] /\ disk \in Disks /\ c \in Kids /\ main.error = None /\ main.at # "end"
      /\ UNCHANGED <<mode, main, signals, streams, serial>> /\ mode' = mode
  BY EdgeFacts DEF KidSteps, Feed, EndOfInput, AwaitProcess, ProcessFails, RgbEnds, Thread
<1>2. /\ c.thread # "write" => c.held = <<>>
      /\ c.cancel = FALSE
      /\ w \in Writers /\ c.thread = "done" /\ c.failed = FALSE => Complete(w) /\ w \in disk.durable
  BY <1>1, KidFacts DEF ChildStages
<1>3. UNCHANGED disk => /\ disk' \in Disks /\ disk.durable \subseteq disk'.durable
                        /\ disk'.name = disk.name /\ disk'.marker = disk.marker /\ disk'.manifest = disk.manifest
                        /\ disk'.failure = disk.failure /\ disk'.unsynced = disk.unsynced
  BY <1>1
<1>4. ASSUME Feed(w) PROVE KidMoves(w)
  <2> DEFINE k == Fed(c)
  <2>1. child' = [child EXCEPT ![w] = k] /\ UNCHANGED disk /\ c.thread = "take" /\ c.queue # <<>>
    BY <1>4 DEF Feed
  <2>2. /\ k \in Kids /\ k.cancel = c.cancel
        /\ \/ k.thread = "done" /\ k.failed = TRUE /\ k.held = <<>>
           \/ /\ k.thread \in {"take", "write"} /\ k.failed = c.failed
              /\ k.thread = "take" => k.held = <<>>
              /\ Entries(k) = Entries(c)
    BY <1>1, <1>2, <2>1, FedFacts
  <2> HIDE DEF k
  <2>3. child' \in [Children' -> Kids] /\ child'[w] = k /\ \A v \in Children : v # w => child'[v] = child[v]
    BY <1>1, <2>1, <2>2, SetChild
  <2> QED BY <1>1, <1>3, <2>1, <2>2, <2>3 DEF KidMoves, KidGoesOn, Complete
<1>5. ASSUME EndOfInput(w) PROVE KidMoves(w)
  <2> DEFINE t == Tail(c.queue)
             h == IF w = "rgb" THEN "done" ELSE "wait"
             k == [[c EXCEPT !.queue = t] EXCEPT !.thread = h]
  <2>1. child' = [child EXCEPT ![w] = k]
    <3>1. child' = [child EXCEPT ![w].queue = t, ![w].thread = h]
      BY <1>5 DEF EndOfInput
    <3> QED BY <1>1, <3>1
  <2>2. UNCHANGED disk /\ c.thread = "take" /\ c.queue # <<>> /\ Head(c.queue) = Sentinel
    BY <1>2, <1>5 DEF EndOfInput
  <2>3. t \in Seq(Int) /\ h \in EdgeThreads /\ h # "write"
    BY <1>1, <2>2, KidFacts, HeadTailProperties DEF EdgeThreads
  <2>4. k \in Kids /\ k.cancel = c.cancel /\ k.thread = h /\ k.failed = c.failed /\ k.written = c.written
        /\ k.held = c.held /\ k.queue = t /\ k.process = c.process
    <3> HIDE DEF t, h
    <3> QED BY <1>1, <2>3 DEF Kids
  <2> HIDE DEF k
  <2>5. child' \in [Children' -> Kids] /\ child'[w] = k /\ \A v \in Children : v # w => child'[v] = child[v]
    BY <1>1, <2>1, <2>4, SetChild
  <2>6. w \in Writers => h = "wait"
    BY ChildrenFacts
  <2>7. KidGoesOn(c, k)
    BY <2>2, <2>4 DEF KidGoesOn
  <2> HIDE DEF h
  <2> QED BY <1>1, <1>2, <1>3, <2>2, <2>3, <2>4, <2>5, <2>6, <2>7 DEF KidMoves, Complete
<1>6. ASSUME AwaitProcess(w) PROVE KidMoves(w)
  <2>1. c.thread = "wait" /\ c.held = <<>>
    BY <1>2, <1>6 DEF AwaitProcess
  <2>2. CASE child' = [child EXCEPT ![w] = Died(@)] /\ UNCHANGED disk
    <3> DEFINE k == Died(c)
    <3>1. /\ k \in Kids /\ k.thread = "done" /\ k.failed = TRUE /\ k.cancel = c.cancel /\ k.held = c.held
      BY <1>1, DiedFacts
    <3>2. child' = [child EXCEPT ![w] = k]
      BY <2>2
    <3> HIDE DEF k
    <3>3. child' \in [Children' -> Kids] /\ child'[w] = k /\ \A v \in Children : v # w => child'[v] = child[v]
      BY <1>1, <3>1, <3>2, SetChild
    <3> QED BY <1>1, <1>3, <2>1, <2>2, <3>1, <3>3 DEF KidMoves, KidGoesOn, Complete
  <2>3. CASE /\ child' = [child EXCEPT ![w].thread = "done", ![w].process = "ended"]
             /\ disk' = [disk EXCEPT !.durable = @ \cup {w}]
    <3> DEFINE k == [[c EXCEPT !.thread = "done"] EXCEPT !.process = "ended"]
               d == disk.durable \cup {w}
    <3>1. k \in Kids /\ k.cancel = c.cancel /\ k.failed = c.failed /\ k.written = c.written
          /\ k.held = c.held /\ k.queue = c.queue /\ k.process = "ended"
      BY <1>1 DEF Kids, EdgeThreads, EdgeProcesses
    <3>2. child' = [child EXCEPT ![w] = k]
      BY <1>1, <2>3
    <3>3. Entries(k) = Entries(c)
      BY <3>1 DEF Entries
    <3> HIDE DEF k
    <3>4. child' \in [Children' -> Kids] /\ child'[w] = k /\ \A v \in Children : v # w => child'[v] = child[v]
      BY <1>1, <3>1, <3>2, SetChild
    <3>5. d \subseteq Sides \cup {"stereo", "rgb", "stm32", "index"}
      BY <1>1, EdgeFacts, ChildrenFacts
    <3>6. disk' = [disk EXCEPT !.durable = d]
      BY <2>3
    <3>7. w \in d /\ disk.durable \subseteq d
      OBVIOUS
    <3> HIDE DEF d
    <3>8. disk' \in Disks /\ disk'.durable = d
          /\ disk'.name = disk.name /\ disk'.marker = disk.marker /\ disk'.manifest = disk.manifest
          /\ disk'.failure = disk.failure /\ disk'.unsynced = disk.unsynced
      BY <1>1, <3>5, <3>6 DEF Disks
    <3>9. disk.durable \subseteq disk'.durable /\ w \in disk'.durable
      BY <3>7, <3>8
    <3> QED BY <1>1, <2>1, <3>1, <3>3, <3>4, <3>8, <3>9 DEF KidMoves, KidGoesOn, Complete
  <2> QED BY <1>6, <2>2, <2>3 DEF AwaitProcess
<1>7. ASSUME ProcessFails(w) PROVE KidMoves(w)
  <2>1. PICK p \in {"crashed", "hung"} : child' = [child EXCEPT ![w].process = p]
    BY <1>7 DEF ProcessFails
  <2> DEFINE k == [c EXCEPT !.process = p]
  <2>2. k \in Kids /\ k.cancel = c.cancel /\ k.failed = c.failed /\ k.written = c.written /\ k.thread = c.thread
        /\ k.held = c.held /\ k.queue = c.queue
    BY <1>1 DEF Kids, EdgeProcesses
  <2>3. child' = [child EXCEPT ![w] = k] /\ UNCHANGED disk /\ c.process = "run"
    BY <1>1, <1>7, <2>1 DEF ProcessFails
  <2>4. Entries(k) = Entries(c)
    BY <2>2 DEF Entries
  <2> HIDE DEF k
  <2>5. child' \in [Children' -> Kids] /\ child'[w] = k /\ \A v \in Children : v # w => child'[v] = child[v]
    BY <1>1, <2>2, <2>3, SetChild
  <2>6. w \in Writers => ~(c.thread = "done" /\ c.failed = FALSE)
    BY <1>2, <2>3 DEF Complete
  <2> QED BY <1>1, <1>2, <1>3, <2>2, <2>3, <2>4, <2>5, <2>6 DEF KidMoves, KidGoesOn, Complete
<1>8. ASSUME w = "rgb", RgbEnds PROVE KidMoves(w)
  <2> DEFINE k == [c EXCEPT !.process = "ended"]
  <2>1. child' = [child EXCEPT ![w] = k] /\ UNCHANGED disk /\ c.process = "run"
    BY <1>1, <1>8 DEF RgbEnds
  <2>2. k \in Kids /\ k.cancel = c.cancel /\ k.failed = c.failed /\ k.written = c.written /\ k.thread = c.thread
        /\ k.held = c.held /\ k.queue = c.queue
    BY <1>1 DEF Kids, EdgeProcesses
  <2>3. Entries(k) = Entries(c)
    BY <2>2 DEF Entries
  <2> HIDE DEF k
  <2>4. child' \in [Children' -> Kids] /\ child'[w] = k /\ \A v \in Children : v # w => child'[v] = child[v]
    BY <1>1, <2>1, <2>2, SetChild
  <2>5. w \notin Writers
    BY <1>8, ChildrenFacts
  <2> QED BY <1>1, <1>2, <1>3, <2>1, <2>2, <2>3, <2>4, <2>5 DEF KidMoves, KidGoesOn, Complete
<1> QED BY <1>4, <1>5, <1>6, <1>7, <1>8 DEF KidSteps

\* Something beyond a bound is not within it.
LEMMA Beyond ==
    ASSUME NEW a \in Nat, NEW b \in Nat \ {0}, NEW c \in Nat, c <= a
    PROVE  a + b # c
OBVIOUS

\* A sentinel that is taken leaves the entries those of the rows.
LEMMA SentinelTaken ==
    ASSUME NEW W \in Seq(Int), NEW H \in Seq(Int), NEW Q \in Seq(Int), Q # <<>>, Head(Q) = Sentinel,
           NEW rows \in Seq(Int), \A i \in DOMAIN rows : rows[i] # Sentinel,
           Follows((W \o H) \o Q, rows, 0)
    PROVE  Follows((W \o H) \o Tail(Q), rows, 0) /\ Len((W \o H) \o Q) # Len(rows)
<1> DEFINE T == Tail(Q)
           e == (W \o H) \o Q
           d == (W \o H) \o T
           n == Len(W) + Len(H)
<1>1. /\ Len(Q) \in Nat \ {0} /\ Head(Q) = Q[1]
      /\ T \in Seq(Int) /\ Len(T) = Len(Q) - 1
      /\ \A i \in 1 .. Len(T) : T[i] = Q[i + 1]
  BY HeadTailProperties, EmptySeq, LenProperties
<1>2. Joined(W, H, Q, e)
  BY Parts
<1>3. Joined(W, H, T, d)
  BY <1>1, Parts
<1>4. Follows(e, rows, 0) /\ Head(Q) = Sentinel /\ \A i \in DOMAIN rows : rows[i] # Sentinel
  OBVIOUS
<1> HIDE DEF T, e, d
<1>5. /\ DOMAIN e = 1 .. Len(e) /\ DOMAIN d = 1 .. Len(d) /\ DOMAIN rows = 1 .. Len(rows) /\ Len(rows) \in Nat
      /\ Len(e) = n + Len(Q) /\ Len(d) = n + Len(T) /\ n \in Nat
  BY <1>2, <1>3, LenProperties DEF Joined
<1>6. e[n + 1] = Sentinel
  BY SMTT(30), <1>1, <1>2, <1>4 DEF Joined
<1>7. Len(rows) <= n
  <2>1. ~(n + 1 \in DOMAIN rows)
    BY <1>4, <1>6 DEF Follows
  <2> QED BY <1>5, <2>1
<1>8. \A i \in 1 .. n : d[i] = e[i]
  <2> TAKE i \in 1 .. n
  <2>1. CASE i \in 1 .. Len(W)
    BY <1>2, <1>3, <2>1 DEF Joined
  <2>2. CASE i \notin 1 .. Len(W)
    <3>1. PICK j \in 1 .. Len(H) : i = Len(W) + j
      <4>1. Len(W) \in Nat /\ Len(H) \in Nat
        BY LenProperties
      <4>2. i - Len(W) \in 1 .. Len(H) /\ i = Len(W) + (i - Len(W))
        BY <2>2, <4>1
      <4> QED BY <4>2
    <3>2. d[Len(W) + j] = H[j] /\ e[Len(W) + j] = H[j]
      BY <1>2, <1>3 DEF Joined
    <3> QED BY <3>1, <3>2
  <2> QED BY <2>1, <2>2
<1>9. \A i \in n + 1 .. Len(d) : d[i] = e[i + 1]
  <2> TAKE i \in n + 1 .. Len(d)
  <2>1. PICK j \in 1 .. Len(T) : i = n + j
    <3>1. i - n \in 1 .. Len(T) /\ i = n + (i - n)
      <4>1. Len(d) = n + Len(T) /\ n \in Nat /\ Len(T) \in Nat
        BY <1>1, <1>5, LenProperties
      <4> HIDE DEF n
      <4> QED BY <4>1
    <3> QED BY <3>1
  <2>2. j + 1 \in 1 .. Len(Q)
    BY <1>1
  <2>3. d[n + j] = T[j] /\ e[n + (j + 1)] = Q[j + 1]
    BY <1>2, <1>3, <2>2 DEF Joined
  <2>4. n + (j + 1) = i + 1
    <3> HIDE DEF n
    <3> QED BY <1>5, <2>1
  <2> QED BY <1>1, <2>1, <2>3, <2>4
<1>10. Len(rows) <= Len(d)
  BY <1>1, <1>5, <1>7
<1>11. \A i \in DOMAIN rows : d[i] = rows[i]
  BY <1>4, <1>5, <1>7, <1>8 DEF Follows
<1>12. \A i \in DOMAIN d : i > Len(rows) + 0 => d[i] = Sentinel
  <2> SUFFICES ASSUME NEW i \in 1 .. Len(d), i > Len(rows)
               PROVE  d[i] = Sentinel
    BY <1>5
  <2>1. CASE i <= n
    <3>1. i \in 1 .. n /\ i \in DOMAIN e /\ i > Len(rows) + 0
      <4> HIDE DEF n
      <4> QED BY <1>1, <1>5, <2>1
    <3>2. e[i] = Sentinel
      BY <1>4, <3>1 DEF Follows
    <3> QED BY <1>8, <3>1, <3>2
  <2>2. CASE i > n
    <3>1. i \in n + 1 .. Len(d) /\ i + 1 \in DOMAIN e /\ i + 1 > Len(rows) + 0
      BY <1>1, <1>5, <2>2
    <3> QED BY <1>4, <1>9, <3>1 DEF Follows
  <2> QED BY <2>1, <2>2, <1>5
<1>13. Len(e) # Len(rows)
  <2>1. n \in Nat /\ Len(Q) \in Nat \ {0} /\ Len(rows) \in Nat /\ Len(rows) <= n
    BY <1>1, <1>5, <1>7
  <2>2. Len(e) = n + Len(Q)
    BY <1>5
  <2> HIDE DEF n
  <2> QED BY <2>1, <2>2, Beyond
<1>14. Follows(d, rows, 0)
  BY <1>10, <1>11, <1>12 DEF Follows
<1> QED BY <1>13, <1>14 DEF T, e, d

\* A child that goes on keeps the entries it has rows for.
LEMMA GoesOnFollows ==
    ASSUME NEW c \in Kids, NEW k \in Kids, KidGoesOn(c, k), k.failed = FALSE,
           NEW rows \in Seq(Int), \A i \in DOMAIN rows : rows[i] # Sentinel,
           Follows(Entries(c), rows, 0)
    PROVE  /\ c.failed = FALSE /\ Follows(Entries(k), rows, 0)
           /\ Len(Entries(c)) = Len(rows) => Len(Entries(k)) = Len(rows)
<1>1. CASE k.failed = c.failed /\ Entries(k) = Entries(c)
  BY <1>1
<1>2. CASE /\ k.failed = c.failed /\ k.written = c.written /\ k.held = c.held
           /\ c.queue # <<>> /\ Head(c.queue) = Sentinel /\ k.queue = Tail(c.queue)
  <2> DEFINE W == c.written
             H == c.held
             Q == c.queue
  <2>1. W \in Seq(Int) /\ H \in Seq(Int) /\ Q \in Seq(Int) /\ Q # <<>> /\ Head(Q) = Sentinel
        /\ Entries(c) = (W \o H) \o Q /\ Entries(k) = (W \o H) \o Tail(Q)
    BY <1>2, KidFacts DEF Entries
  <2> HIDE DEF W, H, Q
  <2>2. Follows((W \o H) \o Q, rows, 0)
    BY <2>1
  <2>3. Follows((W \o H) \o Tail(Q), rows, 0) /\ Len((W \o H) \o Q) # Len(rows)
    BY <2>1, <2>2, SentinelTaken
  <2> QED BY <1>2, <2>1, <2>3
<1> QED BY <1>1, <1>2 DEF KidGoesOn

\* The frames that came, their rows and the target.
LEMMA StreamFacts ==
    ASSUME StreamTypes
    PROVE  /\ irRows \in Seq(Int) /\ target \in Nat /\ pending \subseteq Int \X Sides
           /\ seen \in [Streams -> Seq(Int)] /\ next \in [Streams -> Int]
           /\ \A s \in Streams : /\ seen[s] \in Seq(Int) /\ next[s] \in Int
                                 /\ Len(seen[s]) \in Nat /\ DOMAIN seen[s] = 1 .. Len(seen[s])
                                 /\ \A i \in DOMAIN seen[s] : seen[s][i] \in Int
           /\ Len(irRows) \in Nat /\ DOMAIN irRows = 1 .. Len(irRows)
           /\ \A k \in DOMAIN irRows : irRows[k] \in Int
<1>1. /\ irRows \in Seq(Int) /\ target \in Nat /\ pending \subseteq Int \X Sides
      /\ seen \in [Streams -> Seq(Int)] /\ next \in [Streams -> Int]
      /\ \A s \in Streams : seen[s] \in Seq(Int) /\ next[s] \in Int
  BY DEF StreamTypes
<1>2. \A s \in Streams : /\ Len(seen[s]) \in Nat /\ DOMAIN seen[s] = 1 .. Len(seen[s])
                         /\ \A i \in DOMAIN seen[s] : seen[s][i] \in Int
  BY <1>1, LenProperties, ElementOfSeq
<1>3. /\ Len(irRows) \in Nat /\ DOMAIN irRows = 1 .. Len(irRows)
      /\ \A k \in DOMAIN irRows : irRows[k] \in Int
  BY <1>1, LenProperties, ElementOfSeq
<1> QED BY <1>1, <1>2, <1>3

\* A frame is never taken for a sentinel.
LEMMA FramesAreNoSentinels ==
    ASSUME StreamTypes, Pairing
    PROVE  /\ \A k \in DOMAIN irRows : irRows[k] # Sentinel
           /\ \A k \in DOMAIN seen["color"] : seen["color"][k] # Sentinel
<1>1. \A s \in Streams : \A i \in DOMAIN seen[s] : seen[s][i] # Sentinel
  BY StreamFacts DEF Pairing, Ascending, Sentinel
<1>2. ASSUME NEW k \in DOMAIN irRows PROVE irRows[k] # Sentinel
  <2>1. PICK i \in DOMAIN seen["left"] : seen["left"][i] = irRows[k]
    BY <1>2 DEF Pairing, Sides, Occurs
  <2> QED BY <1>1, <2>1 DEF Streams, Sides
<1> QED BY <1>1, <1>2 DEF Streams

\* The steps of the children keep the invariant.
LEMMA ThreadsKeep ==
    ASSUME EdgeInv, NEW w \in Children, KidSteps(w)
    PROVE  EdgeInv'
<1>0. /\ EdgeTypes /\ EdgeStages /\ ChildStages /\ DiskStages /\ StreamTypes /\ RowsOfWriters /\ FramesOfColor
      /\ Pairing /\ TargetStages /\ EdgeVerdict
  BY DEF EdgeInv, EdgeControl, EdgeFlow
<1>1. KidMoves(w)
  BY <1>0, ThreadMoves
<1>2. /\ mode' = mode /\ main' = main /\ signals' = signals /\ serial' = serial
      /\ next' = next /\ seen' = seen /\ target' = target /\ pending' = pending /\ irRows' = irRows
      /\ evidence' = evidence /\ Writers' = Writers /\ Children' = Children
  BY <1>1, ChildrenFacts DEF KidMoves, streams
<1>3. /\ child' \in [Children -> Kids] /\ \A v \in Children : v # w => child'[v] = child[v]
      /\ ~Complete(w) /\ main.error = None /\ main.at # "end"
      /\ child'[w].cancel = child[w].cancel
      /\ child'[w].thread # "write" => child'[w].held = <<>>
  BY <1>1, <1>2 DEF KidMoves
<1>4. EdgeTypes'
  BY <1>0, <1>1, <1>2, <1>3 DEF EdgeTypes, KidMoves
<1>5. EdgeStages'
  BY <1>0, <1>2 DEF EdgeStages
<1>6. DiskStages'
  <2>1. /\ disk.durable \subseteq disk'.durable
        /\ disk'.name = disk.name /\ disk'.marker = disk.marker /\ disk'.manifest = disk.manifest
        /\ disk'.failure = disk.failure /\ disk'.unsynced = disk.unsynced
    BY <1>1 DEF KidMoves
  <2> QED BY <1>0, <1>2, <2>1 DEF DiskStages, Settled, Lasting, Sealed
<1>7. ChildStages'
  <2>1. \A v \in Writers : child'[v].thread = "done" /\ ~child'[v].failed => Complete(v)' /\ v \in disk'.durable
    <3> TAKE v \in Writers
    <3>1. child'[v].failed \in BOOLEAN /\ v \in Children
      BY <1>3, ChildrenFacts, KidFacts
    <3>2. CASE v = w
      BY <1>1, <3>1, <3>2 DEF KidMoves, Complete
    <3>3. CASE v # w
      BY <1>0, <1>1, <1>3, <3>1, <3>3 DEF ChildStages, KidMoves, Complete
    <3> QED BY <3>2, <3>3
  <2>2. \A v \in Children : Complete(v) => Complete(v)'
    BY <1>3 DEF Complete
  <2>3. "rgb" \in Children /\ Writers \subseteq Children
    BY ChildrenFacts
  <2>4. main.at = "rgb.wait" => child'["rgb"].thread = "done"
    BY <1>0, <1>1, <1>3, <2>3 DEF ChildStages, KidMoves
  <2>5. main.at \in RightFinish => "left" \in Children
    BY <1>0, ChildrenFacts DEF EdgeStages, Writers, Sides
  <2>6. \A v \in Children : child'[v].cancel => main.error # None
    BY <1>0, <1>3 DEF ChildStages
  <2>7. \A v \in Children : child'[v].thread # "write" => child'[v].held = <<>>
    BY <1>0, <1>3 DEF ChildStages
  <2>8. \A v \in Children : child[v].thread = "new" => child'[v].thread = "new"
    BY <1>1, <1>3 DEF KidMoves
  <2> QED BY <1>0, <1>2, <2>1, <2>2, <2>3, <2>4, <2>5, <2>6, <2>7, <2>8 DEF ChildStages
<1>8. EdgeFlow'
  <2>1. child[w] \in Kids /\ child'[w] \in Kids /\ KidGoesOn(child[w], child'[w])
    BY <1>0, <1>1, <1>3 DEF EdgeTypes, KidMoves
  <2>2. irRows \in Seq(Int) /\ seen["color"] \in Seq(Int)
    BY <1>0, StreamFacts DEF Streams
  <2>3. RowsOfWriters'
    <3>1. ASSUME NEW v \in Writers, child'[v].failed = FALSE, child'[v].cancel = FALSE
          PROVE  Follows(Entries(child'[v]), irRows, 0)
                 /\ (main.at \in Filling => Len(Entries(child'[v])) = Len(irRows))
      <4>1. v \in Children
        BY ChildrenFacts
      <4>2. CASE v = w
        <5> DEFINE c == child[w]
                   k == child'[w]
        <5>1. c.failed \in BOOLEAN /\ c.cancel \in BOOLEAN /\ c.cancel = FALSE /\ k.failed = FALSE
          BY <1>3, <2>1, <3>1, <4>2, KidFacts
        <5>2. KidGoesOn(c, k) /\ c \in Kids /\ k \in Kids
          BY <2>1
        <5>3. c.failed = FALSE
          BY <5>1, <5>2 DEF KidGoesOn
        <5>4. Follows(Entries(c), irRows, 0) /\ (main.at \in Filling => Len(Entries(c)) = Len(irRows))
          BY <1>0, <1>3, <3>1, <4>2, <5>1, <5>3 DEF RowsOfWriters
        <5> HIDE DEF c, k
        <5>5. Follows(Entries(k), irRows, 0) /\ (Len(Entries(c)) = Len(irRows) => Len(Entries(k)) = Len(irRows))
          BY <1>0, <2>2, <5>1, <5>2, <5>4, GoesOnFollows, FramesAreNoSentinels
        <5> QED BY <4>2, <5>4, <5>5 DEF k
      <4>3. CASE v # w
        <5>1. child'[v] = child[v]
          BY <1>3, <4>1, <4>3
        <5>2. Follows(Entries(child[v]), irRows, 0) /\ (main.at \in Filling => Len(Entries(child[v])) = Len(irRows))
          BY <1>0, <1>3, <3>1, <5>1 DEF RowsOfWriters
        <5> QED BY <5>1, <5>2
      <4> QED BY <4>2, <4>3
    <3>2. \A v \in Writers : child'[v].failed \in BOOLEAN /\ child'[v].cancel \in BOOLEAN
      BY <1>3, ChildrenFacts, KidFacts
    <3> QED BY <1>2, <1>3, <3>1, <3>2 DEF RowsOfWriters
  <2>4. FramesOfColor'
    <3>1. SUFFICES ASSUME child'["rgb"].failed = FALSE
                   PROVE  Follows(Entries(child'["rgb"]), seen["color"], 0)
                          /\ (main.at \in Filling => Len(Entries(child'["rgb"])) = Len(seen["color"]))
      <4>1. child'["rgb"].failed \in BOOLEAN
        BY <1>3, ChildrenFacts, KidFacts
      <4> QED BY <1>2, <4>1 DEF FramesOfColor
    <3>2. CASE w = "rgb"
      <4> DEFINE c == child[w]
                 k == child'[w]
                 rows == seen["color"]
      <4>1. KidGoesOn(c, k) /\ c \in Kids /\ k \in Kids /\ k.failed = FALSE
        BY <2>1, <3>1, <3>2
      <4>2. c.failed = FALSE
        BY <4>1, KidFacts DEF KidGoesOn
      <4>3. Follows(Entries(c), rows, 0) /\ (main.at \in Filling => Len(Entries(c)) = Len(rows))
        BY <1>0, <1>3, <3>2, <4>2 DEF FramesOfColor
      <4>4. \A k_1 \in DOMAIN rows : rows[k_1] # Sentinel
        BY <1>0, FramesAreNoSentinels
      <4>5. rows \in Seq(Int)
        BY <2>2
      <4> HIDE DEF c, k, rows
      <4>6. Follows(Entries(k), rows, 0) /\ (Len(Entries(c)) = Len(rows) => Len(Entries(k)) = Len(rows))
        BY <4>1, <4>3, <4>4, <4>5, GoesOnFollows
      <4> QED BY <3>2, <4>3, <4>6 DEF k, rows
    <3>3. CASE w # "rgb"
      <4>1. child'["rgb"] = child["rgb"]
        BY <1>3, <3>3, ChildrenFacts
      <4>2. Follows(Entries(child["rgb"]), seen["color"], 0)
            /\ (main.at \in Filling => Len(Entries(child["rgb"])) = Len(seen["color"]))
        BY <1>0, <1>3, <3>1, <4>1 DEF FramesOfColor
      <4> QED BY <4>1, <4>2
    <3> QED BY <3>2, <3>3
  <2> QED BY <2>3, <2>4 DEF EdgeFlow
<1>9. StreamTypes' /\ Pairing' /\ TargetStages'
  BY <1>0, <1>2 DEF StreamTypes, Pairing, TargetStages, Ascending, Occurs, RowsApart
<1>10. EdgeVerdict'
  <2>1. ~(main.at \in Sealing \cup Publishing \/ disk.name = "final")
    BY <1>0, <1>3 DEF EdgeVerdict, Judged
  <2> QED BY <1>1, <1>2, <2>1 DEF EdgeVerdict, KidMoves
<1> QED BY <1>4, <1>5, <1>6, <1>7, <1>8, <1>9, <1>10 DEF EdgeInv, EdgeControl

-----------------------------------------------------------------------------
(* The steps of main that leave children and directory alone.               *)

\* Where main goes, raises and leaves to.
LEMMA MainFacts ==
    ASSUME main \in Mains
    PROVE  /\ \A p \in EdgeSteps :
                Go(p) => /\ main' \in Mains /\ main'.at = p /\ main'.error = main.error
                         /\ main'.started = main.started /\ main'.publish = main.publish
           /\ \A e \in EdgeErrors :
                Raise(e) => /\ main' \in Mains /\ main'.at = "sensor.cleanup" /\ main'.error = e
                            /\ main'.started = main.started /\ main'.publish = main.publish
           /\ \A e \in EdgeErrors, q \in {"no", "cut", "returned"} :
                Leave(e, q) => /\ main' \in Mains /\ main'.at = "end" /\ main'.error = e
                               /\ main'.started = main.started /\ main'.publish = q
           /\ \A e \in EdgeErrors :
                ToRollback(e) => /\ main' \in Mains /\ main'.at = "undo.mark" /\ main'.error = e
                                 /\ main'.started = main.started /\ main'.publish = main.publish
           /\ CutRollback => /\ main' \in Mains /\ main'.at = "sensor.cleanup" /\ main'.error = main.error
                             /\ main'.started = main.started /\ main'.publish = "cut"
<1>0. "sensor.cleanup" \in EdgeSteps /\ "end" \in EdgeSteps /\ "undo.mark" \in EdgeSteps
      /\ "cut" \in {"no", "cut", "returned"}
  BY DEF EdgeSteps, CleaningUp, Undoing
<1>1. \A p \in EdgeSteps :
        Go(p) => /\ main' \in Mains /\ main'.at = p /\ main'.error = main.error
                 /\ main'.started = main.started /\ main'.publish = main.publish
  BY DEF Go, Mains
<1>2. ASSUME NEW e \in EdgeErrors, Raise(e)
      PROVE  /\ main' \in Mains /\ main'.at = "sensor.cleanup" /\ main'.error = e
             /\ main'.started = main.started /\ main'.publish = main.publish
  <2>1. main' = [[main EXCEPT !.at = "sensor.cleanup"] EXCEPT !.error = e]
    BY <1>2 DEF Raise, Mains
  <2> QED BY <1>0, <2>1 DEF Mains
<1>3. ASSUME NEW e \in EdgeErrors, NEW q \in {"no", "cut", "returned"}, Leave(e, q)
      PROVE  /\ main' \in Mains /\ main'.at = "end" /\ main'.error = e
             /\ main'.started = main.started /\ main'.publish = q
  <2>1. main' = [[[main EXCEPT !.at = "end"] EXCEPT !.error = e] EXCEPT !.publish = q]
    BY <1>3 DEF Leave, Mains
  <2> QED BY <1>0, <2>1 DEF Mains
<1>4. ASSUME NEW e \in EdgeErrors, ToRollback(e)
      PROVE  /\ main' \in Mains /\ main'.at = "undo.mark" /\ main'.error = e
             /\ main'.started = main.started /\ main'.publish = main.publish
  <2>1. main' = [[main EXCEPT !.at = "undo.mark"] EXCEPT !.error = e]
    BY <1>4 DEF ToRollback, Mains
  <2> QED BY <1>0, <2>1 DEF Mains
<1>5. ASSUME CutRollback
      PROVE  /\ main' \in Mains /\ main'.at = "sensor.cleanup" /\ main'.error = main.error
             /\ main'.started = main.started /\ main'.publish = "cut"
  <2>1. main' = [[main EXCEPT !.at = "sensor.cleanup"] EXCEPT !.publish = "cut"]
    BY <1>5 DEF CutRollback, Mains
  <2> QED BY <1>0, <2>1 DEF Mains
<1> QED BY <1>1, <1>2, <1>3, <1>4, <1>5

\* Main passes on; raises; leaves.
Passes(p, q) ==
    /\ main.at = p /\ main'.at = q /\ main'.error = main.error
    /\ main'.started = main.started /\ main'.publish = main.publish
Raises(steps) ==
    /\ main.at \in steps /\ main'.at = "sensor.cleanup" /\ main'.error \in {"fail", "abort"}
    /\ main'.started = main.started /\ main'.publish = main.publish
Leaves(steps) ==
    /\ main.at \in steps /\ main'.at = "end" /\ main'.error \in {"fail", "abort"}
    /\ main'.started = main.started /\ main'.publish = main.publish

JudgedWell ==
    LET n == Received("color")
    IN  Continuous(n) /\ Paired(n) /\ AllWritten(n) /\ serial = "gapless"

EdgeIdleSteps ==
    \/ /\ \/ Preflight \/ StartSerial \/ StartSensor \/ LoopIdle \/ StopSensor
          \/ Judge \/ Finalize \/ Return \/ CleanUpSensor
       /\ UNCHANGED <<mode, signals>>
    \/ SecondSignal /\ main.at # "children.cleanup"

EdgeIdleMoves ==
    \/ Passes("preflight", "prepare") \/ Passes("serial.start", "ir.start") \/ Passes("sensor.start", "warmup")
    \/ Passes("loop.wait", "loop.top") \/ Passes("sensor.stop", "rgb.put")
    \/ Passes("judge", "finalize") /\ JudgedWell
    \/ Passes("finalize", "manifest") \/ Passes("sensor.cleanup", "children.cleanup")
    \/ Raises(Recording \cup Sealing \cup {"publish.root"})
    \/ Leaves({"preflight", "prepare", "sensor.cleanup", "failure"})
    \/ /\ main.at = "return" /\ main'.at = "end"
       /\ main'.started = main.started /\ main'.publish = "returned"
    \/ /\ main.at \in Published /\ main'.at = "undo.mark" /\ main'.error = "abort"
       /\ main'.started = main.started /\ main'.publish = main.publish
    \/ /\ main.at \in Undoing /\ main'.at = "sensor.cleanup" /\ main'.error = main.error
       /\ main'.started = main.started /\ main'.publish = "cut"

\* Where these steps lead main.
LEMMA EdgeIdleStepMoves ==
    ASSUME EdgeInv, EdgeIdleSteps
    PROVE  /\ mode' = mode /\ UNCHANGED <<streams, serial, child, disk>>
           /\ signals' \in {0, 1, 2} /\ main' \in Mains /\ EdgeIdleMoves
<1> DEFINE Goal == /\ mode' = mode /\ UNCHANGED <<streams, serial, child, disk>>
                   /\ signals' \in {0, 1, 2} /\ main' \in Mains /\ EdgeIdleMoves
<1>0. main \in Mains /\ EdgeStages /\ signals \in {0, 1, 2} /\ main.at \in EdgeSteps /\ main.publish \in {"no", "cut", "returned"}
  BY EdgeFacts DEF EdgeInv, EdgeControl, EdgeTypes
<1>a. /\ \A p \in EdgeSteps :
           Go(p) => /\ main' \in Mains /\ main'.at = p /\ main'.error = main.error
                    /\ main'.started = main.started /\ main'.publish = main.publish
      /\ \A e \in EdgeErrors :
           Raise(e) => /\ main' \in Mains /\ main'.at = "sensor.cleanup" /\ main'.error = e
                       /\ main'.started = main.started /\ main'.publish = main.publish
      /\ \A e \in EdgeErrors, q \in {"no", "cut", "returned"} :
           Leave(e, q) => /\ main' \in Mains /\ main'.at = "end" /\ main'.error = e
                          /\ main'.started = main.started /\ main'.publish = q
      /\ \A e \in EdgeErrors :
           ToRollback(e) => /\ main' \in Mains /\ main'.at = "undo.mark" /\ main'.error = e
                            /\ main'.started = main.started /\ main'.publish = main.publish
      /\ CutRollback => /\ main' \in Mains /\ main'.at = "sensor.cleanup" /\ main'.error = main.error
                        /\ main'.started = main.started /\ main'.publish = "cut"
  BY <1>0, MainFacts
<1>b. "fail" \in EdgeErrors /\ "abort" \in EdgeErrors /\ None \in EdgeErrors
  BY DEF EdgeErrors
<1> USE DEF EdgeSteps, EdgeWorking, Recording, Starting, Looping, Stopping, Finishing, ColorFinish, LeftFinish,
            RightFinish, StereoFinish, Judging, Sealing, Publishing, Published, CleaningUp, Undoing, data, Passes, Raises,
            Leaves
<1>1. ASSUME Preflight, UNCHANGED <<mode, signals>> PROVE Goal
  BY <1>0, <1>a, <1>b, <1>1 DEF Preflight, EdgeIdleMoves, EdgeStages
<1>2. ASSUME StartSerial, UNCHANGED <<mode, signals>> PROVE Goal
  BY <1>0, <1>a, <1>b, <1>2 DEF StartSerial, Call, EdgeIdleMoves
<1>3. ASSUME StartSensor, UNCHANGED <<mode, signals>> PROVE Goal
  BY <1>0, <1>a, <1>b, <1>3 DEF StartSensor, Call, EdgeIdleMoves
<1>4. ASSUME LoopIdle, UNCHANGED <<mode, signals>> PROVE Goal
  BY <1>0, <1>a, <1>b, <1>4 DEF LoopIdle, EdgeIdleMoves
<1>5. ASSUME StopSensor, UNCHANGED <<mode, signals>> PROVE Goal
  BY <1>0, <1>a, <1>b, <1>5 DEF StopSensor, Call, EdgeIdleMoves
<1>6. ASSUME Judge, UNCHANGED <<mode, signals>> PROVE Goal
  BY <1>0, <1>a, <1>b, <1>6 DEF Judge, JudgedWell, EdgeIdleMoves
<1>7. ASSUME Finalize, UNCHANGED <<mode, signals>> PROVE Goal
  BY <1>0, <1>a, <1>b, <1>7 DEF Finalize, Call, EdgeIdleMoves
<1>8. ASSUME Return, UNCHANGED <<mode, signals>> PROVE Goal
  BY <1>0, <1>a, <1>b, <1>8 DEF Return, EdgeIdleMoves
<1>9. ASSUME CleanUpSensor, UNCHANGED <<mode, signals>> PROVE Goal
  BY <1>0, <1>a, <1>b, <1>9 DEF CleanUpSensor, EdgeIdleMoves
<1>10. ASSUME SecondSignal, main.at # "children.cleanup" PROVE Goal
  <2>1. mode' = mode /\ UNCHANGED <<streams, serial, child, disk>> /\ signals' = 2
    BY <1>10 DEF SecondSignal
  <2>2. CASE main.at \in Published
    BY <1>0, <1>a, <1>b, <1>10, <2>1, <2>2 DEF SecondSignal, EdgeIdleMoves
  <2>3. CASE main.at \in Undoing
    BY <1>0, <1>a, <1>b, <1>10, <2>1, <2>3 DEF SecondSignal, EdgeIdleMoves
  <2>4. CASE main.at = "sensor.cleanup"
    BY <1>0, <1>a, <1>b, <1>10, <2>1, <2>4 DEF SecondSignal, EdgeIdleMoves
  <2>5. CASE main.at = "failure"
    BY <1>0, <1>a, <1>b, <1>10, <2>1, <2>5 DEF SecondSignal, EdgeIdleMoves
  <2>6. CASE main.at = "return"
    BY <1>0, <1>a, <1>b, <1>10, <2>1, <2>6 DEF SecondSignal, EdgeIdleMoves
  <2>7. CASE main.at \in {"preflight", "prepare"}
    BY <1>0, <1>a, <1>b, <1>10, <2>1, <2>7 DEF SecondSignal, EdgeIdleMoves, EdgeStages
  <2>8. CASE main.at \in Recording \cup Sealing
    BY <1>0, <1>a, <1>b, <1>10, <2>1, <2>8 DEF SecondSignal, EdgeIdleMoves
  <2>9. main.at # "end"
    BY <1>10 DEF SecondSignal
  <2> QED BY <1>0, <1>10, <2>2, <2>3, <2>4, <2>5, <2>6, <2>7, <2>8, <2>9
<1> QED BY <1>1, <1>2, <1>3, <1>4, <1>5, <1>6, <1>7, <1>8, <1>9, <1>10 DEF EdgeIdleSteps

\* Rows that are followed are so with an entry to spare.
LEMMA FollowsSpare ==
    ASSUME NEW e \in Seq(Int), NEW rows \in Seq(Int), Follows(e, rows, 0)
    PROVE  Follows(e, rows, 1)
BY LenProperties DEF Follows

\* The entries of a child are numbers.
LEMMA EntriesFacts ==
    ASSUME NEW c \in Kids
    PROVE  Entries(c) \in Seq(Int)
BY KidFacts, ConcatProperties DEF Entries

\* What keeps the children's entries keeps what is known of them.
LEMMA EntriesFlow ==
    ASSUME RowsOfWriters, FramesOfColor, child \in [Children -> Kids], child' \in [Children -> Kids], irRows \in Seq(Int),
           mode' = mode, irRows' = irRows, seen'["color"] = seen["color"],
           \A v \in Writers : child'[v].failed = FALSE /\ child'[v].cancel = FALSE =>
                child[v].failed = FALSE /\ child[v].cancel = FALSE /\ Entries(child'[v]) = Entries(child[v]),
           main'.error = None /\ child'["rgb"].failed = FALSE =>
                child["rgb"].failed = FALSE /\ Entries(child'["rgb"]) = Entries(child["rgb"]),
           main'.at \in Filling => main.at \in Filling, main'.error = None => main.error = None
    PROVE  EdgeFlow'
<1>1. Writers' = Writers /\ Writers \subseteq Children /\ "rgb" \in Children
  BY ChildrenFacts
<1>2. ASSUME NEW v \in Writers, child'[v].failed = FALSE, child'[v].cancel = FALSE
      PROVE  /\ Follows(Entries(child'[v]), irRows, IF main'.error = None THEN 0 ELSE 1)
             /\ main'.at \in Filling => Len(Entries(child'[v])) = Len(irRows)
  <2>1. /\ Follows(Entries(child[v]), irRows, IF main.error = None THEN 0 ELSE 1)
        /\ main.at \in Filling => Len(Entries(child[v])) = Len(irRows)
        /\ Entries(child'[v]) = Entries(child[v])
    BY <1>2 DEF RowsOfWriters
  <2>2. Entries(child[v]) \in Seq(Int)
    BY <1>1, EntriesFacts
  <2>3. Follows(Entries(child[v]), irRows, 0) => Follows(Entries(child[v]), irRows, 1)
    BY <2>2, FollowsSpare
  <2> QED BY <2>1, <2>3
<1>3. \A v \in Children : child'[v].failed \in BOOLEAN /\ child'[v].cancel \in BOOLEAN
                          /\ child[v].failed \in BOOLEAN /\ child[v].cancel \in BOOLEAN
  BY KidFacts
<1>4. RowsOfWriters'
  BY <1>1, <1>2, <1>3 DEF RowsOfWriters
<1>5. FramesOfColor'
  BY <1>1, <1>3 DEF FramesOfColor
<1> QED BY <1>4, <1>5 DEF EdgeFlow

\* What leaves the streams alone keeps what is known of them.
LEMMA StreamsKept ==
    ASSUME StreamTypes, Pairing, TargetStages, UNCHANGED streams, mode' = mode,
           main'.at \in Stopping \cup Finishing \cup Later => main.at \in Stopping \cup Finishing \cup Later,
           main'.at \in Before => main.at \in Before
    PROVE  StreamTypes' /\ Pairing' /\ TargetStages'
<1>1. /\ next' = next /\ seen' = seen /\ target' = target /\ pending' = pending /\ irRows' = irRows
      /\ evidence' = evidence
  BY DEF streams
<1> QED BY <1>1 DEF StreamTypes, Pairing, TargetStages, Ascending, Occurs, RowsApart

\* A verdict once reached stays while its evidence does.
LEMMA VerdictKept ==
    ASSUME EdgeVerdict, UNCHANGED <<mode, streams, serial>>,
           main.started = {} => main'.started = {} /\ child' = child,
           main'.at \in Sealing \cup Publishing \/ disk'.name = "final" =>
             main.at \in Sealing \cup Publishing \/ disk.name = "final"
    PROVE  EdgeVerdict'
<1>1. /\ next' = next /\ seen' = seen /\ target' = target /\ pending' = pending /\ irRows' = irRows
      /\ evidence' = evidence /\ serial' = serial /\ Writers' = Writers /\ Children' = Children
  BY ChildrenFacts DEF streams
<1>2. Judged => Judged'
  BY <1>1 DEF Judged, Complete, Gapless
<1> QED BY <1>2 DEF EdgeVerdict

\* Streams of one length are paired frame by frame.
LEMMA RowsAreFrames ==
    ASSUME StreamTypes, Pairing, NEW s \in Sides, Len(irRows) = Len(seen[s])
    PROVE  seen[s] = irRows
<1> DEFINE S == seen[s]
           n == Len(irRows)
<1>1. S \in Seq(Int) /\ irRows \in Seq(Int) /\ n \in Nat /\ DOMAIN S = 1 .. n /\ DOMAIN irRows = 1 .. n /\ Len(S) = n
  BY StreamFacts DEF Streams
<1>a. \A j \in DOMAIN irRows : \E i \in DOMAIN S : S[i] = irRows[j]
  BY DEF Pairing, Occurs
<1>b. \A j, k \in DOMAIN irRows : \A p, r \in DOMAIN S : S[p] = irRows[j] /\ S[r] = irRows[k] /\ j <= k => k - j <= r - p
  BY DEF Pairing, RowsApart
<1> HIDE DEF S, n
<1>2. ASSUME NEW k \in 1 .. n PROVE S[k] = irRows[k]
  <2>0. 1 \in 1 .. n /\ n \in 1 .. n
    BY <1>1
  <2>1. PICK p \in 1 .. n : S[p] = irRows[k]
    BY <1>1, <1>a
  <2>2. PICK a \in 1 .. n : S[a] = irRows[1]
    BY <1>1, <1>a, <2>0
  <2>3. PICK b \in 1 .. n : S[b] = irRows[n]
    BY <1>1, <1>a, <2>0
  <2>4. k - 1 <= p - a
    BY SMTT(30), <1>1, <1>b, <2>0, <2>1, <2>2
  <2>5. n - k <= b - p
    <3>1. k \in DOMAIN irRows /\ n \in DOMAIN irRows /\ p \in DOMAIN S /\ b \in DOMAIN S /\ k <= n
      BY <1>1, <2>0
    <3> QED BY <1>b, <2>1, <2>3, <3>1
  <2>6. p = k
    BY <1>1, <2>4, <2>5
  <2> QED BY <2>1, <2>6
<1>3. S = irRows
  BY <1>1, <1>2, SeqEqual DEF n
<1> QED BY <1>3 DEF S

\* A file that has as many frames as there are rows holds them.
LEMMA FileIsRows ==
    ASSUME NEW W \in Seq(Int), NEW H \in Seq(Int), NEW Q \in Seq(Int), NEW rows \in Seq(Int),
           Follows((W \o H) \o Q, rows, 0), Len(W) = Len(rows)
    PROVE  W = rows
<1> DEFINE e == (W \o H) \o Q
<1>1. Joined(W, H, Q, e)
  BY Parts
<1>2. Follows(e, rows, 0) /\ DOMAIN rows = 1 .. Len(rows)
  BY LenProperties
<1> HIDE DEF e
<1>3. \A i \in 1 .. Len(W) : W[i] = rows[i]
  BY <1>1, <1>2 DEF Joined, Follows
<1> QED BY <1>3, SeqEqual

\* What is judged well is a verdict.
LEMMA JudgedWellIsJudged ==
    ASSUME EdgeInv, main.at = "judge", JudgedWell
    PROVE  Judged
<1> DEFINE n == Received("color")
<1>0. /\ EdgeTypes /\ EdgeStages /\ ChildStages /\ StreamTypes /\ RowsOfWriters /\ FramesOfColor
      /\ Pairing /\ TargetStages
  BY DEF EdgeInv, EdgeControl, EdgeFlow
<1>1. /\ \A s \in Streams : Len(seen[s]) = n /\ Gapless(seen[s])
      /\ pending = {} /\ Len(irRows) = n /\ \A w \in Children : Len(child[w].written) = n
      /\ serial = "gapless" /\ n = Len(seen["color"])
  BY DEF JudgedWell, Continuous, Paired, AllWritten, Received
<1>2. main.error = None /\ main.started = {} /\ \A w \in Children : Complete(w)
  BY <1>0, ChildrenFacts DEF EdgeStages, ChildStages, EdgeWorking, Recording, Later, Judging
<1>3. target = n /\ target # 0
  BY <1>0, <1>1 DEF TargetStages, Later, Judging, Streams
<1>4. \A s \in Sides : seen[s] = irRows
  BY <1>0, <1>1, RowsAreFrames DEF Streams
<1>5. ASSUME NEW w \in Writers PROVE child[w].written = irRows
  <2> DEFINE W == child[w].written
             H == child[w].held
             Q == child[w].queue
  <2>1. child[w] \in Kids /\ w \in Children
    BY <1>0, ChildrenFacts, EdgeFacts
  <2>2. W \in Seq(Int) /\ H \in Seq(Int) /\ Q \in Seq(Int) /\ irRows \in Seq(Int)
        /\ child[w].failed \in BOOLEAN /\ child[w].cancel \in BOOLEAN
    BY <1>0, <2>1, KidFacts, StreamFacts
  <2>3. ~child[w].failed /\ ~child[w].cancel
    BY <1>0, <1>2, <2>1 DEF Complete, ChildStages
  <2>4. Follows((W \o H) \o Q, irRows, 0)
    BY <1>0, <1>2, <2>3 DEF RowsOfWriters, Entries
  <2>5. Len(W) = Len(irRows)
    BY <1>1, <2>1
  <2> HIDE DEF W, H, Q
  <2>6. W = irRows
    BY <2>2, <2>4, <2>5, FileIsRows
  <2> QED BY <2>6 DEF W
<1>6. child["rgb"].written = seen["color"]
  <2> DEFINE W == child["rgb"].written
             H == child["rgb"].held
             Q == child["rgb"].queue
             R == seen["color"]
  <2>1. child["rgb"] \in Kids /\ "rgb" \in Children
    BY <1>0, ChildrenFacts, EdgeFacts
  <2>2. W \in Seq(Int) /\ H \in Seq(Int) /\ Q \in Seq(Int) /\ R \in Seq(Int) /\ child["rgb"].failed \in BOOLEAN
    BY <1>0, <2>1, KidFacts, StreamFacts DEF Streams
  <2>3. ~child["rgb"].failed
    BY <1>0, <1>2, <2>1 DEF Complete
  <2>4. Follows((W \o H) \o Q, R, 0)
    BY <1>0, <1>2, <2>3 DEF FramesOfColor, Entries
  <2>5. Len(W) = Len(R)
    BY <1>1, <2>1
  <2> HIDE DEF W, H, Q, R
  <2>6. W = R
    BY <2>2, <2>4, <2>5, FileIsRows
  <2> QED BY <2>6 DEF W, R
<1> HIDE DEF n
<1> QED BY <1>1, <1>2, <1>3, <1>4, <1>5, <1>6 DEF Judged

\* They keep the invariant.
LEMMA EdgeIdleStepsKeep ==
    ASSUME EdgeInv, EdgeIdleSteps
    PROVE  EdgeInv'
<1>0. /\ EdgeTypes /\ EdgeStages /\ ChildStages /\ DiskStages /\ StreamTypes /\ RowsOfWriters /\ FramesOfColor
      /\ Pairing /\ TargetStages /\ EdgeVerdict
  BY DEF EdgeInv, EdgeControl, EdgeFlow
<1>1. /\ mode' = mode /\ UNCHANGED <<streams, serial>> /\ serial' = serial /\ child' = child /\ disk' = disk
      /\ irRows' = irRows /\ seen' = seen
      /\ signals' \in {0, 1, 2} /\ main' \in Mains /\ EdgeIdleMoves /\ Writers' = Writers /\ Children' = Children
  BY EdgeIdleStepMoves, ChildrenFacts DEF streams
<1>2. EdgeTypes'
  BY <1>0, <1>1 DEF EdgeTypes
<1> USE DEF EdgeIdleMoves, Passes, Raises, Leaves, EdgeWorking, Recording, Starting, Looping, Stopping, Finishing, ColorFinish,
            LeftFinish, RightFinish, StereoFinish, Judging, Sealing, Publishing, Published, CleaningUp, Undoing, Later
<1>3. EdgeStages'
  BY <1>0, <1>1 DEF EdgeStages, None
<1>4. ChildStages'
  <2>1. \A v \in Children : Complete(v)' <=> Complete(v)
    BY <1>1 DEF Complete
  <2>2. main.error # None => main'.error # None
    BY <1>0, <1>1 DEF EdgeStages, None
  <2>3. main'.at \in Later => main.at \in Later /\ main'.started = main.started
    BY <1>1
  <2>4. main'.at \in (Finishing \ ColorFinish) \cup Later => main.at \in (Finishing \ ColorFinish) \cup Later
    BY <1>1
  <2>5. main'.at # "rgb.wait" /\ main'.at # "rgb.start" /\ main'.at \notin RightFinish
    BY <1>1
  <2>6. Writers \subseteq Children /\ "rgb" \in Children
    BY ChildrenFacts
  <2>7. \A w \in Writers : child'[w].thread = "done" /\ ~child'[w].failed => Complete(w)' /\ w \in disk'.durable
    BY <1>0, <1>1, <2>1, <2>6 DEF ChildStages
  <2>8. main'.at \in (Finishing \ ColorFinish) \cup Later => Complete("rgb")'
    BY <1>0, <2>1, <2>4, <2>6 DEF ChildStages
  <2>9. main'.at \in Later => main'.started = {} /\ \A w \in Writers : Complete(w)'
    BY <1>0, <2>1, <2>3, <2>6 DEF ChildStages
  <2>10. \A w \in Children : child'[w].cancel => main'.error # None
    BY <1>0, <1>1, <2>2 DEF ChildStages
  <2>11. \A w \in Children : child'[w].thread # "write" => child'[w].held = <<>>
    BY <1>0, <1>1 DEF ChildStages
  <2>12. main'.at \in Unstarted => \A w \in Children : child'[w].thread = "new"
    <3>1. main'.at \in Unstarted => main.at \in Unstarted
      BY <1>1 DEF Unstarted
    <3> QED BY <1>0, <1>1, <3>1 DEF ChildStages
  <2> HIDE DEF EdgeIdleMoves, Finishing, ColorFinish, RightFinish, Later
  <2> QED BY <1>1, <2>5, <2>7, <2>8, <2>9, <2>10, <2>11, <2>12 DEF ChildStages
<1>5. DiskStages'
  <2>1. Settled' <=> Settled
    BY <1>1 DEF Settled
  <2>2. Lasting' = Lasting
    BY <1>1 DEF Lasting
  <2>3. Sealed(disk)' <=> Sealed(disk)
    BY <1>1 DEF Sealed
  <2> QED BY <1>0, <1>1, <2>1, <2>2, <2>3 DEF DiskStages, EdgeStages, Sealed
<1>6. EdgeFlow'
  <2>1. main'.at \in Filling => main.at \in Filling
    BY <1>1 DEF Filling
  <2>2. main'.error = None => main.error = None
    BY <1>0, <1>1 DEF EdgeStages, None
  <2>3. child \in [Children -> Kids] /\ irRows \in Seq(Int)
    BY <1>0, StreamFacts DEF EdgeTypes
  <2> HIDE DEF EdgeIdleMoves
  <2> QED BY <1>0, <1>1, <2>1, <2>2, <2>3, EntriesFlow
<1>7. StreamTypes' /\ Pairing' /\ TargetStages'
  <2>1. main'.at \in Stopping \cup Finishing \cup Later => main.at \in Stopping \cup Finishing \cup Later
    BY <1>1
  <2>2. main'.at \in Before => main.at \in Before
    BY <1>1 DEF Before
  <2> HIDE DEF EdgeIdleMoves, Stopping, Finishing, Later
  <2> QED BY <1>0, <1>1, <2>1, <2>2, StreamsKept
<1>8. EdgeVerdict'
  <2>1. CASE Passes("judge", "finalize") /\ JudgedWell
    <3>1. Judged
      BY <2>1, JudgedWellIsJudged
    <3>2. main'.started = main.started /\ target' = target /\ pending' = pending
      BY <1>1, <2>1 DEF streams
    <3>3. Judged'
      BY <1>1, <3>1, <3>2 DEF Judged, Complete, Gapless
    <3> QED BY <3>3 DEF EdgeVerdict
  <2>2. CASE ~(Passes("judge", "finalize") /\ JudgedWell)
    <3>1. main'.at \in Sealing \cup Publishing \/ disk'.name = "final" =>
            main.at \in Sealing \cup Publishing \/ disk.name = "final"
      BY <1>1, <2>2
    <3>2. main'.started = main.started
      BY <1>1
    <3> HIDE DEF EdgeIdleMoves, Sealing, Publishing
    <3> QED BY <1>0, <1>1, <3>1, <3>2, VerdictKept
  <2> QED BY <2>1, <2>2
<1> QED BY <1>2, <1>3, <1>4, <1>5, <1>6, <1>7, <1>8 DEF EdgeInv, EdgeControl

-----------------------------------------------------------------------------
(* The steps of main that change the directory.                             *)

DiskIs(name, marker, manifest, failure, unsynced, durable) ==
    /\ disk' \in Disks /\ disk'.name = name /\ disk'.marker = marker /\ disk'.manifest = manifest
    /\ disk'.failure = failure /\ disk'.unsynced = unsynced /\ disk'.durable = durable
DiskStays == disk' \in Disks /\ disk' = disk

\* The directory after an fsync.
LEMMA SyncedFacts ==
    ASSUME disk \in Disks, NEW entries
    PROVE  disk' = Synced(entries) =>
             DiskIs(disk.name, disk.marker, disk.manifest, disk.failure, disk.unsynced \ entries, disk.durable)
<1> DEFINE u == disk.unsynced \ entries
<1>1. u \subseteq EdgeEntries
  BY DEF Disks
<1>2. Synced(entries) = [disk EXCEPT !.unsynced = u]
  BY DEF Synced
<1> HIDE DEF u
<1>3. disk' = Synced(entries) =>
        DiskIs(disk.name, disk.marker, disk.manifest, disk.failure, u, disk.durable)
  BY <1>1, <1>2 DEF Disks, DiskIs
<1> QED BY <1>3 DEF u

\* The directory after one of its entries changed.
LEMMA ChangedFacts ==
    ASSUME disk \in Disks
    PROVE  /\ \A b \in BOOLEAN : disk' = Changed("manifest", b) =>
                DiskIs(disk.name, disk.marker, b, disk.failure, disk.unsynced \cup {"manifest"}, disk.durable)
           /\ \A b \in BOOLEAN : disk' = Changed("marker", b) =>
                DiskIs(disk.name, b, disk.manifest, disk.failure, disk.unsynced \cup {"marker"}, disk.durable)
           /\ \A n \in {"partial", "final"} : disk' = Changed("name", n) =>
                DiskIs(n, disk.marker, disk.manifest, disk.failure, disk.unsynced \cup {"name"}, disk.durable)
<1>1. ASSUME NEW b \in BOOLEAN, disk' = Changed("manifest", b)
      PROVE  DiskIs(disk.name, disk.marker, b, disk.failure, disk.unsynced \cup {"manifest"}, disk.durable)
  <2> DEFINE u == disk.unsynced \cup {"manifest"}
  <2>1. u \subseteq EdgeEntries
    BY DEF Disks, EdgeEntries
  <2>2. disk' = [[disk EXCEPT !.manifest = b] EXCEPT !.unsynced = u]
    BY <1>1 DEF Changed, Disks
  <2> HIDE DEF u
  <2>3. DiskIs(disk.name, disk.marker, b, disk.failure, u, disk.durable)
    BY <2>1, <2>2 DEF Disks, DiskIs
  <2> QED BY <2>3 DEF u
<1>2. ASSUME NEW b \in BOOLEAN, disk' = Changed("marker", b)
      PROVE  DiskIs(disk.name, b, disk.manifest, disk.failure, disk.unsynced \cup {"marker"}, disk.durable)
  <2> DEFINE u == disk.unsynced \cup {"marker"}
  <2>1. u \subseteq EdgeEntries
    BY DEF Disks, EdgeEntries
  <2>2. disk' = [[disk EXCEPT !.marker = b] EXCEPT !.unsynced = u]
    BY <1>2 DEF Changed, Disks
  <2> HIDE DEF u
  <2>3. DiskIs(disk.name, b, disk.manifest, disk.failure, u, disk.durable)
    BY <2>1, <2>2 DEF Disks, DiskIs
  <2> QED BY <2>3 DEF u
<1>3. ASSUME NEW n \in {"partial", "final"}, disk' = Changed("name", n)
      PROVE  DiskIs(n, disk.marker, disk.manifest, disk.failure, disk.unsynced \cup {"name"}, disk.durable)
  <2> DEFINE u == disk.unsynced \cup {"name"}
  <2>1. u \subseteq EdgeEntries
    BY DEF Disks, EdgeEntries
  <2>2. disk' = [[disk EXCEPT !.name = n] EXCEPT !.unsynced = u]
    BY <1>3 DEF Changed, Disks
  <2> HIDE DEF u
  <2>3. DiskIs(n, disk.marker, disk.manifest, disk.failure, u, disk.durable)
    BY <2>1, <2>2 DEF Disks, DiskIs
  <2> QED BY <2>3 DEF u
<1> QED BY <1>1, <1>2, <1>3

\* The directory after a file of it was synced.
LEMMA DurableFacts ==
    ASSUME disk \in Disks, NEW d \in {"stm32", "index"}, disk' = [disk EXCEPT !.durable = @ \cup {d}]
    PROVE  DiskIs(disk.name, disk.marker, disk.manifest, disk.failure, disk.unsynced, disk.durable \cup {d})
<1> DEFINE u == disk.durable \cup {d}
<1>1. u \subseteq Sides \cup {"stereo", "rgb", "stm32", "index"}
  BY DEF Disks
<1>2. disk' = [disk EXCEPT !.durable = u]
  OBVIOUS
<1> HIDE DEF u
<1>3. DiskIs(disk.name, disk.marker, disk.manifest, disk.failure, disk.unsynced, u)
  BY <1>1, <1>2 DEF Disks, DiskIs
<1> QED BY <1>3 DEF u

EdgeDiskSteps ==
    /\ \/ Prepare \/ StopSerial \/ SyncIndexes
       \/ WriteManifest \/ SyncPartial \/ Rename \/ SyncRoot \/ UnlinkMarker \/ SyncFinal \/ SyncRootAgain
       \/ UndoMark \/ UndoSync \/ UndoRename \/ UndoRoot \/ WriteFailure
    /\ UNCHANGED <<mode, signals>>

SameDisk(manifest, unsynced, durable) ==
    DiskIs(disk.name, disk.marker, manifest, disk.failure, unsynced, durable)
DonePrepare ==
    /\ DiskIs("partial", TRUE, disk.manifest, disk.failure, {"marker"}, disk.durable)
    /\ Passes("prepare", "serial.start") \/ Leaves({"prepare"})
DoneStopSerial == SameDisk(disk.manifest, disk.unsynced, disk.durable \cup {"stm32"}) /\ Passes("serial.stop", "sensor.stop")
DoneSyncIndexes == SameDisk(disk.manifest, disk.unsynced, disk.durable \cup {"index"}) /\ Passes("index", "judge")
DoneWriteManifest == SameDisk(TRUE, disk.unsynced \cup {"manifest"}, disk.durable) /\ Passes("manifest", "publish.sync")
DoneSyncPartial ==
    SameDisk(disk.manifest, disk.unsynced \ {"marker", "manifest"}, disk.durable)
    /\ Passes("publish.sync", "publish.rename")
DoneRename ==
    /\ DiskIs("final", disk.marker, disk.manifest, disk.failure, disk.unsynced \cup {"name"}, disk.durable)
    /\ Passes("publish.rename", "publish.root")
DoneSyncRoot == SameDisk(disk.manifest, disk.unsynced \ {"name"}, disk.durable) /\ Passes("publish.root", "publish.unlink")
DoneUnlinkMarker ==
    /\ DiskIs(disk.name, FALSE, disk.manifest, disk.failure, disk.unsynced \cup {"marker"}, disk.durable)
    /\ Passes("publish.unlink", "publish.final")
DoneSyncFinal == SameDisk(disk.manifest, disk.unsynced \ {"marker"}, disk.durable) /\ Passes("publish.final", "publish.again")
DoneSyncRootAgain == SameDisk(disk.manifest, disk.unsynced \ {"name"}, disk.durable) /\ Passes("publish.again", "return")
DoneUndoMark ==
    \/ disk.marker /\ DiskStays /\ Passes("undo.mark", "undo.rename")
    \/ /\ DiskIs(disk.name, TRUE, disk.manifest, disk.failure, disk.unsynced \cup {"marker"}, disk.durable)
       /\ Passes("undo.mark", "undo.sync")
DoneUndoSync == SameDisk(disk.manifest, disk.unsynced \ {"marker"}, disk.durable) /\ Passes("undo.sync", "undo.rename")
DoneUndoRename ==
    /\ DiskIs("partial", disk.marker, disk.manifest, disk.failure, disk.unsynced \cup {"name"}, disk.durable)
    /\ Passes("undo.rename", "undo.root")
DoneUndoRoot == SameDisk(disk.manifest, disk.unsynced \ {"name"}, disk.durable) /\ Passes("undo.root", "sensor.cleanup")
DoneWriteFailure ==
    /\ Passes("failure", "end")
    /\ \/ DiskIs(disk.name, disk.marker, disk.manifest, disk.name = "partial", disk.unsynced, disk.durable)
       \/ DiskStays
DiskStepFails ==
    /\ DiskStays
    /\ \/ Raises({"serial.stop", "index", "manifest", "publish.sync", "publish.rename"})
       \/ /\ main.at \in Published /\ main'.at = "undo.mark" /\ main'.error = "fail"
          /\ main'.started = main.started /\ main'.publish = main.publish
       \/ /\ main.at \in Undoing /\ main'.at = "sensor.cleanup" /\ main'.error = main.error
          /\ main'.started = main.started /\ main'.publish = "cut"

EdgeDiskMoves ==
    \/ DonePrepare \/ DoneStopSerial \/ DoneSyncIndexes \/ DoneWriteManifest \/ DoneSyncPartial \/ DoneRename
    \/ DoneSyncRoot \/ DoneUnlinkMarker \/ DoneSyncFinal \/ DoneSyncRootAgain \/ DoneUndoMark \/ DoneUndoSync
    \/ DoneUndoRename \/ DoneUndoRoot \/ DoneWriteFailure \/ DiskStepFails

\* What these steps do to the directory, and where they lead main.
LEMMA EdgeDiskStepMoves ==
    ASSUME EdgeInv, EdgeDiskSteps
    PROVE  /\ mode' = mode /\ signals' = signals /\ UNCHANGED <<streams, child>>
           /\ serial' \in {"new", "recording", "gapless", "lossy"}
           /\ serial' = serial \/ main.at = "serial.stop"
           /\ main' \in Mains /\ disk' \in Disks /\ EdgeDiskMoves
<1> DEFINE Goal == /\ mode' = mode /\ signals' = signals /\ UNCHANGED <<streams, child>>
                   /\ serial' \in {"new", "recording", "gapless", "lossy"}
                   /\ serial' = serial \/ main.at = "serial.stop"
                   /\ main' \in Mains /\ disk' \in Disks /\ EdgeDiskMoves
<1>0. main \in Mains /\ disk \in Disks /\ main.at \in EdgeSteps /\ serial \in {"new", "recording", "gapless", "lossy"}
      /\ main.publish \in {"no", "cut", "returned"} /\ EdgeStages /\ disk.marker \in BOOLEAN /\ disk.name \in {"absent", "partial", "final"}
  BY EdgeFacts DEF EdgeInv, EdgeControl, EdgeTypes
<1>a. /\ \A p \in EdgeSteps :
           Go(p) => /\ main' \in Mains /\ main'.at = p /\ main'.error = main.error
                    /\ main'.started = main.started /\ main'.publish = main.publish
      /\ Raise("fail") => /\ main' \in Mains /\ main'.at = "sensor.cleanup" /\ main'.error = "fail"
                          /\ main'.started = main.started /\ main'.publish = main.publish
      /\ Leave("fail", "no") => /\ main' \in Mains /\ main'.at = "end" /\ main'.error = "fail"
                                /\ main'.started = main.started /\ main'.publish = "no"
      /\ ToRollback("fail") => /\ main' \in Mains /\ main'.at = "undo.mark" /\ main'.error = "fail"
                               /\ main'.started = main.started /\ main'.publish = main.publish
      /\ CutRollback => /\ main' \in Mains /\ main'.at = "sensor.cleanup" /\ main'.error = main.error
                        /\ main'.started = main.started /\ main'.publish = "cut"
  BY <1>0, MainFacts DEF EdgeErrors
<1>b. DiskIs(disk.name, disk.marker, disk.manifest, disk.failure, disk.unsynced, disk.durable) \/ disk' # disk
  BY <1>0 DEF DiskIs
<1>c. /\ disk' = disk => DiskStays
      /\ DiskStays => disk' \in Disks
      /\ \A n, m, f, u, d, x : DiskIs(n, m, f, u, d, x) => disk' \in Disks
  BY <1>0 DEF DiskStays, DiskIs
<1>d. {"serial.start", "sensor.stop", "judge", "publish.sync", "publish.rename", "publish.root", "publish.unlink",
       "publish.final", "publish.again", "return", "undo.mark", "undo.sync", "undo.rename", "undo.root",
       "sensor.cleanup", "end"} \subseteq EdgeSteps
  BY DEF EdgeSteps, EdgeWorking, Recording, Starting, Stopping, Judging, Sealing, Publishing, Published, Undoing, CleaningUp
<1> USE DEF Passes, Raises, Leaves, EdgeDiskMoves, DiskStepFails, Published, Undoing, data
<1>1. ASSUME Prepare, UNCHANGED <<mode, signals>> PROVE Goal
  <2>1. disk' = [[[disk EXCEPT !.name = "partial"] EXCEPT !.marker = TRUE] EXCEPT !.unsynced = {"marker"}]
    BY <1>0, <1>1 DEF Prepare, Disks
  <2>2. DiskIs("partial", TRUE, disk.manifest, disk.failure, {"marker"}, disk.durable)
    BY <1>0, <2>1 DEF Disks, EdgeEntries, DiskIs
  <2>3. main.at = "prepare" /\ (Go("serial.start") \/ Leave("fail", "no")) /\ UNCHANGED <<streams, serial, child>>
    BY <1>1 DEF Prepare
  <2>4. main.publish = "no"
    BY <1>0, <2>3 DEF EdgeStages, EdgeWorking
  <2> QED BY <1>0, <1>1, <1>a, <1>c, <1>d, <2>2, <2>3, <2>4 DEF DonePrepare
<1>2. ASSUME StopSerial, UNCHANGED <<mode, signals>> PROVE Goal
  <2>1. CASE Go("sensor.stop") /\ disk' = [disk EXCEPT !.durable = @ \cup {"stm32"}]
    <3>1. DiskIs(disk.name, disk.marker, disk.manifest, disk.failure, disk.unsynced, disk.durable \cup {"stm32"})
      BY <1>0, <2>1, DurableFacts
    <3> QED BY <1>0, <1>2, <1>a, <1>c, <1>d, <2>1, <3>1 DEF StopSerial, DoneStopSerial, SameDisk
  <2>2. CASE Raise("fail") /\ UNCHANGED <<serial, disk>>
    BY <1>0, <1>2, <1>a, <1>c, <2>2 DEF StopSerial
  <2> QED BY <1>2, <2>1, <2>2 DEF StopSerial
<1>3. ASSUME SyncIndexes, UNCHANGED <<mode, signals>> PROVE Goal
  <2>0. main.error = None
    BY <1>0, <1>3 DEF SyncIndexes, Call, EdgeStages, EdgeWorking, Recording, Judging
  <2>1. CASE Go("judge")
    <3>1. disk' = [disk EXCEPT !.durable = @ \cup {"index"}]
      BY <1>3, <1>a, <1>d, <2>0, <2>1 DEF SyncIndexes
    <3>2. DiskIs(disk.name, disk.marker, disk.manifest, disk.failure, disk.unsynced, disk.durable \cup {"index"})
      BY <1>0, <3>1, DurableFacts
    <3> QED BY <1>0, <1>3, <1>a, <1>c, <1>d, <2>1, <3>2 DEF SyncIndexes, Call, DoneSyncIndexes, SameDisk
  <2>2. CASE Raise("fail")
    <3>1. disk' = disk
      BY <1>3, <1>a, <2>2 DEF SyncIndexes, None
    <3> QED BY <1>0, <1>3, <1>a, <1>c, <2>2, <3>1 DEF SyncIndexes, Call
  <2> QED BY <1>3, <2>1, <2>2 DEF SyncIndexes, Call
<1>4. ASSUME WriteManifest, UNCHANGED <<mode, signals>> PROVE Goal
  BY ZenonT(60), <1>0, <1>4, <1>a, <1>c, <1>d, ChangedFacts DEF WriteManifest, DiskStep, DoneWriteManifest, SameDisk
<1>5. ASSUME SyncPartial, UNCHANGED <<mode, signals>> PROVE Goal
  BY <1>0, <1>5, <1>a, <1>c, <1>d, SyncedFacts DEF SyncPartial, DiskStep, DoneSyncPartial, SameDisk
<1>6. ASSUME Rename, UNCHANGED <<mode, signals>> PROVE Goal
  BY <1>0, <1>6, <1>a, <1>c, <1>d, ChangedFacts DEF Rename, DiskStep, DoneRename
<1>7. ASSUME SyncRoot, UNCHANGED <<mode, signals>> PROVE Goal
  BY <1>0, <1>7, <1>a, <1>c, <1>d, SyncedFacts DEF SyncRoot, DiskStep, DoneSyncRoot, SameDisk
<1>8. ASSUME UnlinkMarker, UNCHANGED <<mode, signals>> PROVE Goal
  BY ZenonT(60), <1>0, <1>8, <1>a, <1>c, <1>d, ChangedFacts DEF UnlinkMarker, DiskStep, DoneUnlinkMarker
<1>9. ASSUME SyncFinal, UNCHANGED <<mode, signals>> PROVE Goal
  BY <1>0, <1>9, <1>a, <1>c, <1>d, SyncedFacts DEF SyncFinal, DiskStep, DoneSyncFinal, SameDisk
<1>10. ASSUME SyncRootAgain, UNCHANGED <<mode, signals>> PROVE Goal
  BY <1>0, <1>10, <1>a, <1>c, <1>d, SyncedFacts DEF SyncRootAgain, DiskStep, DoneSyncRootAgain, SameDisk
<1>11. ASSUME UndoMark, UNCHANGED <<mode, signals>> PROVE Goal
  BY ZenonT(60), <1>0, <1>11, <1>a, <1>c, <1>d, ChangedFacts DEF UndoMark, DiskStep, DoneUndoMark
<1>12. ASSUME UndoSync, UNCHANGED <<mode, signals>> PROVE Goal
  BY <1>0, <1>12, <1>a, <1>c, <1>d, SyncedFacts DEF UndoSync, DiskStep, DoneUndoSync, SameDisk
<1>13. ASSUME UndoRename, UNCHANGED <<mode, signals>> PROVE Goal
  BY <1>0, <1>13, <1>a, <1>c, <1>d, ChangedFacts DEF UndoRename, DiskStep, DoneUndoRename
<1>14. ASSUME UndoRoot, UNCHANGED <<mode, signals>> PROVE Goal
  BY <1>0, <1>14, <1>a, <1>c, <1>d, SyncedFacts DEF UndoRoot, DiskStep, DoneUndoRoot, SameDisk
<1>15. ASSUME WriteFailure, UNCHANGED <<mode, signals>> PROVE Goal
  <2>1. CASE disk' = [disk EXCEPT !.failure = disk.name = "partial"]
    <3>1. DiskIs(disk.name, disk.marker, disk.manifest, disk.name = "partial", disk.unsynced, disk.durable)
      BY <1>0, <2>1 DEF Disks, DiskIs
    <3> QED BY <1>0, <1>15, <1>a, <1>c, <1>d, <3>1 DEF WriteFailure, DoneWriteFailure
  <2>2. CASE disk' = disk
    BY <1>0, <1>15, <1>a, <1>c, <1>d, <2>2 DEF WriteFailure, DoneWriteFailure
  <2> QED BY <1>15, <2>1, <2>2 DEF WriteFailure
<1> QED BY <1>1, <1>2, <1>3, <1>4, <1>5, <1>6, <1>7, <1>8, <1>9, <1>10, <1>11, <1>12, <1>13, <1>14, <1>15
        DEF EdgeDiskSteps

\* They keep the invariant.
LEMMA EdgeDiskStepsKeep ==
    ASSUME EdgeInv, EdgeDiskSteps
    PROVE  EdgeInv'
<1>0. /\ EdgeTypes /\ EdgeStages /\ ChildStages /\ DiskStages /\ StreamTypes /\ RowsOfWriters /\ FramesOfColor
      /\ Pairing /\ TargetStages /\ EdgeVerdict
  BY DEF EdgeInv, EdgeControl, EdgeFlow
<1>1. /\ mode' = mode /\ UNCHANGED <<streams>> /\ child' = child /\ signals' = signals
      /\ irRows' = irRows /\ seen' = seen /\ serial' \in {"new", "recording", "gapless", "lossy"}
      /\ serial' = serial \/ main.at = "serial.stop"
      /\ main' \in Mains /\ disk' \in Disks /\ EdgeDiskMoves /\ Writers' = Writers /\ Children' = Children
  BY EdgeDiskStepMoves, ChildrenFacts DEF streams
<1>2. EdgeTypes'
  BY <1>0, <1>1 DEF EdgeTypes
<1> DEFINE Main2 ==
      \/ Passes("prepare", "serial.start") \/ Leaves({"prepare"}) \/ Passes("serial.stop", "sensor.stop")
      \/ Passes("index", "judge") \/ Passes("manifest", "publish.sync") \/ Passes("publish.sync", "publish.rename")
      \/ Passes("publish.rename", "publish.root") \/ Passes("publish.root", "publish.unlink")
      \/ Passes("publish.unlink", "publish.final") \/ Passes("publish.final", "publish.again")
      \/ Passes("publish.again", "return") \/ Passes("undo.mark", "undo.rename") \/ Passes("undo.mark", "undo.sync")
      \/ Passes("undo.sync", "undo.rename") \/ Passes("undo.rename", "undo.root")
      \/ Passes("undo.root", "sensor.cleanup") \/ Passes("failure", "end")
      \/ Raises({"serial.stop", "index", "manifest", "publish.sync", "publish.rename"})
      \/ /\ main.at \in Published /\ main'.at = "undo.mark" /\ main'.error = "fail"
         /\ main'.started = main.started /\ main'.publish = main.publish
      \/ /\ main.at \in Undoing /\ main'.at = "sensor.cleanup" /\ main'.error = main.error
         /\ main'.started = main.started /\ main'.publish = "cut"
<1>3. Main2
  BY <1>1 DEF EdgeDiskMoves, DonePrepare, DoneStopSerial, DoneSyncIndexes, DoneWriteManifest, DoneSyncPartial, DoneRename,
              DoneSyncRoot, DoneUnlinkMarker, DoneSyncFinal, DoneSyncRootAgain, DoneUndoMark, DoneUndoSync,
              DoneUndoRename, DoneUndoRoot, DoneWriteFailure, DiskStepFails
<1>4. disk.durable \subseteq disk'.durable
  BY <1>1 DEF EdgeDiskMoves, DonePrepare, DoneStopSerial, DoneSyncIndexes, DoneWriteManifest, DoneSyncPartial, DoneRename,
              DoneSyncRoot, DoneUnlinkMarker, DoneSyncFinal, DoneSyncRootAgain, DoneUndoMark, DoneUndoSync,
              DoneUndoRename, DoneUndoRoot, DoneWriteFailure, DiskStepFails, SameDisk, DiskIs, DiskStays
<1> USE DEF Passes, Raises, Leaves, EdgeWorking, Recording, Starting, Looping, Stopping, Finishing, ColorFinish,
            LeftFinish, RightFinish, StereoFinish, Judging, Sealing, Publishing, Published, CleaningUp, Undoing, Later
<1>5. EdgeStages'
  BY <1>0, <1>1, <1>3 DEF EdgeStages, None
<1>6. main'.started = main.started
  BY <1>3
<1>7. main'.error = None => main.error = None
  BY <1>0, <1>3 DEF EdgeStages, None
<1>8. ChildStages'
  <2>1. \A v \in Children : Complete(v)' <=> Complete(v)
    BY <1>1 DEF Complete
  <2>3. main'.at \in Later => main.at \in Later
    BY <1>3
  <2>4. main'.at \in (Finishing \ ColorFinish) \cup Later => main.at \in (Finishing \ ColorFinish) \cup Later
    BY <1>3
  <2>5. main'.at # "rgb.wait" /\ main'.at # "rgb.start" /\ main'.at \notin RightFinish
    BY <1>3
  <2>6. Writers \subseteq Children /\ "rgb" \in Children
    BY ChildrenFacts
  <2>7. \A w \in Writers : child'[w].thread = "done" /\ ~child'[w].failed => Complete(w)' /\ w \in disk'.durable
    BY <1>0, <1>1, <1>4, <2>1, <2>6 DEF ChildStages
  <2>8. main'.at \in (Finishing \ ColorFinish) \cup Later => Complete("rgb")'
    BY <1>0, <2>1, <2>4, <2>6 DEF ChildStages
  <2>9. main'.at \in Later => main'.started = {} /\ \A w \in Writers : Complete(w)'
    BY <1>0, <1>6, <2>1, <2>3, <2>6 DEF ChildStages
  <2>10. \A w \in Children : child'[w].cancel => main'.error # None
    BY <1>0, <1>1, <1>7 DEF ChildStages
  <2>11. \A w \in Children : child'[w].thread # "write" => child'[w].held = <<>>
    BY <1>0, <1>1 DEF ChildStages
  <2>12. main'.at \in Unstarted => \A w \in Children : child'[w].thread = "new"
    <3>1. main'.at \in Unstarted => main.at \in Unstarted
      BY <1>3 DEF Unstarted
    <3> QED BY <1>0, <1>1, <3>1 DEF ChildStages
  <2> HIDE DEF Main2, Finishing, ColorFinish, RightFinish, Later
  <2> QED BY <1>1, <2>5, <2>7, <2>8, <2>9, <2>10, <2>11, <2>12 DEF ChildStages
<1>9. DiskStages'
  <2>1. Lasting' = Lasting
    BY <1>1 DEF Lasting
  <2>2. main.at \in Later => Writers \subseteq disk.durable
    BY <1>0 DEF ChildStages, Complete
  <2> HIDE DEF Main2
  <2>3. CASE DonePrepare
    BY <1>0, <1>1, <2>1, <2>3 DEF DonePrepare, DiskIs, DiskStages, EdgeStages, Settled, Sealed
  <2>4. CASE DoneStopSerial
    BY <1>0, <1>1, <2>1, <2>4 DEF DoneStopSerial, SameDisk, DiskIs, DiskStages, EdgeStages, Settled, Sealed
  <2>5. CASE DoneSyncIndexes
    BY <1>0, <1>1, <2>1, <2>5 DEF DoneSyncIndexes, SameDisk, DiskIs, DiskStages, EdgeStages, Settled, Sealed
  <2>6. CASE DoneWriteManifest
    BY <1>0, <1>1, <2>1, <2>6 DEF DoneWriteManifest, SameDisk, DiskIs, DiskStages, EdgeStages, Settled, Sealed
  <2>7. CASE DoneSyncPartial
    <3>1. /\ disk'.name = disk.name /\ disk'.marker = disk.marker /\ disk'.manifest = disk.manifest
          /\ disk'.failure = disk.failure /\ disk'.durable = disk.durable
          /\ "manifest" \notin disk'.unsynced /\ ("name" \in disk'.unsynced <=> "name" \in disk.unsynced)
      BY <2>7 DEF DoneSyncPartial, SameDisk, DiskIs
    <3>2. main.at = "publish.sync" /\ main'.at = "publish.rename" /\ main'.error = main.error /\ main'.publish = main.publish
      BY <2>7 DEF DoneSyncPartial
    <3> QED BY <1>0, <1>1, <2>1, <3>1, <3>2 DEF DiskStages, EdgeStages, Settled, Sealed
  <2>8. CASE DoneRename
    <3>1. main.at = "publish.rename" /\ main'.at = "publish.root" /\ disk'.durable = disk.durable
      BY <2>8 DEF DoneRename, DiskIs
    <3>2. Lasting \subseteq disk.durable
      <4>1. "stm32" \in disk.durable /\ "index" \in disk.durable /\ Writers \subseteq disk.durable
        BY <1>0, <2>2, <3>1 DEF DiskStages
      <4> QED BY <4>1 DEF Lasting
    <3> QED BY <1>0, <1>1, <2>1, <2>8, <3>1, <3>2 DEF DoneRename, DiskIs, DiskStages, EdgeStages, Settled, Sealed
  <2>9. CASE DoneSyncRoot
    BY <1>0, <1>1, <2>1, <2>9 DEF DoneSyncRoot, SameDisk, DiskIs, DiskStages, EdgeStages, Settled, Sealed
  <2>10. CASE DoneUnlinkMarker
    BY <1>0, <1>1, <2>1, <2>10 DEF DoneUnlinkMarker, SameDisk, DiskIs, DiskStages, EdgeStages, Settled, Sealed
  <2>11. CASE DoneSyncFinal
    BY <1>0, <1>1, <2>1, <2>11 DEF DoneSyncFinal, SameDisk, DiskIs, DiskStages, EdgeStages, Settled, Sealed
  <2>12. CASE DoneSyncRootAgain
    BY <1>0, <1>1, <2>1, <2>12 DEF DoneSyncRootAgain, SameDisk, DiskIs, DiskStages, EdgeStages, Settled, Sealed
  <2>13. CASE DoneUndoMark
    BY <1>0, <1>1, <2>1, <2>13 DEF DoneUndoMark, DiskStays, DiskIs, DiskStages, EdgeStages, Settled, Sealed
  <2>14. CASE DoneUndoSync
    BY <1>0, <1>1, <2>1, <2>14 DEF DoneUndoSync, SameDisk, DiskIs, DiskStages, EdgeStages, Settled, Sealed
  <2>15. CASE DoneUndoRename
    BY <1>0, <1>1, <2>1, <2>15 DEF DoneUndoRename, SameDisk, DiskIs, DiskStages, EdgeStages, Settled, Sealed
  <2>16. CASE DoneUndoRoot
    BY <1>0, <1>1, <2>1, <2>16 DEF DoneUndoRoot, SameDisk, DiskIs, DiskStages, EdgeStages, Settled, Sealed
  <2>17. CASE DoneWriteFailure
    <3>1. /\ disk'.name = disk.name /\ disk'.marker = disk.marker /\ disk'.manifest = disk.manifest
          /\ disk'.unsynced = disk.unsynced /\ disk'.durable = disk.durable
          /\ disk'.failure = (disk.name = "partial") \/ disk'.failure = disk.failure
      BY <2>17 DEF DoneWriteFailure, DiskStays, DiskIs
    <3>2. disk'.failure => disk.name = "partial"
      BY <1>0, <3>1 DEF DiskStages
    <3>3. main.at = "failure" /\ main'.at = "end" /\ main'.error = main.error /\ main'.publish = main.publish
      BY <2>17 DEF DoneWriteFailure
    <3> QED BY <1>0, <1>1, <2>1, <3>1, <3>2, <3>3 DEF DiskStages, EdgeStages, Settled, Sealed
  <2>18. CASE DiskStepFails
    BY <1>0, <1>1, <2>1, <2>18 DEF DiskStepFails, DiskStays, DiskIs, DiskStages, EdgeStages, Settled, Sealed
  <2> QED BY <1>1, <2>3, <2>4, <2>5, <2>6, <2>7, <2>8, <2>9, <2>10, <2>11, <2>12, <2>13, <2>14, <2>15, <2>16, <2>17, <2>18
          DEF EdgeDiskMoves
<1>10. EdgeFlow'
  <2>1. main'.at \in Filling => main.at \in Filling
    BY <1>3 DEF Filling
  <2>2. child \in [Children -> Kids] /\ irRows \in Seq(Int)
    BY <1>0, StreamFacts DEF EdgeTypes
  <2> HIDE DEF Main2
  <2> QED BY <1>0, <1>1, <1>7, <2>1, <2>2, EntriesFlow
<1>11. StreamTypes' /\ Pairing' /\ TargetStages'
  <2>1. main'.at \in Stopping \cup Finishing \cup Later => main.at \in Stopping \cup Finishing \cup Later
    BY <1>3
  <2>2. main'.at \in Before => main.at \in Before
    BY <1>3 DEF Before
  <2> HIDE DEF Main2, Stopping, Finishing, Later
  <2> QED BY <1>0, <1>1, <2>1, <2>2, StreamsKept
<1>12. EdgeVerdict'
  <2>1. main'.at \in Sealing \cup Publishing => main.at \in Sealing \cup Publishing
    BY <1>3
  <2>2. disk'.name = "final" => disk.name = "final" \/ main.at \in Sealing
    BY <1>1 DEF EdgeDiskMoves, DonePrepare, DoneStopSerial, DoneSyncIndexes, DoneWriteManifest, DoneSyncPartial, DoneRename,
                DoneSyncRoot, DoneUnlinkMarker, DoneSyncFinal, DoneSyncRootAgain, DoneUndoMark, DoneUndoSync,
                DoneUndoRename, DoneUndoRoot, DoneWriteFailure, DiskStepFails, SameDisk, DiskIs, DiskStays
  <2>3. main'.at \in Sealing \cup Publishing \/ disk'.name = "final" => serial' = serial
    BY <1>0, <1>1, <2>1, <2>2 DEF DiskStages
  <2> HIDE DEF Main2, Sealing, Publishing
  <2>4. CASE main'.at \in Sealing \cup Publishing \/ disk'.name = "final"
    BY <1>0, <1>1, <1>6, <2>1, <2>2, <2>3, <2>4, VerdictKept
  <2> QED BY <2>4 DEF EdgeVerdict
<1> QED BY <1>2, <1>5, <1>8, <1>9, <1>10, <1>11, <1>12 DEF EdgeInv, EdgeControl

-----------------------------------------------------------------------------
(* The steps of main that change the children.                              *)

\* What is put in a child's queue is its last entry.
LEMMA EntriesPut ==
    ASSUME NEW c \in Kids, NEW f \in Int
    PROVE  /\ Put(c, f) \in Kids /\ Entries(Put(c, f)) = Append(Entries(c), f)
           /\ Put(c, f).thread = c.thread /\ Put(c, f).process = c.process /\ Put(c, f).failed = c.failed
           /\ Put(c, f).cancel = c.cancel /\ Put(c, f).held = c.held /\ Put(c, f).written = c.written
<1> DEFINE Q == c.queue
           R == Append(c.queue, f)
           A == c.written \o c.held
<1>1. Q \in Seq(Int) /\ R \in Seq(Int) /\ A \in Seq(Int) /\ <<f>> \in Seq(Int)
  BY KidFacts, AppendProperties, ConcatProperties
<1>2. Put(c, f) = [c EXCEPT !.queue = R]
  BY DEF Put
<1>3. /\ Put(c, f) \in Kids /\ Put(c, f).queue = R
      /\ Put(c, f).thread = c.thread /\ Put(c, f).process = c.process /\ Put(c, f).failed = c.failed
      /\ Put(c, f).cancel = c.cancel /\ Put(c, f).held = c.held /\ Put(c, f).written = c.written
  <2> HIDE DEF R
  <2> QED BY <1>1, <1>2 DEF Kids
<1>4. Entries(Put(c, f)) = A \o R /\ Entries(c) = A \o Q
  BY <1>3 DEF Entries
<1>5. R = Q \o <<f>>
  BY <1>1, AppendIsConcat
<1> HIDE DEF Q, R, A
<1>6. A \o (Q \o <<f>>) = (A \o Q) \o <<f>>
  BY <1>1, ConcatAssociative
<1>7. A \o Q \in Seq(Int)
  BY <1>1, ConcatProperties
<1>8. Append(A \o Q, f) = (A \o Q) \o <<f>>
  BY <1>7, AppendIsConcat
<1> QED BY <1>3, <1>4, <1>5, <1>6, <1>8

\* A sentinel put behind the rows; a frame put with its row, and before it.
LEMMA FollowsEnd ==
    ASSUME NEW e \in Seq(Int), NEW rows \in Seq(Int), Follows(e, rows, 0)
    PROVE  Follows(Append(e, Sentinel), rows, 0)
<1> DEFINE d == Append(e, Sentinel)
<1>1. /\ Len(e) \in Nat /\ DOMAIN e = 1 .. Len(e) /\ DOMAIN rows = 1 .. Len(rows) /\ Len(rows) \in Nat
      /\ Len(d) = Len(e) + 1 /\ DOMAIN d = 1 .. Len(e) + 1 /\ d[Len(e) + 1] = Sentinel
      /\ \A i \in DOMAIN e : d[i] = e[i]
  BY EndFacts, LenProperties DEF Sentinel
<1> HIDE DEF d
<1>2. Len(rows) <= Len(d) /\ \A i \in DOMAIN rows : d[i] = rows[i]
  BY <1>1 DEF Follows
<1>3. ASSUME NEW i \in DOMAIN d, i > Len(rows) + 0 PROVE d[i] = Sentinel
  <2>1. CASE i \in DOMAIN e
    BY <1>1, <1>3, <2>1 DEF Follows
  <2>2. CASE i = Len(e) + 1
    BY <1>1, <2>2
  <2> QED BY <1>1, <2>1, <2>2
<1>4. Follows(d, rows, 0)
  BY <1>2, <1>3 DEF Follows
<1> QED BY <1>4 DEF d

\* A frame and its row, appended together.
LEMMA FollowsRow ==
    ASSUME NEW e \in Seq(Int), NEW rows \in Seq(Int), NEW q \in Int, Follows(e, rows, 0), Len(e) = Len(rows)
    PROVE  /\ Follows(Append(e, q), Append(rows, q), 0) /\ Len(Append(e, q)) = Len(Append(rows, q))
           /\ Follows(Append(e, q), rows, 1)
<1> DEFINE d == Append(e, q)
           r == Append(rows, q)
<1>1. /\ Len(e) \in Nat /\ DOMAIN e = 1 .. Len(e) /\ DOMAIN rows = 1 .. Len(e)
      /\ Len(d) = Len(e) + 1 /\ DOMAIN d = 1 .. Len(e) + 1 /\ d[Len(e) + 1] = q
      /\ \A i \in DOMAIN e : d[i] = e[i]
      /\ Len(r) = Len(e) + 1 /\ DOMAIN r = 1 .. Len(e) + 1 /\ r[Len(e) + 1] = q
      /\ \A i \in DOMAIN rows : r[i] = rows[i]
  BY EndFacts, LenProperties
<1> HIDE DEF d, r
<1>2. \A i \in 1 .. Len(e) : e[i] = rows[i]
  BY <1>1 DEF Follows
<1>3. ASSUME NEW i \in DOMAIN r PROVE d[i] = r[i]
  <2>1. CASE i \in 1 .. Len(e)
    BY <1>1, <1>2, <2>1
  <2>2. CASE i = Len(e) + 1
    BY <1>1, <2>2
  <2> QED BY <1>1, <2>1, <2>2
<1>4. Follows(d, r, 0)
  BY <1>1, <1>3 DEF Follows
<1>5. Follows(d, rows, 1)
  BY <1>1, <1>2 DEF Follows
<1> QED BY <1>1, <1>4, <1>5 DEF d, r

\* A child after it was cancelled.
LEMMA CancelledFacts ==
    ASSUME NEW c \in Kids
    PROVE  /\ Cancelled(c) \in Kids /\ Cancelled(c).thread = c.thread /\ Cancelled(c).failed = c.failed
           /\ Cancelled(c).held = c.held /\ Cancelled(c).cancel = TRUE
           /\ c.process = "ended" => Cancelled(c).process = "ended"
<1> DEFINE p == IF c.process \in {"run", "hung"} THEN "killed" ELSE c.process
           q == IF c.thread # "done" /\ Len(c.queue) < QueueDepth THEN Append(c.queue, Sentinel) ELSE c.queue
<1>1. p \in EdgeProcesses /\ (c.process = "ended" => p = "ended")
  BY KidFacts DEF EdgeProcesses
<1>2. q \in Seq(Int)
  <2>1. c.queue \in Seq(Int) /\ Sentinel \in Int
    BY KidFacts DEF Sentinel
  <2>2. Append(c.queue, Sentinel) \in Seq(Int)
    BY <2>1, AppendProperties
  <2> QED BY <2>1, <2>2
<1>3. Cancelled(c) = [[[c EXCEPT !.cancel = TRUE] EXCEPT !.process = p] EXCEPT !.queue = q]
  BY DEF Cancelled, Kids
<1> HIDE DEF p, q
<1> QED BY <1>1, <1>2, <1>3 DEF Kids

\* What every such step keeps of the children, and most of their entries.
KidsKept ==
    /\ child' \in [Children -> Kids]
    /\ \A v \in Writers : child'[v].thread = "done" /\ child'[v].failed = FALSE =>
         child'[v].process = "ended" /\ v \in disk.durable
    /\ \A v \in Children : child'[v].thread # "write" => child'[v].held = <<>>
    /\ main.at \notin Starting => \A v \in Children : Complete(v) => Complete(v)'
    /\ \A v \in Children : child'[v].cancel => main'.error # None
EntriesKept ==
    /\ \A v \in Writers : child'[v].failed = FALSE /\ child'[v].cancel = FALSE =>
         child[v].failed = FALSE /\ child[v].cancel = FALSE /\ Entries(child'[v]) = Entries(child[v])
    /\ main'.error = None /\ child'["rgb"].failed = FALSE =>
         child["rgb"].failed = FALSE /\ Entries(child'["rgb"]) = Entries(child["rgb"])

\* For one child it is enough to know what became of it.
KidKept(v, k) ==
    /\ k \in Kids /\ (k.thread # "write" => k.held = <<>>)
    /\ v \in Writers /\ k.thread = "done" /\ k.failed = FALSE => k.process = "ended" /\ v \in disk.durable
    /\ main.at \notin Starting /\ Complete(v) => k.thread = "done" /\ k.process = "ended" /\ k.failed = FALSE
    /\ k.cancel = TRUE => main'.error # None

\* A child that a step leaves alone is kept.
LEMMA SameKid ==
    ASSUME EdgeTypes, ChildStages, NEW v \in Children, main.error # None => main'.error # None
    PROVE  KidKept(v, child[v])
<1>1. child[v] \in Kids /\ child[v].failed \in BOOLEAN /\ child[v].cancel \in BOOLEAN
  BY EdgeFacts, KidFacts
<1> QED BY <1>1 DEF KidKept, ChildStages, Complete

\* A child that a step cancels is kept once main has an error.
LEMMA CancelledKid ==
    ASSUME EdgeTypes, ChildStages, NEW v \in Children, main'.error # None
    PROVE  KidKept(v, Cancelled(child[v])) /\ Cancelled(child[v]).cancel = TRUE
<1> DEFINE k == Cancelled(child[v])
<1>1. child[v] \in Kids /\ child[v].failed \in BOOLEAN
  BY EdgeFacts, KidFacts
<1>2. /\ k \in Kids /\ k.thread = child[v].thread /\ k.failed = child[v].failed
      /\ k.held = child[v].held /\ k.cancel = TRUE
      /\ child[v].process = "ended" => k.process = "ended"
  BY <1>1, CancelledFacts
<1> HIDE DEF k
<1>3. KidKept(v, k)
  BY <1>1, <1>2 DEF KidKept, ChildStages, Complete
<1> QED BY <1>2, <1>3 DEF k

\* The children are kept when each is.
LEMMA KidsAreKept ==
    ASSUME mode' = mode, child' = [v \in Children |-> child'[v]], \A v \in Children : KidKept(v, child'[v])
    PROVE  KidsKept
<1>1. Writers \subseteq Children
  BY ChildrenFacts
<1>2. child' \in [Children -> Kids]
  BY DEF KidKept
<1>3. \A v \in Children : child'[v].cancel \in BOOLEAN /\ child'[v].failed \in BOOLEAN
  BY <1>2, KidFacts
<1> QED BY <1>1, <1>2, <1>3 DEF KidsKept, KidKept, Complete

EdgeChildSteps ==
    \/ /\ \/ StartWriters \/ StartEncoder \/ AwaitEncoder \/ CleanUpChildren
          \/ \E w \in Children : FinishPut(w) \/ FinishJoin(w)
       /\ UNCHANGED <<mode, signals>>
    \/ SecondSignal /\ main.at = "children.cleanup"

SameRun == main'.error = main.error /\ main'.publish = main.publish
EdgeChildMoves ==
    \/ main.at = "ir.start" /\ main'.at = "rgb.start" /\ SameRun /\ child'["rgb"].thread = "new"
    \/ main.at = "rgb.start" /\ main'.at = "sensor.start" /\ SameRun
    \/ Raises({"rgb.start"} \cup Finishing)
    \/ Passes("rgb.put", "rgb.join") \/ Passes("left.put", "left.join") \/ Passes("right.put", "right.join")
    \/ Passes("stereo.put", "stereo.join")
    \/ Passes("rgb.join", "rgb.wait") /\ child'["rgb"].thread = "done"
    \/ Passes("left.join", "right.put") /\ Complete("left")'
    \/ /\ main.at \in {"right.join", "stereo.join"} /\ main'.at = "index" /\ SameRun
       /\ main'.started = {} /\ \A v \in Writers : Complete(v)'
    \/ /\ main.at = "rgb.wait" /\ main'.at = (IF mode = "interleaved" THEN "stereo.put" ELSE "left.put") /\ SameRun
       /\ Complete("rgb")'
    \/ Passes("children.cleanup", "failure") \/ Leaves({"children.cleanup"})

\* A sentinel is put.
SentinelPut ==
    /\ main.at \in Finishing /\ main'.at \in Finishing /\ SameRun
    /\ \E w \in Children : child' = [child EXCEPT ![w] = Put(child[w], Sentinel)]

EdgeChildResult ==
    /\ mode' = mode /\ UNCHANGED <<streams, serial, disk>> /\ signals' \in {0, 1, 2} /\ main' \in Mains
    /\ KidsKept /\ (EntriesKept \/ SentinelPut) /\ EdgeChildMoves
    /\ main.at = "children.cleanup" /\ main.started = {} => child' = child /\ main'.started = {}

\* A step that leaves every child alone keeps children and entries.
LEMMA SameKids ==
    ASSUME EdgeTypes, ChildStages, child' = child, mode' = mode, main.error # None => main'.error # None
    PROVE  KidsKept /\ EntriesKept
<1>1. child \in [Children -> Kids]
  BY EdgeFacts
<1>2. \A v \in Children : KidKept(v, child'[v])
  BY SameKid
<1>3. KidsKept
  BY <1>1, <1>2, KidsAreKept
<1>4. \A v \in Children : child[v].cancel \in BOOLEAN
  BY <1>1, KidFacts
<1>5. EntriesKept
  BY <1>4, ChildrenFacts DEF EntriesKept
<1> QED BY <1>3, <1>5

\* Started children are cancelled.
LEMMA CancelledKids ==
    ASSUME EdgeTypes, ChildStages, mode' = mode, main'.error # None, NEW S,
           child' = [w \in Children |-> IF w \in S THEN Cancelled(child[w]) ELSE child[w]]
    PROVE  KidsKept /\ EntriesKept /\ (S = {} => child' = child)
<1>1. child \in [Children -> Kids]
  BY EdgeFacts
<1>2. \A v \in Children : KidKept(v, child'[v])
  <2> TAKE v \in Children
  <2>1. KidKept(v, child[v]) /\ KidKept(v, Cancelled(child[v]))
    BY SameKid, CancelledKid
  <2>2. child'[v] = child[v] \/ child'[v] = Cancelled(child[v])
    OBVIOUS
  <2> QED BY <2>1, <2>2
<1>3. KidsKept
  BY <1>2, KidsAreKept
<1>4. \A v \in Children : child'[v] = child[v] \/ child'[v].cancel = TRUE
  BY CancelledKid
<1>5. EntriesKept
  <2>1. Writers \subseteq Children
    BY ChildrenFacts
  <2> QED BY <1>4, <2>1 DEF EntriesKept
<1>6. S = {} => child' = child
  BY <1>1
<1> QED BY <1>3, <1>5, <1>6

\* A finish that times out cancels its child and raises.
LEMMA CancelAndRaiseMoves ==
    ASSUME EdgeTypes, ChildStages, mode' = mode, NEW w \in Children, CancelAndRaise(w)
    PROVE  /\ KidsKept /\ EntriesKept /\ main' \in Mains /\ main'.at = "sensor.cleanup" /\ main'.error = "fail"
           /\ main'.started = main.started /\ main'.publish = main.publish
<1>1. /\ main' \in Mains /\ main'.at = "sensor.cleanup" /\ main'.error = "fail"
      /\ main'.started = main.started /\ main'.publish = main.publish
  BY EdgeFacts, MainFacts DEF CancelAndRaise, EdgeErrors
<1>2. child \in [Children -> Kids]
  BY EdgeFacts
<1>3. child' = [v \in Children |-> IF v \in {w} THEN Cancelled(child[v]) ELSE child[v]]
  BY <1>2 DEF CancelAndRaise
<1>4. main'.error # None
  BY <1>1 DEF None
<1>5. KidsKept /\ EntriesKept
  BY <1>3, <1>4, CancelledKids
<1> QED BY <1>1, <1>5

\* What these steps do to the children, and where they lead main.
LEMMA EdgeChildStepMoves ==
    ASSUME EdgeInv, EdgeChildSteps
    PROVE  EdgeChildResult
<1>0. /\ EdgeTypes /\ EdgeStages /\ ChildStages /\ main \in Mains /\ main.at \in EdgeSteps /\ signals \in {0, 1, 2}
      /\ main.publish \in {"no", "cut", "returned"} /\ main.started \subseteq Sides \cup {"stereo", "rgb"}
      /\ child \in [Children -> Kids] /\ "rgb" \in Children /\ Writers \subseteq Children
  BY EdgeFacts, ChildrenFacts DEF EdgeInv, EdgeControl, EdgeTypes
<1>a. /\ \A p \in EdgeSteps :
           Go(p) => /\ main' \in Mains /\ main'.at = p /\ main'.error = main.error
                    /\ main'.started = main.started /\ main'.publish = main.publish
      /\ Raise("fail") => /\ main' \in Mains /\ main'.at = "sensor.cleanup" /\ main'.error = "fail"
                          /\ main'.started = main.started /\ main'.publish = main.publish
      /\ \A q \in {"no", "cut", "returned"} :
           Leave("abort", q) => /\ main' \in Mains /\ main'.at = "end" /\ main'.error = "abort"
                                /\ main'.started = main.started /\ main'.publish = q
  BY <1>0, MainFacts DEF EdgeErrors
<1>b. {"rgb.start", "sensor.start", "rgb.join", "left.join", "right.join", "stereo.join", "rgb.wait", "right.put", "index",
       "stereo.put", "left.put", "failure"} \subseteq EdgeSteps
  BY DEF EdgeSteps, EdgeWorking, Recording, Starting, Finishing, ColorFinish, LeftFinish, RightFinish, StereoFinish,
         Judging, CleaningUp
<1>c. \A p \in EdgeSteps, S \in SUBSET (Sides \cup {"stereo", "rgb"}) :
        main' = [main EXCEPT !.at = p, !.started = S] =>
          /\ main' \in Mains /\ main'.at = p /\ main'.error = main.error
          /\ main'.started = S /\ main'.publish = main.publish
  <2> TAKE p \in EdgeSteps, S \in SUBSET (Sides \cup {"stereo", "rgb"})
  <2> HAVE main' = [main EXCEPT !.at = p, !.started = S]
  <2>1. main' = [[main EXCEPT !.at = p] EXCEPT !.started = S]
    BY <1>0
  <2> QED BY <1>0, <2>1 DEF Mains
<1>1. ASSUME StartWriters, UNCHANGED <<mode, signals>> PROVE EdgeChildResult
  <2>1. main' = [main EXCEPT !.at = "rgb.start", !.started = Writers] /\ main.at = "ir.start"
        /\ UNCHANGED <<streams, serial, disk>>
    BY <1>1 DEF StartWriters
  <2>2. Writers \subseteq Sides \cup {"stereo", "rgb"} /\ "rgb" \notin Writers
    BY ChildrenFacts
  <2>3. main' \in Mains /\ main'.at = "rgb.start" /\ SameRun
    BY <1>b, <1>c, <2>1, <2>2 DEF SameRun
  <2>4. \A v \in Children : child[v].thread = "new" /\ child[v] \in Kids
    BY SMTT(30), <1>0, <2>1 DEF ChildStages, Unstarted
  <2> DEFINE Run(c) == [c EXCEPT !.thread = "take", !.process = "run"]
             running == [w \in Children |-> IF w \in Writers THEN Run(child[w]) ELSE child[w]]
  <2>5. /\ \A v \in Children : child'[v] = child[v] \/ child'[v] = Run(child[v]) \/ child'[v] = Died(child[v])
        /\ child' = [v \in Children |-> child'[v]] /\ child'["rgb"] = child["rgb"]
    <3>1. CASE child' = running
      BY <1>0, <2>2, <3>1
    <3>2. CASE \E w \in Writers : child' = [running EXCEPT ![w] = Died(child[w])]
      <4>1. PICK w \in Writers : child' = [running EXCEPT ![w] = Died(child[w])]
        BY <3>2
      <4> QED BY <1>0, <2>2, <4>1
    <3> QED BY <1>1, <3>1, <3>2 DEF StartWriters
  <2>6. ASSUME NEW c \in Kids
        PROVE  /\ Run(c) \in Kids /\ Run(c).thread = "take" /\ Run(c).failed = c.failed /\ Run(c).cancel = c.cancel
               /\ Entries(Run(c)) = Entries(c) /\ Run(c).held = c.held
    <3>1. Run(c) = [[c EXCEPT !.thread = "take"] EXCEPT !.process = "run"]
      BY DEF Kids
    <3>2. /\ Run(c) \in Kids /\ Run(c).thread = "take" /\ Run(c).failed = c.failed /\ Run(c).cancel = c.cancel
          /\ Run(c).held = c.held /\ Run(c).queue = c.queue /\ Run(c).written = c.written
      BY <3>1 DEF Kids, EdgeThreads, EdgeProcesses
    <3> QED BY <3>2 DEF Entries
  <2>7. \A v \in Children : child[v].held = <<>> /\ (child[v].cancel = TRUE => main.error # None)
    BY <1>0, <2>4, KidFacts DEF ChildStages
  <2> HIDE DEF Run, running
  <2>8. main.at \in Starting /\ (main.error # None => main'.error # None)
    BY <2>1, <2>3 DEF Starting, SameRun
  <2>9. ASSUME NEW v \in Children
        PROVE  /\ KidKept(v, child'[v])
               /\ child'[v].failed = FALSE => child[v].failed = FALSE /\ Entries(child'[v]) = Entries(child[v])
                                              /\ child'[v].cancel = child[v].cancel
    <3>1. child[v] \in Kids /\ child[v].held = <<>> /\ child[v].failed \in BOOLEAN
          /\ (child[v].cancel = TRUE => main'.error # None)
      BY <2>4, <2>7, <2>8, KidFacts
    <3>2. CASE child'[v] = child[v]
      BY <1>0, <2>8, <3>2, SameKid
    <3>3. CASE child'[v] = Run(child[v])
      BY <2>6, <2>8, <3>1, <3>3 DEF KidKept
    <3>4. CASE child'[v] = Died(child[v])
      <4>1. /\ child'[v] \in Kids /\ child'[v].thread = "done" /\ child'[v].failed = TRUE
            /\ child'[v].held = <<>> /\ child'[v].cancel = child[v].cancel
        BY <3>1, <3>4, DiedFacts
      <4> QED BY <2>8, <3>1, <4>1 DEF KidKept
    <3> QED BY <2>5, <3>2, <3>3, <3>4
  <2>10. KidsKept
    BY <1>1, <2>5, <2>9, KidsAreKept
  <2>11. EntriesKept
    BY <1>0, <2>9 DEF EntriesKept
  <2>12. child'["rgb"].thread = "new"
    BY <1>0, <2>4, <2>5
  <2> QED BY <1>0, <1>1, <2>1, <2>3, <2>10, <2>11, <2>12 DEF EdgeChildResult, EdgeChildMoves
<1>2. ASSUME StartEncoder, UNCHANGED <<mode, signals>> PROVE EdgeChildResult
  <2>1. main.at = "rgb.start" /\ UNCHANGED <<streams, serial, disk>>
    BY <1>2 DEF StartEncoder
  <2>2. CASE Raise("fail") /\ UNCHANGED child
    <3>1. main'.error # None
      BY <1>a, <2>2 DEF None
    <3>2. KidsKept /\ EntriesKept
      BY <1>0, <1>2, <2>2, <3>1, SameKids
    <3> QED BY <1>0, <1>2, <1>a, <2>1, <2>2, <3>2 DEF EdgeChildResult, EdgeChildMoves, Raises
  <2>3. CASE /\ main' = [main EXCEPT !.at = "sensor.start", !.started = @ \cup {"rgb"}]
             /\ child' = [child EXCEPT !["rgb"].thread = "take", !["rgb"].process = "run"]
    <3> DEFINE S == main.started \cup {"rgb"}
    <3>1. S \subseteq Sides \cup {"stereo", "rgb"} /\ main' = [main EXCEPT !.at = "sensor.start", !.started = S]
      BY <1>0, <2>3
    <3>2. main' \in Mains /\ main'.at = "sensor.start" /\ SameRun
      BY ZenonT(60), <1>b, <1>c, <3>1 DEF SameRun
    <3> DEFINE c == child["rgb"]
               k == [[c EXCEPT !.thread = "take"] EXCEPT !.process = "run"]
    <3>3. child' = [child EXCEPT !["rgb"] = k]
      BY <1>0, <2>3
    <3>4. c \in Kids /\ c.thread = "new"
      BY <1>0, <2>1 DEF ChildStages
    <3>5. /\ k \in Kids /\ k.thread = "take" /\ k.failed = c.failed /\ k.cancel = c.cancel
          /\ k.held = c.held /\ k.queue = c.queue /\ k.written = c.written
      BY <3>4 DEF Kids, EdgeThreads, EdgeProcesses
    <3>6. Entries(k) = Entries(c)
      BY <3>5 DEF Entries
    <3> HIDE DEF k, S
    <3>7. main.at \in Starting /\ (main.error # None => main'.error # None)
      BY <2>1, <3>2 DEF Starting, SameRun
    <3>8. \A v \in Children : child'[v] = IF v = "rgb" THEN k ELSE child[v]
      BY <1>0, <3>3
    <3>9. \A v \in Children : KidKept(v, child'[v])
      <4> TAKE v \in Children
      <4>1. CASE v = "rgb"
        <5>1. c.held = <<>> /\ (c.cancel = TRUE => main.error # None)
          BY <1>0, <3>4, KidFacts DEF ChildStages
        <5> QED BY <3>5, <3>7, <3>8, <4>1, <5>1 DEF KidKept
      <4>2. CASE v # "rgb"
        BY <1>0, <3>7, <3>8, <4>2, SameKid
      <4> QED BY <4>1, <4>2
    <3>10. KidsKept
      BY <1>0, <1>2, <3>3, <3>9, KidsAreKept
    <3>11. EntriesKept
      BY <1>0, <3>5, <3>6, <3>8, ChildrenFacts DEF EntriesKept
    <3> QED BY <1>0, <1>2, <2>1, <3>2, <3>10, <3>11 DEF EdgeChildResult, EdgeChildMoves
  <2> QED BY <1>2, <2>2, <2>3 DEF StartEncoder
<1>3. ASSUME AwaitEncoder, UNCHANGED <<mode, signals>> PROVE EdgeChildResult
  <2>1. main.at = "rgb.wait" /\ UNCHANGED <<streams, serial, disk>> /\ main.at \in Finishing /\ child["rgb"].thread = "done"
    BY <1>0, <1>3 DEF AwaitEncoder, Finishing, ColorFinish, ChildStages
  <2>2. CASE /\ child["rgb"].process = "ended" /\ ~child["rgb"].failed
             /\ main' = [main EXCEPT !.at = IF mode = "interleaved" THEN "stereo.put" ELSE "left.put",
                                       !.started = @ \ {"rgb"}]
             /\ UNCHANGED child
    <3> DEFINE p == IF mode = "interleaved" THEN "stereo.put" ELSE "left.put"
               S == main.started \ {"rgb"}
    <3>1. p \in EdgeSteps /\ S \subseteq Sides \cup {"stereo", "rgb"} /\ main' = [main EXCEPT !.at = p, !.started = S]
      BY <1>0, <1>b, <2>2
    <3> HIDE DEF p, S
    <3>2. main' \in Mains /\ main'.at = p /\ SameRun
      BY <1>c, <3>1 DEF SameRun
    <3>3. KidsKept /\ EntriesKept
      BY <1>0, <1>3, <2>2, <3>2, SameKids DEF SameRun
    <3>4. Complete("rgb")'
      BY <2>1, <2>2 DEF Complete
    <3> QED BY <1>0, <1>3, <2>1, <3>2, <3>3, <3>4 DEF EdgeChildResult, EdgeChildMoves, p
  <2>3. CASE Raise("fail") /\ UNCHANGED child
    <3>1. main'.error # None
      BY <1>a, <2>3 DEF None
    <3>2. KidsKept /\ EntriesKept
      BY <1>0, <1>3, <2>3, <3>1, SameKids
    <3> QED BY <1>0, <1>3, <1>a, <2>1, <2>3, <3>2 DEF EdgeChildResult, EdgeChildMoves, Raises
  <2>4. CASE CancelAndRaise("rgb")
    BY <1>0, <1>3, <2>1, <2>4, CancelAndRaiseMoves DEF EdgeChildResult, EdgeChildMoves, Raises
  <2> QED BY <1>3, <2>2, <2>3, <2>4 DEF AwaitEncoder
<1>4. ASSUME CleanUpChildren, UNCHANGED <<mode, signals>> PROVE EdgeChildResult
  <2>1. main.at = "children.cleanup" /\ UNCHANGED <<streams, serial, disk>> /\ Go("failure") /\ CancelStarted
    BY <1>4 DEF CleanUpChildren
  <2>2. /\ main' \in Mains /\ main'.at = "failure" /\ main'.error = main.error
        /\ main'.started = main.started /\ main'.publish = main.publish
    BY <1>a, <1>b, <2>1
  <2>3. main'.error # None
    BY <1>0, <2>1, <2>2 DEF EdgeStages, CleaningUp
  <2>4. KidsKept /\ EntriesKept /\ (main.started = {} => child' = child)
    BY <1>0, <1>4, <2>1, <2>3, CancelledKids DEF CancelStarted
  <2> QED BY <1>0, <1>4, <2>1, <2>2, <2>4 DEF EdgeChildResult, EdgeChildMoves, Passes
<1>5. ASSUME SecondSignal, main.at = "children.cleanup" PROVE EdgeChildResult
  <2>1. /\ mode' = mode /\ signals' = 2 /\ UNCHANGED <<streams, serial, disk>>
        /\ Leave("abort", main.publish) /\ CancelStarted
    BY <1>5 DEF SecondSignal, Published, Undoing
  <2>2. /\ main' \in Mains /\ main'.at = "end" /\ main'.error = "abort"
        /\ main'.started = main.started /\ main'.publish = main.publish
    BY <1>0, <1>a, <2>1
  <2>3. main'.error # None
    BY <2>2 DEF None
  <2>4. KidsKept /\ EntriesKept /\ (main.started = {} => child' = child)
    BY <1>0, <2>1, <2>3, CancelledKids DEF CancelStarted
  <2> QED BY <1>0, <1>5, <2>1, <2>2, <2>4 DEF EdgeChildResult, EdgeChildMoves, Leaves
<1>6. ASSUME NEW w \in Children, FinishPut(w), UNCHANGED <<mode, signals>> PROVE EdgeChildResult
  <2>1. /\ main.at = FinishAt[w] /\ UNCHANGED <<streams, serial, disk>>
        /\ w \in {"left", "right", "stereo", "rgb"} /\ FinishAt[w] \in Finishing /\ JoinAt[w] \in Finishing
        /\ JoinAt[w] \in EdgeSteps
    BY <1>6, <1>b, ChildrenFacts
       DEF FinishPut, Sides, FinishAt, JoinAt, Finishing, ColorFinish, LeftFinish, RightFinish, StereoFinish
  <2>2. ASSUME Go(JoinAt[w])
        PROVE  /\ main' \in Mains /\ EdgeChildMoves /\ SameRun /\ main'.at \in Finishing
    <3>1. /\ main' \in Mains /\ main'.at = JoinAt[w] /\ main'.error = main.error
          /\ main'.started = main.started /\ main'.publish = main.publish
      BY <1>a, <2>1, <2>2
    <3>2. CASE w = "rgb"
      BY <2>1, <3>1, <3>2 DEF EdgeChildMoves, Passes, SameRun, FinishAt, JoinAt
    <3>3. CASE w = "left"
      BY <2>1, <3>1, <3>3 DEF EdgeChildMoves, Passes, SameRun, FinishAt, JoinAt
    <3>4. CASE w = "right"
      BY <2>1, <3>1, <3>4 DEF EdgeChildMoves, Passes, SameRun, FinishAt, JoinAt
    <3>5. CASE w = "stereo"
      BY <2>1, <3>1, <3>5 DEF EdgeChildMoves, Passes, SameRun, FinishAt, JoinAt
    <3> QED BY <2>1, <3>2, <3>3, <3>4, <3>5
  <2>3. main.at # "children.cleanup"
    BY <2>1 DEF Finishing, ColorFinish, LeftFinish, RightFinish, StereoFinish
  <2>4. CASE Go(JoinAt[w]) /\ UNCHANGED child
    <3>1. KidsKept /\ EntriesKept
      BY <1>0, <1>6, <2>2, <2>4, SameKids DEF SameRun
    <3> QED BY <1>0, <1>6, <2>1, <2>2, <2>3, <2>4, <3>1 DEF EdgeChildResult
  <2>5. CASE /\ child[w].thread # "done"
             /\ child' = [child EXCEPT ![w] = Put(@, Sentinel)]
             /\ Go(JoinAt[w])
    <3> DEFINE k == Put(child[w], Sentinel)
    <3>1. child' = [child EXCEPT ![w] = k] /\ main.error = main'.error
      BY <2>2, <2>5 DEF SameRun
    <3>2. SentinelPut
      BY <2>1, <2>2, <2>5 DEF SentinelPut
    <3>3. child[w] \in Kids /\ Sentinel \in Int
      BY <1>0 DEF Sentinel
    <3>4. /\ k \in Kids /\ k.thread = child[w].thread /\ k.process = child[w].process /\ k.failed = child[w].failed
          /\ k.cancel = child[w].cancel /\ k.held = child[w].held
      BY <3>3, EntriesPut
    <3> HIDE DEF k
    <3>5. \A v \in Children : child'[v] = IF v = w THEN k ELSE child[v]
      BY <1>0, <3>1
    <3>6. \A v \in Children : KidKept(v, child'[v])
      <4> TAKE v \in Children
      <4>1. KidKept(v, child[v])
        BY <1>0, <3>1, SameKid
      <4> QED BY <3>4, <3>5, <4>1 DEF KidKept
    <3>7. KidsKept
      BY <1>0, <1>6, <3>1, <3>6, KidsAreKept
    <3> QED BY <1>0, <1>6, <2>1, <2>2, <2>3, <2>5, <3>2, <3>7 DEF EdgeChildResult
  <2>6. CASE CancelAndRaise(w)
    <3>1. /\ KidsKept /\ EntriesKept /\ main' \in Mains /\ main'.at = "sensor.cleanup" /\ main'.error = "fail"
          /\ main'.started = main.started /\ main'.publish = main.publish
      BY <1>0, <1>6, <2>6, CancelAndRaiseMoves
    <3>2. EdgeChildMoves
      BY <2>1, <3>1 DEF EdgeChildMoves, Raises
    <3> QED BY <1>0, <1>6, <2>1, <2>3, <3>1, <3>2 DEF EdgeChildResult
  <2> QED BY <1>6, <2>4, <2>5, <2>6 DEF FinishPut
<1>7. ASSUME NEW w \in Children, FinishJoin(w), UNCHANGED <<mode, signals>> PROVE EdgeChildResult
  <2>1. /\ main.at = JoinAt[w] /\ UNCHANGED <<streams, serial, disk>>
        /\ w \in {"left", "right", "stereo", "rgb"} /\ JoinAt[w] \in Finishing /\ AfterJoin[w] \in EdgeSteps
    BY <1>7, <1>b, ChildrenFacts
       DEF FinishJoin, Sides, JoinAt, AfterJoin, Finishing, ColorFinish, LeftFinish, RightFinish, StereoFinish
  <2>2. main.at # "children.cleanup"
    BY <2>1 DEF Finishing, ColorFinish, LeftFinish, RightFinish, StereoFinish
  <2>3. CASE CancelAndRaise(w)
    <3>1. /\ KidsKept /\ EntriesKept /\ main' \in Mains /\ main'.at = "sensor.cleanup" /\ main'.error = "fail"
          /\ main'.started = main.started /\ main'.publish = main.publish
      BY <1>0, <1>7, <2>3, CancelAndRaiseMoves
    <3>2. EdgeChildMoves
      BY <2>1, <3>1 DEF EdgeChildMoves, Raises
    <3> QED BY <1>0, <1>7, <2>1, <2>2, <3>1, <3>2 DEF EdgeChildResult
  <2>4. CASE UNCHANGED child /\ Raise("fail")
    <3>1. main'.error # None
      BY <1>a, <2>4 DEF None
    <3>2. KidsKept /\ EntriesKept
      BY <1>0, <1>7, <2>4, <3>1, SameKids
    <3>3. EdgeChildMoves
      BY <1>a, <2>1, <2>4 DEF EdgeChildMoves, Raises
    <3> QED BY <1>0, <1>7, <1>a, <2>1, <2>2, <2>4, <3>2, <3>3 DEF EdgeChildResult
  <2>5. CASE /\ child[w].thread = "done" /\ UNCHANGED child /\ ~(w # "rgb" /\ child[w].failed)
             /\ main' = [main EXCEPT !.at = AfterJoin[w],
                                     !.started = IF w \in {"right", "stereo"} THEN {} ELSE @]
    <3> DEFINE S == IF w \in {"right", "stereo"} THEN {} ELSE main.started
    <3>1. S \subseteq Sides \cup {"stereo", "rgb"} /\ main' = [main EXCEPT !.at = AfterJoin[w], !.started = S]
      BY <1>0, <2>5
    <3> HIDE DEF S
    <3>2. main' \in Mains /\ main'.at = AfterJoin[w] /\ SameRun /\ main'.started = S
      BY <1>c, <2>1, <3>1 DEF SameRun
    <3>3. KidsKept /\ EntriesKept
      BY <1>0, <1>7, <2>5, <3>2, SameKids DEF SameRun
    <3>4. w # "rgb" => w \in Writers /\ Complete(w)'
      <4>1. w # "rgb" => w \in Writers
        BY ChildrenFacts
      <4>2. child'[w] = child[w]
        BY <2>5
      <4> QED BY <1>0, <2>5, <4>1, <4>2 DEF ChildStages, Complete
    <3>5. EdgeChildMoves
      <4>1. CASE w = "rgb"
        BY <2>1, <2>5, <3>2, <4>1 DEF EdgeChildMoves, Passes, SameRun, JoinAt, AfterJoin, S
      <4>2. CASE w = "left"
        BY <2>1, <2>5, <3>2, <3>4, <4>2 DEF EdgeChildMoves, Passes, SameRun, JoinAt, AfterJoin, S
      <4>3. CASE w = "right"
        <5>1. main.at = "right.join" /\ main.at \in RightFinish
          BY <2>1, <4>3 DEF JoinAt, RightFinish
        <5>2. Writers = {"left", "right"} /\ Complete("left")
          BY <1>0, <5>1 DEF EdgeStages, Writers, Sides, ChildStages
        <5>3. \A v \in Writers : Complete(v)'
          BY <2>5, <3>4, <4>3, <5>2 DEF Complete
        <5> QED BY <3>2, <4>3, <5>1, <5>3 DEF EdgeChildMoves, AfterJoin, S
      <4>4. CASE w = "stereo"
        <5>1. main.at = "stereo.join" /\ main.at \in StereoFinish
          BY <2>1, <4>4 DEF JoinAt, StereoFinish
        <5>2. Writers = {"stereo"}
          BY <1>0, <5>1 DEF EdgeStages, Writers
        <5>3. \A v \in Writers : Complete(v)'
          BY <3>4, <4>4, <5>2
        <5> QED BY <3>2, <4>4, <5>1, <5>3 DEF EdgeChildMoves, AfterJoin, S
      <4> QED BY <2>1, <4>1, <4>2, <4>3, <4>4
    <3> QED BY <1>0, <1>7, <2>1, <2>2, <3>2, <3>3, <3>5 DEF EdgeChildResult
  <2> QED BY <1>7, <2>3, <2>4, <2>5 DEF FinishJoin
<1> QED BY <1>1, <1>2, <1>3, <1>4, <1>5, <1>6, <1>7 DEF EdgeChildSteps

\* A sentinel stands behind the rows of its writer.
LEMMA SentinelFlow ==
    ASSUME EdgeInv, SentinelPut, mode' = mode, UNCHANGED streams
    PROVE  EdgeFlow'
<1>0. /\ EdgeTypes /\ EdgeStages /\ StreamTypes /\ RowsOfWriters /\ FramesOfColor
      /\ child \in [Children -> Kids] /\ "rgb" \in Children /\ Writers \subseteq Children
      /\ irRows \in Seq(Int) /\ seen["color"] \in Seq(Int)
  BY EdgeFacts, ChildrenFacts, StreamFacts DEF EdgeInv, EdgeControl, EdgeFlow, Streams
<1>1. irRows' = irRows /\ seen' = seen /\ Writers' = Writers
  BY ChildrenFacts DEF streams
<1>2. main.error = None /\ main'.error = None /\ main'.at \notin Filling
  BY <1>0 DEF SentinelPut, SameRun, EdgeStages, EdgeWorking, Recording, Filling, Starting, Looping, Finishing, ColorFinish,
              LeftFinish, RightFinish, StereoFinish
<1>3. PICK w \in Children : child' = [child EXCEPT ![w] = Put(child[w], Sentinel)]
  BY DEF SentinelPut
<1>a. \A v \in Children :
        /\ Entries(child[v]) \in Seq(Int) /\ Entries(Put(child[v], Sentinel)) = Append(Entries(child[v]), Sentinel)
        /\ Put(child[v], Sentinel).failed = child[v].failed /\ Put(child[v], Sentinel).cancel = child[v].cancel
  <2> TAKE v \in Children
  <2> DEFINE c == child[v]
  <2>1. c \in Kids /\ Sentinel \in Int
    BY <1>0 DEF Sentinel
  <2> HIDE DEF c
  <2>2. Entries(c) \in Seq(Int)
    BY <2>1, EntriesFacts
  <2>3. Entries(Put(c, Sentinel)) = Append(Entries(c), Sentinel)
        /\ Put(c, Sentinel).failed = c.failed /\ Put(c, Sentinel).cancel = c.cancel
    BY <2>1, EntriesPut
  <2> QED BY <2>2, <2>3 DEF c
<1>4. ASSUME NEW v \in Children, NEW rows \in Seq(Int), Follows(Entries(child[v]), rows, 0)
      PROVE  Follows(Entries(child'[v]), rows, 0)
  <2>1. CASE v = w
    <3>1. child'[v] = Put(child[v], Sentinel)
      BY <1>0, <1>3, <2>1
    <3>2. Entries(child'[v]) = Append(Entries(child[v]), Sentinel) /\ Entries(child[v]) \in Seq(Int)
      BY <1>a, <3>1
    <3> QED BY <1>4, <3>2, FollowsEnd
  <2>2. CASE v # w
    BY <1>0, <1>3, <1>4, <2>2
  <2> QED BY <2>1, <2>2
<1>5. \A v \in Children : child'[v].failed = child[v].failed /\ child'[v].cancel = child[v].cancel
  BY <1>0, <1>3, <1>a
<1>6. RowsOfWriters'
  BY <1>0, <1>1, <1>2, <1>4, <1>5 DEF RowsOfWriters
<1>7. FramesOfColor'
  BY <1>0, <1>1, <1>2, <1>4, <1>5 DEF FramesOfColor
<1> QED BY <1>6, <1>7 DEF EdgeFlow

\* They keep the invariant.
LEMMA EdgeChildStepsKeep ==
    ASSUME EdgeInv, EdgeChildSteps
    PROVE  EdgeInv'
<1>0. /\ EdgeTypes /\ EdgeStages /\ ChildStages /\ DiskStages /\ StreamTypes /\ RowsOfWriters /\ FramesOfColor
      /\ Pairing /\ TargetStages /\ EdgeVerdict
  BY DEF EdgeInv, EdgeControl, EdgeFlow
<1>1. /\ mode' = mode /\ UNCHANGED streams /\ UNCHANGED <<streams, serial>> /\ serial' = serial /\ disk' = disk
      /\ irRows' = irRows /\ seen' = seen
      /\ signals' \in {0, 1, 2} /\ main' \in Mains /\ EdgeChildMoves /\ Writers' = Writers /\ Children' = Children
      /\ KidsKept /\ (EntriesKept \/ SentinelPut)
      /\ main.at = "children.cleanup" /\ main.started = {} => child' = child /\ main'.started = {}
  BY EdgeChildStepMoves, ChildrenFacts DEF EdgeChildResult, streams
<1>2. EdgeTypes'
  BY <1>0, <1>1 DEF EdgeTypes, KidsKept
<1> USE DEF EdgeChildMoves, Passes, Raises, Leaves, SameRun, EdgeWorking, Recording, Starting, Looping, Stopping, Finishing,
            ColorFinish, LeftFinish, RightFinish, StereoFinish, Judging, Sealing, Publishing, Published, CleaningUp, Undoing, Later
<1>3. EdgeStages'
  BY <1>0, <1>1 DEF EdgeStages, None, Modes, EdgeTypes
<1>4. ChildStages'
  <2>1. main.at \notin Starting => \A v \in Children : Complete(v) => Complete(v)'
    BY <1>1 DEF KidsKept
  <2>2. Writers \subseteq Children /\ "rgb" \in Children
    BY ChildrenFacts
  <2>3. \A v \in Children : child'[v].failed \in BOOLEAN
    BY <1>1, KidFacts DEF KidsKept
  <2>4. \A w \in Writers : child'[w].thread = "done" /\ ~child'[w].failed => Complete(w)' /\ w \in disk'.durable
    BY <1>1, <2>2, <2>3 DEF KidsKept, Complete
  <2>5. main'.at \notin Unstarted
    BY <1>1 DEF Unstarted
  <2>6. /\ main'.at = "rgb.start" => child'["rgb"].thread = "new"
        /\ main'.at = "rgb.wait" => child'["rgb"].thread = "done"
    BY <1>1
  <2>7. main'.at \in (Finishing \ ColorFinish) \cup Later => Complete("rgb")'
    BY <1>0, <1>1, <2>1, <2>2 DEF ChildStages
  <2>8. main'.at \in RightFinish => Complete("left")'
    <3>1. main'.at \in RightFinish =>
            Complete("left")' \/ (main.at \in RightFinish /\ mode # "interleaved" /\ main.at \notin Starting)
      BY <1>0, <1>1 DEF EdgeStages
    <3>2. mode # "interleaved" => "left" \in Children
      BY DEF Children, Writers, Sides
    <3> HIDE DEF EdgeChildMoves, RightFinish, Starting
    <3> QED BY <1>0, <2>1, <3>1, <3>2 DEF ChildStages
  <2>9. main'.at \in Later => main'.started = {} /\ \A w \in Writers : Complete(w)'
    BY <1>0, <1>1, <2>1, <2>2 DEF ChildStages
  <2>10. \A w \in Children : child'[w].cancel => main'.error # None
    BY <1>1 DEF KidsKept
  <2>11. \A w \in Children : child'[w].thread # "write" => child'[w].held = <<>>
    BY <1>1 DEF KidsKept
  <2> HIDE DEF EdgeChildMoves, Finishing, ColorFinish, RightFinish, Later
  <2> QED BY <1>1, <2>4, <2>5, <2>6, <2>7, <2>8, <2>9, <2>10, <2>11 DEF ChildStages
<1>5. DiskStages'
  <2>1. Settled' <=> Settled
    BY <1>1 DEF Settled
  <2>2. Lasting' = Lasting
    BY <1>1 DEF Lasting
  <2>3. Sealed(disk)' <=> Sealed(disk)
    BY <1>1 DEF Sealed
  <2> QED BY <1>0, <1>1, <2>1, <2>2, <2>3 DEF DiskStages, EdgeStages, Sealed
<1>6. EdgeFlow'
  <2>1. CASE SentinelPut
    <3> HIDE DEF EdgeChildMoves
    <3> QED BY <1>1, <2>1, SentinelFlow
  <2>2. CASE EntriesKept
    <3>1. main'.at \in Filling => main.at \in Filling
      BY <1>1 DEF Filling
    <3>2. main'.error = None => main.error = None
      BY <1>0, <1>1 DEF EdgeStages, None
    <3>3. child \in [Children -> Kids] /\ child' \in [Children -> Kids] /\ irRows \in Seq(Int)
      BY <1>0, <1>1, StreamFacts DEF EdgeTypes, KidsKept
    <3> HIDE DEF EdgeChildMoves
    <3> QED BY <1>0, <1>1, <2>2, <3>1, <3>2, <3>3, EntriesFlow DEF EntriesKept
  <2> QED BY <1>1, <2>1, <2>2
<1>7. StreamTypes' /\ Pairing' /\ TargetStages'
  <2>1. main'.at \in Stopping \cup Finishing \cup Later => main.at \in Stopping \cup Finishing \cup Later
    BY <1>1
  <2>2. main'.at \in Before => main.at \in Before
    BY <1>1 DEF Before
  <2> HIDE DEF EdgeChildMoves, Stopping, Finishing, Later
  <2> QED BY <1>0, <1>1, <2>1, <2>2, StreamsKept
<1>8. EdgeVerdict'
  <2>1. main'.at \notin Sealing \cup Publishing
    BY <1>1
  <2>2. disk'.name = "final" => main.at = "children.cleanup"
    BY <1>0, <1>1 DEF DiskStages
  <2>3. CASE disk'.name = "final"
    <3>1. Judged
      BY <1>0, <1>1, <2>3 DEF EdgeVerdict
    <3>2. main.started = {}
      BY <3>1 DEF Judged
    <3> HIDE DEF EdgeChildMoves, Sealing, Publishing
    <3> QED BY <1>0, <1>1, <2>1, <2>2, <2>3, <3>2, VerdictKept
  <2> HIDE DEF Sealing, Publishing
  <2> QED BY <2>1, <2>3 DEF EdgeVerdict
<1> QED BY <1>2, <1>3, <1>4, <1>5, <1>6, <1>7, <1>8 DEF EdgeInv, EdgeControl

-----------------------------------------------------------------------------
(* The steps of main in the capture loop.                                   *)

\* What a frame submitted to a child keeps of it.
LEMMA PutIsKept ==
    ASSUME EdgeTypes, ChildStages, NEW v \in Children, NEW f \in Int, main.error # None => main'.error # None
    PROVE  KidKept(v, Put(child[v], f))
<1> DEFINE k == Put(child[v], f)
<1>1. child[v] \in Kids
  BY EdgeFacts
<1>2. /\ k \in Kids /\ k.thread = child[v].thread /\ k.process = child[v].process /\ k.failed = child[v].failed
      /\ k.cancel = child[v].cancel /\ k.held = child[v].held
  BY <1>1, EntriesPut
<1> HIDE DEF k
<1>3. KidKept(v, child[v])
  BY SameKid
<1>4. KidKept(v, k)
  BY <1>2, <1>3 DEF KidKept
<1> QED BY <1>4 DEF k

\* Main stays before the shutdown, enters it, or raises.
LoopMoves ==
    \/ Passes("warmup", "loop.top") \/ Passes("loop.top", "loop.wait") \/ Passes("loop.wait", "loop.top")
    \/ Passes("loop.top", "serial.stop") \/ Raises({"warmup"} \cup Looping)
LoopResult ==
    /\ mode' = mode /\ signals' = signals /\ disk' = disk /\ serial' \in {"new", "recording", "gapless", "lossy"}
    /\ main' \in Mains /\ KidsKept /\ LoopMoves

\* The loop's steps keep the stages of main, of the children and of the
\* directory.
LEMMA LoopControl ==
    ASSUME EdgeInv, LoopResult
    PROVE  EdgeControl' /\ EdgeVerdict'
<1>0. /\ EdgeTypes /\ EdgeStages /\ ChildStages /\ DiskStages /\ EdgeVerdict
  BY DEF EdgeInv, EdgeControl
<1>1. /\ mode' = mode /\ signals' = signals /\ disk' = disk /\ serial' \in {"new", "recording", "gapless", "lossy"}
      /\ main' \in Mains /\ KidsKept /\ LoopMoves /\ Writers' = Writers /\ Children' = Children
  BY ChildrenFacts DEF LoopResult
<1>2. EdgeTypes'
  BY <1>0, <1>1 DEF EdgeTypes, KidsKept
<1> USE DEF LoopMoves, Passes, Raises, EdgeWorking, Recording, Starting, Looping, Stopping, Finishing,
            ColorFinish, LeftFinish, RightFinish, StereoFinish, Judging, Sealing, Publishing, Published, CleaningUp, Undoing, Later
<1>3. EdgeStages'
  BY <1>0, <1>1 DEF EdgeStages, None
<1>4. ChildStages'
  <2>1. Writers \subseteq Children
    BY ChildrenFacts
  <2>2. \A v \in Children : child'[v].failed \in BOOLEAN
    BY <1>1, KidFacts DEF KidsKept
  <2>3. \A w \in Writers : child'[w].thread = "done" /\ ~child'[w].failed => Complete(w)' /\ w \in disk'.durable
    BY <1>1, <2>1, <2>2 DEF KidsKept, Complete
  <2>4. /\ main'.at \notin Unstarted \cup Finishing \cup Later /\ main'.at \notin {"rgb.start", "rgb.wait"}
        /\ main'.at \notin RightFinish
    BY <1>1 DEF Unstarted
  <2>5. \A w \in Children : child'[w].cancel => main'.error # None
    BY <1>1 DEF KidsKept
  <2>6. \A w \in Children : child'[w].thread # "write" => child'[w].held = <<>>
    BY <1>1 DEF KidsKept
  <2> HIDE DEF LoopMoves, Finishing, ColorFinish, RightFinish, Later
  <2> QED BY <1>1, <2>3, <2>4, <2>5, <2>6 DEF ChildStages
<1>5. DiskStages'
  <2>1. Settled' <=> Settled
    BY <1>1 DEF Settled
  <2>2. Lasting' = Lasting
    BY <1>1 DEF Lasting
  <2>3. Sealed(disk)' <=> Sealed(disk)
    BY <1>1 DEF Sealed
  <2> QED BY <1>0, <1>1, <2>1, <2>2, <2>3 DEF DiskStages, EdgeStages, Sealed
<1>6. EdgeVerdict'
  <2>1. main'.at \notin Sealing \cup Publishing /\ disk'.name # "final"
    BY <1>0, <1>1 DEF DiskStages
  <2> QED BY <2>1 DEF EdgeVerdict
<1> QED BY <1>2, <1>3, <1>4, <1>5, <1>6 DEF EdgeControl

\* Where the loop's steps lead main.
LEMMA LoopMains ==
    ASSUME main \in Mains
    PROVE  /\ \A p \in {"loop.top", "loop.wait", "serial.stop"} :
                Go(p) => /\ main' \in Mains /\ main'.at = p /\ main'.error = main.error
                         /\ main'.started = main.started /\ main'.publish = main.publish
           /\ Raise("fail") => /\ main' \in Mains /\ main'.at = "sensor.cleanup" /\ main'.error = "fail"
                               /\ main'.started = main.started /\ main'.publish = main.publish
<1>1. {"loop.top", "loop.wait", "serial.stop"} \subseteq EdgeSteps /\ "fail" \in EdgeErrors
  BY DEF EdgeSteps, EdgeWorking, Recording, Looping, Stopping, EdgeErrors
<1> QED BY <1>1, MainFacts

\* The warm-up, whose drain may take one eye of a pair.
LEMMA WarmUpKeeps ==
    ASSUME EdgeInv, WarmUp, UNCHANGED <<mode, signals>>
    PROVE  EdgeInv'
<1>0. /\ EdgeTypes /\ EdgeStages /\ ChildStages /\ DiskStages /\ StreamTypes /\ RowsOfWriters /\ FramesOfColor
      /\ Pairing /\ TargetStages /\ EdgeVerdict
      /\ main \in Mains /\ child \in [Children -> Kids] /\ serial \in {"new", "recording", "gapless", "lossy"}
  BY EdgeFacts DEF EdgeInv, EdgeControl, EdgeFlow, EdgeTypes
<1>1. /\ main.at = "warmup" /\ seen' = seen /\ target' = target /\ pending' = pending /\ irRows' = irRows
      /\ evidence' = evidence /\ child' = child /\ disk' = disk /\ mode' = mode /\ signals' = signals
      /\ serial' \in {"new", "recording", "gapless", "lossy"}
  BY <1>0 DEF WarmUp, Call
<1>2. /\ main' \in Mains /\ main.error = None
      /\ Passes("warmup", "loop.top") \/ Raises({"warmup"} \cup Looping)
  <2>1. Go("loop.top") \/ Raise("fail")
    BY DEF WarmUp, Call
  <2> QED BY <1>0, <1>1, <2>1, LoopMains DEF Passes, Raises, EdgeStages, EdgeWorking, Recording, Starting
<1>3. KidsKept /\ EntriesKept
  BY <1>0, <1>1, <1>2, SameKids
<1>4. EdgeControl' /\ EdgeVerdict'
  BY <1>1, <1>2, <1>3, LoopControl DEF LoopResult, LoopMoves
<1>5. EdgeFlow'
  <2>1. main.at \in Filling
    BY <1>1 DEF Filling, Starting
  <2>2. irRows \in Seq(Int)
    BY <1>0, StreamFacts
  <2> QED BY <1>0, <1>1, <1>2, <1>3, <2>1, <2>2, EntriesFlow DEF EntriesKept
<1>6. /\ next' \in [Streams -> Int] /\ \A s \in Streams : 1 <= next'[s] /\ seen[s] = <<>>
  <2>1. \A s \in Streams : seen[s] = <<>> /\ 1 <= next[s]
    BY <1>0, <1>1 DEF TargetStages, Before, Starting, Pairing, Ascending
  <2>2. next \in [Streams -> Int]
    BY <1>0, StreamFacts
  <2>3. next' = next \/ \E s \in Sides : next' = [next EXCEPT ![s] = 2]
    BY DEF WarmUp
  <2> QED BY <2>1, <2>2, <2>3
<1>7. StreamTypes'
  BY <1>0, <1>1, <1>6 DEF StreamTypes
<1>8. Pairing'
  <2>1. \A s \in Streams : Ascending(s)'
    BY <1>1, <1>6 DEF Ascending
  <2> QED BY <1>0, <1>1, <2>1 DEF Pairing, Occurs, RowsApart
<1>9. TargetStages'
  <2>1. main'.at \in {"loop.top", "sensor.cleanup"}
    BY <1>2 DEF Passes, Raises
  <2> QED BY <1>0, <1>1, <2>1
      DEF TargetStages, Before, Starting, Stopping, Finishing, ColorFinish, LeftFinish, RightFinish, StereoFinish, Later,
          Judging, Sealing, Publishing, Published
<1> QED BY <1>4, <1>5, <1>7, <1>8, <1>9 DEF EdgeInv

\* The longest of the streams.
LEMMA MostFacts ==
    ASSUME StreamTypes
    PROVE  /\ \A s \in Streams : Received(s) \in Nat /\ Received(s) <= Most
           /\ \E s \in Streams : Most = Received(s)
<1>1. \A s \in Streams : Received(s) \in Nat
  BY StreamFacts DEF Received
<1>2. \E m \in Streams : \A s \in Streams : Received(s) <= Received(m)
  <2> DEFINE l == Received("left")
             r == Received("right")
             c == Received("color")
  <2>1. l \in Nat /\ r \in Nat /\ c \in Nat
    BY <1>1 DEF Streams, Sides
  <2>2. Streams = {"left", "right", "color"}
    BY DEF Streams, Sides
  <2> HIDE DEF l, r, c
  <2>3. \/ (r <= l /\ c <= l /\ l <= l) \/ (l <= r /\ c <= r /\ r <= r) \/ (l <= c /\ r <= c /\ c <= c)
    BY <2>1
  <2> QED BY <2>2, <2>3 DEF l, r, c
<1> DEFINE R == {Received(s) : s \in Streams}
<1>3. \E n \in R : \A s \in Streams : Received(s) <= n
  BY <1>2
<1>4. Most = CHOOSE n \in R : \A s \in Streams : Received(s) <= n
  BY DEF Most
<1>5. Most \in R /\ \A s \in Streams : Received(s) <= Most
  <2> HIDE DEF R
  <2> QED BY <1>3, <1>4
<1> QED BY <1>1, <1>5

\* The target and its evidence as the top of the loop leaves them.
LEMMA TargetChosen ==
    ASSUME StreamTypes, TargetStages, main.at \in Looping, mode \in Modes,
           target' = EndReason[1], evidence' = [reason |-> EndReason[2], stop |-> EndReason[3]]
    PROVE  /\ target' \in Nat /\ evidence' \in Evidences
           /\ target' # 0 => 2 <= target' /\ target' <= MaxFrames /\ \A s \in Streams : Received(s) <= target'
           /\ target' = 0 => mode = "until_signal" /\ evidence'.stop = None
                             /\ \A s \in Streams : Received(s) <= MaxFrames
           /\ mode # "until_signal" => target' = MaxFrames
           /\ mode = "until_signal" /\ target' # 0 =>
                \/ evidence' \in {[reason |-> "external_stop", stop |-> "signal"],
                                  [reason |-> "low_storage_guard", stop |-> "storage"]}
                \/ evidence' = [reason |-> "maximum_duration_complete", stop |-> None] /\ target' = MaxFrames
<1>0. evidence \in Evidences /\ target \in Nat /\ MaxFrames \in Nat /\ 2 <= MaxFrames
      /\ \A s \in Streams : Received(s) \in Nat
  BY StreamFacts, EdgeAssumption DEF StreamTypes, Received
<1>1. CASE target # 0
  <2>1. EndReason = <<target, evidence.reason, evidence.stop>>
    BY <1>1 DEF EndReason
  <2>2. target' = target /\ evidence' = [reason |-> evidence.reason, stop |-> evidence.stop]
    BY <2>1
  <2>3. evidence' = evidence
    BY <1>0, <2>2 DEF Evidences
  <2> QED BY <1>0, <1>1, <2>2, <2>3 DEF TargetStages, Received
<1>2. CASE target = 0 /\ signals > 0
  <2>1. EndReason = <<StopTarget(Most), "external_stop", "signal">>
    BY <1>2 DEF EndReason
  <2>2. target' = StopTarget(Most) /\ evidence' = [reason |-> "external_stop", stop |-> "signal"]
    BY <2>1
  <2>3. \A s \in Streams : Received(s) <= MaxFrames
    BY <1>2 DEF TargetStages, Received
  <2>4. Most \in Nat /\ Most <= MaxFrames /\ \A s \in Streams : Received(s) <= Most
    BY <1>0, <2>3, MostFacts
  <2>5. target' \in Nat /\ 2 <= target' /\ target' <= MaxFrames /\ \A s \in Streams : Received(s) <= target'
    BY <1>0, <2>2, <2>4 DEF StopTarget
  <2>6. mode = "until_signal"
    BY <1>2 DEF TargetStages
  <2>7. evidence' \in Evidences
    BY <2>2 DEF Evidences
  <2> QED BY <2>2, <2>5, <2>6, <2>7
<1>3. CASE target = 0 /\ ~(signals > 0) /\ AtLeast(MaxFrames)
  <2>1. EndReason = <<MaxFrames, "maximum_duration_complete", None>>
    BY <1>3 DEF EndReason
  <2>2. target' = MaxFrames /\ evidence' = [reason |-> "maximum_duration_complete", stop |-> None]
    BY <2>1
  <2>3. mode = "until_signal" /\ \A s \in Streams : Received(s) <= MaxFrames
    BY <1>3 DEF TargetStages, Received
  <2>4. evidence' \in Evidences
    BY <2>2 DEF Evidences
  <2> QED BY <1>0, <2>2, <2>3, <2>4
<1>4. CASE target = 0 /\ ~(signals > 0) /\ ~AtLeast(MaxFrames)
  <2>1. EndReason = <<0, evidence.reason, None>>
    BY <1>4 DEF EndReason
  <2>2. target' = 0 /\ evidence' = [reason |-> evidence.reason, stop |-> None]
    BY <2>1
  <2>3. evidence' \in Evidences /\ evidence'.stop = None
    BY <1>0, <2>2 DEF Evidences
  <2> QED BY <1>4, <2>2, <2>3 DEF TargetStages, Received
<1> QED BY <1>1, <1>2, <1>3, <1>4

\* The head of the loop, where the target and the end are decided.
LEMMA LoopTopKeeps ==
    ASSUME EdgeInv, LoopTop, UNCHANGED <<mode, signals>>
    PROVE  EdgeInv'
<1>0. /\ EdgeTypes /\ EdgeStages /\ ChildStages /\ DiskStages /\ StreamTypes /\ RowsOfWriters /\ FramesOfColor
      /\ Pairing /\ TargetStages /\ EdgeVerdict
      /\ main \in Mains /\ child \in [Children -> Kids] /\ serial \in {"new", "recording", "gapless", "lossy"}
      /\ mode \in Modes
  BY EdgeFacts DEF EdgeInv, EdgeControl, EdgeFlow, EdgeTypes
<1>1. /\ main.at = "loop.top" /\ next' = next /\ seen' = seen /\ pending' = pending /\ irRows' = irRows
      /\ child' = child /\ disk' = disk /\ mode' = mode /\ signals' = signals /\ serial' = serial
      /\ target' = EndReason[1] /\ evidence' = [reason |-> EndReason[2], stop |-> EndReason[3]]
  BY DEF LoopTop
<1>2. /\ main' \in Mains /\ main.error = None
      /\ \/ Passes("loop.top", "serial.stop") /\ target' # 0 /\ AtLeast(target')
         \/ Passes("loop.top", "loop.wait")
         \/ Raises({"warmup"} \cup Looping)
  <2>1. (Go("serial.stop") /\ target' # 0 /\ AtLeast(target')) \/ Go("loop.wait") \/ Raise("fail")
    BY DEF LoopTop
  <2> QED BY <1>0, <1>1, <2>1, LoopMains DEF Passes, Raises, EdgeStages, EdgeWorking, Recording, Looping
<1>3. KidsKept /\ EntriesKept
  BY <1>0, <1>1, <1>2, SameKids
<1>4. EdgeControl' /\ EdgeVerdict'
  BY <1>0, <1>1, <1>2, <1>3, LoopControl DEF LoopResult, LoopMoves
<1>5. EdgeFlow'
  <2>1. main.at \in Filling
    BY <1>1 DEF Filling, Looping
  <2>2. irRows \in Seq(Int)
    BY <1>0, StreamFacts
  <2> QED BY <1>0, <1>1, <1>2, <1>3, <2>1, <2>2, EntriesFlow DEF EntriesKept
<1>6. /\ target' \in Nat /\ evidence' \in Evidences
      /\ target' # 0 => 2 <= target' /\ target' <= MaxFrames /\ \A s \in Streams : Received(s) <= target'
      /\ target' = 0 => mode = "until_signal" /\ evidence'.stop = None
                        /\ \A s \in Streams : Received(s) <= MaxFrames
      /\ mode # "until_signal" => target' = MaxFrames
      /\ mode = "until_signal" /\ target' # 0 =>
           \/ evidence' \in {[reason |-> "external_stop", stop |-> "signal"],
                             [reason |-> "low_storage_guard", stop |-> "storage"]}
           \/ evidence' = [reason |-> "maximum_duration_complete", stop |-> None] /\ target' = MaxFrames
  <2>1. main.at \in Looping
    BY <1>1 DEF Looping
  <2> QED BY <1>0, <1>1, <2>1, TargetChosen
<1>7. StreamTypes'
  BY <1>0, <1>1, <1>6 DEF StreamTypes
<1>8. Pairing'
  BY <1>0, <1>1 DEF Pairing, Ascending, Occurs, RowsApart
<1>9. TargetStages'
  <2>1. main'.at \in Stopping \cup Finishing \cup Later => target' # 0 /\ \A s \in Streams : Len(seen[s]) = target'
    <3>1. main'.at \in Stopping \cup Finishing \cup Later => target' # 0 /\ AtLeast(target')
      BY <1>2 DEF Passes, Raises, Stopping, Finishing, ColorFinish, LeftFinish, RightFinish, StereoFinish, Later,
                  Judging, Sealing, Publishing, Published
    <3>2. ASSUME target' # 0, AtLeast(target'), NEW s \in Streams PROVE Len(seen[s]) = target'
      BY <1>0, <1>6, <3>2, StreamFacts DEF AtLeast, Received
    <3> QED BY <3>1, <3>2
  <2>2. main'.at \notin Before
    BY <1>2 DEF Passes, Raises, Before, Starting
  <2> QED BY <1>1, <1>6, <2>1, <2>2 DEF TargetStages, Received
<1> QED BY <1>4, <1>5, <1>7, <1>8, <1>9 DEF EdgeInv

-----------------------------------------------------------------------------
(* A frame that arrives.                                                    *)

\* A stream's numbers, and the rows among them.
Rising(e, n) ==
    /\ 1 <= n
    /\ \A i \in DOMAIN e : 1 <= e[i] /\ e[i] < n
    /\ \A i, j \in DOMAIN e : i < j => e[i] < e[j]
Has(e, q) == \E i \in DOMAIN e : e[i] = q
Apart(rows, e) ==
    \A j, k \in DOMAIN rows : \A p, r \in DOMAIN e :
        e[p] = rows[j] /\ e[r] = rows[k] /\ j <= k => k - j <= r - p

\* A frame that came is the last one, with a greater number.
LEMMA RisingGrows ==
    ASSUME NEW e \in Seq(Int), NEW n \in Int, Rising(e, n), NEW q \in {n, n + 1}
    PROVE  /\ Rising(Append(e, q), q + 1) /\ Has(Append(e, q), q)
           /\ \A x : Has(e, x) => Has(Append(e, q), x)
<1> DEFINE d == Append(e, q)
<1>1. /\ q \in Int /\ n <= q /\ 1 <= n /\ Len(e) \in Nat /\ DOMAIN e = 1 .. Len(e) /\ DOMAIN d = 1 .. Len(e) + 1
      /\ d[Len(e) + 1] = q /\ \A i \in DOMAIN e : d[i] = e[i] /\ e[i] \in Int
  <2>1. q \in Int /\ n <= q /\ 1 <= n
    BY DEF Rising
  <2>2. \A i \in DOMAIN e : e[i] \in Int
    BY ElementOfSeq, LenProperties
  <2> QED BY <2>1, <2>2, EndFacts
<1> HIDE DEF d
<1>2. ASSUME NEW i \in DOMAIN d PROVE 1 <= d[i] /\ d[i] < q + 1
  <2>1. CASE i \in DOMAIN e
    BY <1>1, <2>1 DEF Rising
  <2>2. CASE i = Len(e) + 1
    BY <1>1, <2>2
  <2> QED BY <1>1, <2>1, <2>2
<1>3. ASSUME NEW i \in DOMAIN d, NEW j \in DOMAIN d, i < j PROVE d[i] < d[j]
  <2>1. CASE j \in DOMAIN e
    BY SMTT(30), <1>1, <1>3, <2>1 DEF Rising
  <2>2. CASE j = Len(e) + 1
    <3>1. i \in DOMAIN e
      BY <1>1, <1>3, <2>2
    <3> QED BY <1>1, <2>2, <3>1 DEF Rising
  <2> QED BY <1>1, <2>1, <2>2
<1>4. Rising(d, q + 1)
  BY <1>1, <1>2, <1>3 DEF Rising
<1>5. Has(d, q) /\ \A x : Has(e, x) => Has(d, x)
  <2>1. Len(e) + 1 \in DOMAIN d /\ DOMAIN e \subseteq DOMAIN d
    BY <1>1
  <2> QED BY <1>1, <2>1 DEF Has
<1> QED BY <1>4, <1>5 DEF d

\* Rows stay as far apart when the stream grows, and when a row is written of
\* a frame that stands in the stream, newer than every row's.
LEMMA ApartGrows ==
    ASSUME NEW e \in Seq(Int), NEW n \in Int, NEW rows \in Seq(Int), Rising(e, n), NEW q \in {n, n + 1},
           \A k \in DOMAIN rows : Has(e, rows[k]), Apart(rows, e)
    PROVE  Apart(rows, Append(e, q))
<1> DEFINE d == Append(e, q)
<1>1. /\ q \in Int /\ n <= q /\ Len(e) \in Nat /\ DOMAIN e = 1 .. Len(e) /\ DOMAIN d = 1 .. Len(e) + 1
      /\ d[Len(e) + 1] = q /\ \A i \in DOMAIN e : d[i] = e[i] /\ e[i] \in Int
  <2>1. q \in Int /\ n <= q
    OBVIOUS
  <2>2. \A i \in DOMAIN e : e[i] \in Int
    BY ElementOfSeq, LenProperties
  <2> QED BY <2>1, <2>2, EndFacts
<1> HIDE DEF d
<1>2. ASSUME NEW k \in DOMAIN rows, NEW r \in DOMAIN d, d[r] = rows[k] PROVE r \in DOMAIN e
  <2>1. PICK i \in DOMAIN e : e[i] = rows[k]
    BY <1>2 DEF Has
  <2>2. rows[k] < q
    BY <1>1, <2>1 DEF Rising
  <2> QED BY <1>1, <1>2, <2>1, <2>2
<1>3. Apart(rows, d)
  BY <1>1, <1>2 DEF Apart
<1> QED BY <1>3 DEF d

\* A row of the frame that came last is apart from the rows before it.
LEMMA RowStandsApart ==
    ASSUME NEW d \in Seq(Int), NEW n \in Int, NEW rows \in Seq(Int), Rising(d, n), NEW q \in Int, Has(d, q),
           \A k \in DOMAIN rows : Has(d, rows[k]) /\ rows[k] < q, Apart(rows, d)
    PROVE  Apart(Append(rows, q), d) /\ \A k \in DOMAIN Append(rows, q) : Has(d, Append(rows, q)[k])
<1> DEFINE R == Append(rows, q)
           m == Len(rows)
<1>1. /\ m \in Nat /\ DOMAIN rows = 1 .. m /\ DOMAIN R = 1 .. m + 1
      /\ R[m + 1] = q /\ \A i \in DOMAIN rows : R[i] = rows[i]
      /\ DOMAIN d = 1 .. Len(d) /\ Len(d) \in Nat /\ \A i \in DOMAIN d : d[i] \in Int
  <2>1. \A i \in DOMAIN d : d[i] \in Int
    BY ElementOfSeq, LenProperties
  <2> QED BY <2>1, EndFacts, LenProperties
<1> HIDE DEF R, m
<1>a. \A o, p \in DOMAIN d : (d[o] = d[p] => o = p) /\ (d[o] < d[p] => o < p)
  <2> TAKE o, p \in DOMAIN d
  <2>1. o \in Int /\ p \in Int /\ d[o] \in Int /\ d[p] \in Int
    BY <1>1
  <2>2. (o < p => d[o] < d[p]) /\ (p < o => d[p] < d[o])
    BY DEF Rising
  <2> QED BY <2>1, <2>2
<1>2. ASSUME NEW j \in DOMAIN R, NEW k \in DOMAIN R, NEW p \in DOMAIN d, NEW r \in DOMAIN d,
             d[p] = R[j], d[r] = R[k], j <= k
      PROVE  k - j <= r - p
  <2>1. CASE k \in DOMAIN rows
    <3>1. j \in DOMAIN rows
      BY <1>1, <1>2, <2>1
    <3>2. d[p] = rows[j] /\ d[r] = rows[k]
      BY <1>1, <1>2, <2>1, <3>1
    <3> QED BY <1>2, <2>1, <3>1, <3>2 DEF Apart
  <2>2. CASE k = m + 1 /\ j = m + 1
    <3>1. d[p] = d[r]
      BY <1>2, <2>2
    <3>2. p = r
      BY <1>a, <3>1
    <3> QED BY <1>1, <2>2, <3>2
  <2>3. CASE k = m + 1 /\ j \in DOMAIN rows
    <3>1. m \in DOMAIN rows /\ j <= m
      BY <1>1, <2>3
    <3>2. PICK o \in DOMAIN d : d[o] = rows[m]
      BY <3>1 DEF Has
    <3>3. m - j <= o - p
      <4>1. d[p] = rows[j]
        BY <1>1, <1>2, <2>3
      <4> QED BY <2>3, <3>1, <3>2, <4>1 DEF Apart
    <3>4. d[o] < d[r]
      BY <1>1, <1>2, <2>3, <3>1, <3>2
    <3>5. o < r
      BY <1>a, <3>4
    <3> QED BY SMTT(30), <1>1, <2>3, <3>3, <3>5
  <2> QED BY SMTT(30), <1>1, <2>1, <2>2, <2>3
<1>3. ASSUME NEW k \in DOMAIN R PROVE Has(d, R[k])
  <2>1. CASE k \in DOMAIN rows
    BY <1>1, <2>1
  <2>2. CASE k = m + 1
    BY <1>1, <2>2
  <2> QED BY SMTT(30), <1>1, <2>1, <2>2
<1>4. Apart(R, d) /\ \A k \in DOMAIN R : Has(d, R[k])
  BY <1>2, <1>3 DEF Apart
<1> QED BY <1>4 DEF R

\* The pairing, by the frames of each stream.
LEMMA PairingFacts ==
    Pairing <=> /\ \A s \in Streams : Rising(seen[s], next[s])
                /\ \A s \in Sides : (\A k \in DOMAIN irRows : Has(seen[s], irRows[k])) /\ Apart(irRows, seen[s])
                /\ \A p \in pending : Has(seen[p[2]], p[1])
BY DEF Pairing, Ascending, Occurs, RowsApart, Rising, Has, Apart

\* A frame of a stream arrives; those of the others and the rows are as before.
Arrives(s, q) ==
    /\ q \in {next[s], next[s] + 1}
    /\ next' = [next EXCEPT ![s] = q + 1] /\ seen' = [seen EXCEPT ![s] = Append(@, q)]

\* What a frame that arrives leaves of frames and rows.
LEMMA ArrivalFacts ==
    ASSUME StreamTypes, Pairing, NEW s \in Streams, NEW q, Arrives(s, q)
    PROVE  /\ q \in Int /\ next' \in [Streams -> Int] /\ seen' \in [Streams -> Seq(Int)]
           /\ \A t \in Streams : Len(seen'[t]) = IF t = s THEN Len(seen[t]) + 1 ELSE Len(seen[t])
           /\ seen'[s] = Append(seen[s], q) /\ \A t \in Streams : t # s => seen'[t] = seen[t]
           /\ \A t \in Streams : Rising(seen'[t], next'[t])
           /\ Has(seen'[s], q) /\ \A t \in Streams : \A x : Has(seen[t], x) => Has(seen'[t], x)
           /\ \A t \in Sides : (\A k \in DOMAIN irRows : Has(seen'[t], irRows[k])) /\ Apart(irRows, seen'[t])
           /\ s \in Sides => \A k \in DOMAIN irRows : irRows[k] < q
<1> DEFINE e == seen[s]
           n == next[s]
<1>1. /\ seen \in [Streams -> Seq(Int)] /\ next \in [Streams -> Int] /\ e \in Seq(Int) /\ n \in Int
      /\ irRows \in Seq(Int) /\ Sides \subseteq Streams
  BY StreamFacts DEF Streams
<1>2. /\ \A t \in Streams : Rising(seen[t], next[t])
      /\ \A t \in Sides : (\A k \in DOMAIN irRows : Has(seen[t], irRows[k])) /\ Apart(irRows, seen[t])
  BY PairingFacts
<1>3. Rising(e, n) /\ q \in {n, n + 1} /\ q \in Int /\ n <= q
  BY <1>1, <1>2 DEF Arrives
<1>4. s \in Sides => (\A k \in DOMAIN irRows : Has(e, irRows[k])) /\ Apart(irRows, e)
  BY <1>2
<1>5. /\ seen'[s] = Append(e, q) /\ next'[s] = q + 1
      /\ \A t \in Streams : t # s => seen'[t] = seen[t] /\ next'[t] = next[t]
      /\ next' \in [Streams -> Int]
  BY <1>1, <1>3 DEF Arrives
<1>6. seen' = [seen EXCEPT ![s] = Append(e, q)]
  BY DEF Arrives
<1> HIDE DEF e, n
<1>7. Append(e, q) \in Seq(Int) /\ Len(Append(e, q)) = Len(e) + 1
  BY <1>1, <1>3, EndFacts
<1>8. /\ Rising(Append(e, q), q + 1) /\ Has(Append(e, q), q)
      /\ \A x : Has(e, x) => Has(Append(e, q), x)
  BY <1>1, <1>3, RisingGrows
<1>9. s \in Sides => Apart(irRows, Append(e, q)) /\ \A k \in DOMAIN irRows : irRows[k] < q
  <2>1. SUFFICES ASSUME s \in Sides PROVE Apart(irRows, Append(e, q)) /\ \A k \in DOMAIN irRows : irRows[k] < q
    OBVIOUS
  <2>2. Apart(irRows, Append(e, q))
    BY <1>1, <1>3, <1>4, <2>1, ApartGrows
  <2>3. \A i \in DOMAIN e : e[i] \in Int /\ e[i] < q
    <3>1. \A i \in DOMAIN e : e[i] \in Int /\ e[i] < n
      BY <1>1, <1>3, ElementOfSeq, LenProperties DEF Rising
    <3> QED BY <1>1, <1>3, <3>1
  <2>4. \A k \in DOMAIN irRows : irRows[k] < q
    BY <1>4, <2>1, <2>3 DEF Has
  <2> QED BY <2>2, <2>4
<1>10. seen' \in [Streams -> Seq(Int)]
  BY <1>1, <1>6, <1>7
<1>11. \A t \in Streams : Len(seen'[t]) = IF t = s THEN Len(seen[t]) + 1 ELSE Len(seen[t])
  BY <1>5, <1>7 DEF e
<1>12. \A t \in Streams : Rising(seen'[t], next'[t])
  BY <1>2, <1>5, <1>8
<1>13. \A t \in Streams : \A x : Has(seen[t], x) => Has(seen'[t], x)
  BY <1>5, <1>8 DEF e
<1>14. \A t \in Sides : (\A k \in DOMAIN irRows : Has(seen'[t], irRows[k])) /\ Apart(irRows, seen'[t])
  <2> TAKE t \in Sides
  <2>1. t \in Streams /\ (\A k \in DOMAIN irRows : Has(seen'[t], irRows[k]))
    BY <1>1, <1>2, <1>13
  <2>2. Apart(irRows, seen'[t])
    <3>1. CASE t = s
      BY <1>5, <1>9, <3>1
    <3>2. CASE t # s
      BY <1>2, <1>5, <2>1, <3>2
    <3> QED BY <3>1, <3>2
  <2> QED BY <2>1, <2>2
<1> QED BY <1>3, <1>5, <1>8, <1>9, <1>10, <1>11, <1>12, <1>13, <1>14 DEF e

-----------------------------------------------------------------------------
(* What main does with a frame.                                             *)

Submitted(T, q) == child' = [w \in Children |-> IF w \in T THEN Put(child[w], q) ELSE child[w]]
FrameResult(s, q) ==
    /\ main' \in Mains /\ KidsKept
    /\ Passes("loop.wait", "loop.top") \/ Raises({"warmup"} \cup Looping)
    /\ \/ child' = child /\ irRows' = irRows /\ (s = "color" => main'.error # None)
       \/ s = "color" /\ irRows' = irRows /\ main'.error = None /\ Submitted({"rgb"}, q)
       \/ /\ s \in Sides /\ \A t \in Sides : Has(seen'[t], q)
          /\ \E T \in SUBSET Writers :
               /\ Submitted(T, q)
               /\ \/ T = Writers /\ irRows' = Append(irRows, q) /\ main'.error = None
                  \/ irRows' = irRows /\ main'.error # None
    /\ \A p \in pending' : p \in pending \/ (s \in Sides /\ p = <<q, s>>)

\* Frames put into the queues of some children keep them all.
LEMMA SubmittedIsKept ==
    ASSUME EdgeTypes, ChildStages, NEW T, NEW q \in Int, Submitted(T, q), main.error = None, mode' = mode
    PROVE  KidsKept
<1>1. \A v \in Children : KidKept(v, Put(child[v], q)) /\ KidKept(v, child[v])
  BY PutIsKept, SameKid
<1>2. \A v \in Children : child'[v] = Put(child[v], q) \/ child'[v] = child[v]
  BY DEF Submitted
<1>3. child' = [v \in Children |-> child'[v]]
  BY DEF Submitted
<1> QED BY <1>1, <1>2, <1>3, KidsAreKept

\* What main does with a frame: keep it, write it or raise.
LEMMA FrameMoves ==
    ASSUME EdgeInv, main.at = "loop.wait", mode' = mode, NEW s \in Streams, NEW q, Arrives(s, q),
           IF s = "color" THEN Submit("rgb", q) /\ UNCHANGED <<pending, irRows>> ELSE StereoFrame(q, s)
    PROVE  FrameResult(s, q)
<1>0. /\ EdgeTypes /\ EdgeStages /\ ChildStages /\ StreamTypes /\ Pairing
      /\ main \in Mains /\ child \in [Children -> Kids] /\ main.error = None /\ q \in Int
      /\ "rgb" \in Children /\ Writers \subseteq Children /\ "rgb" \notin Writers
  BY EdgeFacts, ChildrenFacts, ArrivalFacts DEF EdgeInv, EdgeControl, EdgeStages, EdgeWorking, Recording, Looping
<1>a. /\ Go("loop.top") => main' \in Mains /\ main'.error = None /\ Passes("loop.wait", "loop.top")
      /\ Raise("fail") => main' \in Mains /\ main'.error # None /\ Raises({"warmup"} \cup Looping)
  BY <1>0, LoopMains DEF Passes, Raises, None, Looping
<1>b. child' = child => KidsKept
  BY <1>0, SameKids
<1>1. CASE s = "color"
  <2>1. Submit("rgb", q) /\ pending' = pending /\ irRows' = irRows
    BY <1>1
  <2>2. CASE child' = [child EXCEPT !["rgb"] = Put(@, q)] /\ Go("loop.top")
    <3>1. Submitted({"rgb"}, q)
      BY <1>0, <2>2 DEF Submitted
    <3>2. KidsKept
      BY <1>0, <3>1, SubmittedIsKept
    <3> QED BY <1>1, <1>a, <2>1, <2>2, <3>1, <3>2 DEF FrameResult
  <2>3. CASE Raise("fail") /\ child' = child
    BY <1>1, <1>a, <1>b, <2>1, <2>3 DEF FrameResult
  <2> QED BY <2>1, <2>2, <2>3 DEF Submit
<1>2. CASE s # "color"
  <2> DEFINE partners == Partners(q, s, pending)
             held == IF partners = {} THEN pending \cup {<<q, s>>} ELSE pending \ partners
  <2>1. s \in Sides /\ StereoFrame(q, s) /\ pending' = held
    BY <1>2 DEF Streams, StereoFrame
  <2>2. \A p \in pending' : p \in pending \/ (s \in Sides /\ p = <<q, s>>)
    BY <2>1
  <2>3. CASE partners = {}
    <3>1. child' = child /\ irRows' = irRows /\ (Raise("fail") \/ Go("loop.top"))
      BY <2>1, <2>3 DEF StereoFrame
    <3> HIDE DEF held, partners
    <3> QED BY <1>2, <1>a, <1>b, <2>2, <3>1 DEF FrameResult
  <2>4. CASE partners # {}
    <3>1. SubmitPair(q)
      BY <2>1, <2>4 DEF StereoFrame
    <3>2. PICK p \in pending : p[1] = q /\ p[2] # s
      BY <2>4 DEF Partners
    <3> HIDE DEF held, partners
    <3>3. \A t \in Sides : Has(seen'[t], q)
      <4>1. p[2] \in Sides /\ Has(seen[p[2]], q)
        BY <1>0, <3>2, PairingFacts, StreamFacts
      <4>2. Has(seen'[p[2]], q) /\ Has(seen'[s], q)
        BY ZenonT(60), <1>0, <4>1, ArrivalFacts DEF Streams
      <4> QED BY <2>1, <3>2, <4>1, <4>2 DEF Sides
    <3> DEFINE T == {w \in Writers : Accepts(child[w]) /\ (w = "right" => Accepts(child["left"]))}
    <3>4. /\ Submitted(T, q) /\ T \in SUBSET Writers
          /\ IF T = Writers THEN irRows' = Append(irRows, q) /\ Go("loop.top")
                            ELSE UNCHANGED irRows /\ Raise("fail")
      BY <3>1 DEF SubmitPair, Submitted
    <3> HIDE DEF T
    <3>5. KidsKept
      BY <1>0, <3>4, SubmittedIsKept
    <3>6. \/ T = Writers /\ irRows' = Append(irRows, q) /\ Go("loop.top")
          \/ irRows' = irRows /\ Raise("fail")
      BY <3>4
    <3> QED BY <1>a, <2>1, <2>2, <3>3, <3>4, <3>5, <3>6 DEF FrameResult
  <2> QED BY <2>3, <2>4
<1> QED BY <1>1, <1>2

\* It keeps rows and entries together.
LEMMA FrameFlow ==
    ASSUME EdgeInv, main.at = "loop.wait", mode' = mode, NEW s \in Streams, NEW q, Arrives(s, q), FrameResult(s, q)
    PROVE  EdgeFlow'
<1>0. /\ EdgeTypes /\ EdgeStages /\ StreamTypes /\ RowsOfWriters /\ FramesOfColor /\ Pairing
      /\ child \in [Children -> Kids] /\ main.error = None /\ q \in Int /\ irRows \in Seq(Int)
      /\ "rgb" \in Children /\ Writers \subseteq Children /\ "rgb" \notin Writers /\ seen["color"] \in Seq(Int)
      /\ Writers' = Writers /\ main.at \in Filling
  BY EdgeFacts, ChildrenFacts, ArrivalFacts, StreamFacts
     DEF EdgeInv, EdgeControl, EdgeFlow, EdgeStages, EdgeWorking, Recording, Looping, Filling, Streams
<1>1. seen'["color"] = IF s = "color" THEN Append(seen["color"], q) ELSE seen["color"]
  <2>1. "color" \in Streams
    BY DEF Streams
  <2>2. seen'[s] = Append(seen[s], q) /\ \A t \in Streams : t # s => seen'[t] = seen[t]
    BY <1>0, ArrivalFacts
  <2> QED BY <2>1, <2>2
<1>2. main'.at \in Filling => main'.error = None
  BY <1>0 DEF FrameResult, Passes, Raises, Filling, Starting, Looping
<1>3. \A v \in Children :
        LET c == child[v]
        IN  /\ Entries(c) \in Seq(Int) /\ Entries(Put(c, q)) = Append(Entries(c), q)
            /\ Put(c, q).failed = c.failed /\ Put(c, q).cancel = c.cancel
  <2> TAKE v \in Children
  <2> DEFINE c == child[v]
  <2>1. c \in Kids
    BY <1>0
  <2> HIDE DEF c
  <2>2. Entries(c) \in Seq(Int) /\ Entries(Put(c, q)) = Append(Entries(c), q)
        /\ Put(c, q).failed = c.failed /\ Put(c, q).cancel = c.cancel
    BY <1>0, <2>1, EntriesPut, EntriesFacts
  <2> QED BY <2>2 DEF c
<1>4. ASSUME NEW v \in Writers, child'[v].failed = FALSE, child'[v].cancel = FALSE,
             child[v].failed = FALSE /\ child[v].cancel = FALSE =>
               \/ Entries(child'[v]) = Entries(child[v]) /\ irRows' = irRows
               \/ /\ Entries(child'[v]) = Append(Entries(child[v]), q)
                  /\ irRows' = Append(irRows, q) \/ (irRows' = irRows /\ main'.error # None),
             child'[v].failed = child[v].failed, child'[v].cancel = child[v].cancel
      PROVE  /\ Follows(Entries(child'[v]), irRows', IF main'.error = None THEN 0 ELSE 1)
             /\ main'.at \in Filling => Len(Entries(child'[v])) = Len(irRows')
  <2> DEFINE e == Entries(child[v])
  <2>1. e \in Seq(Int) /\ Follows(e, irRows, 0) /\ Len(e) = Len(irRows)
    BY <1>0, <1>3, <1>4 DEF RowsOfWriters
  <2>2. \/ Entries(child'[v]) = e /\ irRows' = irRows
        \/ /\ Entries(child'[v]) = Append(e, q)
           /\ irRows' = Append(irRows, q) \/ (irRows' = irRows /\ main'.error # None)
    BY <1>4
  <2> HIDE DEF e
  <2>3. CASE Entries(child'[v]) = e /\ irRows' = irRows
    BY <1>0, <2>1, <2>3, FollowsSpare
  <2>4. /\ Follows(Append(e, q), Append(irRows, q), 0) /\ Len(Append(e, q)) = Len(Append(irRows, q))
        /\ Follows(Append(e, q), irRows, 1)
    BY <1>0, <2>1, FollowsRow
  <2>5. Append(e, q) \in Seq(Int) /\ Append(irRows, q) \in Seq(Int)
    BY <1>0, <2>1, AppendProperties
  <2>6. Follows(Append(e, q), Append(irRows, q), 1)
    BY <2>4, <2>5, FollowsSpare
  <2> QED BY <1>2, <2>2, <2>3, <2>4, <2>6
<1>5. ASSUME child'["rgb"].failed = FALSE, main'.error = None
      PROVE  /\ Follows(Entries(child'["rgb"]), seen'["color"], 0)
             /\ main'.at \in Filling => Len(Entries(child'["rgb"])) = Len(seen'["color"])
  <2> DEFINE e == Entries(child["rgb"])
             f == seen["color"]
  <2>1. \/ s # "color" /\ child'["rgb"] = child["rgb"]
        \/ s = "color" /\ child'["rgb"] = Put(child["rgb"], q)
    BY <1>0, <1>5 DEF FrameResult, Submitted, Sides
  <2>2. child["rgb"].failed = FALSE
    BY <1>0, <1>3, <1>5, <2>1
  <2>3. e \in Seq(Int) /\ f \in Seq(Int) /\ Follows(e, f, 0) /\ Len(e) = Len(f)
    BY <1>0, <1>3, <2>2 DEF FramesOfColor
  <2>4. \/ Entries(child'["rgb"]) = e /\ seen'["color"] = f
        \/ Entries(child'["rgb"]) = Append(e, q) /\ seen'["color"] = Append(f, q)
    BY <1>0, <1>1, <1>3, <2>1
  <2> HIDE DEF e, f
  <2>5. Follows(Append(e, q), Append(f, q), 0) /\ Len(Append(e, q)) = Len(Append(f, q))
    BY <1>0, <2>3, FollowsRow
  <2> QED BY <2>3, <2>4, <2>5
<1>6. \A v \in Writers :
        /\ child'[v].failed = child[v].failed /\ child'[v].cancel = child[v].cancel
        /\ \/ Entries(child'[v]) = Entries(child[v]) /\ irRows' = irRows
           \/ /\ Entries(child'[v]) = Append(Entries(child[v]), q)
              /\ irRows' = Append(irRows, q) \/ (irRows' = irRows /\ main'.error # None)
  <2> TAKE v \in Writers
  <2>1. v \in Children /\ v # "rgb"
    BY <1>0
  <2>2. \/ child'[v] = child[v] /\ irRows' = irRows
        \/ /\ child'[v] = Put(child[v], q)
           /\ irRows' = Append(irRows, q) \/ (irRows' = irRows /\ main'.error # None)
    BY <1>0, <2>1 DEF FrameResult, Submitted
  <2> QED BY <1>3, <2>1, <2>2
<1>7. \A v \in Children : child'[v].failed \in BOOLEAN /\ child'[v].cancel \in BOOLEAN
  BY KidFacts DEF FrameResult, KidsKept
<1>8. RowsOfWriters'
  BY <1>0, <1>4, <1>6, <1>7 DEF RowsOfWriters
<1>9. FramesOfColor'
  BY <1>0, <1>5, <1>7 DEF FramesOfColor
<1> QED BY <1>8, <1>9 DEF EdgeFlow

\* Rows and streams after a frame.
LEMMA FramePairing ==
    ASSUME StreamTypes, Pairing, NEW s \in Streams, NEW q, Arrives(s, q), FrameResult(s, q)
    PROVE  Pairing' /\ irRows' \in Seq(Int) /\ pending' \subseteq Int \X Sides
<1>1. /\ q \in Int /\ next' \in [Streams -> Int] /\ seen' \in [Streams -> Seq(Int)]
      /\ \A t \in Streams : Rising(seen'[t], next'[t])
      /\ Has(seen'[s], q) /\ \A t \in Streams : \A x : Has(seen[t], x) => Has(seen'[t], x)
      /\ \A t \in Sides : (\A k \in DOMAIN irRows : Has(seen'[t], irRows[k])) /\ Apart(irRows, seen'[t])
      /\ s \in Sides => \A k \in DOMAIN irRows : irRows[k] < q
  BY ArrivalFacts
<1>2. irRows \in Seq(Int) /\ pending \subseteq Int \X Sides /\ Sides \subseteq Streams
  BY StreamFacts DEF Streams
<1>3. irRows' = irRows \/ (s \in Sides /\ irRows' = Append(irRows, q) /\ \A t \in Sides : Has(seen'[t], q))
  BY DEF FrameResult
<1>4. irRows' \in Seq(Int)
  <2>1. Append(irRows, q) \in Seq(Int)
    BY <1>1, <1>2, AppendProperties
  <2> QED BY <1>2, <1>3, <2>1
<1>5. \A t \in Sides : (\A k \in DOMAIN irRows' : Has(seen'[t], irRows'[k])) /\ Apart(irRows', seen'[t])
  <2> TAKE t \in Sides
  <2>1. CASE irRows' = irRows
    BY <1>1, <2>1
  <2>2. CASE s \in Sides /\ irRows' = Append(irRows, q) /\ \A u \in Sides : Has(seen'[u], q)
    <3> DEFINE d == seen'[t]
               n == next'[t]
    <3>1. d \in Seq(Int) /\ n \in Int /\ Rising(d, n) /\ Has(d, q) /\ Apart(irRows, d)
          /\ \A k \in DOMAIN irRows : Has(d, irRows[k]) /\ irRows[k] < q
      BY <1>1, <1>2, <2>2
    <3> HIDE DEF d, n
    <3>2. Apart(Append(irRows, q), d) /\ \A k \in DOMAIN Append(irRows, q) : Has(d, Append(irRows, q)[k])
      BY <1>1, <1>2, <3>1, RowStandsApart
    <3> QED BY <2>2, <3>2 DEF d
  <2> QED BY <1>3, <2>1, <2>2
<1>6. \A p \in pending' : p \in Int \X Sides /\ Has(seen'[p[2]], p[1])
  <2> TAKE p \in pending'
  <2>1. CASE p \in pending
    <3>1. p \in Int \X Sides /\ Has(seen[p[2]], p[1])
      BY <1>2, <2>1, PairingFacts
    <3>2. p[2] \in Streams
      BY <1>2, <3>1
    <3> QED BY <1>1, <3>1, <3>2
  <2>2. CASE s \in Sides /\ p = <<q, s>>
    BY <1>1, <2>2
  <2> QED BY <2>1, <2>2 DEF FrameResult
<1>7. Pairing'
  BY <1>1, <1>5, <1>6 DEF Pairing, Ascending, Occurs, RowsApart, Rising, Has, Apart
<1> QED BY <1>4, <1>6, <1>7

\* The target holds every stream, the new frame included.
LEMMA FrameTarget ==
    ASSUME StreamTypes, TargetStages, Pairing, main.at = "loop.wait", mode' = mode, NEW s \in Streams, NEW q, Arrives(s, q),
           FrameResult(s, q), Received(s) < (IF target = 0 THEN MaxFrames ELSE target),
           \/ UNCHANGED <<target, evidence>>
           \/ /\ mode = "until_signal"
              /\ target' = StopTarget(IF Most > Received(s) THEN Most ELSE Received(s) + 1)
              /\ evidence' = [reason |-> "low_storage_guard", stop |-> "storage"]
    PROVE  TargetStages' /\ target' \in Nat /\ evidence' \in Evidences
<1>0. /\ target \in Nat /\ evidence \in Evidences /\ MaxFrames \in Nat /\ 2 <= MaxFrames
      /\ \A t \in Streams : Received(t) \in Nat /\ Received(t) = Len(seen[t])
      /\ \A t \in Streams : Len(seen'[t]) = IF t = s THEN Received(t) + 1 ELSE Received(t)
  BY StreamFacts, EdgeAssumption, ArrivalFacts DEF StreamTypes, Received
<1>1. main'.at \notin Before \cup Stopping \cup Finishing \cup Later
  BY DEF FrameResult, Passes, Raises, Before, Starting, Stopping, Finishing, ColorFinish, LeftFinish, RightFinish,
         StereoFinish, Later, Judging, Sealing, Publishing, Published
<1>2. CASE UNCHANGED <<target, evidence>>
  <2>1. target # 0 => \A t \in Streams : Len(seen'[t]) <= target
    BY <1>0 DEF TargetStages
  <2>2. target = 0 => \A t \in Streams : Len(seen'[t]) <= MaxFrames
    BY <1>0 DEF TargetStages
  <2> QED BY <1>0, <1>1, <1>2, <2>1, <2>2 DEF TargetStages
<1>3. CASE /\ mode = "until_signal"
           /\ target' = StopTarget(IF Most > Received(s) THEN Most ELSE Received(s) + 1)
           /\ evidence' = [reason |-> "low_storage_guard", stop |-> "storage"]
  <2>1. \A t \in Streams : Received(t) <= MaxFrames
    BY <1>0 DEF TargetStages
  <2>2. Received(s) + 1 <= MaxFrames
    BY <1>0 DEF TargetStages
  <2>3. Most \in Nat /\ Most <= MaxFrames /\ \A t \in Streams : Received(t) <= Most
    BY <1>0, <2>1, MostFacts
  <2> DEFINE n == IF Most > Received(s) THEN Most ELSE Received(s) + 1
  <2>4. n \in Nat /\ n <= MaxFrames /\ Received(s) + 1 <= n /\ \A t \in Streams : Received(t) <= n
    BY <1>0, <2>2, <2>3
  <2>5. target' = StopTarget(n)
    BY <1>3
  <2> HIDE DEF n
  <2>6. target' \in Nat /\ 2 <= target' /\ target' <= MaxFrames /\ n <= target'
    BY <1>0, <2>4, <2>5 DEF StopTarget
  <2>7. \A t \in Streams : Len(seen'[t]) <= target'
    BY <1>0, <2>4, <2>6
  <2>8. evidence' \in Evidences
    BY <1>3 DEF Evidences
  <2> QED BY <1>1, <1>3, <2>6, <2>7, <2>8 DEF TargetStages
<1> QED BY <1>2, <1>3

\* A frame that arrives in the loop keeps the invariant.
LEMMA LoopFrameKeeps ==
    ASSUME EdgeInv, NEW s \in Streams, LoopFrame(s), UNCHANGED <<mode, signals>>
    PROVE  EdgeInv'
<1>0. /\ EdgeTypes /\ StreamTypes /\ Pairing /\ TargetStages /\ main.at = "loop.wait"
      /\ serial \in {"new", "recording", "gapless", "lossy"}
      /\ mode' = mode /\ signals' = signals /\ serial' = serial /\ disk' = disk
      /\ Received(s) < (IF target = 0 THEN MaxFrames ELSE target)
  BY DEF EdgeInv, EdgeControl, EdgeTypes, LoopFrame
<1>1. PICK q \in {next[s], next[s] + 1} :
        /\ Arrives(s, q)
        /\ \/ UNCHANGED <<target, evidence>>
           \/ /\ mode = "until_signal"
              /\ target' = StopTarget(IF Most > Received(s) THEN Most ELSE Received(s) + 1)
              /\ evidence' = [reason |-> "low_storage_guard", stop |-> "storage"]
        /\ IF s = "color" THEN Submit("rgb", q) /\ UNCHANGED <<pending, irRows>> ELSE StereoFrame(q, s)
  BY DEF LoopFrame, Arrives
<1>2. FrameResult(s, q)
  BY <1>0, <1>1, FrameMoves
<1>3. EdgeControl' /\ EdgeVerdict'
  BY <1>0, <1>2, LoopControl DEF FrameResult, LoopResult, LoopMoves
<1>4. EdgeFlow'
  BY <1>0, <1>1, <1>2, FrameFlow
<1>5. Pairing' /\ irRows' \in Seq(Int) /\ pending' \subseteq Int \X Sides
  BY <1>0, <1>1, <1>2, FramePairing
<1>6. TargetStages' /\ target' \in Nat /\ evidence' \in Evidences
  BY <1>0, <1>1, <1>2, FrameTarget
<1>7. next' \in [Streams -> Int] /\ seen' \in [Streams -> Seq(Int)]
  BY <1>0, <1>1, ArrivalFacts
<1>8. StreamTypes'
  BY <1>5, <1>6, <1>7 DEF StreamTypes
<1> QED BY <1>3, <1>4, <1>5, <1>6, <1>8 DEF EdgeInv

-----------------------------------------------------------------------------
(* The whole of the RSUSB capture.                                          *)

\* The capture's initial states satisfy the invariant.
LEMMA EdgeStart ==
    ASSUME Init
    PROVE  EdgeInv
<1> DEFINE kid == [thread |-> "new", queue |-> <<>>, held |-> <<>>, written |-> <<>>,
                   process |-> None, failed |-> FALSE, cancel |-> FALSE]
<1>1. /\ mode \in Modes
      /\ main = [at |-> "preflight", error |-> None, started |-> {}, publish |-> "no"]
      /\ signals = IF mode = "until_signal" THEN 0 ELSE 1
      /\ next = [s \in Streams |-> 1] /\ seen = [s \in Streams |-> <<>>]
      /\ target = IF mode = "until_signal" THEN 0 ELSE MaxFrames
      /\ pending = {} /\ irRows = <<>> /\ evidence = [reason |-> "fixed_duration_complete", stop |-> None]
      /\ serial = "new" /\ child = [w \in Children |-> kid]
      /\ disk = [name |-> "absent", marker |-> FALSE, manifest |-> FALSE, failure |-> FALSE,
                 unsynced |-> {}, durable |-> {}]
  BY DEF Init, Modes
<1>2. /\ main \in Mains /\ main.at = "preflight" /\ main.error = None /\ main.publish = "no"
  BY <1>1 DEF Mains, EdgeSteps, EdgeWorking, EdgeErrors
<1>3. /\ disk \in Disks /\ disk.name = "absent" /\ disk.marker = FALSE /\ disk.failure = FALSE /\ disk.unsynced = {}
  BY <1>1 DEF Disks
<1>4. evidence \in Evidences /\ evidence.stop = None
  BY <1>1 DEF Evidences
<1>5. /\ kid \in Kids /\ kid.thread = "new" /\ kid.held = <<>> /\ kid.failed = FALSE /\ kid.cancel = FALSE
      /\ Entries(kid) = <<>>
  <2>1. kid \in Kids
    BY EmptySeq DEF Kids, EdgeThreads, EdgeProcesses
  <2>2. (<<>> \o <<>>) \o <<>> = <<>>
    BY EmptySeq, ConcatEmptySeq
  <2> QED BY <2>1, <2>2 DEF Entries
<1> HIDE DEF kid
<1>6. child \in [Children -> Kids] /\ \A v \in Children : child[v] = kid
  BY <1>1, <1>5
<1>7. MaxFrames \in Nat /\ 2 <= MaxFrames
  BY EdgeAssumption
<1>8. /\ Writers \subseteq Children /\ "rgb" \in Children
  BY ChildrenFacts
<1>9. /\ "preflight" \notin Recording \cup Sealing \cup Publishing \cup Undoing \cup CleaningUp \cup {"end"}
      /\ "preflight" \in EdgeWorking /\ "preflight" \in Filling /\ "preflight" \in Unstarted
  BY DEF EdgeWorking, Recording, Starting, Looping, Stopping, Finishing, ColorFinish, LeftFinish, RightFinish, StereoFinish,
         Judging, Sealing, Publishing, Published, CleaningUp, Undoing, Filling, Unstarted
<1>10. EdgeTypes
  BY <1>1, <1>2, <1>3, <1>6 DEF EdgeTypes
<1>11. StreamTypes
  <2>1. next \in [Streams -> Int] /\ irRows \in Seq(Int) /\ pending \subseteq Int \X Sides
    BY <1>1, EmptySeq
  <2>2. seen \in [Streams -> Seq(Int)]
    BY <1>1, EmptySeq
  <2>3. target \in Nat
    BY <1>1, <1>7
  <2> QED BY <1>4, <2>1, <2>2, <2>3 DEF StreamTypes
<1>12. EdgeStages
  BY <1>2 DEF EdgeStages, Undoing, CleaningUp, LeftFinish, RightFinish, StereoFinish
<1>13. ChildStages
  BY <1>2, <1>5, <1>6, <1>8 DEF ChildStages, Finishing, ColorFinish, LeftFinish, RightFinish, StereoFinish, Later, Judging,
     Sealing, Publishing, Published
<1>14. DiskStages
  <2> USE DEF Recording, Starting, Looping, Stopping, Finishing, ColorFinish, LeftFinish, RightFinish, StereoFinish,
         Judging, Sealing, Publishing, Published, CleaningUp, Undoing, Later
  <2> QED BY <1>2, <1>3 DEF DiskStages
<1>15. EdgeFlow
  <2>1. \A rows : rows = <<>> => Follows(<<>>, rows, 0) /\ Len(rows) = Len(<<>>)
    BY DEF Follows
  <2>2. RowsOfWriters
    BY <1>1, <1>2, <1>5, <1>6, <1>8, <2>1 DEF RowsOfWriters
  <2>3. seen["color"] = <<>>
    BY <1>1 DEF Streams
  <2>4. FramesOfColor
    BY <1>5, <1>6, <1>8, <2>1, <2>3 DEF FramesOfColor
  <2> QED BY <2>2, <2>4 DEF EdgeFlow
<1>16. Pairing
  <2>1. \A s \in Streams : next[s] = 1 /\ seen[s] = <<>>
    BY <1>1
  <2>2. \A s \in Streams : Ascending(s)
    BY <2>1 DEF Ascending
  <2>3. \A s \in Sides : (\A k \in DOMAIN irRows : Occurs(irRows[k], s)) /\ RowsApart(s)
    BY <1>1 DEF RowsApart
  <2> QED BY <1>1, <2>2, <2>3 DEF Pairing
<1>17. TargetStages
  <2>1. \A s \in Streams : seen[s] = <<>> /\ Len(seen[s]) = 0
    BY <1>1
  <2>2. main.at \notin Stopping \cup Finishing \cup Later
    BY <1>2 DEF Stopping, Finishing, ColorFinish, LeftFinish, RightFinish, StereoFinish,
         Judging, Sealing, Publishing, Published, Later
  <2>3. mode = "until_signal" => target = 0
    BY <1>1
  <2>4. mode # "until_signal" => target = MaxFrames
    BY <1>1
  <2> QED BY <1>4, <1>7, <2>1, <2>2, <2>3, <2>4 DEF TargetStages
<1>18. EdgeVerdict
  BY <1>2, <1>3 DEF EdgeVerdict, Sealing, Publishing, Published
<1> QED BY <1>10, <1>11, <1>12, <1>13, <1>14, <1>15, <1>16, <1>17, <1>18 DEF EdgeInv, EdgeControl

\* The first signal is only noted.
LEMMA StopSignalKeeps ==
    ASSUME EdgeInv, UNCHANGED <<mode, main, data>>, signals' \in {0, 1, 2}
    PROVE  EdgeInv'
<1>1. /\ mode' = mode /\ main' = main /\ next' = next /\ seen' = seen /\ target' = target /\ pending' = pending
      /\ irRows' = irRows /\ evidence' = evidence /\ serial' = serial /\ child' = child /\ disk' = disk
      /\ Writers' = Writers /\ Children' = Children
  BY ChildrenFacts DEF data, streams
<1>2. EdgeControl'
  BY <1>1 DEF EdgeInv, EdgeControl, EdgeTypes, EdgeStages, ChildStages, Complete, DiskStages, Settled, Lasting, Sealed
<1>3. StreamTypes' /\ Pairing' /\ TargetStages'
  BY <1>1 DEF EdgeInv, StreamTypes, Pairing, Ascending, Occurs, RowsApart, TargetStages
<1>4. EdgeFlow'
  BY <1>1 DEF EdgeInv, EdgeFlow, RowsOfWriters, FramesOfColor
<1>5. EdgeVerdict'
  BY <1>1 DEF EdgeInv, EdgeVerdict, Judged, Complete, Gapless
<1> QED BY <1>2, <1>3, <1>4, <1>5 DEF EdgeInv

\* Every step of the capture keeps it.
LEMMA EdgeStep ==
    ASSUME EdgeInv, [Next]_vars
    PROVE  EdgeInv'
<1>1. ASSUME Main PROVE EdgeInv'
  <2>1. \/ EdgeIdleSteps \/ EdgeDiskSteps \/ EdgeChildSteps
        \/ /\ WarmUp \/ LoopTop \/ \E s \in Streams : LoopFrame(s)
           /\ UNCHANGED <<mode, signals>>
    BY <1>1 DEF Main, EdgeIdleSteps, EdgeDiskSteps, EdgeChildSteps
  <2> QED BY <2>1, EdgeIdleStepsKeep, EdgeDiskStepsKeep, EdgeChildStepsKeep, WarmUpKeeps, LoopTopKeeps, LoopFrameKeeps
<1>2. ASSUME (\E w \in Children : Writer(w) \/ ProcessFails(w)) \/ RgbEnds PROVE EdgeInv'
  <2>1. \E w \in Children : KidSteps(w)
    BY <1>2, ChildrenFacts DEF Writer, KidSteps
  <2> QED BY <2>1, ThreadsKeep
<1>3. ASSUME StopSignal PROVE EdgeInv'
  BY <1>3, StopSignalKeeps DEF StopSignal
<1>4. ASSUME SecondSignal PROVE EdgeInv'
  BY <1>4, EdgeIdleStepsKeep, EdgeChildStepsKeep DEF EdgeIdleSteps, EdgeChildSteps
<1>5. ASSUME UNCHANGED vars PROVE EdgeInv'
  <2>1. UNCHANGED <<mode, main, data>> /\ signals' \in {0, 1, 2}
    BY <1>5 DEF vars, data, streams, EdgeInv, EdgeControl, EdgeTypes
  <2> QED BY <2>1, StopSignalKeeps
<1> QED BY <1>1, <1>2, <1>3, <1>4, <1>5 DEF Next

\* What is sealed was judged, and is what the validator demands.
LEMMA SealedIsJudged ==
    ASSUME EdgeInv, Sealed(disk)
    PROVE  Judged /\ disk.manifest /\ ~disk.failure
BY DEF EdgeInv, EdgeControl, EdgeVerdict, DiskStages, Settled, Sealed

\* What was judged the validator accepts.
LEMMA JudgedIsSound ==
    ASSUME EdgeInv, Sealed(disk)
    PROVE  SealedIsSound
<1> DEFINE n == Len(seen["color"])
<1>0. Judged /\ disk.manifest /\ ~disk.failure /\ TargetStages /\ StreamTypes
  BY SealedIsJudged DEF EdgeInv
<1>1. /\ \A w \in Children : Complete(w) /\ Len(child[w].written) = n
      /\ target = n /\ serial = "gapless"
      /\ \A s \in Streams : Len(seen[s]) = n /\ Gapless(seen[s])
      /\ pending = {} /\ Len(irRows) = n
      /\ \A w \in Writers : child[w].written = irRows
      /\ child["rgb"].written = seen["color"]
      /\ \A s \in Sides : seen[s] = irRows
      /\ target # 0
  BY <1>0 DEF Judged
<1>2. /\ "left" \in Sides /\ Sides \subseteq Streams /\ "color" \in Streams
      /\ Writers \subseteq Children /\ "rgb" \in Children /\ Children = Writers \cup {"rgb"}
  BY ChildrenFacts DEF Streams, Sides
<1>3. n \in Nat /\ irRows \in Seq(Int)
  BY <1>0, <1>2, StreamFacts
<1> HIDE DEF n
<1>4. \A s \in Streams : Received(s) = n
  BY <1>1 DEF Received
<1>5. \A s \in Streams : Consecutive(seen[s])
  BY <1>1 DEF Gapless, Consecutive
<1>6. Consecutive(irRows)
  BY <1>1, <1>2, <1>5
<1>7. SealedIsComplete
  <2>1. \A w \in Children : child[w].process = "ended" /\ ~child[w].failed
    BY <1>1 DEF Complete
  <2> QED BY <1>0, <1>1, <1>2, <1>4, <2>1 DEF SealedIsComplete
<1>8. CountsMatch
  <2>1. irRows # <<>>
    <3>1. Len(irRows) # 0
      BY <1>1
    <3> QED BY <3>1
  <2> QED BY <1>1, <1>2, <1>4, <2>1 DEF CountsMatch
<1>9. TerminationMatches
  <2>1. CASE mode = "interleaved"
    BY <2>1 DEF TerminationMatches
  <2>2. CASE mode = "fixed_frames"
    BY <1>0, <1>1, <2>2 DEF TerminationMatches, TargetStages
  <2>3. CASE mode = "until_signal"
    BY <1>0, <1>1, <2>3 DEF TerminationMatches, TargetStages
  <2> QED BY <2>1, <2>2, <2>3 DEF EdgeInv, EdgeControl, EdgeTypes, Modes
<1>10. InfraredMatches /\ ColorMatches
  BY <1>1, <1>2, <1>4, <1>6 DEF InfraredMatches, ColorMatches
<1>11. StreamsMatch
  BY <1>1, <1>4, <1>5 DEF StreamsMatch
<1>12. Valid
  BY <1>0, <1>1, <1>8, <1>9, <1>10, <1>11 DEF Valid, FilesMatch
<1> QED BY <1>7, <1>12 DEF SealedIsSound, SealedIsValid

\* The invariant implies the properties.
LEMMA EdgeSound ==
    ASSUME EdgeInv
    PROVE  SealedIsSound /\ RowsMatchFrames /\ FailureIsUnsealed /\ MeasurementsSurvivePowerLoss
<1>1. SealedIsSound
  <2>1. ~Sealed(disk) => SealedIsSound
    BY DEF SealedIsSound, SealedIsValid, SealedIsComplete
  <2> QED BY <2>1, JudgedIsSound
<1>2. RowsMatchFrames
  <2>1. SUFFICES ASSUME NEW w \in Writers, ~child[w].failed, ~child[w].cancel
                 PROVE  /\ Len(irRows) <= Len(Entries(child[w]))
                        /\ \A i \in DOMAIN irRows : Entries(child[w])[i] = irRows[i]
                        /\ \A i \in DOMAIN Entries(child[w]) :
                             i > Len(irRows) + 1 => Entries(child[w])[i] = Sentinel
    BY DEF RowsMatchFrames
  <2> DEFINE e == Entries(child[w])
  <2>2. Follows(e, irRows, 0) \/ Follows(e, irRows, 1)
    BY <2>1 DEF EdgeInv, EdgeFlow, RowsOfWriters
  <2>3. child[w] \in Kids
    BY <2>1, EdgeFacts, ChildrenFacts DEF EdgeInv, EdgeControl
  <2>4. e \in Seq(Int) /\ irRows \in Seq(Int)
    BY <2>3, EntriesFacts, StreamFacts DEF EdgeInv
  <2> HIDE DEF e
  <2>5. Follows(e, irRows, 1)
    BY <2>2, <2>4, FollowsSpare
  <2> QED BY <2>5 DEF Follows, e
<1>3. FailureIsUnsealed
  <2>1. DiskStages /\ main.publish \in {"no", "cut", "returned"}
    BY EdgeFacts DEF EdgeInv, EdgeControl
  <2> QED BY <2>1 DEF FailureIsUnsealed, DiskStages
<1>4. MeasurementsSurvivePowerLoss
  <2>1. SUFFICES ASSUME NEW d \in AfterPowerLoss, Sealed(d)
                 PROVE  d.manifest /\ Writers \cup {"stm32", "index"} \subseteq disk.durable
    BY DEF MeasurementsSurvivePowerLoss
  <2>2. \A e \in {"name", "marker", "manifest"} : e \in disk.unsynced \/ d[e] = disk[e]
    BY DEF AfterPowerLoss
  <2>3. d.name = disk.name \/ "name" \in disk.unsynced
    BY <2>2
  <2>4. d.manifest = disk.manifest \/ "manifest" \in disk.unsynced
    BY <2>2
  <2>5. disk.name = "final" \/ "name" \in disk.unsynced
    BY <2>1, <2>3 DEF Sealed
  <2>6. Settled /\ Lasting \subseteq disk.durable
    BY <2>5 DEF EdgeInv, EdgeControl, DiskStages
  <2> QED BY <2>4, <2>6 DEF Settled, Lasting
<1> QED BY <1>1, <1>2, <1>3, <1>4

-----------------------------------------------------------------------------
(* The three programs.                                                      *)

\* Each program works on variables of its own.
EdgeSystemInv == EdgeInv /\ SpoolInv /\ SessionInv

\* The inductive invariants of the three programs hold throughout, whichever
\* of them records (rsusb_capture.py, capture.py and session.py of edge_rk3576).
THEOREM EdgeInvariance == MCSpec => []EdgeSystemInv
<1>1. MCInit => EdgeSystemInv
  BY EdgeStart, SpoolStart, SessionStart DEF MCInit, EdgeSystemInv
<1>2. EdgeSystemInv /\ [MCNext]_allVars => EdgeSystemInv'
  <2> SUFFICES ASSUME EdgeSystemInv, [MCNext]_allVars
               PROVE  EdgeSystemInv'
    OBVIOUS
  <2>1. [Next]_vars /\ [Spool!SpoolNext]_spoolVars /\ [Session!SessionNext]_sessionVars
    BY DEF MCNext, Rsusb, V4l2, Z2, allVars
  <2> QED BY <2>1, EdgeStep, SpoolStep, SessionStep DEF EdgeSystemInv
<1> QED BY <1>1, <1>2, PTL DEF MCSpec

\* Every program's sealed session is whole, and accepted by its validator.
THEOREM SealedSessionsAlwaysSound == MCSpec => []SealedSessionsAreSound
<1>1. EdgeSystemInv => SealedSessionsAreSound
  BY EdgeSound, SpoolSound, SessionSound DEF EdgeSystemInv, SealedSessionsAreSound
<1> QED BY <1>1, EdgeInvariance, PTL

\* The rows of ir_frames.jsonl are the frames in the writers' files and queues.
THEOREM RowsAlwaysMatchFrames == MCSpec => []RowsMatchFrames
<1>1. EdgeSystemInv => RowsMatchFrames
  BY EdgeSound DEF EdgeSystemInv
<1> QED BY <1>1, EdgeInvariance, PTL

\* A failed or aborted capture leaves no sealed session and no camera.
THEOREM FailureAlwaysContained == MCSpec => []FailureIsContained
<1>1. EdgeSystemInv => FailureIsContained
  BY EdgeSound, SpoolSound DEF EdgeSystemInv, FailureIsContained
<1> QED BY <1>1, EdgeInvariance, PTL

\* What looks sealed after a power loss has its manifest and measurements.
THEOREM SealAlwaysSurvivesPowerLoss == MCSpec => []SealSurvivesPowerLoss
<1>1. EdgeSystemInv => SealSurvivesPowerLoss
  BY EdgeSound, SpoolSound DEF EdgeSystemInv, SealSurvivesPowerLoss
<1> QED BY <1>1, EdgeInvariance, PTL
=============================================================================
