------------------------- MODULE ImuPipeline_proof -------------------------
(***************************************************************************)
(* What ImuPipeline promises of a PASS for queues of any size, any number   *)
(* of samples and faults and every schedule of the three threads.           *)
(*                                                                          *)
(* The inductive invariant follows a sample on its way: the reader's        *)
(* numbers ascend (ReaderInv); what record_imu took is in the file, in the  *)
(* queue or at the reader's put, in this order (FlowInv); as long as no gap *)
(* was counted nothing is missing in what record_imu took (HoleInv); and    *)
(* when the recorder has come to its end in time, nothing can be behind its *)
(* sentinel (ShutdownInv).                                                  *)
(*                                                                          *)
(* Last SampleClock, for every counter and line: the published time of a    *)
(* sample never goes back, and the unwrapped one is exact.                  *)
(***************************************************************************)
EXTENDS ImuPipeline, SampleClock, SequenceTheorems, TLAPS

Ascending(q) == \A i, j \in DOMAIN q : i < j => q[i].n < q[j].n

\* The reader has taken the time of the head of its packets.
AtHead == rpc \in {"record", "imuput"}

ReaderInv ==
    /\ rpc \in {"feed", "rawput"} <=> batch # <<>>
    /\ rpc \in {"off", "read", "ended"} => packets = <<>>
    /\ AtHead => packets # <<>> /\ packets[1].n = last
    /\ Ascending(batch) /\ Ascending(packets)
    /\ \A i \in DOMAIN packets, j \in DOMAIN batch : packets[i].n < batch[j].n
    /\ \A j \in DOMAIN batch : last < batch[j].n /\ batch[j].n < next
    /\ \A i \in DOMAIN packets : packets[i].n < next /\ (last < packets[i].n \/ (i = 1 /\ AtHead))
    /\ last < next

\* The sample the reader is about to put.
Waiting == IF rpc = "imuput" THEN {last} ELSE {}

FlowInv ==
    /\ \A n \in Numbers(disk, "imu") \cup Numbers(queue, "imu") : n <= last /\ (AtHead => n < last)
    /\ \A n \in offered : n <= last /\ (rpc = "record" => n < last)
    /\ Numbers(disk, "imu") \cup Numbers(queue, "imu") \cup Waiting \subseteq offered
    /\ dropped = 0 /\ ~writeError =>
           offered \subseteq Numbers(disk, "imu") \cup Numbers(queue, "imu") \cup Waiting
    /\ InOrder(disk) /\ InOrder(queue)
    /\ \A m \in Numbers(disk, "imu"), n \in Numbers(queue, "imu") : m < n

Recording == {"imu", "warm", "drain", "formal", "stoptime"}
Ended     == {"stopimu", "joinimu", "stoprecorder", "joinrecorder", "finalize", "report", "exited"}
Joined    == {"joinrecorder", "finalize", "report", "exited"}

HoleInv ==
    /\ mpc \in {"recorder", "imu"} => rpc = "off" /\ last = 0 /\ offered = {}
    /\ mpc \in Recording => recording
    /\ mpc \in {"recorder", "snapshot"} \cup Ended => ~recording
    /\ (IF mpc \in Ended THEN endStats ELSE stats).gaps = 0 => Gapless(offered)
    /\ stats.gaps = 0 /\ recording =>
           IF rpc = "record" THEN offered = {} \/ last - 1 \in offered
           ELSE (offered = {} /\ last = 0) \/ last \in offered
    /\ 0 \notin offered /\ (AtHead => last # 0)
    /\ mpc = "formal" => startStats.gaps <= stats.gaps
    /\ mpc \in {"stoptime", "clear", "snapshot"} \cup Ended /\ ~failed => startStats.gaps = 0

ShutdownInv ==
    /\ wpc = "off" => disk = <<>> /\ queue = <<>> /\ mpc \notin Recording
    /\ wpc = "off" => rpc = "off"
    /\ mpc = "recorder" => wpc = "off"
    /\ mpc \notin Joined /\ wpc # "off" => recRunning
    /\ mpc \in Joined => ~recRunning
    /\ wpc \in {"close", "done"} => mpc \in Joined
    /\ mpc \notin Joined => \A i \in DOMAIN queue : queue[i] # Sentinel
    /\ mpc \in Joined /\ wpc = "get" => queue # <<>>
    /\ mpc \in {"finalize", "report", "exited"} /\ clean => wpc \in {"done", "off"}
    /\ manifest # <<>> => wpc = "done"
    /\ joined /\ mpc \in {"stoprecorder"} \cup Joined => rpc \in {"off", "ended"}
    /\ joined /\ mpc \in Joined =>
           /\ \A i \in DOMAIN queue : queue[i] = Sentinel => i = Len(queue)
           /\ wpc \in {"close", "done"} => queue = <<>>

PassInv ==
    /\ result = "PASS" => mpc \in {"report", "exited"} /\ wpc = "done"
    /\ PassIsGapless /\ AcceptedIsWritten

IInv == ReaderInv /\ FlowInv /\ HoleInv /\ ShutdownInv /\ PassInv

-----------------------------------------------------------------------------
(* Sequences.                                                               *)

(* What is behind the head of a sequence.                                   *)
LEMMA TailFacts ==
    ASSUME NEW S, NEW q \in Seq(S), q # <<>>
    PROVE  /\ Tail(q) \in Seq(S) /\ Head(q) = q[1] /\ q[1] \in S /\ 1 \in DOMAIN q
           /\ Len(Tail(q)) = Len(q) - 1 /\ Len(q) \in Nat \ {0}
           /\ \A i \in DOMAIN Tail(q) : i + 1 \in DOMAIN q /\ Tail(q)[i] = q[i + 1]
           /\ \A i \in DOMAIN q : i # 1 => i - 1 \in DOMAIN Tail(q) /\ q[i] = Tail(q)[i - 1]
<1>1. Tail(q) \in Seq(S) /\ Len(Tail(q)) = Len(q) - 1 /\ Len(q) \in Nat \ {0}
      /\ \A i \in 1..Len(q) - 1 : Tail(q)[i] = q[i + 1]
  BY HeadTailProperties, EmptySeq
<1>2. DOMAIN q = 1..Len(q) /\ DOMAIN Tail(q) = 1..Len(Tail(q))
  BY <1>1, LenProperties
<1>3. Head(q) = q[1] /\ q[1] \in S
  BY <1>1, HeadTailProperties, ElementOfSeq
<1> QED BY <1>1, <1>2, <1>3

(* What an element at the end adds.                                         *)
LEMMA AppendFacts ==
    ASSUME NEW S, NEW q \in Seq(S), NEW e \in S
    PROVE  /\ Append(q, e) \in Seq(S) /\ Append(q, e) # <<>>
           /\ Len(Append(q, e)) = Len(q) + 1 /\ Len(q) \in Nat
           /\ DOMAIN q = 1..Len(q)
           /\ DOMAIN Append(q, e) = 1..Len(q) + 1
           /\ \A i \in DOMAIN q : Append(q, e)[i] = q[i]
           /\ Append(q, e)[Len(q) + 1] = e
BY AppendProperties, LenProperties

(* A number is in a log if an entry has it.                                 *)
LEMMA NumberIn ==
    ASSUME NEW q, NEW kind, NEW n
    PROVE  n \in Numbers(q, kind) <=> \E i \in DOMAIN q : q[i].kind = kind /\ q[i].n = n
BY DEF Numbers, Range

(* What a log holds with one more entry.                                    *)
LEMMA NumbersAppended ==
    ASSUME NEW q \in Seq(Items \cup {Sentinel}), NEW e \in Items \cup {Sentinel}
    PROVE  Numbers(Append(q, e), "imu") =
               Numbers(q, "imu") \cup (IF e.kind = "imu" THEN {e.n} ELSE {})
<1> DEFINE a == Append(q, e)
<1>1. /\ DOMAIN a = 1..Len(q) + 1 /\ DOMAIN q = 1..Len(q) /\ Len(q) \in Nat
      /\ (\A i \in DOMAIN q : a[i] = q[i]) /\ a[Len(q) + 1] = e
  BY AppendFacts
<1> HIDE DEF a
<1>2. ASSUME NEW n
      PROVE  n \in Numbers(a, "imu") <=> n \in Numbers(q, "imu") \/ (e.kind = "imu" /\ n = e.n)
  <2>1. n \in Numbers(a, "imu") <=> \E i \in DOMAIN a : a[i].kind = "imu" /\ a[i].n = n
    BY NumberIn
  <2>2. n \in Numbers(q, "imu") <=> \E i \in DOMAIN q : q[i].kind = "imu" /\ q[i].n = n
    BY NumberIn
  <2> QED BY <1>1, <2>1, <2>2
<1> QED BY <1>2 DEF a

(* What a log holds without its first entry.                                *)
LEMMA NumbersBehind ==
    ASSUME NEW q \in Seq(Items \cup {Sentinel}), q # <<>>
    PROVE  Numbers(q, "imu") =
               Numbers(Tail(q), "imu") \cup (IF Head(q).kind = "imu" THEN {Head(q).n} ELSE {})
<1> DEFINE t == Tail(q)
<1>1. /\ Head(q) = q[1] /\ 1 \in DOMAIN q
      /\ \A i \in DOMAIN t : i + 1 \in DOMAIN q /\ t[i] = q[i + 1]
      /\ \A i \in DOMAIN q : i # 1 => i - 1 \in DOMAIN t /\ q[i] = t[i - 1]
  BY TailFacts
<1> HIDE DEF t
<1>2. ASSUME NEW n
      PROVE  n \in Numbers(q, "imu") <=>
                 n \in Numbers(t, "imu") \/ (Head(q).kind = "imu" /\ n = Head(q).n)
  <2>1. n \in Numbers(q, "imu") <=> \E i \in DOMAIN q : q[i].kind = "imu" /\ q[i].n = n
    BY NumberIn
  <2>2. n \in Numbers(t, "imu") <=> \E i \in DOMAIN t : t[i].kind = "imu" /\ t[i].n = n
    BY NumberIn
  <2> QED BY <1>1, <2>1, <2>2
<1> QED BY <1>2 DEF t

(* A log stays in order when a number after all of it is appended.          *)
LEMMA OrderAppended ==
    ASSUME NEW q \in Seq(Items \cup {Sentinel}), NEW e \in Items \cup {Sentinel}, InOrder(q),
           e.kind = "imu" => \A n \in Numbers(q, "imu") : n < e.n
    PROVE  InOrder(Append(q, e))
<1> DEFINE a == Append(q, e)
<1>1. /\ DOMAIN a = 1..Len(q) + 1 /\ DOMAIN q = 1..Len(q) /\ Len(q) \in Nat
      /\ (\A i \in DOMAIN q : a[i] = q[i]) /\ a[Len(q) + 1] = e
  BY AppendFacts
<1> HIDE DEF a
<1>2. ASSUME NEW i \in DOMAIN a, NEW j \in DOMAIN a, i < j, a[i].kind = "imu", a[j].kind = "imu"
      PROVE  a[i].n < a[j].n
  <2>1. i \in DOMAIN q /\ a[i] = q[i]
    BY <1>1, <1>2
  <2>2. CASE j \in DOMAIN q
    BY <1>1, <1>2, <2>1, <2>2 DEF InOrder
  <2>3. CASE j \notin DOMAIN q
    <3>1. a[j] = e /\ q[i].n \in Numbers(q, "imu")
      BY <1>1, <1>2, <2>1, <2>3, NumberIn
    <3> QED BY <1>2, <2>1, <3>1
  <2> QED BY <2>2, <2>3
<1> QED BY <1>2 DEF InOrder, a

(* A log stays in order without its first entry, which is before the rest.  *)
LEMMA OrderBehind ==
    ASSUME NEW q \in Seq(Items \cup {Sentinel}), q # <<>>, InOrder(q)
    PROVE  /\ InOrder(Tail(q))
           /\ Head(q).kind = "imu" => \A n \in Numbers(Tail(q), "imu") : Head(q).n < n
<1> DEFINE t == Tail(q)
<1>1. /\ Head(q) = q[1] /\ 1 \in DOMAIN q /\ t \in Seq(Items \cup {Sentinel})
      /\ \A i \in DOMAIN t : i + 1 \in DOMAIN q /\ t[i] = q[i + 1]
  BY TailFacts
<1>2. \A i \in DOMAIN t : i \in Nat /\ i > 0
  BY <1>1, LenProperties
<1> HIDE DEF t
<1>3. InOrder(t)
  BY <1>1, <1>2 DEF InOrder
<1>4. ASSUME NEW n \in Numbers(t, "imu"), Head(q).kind = "imu"
      PROVE  Head(q).n < n
  <2>1. PICK i \in DOMAIN t : t[i].kind = "imu" /\ t[i].n = n
    BY <1>4, NumberIn
  <2>2. i + 1 \in DOMAIN q /\ q[i + 1] = t[i] /\ 1 < i + 1
    BY <1>1, <1>2
  <2> QED BY <1>1, <1>4, <2>1, <2>2 DEF InOrder
<1> QED BY <1>3, <1>4 DEF t

-----------------------------------------------------------------------------
(* Types.                                                                   *)

(* What the decoder makes of its first candidate.                           *)
LEMMA Decoded ==
    ASSUME TypeOK, batch # <<>>, Decode
    PROVE  /\ decoderBad' \in Nat
           /\ batch' = Tail(batch) /\ batch' \in Seq(Read) /\ batch[1] \in Read
           /\ packets' \in Seq(Read) /\ packets' \in {packets, Append(packets, batch[1])}
           /\ rpc' = IF batch' # <<>> THEN "feed" ELSE "parse"
<1>1. /\ batch' = Tail(batch) /\ Tail(batch) \in Seq(Read)
      /\ Head(batch) = batch[1] /\ batch[1] \in Read
      /\ Len(Tail(batch)) = Len(batch) - 1 /\ Len(batch) \in Nat
  BY TailFacts DEF TypeOK, Decode
<1>2. Append(packets, batch[1]) \in Seq(Read)
  BY <1>1, AppendFacts DEF TypeOK
<1>3. Len(batch) = 1 <=> Tail(batch) = <<>>
  <2>1. Tail(batch) = <<>> <=> Len(Tail(batch)) = 0
    BY <1>1, EmptySeq
  <2> QED BY <1>1, <2>1
<1>4. decoderBad' \in Nat /\ packets' \in {packets, Append(packets, batch[1])}
  BY <1>1 DEF Decode, TypeOK
<1>5. packets' \in Seq(Read)
  BY <1>2, <1>4 DEF TypeOK
<1> QED BY <1>1, <1>3, <1>4, <1>5 DEF Decode

(* A counter that goes on is a counter.                                     *)
LEMMA CountersGo ==
    ASSUME NEW c \in Counters, NEW n \in Nat
    PROVE  /\ [c EXCEPT !.bad = n] \in Counters
           /\ [c EXCEPT !.serial = @ + 1] \in Counters
           /\ [c EXCEPT !.gaps = n] \in Counters
           /\ [c EXCEPT !.invalid = n] \in Counters
BY DEF Counters

(* The reader keeps the types.                                              *)
LEMMA ReaderTypes ==
    ASSUME TypeOK, ReaderInv, Reader
    PROVE  TypeOK'
<1> USE DEF line, recorder, window, verdict, flags
<1>1. CASE ReadBatch
  <2>a. PICK from \in {next, next + 1}, count \in 1..MaxBatch :
           \E kinds \in [1..count -> {"good", "corrupt", "invalid"}] :
           /\ faults' = faults + ((from - next) +
                 (IF {i \in 1..count : kinds[i] # "good"} = {} THEN 0 ELSE 1))
           /\ next' = from + count
           /\ batch' = [i \in 1..count |-> [n |-> from + i - 1, kind |-> kinds[i]]]
           /\ packets' = <<>>
    BY <1>1 DEF ReadBatch
  <2>1. PICK kinds \in [1..count -> {"good", "corrupt", "invalid"}] :
           /\ faults' = faults + ((from - next) +
                 (IF {i \in 1..count : kinds[i] # "good"} = {} THEN 0 ELSE 1))
           /\ next' = from + count
           /\ batch' = [i \in 1..count |-> [n |-> from + i - 1, kind |-> kinds[i]]]
           /\ packets' = <<>>
    BY <2>a
  <2>2. from \in Nat /\ count \in Nat /\ from - next \in {0, 1}
    BY <2>1, PipelineAssumption DEF TypeOK
  <2>3. batch' \in Seq(Read)
    <3>1. \A i \in 1..count : [n |-> from + i - 1, kind |-> kinds[i]] \in Read
      BY <2>2 DEF Read
    <3> QED BY <2>1, <2>2, <3>1
  <2>4. next' \in Nat /\ faults' \in Nat /\ packets' \in Seq(Read)
    BY <2>1, <2>2 DEF TypeOK
  <2> QED BY <1>1, <2>3, <2>4 DEF ReadBatch, TypeOK
<1>2. CASE OfferRaw
  <2>1. batch # <<>>
    BY <1>2 DEF OfferRaw, ReaderInv
  <2>2. CASE Full
    BY <1>2, <2>1, <2>2, Decoded DEF OfferRaw, TypeOK
  <2>3. CASE ~Full
    BY <1>2, <2>3 DEF OfferRaw, TypeOK
  <2> QED BY <2>2, <2>3
<1>3. CASE PutRaw
  <2>1. batch # <<>>
    BY <1>3 DEF PutRaw, ReaderInv
  <2>2. /\ decoderBad' \in Nat /\ batch' \in Seq(Read) /\ packets' \in Seq(Read)
        /\ rpc' \in {"feed", "parse"} /\ batch[1] \in Read /\ Head(batch) = batch[1]
    BY <1>3, <2>1, Decoded, TailFacts DEF PutRaw, TypeOK
  <2>3. queue' \in Seq(Items \cup {Sentinel})
    <3>1. [kind |-> "raw", n |-> Head(batch).n] \in Items
      BY <2>2 DEF Items, Read
    <3> QED BY <1>3, <3>1, AppendFacts DEF PutRaw, Put, TypeOK
  <2> QED BY <1>3, <2>2, <2>3 DEF PutRaw, TypeOK
<1>4. CASE Parse
  <2>1. packets # <<>> /\ packets \in Seq(Read)
    BY <1>4 DEF Parse, TypeOK
  <2>2. Head(packets).n \in Nat /\ Tail(packets) \in Seq(Read)
    <3>1. Head(packets) \in Read /\ Tail(packets) \in Seq(Read)
      BY <2>1, TailFacts
    <3> QED BY <3>1 DEF Read
  <2>3. stats' \in Counters
    <3>1. stats \in Counters
      BY DEF TypeOK
    <3>2. stats.invalid \in Nat /\ stats.gaps \in Nat
      BY <3>1 DEF Counters
    <3> DEFINE invalid == IF Head(packets).kind = "good" THEN stats.invalid ELSE stats.invalid + 1
               gaps    == IF Head(packets).kind = "good" /\ last # 0 /\ Head(packets).n # last + 1
                          THEN stats.gaps + 1 ELSE stats.gaps
    <3>3. stats' = [stats EXCEPT !.invalid = invalid, !.gaps = gaps]
      BY <1>4 DEF Parse
    <3>4. invalid \in Nat /\ gaps \in Nat
      BY <3>2
    <3>5. stats' = [[stats EXCEPT !.invalid = invalid] EXCEPT !.gaps = gaps]
      BY <3>3
    <3> HIDE DEF invalid, gaps
    <3>6. [stats EXCEPT !.invalid = invalid] \in Counters
      BY <3>1, <3>4, CountersGo
    <3> QED BY <3>4, <3>5, <3>6, CountersGo
  <2>4. /\ seen' \in BOOLEAN /\ last' \in Nat /\ lastInWindow' \in Nat /\ packets' \in Seq(Read)
        /\ rpc' \in {"record", "parse"}
    BY <1>4, <2>1, <2>2 DEF Parse, TypeOK
  <2>5. UNCHANGED <<line, connected, batch, decoderBad, offered, queue, dropped, recorder, writeError,
                    flags, mpc, started, stopped, first, verdict>>
    BY <1>4 DEF Parse
  <2> QED BY <2>3, <2>4, <2>5 DEF TypeOK
<1>5. CASE RecordImu
  <2>1. packets # <<>> /\ packets \in Seq(Read)
    BY <1>5 DEF RecordImu, ReaderInv, AtHead, TypeOK
  <2>2. Head(packets).n \in Nat /\ Tail(packets) \in Seq(Read)
    <3>1. Head(packets) \in Read /\ Tail(packets) \in Seq(Read)
      BY <2>1, TailFacts
    <3> QED BY <3>1 DEF Read
  <2>3. offered' \subseteq Nat /\ dropped' \in Nat
    <3>1. offered \subseteq Nat /\ dropped \in Nat
      BY DEF TypeOK
    <3>2. /\ offered' = IF recording THEN offered \cup {Head(packets).n} ELSE offered
          /\ dropped' = IF recording /\ Full THEN dropped + 1 ELSE dropped
      BY <1>5 DEF RecordImu
    <3>3. offered' \subseteq Nat
      BY <2>2, <3>1, <3>2
    <3>4. dropped' \in Nat
      BY <3>1, <3>2
    <3> QED BY <3>3, <3>4
  <2>4. /\ first' \in Nat /\ packets' \in Seq(Read)
        /\ rpc' \in {"imuput", "parse"}
    BY <1>5, <2>1, <2>2 DEF RecordImu, Observe, TypeOK
  <2>5. UNCHANGED <<line, connected, batch, decoderBad, seen, stats, last, queue, recorder,
                    writeError, flags, mpc, started, stopped, lastInWindow, verdict>>
    BY <1>5 DEF RecordImu
  <2> QED BY <2>3, <2>4, <2>5 DEF TypeOK
<1>6. CASE PutImu
  <2>1. packets # <<>> /\ Head(packets) = packets[1] /\ packets[1].n \in Nat /\ Tail(packets) \in Seq(Read)
    BY <1>6, TailFacts DEF PutImu, ReaderInv, AtHead, TypeOK, Read
  <2>2. queue' \in Seq(Items \cup {Sentinel})
    <3>1. [kind |-> "imu", n |-> Head(packets).n] \in Items
      BY <2>1 DEF Items
    <3> QED BY <1>6, <3>1, AppendFacts DEF PutImu, Put, TypeOK
  <2> QED BY <1>6, <2>1, <2>2 DEF PutImu, Observe, TypeOK
<1>7. CASE EndBatch
  <2>1. stats' \in Counters
    BY <1>7 DEF EndBatch, TypeOK, Counters
  <2> QED BY <1>7, <2>1 DEF EndBatch, TypeOK
<1>8. CASE Disconnect
  <2>1. stats' \in Counters
    <3>1. stats \in Counters /\ stats' = [stats EXCEPT !.serial = @ + 1]
      BY <1>8 DEF Disconnect, TypeOK
    <3> QED BY <3>1, CountersGo
  <2>2. faults' \in Nat /\ connected' \in BOOLEAN
    <3>1. faults' = faults + 1 /\ faults \in Nat
      BY <1>8 DEF Disconnect, TypeOK
    <3>2. faults' \in Nat
      BY <3>1
    <3>3. connected' \in BOOLEAN
      BY <1>8 DEF Disconnect
    <3> QED BY <3>2, <3>3
  <2>3. UNCHANGED <<next, rpc, batch, packets, decoderBad, seen, last, offered, queue, dropped, recorder,
                    writeError, flags, mpc, window, verdict>>
    BY <1>8 DEF Disconnect
  <2> QED BY <2>1, <2>2, <2>3 DEF TypeOK
<1>9. CASE Reconnect
  <2>1. stats' \in Counters
    <3>1. stats \in Counters /\ stats' = [stats EXCEPT !.serial = @ + 1]
      BY <1>9 DEF Reconnect, TypeOK
    <3> QED BY <3>1, CountersGo
  <2>2. next' \in Nat /\ connected' = TRUE /\ decoderBad' \in Nat
    BY <1>9 DEF Reconnect, TypeOK
  <2> QED BY <1>9, <2>1, <2>2 DEF Reconnect, TypeOK
<1>10. CASE ReaderEnds
  BY <1>10 DEF ReaderEnds, TypeOK
<1> QED BY <1>1, <1>2, <1>3, <1>4, <1>5, <1>6, <1>7, <1>8, <1>9, <1>10 DEF Reader

(* The recorder and main keep the types.                                    *)
LEMMA OtherTypes ==
    ASSUME TypeOK, RecorderThread \/ Main \/ StartPasses
    PROVE  TypeOK'
<1> USE DEF line, reader, recorder, window, verdict, flags
<1>1. CASE LoopTest
  BY <1>1 DEF LoopTest, TypeOK, rest
<1>2. CASE Take
  <2>1. Tail(queue) \in Seq(Items \cup {Sentinel}) /\ Head(queue) \in Items \cup {Sentinel}
    BY <1>2, TailFacts DEF Take, TypeOK, rest
  <2>2. Head(queue) # Sentinel => Append(disk, Head(queue)) \in Seq(Items)
    BY <2>1, AppendFacts DEF TypeOK
  <2>3. queue' \in Seq(Items \cup {Sentinel}) /\ disk' \in Seq(Items) /\ wpc' \in {"loop", "close"}
    BY <1>2, <2>1, <2>2 DEF Take, TypeOK, rest
  <2> QED BY <1>2, <2>3 DEF Take, TypeOK, rest
<1>3. CASE WriteFails
  <2>1. Tail(queue) \in Seq(Items \cup {Sentinel})
    BY <1>3, TailFacts DEF WriteFails, TypeOK, rest
  <2> QED BY <1>3, <2>1 DEF WriteFails, TypeOK, rest
<1>4. CASE CloseFiles
  BY <1>4 DEF CloseFiles, TypeOK, rest
<1>5. CASE CloseFails
  BY <1>5 DEF CloseFails, TypeOK, rest
<1>6. CASE StartRecorder
  BY <1>6 DEF StartRecorder, TypeOK, others
<1>7. CASE StartImu
  BY <1>7 DEF StartImu, TypeOK, others
<1>8. CASE CrossStart
  BY <1>8 DEF CrossStart, TypeOK, others
<1>9. CASE StartSnapshot
  BY <1>9 DEF StartSnapshot, TypeOK, others
<1>10. CASE FormalPoll
  BY <1>10 DEF FormalPoll, TypeOK, others
<1>11. CASE StopTime
  BY <1>11 DEF StopTime, TypeOK, others
<1>12. CASE Fail
  BY <1>12 DEF Fail, TypeOK, others
<1>13. CASE ClearRecording
  <2>1. recording' \in BOOLEAN /\ stopped' \in BOOLEAN /\ mpc' = "snapshot"
    BY <1>13 DEF ClearRecording, TypeOK
  <2>2. UNCHANGED <<others, writeError, running, recRunning, started, first, lastInWindow, verdict>>
    BY <1>13 DEF ClearRecording
  <2> QED BY <2>1, <2>2 DEF TypeOK, others
<1>14. CASE EndSnapshot
  BY <1>14 DEF EndSnapshot, TypeOK, others
<1>15. CASE StopImu
  <2>1. failed' \in BOOLEAN /\ running' \in BOOLEAN /\ mpc' \in {"stoprecorder", "joinimu"}
    BY <1>15 DEF StopImu, TypeOK
  <2>2. UNCHANGED <<others, writeError, recRunning, recording, window, startStats, endStats, clean, joined,
                  result, manifest>>
    BY <1>15 DEF StopImu
  <2> QED BY <2>1, <2>2 DEF TypeOK, others
<1>16. CASE JoinReader
  <2>1. joined' \in BOOLEAN /\ connected' \in BOOLEAN /\ mpc' = "stoprecorder"
    BY <1>16 DEF JoinReader, TypeOK
  <2>2. UNCHANGED <<line, rpc, batch, packets, decoderBad, stats, seen, last, offered, recorder, queue, dropped,
                  writeError, flags, window, startStats, endStats, failed, clean, result, manifest>>
    BY <1>16 DEF JoinReader
  <2> QED BY <2>1, <2>2 DEF TypeOK, others
<1>17. CASE JoinRecorder
  BY <1>17 DEF JoinRecorder, TypeOK, others
<1>18. CASE Exit
  BY <1>18 DEF Exit, TypeOK, others
<1>19. CASE StartPasses
  BY <1>19 DEF StartPasses, TypeOK, others
<1>20. CASE StopRecorder
  <2>1. Append(queue, Sentinel) \in Seq(Items \cup {Sentinel})
    BY AppendFacts DEF TypeOK
  <2>2. queue' \in Seq(Items \cup {Sentinel}) /\ recRunning' \in BOOLEAN /\ mpc' \in {"finalize", "joinrecorder"}
    BY <1>20, <2>1 DEF StopRecorder, TypeOK
  <2>3. UNCHANGED <<line, reader, recorder, dropped, writeError, running, recording, window, verdict>>
    BY <1>20 DEF StopRecorder
  <2> QED BY <2>2, <2>3 DEF TypeOK
<1>21. CASE Finalize
  <2>1. manifest' \in Seq(Items)
    <3>1. disk \in Seq(Items)
      BY DEF TypeOK
    <3>2. manifest' = disk \/ manifest' = <<>>
      BY <1>21 DEF Finalize
    <3>3. <<>> \in Seq(Items)
      OBVIOUS
    <3> QED BY <3>1, <3>2, <3>3
  <2>2. result' \in {"PASS", "FAIL"} /\ mpc' = "report"
        /\ UNCHANGED <<others, writeError, flags, window, startStats, endStats, failed, clean, joined>>
    BY <1>21 DEF Finalize
  <2> QED BY <2>1, <2>2 DEF TypeOK, others
<1> QED BY <1>1, <1>2, <1>3, <1>4, <1>5, <1>6, <1>7, <1>8, <1>9, <1>10, <1>11, <1>12,
           <1>13, <1>14, <1>15, <1>16, <1>17, <1>18, <1>19, <1>20, <1>21
       DEF RecorderThread, Main, Shutdown

-----------------------------------------------------------------------------
(* What each thread leaves alone.                                           *)

(* The reader leaves main's variables and the file alone.                   *)
LEMMA ReaderFrame ==
    ASSUME Reader
    PROVE  /\ UNCHANGED <<wpc, disk, writeError, running, recRunning, recording, mpc, startStats>>
           /\ UNCHANGED <<endStats, failed, clean, joined, result, manifest>>
<1> USE DEF recorder, flags, verdict
<1>1. CASE ReadBatch
  BY <1>1 DEF ReadBatch
<1>2. CASE OfferRaw
  BY <1>2 DEF OfferRaw
<1>3. CASE PutRaw
  BY <1>3 DEF PutRaw
<1>4. CASE Parse
  BY <1>4 DEF Parse
<1>5. CASE RecordImu
  BY <1>5 DEF RecordImu
<1>6. CASE PutImu
  BY <1>6 DEF PutImu
<1>7. CASE EndBatch
  BY <1>7 DEF EndBatch
<1>8. CASE Disconnect
  BY <1>8 DEF Disconnect
<1>9. CASE Reconnect
  BY <1>9 DEF Reconnect
<1>10. CASE ReaderEnds
  BY <1>10 DEF ReaderEnds
<1> QED
  BY <1>1, <1>2, <1>3, <1>4, <1>5, <1>6, <1>7, <1>8, <1>9, <1>10 DEF Reader

(* The recorder leaves the reader's and main's variables alone.             *)
LEMMA RecorderFrame ==
    ASSUME RecorderThread
    PROVE  /\ UNCHANGED <<next, rpc, batch, packets, stats, last, offered, dropped>>
           /\ UNCHANGED <<recRunning, recording, mpc, startStats, endStats, failed>>
           /\ UNCHANGED <<clean, joined, result, manifest>>
<1> USE DEF line, reader, flags, verdict, rest
<1>1. CASE LoopTest
  BY <1>1 DEF LoopTest
<1>2. CASE Take
  BY <1>2 DEF Take
<1>3. CASE WriteFails
  BY <1>3 DEF WriteFails
<1>4. CASE CloseFiles
  BY <1>4 DEF CloseFiles
<1>5. CASE CloseFails
  BY <1>5 DEF CloseFails
<1> QED
  BY <1>1, <1>2, <1>3, <1>4, <1>5 DEF RecorderThread

(* Main leaves the reader's variables and the file alone.                   *)
LEMMA MainFrame ==
    ASSUME Main \/ StartPasses
    PROVE  /\ UNCHANGED <<next, batch, packets, stats, last, offered, dropped, disk>>
           /\ UNCHANGED rpc \/ StartImu
           /\ UNCHANGED wpc \/ StartRecorder
           /\ UNCHANGED queue \/ StopRecorder
           /\ UNCHANGED writeError \/ JoinRecorder
<1> USE DEF line, reader, recorder, others
<1>1. CASE StartRecorder
  BY <1>1 DEF StartRecorder
<1>2. CASE StartImu
  BY <1>2 DEF StartImu
<1>3. CASE CrossStart
  BY <1>3 DEF CrossStart
<1>4. CASE StartSnapshot
  BY <1>4 DEF StartSnapshot
<1>5. CASE FormalPoll
  BY <1>5 DEF FormalPoll
<1>6. CASE StopTime
  BY <1>6 DEF StopTime
<1>7. CASE Fail
  BY <1>7 DEF Fail
<1>8. CASE ClearRecording
  BY <1>8 DEF ClearRecording
<1>9. CASE EndSnapshot
  BY <1>9 DEF EndSnapshot
<1>10. CASE StopImu
  BY <1>10 DEF StopImu
<1>11. CASE JoinReader
  BY <1>11 DEF JoinReader
<1>12. CASE StopRecorder
  BY <1>12 DEF StopRecorder
<1>13. CASE JoinRecorder
  BY <1>13 DEF JoinRecorder
<1>14. CASE Finalize
  BY <1>14 DEF Finalize
<1>15. CASE Exit
  BY <1>15 DEF Exit
<1>16. CASE StartPasses
  BY <1>16 DEF StartPasses
<1> QED
  BY <1>1, <1>2, <1>3, <1>4, <1>5, <1>6, <1>7, <1>8, <1>9, <1>10, <1>11, <1>12, <1>13,
     <1>14, <1>15, <1>16
  DEF Main, Shutdown

-----------------------------------------------------------------------------
(* The reader's numbers ascend.                                             *)

(* A decoded candidate goes behind the packets before it.                   *)
LEMMA DecodeKeepsOrder ==
    ASSUME TypeOK, ReaderInv, rpc \in {"feed", "rawput"}, Decode, UNCHANGED <<last, next>>
    PROVE  ReaderInv'
<1>1. batch # <<>> /\ batch \in Seq(Read) /\ packets \in Seq(Read)
  BY DEF ReaderInv, TypeOK
<1>2. /\ \A i \in DOMAIN batch' : i + 1 \in DOMAIN batch /\ batch'[i] = batch[i + 1] /\ i \in Nat
      /\ 1 \in DOMAIN batch /\ batch[1] \in Read
  <2>1. batch' = Tail(batch) /\ batch' \in Seq(Read)
    BY <1>1, Decoded
  <2>2. DOMAIN batch' \subseteq Nat
    BY <2>1, LenProperties
  <2> QED BY <1>1, <2>1, <2>2, TailFacts
<1>3. rpc' = IF batch' # <<>> THEN "feed" ELSE "parse"
  BY <1>1, Decoded
<1>4. \A j \in DOMAIN batch : last < batch[j].n /\ batch[j].n < next /\ batch[j].n \in Nat
  <2>1. \A j \in DOMAIN batch : batch[j] \in Read
    BY <1>1, ElementOfSeq, LenProperties
  <2> QED BY <2>1 DEF ReaderInv, Read
<1>5. Ascending(batch')
  <2>1. Ascending(batch)
    BY DEF ReaderInv
  <2> QED BY <1>2, <2>1 DEF Ascending
<1>6. \A j \in DOMAIN batch' : last < batch'[j].n /\ batch'[j].n < next /\ batch[1].n < batch'[j].n
  <2>1. Ascending(batch)
    BY DEF ReaderInv
  <2>2. \A j \in DOMAIN batch' : j \in Nat /\ 1 < j + 1
    <3>1. DOMAIN batch' = 1..Len(batch')
      BY <1>1, Decoded, LenProperties
    <3>2. batch' \in Seq(Read) => Len(batch') \in Nat
      BY LenProperties
    <3> QED BY <1>1, <3>1, <3>2, Decoded
  <2> QED BY <1>2, <1>4, <2>1, <2>2 DEF Ascending
<1>7. /\ Ascending(packets')
      /\ \A i \in DOMAIN packets', j \in DOMAIN batch' : packets'[i].n < batch'[j].n
      /\ \A i \in DOMAIN packets' : packets'[i].n < next /\ last < packets'[i].n
  <2>1. /\ Ascending(packets)
        /\ \A i \in DOMAIN packets, j \in DOMAIN batch : packets[i].n < batch[j].n
        /\ \A i \in DOMAIN packets : packets[i].n < next /\ last < packets[i].n
    BY DEF ReaderInv, AtHead
  <2>2. CASE packets' = packets
    <3>1. \A i \in DOMAIN packets, j \in DOMAIN batch' : packets[i].n < batch'[j].n
      BY <1>2, <2>1
    <3> QED BY <2>1, <2>2, <3>1
  <2>3. CASE packets' = Append(packets, batch[1])
    <3> DEFINE a == Append(packets, batch[1])
    <3>1. /\ DOMAIN packets = 1..Len(packets) /\ DOMAIN a = 1..Len(packets) + 1 /\ Len(packets) \in Nat
          /\ (\A i \in DOMAIN packets : a[i] = packets[i]) /\ a[Len(packets) + 1] = batch[1]
      BY <1>1, <1>2, AppendFacts
    <3> HIDE DEF a
    <3>2. \A i \in DOMAIN a : i \in DOMAIN packets \/ (i = Len(packets) + 1 /\ a[i] = batch[1])
      BY <3>1
    <3>3. \A i \in DOMAIN a : a[i].n < next /\ last < a[i].n
      BY <1>2, <1>4, <2>1, <3>1, <3>2
    <3>4. \A i \in DOMAIN a, j \in DOMAIN batch' : a[i].n < batch'[j].n
      BY <1>2, <1>6, <2>1, <3>1, <3>2
    <3>5. Ascending(a)
      <4>1. ASSUME NEW i \in DOMAIN a, NEW j \in DOMAIN a, i < j PROVE a[i].n < a[j].n
        <5>1. i \in DOMAIN packets /\ a[i] = packets[i]
          BY <3>1, <4>1
        <5>2. CASE j \in DOMAIN packets
          BY <2>1, <3>1, <4>1, <5>1, <5>2 DEF Ascending
        <5>3. CASE a[j] = batch[1]
          BY <1>2, <2>1, <5>1, <5>3
        <5> QED BY <3>2, <5>2, <5>3
      <4> QED BY <4>1 DEF Ascending
    <3> QED BY <2>3, <3>3, <3>4, <3>5 DEF a
  <2> QED BY <1>1, <2>2, <2>3, Decoded
<1>8. last < next
  BY DEF ReaderInv
<1> QED
  BY <1>3, <1>5, <1>6, <1>7, <1>8 DEF ReaderInv, AtHead

(* The reader is done with the head of its packets.                         *)
LEMMA NextPacket ==
    ASSUME TypeOK, ReaderInv, packets # <<>>, batch = <<>>, rpc' = "parse", packets' = Tail(packets),
           UNCHANGED <<batch, last, next>>
    PROVE  ReaderInv'
<1>1. packets \in Seq(Read) /\ packets' \in Seq(Read)
  BY TailFacts DEF TypeOK
<1>2. \A i \in DOMAIN packets' : i + 1 \in DOMAIN packets /\ packets'[i] = packets[i + 1]
  BY <1>1, TailFacts
<1>3. \A i \in DOMAIN packets' : i \in Nat /\ i + 1 # 1
  BY <1>1, LenProperties
<1>4. Ascending(packets')
  <2>1. Ascending(packets)
    BY DEF ReaderInv
  <2> QED BY <1>2, <1>3, <2>1 DEF Ascending
<1>5. \A i \in DOMAIN packets' : packets'[i].n < next /\ last < packets'[i].n
  BY <1>2, <1>3 DEF ReaderInv
<1>6. DOMAIN batch = {}
  OBVIOUS
<1>7. Ascending(batch) /\ last < next
  BY DEF ReaderInv
<1> QED
  BY <1>4, <1>5, <1>6, <1>7 DEF ReaderInv, AtHead

(* Every step keeps the reader's order.                                     *)
LEMMA ReaderInvKept ==
    ASSUME TypeOK, ReaderInv, HoleInv, Next
    PROVE  ReaderInv'
<1> USE DEF line
<1>1. CASE ReadBatch
  <2>a. PICK from \in {next, next + 1}, count \in 1..MaxBatch :
           \E kinds \in [1..count -> {"good", "corrupt", "invalid"}] :
           /\ next' = from + count
           /\ batch' = [i \in 1..count |-> [n |-> from + i - 1, kind |-> kinds[i]]]
    BY <1>1 DEF ReadBatch
  <2>1. /\ next' = from + count
        /\ DOMAIN batch' = 1..count
        /\ \A i \in 1..count : batch'[i].n = from + i - 1
    BY <2>a
  <2>2. packets' = <<>> /\ rpc' = "feed" /\ last' = last
    BY <1>1 DEF ReadBatch
  <2>3. next \in Nat /\ count \in Nat \ {0} /\ last \in Nat /\ last < next
    BY PipelineAssumption DEF TypeOK, ReaderInv
  <2>4. Ascending(batch')
    BY <2>1, <2>3 DEF Ascending
  <2>5. \A j \in DOMAIN batch' : last < batch'[j].n /\ batch'[j].n < next'
    BY <2>1, <2>3
  <2>6. batch' # <<>> /\ last < next'
    <3>1. 1 \in DOMAIN batch'
      BY <2>1, <2>3
    <3> QED BY <2>1, <2>3, <3>1
  <2>7. DOMAIN packets' = {}
    BY <2>2
  <2> QED BY <2>2, <2>4, <2>5, <2>6, <2>7 DEF ReaderInv, AtHead, Ascending
<1>2. CASE OfferRaw
  <2>1. rpc = "feed" /\ UNCHANGED <<last, next>>
    BY <1>2 DEF OfferRaw
  <2>2. CASE Full
    BY <1>2, <2>1, <2>2, DecodeKeepsOrder DEF OfferRaw
  <2>3. CASE ~Full
    <3>1. rpc' = "rawput" /\ UNCHANGED <<batch, packets>>
      BY <1>2, <2>3 DEF OfferRaw
    <3> QED BY <2>1, <3>1 DEF ReaderInv, AtHead, Ascending
  <2> QED BY <2>2, <2>3
<1>3. CASE PutRaw
  BY <1>3, DecodeKeepsOrder DEF PutRaw
<1>4. CASE Parse
  <2>1. packets # <<>> /\ rpc = "parse" /\ UNCHANGED <<batch, next>>
    BY <1>4 DEF Parse
  <2>2. batch = <<>> /\ DOMAIN batch = {}
    BY <2>1 DEF ReaderInv
  <2>3. CASE Head(packets).kind = "good"
    <3>1. rpc' = "record" /\ packets' = packets /\ last' = packets[1].n
      BY <1>4, <2>1, <2>3, TailFacts DEF Parse, TypeOK
    <3>2. \A i \in DOMAIN packets : i # 1 => packets[1].n < packets[i].n
      <4>1. DOMAIN packets = 1..Len(packets) /\ Len(packets) \in Nat /\ 1 \in DOMAIN packets
        BY <2>1, TailFacts, LenProperties DEF TypeOK
      <4> QED BY <4>1 DEF ReaderInv, Ascending
    <3>3. 1 \in DOMAIN packets
      BY <2>1, TailFacts DEF TypeOK
    <3>4. \A i \in DOMAIN packets : packets[i].n < next
      BY DEF ReaderInv
    <3>5. Ascending(packets) /\ Ascending(batch)
      BY DEF ReaderInv
    <3> QED BY <2>1, <2>2, <3>1, <3>2, <3>3, <3>4, <3>5 DEF ReaderInv, AtHead
  <2>4. CASE Head(packets).kind # "good"
    <3>1. rpc' = "parse" /\ packets' = Tail(packets) /\ last' = last
      BY <1>4, <2>4 DEF Parse
    <3> QED BY <2>1, <2>2, <3>1, NextPacket
  <2> QED BY <2>3, <2>4
<1>5. CASE RecordImu
  <2>1. rpc = "record" /\ UNCHANGED <<batch, last, next>>
    BY <1>5 DEF RecordImu
  <2>2. packets # <<>> /\ batch = <<>>
    BY <2>1 DEF ReaderInv, AtHead
  <2>3. CASE rpc' = "imuput" /\ packets' = packets
    BY <2>1, <2>3 DEF ReaderInv, AtHead, Ascending
  <2>4. CASE rpc' = "parse" /\ packets' = Tail(packets)
    BY <2>1, <2>2, <2>4, NextPacket
  <2> QED BY <1>5, <2>3, <2>4 DEF RecordImu, Observe
<1>6. CASE PutImu
  <2>1. rpc = "imuput" /\ rpc' = "parse" /\ packets' = Tail(packets) /\ UNCHANGED <<batch, last, next>>
    BY <1>6 DEF PutImu, Observe
  <2>2. packets # <<>> /\ batch = <<>>
    BY <2>1 DEF ReaderInv, AtHead
  <2> QED BY <2>1, <2>2, NextPacket
<1>7. CASE EndBatch
  <2>1. rpc = "parse" /\ packets = <<>> /\ rpc' = "read" /\ UNCHANGED <<batch, packets, last, next>>
    BY <1>7 DEF EndBatch
  <2> QED BY <2>1 DEF ReaderInv, AtHead, Ascending
<1>8. CASE Disconnect
  <2>1. UNCHANGED <<rpc, batch, packets, last, next>>
    BY <1>8 DEF Disconnect
  <2> QED BY <2>1 DEF ReaderInv, AtHead, Ascending
<1>9. CASE Reconnect
  <2>1. UNCHANGED <<rpc, batch, packets, last>> /\ next' \in {next, next + 1} /\ rpc = "read"
    BY <1>9 DEF Reconnect
  <2>2. packets = <<>> /\ batch = <<>> /\ DOMAIN batch = {} /\ DOMAIN packets = {}
    BY <2>1 DEF ReaderInv
  <2>3. last < next'
    BY <2>1 DEF ReaderInv, TypeOK
  <2> QED BY <2>1, <2>2, <2>3 DEF ReaderInv, AtHead, Ascending
<1>10. CASE ReaderEnds
  <2>1. rpc = "read" /\ rpc' = "ended" /\ UNCHANGED <<batch, packets, last, next>>
    BY <1>10 DEF ReaderEnds
  <2> QED BY <2>1 DEF ReaderInv, AtHead, Ascending
<1>11. CASE StartImu
  <2>1. rpc = "off" /\ rpc' = "read"
    BY <1>11 DEF StartImu, HoleInv
  <2>2. UNCHANGED <<batch, packets, last, next>>
    BY <1>11, MainFrame DEF Main
  <2> QED BY <2>1, <2>2 DEF ReaderInv, AtHead, Ascending
<1>12. CASE UNCHANGED <<rpc, batch, packets, last, next>>
  BY <1>12 DEF ReaderInv, AtHead, Ascending
<1>13. RecorderThread \/ Main \/ StartPasses => UNCHANGED <<rpc, batch, packets, last, next>> \/ StartImu
  BY RecorderFrame, MainFrame
<1> QED
  BY <1>1, <1>2, <1>3, <1>4, <1>5, <1>6, <1>7, <1>8, <1>9, <1>10, <1>11, <1>12, <1>13 DEF Next, Reader

-----------------------------------------------------------------------------
(* What record_imu took, on its way to the file.                            *)

(* Queue and file are logs of numbers.                                      *)
LEMMA LogTypes ==
    ASSUME TypeOK
    PROVE  /\ queue \in Seq(Items \cup {Sentinel}) /\ disk \in Seq(Items \cup {Sentinel})
           /\ Numbers(queue, "imu") \subseteq Nat /\ Numbers(disk, "imu") \subseteq Nat
<1>1. queue \in Seq(Items \cup {Sentinel}) /\ disk \in Seq(Items \cup {Sentinel})
  BY DEF TypeOK
<1>2. ASSUME NEW q \in Seq(Items \cup {Sentinel}), NEW n \in Numbers(q, "imu")
      PROVE  n \in Nat
  <2>1. PICK i \in DOMAIN q : q[i].n = n
    BY <1>2, NumberIn
  <2>2. q[i] \in Items \cup {Sentinel}
    BY <1>2, <2>1, ElementOfSeq, LenProperties
  <2> QED BY <2>1, <2>2 DEF Items, Sentinel
<1> QED BY <1>1, <1>2

(* A step that moves no sample.                                             *)
LEMMA QuietFlow ==
    ASSUME TypeOK, FlowInv,
           UNCHANGED <<disk, offered, last>>,
           Numbers(queue', "imu") = Numbers(queue, "imu"), InOrder(queue'),
           dropped' = 0 => dropped = 0, ~writeError' => ~writeError,
           \/ UNCHANGED rpc
           \/ rpc' \notin {"record", "imuput"} /\ rpc \notin {"record", "imuput"}
    PROVE  FlowInv'
<1>1. Waiting' = Waiting /\ (AtHead' => AtHead) /\ (rpc' = "record" => rpc = "record")
  BY DEF Waiting, AtHead
<1>2. \A n \in Numbers(disk, "imu") \cup Numbers(queue, "imu") : n <= last /\ (AtHead => n < last)
  BY DEF FlowInv
<1>3. \A n \in offered : n <= last /\ (rpc = "record" => n < last)
  BY DEF FlowInv
<1>4. Numbers(disk', "imu") = Numbers(disk, "imu") /\ InOrder(disk')
  BY DEF FlowInv
<1>5. /\ Numbers(disk, "imu") \cup Numbers(queue, "imu") \cup Waiting \subseteq offered
      /\ dropped = 0 /\ ~writeError =>
             offered \subseteq Numbers(disk, "imu") \cup Numbers(queue, "imu") \cup Waiting
      /\ \A m \in Numbers(disk, "imu"), n \in Numbers(queue, "imu") : m < n
  BY DEF FlowInv
<1>6. \A n \in Numbers(disk', "imu") \cup Numbers(queue', "imu") : n <= last' /\ (AtHead' => n < last')
  BY <1>1, <1>2, <1>4
<1>7. \A n \in offered' : n <= last' /\ (rpc' = "record" => n < last')
  BY <1>1, <1>3
<1>8. /\ Numbers(disk', "imu") \cup Numbers(queue', "imu") \cup Waiting' \subseteq offered'
      /\ dropped' = 0 /\ ~writeError' =>
             offered' \subseteq Numbers(disk', "imu") \cup Numbers(queue', "imu") \cup Waiting'
      /\ \A m \in Numbers(disk', "imu"), n \in Numbers(queue', "imu") : m < n
  BY <1>1, <1>4, <1>5
<1> QED BY <1>4, <1>6, <1>7, <1>8 DEF FlowInv

(* Every step keeps track of what record_imu took.                          *)
LEMMA FlowInvKept ==
    ASSUME TypeOK, ReaderInv, FlowInv, HoleInv, Next
    PROVE  FlowInv'
<1> DEFINE D == Numbers(disk, "imu")
           Q == Numbers(queue, "imu")
<1>a. /\ queue \in Seq(Items \cup {Sentinel}) /\ disk \in Seq(Items \cup {Sentinel})
      /\ Q \subseteq Nat /\ D \subseteq Nat /\ last \in Nat /\ offered \subseteq Nat /\ dropped \in Nat
  BY LogTypes DEF TypeOK
<1>b. /\ \A n \in D \cup Q : n <= last /\ (AtHead => n < last)
      /\ \A n \in offered : n <= last /\ (rpc = "record" => n < last)
      /\ D \cup Q \cup Waiting \subseteq offered
      /\ dropped = 0 /\ ~writeError => offered \subseteq D \cup Q \cup Waiting
      /\ \A m \in D, n \in Q : m < n
      /\ InOrder(disk) /\ InOrder(queue)
  BY DEF FlowInv
<1> HIDE DEF D, Q
<1>1. CASE ReadBatch
  <2>1. rpc = "read" /\ rpc' = "feed" /\ UNCHANGED <<last, offered, queue, dropped>>
    BY <1>1 DEF ReadBatch
  <2>2. UNCHANGED <<disk, writeError>>
    BY <1>1, ReaderFrame DEF Reader
  <2> QED BY <1>b, <2>1, <2>2, QuietFlow
<1>2. CASE OfferRaw
  <2>1. rpc = "feed" /\ UNCHANGED <<last, offered, queue>>
    BY <1>2 DEF OfferRaw
  <2>2. rpc' \notin {"record", "imuput"}
    BY <1>2 DEF OfferRaw, Decode
  <2>3. dropped' = 0 => dropped = 0
    BY <1>a, <1>2 DEF OfferRaw
  <2>4. UNCHANGED <<disk, writeError>>
    BY <1>2, ReaderFrame DEF Reader
  <2> QED BY <1>b, <2>1, <2>2, <2>3, <2>4, QuietFlow
<1>3. CASE PutRaw
  <2>1. rpc = "rawput" /\ UNCHANGED <<last, offered, dropped>>
        /\ queue' = Append(queue, [kind |-> "raw", n |-> Head(batch).n])
    BY <1>3 DEF PutRaw, Put
  <2>2. rpc' \notin {"record", "imuput"}
    BY <1>3 DEF PutRaw, Decode
  <2>3. [kind |-> "raw", n |-> Head(batch).n] \in Items
    <3>1. Head(batch) \in Read
      BY <2>1, TailFacts DEF ReaderInv, TypeOK
    <3> QED BY <3>1 DEF Items, Read
  <2>4. Numbers(queue', "imu") = Q
    BY <1>a, <2>1, <2>3, NumbersAppended DEF Q
  <2>5. InOrder(queue')
    BY <1>a, <1>b, <2>1, <2>3, OrderAppended
  <2>6. UNCHANGED <<disk, writeError>>
    BY <1>3, ReaderFrame DEF Reader
  <2> QED BY <2>1, <2>2, <2>4, <2>5, <2>6, QuietFlow DEF Q
<1>4. CASE Parse
  <2>1. rpc = "parse" /\ packets # <<>> /\ UNCHANGED <<offered, queue, dropped>>
    BY <1>4 DEF Parse
  <2>2. UNCHANGED <<disk, writeError>>
    BY <1>4, ReaderFrame DEF Reader
  <2>3. CASE Head(packets).kind = "good"
    <3>1. rpc' = "record" /\ last' = packets[1].n
      BY <1>4, <2>1, <2>3, TailFacts DEF Parse, TypeOK
    <3>2. last < last' /\ last' \in Nat
      <4>1. packets[1] \in Read /\ 1 \in DOMAIN packets
        BY <2>1, TailFacts DEF TypeOK
      <4> QED BY <2>1, <3>1, <4>1 DEF ReaderInv, AtHead, Read
    <3>3. Waiting = {} /\ Waiting' = {}
      BY <2>1, <3>1 DEF Waiting
    <3>4. Numbers(disk', "imu") = D /\ Numbers(queue', "imu") = Q
      BY <2>1, <2>2 DEF D, Q
    <3>5. \A n \in D \cup Q \cup offered : n < last'
      BY <1>a, <1>b, <3>2
    <3>6. InOrder(disk') /\ InOrder(queue')
      BY <1>b, <2>1, <2>2
    <3>7. \A n \in D \cup Q \cup offered : n <= last'
      BY <1>a, <3>2, <3>5
    <3> QED BY <1>b, <2>1, <2>2, <3>3, <3>4, <3>5, <3>6, <3>7 DEF FlowInv
  <2>4. CASE Head(packets).kind # "good"
    <3>1. rpc' = "parse" /\ last' = last
      BY <1>4, <2>4 DEF Parse
    <3> QED BY <1>b, <2>1, <2>2, <3>1, QuietFlow
  <2> QED BY <2>3, <2>4
<1>5. CASE RecordImu
  <2>1. rpc = "record" /\ UNCHANGED <<last, queue>>
    BY <1>5 DEF RecordImu
  <2>2. UNCHANGED <<disk, writeError>>
    BY <1>5, ReaderFrame DEF Reader
  <2>3. AtHead /\ Waiting = {} /\ Head(packets).n = last
    BY <2>1, TailFacts DEF AtHead, Waiting, ReaderInv, TypeOK
  <2>4. Numbers(disk', "imu") = D /\ Numbers(queue', "imu") = Q
    BY <2>1, <2>2 DEF D, Q
  <2>5. InOrder(disk') /\ InOrder(queue')
    BY <1>b, <2>1, <2>2
  <2>6. \A n \in D \cup Q : n <= last /\ n < last
    BY <1>b, <2>3
  <2>7. CASE recording /\ ~Full
    <3>1. offered' = offered \cup {last} /\ dropped' = dropped /\ rpc' = "imuput"
      BY <1>5, <2>3, <2>7 DEF RecordImu
    <3>2. Waiting' = {last}
      BY <2>1, <3>1 DEF Waiting
    <3>3. /\ D \cup Q \cup Waiting' \subseteq offered'
          /\ dropped' = 0 /\ ~writeError' => offered' \subseteq D \cup Q \cup Waiting'
      BY <1>b, <2>2, <2>3, <3>1, <3>2
    <3>4. \A n \in offered' : n <= last
      BY <1>a, <1>b, <3>1
    <3> QED BY <1>b, <2>1, <2>4, <2>5, <2>6, <3>1, <3>3, <3>4 DEF FlowInv
  <2>8. CASE recording /\ Full
    <3>1. offered' = offered \cup {last} /\ dropped' = dropped + 1 /\ rpc' = "parse"
      BY <1>5, <2>3, <2>8 DEF RecordImu, Observe
    <3>2. Waiting' = {} /\ ~AtHead' /\ dropped' # 0
      BY <1>a, <3>1 DEF Waiting, AtHead
    <3>3. D \cup Q \cup Waiting' \subseteq offered'
      BY <1>b, <2>3, <3>1, <3>2
    <3>4. \A n \in offered' : n <= last
      BY <1>a, <1>b, <3>1
    <3> QED BY <1>b, <2>1, <2>4, <2>5, <2>6, <3>1, <3>2, <3>3, <3>4 DEF FlowInv
  <2>9. CASE ~recording
    <3>1. offered' = offered /\ dropped' = dropped /\ rpc' = "parse"
      BY <1>5, <2>9 DEF RecordImu, Observe
    <3>2. Waiting' = {} /\ ~AtHead'
      BY <3>1 DEF Waiting, AtHead
    <3> QED BY <1>b, <2>1, <2>2, <2>3, <2>4, <2>5, <2>6, <3>1, <3>2 DEF FlowInv
  <2> QED BY <2>7, <2>8, <2>9
<1>6. CASE PutImu
  <2>1. rpc = "imuput" /\ rpc' = "parse" /\ UNCHANGED <<last, offered, dropped>>
        /\ queue' = Append(queue, [kind |-> "imu", n |-> Head(packets).n])
    BY <1>6 DEF PutImu, Put, Observe
  <2>2. UNCHANGED <<disk, writeError>>
    BY <1>6, ReaderFrame DEF Reader
  <2>3. AtHead /\ Waiting = {last} /\ Head(packets).n = last
    BY <2>1, TailFacts DEF AtHead, Waiting, ReaderInv, TypeOK
  <2>4. [kind |-> "imu", n |-> last] \in Items
    BY <1>a DEF Items
  <2>5. Numbers(disk', "imu") = D
    BY <2>2 DEF D
  <2>6. Numbers(queue', "imu") = Q \cup {last}
    <3> DEFINE e == [kind |-> "imu", n |-> last]
    <3>1. queue' = Append(queue, e) /\ e \in Items \cup {Sentinel} /\ e.kind = "imu" /\ e.n = last
      BY <2>1, <2>3, <2>4
    <3> HIDE DEF e
    <3>2. Numbers(Append(queue, e), "imu") = Q \cup (IF e.kind = "imu" THEN {e.n} ELSE {})
      BY <1>a, <3>1, NumbersAppended DEF Q
    <3> QED BY <3>1, <3>2
  <2>7. InOrder(queue')
    BY <1>a, <1>b, <2>1, <2>3, <2>4, OrderAppended DEF Q
  <2>8. Waiting' = {} /\ ~AtHead'
    BY <2>1 DEF Waiting, AtHead
  <2>9. \A n \in D \cup Q \cup {last} : n <= last
    BY <1>a, <1>b
  <2>10. \A m \in D, n \in Q \cup {last} : m < n
    BY <1>b, <2>3
  <2> QED BY <1>b, <2>1, <2>2, <2>3, <2>5, <2>6, <2>7, <2>8, <2>9, <2>10 DEF FlowInv
<1>7. CASE EndBatch \/ ReaderEnds \/ Disconnect \/ Reconnect
  <2>1. UNCHANGED <<last, offered, queue, dropped>>
    BY <1>7 DEF EndBatch, ReaderEnds, Disconnect, Reconnect
  <2>2. UNCHANGED <<disk, writeError>>
    BY <1>7, ReaderFrame DEF Reader
  <2>3. rpc' \notin {"record", "imuput"} /\ rpc \notin {"record", "imuput"}
    BY <1>7 DEF EndBatch, ReaderEnds, Disconnect, Reconnect
  <2> QED BY <1>b, <2>1, <2>2, <2>3, QuietFlow
<1>8. CASE Take
  <2>1. queue # <<>> /\ queue' = Tail(queue) /\ writeError' = writeError
    BY <1>8 DEF Take, rest
  <2>2. UNCHANGED <<rpc, last, offered, dropped>>
    BY <1>8, RecorderFrame DEF RecorderThread
  <2>3. Waiting' = Waiting /\ AtHead' = AtHead
    BY <2>2 DEF Waiting, AtHead
  <2>4. Head(queue) \in Items \cup {Sentinel}
    BY <1>a, <2>1, TailFacts
  <2>5. /\ Q = Numbers(queue', "imu") \cup (IF Head(queue).kind = "imu" THEN {Head(queue).n} ELSE {})
    BY <1>a, <2>1, NumbersBehind DEF Q
  <2>6. InOrder(queue')
        /\ (Head(queue).kind = "imu" => \A n \in Numbers(queue', "imu") : Head(queue).n < n)
    BY <1>a, <1>b, <2>1, OrderBehind
  <2>7. CASE Head(queue) = Sentinel
    <3>1. Numbers(queue', "imu") = Q /\ disk' = disk
      BY <1>8, <2>5, <2>7 DEF Take, Sentinel
    <3> QED BY <2>1, <2>2, <2>6, <3>1, QuietFlow DEF Q
  <2>8. CASE Head(queue) # Sentinel
    <3>1. disk' = Append(disk, Head(queue))
      BY <1>8, <2>8 DEF Take
    <3>2. Numbers(disk', "imu") = D \cup (IF Head(queue).kind = "imu" THEN {Head(queue).n} ELSE {})
      BY <1>a, <2>4, <3>1, NumbersAppended DEF D
    <3>3. Head(queue).kind = "imu" => \A n \in D : n < Head(queue).n
      BY <1>b, <2>5
    <3>4. InOrder(disk')
      BY <1>a, <1>b, <2>4, <3>1, <3>3, OrderAppended DEF D
    <3>5. Numbers(disk', "imu") \cup Numbers(queue', "imu") = D \cup Q
      BY <2>5, <3>2
    <3>6. \A m \in Numbers(disk', "imu"), n \in Numbers(queue', "imu") : m < n
      BY <1>b, <2>5, <2>6, <3>2
    <3>7. \A n \in Numbers(disk', "imu") \cup Numbers(queue', "imu") : n <= last' /\ (AtHead' => n < last')
      BY <1>b, <2>2, <2>3, <3>5
    <3>8. /\ Numbers(disk', "imu") \cup Numbers(queue', "imu") \cup Waiting' \subseteq offered'
          /\ dropped' = 0 /\ ~writeError' =>
                 offered' \subseteq Numbers(disk', "imu") \cup Numbers(queue', "imu") \cup Waiting'
      BY <1>b, <2>1, <2>2, <2>3, <3>5
    <3>9. \A n \in offered' : n <= last' /\ (rpc' = "record" => n < last')
      BY <1>b, <2>2
    <3> QED BY <2>6, <3>4, <3>6, <3>7, <3>8, <3>9 DEF FlowInv
  <2> QED BY <2>7, <2>8
<1>9. CASE WriteFails
  <2>1. queue # <<>> /\ queue' = Tail(queue) /\ writeError' = TRUE /\ disk' = disk
    BY <1>9 DEF WriteFails
  <2>2. UNCHANGED <<rpc, last, offered, dropped>>
    BY <1>9, RecorderFrame DEF RecorderThread
  <2>3. Waiting' = Waiting /\ AtHead' = AtHead
    BY <2>2 DEF Waiting, AtHead
  <2>4. Numbers(queue', "imu") \subseteq Q
    BY <1>a, <2>1, NumbersBehind DEF Q
  <2>5. InOrder(queue')
    BY <1>a, <1>b, <2>1, OrderBehind
  <2>6. Numbers(disk', "imu") = D /\ InOrder(disk')
    BY <1>b, <2>1 DEF D
  <2>7. \A n \in D \cup Numbers(queue', "imu") : n <= last' /\ (AtHead' => n < last')
    BY <1>b, <2>2, <2>3, <2>4
  <2>8. D \cup Numbers(queue', "imu") \cup Waiting' \subseteq offered'
    BY <1>b, <2>2, <2>3, <2>4
  <2>9. \A n \in offered' : n <= last' /\ (rpc' = "record" => n < last')
    BY <1>b, <2>2
  <2>10. \A m \in D, n \in Numbers(queue', "imu") : m < n
    BY <1>b, <2>4
  <2> QED BY <2>1, <2>5, <2>6, <2>7, <2>8, <2>9, <2>10 DEF FlowInv
<1>10. CASE LoopTest \/ CloseFiles \/ CloseFails
  <2>1. UNCHANGED <<rpc, last, offered, dropped>>
    BY <1>10, RecorderFrame DEF RecorderThread
  <2>2. UNCHANGED <<disk, queue>> /\ (~writeError' => ~writeError)
    BY <1>10 DEF LoopTest, CloseFiles, CloseFails
  <2> QED BY <1>b, <2>1, <2>2, QuietFlow
<1>11. CASE StartImu
  <2>1. rpc = "off" /\ rpc' = "read" /\ UNCHANGED <<queue, writeError>>
    BY <1>11 DEF StartImu, HoleInv
  <2>2. UNCHANGED <<disk, last, offered, dropped>>
    BY <1>11, MainFrame DEF Main
  <2> QED BY <1>b, <2>1, <2>2, QuietFlow
<1>12. CASE StopRecorder
  <2>1. UNCHANGED <<rpc, disk, last, offered, dropped, writeError>>
    BY <1>12 DEF StopRecorder, line, reader, recorder
  <2>2. CASE queue' = queue
    BY <1>b, <2>1, <2>2, QuietFlow
  <2>3. CASE queue' = Append(queue, Sentinel)
    <3>1. Numbers(queue', "imu") = Q
      BY <1>a, <2>3, NumbersAppended DEF Q, Sentinel
    <3>2. InOrder(queue')
      BY <1>a, <1>b, <2>3, OrderAppended DEF Sentinel
    <3> QED BY <2>1, <3>1, <3>2, QuietFlow DEF Q
  <2> QED BY <1>12, <2>2, <2>3 DEF StopRecorder
<1>13. CASE JoinRecorder
  <2>1. ~writeError' => ~writeError
    BY <1>13 DEF JoinRecorder
  <2>2. UNCHANGED <<rpc, disk, queue, last, offered, dropped>>
    BY <1>13 DEF JoinRecorder, others, line, reader, recorder
  <2> QED BY <1>b, <2>1, <2>2, QuietFlow
<1>14. CASE UNCHANGED <<rpc, disk, queue, last, offered, dropped, writeError>>
  BY <1>14, <1>b, QuietFlow
<1>15. Main \/ StartPasses =>
           \/ UNCHANGED <<rpc, disk, queue, last, offered, dropped, writeError>>
           \/ StartImu \/ StopRecorder \/ JoinRecorder
  BY MainFrame
<1> QED
  BY <1>1, <1>2, <1>3, <1>4, <1>5, <1>6, <1>7, <1>8, <1>9, <1>10, <1>11, <1>12, <1>13, <1>14, <1>15
  DEF Next, Reader, RecorderThread

-----------------------------------------------------------------------------
(* What was not missed.                                                     *)

(* Gaps are counted.                                                        *)
LEMMA GapsAre ==
    ASSUME TypeOK
    PROVE  stats.gaps \in Nat /\ startStats.gaps \in Nat /\ endStats.gaps \in Nat
BY DEF TypeOK, Counters

(* A step of the reader that judges no continuity and meets no recording.   *)
LEMMA QuietHoles ==
    ASSUME TypeOK, HoleInv,
           UNCHANGED <<mpc, recording, endStats, startStats, failed, last, offered>>,
           stats'.gaps = stats.gaps,
           rpc \notin {"off", "record"}, rpc' # "record", AtHead' => AtHead
    PROVE  HoleInv'
BY DEF HoleInv

(* A number behind a gapless set.                                           *)
LEMMA GaplessGrows ==
    ASSUME NEW S \in SUBSET Nat, NEW m \in Nat, Gapless(S), S = {} \/ m - 1 \in S, \A n \in S : n < m
    PROVE  Gapless(S \cup {m})
<1>1. ASSUME NEW n \in S
      PROVE  n - 1 \in S \cup {m} \/ \A k \in S \cup {m} : n <= k
  BY <1>1 DEF Gapless
<1>2. m - 1 \in S \cup {m} \/ \A k \in S \cup {m} : m <= k
  OBVIOUS
<1> QED BY <1>1, <1>2 DEF Gapless

(* Every step that misses a sample while the event is set counts a gap.     *)
LEMMA HoleInvKept ==
    ASSUME TypeOK, ReaderInv, FlowInv, HoleInv, Next
    PROVE  HoleInv'
<1>a. stats.gaps \in Nat /\ startStats.gaps \in Nat /\ endStats.gaps \in Nat
      /\ last \in Nat /\ offered \subseteq Nat
  BY GapsAre DEF TypeOK
<1>b. Reader => UNCHANGED <<mpc, recording, endStats, startStats, failed>>
  BY ReaderFrame
<1>1. CASE ReadBatch \/ OfferRaw \/ PutRaw \/ PutImu \/ ReaderEnds
  <2>1. UNCHANGED <<last, offered, stats>>
    BY <1>1 DEF ReadBatch, OfferRaw, PutRaw, PutImu, ReaderEnds
  <2>2. UNCHANGED <<mpc, recording, endStats, startStats, failed>>
    BY <1>1, <1>b DEF Reader
  <2>3. rpc \notin {"off", "record"} /\ rpc' \notin {"record", "imuput"}
    BY <1>1 DEF ReadBatch, OfferRaw, PutRaw, PutImu, ReaderEnds, Decode, Observe
  <2> QED BY <2>1, <2>2, <2>3, QuietHoles DEF AtHead
<1>2. CASE EndBatch \/ Disconnect \/ Reconnect
  <2>1. UNCHANGED <<last, offered>> /\ rpc \in {"read", "parse"} /\ rpc' = "read"
    BY <1>2 DEF EndBatch, Disconnect, Reconnect
  <2>2. stats'.gaps = stats.gaps
    <3>1. stats' = [stats EXCEPT !.bad = decoderBad] \/ stats' = [stats EXCEPT !.serial = @ + 1]
      BY <1>2 DEF EndBatch, Disconnect, Reconnect
    <3> QED BY <3>1 DEF TypeOK, Counters
  <2>3. UNCHANGED <<mpc, recording, endStats, startStats, failed>>
    BY <1>2, <1>b DEF Reader
  <2> QED BY <2>1, <2>2, <2>3, QuietHoles DEF AtHead
<1>3. CASE Parse
  <2>1. rpc = "parse" /\ packets # <<>> /\ offered' = offered
    BY <1>3 DEF Parse
  <2>2. UNCHANGED <<mpc, recording, endStats, startStats, failed>>
    BY <1>3, <1>b DEF Reader
  <2>3. CASE Head(packets).kind = "good"
    <3>1. rpc' = "record" /\ last' = packets[1].n
      BY <1>3, <2>1, <2>3, TailFacts DEF Parse, TypeOK
    <3>2. last' \in Nat /\ last' # 0
      <4>1. packets[1] \in Read /\ 1 \in DOMAIN packets
        BY <2>1, TailFacts DEF TypeOK
      <4>2. packets[1].n \in Nat /\ last < packets[1].n
        BY <2>1, <4>1 DEF ReaderInv, AtHead, Read
      <4> QED BY <1>a, <3>1, <4>2
    <3>3. stats'.gaps = IF last # 0 /\ last' # last + 1 THEN stats.gaps + 1 ELSE stats.gaps
      <4>1. last' = Head(packets).n
        BY <1>3, <2>3 DEF Parse
      <4>2. stats \in Counters
        BY DEF TypeOK
      <4> QED BY <1>3, <2>3, <4>1, <4>2 DEF Parse, Counters
    <3>4. stats.gaps <= stats'.gaps /\ (stats'.gaps = 0 => stats.gaps = 0 /\ (last = 0 \/ last' = last + 1))
      BY <1>a, <3>3
    <3>5. stats'.gaps = 0 /\ recording => offered = {} \/ last' - 1 \in offered
      <4>1. stats.gaps = 0 /\ recording => (offered = {} /\ last = 0) \/ last \in offered
        BY <2>1 DEF HoleInv
      <4>2. 0 \notin offered
        BY DEF HoleInv
      <4> QED BY <1>a, <3>4, <4>1, <4>2
    <3>6. mpc \notin {"recorder", "imu"}
      BY <2>1 DEF HoleInv
    <3>7. (IF mpc \in Ended THEN endStats ELSE stats').gaps = 0 => Gapless(offered)
      BY <3>4 DEF HoleInv
    <3>8. mpc = "formal" => startStats.gaps <= stats'.gaps
      <4>1. mpc = "formal" => startStats.gaps <= stats.gaps
        BY DEF HoleInv
      <4>2. stats'.gaps \in Nat
        BY <1>a, <3>3
      <4> QED BY <1>a, <3>4, <4>1, <4>2
    <3> QED BY <2>1, <2>2, <3>1, <3>2, <3>5, <3>6, <3>7, <3>8 DEF HoleInv
  <2>4. CASE Head(packets).kind # "good"
    <3>1. rpc' = "parse" /\ last' = last
      BY <1>3, <2>4 DEF Parse
    <3>2. stats'.gaps = stats.gaps
      <4>1. stats \in Counters
        BY DEF TypeOK
      <4> QED BY <1>3, <2>4, <4>1 DEF Parse, Counters
    <3> QED BY <2>1, <2>2, <3>1, <3>2, QuietHoles DEF AtHead
  <2> QED BY <2>3, <2>4
<1>4. CASE RecordImu
  <2>1. rpc = "record" /\ UNCHANGED <<last, stats>>
    BY <1>4 DEF RecordImu
  <2>2. UNCHANGED <<mpc, recording, endStats, startStats, failed>>
    BY <1>4, <1>b DEF Reader
  <2>3. rpc' \in {"imuput", "parse"}
    BY <1>4 DEF RecordImu, Observe
  <2>4. Head(packets).n = last /\ AtHead
    BY <2>1, TailFacts DEF AtHead, ReaderInv, TypeOK
  <2>5. mpc \notin {"recorder", "imu"} /\ last # 0
    BY <2>1, <2>4 DEF HoleInv
  <2>6. CASE recording
    <3>1. offered' = offered \cup {last}
      BY <1>4, <2>4, <2>6 DEF RecordImu
    <3>2. mpc \notin Ended
      BY <2>6 DEF HoleInv
    <3>3. stats.gaps = 0 => Gapless(offered')
      <4>1. stats.gaps = 0 => offered = {} \/ last - 1 \in offered
        BY <2>1, <2>6 DEF HoleInv
      <4>2. \A n \in offered : n < last
        BY <2>1 DEF FlowInv
      <4>3. stats.gaps = 0 => Gapless(offered)
        BY <3>2 DEF HoleInv
      <4> QED BY <1>a, <3>1, <4>1, <4>2, <4>3, GaplessGrows
    <3>4. last' \in offered' /\ 0 \notin offered' /\ last' # 0
      BY <2>1, <2>5, <3>1 DEF HoleInv
    <3> QED BY <2>1, <2>2, <2>3, <2>5, <2>6, <3>2, <3>3, <3>4 DEF HoleInv
  <2>7. CASE ~recording
    <3>1. offered' = offered
      BY <1>4, <2>7 DEF RecordImu
    <3> QED BY <2>1, <2>2, <2>3, <2>5, <2>7, <3>1 DEF HoleInv
  <2> QED BY <2>6, <2>7
<1>5. CASE RecorderThread
  <2>1. UNCHANGED <<rpc, last, offered, stats, mpc, recording, endStats, startStats, failed>>
    BY <1>5, RecorderFrame
  <2> QED BY <2>1 DEF HoleInv, AtHead
<1>6. CASE Main \/ StartPasses
  <2>a. UNCHANGED <<last, offered, stats>> /\ (UNCHANGED rpc \/ StartImu)
    BY <1>6, MainFrame
  <2> USE DEF Recording, Ended
  <2>1. CASE StartRecorder
    <3>1. mpc = "recorder" /\ mpc' = "imu" /\ recording' = TRUE /\ UNCHANGED rpc
          /\ UNCHANGED <<startStats, endStats, failed>>
      BY <2>1 DEF StartRecorder, reader, verdict
    <3> QED BY <2>a, <3>1 DEF HoleInv, AtHead
  <2>2. CASE StartImu
    <3>1. mpc = "imu" /\ mpc' = "warm" /\ rpc' = "read"
          /\ UNCHANGED <<recording, startStats, endStats, failed>>
      BY <2>2 DEF StartImu, verdict
    <3> QED BY <2>a, <3>1 DEF HoleInv, AtHead
  <2>3. CASE CrossStart
    <3>1. mpc = "warm" /\ mpc' = "drain" /\ UNCHANGED <<rpc, recording, startStats, endStats, failed>>
      BY <2>3 DEF CrossStart, others, reader, verdict, flags
    <3> QED BY <2>a, <3>1 DEF HoleInv, AtHead
  <2>4. CASE StartSnapshot
    <3>1. /\ mpc = "drain" /\ mpc' = "formal" /\ startStats' = stats
          /\ UNCHANGED <<rpc, recording, endStats, failed>>
      BY <2>4 DEF StartSnapshot, others, reader, flags
    <3>2. startStats'.gaps <= stats'.gaps
      BY <1>a, <2>a, <3>1
    <3> QED BY <2>a, <3>1, <3>2 DEF HoleInv, AtHead
  <2>5. CASE FormalPoll
    <3>1. /\ mpc = "formal" /\ mpc' = "stoptime"
          /\ UNCHANGED <<rpc, recording, startStats, endStats, failed>>
      BY <2>5 DEF FormalPoll, others, reader, verdict, flags
    <3>2. startStats.gaps = 0
      <4>1. stats.gaps = 0
        BY <2>5 DEF FormalPoll, Healthy, Errors
      <4> QED BY <1>a, <3>1, <4>1 DEF HoleInv
    <3> QED BY <2>a, <3>1, <3>2 DEF HoleInv, AtHead
  <2>6. CASE StopTime
    <3>1. mpc = "stoptime" /\ mpc' = "clear" /\ UNCHANGED <<rpc, recording, startStats, endStats, failed>>
      BY <2>6 DEF StopTime, others, reader, verdict, flags
    <3> QED BY <2>a, <3>1 DEF HoleInv, AtHead
  <2>7. CASE Fail
    <3>1. /\ mpc \in {"recorder", "imu", "warm", "drain", "formal"} /\ mpc' = "clear" /\ failed'
          /\ UNCHANGED <<rpc, recording, startStats, endStats>>
      BY <2>7 DEF Fail, others, reader, flags
    <3> QED BY <2>a, <3>1 DEF HoleInv, AtHead
  <2>8. CASE ClearRecording
    <3>1. /\ mpc = "clear" /\ mpc' = "snapshot" /\ ~recording'
          /\ UNCHANGED <<rpc, startStats, endStats, failed>>
      BY <2>8 DEF ClearRecording, others, reader, verdict
    <3> QED BY <2>a, <3>1 DEF HoleInv, AtHead
  <2>9. CASE EndSnapshot
    <3>1. /\ mpc = "snapshot" /\ mpc' = "stopimu" /\ endStats' = stats
          /\ UNCHANGED <<rpc, recording, startStats, failed>>
      BY <2>9 DEF EndSnapshot, others, reader, flags
    <3> QED BY <2>a, <3>1 DEF HoleInv, AtHead
  <2>10. CASE StopImu
    <3>1. /\ mpc = "stopimu" /\ mpc' \in {"stoprecorder", "joinimu"}
          /\ UNCHANGED <<rpc, recording, startStats, endStats>>
      BY <2>10 DEF StopImu, others, reader
    <3>2. failed => failed'
      BY <2>10, Zenon DEF StopImu
    <3> QED BY <2>a, <3>1, <3>2 DEF HoleInv, AtHead
  <2>11. CASE JoinReader
    <3>1. mpc = "joinimu" /\ mpc' = "stoprecorder" /\ UNCHANGED <<rpc, recording, startStats, endStats, failed>>
      BY <2>11 DEF JoinReader, flags
    <3> QED BY <2>a, <3>1 DEF HoleInv, AtHead
  <2>12. CASE StopRecorder
    <3>1. /\ mpc = "stoprecorder" /\ mpc' \in {"finalize", "joinrecorder"}
          /\ UNCHANGED <<rpc, recording, startStats, endStats, failed>>
      BY <2>12 DEF StopRecorder, reader, verdict
    <3> QED BY <2>a, <3>1 DEF HoleInv, AtHead
  <2>13. CASE JoinRecorder
    <3>1. mpc = "joinrecorder" /\ mpc' = "finalize" /\ UNCHANGED <<rpc, recording, startStats, endStats, failed>>
      BY <2>13 DEF JoinRecorder, others, reader, flags
    <3> QED BY <2>a, <3>1 DEF HoleInv, AtHead
  <2>14. CASE Finalize
    <3>1. mpc = "finalize" /\ mpc' = "report" /\ UNCHANGED <<rpc, recording, startStats, endStats, failed>>
      BY <2>14 DEF Finalize, others, reader, flags
    <3> QED BY <2>a, <3>1 DEF HoleInv, AtHead
  <2>15. CASE Exit
    <3>1. mpc = "report" /\ mpc' = "exited" /\ UNCHANGED <<rpc, recording, startStats, endStats, failed>>
      BY <2>15 DEF Exit, others, reader, verdict, flags
    <3> QED BY <2>a, <3>1 DEF HoleInv, AtHead
  <2>16. CASE StartPasses
    <3>1. UNCHANGED <<mpc, rpc, recording, startStats, endStats, failed>>
      BY <2>16 DEF StartPasses, others, reader, verdict, flags
    <3> QED BY <2>a, <3>1 DEF HoleInv, AtHead
  <2> QED
    BY <1>6, <2>1, <2>2, <2>3, <2>4, <2>5, <2>6, <2>7, <2>8, <2>9, <2>10, <2>11, <2>12, <2>13,
       <2>14, <2>15, <2>16
    DEF Main, Shutdown
<1> QED BY <1>1, <1>2, <1>3, <1>4, <1>5, <1>6 DEF Next, Reader

-----------------------------------------------------------------------------
(* The end of the recorder.                                                 *)

(* Every step keeps the order of the shutdown.                              *)
LEMMA ShutdownInvKept ==
    ASSUME TypeOK, ReaderInv, HoleInv, ShutdownInv, Next
    PROVE  ShutdownInv'
<1>a. queue \in Seq(Items \cup {Sentinel}) /\ DOMAIN queue = 1..Len(queue) /\ Len(queue) \in Nat
  BY LenProperties DEF TypeOK
<1>1. CASE Reader
  <2>1. UNCHANGED <<wpc, disk, recRunning, mpc, clean, joined, manifest>>
    BY <1>1, ReaderFrame
  <2>2. rpc \notin {"off", "ended"}
    BY <1>1 DEF Reader, ReadBatch, OfferRaw, PutRaw, Parse, RecordImu, PutImu, EndBatch, Disconnect,
                Reconnect, ReaderEnds
  <2>3. \/ UNCHANGED queue
        \/ \E e \in Items : queue' = Append(queue, e)
    <3>1. CASE PutRaw
      <4>1. Head(batch) \in Read
        BY <3>1, TailFacts DEF PutRaw, ReaderInv, TypeOK
      <4>2. [kind |-> "raw", n |-> Head(batch).n] \in Items
        BY <4>1 DEF Items, Read
      <4> QED BY <3>1, <4>2 DEF PutRaw, Put
    <3>2. CASE PutImu
      <4>1. Head(packets) \in Read
        BY <3>2, TailFacts DEF PutImu, ReaderInv, AtHead, TypeOK
      <4>2. [kind |-> "imu", n |-> Head(packets).n] \in Items
        BY <4>1 DEF Items, Read
      <4> QED BY <3>2, <4>2 DEF PutImu, Put
    <3>3. CASE ~PutRaw /\ ~PutImu
      BY <1>1, <3>3 DEF Reader, ReadBatch, OfferRaw, Parse, RecordImu, EndBatch, Disconnect,
                Reconnect, ReaderEnds
    <3> QED BY <3>1, <3>2, <3>3
  <2>4. wpc # "off" /\ ~(joined /\ mpc \in {"stoprecorder"} \cup Joined)
    BY <2>2 DEF ShutdownInv
  <2>5. mpc \notin Joined => \A i \in DOMAIN queue' : queue'[i] # Sentinel
    <3>1. CASE UNCHANGED queue
      BY <3>1 DEF ShutdownInv
    <3>2. ASSUME NEW e \in Items, queue' = Append(queue, e), mpc \notin Joined, NEW i \in DOMAIN queue'
          PROVE  queue'[i] # Sentinel
      <4>1. e # Sentinel
        BY DEF Items, Sentinel
      <4>2. queue'[i] = e \/ (i \in DOMAIN queue /\ queue'[i] = queue[i])
        BY <1>a, <3>2, AppendFacts
      <4> QED BY <3>2, <4>1, <4>2 DEF ShutdownInv
    <3> QED BY <2>3, <3>1, <3>2
  <2>6. mpc \in Joined /\ wpc = "get" => queue' # <<>>
    <3>1. CASE UNCHANGED queue
      BY <3>1 DEF ShutdownInv
    <3>2. CASE \E e \in Items : queue' = Append(queue, e)
      BY <1>a, <3>2, AppendFacts
    <3> QED BY <2>3, <3>1, <3>2
  <2> QED BY <2>1, <2>4, <2>5, <2>6 DEF ShutdownInv
<1>2. CASE RecorderThread
  <2>1. UNCHANGED <<rpc, recRunning, mpc, clean, joined, manifest>>
    BY <1>2, RecorderFrame
  <2>2. CASE LoopTest
    <3>1. wpc = "loop" /\ wpc' = (IF recRunning \/ queue # <<>> THEN "get" ELSE "close") /\ UNCHANGED <<queue, disk>>
      BY <2>2 DEF LoopTest
    <3> QED BY <2>1, <3>1 DEF ShutdownInv
  <2>3. CASE CloseFiles \/ CloseFails
    <3>1. wpc = "close" /\ wpc' = "done" /\ UNCHANGED <<queue, disk>>
      BY <2>3 DEF CloseFiles, CloseFails
    <3> QED BY <2>1, <3>1 DEF ShutdownInv
  <2>4. CASE Take \/ WriteFails
    <3>1. /\ wpc = "get" /\ queue # <<>> /\ queue' = Tail(queue)
          /\ wpc' = IF Head(queue) = Sentinel THEN "close" ELSE "loop"
      BY <2>4 DEF Take, WriteFails
    <3>2. /\ \A i \in DOMAIN queue' : i + 1 \in DOMAIN queue /\ queue'[i] = queue[i + 1]
          /\ Len(queue') = Len(queue) - 1 /\ Head(queue) = queue[1] /\ 1 \in DOMAIN queue
          /\ queue' \in Seq(Items \cup {Sentinel})
      BY <1>a, <3>1, TailFacts
    <3>3. DOMAIN queue' \subseteq Nat /\ (Len(queue') = 0 => queue' = <<>>)
      BY <3>2, LenProperties, EmptySeq
    <3>4. mpc \notin Joined => \A i \in DOMAIN queue' : queue'[i] # Sentinel
      BY <3>2 DEF ShutdownInv
    <3>5. wpc' = "close" => mpc \in Joined
      BY <3>1, <3>2 DEF ShutdownInv
    <3>6. joined /\ mpc \in Joined =>
            /\ \A i \in DOMAIN queue' : queue'[i] = Sentinel => i = Len(queue')
            /\ wpc' = "close" => queue' = <<>>
      <4>1. SUFFICES ASSUME joined, mpc \in Joined
                     PROVE  /\ \A i \in DOMAIN queue' : queue'[i] = Sentinel => i = Len(queue')
                            /\ wpc' = "close" => queue' = <<>>
        OBVIOUS
      <4>2. \A i \in DOMAIN queue : queue[i] = Sentinel => i = Len(queue)
        BY <4>1 DEF ShutdownInv
      <4>3. wpc' = "close" => Len(queue) = 1
        BY <3>1, <3>2, <4>2
      <4> QED BY <1>a, <3>2, <3>3, <4>2, <4>3
    <3>7. ~(mpc \in {"finalize", "report", "exited"} /\ clean) /\ manifest = <<>>
      BY <3>1 DEF ShutdownInv
    <3> QED BY <2>1, <3>1, <3>4, <3>5, <3>6, <3>7 DEF ShutdownInv
  <2> QED BY <1>2, <2>2, <2>3, <2>4 DEF RecorderThread
<1>3. CASE Main \/ StartPasses
  <2>a. UNCHANGED disk
    BY <1>3, MainFrame
  <2> USE DEF Recording, Joined
  <2>1. CASE StartRecorder
    <3>1. mpc = "recorder" /\ mpc' = "imu" /\ recRunning' = TRUE /\ wpc' = "loop" /\ UNCHANGED <<rpc, queue>>
          /\ UNCHANGED <<clean, joined, manifest>>
      BY <2>1 DEF StartRecorder, reader, verdict
    <3> QED BY <2>a, <3>1 DEF ShutdownInv
  <2>2. CASE StartImu
    <3>1. mpc = "imu" /\ mpc' = "warm" /\ rpc' = "read" /\ UNCHANGED <<wpc, queue, recRunning>>
          /\ UNCHANGED <<clean, joined, manifest>>
      BY <2>2 DEF StartImu, recorder, verdict
    <3> QED BY <2>a, <3>1 DEF ShutdownInv
  <2>3. CASE CrossStart
    <3>1. mpc = "warm" /\ mpc' = "drain" /\ UNCHANGED <<rpc, wpc, queue, recRunning, clean, joined, manifest>>
      BY <2>3 DEF CrossStart, others, reader, recorder, verdict, flags
    <3> QED BY <2>a, <3>1 DEF ShutdownInv
  <2>4. CASE StartSnapshot
    <3>1. mpc = "drain" /\ mpc' = "formal" /\ UNCHANGED <<rpc, wpc, queue, recRunning, clean, joined, manifest>>
      BY <2>4 DEF StartSnapshot, others, reader, recorder, flags
    <3> QED BY <2>a, <3>1 DEF ShutdownInv
  <2>5. CASE FormalPoll
    <3>1. mpc = "formal" /\ mpc' = "stoptime" /\ UNCHANGED <<rpc, wpc, queue, recRunning, clean, joined, manifest>>
      BY <2>5 DEF FormalPoll, others, reader, recorder, verdict, flags
    <3> QED BY <2>a, <3>1 DEF ShutdownInv
  <2>6. CASE StopTime
    <3>1. mpc = "stoptime" /\ mpc' = "clear" /\ UNCHANGED <<rpc, wpc, queue, recRunning, clean, joined, manifest>>
      BY <2>6 DEF StopTime, others, reader, recorder, verdict, flags
    <3> QED BY <2>a, <3>1 DEF ShutdownInv
  <2>7. CASE Fail
    <3>1. /\ mpc \in {"recorder", "imu", "warm", "drain", "formal"} /\ mpc' = "clear"
          /\ UNCHANGED <<rpc, wpc, queue, recRunning, clean, joined, manifest>>
      BY <2>7 DEF Fail, others, reader, recorder, flags
    <3> QED BY <2>a, <3>1 DEF ShutdownInv
  <2>8. CASE ClearRecording
    <3>1. /\ mpc = "clear" /\ mpc' = "snapshot"
          /\ UNCHANGED <<rpc, wpc, queue, recRunning, clean, joined, manifest>>
      BY <2>8 DEF ClearRecording, others, reader, recorder, verdict
    <3> QED BY <2>a, <3>1 DEF ShutdownInv
  <2>9. CASE EndSnapshot
    <3>1. /\ mpc = "snapshot" /\ mpc' = "stopimu"
          /\ UNCHANGED <<rpc, wpc, queue, recRunning, clean, joined, manifest>>
      BY <2>9 DEF EndSnapshot, others, reader, recorder, flags
    <3> QED BY <2>a, <3>1 DEF ShutdownInv
  <2>10. CASE StopImu
    <3>1. /\ mpc = "stopimu" /\ mpc' = (IF rpc = "off" THEN "stoprecorder" ELSE "joinimu")
          /\ UNCHANGED <<rpc, wpc, queue, recRunning, clean, joined, manifest>>
      BY <2>10 DEF StopImu, others, reader, recorder
    <3> QED BY <2>a, <3>1 DEF ShutdownInv
  <2>11. CASE JoinReader
    <3>1. /\ mpc = "joinimu" /\ mpc' = "stoprecorder"
          /\ UNCHANGED <<rpc, wpc, queue, recRunning, clean, manifest>>
      BY <2>11 DEF JoinReader, recorder, flags
    <3>2. joined' => rpc = "ended"
      BY <2>11 DEF JoinReader
    <3> QED BY <2>a, <3>1, <3>2 DEF ShutdownInv
  <2>12. CASE StopRecorder
    <3>1. /\ mpc = "stoprecorder" /\ mpc' = (IF wpc = "off" THEN "finalize" ELSE "joinrecorder")
          /\ recRunning' = FALSE
          /\ UNCHANGED <<rpc, wpc, clean, joined, manifest>>
      BY <2>12 DEF StopRecorder, reader, recorder, verdict
    <3>2. \A i \in DOMAIN queue : queue[i] # Sentinel
      BY <3>1 DEF ShutdownInv
    <3>3. CASE Full \/ wpc = "off"
      <4>1. queue' = queue
        BY <2>12, <3>3 DEF StopRecorder
      <4>2. wpc = "get" => queue # <<>>
        <5>1. wpc = "get" => Len(queue) >= 1
          BY <1>a, <3>3, PipelineAssumption DEF Full
        <5> QED BY <1>a, <5>1, EmptySeq
      <4> QED BY <2>a, <3>1, <3>2, <4>1, <4>2 DEF ShutdownInv
    <3>4. CASE ~Full /\ wpc # "off"
      <4>1. queue' = Append(queue, Sentinel)
        BY <2>12, <3>4 DEF StopRecorder
      <4>2. queue' # <<>> /\ \A i \in DOMAIN queue' : queue'[i] = Sentinel => i = Len(queue')
        BY <1>a, <3>2, <4>1, AppendFacts
      <4> QED BY <2>a, <3>1, <3>4, <4>2 DEF ShutdownInv
    <3> QED BY <3>3, <3>4
  <2>13. CASE JoinRecorder
    <3>1. mpc = "joinrecorder" /\ mpc' = "finalize" /\ UNCHANGED <<rpc, wpc, queue, recRunning, joined, manifest>>
      BY <2>13 DEF JoinRecorder, others, reader, recorder, verdict, flags
    <3>2. clean' => wpc = "done"
      BY <2>13 DEF JoinRecorder
    <3> QED BY <2>a, <3>1, <3>2 DEF ShutdownInv
  <2>14. CASE Finalize
    <3>1. mpc = "finalize" /\ mpc' = "report" /\ UNCHANGED <<rpc, wpc, queue, recRunning, clean, joined>>
      BY <2>14 DEF Finalize, others, reader, recorder, flags
    <3>2. manifest' # <<>> => clean /\ manifest' = disk
      BY <2>14 DEF Finalize, OutputsSealed
    <3>3. manifest' # <<>> => wpc = "done"
      BY <3>1, <3>2 DEF ShutdownInv
    <3> QED BY <2>a, <3>1, <3>3 DEF ShutdownInv
  <2>15. CASE Exit
    <3>1. mpc = "report" /\ mpc' = "exited" /\ UNCHANGED <<rpc, wpc, queue, recRunning, clean, joined, manifest>>
      BY <2>15 DEF Exit, others, reader, recorder, verdict, flags
    <3> QED BY <2>a, <3>1 DEF ShutdownInv
  <2>16. CASE StartPasses
    <3>1. UNCHANGED <<mpc, rpc, wpc, queue, recRunning, clean, joined, manifest>>
      BY <2>16 DEF StartPasses, others, reader, recorder, verdict, flags
    <3> QED BY <2>a, <3>1 DEF ShutdownInv
  <2> QED
    BY <1>3, <2>1, <2>2, <2>3, <2>4, <2>5, <2>6, <2>7, <2>8, <2>9, <2>10, <2>11, <2>12, <2>13,
       <2>14, <2>15, <2>16
    DEF Main, Shutdown
<1> QED BY <1>1, <1>2, <1>3 DEF Next

-----------------------------------------------------------------------------
(* The verdict.                                                             *)

(* No gap was counted from the first sample to the last snapshot, nothing   *)
(* was dropped and no write failed: the file is a beginning of what         *)
(* record_imu took.                                                         *)
LEMMA PassEarned ==
    ASSUME TypeOK, IInv, Finalize, result' = "PASS"
    PROVE  PassInv'
<1> DEFINE D == Numbers(disk, "imu")
           Q == Numbers(queue, "imu")
<1>1. mpc = "finalize" /\ mpc' = "report" /\ ~failed /\ clean /\ ~writeError /\ ImuAccepted
  BY Zenon DEF Finalize, OutputsSealed
<1>2. UNCHANGED <<disk, wpc, offered, joined>>
  BY DEF Finalize, others, reader, recorder
<1>3. endStats.gaps = 0 /\ dropped = 0
  <2>1. endStats.gaps - startStats.gaps = 0 /\ dropped = 0
    BY <1>1 DEF ImuAccepted, TransportAccepted, Errors
  <2>2. startStats.gaps = 0
    BY <1>1 DEF IInv, HoleInv, Ended
  <2>3. endStats.gaps \in Nat
    BY GapsAre
  <2> QED BY <2>1, <2>2, <2>3
<1>4. Gapless(offered)
  BY <1>1, <1>3 DEF IInv, HoleInv, Ended
<1>5. wpc = "done"
  <2>1. PICK n : n \in D
    BY <1>1 DEF ImuAccepted
  <2>2. disk # <<>>
    BY <2>1, NumberIn
  <2> QED BY <1>1, <2>2 DEF IInv, ShutdownInv
<1>6. /\ D \subseteq offered /\ offered \subseteq D \cup Q \cup Waiting
      /\ InOrder(disk) /\ (\A m \in D, n \in Q : m < n)
  BY <1>1, <1>3 DEF IInv, FlowInv
<1>7. D \subseteq Nat /\ Q \subseteq Nat /\ last \in Nat
  BY LogTypes DEF TypeOK
<1>8. \A m \in D, n \in Waiting : m < n /\ n \in Nat
  BY <1>7 DEF IInv, FlowInv, Waiting, AtHead
<1>9. Gapless(D)
  <2>1. ASSUME NEW n \in D, n - 1 \in offered
        PROVE  n - 1 \in D
    <3>1. n - 1 \in Q \cup Waiting => n < n - 1
      BY <1>6, <1>8
    <3> QED BY <1>6, <1>7, <2>1, <3>1
  <2>2. ASSUME NEW n \in D
        PROVE  n - 1 \in D \/ \A m \in D : n <= m
    <3>1. n - 1 \in offered \/ \A m \in offered : n <= m
      BY <1>4, <1>6 DEF Gapless
    <3> QED BY <1>6, <2>1, <3>1
  <2> QED BY <2>2 DEF Gapless
<1>10. joined => D = offered
  <2>1. SUFFICES ASSUME joined PROVE offered \subseteq D
    BY <1>6
  <2>2. queue = <<>> /\ rpc \in {"off", "ended"}
    BY <1>1, <1>5, <2>1 DEF IInv, ShutdownInv, Joined
  <2>3. Q = {} /\ Waiting = {}
    BY <2>2, NumberIn DEF Waiting
  <2> QED BY <1>6, <2>3
<1> QED
  BY <1>1, <1>2, <1>5, <1>6, <1>9, <1>10 DEF PassInv, PassIsGapless, AcceptedIsWritten

(* Every step keeps what a PASS promises.                                   *)
LEMMA PassInvKept ==
    ASSUME TypeOK, IInv, Next
    PROVE  PassInv'
<1>1. result = "PASS" => /\ mpc \in {"report", "exited"} /\ wpc = "done" /\ ~recording
                         /\ PassIsGapless /\ AcceptedIsWritten
  BY DEF IInv, PassInv, HoleInv, Ended
<1>2. CASE Reader
  <2>1. UNCHANGED <<mpc, wpc, disk, joined, result>>
    BY <1>2, ReaderFrame
  <2>2. ~recording => offered' = offered
    BY <1>2 DEF Reader, ReadBatch, OfferRaw, PutRaw, Parse, RecordImu, PutImu, EndBatch, Disconnect,
                Reconnect, ReaderEnds
  <2> QED BY <1>1, <2>1, <2>2 DEF PassInv, PassIsGapless, AcceptedIsWritten
<1>3. CASE RecorderThread
  <2>1. wpc # "done"
    BY <1>3 DEF RecorderThread, LoopTest, Take, WriteFails, CloseFiles, CloseFails
  <2>2. result' # "PASS"
    BY <1>1, <1>3, <2>1, RecorderFrame
  <2> QED BY <2>2 DEF PassInv, PassIsGapless, AcceptedIsWritten
<1>4. CASE Finalize
  <2>1. CASE result' = "PASS"
    BY <1>4, <2>1, PassEarned
  <2>2. CASE result' # "PASS"
    BY <2>2 DEF PassInv, PassIsGapless, AcceptedIsWritten
  <2> QED BY <2>1, <2>2
<1>5. CASE Exit \/ StartPasses
  <2>1. UNCHANGED <<disk, offered, wpc>>
    <3>1. UNCHANGED <<disk, offered>> /\ (UNCHANGED wpc \/ StartRecorder)
      BY <1>5, MainFrame DEF Main, Shutdown
    <3>2. ~StartRecorder
      BY <1>5 DEF Exit, StartPasses, StartRecorder
    <3> QED BY <3>1, <3>2
  <2>2. UNCHANGED <<joined, result>>
    BY <1>5 DEF Exit, StartPasses, verdict
  <2>3. mpc' = mpc \/ mpc' = "exited"
    BY <1>5 DEF Exit, StartPasses
  <2> QED BY <1>1, <2>1, <2>2, <2>3 DEF PassInv, PassIsGapless, AcceptedIsWritten
<1>6. CASE Main /\ ~Finalize /\ ~Exit
  <2>1. mpc \notin {"report", "exited"}
    BY <1>6 DEF Main, Shutdown, StartRecorder, StartImu, CrossStart, StartSnapshot, FormalPoll, StopTime,
           Fail, ClearRecording, EndSnapshot, StopImu, JoinReader, StopRecorder, JoinRecorder
  <2>2. UNCHANGED result
    BY <1>6 DEF Main, Shutdown, StartRecorder, StartImu, CrossStart, StartSnapshot, FormalPoll, StopTime,
           Fail, ClearRecording, EndSnapshot, StopImu, JoinReader, StopRecorder, JoinRecorder, verdict
  <2>3. result' # "PASS"
    BY <1>1, <2>1, <2>2
  <2> QED BY <2>3 DEF PassInv, PassIsGapless, AcceptedIsWritten
<1> QED BY <1>2, <1>3, <1>4, <1>5, <1>6 DEF Next

-----------------------------------------------------------------------------
(* The theorems.                                                            *)

(* The invariant holds at first.                                            *)
LEMMA Start ==
    ASSUME Init
    PROVE  TypeOK /\ IInv
<1>1. TypeOK
  <2>1. Clear \in Counters
    BY DEF Clear, Counters
  <2>2. /\ next \in Nat /\ faults \in Nat /\ decoderBad \in Nat /\ last \in Nat /\ dropped \in Nat
        /\ first \in Nat /\ lastInWindow \in Nat
    BY DEF Init
  <2>3. /\ connected \in BOOLEAN /\ running \in BOOLEAN /\ seen \in BOOLEAN /\ writeError \in BOOLEAN
        /\ recRunning \in BOOLEAN /\ recording \in BOOLEAN /\ started \in BOOLEAN /\ stopped \in BOOLEAN
        /\ failed \in BOOLEAN /\ clean \in BOOLEAN /\ joined \in BOOLEAN
    BY Zenon DEF Init
  <2>4. /\ batch \in Seq(Read) /\ packets \in Seq(Read) /\ queue \in Seq(Items \cup {Sentinel})
        /\ disk \in Seq(Items) /\ manifest \in Seq(Items)
    BY DEF Init
  <2>5. stats \in Counters /\ startStats \in Counters /\ endStats \in Counters
    BY <2>1 DEF Init
  <2>6. /\ rpc = "off" /\ wpc = "off" /\ mpc = "recorder" /\ offered = {} /\ result = None
    BY DEF Init
  <2> QED BY <2>2, <2>3, <2>4, <2>5, <2>6 DEF TypeOK
<1>2. DOMAIN disk = {} /\ DOMAIN queue = {} /\ DOMAIN batch = {} /\ DOMAIN packets = {}
  BY DEF Init
<1>3. Numbers(disk, "imu") = {} /\ Numbers(queue, "imu") = {}
  BY <1>2, NumberIn
<1>4. ReaderInv
  BY <1>2 DEF Init, ReaderInv, AtHead, Ascending
<1>5. FlowInv
  BY <1>2, <1>3 DEF Init, FlowInv, AtHead, Waiting, InOrder
<1>6. HoleInv
  BY DEF Init, HoleInv, AtHead, Recording, Ended, Gapless, Clear
<1>7. ShutdownInv
  BY <1>2 DEF Init, ShutdownInv, Recording, Joined
<1>8. PassInv
  BY DEF Init, PassInv, PassIsGapless, AcceptedIsWritten, None
<1> QED BY <1>1, <1>4, <1>5, <1>6, <1>7, <1>8 DEF IInv

(* The invariant is inductive.                                              *)
LEMMA Step ==
    ASSUME TypeOK, IInv, [Next]_vars
    PROVE  TypeOK' /\ IInv'
<1>1. CASE Next
  <2>1. TypeOK'
    BY <1>1, ReaderTypes, OtherTypes DEF Next, IInv
  <2>2. ReaderInv' /\ FlowInv' /\ HoleInv'
    BY <1>1, ReaderInvKept, FlowInvKept, HoleInvKept DEF IInv
  <2>3. ShutdownInv' /\ PassInv'
    BY <1>1, ShutdownInvKept, PassInvKept DEF IInv
  <2> QED BY <2>1, <2>2, <2>3 DEF IInv
<1>2. CASE UNCHANGED vars
  <2> USE <1>2 DEF vars, line, reader, recorder, flags, window, verdict
  <2>1. TypeOK'
    BY DEF TypeOK
  <2>2. ReaderInv'
    BY DEF IInv, ReaderInv, AtHead, Ascending
  <2>3. FlowInv'
    BY DEF IInv, FlowInv, AtHead, Waiting
  <2>4. HoleInv'
    BY DEF IInv, HoleInv, AtHead
  <2>5. ShutdownInv'
    BY DEF IInv, ShutdownInv
  <2>6. PassInv'
    BY DEF IInv, PassInv, PassIsGapless, AcceptedIsWritten
  <2> QED BY <2>1, <2>2, <2>3, <2>4, <2>5, <2>6 DEF IInv
<1> QED BY <1>1, <1>2

(* The inductive invariant of the three threads holds for queues of any     *)
(* size and any number of samples, batches and faults.                      *)
THEOREM Invariance == Spec => [](TypeOK /\ IInv)
<1>1. Init => TypeOK /\ IInv
  BY Start
<1>2. TypeOK /\ IInv /\ [Next]_vars => (TypeOK /\ IInv)'
  BY Step
<1> QED BY <1>1, <1>2, PTL DEF Spec

(* Counters, queue, files and verdicts of the IMU hold what the code can    *)
(* put there.                                                               *)
THEOREM TypesAlwaysOK == Spec => []TypeOK
BY Invariance, PTL

(* A capture that passes has written its samples in order and without a     *)
(* hole, although the counters are read by another thread than counts them. *)
THEOREM PassAlwaysGapless == Spec => []PassIsGapless
<1>1. TypeOK /\ IInv => PassIsGapless
  BY DEF IInv, PassInv
<1> QED BY <1>1, Invariance, PTL

(* When the reader ended in time, a capture that passes holds exactly what  *)
(* record_imu took.                                                         *)
THEOREM AcceptedAlwaysWritten == Spec => []AcceptedIsWritten
<1>1. TypeOK /\ IInv => AcceptedIsWritten
  BY DEF IInv, PassInv
<1> QED BY <1>1, Invariance, PTL

(* No thread that is left writes to a file that was hashed.                 *)
THEOREM HashedStaysFinal == Spec => HashedIsFinal
<1>1. TypeOK /\ IInv /\ [Next]_vars => [manifest # <<>> => disk' = disk]_vars
  <2>1. SUFFICES ASSUME IInv, [Next]_vars, manifest # <<>>
                 PROVE  disk' = disk
    OBVIOUS
  <2>2. wpc = "done"
    BY <2>1 DEF IInv, ShutdownInv
  <2>3. ~RecorderThread
    BY <2>2 DEF RecorderThread, LoopTest, Take, WriteFails, CloseFiles, CloseFails
  <2>4. CASE Next
    BY <2>3, <2>4, ReaderFrame, MainFrame DEF Next
  <2>5. CASE UNCHANGED vars
    BY <2>5 DEF vars, recorder
  <2> QED BY <2>1, <2>4, <2>5
<1> QED BY <1>1, Invariance, PTL DEF Spec, HashedIsFinal

(* While UnitRecorder.stop waits for its thread, that has something to wake *)
(* up for: the sentinel is left out only of a queue that is not empty.      *)
THEOREM RecorderIsWoken == Spec => [](mpc = "joinrecorder" /\ wpc = "get" => queue # <<>>)
<1>1. TypeOK /\ IInv => (mpc = "joinrecorder" /\ wpc = "get" => queue # <<>>)
  BY DEF IInv, ShutdownInv, Joined
<1> QED BY <1>1, Invariance, PTL

-----------------------------------------------------------------------------
(* The reader's clock and timer.                                            *)

\* What the reception needs of itself: numbers.
ReceptionInv == {counter, clock, out, phase, total} \subseteq Int

(* A sample moves the clock on by one to eight.                             *)
LEMMA StepIsSmall ==
    ASSUME ClockConstants, ReceptionInv, NEW c \in DeviceCounters
    PROVE  ClockStep(c) \in 1..8
BY DEF ClockConstants, ReceptionInv, ClockStep

(* A correction is less than a period, by a tenth at least.                 *)
LEMMA CorrectionIsSmall ==
    ASSUME ClockConstants, NEW error \in Int, NEW n \in Int
    PROVE  /\ MaxCorrection(error, n) \in Nat
           /\ 10 * MaxCorrection(error, n) <= 9 * PERIOD
BY DEF ClockConstants, MaxCorrection

(* Limit keeps the sign and shortens.                                       *)
LEMMA LimitShortens ==
    ASSUME NEW x \in Int, NEW most \in Nat
    PROVE  /\ Limit(x, most) \in -most..most
           /\ x >= 0 => Limit(x, most) \in 0..x
           /\ x <= 0 => Limit(x, most) \in x..0
BY DEF Limit

(* The products of the model are numbers.                                   *)
LEMMA Lines ==
    ASSUME ClockConstants, ReceptionInv, NEW step \in 1..8, ReceptionInv'
    PROVE  /\ Base(step) \in Int /\ Predicted \in Int
           /\ Base(step) - out >= PERIOD /\ Base(step) - out <= 8 * PERIOD
<1>1. PERIOD \in Nat /\ out \in Int /\ clock' \in Int /\ phase' \in Int
  BY DEF ClockConstants, ReceptionInv
<1>2. PERIOD * step \in Int /\ PERIOD * step >= PERIOD /\ PERIOD * step <= 8 * PERIOD
  <2>1. step \in {1, 2, 3, 4, 5, 6, 7, 8}
    OBVIOUS
  <2> QED BY <1>1, <2>1
<1>3. PERIOD * clock' \in Int
  BY <1>1
<1> QED BY <1>1, <1>2, <1>3 DEF Base, Predicted

(* Where a sample's published time lies.                                    *)
LEMMA OutputLies ==
    ASSUME ClockConstants, ReceptionInv, NEW step \in 1..8, anchored, NEW received \in Int,
           ReceptionInv'
    PROVE  /\ Output(step, received) \in Int
           /\ 10 * (Output(step, received) - out) >= PERIOD
           /\ Output(step, received) - out < 9 * PERIOD
           /\ fitted' => \/ Base(step) <= Output(step, received) /\ Output(step, received) <= Predicted
                         \/ Predicted <= Output(step, received) /\ Output(step, received) <= Base(step)
<1> DEFINE error == Predicted - Base(step)
           most  == MaxCorrection(error, total + 1)
           base  == Base(step)
<1>1. base \in Int /\ Predicted \in Int /\ base - out >= PERIOD /\ base - out <= 8 * PERIOD
  BY Lines
<1>2. PERIOD \in Nat \ {0} /\ out \in Int /\ total \in Int
  BY DEF ClockConstants, ReceptionInv
<1>3. CASE ~fitted'
  BY <1>1, <1>2, <1>3 DEF Output
<1>4. CASE fitted'
  <2>1. error \in Int /\ total + 1 \in Int
    BY <1>1, <1>2
  <2>2. most \in Nat /\ 10 * most <= 9 * PERIOD
    BY <2>1, CorrectionIsSmall
  <2> HIDE DEF most
  <2>3. /\ Limit(error, most) \in -most..most
        /\ error >= 0 => Limit(error, most) \in 0..error
        /\ error <= 0 => Limit(error, most) \in error..0
    BY <2>1, <2>2, LimitShortens
  <2>4. Output(step, received) = base + Limit(error, most)
    BY <1>4 DEF Output, most
  <2> HIDE DEF base
  <2>5. Predicted = base + error
    BY <1>1 DEF base
  <2>6. /\ Output(step, received) \in Int
        /\ 10 * (Output(step, received) - out) >= PERIOD
        /\ Output(step, received) - out < 9 * PERIOD
    <3> DEFINE l == Limit(error, most)
    <3>1. l \in Int /\ -most <= l /\ l <= most
      BY <2>2, <2>3
    <3> HIDE DEF l
    <3>2. Output(step, received) = base + l
      BY <2>4 DEF l
    <3> QED BY <3>1, <3>2, <1>1, <1>2, <2>2
  <2>7. \/ base <= Output(step, received) /\ Output(step, received) <= Predicted
        \/ Predicted <= Output(step, received) /\ Output(step, received) <= base
    BY <1>1, <2>1, <2>3, <2>4, <2>5
  <2> QED BY <2>6, <2>7 DEF base
<1> QED BY <1>3, <1>4

(* The reception's variables stay numbers.                                  *)
LEMMA ReceptionCorrect == ASSUME ClockConstants PROVE ClockSpec => []ReceptionInv
<1>1. InitClock => ReceptionInv
  BY DEF ClockConstants, InitClock, ReceptionInv
<1>2. ReceptionInv /\ [NextClock]_clockVars => ReceptionInv'
  <2> SUFFICES ASSUME ReceptionInv, [NextClock]_clockVars PROVE ReceptionInv'
    OBVIOUS
  <2>1. CASE Sample
    <3>1. PICK c \in DeviceCounters, received \in Times :
             /\ counted' = TRUE /\ counter' = c /\ clock' = clock + ClockStep(c) /\ total' = total + 1
             /\ (fitted' = TRUE /\ phase' \in Phases) \/ UNCHANGED <<fitted, phase>>
             /\ anchored' = TRUE /\ out' = Output(ClockStep(c), received)
      BY <2>1 DEF Sample
    <3>2. ClockStep(c) \in 1..8 /\ c \in Int /\ received \in Int
      BY StepIsSmall DEF ClockConstants
    <3>3. {clock', phase', total'} \subseteq Int
      <4>1. phase' \in Int
        BY <3>1 DEF ClockConstants, ReceptionInv
      <4>2. clock' \in Int /\ total' \in Int
        BY <3>1, <3>2 DEF ReceptionInv
      <4> QED BY <4>1, <4>2
    <3>4. out' \in Int
      <4>1. CASE ~anchored
        BY <3>1, <3>2, <4>1 DEF Output
      <4>2. CASE anchored
        <5> DEFINE base == Base(ClockStep(c))
                   error == Predicted - base
        <5>1. PERIOD \in Nat /\ PERIOD * ClockStep(c) \in Int /\ PERIOD * clock' \in Int
          BY <3>2, <3>3 DEF ClockConstants
        <5>2. base \in Int /\ Predicted \in Int
          BY <3>3, <5>1 DEF Base, Predicted, ReceptionInv
        <5>3. error \in Int /\ total + 1 \in Int
          BY <5>2 DEF ReceptionInv
        <5>4. Limit(error, MaxCorrection(error, total + 1)) \in Int
          <6>1. MaxCorrection(error, total + 1) \in Nat
            BY <5>3, CorrectionIsSmall
          <6> QED BY <5>3, <6>1 DEF Limit
        <5> QED BY <3>1, <4>2, <5>2, <5>4 DEF Output
      <4> QED BY <4>1, <4>2
    <3> QED BY <3>1, <3>2, <3>3, <3>4 DEF ReceptionInv
  <2>2. CASE Reopened
    BY <2>2 DEF Reopened, ReceptionInv
  <2>3. CASE UNCHANGED reception
    BY <2>3 DEF reception, ReceptionInv
  <2> QED BY <2>1, <2>2, <2>3 DEF NextClock, Stamp, clockVars
<1> QED BY <1>1, <1>2, PTL DEF ClockSpec

(* Published times go on, by a tenth of a period at least.                  *)
THEOREM Advance == ASSUME ClockConstants PROVE ClockSpec => TimesAdvance
<1>1. ReceptionInv /\ ReceptionInv' /\ [NextClock]_clockVars =>
        [Sample /\ anchored => 10 * (out' - out) >= PERIOD /\ out' - out < 9 * PERIOD]_clockVars
  <2> SUFFICES ASSUME ReceptionInv, ReceptionInv', Sample, anchored
               PROVE  10 * (out' - out) >= PERIOD /\ out' - out < 9 * PERIOD
    OBVIOUS
  <2>1. PICK c \in DeviceCounters, received \in Times : out' = Output(ClockStep(c), received)
    BY DEF Sample
  <2>2. ClockStep(c) \in 1..8 /\ received \in Int
    BY StepIsSmall DEF ClockConstants
  <2>3. /\ 10 * (Output(ClockStep(c), received) - out) >= PERIOD
        /\ Output(ClockStep(c), received) - out < 9 * PERIOD
    BY <2>2, OutputLies
  <2> QED BY <2>1, <2>3
<1> QED BY <1>1, ReceptionCorrect, PTL DEF ClockSpec, TimesAdvance

(* Published times approach the fitted line.                                *)
THEOREM Approach == ASSUME ClockConstants PROVE ClockSpec => TimesApproach
<1> DEFINE Between ==
             \E step \in 1..8 : /\ clock' = clock + step
                                /\ \/ Base(step) <= out' /\ out' <= Predicted
                                   \/ Predicted <= out' /\ out' <= Base(step)
<1>1. ReceptionInv /\ ReceptionInv' /\ [NextClock]_clockVars => [Sample /\ anchored /\ fitted' => Between]_clockVars
  <2> SUFFICES ASSUME ReceptionInv, ReceptionInv', Sample, anchored, fitted' PROVE Between
    OBVIOUS
  <2>1. PICK c \in DeviceCounters, received \in Times :
           clock' = clock + ClockStep(c) /\ out' = Output(ClockStep(c), received)
    BY DEF Sample
  <2>2. ClockStep(c) \in 1..8 /\ received \in Int
    BY StepIsSmall DEF ClockConstants
  <2>3. LET o == Output(ClockStep(c), received)
        IN  \/ Base(ClockStep(c)) <= o /\ o <= Predicted
            \/ Predicted <= o /\ o <= Base(ClockStep(c))
    BY <2>2, OutputLies
  <2> QED BY <2>1, <2>2, <2>3
<1> QED BY <1>1, ReceptionCorrect, PTL DEF ClockSpec, TimesApproach

\* The timer: what it last saw is in the register, and it lacks only what had
\* passed when it started.
TimerInv ==
    /\ register \in 0..UINT32 - 1
    /\ {elapsed, origin, timer.previous, timer.epoch} \subseteq Int
    /\ timer.previous = NoStamp => timer.epoch = 0
    /\ timer.previous # NoStamp => /\ timer.previous = register
                                /\ timer.epoch + timer.previous = elapsed - origin

(* Unwrapping loses nothing of the microcontroller's time.                  *)
THEOREM Unwrapped == ASSUME ClockConstants PROVE ClockSpec => []UnwrappedIsExact
<1>1. InitClock => TimerInv
  BY DEF ClockConstants, InitClock, TimerInv, NewTimer, NoStamp
<1>2. TimerInv /\ [NextClock]_clockVars => TimerInv'
  <2> SUFFICES ASSUME TimerInv, [NextClock]_clockVars PROVE TimerInv'
    OBVIOUS
  <2>1. CASE Stamp
    <3>1. PICK d \in 0..MaxGap :
             /\ register' = Advanced(register, d) /\ elapsed' = elapsed + d
             /\ timer' = Extended(timer, register')
             /\ origin' = IF timer.previous # NoStamp THEN origin ELSE elapsed' - register'
      BY <2>1 DEF Stamp
    <3>2. UINT32 \in Nat /\ d \in Nat /\ 2 * d < UINT32 /\ elapsed' \in Int
      BY <3>1 DEF ClockConstants, TimerInv
    <3>3. /\ register' = IF register + d < UINT32 THEN register + d ELSE register + d - UINT32
          /\ register' \in 0..UINT32 - 1
      BY <3>1, <3>2 DEF TimerInv, Advanced
    <3>4. /\ timer'.previous = register'
          /\ timer'.epoch = IF timer.previous # NoStamp /\ register' < timer.previous
                               /\ timer.previous - register' > UINT32 \div 2
                            THEN timer.epoch + UINT32 ELSE timer.epoch
      BY <3>1 DEF Extended
    <3>5. CASE timer.previous = NoStamp
      <4>1. timer.epoch = 0
        BY <3>5 DEF TimerInv
      <4>2. /\ timer'.previous = register' /\ timer'.epoch = 0
            /\ origin' = elapsed' - register'
        BY <3>1, <3>4, <3>5, <4>1
      <4>3. register' \in Int /\ register' # NoStamp
        BY <3>2, <3>3 DEF NoStamp
      <4>4. register' \in 0..UINT32 - 1 /\ elapsed' \in Int
        BY <3>2, <3>3
      <4>5. timer'.epoch + timer'.previous = elapsed' - origin' /\ origin' \in Int
        BY <4>2, <4>3, <4>4
      <4> QED BY <4>2, <4>3, <4>4, <4>5 DEF TimerInv
    <3>6. CASE timer.previous # NoStamp
      BY <3>1, <3>2, <3>3, <3>4, <3>6 DEF TimerInv, NoStamp
    <3> QED BY <3>5, <3>6
  <2>2. CASE Reopened
    BY <2>2 DEF Reopened, NewTimer, NoStamp, TimerInv
  <2>3. CASE UNCHANGED stamps
    BY <2>3 DEF stamps, TimerInv
  <2> QED BY <2>1, <2>2, <2>3 DEF NextClock, Sample, clockVars
<1>3. TimerInv => UnwrappedIsExact
  BY DEF TimerInv, UnwrappedIsExact
<1> QED BY <1>1, <1>2, <1>3, PTL DEF ClockSpec

=============================================================================
