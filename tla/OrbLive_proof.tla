----------------------------- MODULE OrbLive_proof -----------------------------
(***************************************************************************)
(* Proofs about OrbLive, for every rate, bound, lead and length of a run.  *)
(*                                                                         *)
(* Drain and Push_samples are defined by recursion over data.  What they   *)
(* do is shown by induction in the form that needs no operator: a set of   *)
(* numbers with zero and the successor of each of its members has all of   *)
(* them (Induction).                                                       *)
(***************************************************************************)
EXTENDS OrbLive, FiniteSetTheorems, SequenceTheorems, WellFoundedInduction, TLAPS

-----------------------------------------------------------------------------
(* Numbers, sets and sequences.                                             *)

\* A set of natural numbers has a least member.
LEMMA LeastMember ==
    ASSUME NEW T \in SUBSET Nat, T # {}
    PROVE  \E x \in T : \A y \in T : x <= y
<1>1. \E x \in T : \A y \in T : <<y, x>> \notin OpToRel(<, Nat)
  BY NatLessThanWellFounded, WFMin
<1>2. ASSUME NEW x \in T, NEW y \in T, <<y, x>> \notin OpToRel(<, Nat)
      PROVE  x <= y
  BY <1>2 DEF OpToRel
<1> QED BY <1>1, <1>2

\* Induction over the natural numbers, about a set.
LEMMA Induction ==
    ASSUME NEW T, 0 \in T, \A n \in Nat : n \in T => n + 1 \in T
    PROVE  Nat \subseteq T
<1> SUFFICES ASSUME NEW m \in Nat, m \notin T PROVE FALSE
  OBVIOUS
<1> DEFINE B == {n \in Nat : n \notin T}
<1>1. PICK x \in B : \A y \in B : x <= y
  <2>1. m \in B /\ B \in SUBSET Nat
    OBVIOUS
  <2> HIDE DEF B
  <2> QED BY <2>1, LeastMember
<1>2. x # 0 /\ x \in Nat
  OBVIOUS
<1>3. x - 1 \in T
  <2>1. x - 1 \in Nat /\ ~(x <= x - 1)
    BY <1>2
  <2> QED BY <1>1, <2>1
<1> QED BY <1>2, <1>3

\* A bounded set of natural numbers has a largest member, and Max is it.
LEMMA MaxMember ==
    ASSUME NEW S \in SUBSET Nat, S # {}, NEW b \in Nat, \A x \in S : x <= b
    PROVE  Max(S) \in S /\ \A x \in S : x <= Max(S)
<1> DEFINE T == {c \in Nat : \A x \in S : x <= c}
<1>2. PICK c \in T : \A d \in T : c <= d
  <2>1. b \in T /\ T \in SUBSET Nat
    OBVIOUS
  <2> HIDE DEF T
  <2> QED BY <2>1, LeastMember
<1>3. c \in S
  <2> SUFFICES ASSUME c \notin S PROVE FALSE
    OBVIOUS
  <2>1. PICK x \in S : TRUE
    OBVIOUS
  <2>2. c # 0 /\ c - 1 \in Nat
    BY <1>2, <2>1
  <2>3. c - 1 \in T
    BY <1>2, <2>2
  <2> QED BY <1>2, <2>2, <2>3
<1>4. \E y \in S : \A x \in S : y >= x
  BY <1>2, <1>3
<1> QED BY <1>4 DEF Max

\* The smallest member of a set of natural numbers, if it has one, is its Min.
LEMMA MinMember ==
    ASSUME NEW S \in SUBSET Nat, S # {}
    PROVE  Min(S) \in S /\ \A x \in S : Min(S) <= x
<1>1. \E y \in S : \A x \in S : y <= x
  BY LeastMember
<1> QED BY <1>1 DEF Min
-----------------------------------------------------------------------------
(* Types.                                                                   *)

Packets == [kind : {"frame"}, frame : Nat, imu : Seq(Nat)] \cup {Shutdown, Sentinel}
Orbs ==
    [imu : Seq(Nat), pending : Seq(Nat), lastImu : Nat, lastSent : Nat, failure : BOOLEAN, raised : BOOLEAN,
     stop : BOOLEAN, queue : Seq(Packets), received : SUBSET Nat, accepted : SUBSET Nat, sent : Seq(Nat)]
Positions == {"start", "await", "sensors", "loop", "drain", "poll", "anchor", "closing", "finish", "settle",
              "stop", "put", "join", "close", "reap", "report", "exit"}
Poses == [frame : Nat, ready : BOOLEAN, map : Nat \ {0}]

Types ==
    /\ program \in {"pair", "hil"}
    /\ sensors \in [gyro : Nat, accel : Nat, stereo : Nat, running : BOOLEAN]
    /\ combiner \in [gyro : SUBSET Nat, accel : SUBSET Nat]
    /\ feed \in [active : BOOLEAN, error : BOOLEAN, image : Nat]
    /\ orb \in Orbs
    /\ writer \in [pc : {"get", "write", "done", "dead"}, packet : Packets]
    /\ child \in [pc : {"none", "loading", "idle", "track", "exited"}, frame : Nat, code : {0, 1},
                  input : {"open", "ending", "closed"}, map : Nat \ {0}, born : Nat, unseen : BOOLEAN,
                  ready : BOOLEAN]
    /\ reader \in [pc : {"run", "done"}, received : Seq(Nat)]
    /\ poses \in Seq(Poses)
    /\ main \in [pc : Positions, raised : BOOLEAN, returned : Nat, transport : BOOLEAN,
                 status : {"none", "ending", "FAIL", "PROVISIONAL_LIVE_LOCAL_PASS"}]
    /\ world \in [ready : BOOLEAN, odometry : SUBSET [time : Nat, map : Nat \ {0}], window : Seq(Nat \ {0}),
                  anchor : Nat, rows : SUBSET (Nat \ {0})]

-----------------------------------------------------------------------------
(* OrbSlam3LiveProcess by itself.                                           *)

Rising(s) == \A i, j \in DOMAIN s : i < j => s[i] < s[j]
IsFrame(packet) == packet.kind = "frame"

\* The samples: those sent and those waiting are the ones received, from the
\* boundary of the first image on.
IsBoundary(b, first, received) ==
    /\ b \in received \cup {0} /\ b <= first
    /\ \A t \in received : t <= first => t <= b
From(T, b) == {t \in T : t >= b}
Kept(o) ==
    IF o.lastSent = None
    THEN o.sent = <<>> /\ InOrder(o.imu, o.received)
    ELSE \E first \in o.accepted, b \in Nat :
           /\ \A f \in o.accepted : first <= f
           /\ IsBoundary(b, first, o.received)
           /\ InOrder(o.sent \o o.imu, From(o.received, b))

\* The images: those accepted came before those pending; the packets in the queue
\* are in order, and later than what has left it.
ImagesRise(o) ==
    /\ Rising(o.pending) /\ \A i \in DOMAIN o.pending : o.pending[i] > o.lastSent
    /\ \A f \in o.accepted : 0 < f /\ f <= o.lastSent /\ f <= o.lastImu
    /\ o.lastSent \in o.accepted \cup {None}
OneShutdown(queue) == \A i, j \in DOMAIN queue : queue[i] = Shutdown /\ queue[j] = Shutdown => i = j
QueueRises(o, low) ==
    /\ low <= o.lastSent /\ OneShutdown(o.queue)
    /\ \A i \in DOMAIN o.queue : IsFrame(o.queue[i]) => o.queue[i].frame \in o.accepted /\ low < o.queue[i].frame
    /\ \A i, j \in DOMAIN o.queue :
          i < j /\ IsFrame(o.queue[i]) /\ IsFrame(o.queue[j]) => o.queue[i].frame < o.queue[j].frame
SamplesRise(o) ==
    /\ Rising(o.imu) /\ \A i \in DOMAIN o.imu : o.imu[i] <= o.lastImu
    /\ \A t \in o.received : t <= o.lastImu

OrbOk(o, low) ==
    /\ o \in Orbs /\ IsFiniteSet(o.accepted) /\ (o.raised => o.failure)
    /\ SamplesRise(o) /\ ImagesRise(o) /\ QueueRises(o, low)
    /\ ~o.failure => Kept(o)

-----------------------------------------------------------------------------
(* With the cameras before it and the child behind it.                      *)

\* The packet that the writer holds, or has died of.
Holds == writer.pc \in {"write", "dead"}
Low == IF Holds /\ IsFrame(writer.packet) THEN writer.packet.frame ELSE child.frame

CamerasInv ==
    /\ OrbOk(orb, Low) /\ ~orb.raised
    /\ \A f \in orb.accepted : f <= sensors.stereo
    /\ \A i \in DOMAIN orb.pending : orb.pending[i] <= sensors.stereo
    /\ orb.lastImu <= sensors.gyro
    /\ program = "hil" => \A g \in combiner.gyro : orb.lastImu < g /\ g <= sensors.gyro
    /\ program = "pair" => orb.pending = <<>> /\ sensors.gyro <= sensors.stereo + Lead

PipeInv ==
    /\ Holds /\ IsFrame(writer.packet) => writer.packet.frame \in orb.accepted /\ child.frame < writer.packet.frame
    /\ child.frame \in orb.accepted \cup {None}
    /\ child.pc = "track" => child.frame \in orb.accepted
    /\ Rising(reader.received)
    /\ \A i \in DOMAIN reader.received :
          /\ reader.received[i] \in orb.accepted /\ reader.received[i] <= child.frame
          /\ child.pc = "track" => reader.received[i] < child.frame

\* The end of the child's input.
ShutdownInv ==
    /\ Holds => writer.packet # Sentinel
    /\ Shutdown \in ToSet(orb.queue) \/ (writer.pc = "write" /\ writer.packet = Shutdown)
          => main.pc = "join" /\ child.input = "open"
    /\ writer.pc = "write" /\ writer.packet = Shutdown => Shutdown \notin ToSet(orb.queue)
    /\ writer.pc = "dead" /\ writer.packet = Shutdown => child.pc = "exited" /\ child.code = 1
    /\ child.pc = "exited" /\ child.input = "open" => child.code = 1
    /\ child.pc # "exited" /\ child.input # "open" => main.pc \in {"join", "close", "reap"}
    /\ main.pc = "put" => child.input = "open"
    /\ main.pc = "start" => child.pc = "none"

\* The end of the acceptance.
Late(o) == \A i \in DOMAIN o.pending : o.pending[i] > o.lastImu
EndInv ==
    /\ main.pc = "settle" => program = "hil" /\ Late(orb)
    /\ program = "hil" /\ main.pc \notin {"loop", "closing", "exit"} => ~sensors.running
    /\ main.pc \in {"drain", "poll", "anchor"} => program = "pair"
    /\ main.transport =>
          /\ program = "hil" /\ ~sensors.running /\ main.pc \in {"stop", "put", "join", "close", "reap", "report", "exit"}
          /\ ToSet(reader.received) = orb.accepted /\ Late(orb) /\ main.status # "none"
    /\ main.pc \in {"finish", "settle"} => main.status # "none"
    /\ main.pc = "report" => child.pc = "exited"
    /\ main.status = "PROVISIONAL_LIVE_LOCAL_PASS" =>
          main.pc = "exit" /\ main.transport /\ child.pc = "exited" /\ child.code = 0

-----------------------------------------------------------------------------
(* The poses on their way to main, and the world.                           *)

IsNewest(o) == o \in world.odometry /\ \A p \in world.odometry : p = o \/ p.time < o.time

TimesInv ==
    /\ \A f \in orb.accepted : f <= feed.image
    /\ world.odometry # {} => \E o \in world.odometry : IsNewest(o)
    /\ \A o \in world.odometry :
          /\ o.time <= child.frame /\ (child.pc = "track" => o.time < child.frame)
          /\ \A i \in DOMAIN poses : o.time < poses[i].frame
          /\ main.pc = "anchor" => o.time <= main.returned
    /\ \A i \in DOMAIN poses :
          /\ poses[i].frame <= child.frame /\ (child.pc = "track" => poses[i].frame < child.frame)
          /\ \A j \in DOMAIN poses : i < j => poses[i].frame < poses[j].frame

\* Between two poses of different maps there is one that is not ready.
StreamInv ==
    /\ world.ready => world.odometry # {}
    /\ \A i \in DOMAIN poses : poses[i].ready =>
          IF i = 1 THEN world.ready => \A o : IsNewest(o) => o.map = poses[1].map
                   ELSE poses[i - 1].ready => poses[i - 1].map = poses[i].map
    /\ IF poses = <<>> THEN world.ready => child.ready /\ \A o : IsNewest(o) => o.map = child.map
                       ELSE poses[Len(poses)].ready => child.ready /\ poses[Len(poses)].map = child.map
    /\ child.ready => child.born # None

\* After a reset that main has not seen no pose is ready.
NoReturn == \A i \in DOMAIN poses : ~poses[i].ready =>
                child.unseen /\ ~child.ready /\ \A j \in DOMAIN poses : i < j => ~poses[j].ready
WindowInv ==
    /\ main.pc \in {"poll", "anchor"} /\ world.ready => NoReturn
    /\ world.window # <<>> =>
          IF world.ready
          THEN NoReturn /\ \A k \in DOMAIN world.window : \A o : IsNewest(o) => world.window[k] = o.map
          ELSE child.unseen /\ ~child.ready /\ \A i \in DOMAIN poses : ~poses[i].ready
    /\ world.anchor # None => world.ready /\ \A o : IsNewest(o) => o.map = world.anchor

WorldInv ==
    /\ world.rows \subseteq {world.anchor}
    /\ program = "pair" /\ InLoop => TimesInv /\ StreamInv /\ WindowInv
    /\ program = "hil" => world.rows = {}

LiveInv == Types /\ CamerasInv /\ PipeInv /\ ShutdownInv /\ EndInv /\ WorldInv

\* The members of a sequence are what ToSet says.
LEMMA Members ==
    ASSUME NEW S, NEW s \in Seq(S)
    PROVE  /\ ToSet(s) \subseteq S /\ IsFiniteSet(ToSet(s)) /\ Cardinality(ToSet(s)) <= Len(s)
           /\ \A x : x \in ToSet(s) <=> \E i \in 1 .. Len(s) : s[i] = x
<1>1. Len(s) \in Nat /\ DOMAIN s = 1 .. Len(s) /\ s \in [1 .. Len(s) -> S]
  BY LenProperties
<1>2. s \in [1 .. Len(s) -> ToSet(s)]
  BY <1>1 DEF ToSet
<1>3. s \in Surjection(1 .. Len(s), ToSet(s))
  BY <1>1, <1>2 DEF Surjection, ToSet
<1>4. IsFiniteSet(1 .. Len(s)) /\ Cardinality(1 .. Len(s)) = Len(s)
  BY <1>1, FS_Interval
<1>5. IsFiniteSet(ToSet(s)) /\ Cardinality(ToSet(s)) <= Len(s)
  BY <1>3, <1>4, FS_Surjection
<1> QED BY <1>1, <1>5 DEF ToSet

\* A limit cuts a rising function of 1 .. n in two.
LEMMA Cut ==
    ASSUME NEW n \in Nat, NEW s \in [1 .. n -> Nat], NEW f \in Nat,
           \A i, j \in 1 .. n : i < j => s[i] < s[j]
    PROVE  \E m \in 0 .. n : /\ \A i \in 1 .. m : s[i] <= f
                             /\ \A i \in 1 .. n : m < i => f < s[i]
<1> DEFINE T == {k \in 0 .. n : \A i \in 1 .. n : k < i => f < s[i]}
<1>1. PICK m \in T : \A k \in T : m <= k
  <2>1. n \in T /\ T \in SUBSET Nat
    OBVIOUS
  <2> HIDE DEF T
  <2> QED BY <2>1, LeastMember
<1>2. m \in 0 .. n /\ \A i \in 1 .. n : m < i => f < s[i]
  OBVIOUS
<1>3. ASSUME NEW i \in 1 .. m PROVE s[i] <= f
  <2> SUFFICES ASSUME f < s[i] PROVE FALSE
    BY <1>2
  <2>1. i - 1 \in 0 .. n /\ ~(m <= i - 1)
    BY <1>2
  <2>2. ASSUME NEW j \in 1 .. n, i - 1 < j PROVE f < s[j]
    <3>1. i \in 1 .. n /\ (i = j \/ i < j)
      BY <1>2, <2>2
    <3>2. s[i] \in Nat /\ s[j] \in Nat /\ (i < j => s[i] < s[j])
      BY <3>1
    <3> QED BY <3>1, <3>2
  <2>3. i - 1 \in T
    BY <2>1, <2>2
  <2> HIDE DEF T
  <2> QED BY <1>1, <2>1, <2>3
<1> QED BY <1>2, <1>3

\* A rising sequence has as many members up to a limit as places, and those come first.
LEMMA RisingPrefix ==
    ASSUME NEW s \in Seq(Nat), Rising(s), NEW f \in Nat
    PROVE  \E k \in 0 .. Len(s) :
               /\ k = Cardinality({t \in ToSet(s) : t <= f})
               /\ \A i \in DOMAIN s : i <= k <=> s[i] <= f
<1> DEFINE n == Len(s)
           A == {t \in ToSet(s) : t <= f}
<1>1. n \in Nat /\ DOMAIN s = 1 .. n /\ s \in [1 .. n -> Nat]
  BY LenProperties
<1>1a. \A i \in 1 .. n : s[i] \in ToSet(s)
  BY Members
<1>1b. \A x \in ToSet(s) : \E i \in 1 .. n : s[i] = x
  BY Members
<1> HIDE DEF n
<1>1c. \A i, j \in 1 .. n : i < j => s[i] < s[j]
  BY <1>1 DEF Rising
<1>2. PICK m \in 0 .. n : /\ \A i \in 1 .. m : s[i] <= f
                         /\ \A i \in 1 .. n : m < i => f < s[i]
  BY <1>1, <1>1c, Cut
<1>3. \A i \in 1 .. n : i <= m <=> s[i] <= f
  <2> TAKE i \in 1 .. n
  <2>1. s[i] \in Nat
    BY <1>1
  <2>2. CASE i <= m
    <3>1. i \in 1 .. m
      BY <1>1, <2>2
    <3> QED BY <1>2, <2>2, <3>1
  <2>3. CASE ~(i <= m)
    <3>1. m < i
      BY <1>1, <2>3
    <3> QED BY <1>2, <2>1, <2>3, <3>1
  <2> QED BY <2>2, <2>3
<1> DEFINE g == [i \in 1 .. m |-> s[i]]
<1>4. \A i \in 1 .. m : s[i] \in A
  <2> TAKE i \in 1 .. m
  <2>1. i \in 1 .. n
    BY <1>1, <1>2
  <2> QED BY <1>1a, <1>2, <2>1
<1>5. ASSUME NEW t \in A PROVE \E i \in 1 .. m : s[i] = t
  <2>1. t \in ToSet(s) /\ t <= f
    OBVIOUS
  <2>2. PICK i \in 1 .. n : s[i] = t
    BY <2>1, <1>1b
  <2>3. i <= m
    BY <1>3, <2>1, <2>2
  <2> QED BY <1>1, <1>2, <2>2, <2>3
<1>6. g \in Bijection(1 .. m, A)
  <2> HIDE DEF A
  <2>1. g \in [1 .. m -> A]
    BY <1>4
  <2>2. \A t \in A : \E i \in 1 .. m : g[i] = t
    BY <1>5
  <2>3. ASSUME NEW i \in 1 .. m, NEW j \in 1 .. m, g[i] = g[j] PROVE i = j
    <3>1. i \in 1 .. n /\ j \in 1 .. n /\ s[i] = s[j]
      BY <1>1, <1>2, <2>3
    <3>2. s[i] \in Nat /\ s[j] \in Nat
      BY <1>1, <3>1
    <3>3. ~(i < j) /\ ~(j < i)
      BY <1>1c, <3>1, <3>2
    <3> QED BY <1>1, <3>1, <3>3
  <2> HIDE DEF g
  <2> QED BY <2>1, <2>2, <2>3 DEF Bijection, Injection, Surjection, IsInjective
<1>7. m = Cardinality(A)
  <2>1. IsFiniteSet(1 .. m) /\ Cardinality(1 .. m) = m
    BY <1>1, <1>2, FS_Interval
  <2>2. ExistsBijection(1 .. m, A)
    BY <1>6 DEF ExistsBijection
  <2> HIDE DEF A
  <2> QED BY <2>1, <2>2, FS_Bijection
<1> QED BY <1>1, <1>2, <1>3, <1>7 DEF n

\* The rest of a rising sequence, and a rising sequence that grows.
LEMMA RisingRest ==
    ASSUME NEW s \in Seq(Nat), Rising(s), NEW k \in 1 .. Len(s) + 1
    PROVE  LET r == SubSeq(s, k, Len(s))
           IN  /\ r \in Seq(Nat) /\ Rising(r) /\ Len(r) = Len(s) - k + 1 /\ DOMAIN r = 1 .. Len(s) - k + 1
               /\ \A i \in DOMAIN r : k + i - 1 \in DOMAIN s /\ r[i] = s[k + i - 1]
<1> DEFINE r == SubSeq(s, k, Len(s))
<1>1. Len(s) \in Nat /\ DOMAIN s = 1 .. Len(s) /\ \A i \in 1 .. Len(s) : s[i] \in Nat
  BY LenProperties
<1>2. /\ r \in Seq(Nat) /\ Len(r) = Len(s) - k + 1
      /\ \A i \in 1 .. Len(s) - k + 1 : r[i] = s[k + i - 1]
  BY <1>1, SubSeqProperties
<1>3. DOMAIN r = 1 .. Len(s) - k + 1
  BY <1>2, LenProperties
<1>4. \A i \in DOMAIN r : k + i - 1 \in DOMAIN s /\ r[i] = s[k + i - 1]
  BY <1>1, <1>2, <1>3
<1>5. Rising(r)
  <2> SUFFICES ASSUME NEW i \in DOMAIN r, NEW j \in DOMAIN r, i < j PROVE r[i] < r[j]
    BY DEF Rising
  <2>1. k + i - 1 < k + j - 1
    BY <1>3
  <2> QED BY <1>4, <2>1 DEF Rising
<1> QED BY <1>2, <1>3, <1>4, <1>5

LEMMA RisingAppend ==
    ASSUME NEW s \in Seq(Nat), Rising(s), NEW t \in Nat, \A i \in DOMAIN s : s[i] < t
    PROVE  /\ Append(s, t) \in Seq(Nat) /\ Rising(Append(s, t)) /\ DOMAIN Append(s, t) = 1 .. Len(s) + 1
           /\ \A i \in 1 .. Len(s) : Append(s, t)[i] = s[i]
           /\ Append(s, t)[Len(s) + 1] = t
           /\ ToSet(Append(s, t)) = ToSet(s) \cup {t}
<1>1. Len(s) \in Nat /\ DOMAIN s = 1 .. Len(s) /\ \A i \in 1 .. Len(s) : s[i] \in Nat
  BY LenProperties
<1> DEFINE r == Append(s, t)
<1>2. /\ r \in Seq(Nat) /\ Len(r) = Len(s) + 1 /\ \A i \in 1 .. Len(s) : r[i] = s[i]
      /\ r[Len(s) + 1] = t
  BY AppendProperties
<1>3. DOMAIN r = 1 .. Len(s) + 1
  BY <1>2, LenProperties
<1> HIDE DEF r
<1>4. Rising(r)
  <2> SUFFICES ASSUME NEW i \in 1 .. Len(s) + 1, NEW j \in 1 .. Len(s) + 1, i < j PROVE r[i] < r[j]
    BY <1>3 DEF Rising
  <2>1. i \in 1 .. Len(s) /\ (j \in 1 .. Len(s) \/ j = Len(s) + 1)
    BY <1>1
  <2>2. CASE j = Len(s) + 1
    BY <1>1, <1>2, <2>1, <2>2
  <2>3. CASE j \in 1 .. Len(s)
    BY <1>1, <1>2, <2>1, <2>3 DEF Rising
  <2> QED BY <2>1, <2>2, <2>3
<1>5. ToSet(r) = ToSet(s) \cup {t}
  BY <1>1, <1>2, <1>3 DEF ToSet
<1> QED BY <1>2, <1>3, <1>4, <1>5 DEF r

\* Without its head.
LEMMA RisingTail ==
    ASSUME NEW s \in Seq(Nat), Rising(s), s # <<>>
    PROVE  /\ Head(s) = s[1] /\ Head(s) \in Nat /\ Tail(s) \in Seq(Nat) /\ Rising(Tail(s))
           /\ Len(s) \in Nat \ {0} /\ Len(Tail(s)) = Len(s) - 1
           /\ \A i \in DOMAIN Tail(s) : i + 1 \in DOMAIN s /\ Tail(s)[i] = s[i + 1] /\ Head(s) < Tail(s)[i]
<1>1. Len(s) \in Nat \ {0} /\ DOMAIN s = 1 .. Len(s) /\ \A i \in 1 .. Len(s) : s[i] \in Nat
  BY LenProperties, EmptySeq
<1>2. /\ Tail(s) \in Seq(Nat) /\ Len(Tail(s)) = Len(s) - 1 /\ Head(s) = s[1]
      /\ \A i \in 1 .. Len(Tail(s)) : Tail(s)[i] = s[i + 1]
  BY HeadTailProperties
<1>3. DOMAIN Tail(s) = 1 .. Len(s) - 1
  BY <1>2, LenProperties
<1>4. ASSUME NEW i \in DOMAIN Tail(s)
      PROVE  i + 1 \in DOMAIN s /\ Tail(s)[i] = s[i + 1] /\ Head(s) < Tail(s)[i] /\ i \in Nat
  <2>1. i \in 1 .. Len(Tail(s)) /\ i + 1 \in DOMAIN s /\ 1 \in DOMAIN s /\ 1 < i + 1
    BY <1>1, <1>2, <1>3
  <2> QED BY <1>2, <2>1 DEF Rising
<1>5. Rising(Tail(s))
  <2> SUFFICES ASSUME NEW i \in DOMAIN Tail(s), NEW j \in DOMAIN Tail(s), i < j PROVE Tail(s)[i] < Tail(s)[j]
    BY DEF Rising
  <2>1. i + 1 < j + 1
    BY <1>4
  <2> QED BY <1>4, <2>1 DEF Rising
<1> QED BY <1>1, <1>2, <1>4, <1>5

-----------------------------------------------------------------------------
(* Induction over the turns of Drain, and over the samples of Push_samples. *)

\* What holds before the first turn, and after each turn if it held before it,
\* holds after the last.
LEMMA DrainInduction ==
    ASSUME NEW o, NEW lead, Len(o.pending) \in Nat, NEW P,
           o \in P[0],
           \A n \in 0 .. Len(o.pending) - 1 : \A x \in P[n] : Turn(x, lead) \in P[n + 1]
    PROVE  Drain(o, lead) \in P[Len(o.pending)]
<1> DEFINE N == Len(o.pending)
           Is(f, n) == f = [k \in 0 .. n |-> IF k = 0 THEN o ELSE Turn(f[k - 1], lead)]
           T == {n \in Nat : \E f : Is(f, n)}
<1>1. 0 \in T
  <2>1. Is([k \in 0 .. 0 |-> o], 0)
    OBVIOUS
  <2> QED BY <2>1
<1>2. ASSUME NEW n \in Nat, n \in T PROVE n + 1 \in T
  <2>1. PICK f : Is(f, n)
    BY <1>2
  <2> DEFINE g == [k \in 0 .. n + 1 |-> IF k = n + 1 THEN Turn(f[n], lead) ELSE f[k]]
  <2>2. ASSUME NEW k \in 0 .. n + 1 PROVE g[k] = IF k = 0 THEN o ELSE Turn(g[k - 1], lead)
    <3>1. CASE k = n + 1
      <4>1. k # 0 /\ k - 1 = n /\ n \in 0 .. n + 1 /\ n # n + 1
        BY <3>1
      <4> QED BY <3>1, <4>1
    <3>2. CASE k # n + 1
      <4>1. k \in 0 .. n
        BY <3>2
      <4>2. f[k] = IF k = 0 THEN o ELSE Turn(f[k - 1], lead)
        BY <2>1, <4>1
      <4>3. k # 0 => k - 1 \in 0 .. n + 1 /\ k - 1 # n + 1
        BY <4>1
      <4> QED BY <3>2, <4>2, <4>3
    <3> QED BY <3>1, <3>2
  <2>3. g = [k \in 0 .. n + 1 |-> IF k = 0 THEN o ELSE Turn(g[k - 1], lead)]
    <3>1. g = [k \in 0 .. n + 1 |-> g[k]]
      OBVIOUS
    <3> HIDE DEF g
    <3> QED BY <2>2, <3>1
  <2> HIDE DEF g
  <2> QED BY <2>3
<1>3. N \in T
  <2> HIDE DEF T
  <2> QED BY <1>1, <1>2, Induction
<1> DEFINE after == CHOOSE f : Is(f, N)
<1>4. Is(after, N)
  BY <1>3
<1>5. Drain(o, lead) = after[N]
  BY DEF Drain
<1> HIDE DEF after
<1> DEFINE H == {n \in Nat : n <= N => after[n] \in P[n]}
<1>6. 0 \in H
  <2>1. after[0] = o
    BY <1>4
  <2> QED BY <2>1
<1>7. ASSUME NEW n \in Nat, n \in H PROVE n + 1 \in H
  <2> SUFFICES ASSUME n + 1 <= N PROVE after[n + 1] \in P[n + 1]
    OBVIOUS
  <2>1. n + 1 \in 0 .. N /\ n + 1 # 0 /\ (n + 1) - 1 = n /\ n \in 0 .. N - 1 /\ n <= N
    OBVIOUS
  <2>2. after[n + 1] = Turn(after[n], lead)
    <3>1. after[n + 1] = IF n + 1 = 0 THEN o ELSE Turn(after[(n + 1) - 1], lead)
      BY <1>4, <2>1
    <3> QED BY <2>1, <3>1
  <2>3. after[n] \in P[n]
    BY <1>7, <2>1
  <2> QED BY <2>1, <2>2, <2>3
<1>8. N \in H
  <2> HIDE DEF H
  <2> QED BY <1>6, <1>7, Induction
<1> QED BY <1>5, <1>8

LEMMA PushInduction ==
    ASSUME NEW o, NEW times, NEW N \in Nat, N = Max({None} \cup times), NEW P,
           o \in P[0],
           \A n \in 0 .. N - 1 : \A x \in P[n] : Sampled(x, n + 1, times) \in P[n + 1]
    PROVE  Push_samples(o, times) \in P[N]
<1> DEFINE Is(f, n) == f = [t \in 0 .. n |-> IF t = 0 THEN o ELSE Sampled(f[t - 1], t, times)]
           T == {n \in Nat : \E f : Is(f, n)}
<1>1. 0 \in T
  <2>1. Is([k \in 0 .. 0 |-> o], 0)
    OBVIOUS
  <2> QED BY <2>1
<1>2. ASSUME NEW n \in Nat, n \in T PROVE n + 1 \in T
  <2>1. PICK f : Is(f, n)
    BY <1>2
  <2> DEFINE g == [k \in 0 .. n + 1 |-> IF k = n + 1 THEN Sampled(f[n], n + 1, times) ELSE f[k]]
  <2>2. ASSUME NEW k \in 0 .. n + 1 PROVE g[k] = IF k = 0 THEN o ELSE Sampled(g[k - 1], k, times)
    <3>1. CASE k = n + 1
      <4>1. k # 0 /\ k - 1 = n /\ n \in 0 .. n + 1 /\ n # n + 1
        BY <3>1
      <4> QED BY <3>1, <4>1
    <3>2. CASE k # n + 1
      <4>1. k \in 0 .. n
        BY <3>2
      <4>2. f[k] = IF k = 0 THEN o ELSE Sampled(f[k - 1], k, times)
        BY <2>1, <4>1
      <4>3. k # 0 => k - 1 \in 0 .. n + 1 /\ k - 1 # n + 1
        BY <4>1
      <4> QED BY <3>2, <4>2, <4>3
    <3> QED BY <3>1, <3>2
  <2>3. g = [k \in 0 .. n + 1 |-> IF k = 0 THEN o ELSE Sampled(g[k - 1], k, times)]
    <3>1. g = [k \in 0 .. n + 1 |-> g[k]]
      OBVIOUS
    <3> HIDE DEF g
    <3> QED BY <2>2, <3>1
  <2> HIDE DEF g
  <2> QED BY <2>3
<1>3. N \in T
  <2> HIDE DEF T
  <2> QED BY <1>1, <1>2, Induction
<1> DEFINE after == CHOOSE f : Is(f, N)
<1>4. Is(after, N)
  BY <1>3
<1>5. Push_samples(o, times) = after[N]
  BY DEF Push_samples
<1> HIDE DEF after
<1> DEFINE H == {n \in Nat : n <= N => after[n] \in P[n]}
<1>6. 0 \in H
  <2>1. after[0] = o
    BY <1>4
  <2> QED BY <2>1
<1>7. ASSUME NEW n \in Nat, n \in H PROVE n + 1 \in H
  <2> SUFFICES ASSUME n + 1 <= N PROVE after[n + 1] \in P[n + 1]
    OBVIOUS
  <2>1. n + 1 \in 0 .. N /\ n + 1 # 0 /\ (n + 1) - 1 = n /\ n \in 0 .. N - 1 /\ n <= N
    OBVIOUS
  <2>2. after[n + 1] = Sampled(after[n], n + 1, times)
    <3>1. after[n + 1] = IF n + 1 = 0 THEN o ELSE Sampled(after[(n + 1) - 1], n + 1, times)
      BY <1>4, <2>1
    <3> QED BY <2>1, <3>1
  <2>3. after[n] \in P[n]
    BY <1>7, <2>1
  <2> QED BY <2>1, <2>2, <2>3
<1>8. N \in H
  <2> HIDE DEF H
  <2> QED BY <1>6, <1>7, Induction
<1> QED BY <1>5, <1>8

-----------------------------------------------------------------------------
(* The samples in order.                                                    *)

LEMMA OrderedAppend ==
    ASSUME NEW s \in Seq(Nat), NEW T \in SUBSET Nat, InOrder(s, T), NEW t \in Nat, \A x \in T : x < t
    PROVE  InOrder(Append(s, t), T \cup {t})
<1>1. Rising(s) /\ ToSet(s) = T
  BY DEF InOrder, Rising
<1>2. \A i \in DOMAIN s : s[i] < t
  BY <1>1 DEF ToSet
<1>3. Rising(Append(s, t)) /\ ToSet(Append(s, t)) = ToSet(s) \cup {t}
  BY <1>1, <1>2, RisingAppend
<1> QED BY <1>1, <1>3 DEF InOrder, Rising

LEMMA OrderedRest ==
    ASSUME NEW s \in Seq(Nat), NEW T \in SUBSET Nat, InOrder(s, T), NEW k \in 1 .. Len(s)
    PROVE  InOrder(SubSeq(s, k, Len(s)), {t \in T : t >= s[k]})
<1> DEFINE r == SubSeq(s, k, Len(s))
           n == Len(s)
<1>1. Rising(s) /\ ToSet(s) = T
  BY DEF InOrder, Rising
<1>2. n \in Nat /\ DOMAIN s = 1 .. n /\ \A i \in 1 .. n : s[i] \in Nat
  BY LenProperties
<1>3. k \in 1 .. n + 1
  BY <1>2
<1>4. Rising(r) /\ DOMAIN r = 1 .. n - k + 1 /\ \A i \in DOMAIN r : k + i - 1 \in DOMAIN s /\ r[i] = s[k + i - 1]
  BY <1>1, <1>3, RisingRest
<1> HIDE DEF n, r
<1>5. ASSUME NEW x \in ToSet(r) PROVE x \in T /\ x >= s[k]
  <2>1. PICK i \in DOMAIN r : x = r[i]
    BY DEF ToSet
  <2>2. k + i - 1 \in 1 .. n /\ x = s[k + i - 1] /\ k \in 1 .. n /\ (k = k + i - 1 \/ k < k + i - 1)
    BY <1>2, <1>4, <2>1 DEF n
  <2>3. x \in T
    BY <1>1, <1>2, <2>2 DEF ToSet
  <2>4. s[k] <= s[k + i - 1]
    BY <1>1, <1>2, <2>2 DEF Rising
  <2> QED BY <1>2, <2>2, <2>3, <2>4
<1>6. ASSUME NEW x \in T, x >= s[k] PROVE x \in ToSet(r)
  <2>1. PICK i \in 1 .. n : s[i] = x
    BY <1>1, <1>2 DEF ToSet
  <2>2. ~(i < k)
    BY <1>1, <1>2, <1>6, <2>1 DEF Rising, n
  <2>3. i - k + 1 \in 1 .. n - k + 1 /\ k + (i - k + 1) - 1 = i
    BY <1>2, <2>2 DEF n
  <2>4. r[i - k + 1] = x
    BY <1>4, <2>1, <2>3
  <2> QED BY <1>4, <2>3, <2>4 DEF ToSet
<1>7. ToSet(r) = {t \in T : t >= s[k]}
  BY <1>5, <1>6
<1> QED BY <1>4, <1>7 DEF InOrder, Rising, r, n

\* What is cut from the samples that wait and put behind those sent leaves their order.
LEMMA Handover ==
    ASSUME NEW s \in Seq(Nat), NEW q \in Seq(Nat), NEW k \in 0 .. Len(q)
    PROVE  /\ SubSeq(q, 1, k) \in Seq(Nat) /\ s \o SubSeq(q, 1, k) \in Seq(Nat)
           /\ (s \o SubSeq(q, 1, k)) \o SubSeq(q, k + 1, Len(q)) = s \o q
<1>1. Len(q) \in Nat /\ \A i \in 1 .. Len(q) : q[i] \in Nat
  BY LenProperties
<1>2. \A i \in 1 .. k : q[i] \in Nat
  BY <1>1
<1>3. \A i \in k + 1 .. Len(q) : q[i] \in Nat
  BY <1>1
<1>4. SubSeq(q, 1, k) \in Seq(Nat)
  BY <1>1, <1>2, SubSeqProperties
<1>5. SubSeq(q, k + 1, Len(q)) \in Seq(Nat)
  BY <1>1, <1>3, SubSeqProperties
<1>6. SubSeq(q, 1, k) \o SubSeq(q, k + 1, Len(q)) = SubSeq(q, 1, Len(q))
  <2>1. 1 \in 1 .. Len(q) + 1 /\ k \in 1 - 1 .. Len(q) /\ Len(q) \in k .. Len(q)
    BY <1>1
  <2> QED BY <2>1, ConcatAdjacentSubSeq
<1>7. SubSeq(q, 1, Len(q)) = q
  BY SubSeqFull
<1>8. s \o SubSeq(q, 1, k) \in Seq(Nat)
  BY <1>4, ConcatProperties
<1>9. (s \o SubSeq(q, 1, k)) \o SubSeq(q, k + 1, Len(q)) = s \o (SubSeq(q, 1, k) \o SubSeq(q, k + 1, Len(q)))
  <2> DEFINE a == SubSeq(q, 1, k)
             b == SubSeq(q, k + 1, Len(q))
  <2>1. a \in Seq(Nat) /\ b \in Seq(Nat)
    BY <1>4, <1>5
  <2> HIDE DEF a, b
  <2>2. (s \o a) \o b = s \o (a \o b)
    BY <2>1, ConcatAssociative
  <2> QED BY <2>2 DEF a, b
<1>10. SubSeq(q, 1, k) \o SubSeq(q, k + 1, Len(q)) = q
  BY <1>6, <1>7, Zenon
<1>11. (s \o SubSeq(q, 1, k)) \o SubSeq(q, k + 1, Len(q)) = s \o q
  BY <1>9, <1>10, Zenon
<1> QED BY <1>4, <1>8, <1>11, Zenon

-----------------------------------------------------------------------------
(* OrbSlam3LiveProcess: what each operation does to its fields.             *)

\* What a packet of frame and the samples ms makes of q.
Enqueued(q, frame, ms, r) ==
    /\ r \in Orbs /\ r.imu = q.imu /\ r.pending = q.pending /\ r.lastImu = q.lastImu
    /\ r.stop = q.stop /\ r.received = q.received
    /\ \/ /\ r.failure /\ r.raised /\ r.queue = q.queue /\ r.lastSent = q.lastSent
          /\ r.accepted = q.accepted /\ r.sent = q.sent
       \/ /\ r.failure = q.failure /\ r.raised = q.raised
          /\ r.queue = Append(q.queue, [kind |-> "frame", frame |-> frame, imu |-> ms])
          /\ r.lastSent = frame /\ r.accepted = q.accepted \cup {frame} /\ r.sent = q.sent \o ms

LEMMA EnqueueFields ==
    ASSUME NEW q \in Orbs, NEW frame \in Nat, NEW ms \in Seq(Nat)
    PROVE  Enqueued(q, frame, ms, Enqueue(q, frame, ms))
<1> SUFFICES ASSUME NEW r, r = Enqueue(q, frame, ms) PROVE Enqueued(q, frame, ms, r)
  OBVIOUS
<1>1. [kind |-> "frame", frame |-> frame, imu |-> ms] \in Packets
  BY DEF Packets
<1>2. q.queue \in Seq(Packets) /\ q.sent \in Seq(Nat)
  BY DEF Orbs
<1>3. Append(q.queue, [kind |-> "frame", frame |-> frame, imu |-> ms]) \in Seq(Packets)
  BY <1>1, <1>2, AppendProperties
<1>4. q.sent \o ms \in Seq(Nat)
  BY <1>2, ConcatProperties
<1>5. CASE Len(q.queue) = QueueDepth
  <2>1. r = [q EXCEPT !.failure = TRUE, !.raised = TRUE]
    BY <1>5 DEF Enqueue, Set_failure
  <2> QED BY <2>1 DEF Orbs, Enqueued
<1>6. CASE Len(q.queue) # QueueDepth
  <2> DEFINE queue == Append(q.queue, [kind |-> "frame", frame |-> frame, imu |-> ms])
             sent  == q.sent \o ms
             accepted == q.accepted \cup {frame}
  <2>1. r = [q EXCEPT !.queue = queue, !.lastSent = frame, !.accepted = accepted, !.sent = sent]
    BY <1>6 DEF Enqueue
  <2>2. queue \in Seq(Packets) /\ sent \in Seq(Nat) /\ accepted \in SUBSET Nat
    BY <1>3, <1>4 DEF Orbs
  <2> HIDE DEF queue, sent, accepted
  <2>3. /\ r \in Orbs /\ r.imu = q.imu /\ r.pending = q.pending /\ r.lastImu = q.lastImu
        /\ r.stop = q.stop /\ r.received = q.received /\ r.failure = q.failure /\ r.raised = q.raised
        /\ r.queue = queue /\ r.lastSent = frame /\ r.accepted = accepted /\ r.sent = sent
    BY <2>1, <2>2 DEF Orbs
  <2> QED BY <2>3 DEF queue, sent, accepted, Enqueued
<1> QED BY <1>5, <1>6

\* The places of the packet behind a queue.
LEMMA QueueAppend ==
    ASSUME NEW q \in Seq(Packets), NEW p \in Packets
    PROVE  /\ Append(q, p) \in Seq(Packets) /\ Len(q) \in Nat
           /\ DOMAIN q = 1 .. Len(q) /\ DOMAIN Append(q, p) = 1 .. Len(q) + 1
           /\ \A i \in 1 .. Len(q) : Append(q, p)[i] = q[i]
           /\ Append(q, p)[Len(q) + 1] = p
           /\ ToSet(Append(q, p)) = ToSet(q) \cup {p}
<1>1. Append(q, p) \in Seq(Packets) /\ Len(Append(q, p)) = Len(q) + 1
  BY AppendProperties
<1>2. \A i \in 1 .. Len(q) : Append(q, p)[i] = q[i]
  BY AppendProperties
<1>3. Append(q, p)[Len(q) + 1] = p
  BY AppendProperties
<1>4. Len(q) \in Nat /\ DOMAIN q = 1 .. Len(q) /\ DOMAIN Append(q, p) = 1 .. Len(q) + 1
  BY <1>1, LenProperties
<1>5. ToSet(Append(q, p)) = ToSet(q) \cup {p}
  BY <1>2, <1>3, <1>4 DEF ToSet
<1> QED BY <1>1, <1>2, <1>3, <1>4, <1>5

\* What a turn makes of o: k samples are not later than the image, and those from
\* the j-th on wait for the next.
Released(o, r, k, j, ms) ==
    /\ r \in Orbs /\ r.pending = Tail(o.pending) /\ r.lastImu = o.lastImu
    /\ r.stop = o.stop /\ r.received = o.received
    /\ k \in 0 .. Len(o.imu) /\ \A i \in DOMAIN o.imu : i <= k <=> o.imu[i] <= Head(o.pending)
    /\ j \in 1 .. Len(o.imu) + 1 /\ r.imu = SubSeq(o.imu, j, Len(o.imu))
    /\ ms \in Seq(Nat)
    /\ o.lastSent = None => j >= k /\ (j = 1 \/ j = k) /\ ms = <<>>
    /\ \/ /\ r.imu = o.imu /\ o.lastSent # None
          /\ r.failure = o.failure /\ r.raised = o.raised /\ r.queue = o.queue
          /\ r.lastSent = o.lastSent /\ r.accepted = o.accepted /\ r.sent = o.sent
       \/ /\ r.failure /\ r.raised /\ r.queue = o.queue
          /\ r.lastSent = o.lastSent /\ r.accepted = o.accepted /\ r.sent = o.sent
       \/ /\ r.failure = o.failure /\ r.raised = o.raised
          /\ r.queue = Append(o.queue, [kind |-> "frame", frame |-> Head(o.pending), imu |-> ms])
          /\ r.lastSent = Head(o.pending) /\ r.accepted = o.accepted \cup {Head(o.pending)}
          /\ r.sent = o.sent \o ms
          /\ o.lastSent # None => j = k + 1 /\ ms = SubSeq(o.imu, 1, k)

LEMMA ReleaseFields ==
    ASSUME NEW o \in Orbs, Rising(o.imu), o.pending # <<>>
    PROVE  \E k, j, ms : Released(o, Release(o), k, j, ms)
<1> DEFINE r == Release(o)
<1> DEFINE frame == Head(o.pending)
           q == o.imu
           n == Len(q)
           tail == Tail(o.pending)
<1>1. q \in Seq(Nat) /\ o.pending \in Seq(Nat) /\ n \in Nat /\ DOMAIN q = 1 .. n
  <2>1. q \in Seq(Nat) /\ o.pending \in Seq(Nat)
    BY DEF Orbs
  <2> QED BY <2>1, LenProperties
<1>2. frame \in Nat /\ tail \in Seq(Nat)
  BY <1>1, HeadTailProperties
<1>3. PICK k \in 0 .. n : /\ k = Cardinality({t \in ToSet(q) : t <= frame})
                         /\ \A i \in DOMAIN q : i <= k <=> q[i] <= frame
  BY <1>1, <1>2, RisingPrefix
<1>4. \A j \in 1 .. n + 1 : SubSeq(q, j, n) \in Seq(Nat)
  BY <1>1, RisingRest
<1>5. /\ SubSeq(q, 1, k) \in Seq(Nat) /\ <<>> \in Seq(Nat)
      /\ SubSeq(q, 1, n) = q
  BY <1>1, Handover, SubSeqFull, EmptySeq
<1>5a. r = Release(o)
  OBVIOUS
<1> HIDE DEF frame, q, n, tail, r
<1>6. CASE o.lastSent = None
  <2> DEFINE m == Max({1, k})
             s == SubSeq(q, m, n)
             p == [[o EXCEPT !.pending = tail] EXCEPT !.imu = s]
  <2>1. m \in {1, k} /\ m >= 1 /\ m >= k
    <3>1. {1, k} \in SUBSET Nat /\ {1, k} # {} /\ k + 1 \in Nat /\ \A x \in {1, k} : x <= k + 1
      BY <1>1
    <3>2. Max({1, k}) \in {1, k} /\ \A x \in {1, k} : x <= Max({1, k})
      BY <3>1, MaxMember
    <3> QED BY <1>1, <3>2
  <2>3. r = Enqueue(p, frame, <<>>)
    BY <1>3, <1>5a, <1>6 DEF Release, frame, q, n, tail
  <2> HIDE DEF m
  <2>2. m \in 1 .. n + 1
    BY <1>1, <2>1
  <2>2a. s \in Seq(Nat)
    BY <1>4, <2>2
  <2> HIDE DEF s
  <2>4. /\ p \in Orbs /\ p.pending = tail /\ p.imu = s /\ p.lastImu = o.lastImu /\ p.stop = o.stop
        /\ p.received = o.received /\ p.failure = o.failure /\ p.raised = o.raised /\ p.queue = o.queue
        /\ p.lastSent = o.lastSent /\ p.accepted = o.accepted /\ p.sent = o.sent
    BY <1>2, <2>2a DEF Orbs
  <2> HIDE DEF p
  <2>4a. p \in Orbs
    BY <2>4
  <2>5. Enqueued(p, frame, <<>>, r)
    <3>1. Enqueued(p, frame, <<>>, Enqueue(p, frame, <<>>))
      BY <1>2, <1>5, <2>4a, EnqueueFields
    <3> QED BY <3>1, <2>3
  <2>6. \/ /\ r.failure /\ r.raised /\ r.queue = o.queue
           /\ r.lastSent = o.lastSent /\ r.accepted = o.accepted /\ r.sent = o.sent
        \/ /\ r.failure = o.failure /\ r.raised = o.raised
           /\ r.queue = Append(o.queue, [kind |-> "frame", frame |-> frame, imu |-> <<>>])
           /\ r.lastSent = frame /\ r.accepted = o.accepted \cup {frame} /\ r.sent = o.sent \o <<>>
    BY <2>4, <2>5, Zenon DEF Enqueued
  <2>7. r.imu = SubSeq(q, m, n) /\ (m = 1 \/ m = k)
    BY <2>1, <2>4, <2>5, Zenon DEF s, Enqueued
  <2>8. r \in Orbs /\ r.pending = tail /\ r.lastImu = o.lastImu /\ r.stop = o.stop /\ r.received = o.received
    BY <2>4, <2>5, Zenon DEF Enqueued
  <2> QED BY <1>3, <1>5, <1>6, <2>1, <2>2, <2>6, <2>7, <2>8 DEF frame, q, n, tail, r, Released
<1>7. CASE o.lastSent # None /\ k < MinImu
  <2>1. r = [o EXCEPT !.pending = tail]
    BY <1>3, <1>5a, <1>7 DEF Release, frame, q, n, tail
  <2>2. /\ r \in Orbs /\ r.pending = tail /\ r.imu = q /\ r.lastImu = o.lastImu /\ r.stop = o.stop
        /\ r.received = o.received /\ r.failure = o.failure /\ r.raised = o.raised /\ r.queue = o.queue
        /\ r.lastSent = o.lastSent /\ r.accepted = o.accepted /\ r.sent = o.sent
    BY <1>2, <2>1 DEF Orbs, q
  <2>3. 1 \in 1 .. n + 1 /\ r.imu = SubSeq(q, 1, n)
    BY <1>1, <1>5, <2>2
  <2> QED BY <1>3, <1>5, <1>7, <2>2, <2>3 DEF frame, q, n, tail, r, Released
<1>8. CASE o.lastSent # None /\ ~(k < MinImu)
  <2> DEFINE s == SubSeq(q, k + 1, n)
             ms == SubSeq(q, 1, k)
             p == [[o EXCEPT !.pending = tail] EXCEPT !.imu = s]
  <2>1. r = Enqueue(p, frame, ms)
    BY <1>3, <1>5a, <1>8 DEF Release, frame, q, n, tail
  <2>2. k + 1 \in 1 .. n + 1
    BY <1>1
  <2>3. s \in Seq(Nat) /\ ms \in Seq(Nat)
    BY <1>4, <1>5, <2>2
  <2> HIDE DEF s, ms
  <2>4. /\ p \in Orbs /\ p.pending = tail /\ p.imu = s /\ p.lastImu = o.lastImu /\ p.stop = o.stop
        /\ p.received = o.received /\ p.failure = o.failure /\ p.raised = o.raised /\ p.queue = o.queue
        /\ p.lastSent = o.lastSent /\ p.accepted = o.accepted /\ p.sent = o.sent
    BY <1>2, <2>3 DEF Orbs
  <2> HIDE DEF p
  <2>4a. p \in Orbs
    BY <2>4
  <2>5. Enqueued(p, frame, ms, r)
    <3>1. Enqueued(p, frame, ms, Enqueue(p, frame, ms))
      BY <1>2, <2>3, <2>4a, EnqueueFields
    <3> QED BY <3>1, <2>1
  <2>6. \/ /\ r.failure /\ r.raised /\ r.queue = o.queue
           /\ r.lastSent = o.lastSent /\ r.accepted = o.accepted /\ r.sent = o.sent
        \/ /\ r.failure = o.failure /\ r.raised = o.raised
           /\ r.queue = Append(o.queue, [kind |-> "frame", frame |-> frame, imu |-> ms])
           /\ r.lastSent = frame /\ r.accepted = o.accepted \cup {frame} /\ r.sent = o.sent \o ms
    BY <2>4, <2>5, Zenon DEF Enqueued
  <2>7. r.imu = SubSeq(q, k + 1, n)
    BY <2>4, <2>5, Zenon DEF s, Enqueued
  <2>8. r \in Orbs /\ r.pending = tail /\ r.lastImu = o.lastImu /\ r.stop = o.stop /\ r.received = o.received
    BY <2>4, <2>5, Zenon DEF Enqueued
  <2> QED BY <1>3, <1>8, <2>2, <2>3, <2>6, <2>7, <2>8 DEF frame, q, n, tail, ms, r, Released
<1> QED BY <1>6, <1>7, <1>8

-----------------------------------------------------------------------------
(* OrbSlam3LiveProcess: its operations keep its invariant.                  *)

\* What every operation leaves: nothing is taken back, and no image is made up.
Follows(o, r, new) ==
    /\ r.stop = o.stop /\ (o.failure => r.failure) /\ o.accepted \subseteq r.accepted
    /\ r.accepted \cup ToSet(r.pending) \subseteq o.accepted \cup ToSet(o.pending) \cup new
    /\ \A p \in ToSet(r.queue) : p \in ToSet(o.queue) \/ IsFrame(p)

LEMMA FollowsFollows ==
    ASSUME NEW o, NEW q, NEW r, NEW new, Follows(o, q, new), Follows(q, r, new)
    PROVE  Follows(o, r, new)
BY DEF Follows

LEMMA FollowsSelf ==
    ASSUME NEW o, NEW new
    PROVE  Follows(o, o, new)
BY DEF Follows

\* The first k samples are those not later than the image.
Splits(q, k, frame) == \A i \in DOMAIN q : i <= k <=> q[i] <= frame

\* The first image, with what of the samples is kept behind it.
LEMMA ReleaseKeepsFirst ==
    ASSUME NEW q \in Seq(Nat), NEW T \in SUBSET Nat, InOrder(q, T), NEW frame \in Nat,
           NEW k \in 0 .. Len(q), Splits(q, k, frame),
           NEW j \in 1 .. Len(q) + 1, j >= k, j = 1 \/ j = k
    PROVE  \E b \in Nat : /\ IsBoundary(b, frame, T)
                         /\ InOrder(SubSeq(q, j, Len(q)), From(T, b))
<1> DEFINE n == Len(q)
<1>1. n \in Nat /\ DOMAIN q = 1 .. n /\ \A i \in 1 .. n : q[i] \in Nat
  BY LenProperties
<1>2. \A t \in T : \E i \in 1 .. n : q[i] = t
  BY <1>1 DEF InOrder, ToSet
<1>2a. \A i \in 1 .. n : q[i] \in T
  BY <1>1 DEF InOrder, ToSet
<1>3. SubSeq(q, 1, n) = q
  BY SubSeqFull
<1> HIDE DEF n
<1>4. CASE k = 0
  <2>1. j = 1
    BY <1>4
  <2>2. \A t \in T : ~(t <= frame)
    BY <1>1, <1>2, <1>4 DEF Splits
  <2>3. From(T, 0) = T
    <3>1. \A t \in T : t \in Nat /\ t >= 0
      OBVIOUS
    <3> QED BY <3>1 DEF From
  <2>4. IsBoundary(0, frame, T)
    BY <2>2 DEF IsBoundary
  <2>5. SubSeq(q, j, Len(q)) = q
    BY <1>3, <2>1 DEF n
  <2>6. InOrder(SubSeq(q, j, Len(q)), From(T, 0))
    BY <2>3, <2>5, Zenon
  <2> QED BY <2>4, <2>6
<1>5. CASE k # 0
  <2>1. k \in 1 .. n /\ j = k
    BY <1>1, <1>5 DEF n
  <2>2. q[k] \in Nat /\ q[k] <= frame /\ q[k] \in T
    BY <1>1, <1>2a, <2>1 DEF Splits
  <2>3. ASSUME NEW t \in T, t <= frame PROVE t <= q[k]
    <3>1. PICK i \in 1 .. n : q[i] = t
      BY <1>2
    <3>2. i <= k
      BY <1>1, <2>3, <3>1 DEF Splits
    <3>3. i < k => q[i] < q[k]
      BY <1>1, <2>1, <3>1 DEF InOrder
    <3> QED BY <1>1, <2>1, <2>2, <3>1, <3>2, <3>3
  <2>4. InOrder(SubSeq(q, k, Len(q)), From(T, q[k]))
    BY <2>1, OrderedRest DEF n, From
  <2>5. IsBoundary(q[k], frame, T)
    BY <2>2, <2>3 DEF IsBoundary
  <2> QED BY <2>1, <2>2, <2>4, <2>5
<1> QED BY <1>4, <1>5

LEMMA PacketKind == ~IsFrame(Shutdown)
BY DEF IsFrame, Shutdown

LEMMA ReleaseOk ==
    ASSUME NEW low \in Nat, NEW o, OrbOk(o, low), o.pending # <<>>, Head(o.pending) <= o.lastImu, NEW new
    PROVE  /\ OrbOk(Release(o), low) /\ Follows(o, Release(o), new)
           /\ Release(o).pending = Tail(o.pending) /\ Release(o).lastImu = o.lastImu
           /\ Release(o).raised => o.raised \/ Release(o).accepted = o.accepted
<1> DEFINE r == Release(o)
           frame == Head(o.pending)
<1>1. /\ o \in Orbs /\ IsFiniteSet(o.accepted) /\ (o.raised => o.failure)
      /\ SamplesRise(o) /\ ImagesRise(o) /\ QueueRises(o, low)
      /\ (~o.failure => Kept(o))
  BY DEF OrbOk
<1>2. /\ o.imu \in Seq(Nat) /\ o.pending \in Seq(Nat) /\ o.queue \in Seq(Packets) /\ o.sent \in Seq(Nat)
      /\ o.lastSent \in Nat /\ o.lastImu \in Nat /\ o.received \in SUBSET Nat /\ o.accepted \in SUBSET Nat
  BY <1>1 DEF Orbs
<1>3. Rising(o.imu) /\ Rising(o.pending)
  BY <1>1 DEF SamplesRise, ImagesRise
<1>4. PICK k, j, ms : Released(o, r, k, j, ms)
  BY <1>1, <1>3, ReleaseFields
<1>5. /\ frame = o.pending[1] /\ frame \in Nat /\ Tail(o.pending) \in Seq(Nat) /\ Rising(Tail(o.pending))
      /\ 1 \in DOMAIN o.pending
      /\ \A i \in DOMAIN Tail(o.pending) :
            i + 1 \in DOMAIN o.pending /\ Tail(o.pending)[i] = o.pending[i + 1] /\ frame < Tail(o.pending)[i]
  <2>1. Len(o.pending) \in Nat \ {0} /\ DOMAIN o.pending = 1 .. Len(o.pending)
    BY <1>2, EmptySeq, LenProperties
  <2>2. 1 \in DOMAIN o.pending
    BY <2>1
  <2> QED BY <1>2, <1>3, <2>2, RisingTail
<1>6. /\ r \in Orbs /\ r.pending = Tail(o.pending) /\ r.lastImu = o.lastImu
      /\ r.stop = o.stop /\ r.received = o.received
  BY <1>4 DEF Released
<1>7. o.lastSent < frame /\ frame <= o.lastImu /\ \A f \in o.accepted : f <= o.lastSent
  BY <1>1, <1>5 DEF ImagesRise
<1> DEFINE packet == [kind |-> "frame", frame |-> frame, imu |-> ms]
<1>8. \/ /\ r.imu = o.imu /\ o.lastSent # None
         /\ r.failure = o.failure /\ r.raised = o.raised /\ r.queue = o.queue
         /\ r.lastSent = o.lastSent /\ r.accepted = o.accepted /\ r.sent = o.sent
      \/ /\ r.failure /\ r.raised /\ r.queue = o.queue
         /\ r.lastSent = o.lastSent /\ r.accepted = o.accepted /\ r.sent = o.sent
      \/ /\ r.failure = o.failure /\ r.raised = o.raised
         /\ r.queue = Append(o.queue, packet)
         /\ r.lastSent = frame /\ r.accepted = o.accepted \cup {frame}
         /\ r.sent = o.sent \o ms
         /\ o.lastSent # None => j = k + 1 /\ ms = SubSeq(o.imu, 1, k)
  BY <1>4, Zenon DEF Released
<1>9. packet \in Packets /\ IsFrame(packet) /\ packet.frame = frame /\ ms \in Seq(Nat)
  BY <1>4, <1>5 DEF Released, Packets, IsFrame
<1> HIDE DEF r, frame, packet
<1>10. SamplesRise(r)
  <2>1. j \in 1 .. Len(o.imu) + 1 /\ r.imu = SubSeq(o.imu, j, Len(o.imu))
    BY <1>4 DEF Released
  <2>2. Rising(r.imu) /\ \A i \in DOMAIN r.imu : \E m \in DOMAIN o.imu : r.imu[i] = o.imu[m]
    <3> DEFINE q == o.imu
               s == SubSeq(q, j, Len(q))
    <3>1. q \in Seq(Nat) /\ Rising(q) /\ j \in 1 .. Len(q) + 1 /\ r.imu = s
      BY <1>2, <1>3, <2>1
    <3> HIDE DEF q
    <3>2. Rising(s) /\ \A i \in DOMAIN s : j + i - 1 \in DOMAIN q /\ s[i] = q[j + i - 1]
      BY <3>1, RisingRest
    <3> HIDE DEF s
    <3> QED BY <3>1, <3>2 DEF q
  <2> QED BY <1>1, <1>6, <2>2 DEF SamplesRise
<1>11. ImagesRise(r)
  <2>1. \/ r.lastSent = o.lastSent /\ r.accepted = o.accepted
        \/ r.lastSent = frame /\ r.accepted = o.accepted \cup {frame}
    BY <1>8
  <2>2. \A i \in DOMAIN r.pending : o.lastSent < r.pending[i] /\ frame < r.pending[i]
    BY <1>1, <1>5, <1>6 DEF ImagesRise
  <2>3. \A f \in r.accepted : 0 < f /\ f <= r.lastSent /\ f <= r.lastImu
    <3>1. \A f \in o.accepted : 0 < f /\ f <= o.lastSent /\ f <= o.lastImu /\ f \in Nat
      BY <1>1, <1>2 DEF ImagesRise
    <3>2. CASE r.lastSent = o.lastSent /\ r.accepted = o.accepted
      BY <1>6, <3>1, <3>2
    <3>3. CASE r.lastSent = frame /\ r.accepted = o.accepted \cup {frame}
      BY <1>2, <1>5, <1>6, <1>7, <3>1, <3>3
    <3> QED BY <2>1, <3>2, <3>3
  <2>4. r.lastSent \in r.accepted \cup {None}
    BY <1>1, <2>1 DEF ImagesRise
  <2> QED BY <1>5, <1>6, <2>1, <2>2, <2>3, <2>4 DEF ImagesRise
<1>12. QueueRises(r, low)
  <2>1. CASE r.queue = o.queue /\ r.lastSent = o.lastSent /\ r.accepted = o.accepted
    BY <1>1, <2>1 DEF QueueRises
  <2>2. CASE r.queue = Append(o.queue, packet) /\ r.lastSent = frame /\ r.accepted = o.accepted \cup {frame}
    <3> DEFINE n == Len(o.queue)
    <3>1. /\ n \in Nat /\ DOMAIN o.queue = 1 .. n /\ DOMAIN r.queue = 1 .. n + 1
          /\ \A i \in 1 .. n : r.queue[i] = o.queue[i]
          /\ r.queue[n + 1] = packet
      BY <1>2, <1>9, <2>2, QueueAppend
    <3> HIDE DEF n
    <3>2. low <= o.lastSent
      BY <1>1 DEF QueueRises
    <3>3. \A i \in 1 .. n : IsFrame(o.queue[i]) => o.queue[i].frame \in o.accepted /\ low < o.queue[i].frame
      BY <1>1, <3>1 DEF QueueRises
    <3>4. \A i \in 1 .. n + 1 : i \in 1 .. n \/ i = n + 1
      BY <3>1
    <3>5. \A i \in DOMAIN r.queue : IsFrame(r.queue[i]) => r.queue[i].frame \in r.accepted /\ low < r.queue[i].frame
      BY <1>2, <1>5, <1>7, <1>9, <2>2, <3>1, <3>2, <3>3, <3>4
    <3>6. ASSUME NEW a \in DOMAIN r.queue, NEW c \in DOMAIN r.queue, a < c, IsFrame(r.queue[a]), IsFrame(r.queue[c])
          PROVE  r.queue[a].frame < r.queue[c].frame
      <4>1. a \in 1 .. n
        BY <3>1, <3>4, <3>6
      <4>2. CASE c = n + 1
        <5>1. o.queue[a].frame \in o.accepted
          BY <3>1, <3>3, <3>6, <4>1
        <5>2. o.queue[a].frame < frame
          BY <1>2, <1>5, <1>7, <5>1
        <5>3. r.queue[a] = o.queue[a] /\ r.queue[c] = packet
          BY <3>1, <4>1, <4>2
        <5> QED BY <1>9, <5>2, <5>3, Zenon
      <4>3. CASE c \in 1 .. n
        BY <1>1, <3>1, <3>6, <4>1, <4>3 DEF QueueRises
      <4> QED BY <3>1, <3>4, <4>2, <4>3
    <3>7. low <= r.lastSent
      BY <1>2, <1>5, <1>7, <2>2, <3>2
    <3>8. OneShutdown(r.queue)
      <4>1. OneShutdown(o.queue)
        BY <1>1 DEF QueueRises
      <4>2. packet # Shutdown
        BY <1>9, PacketKind
      <4>3. \A i \in DOMAIN r.queue : r.queue[i] = Shutdown => i \in DOMAIN o.queue /\ o.queue[i] = Shutdown
        BY <3>1, <3>4, <4>2
      <4> QED BY <4>1, <4>3 DEF OneShutdown
    <3> QED BY <3>5, <3>6, <3>7, <3>8 DEF QueueRises
  <2> QED BY <1>8, <2>1, <2>2
<1>13. ASSUME ~r.failure PROVE Kept(r)
  <2>1. Kept(o)
    BY <1>1, <1>8, <1>13
  <2>2. CASE /\ r.imu = o.imu /\ o.lastSent # None /\ r.lastSent = o.lastSent /\ r.accepted = o.accepted
             /\ r.sent = o.sent
    BY <1>6, <2>1, <2>2 DEF Kept
  <2>3. CASE /\ r.lastSent = frame /\ r.accepted = o.accepted \cup {frame} /\ r.sent = o.sent \o ms
             /\ o.lastSent # None => j = k + 1 /\ ms = SubSeq(o.imu, 1, k)
    <3>1. r.lastSent # None
      BY <1>2, <1>5, <1>7, <2>3 DEF None
    <3>2. /\ k \in 0 .. Len(o.imu) /\ \A i \in DOMAIN o.imu : i <= k <=> o.imu[i] <= frame
          /\ j \in 1 .. Len(o.imu) + 1 /\ r.imu = SubSeq(o.imu, j, Len(o.imu))
          /\ o.lastSent = None => j >= k /\ (j = 1 \/ j = k) /\ ms = <<>>
      BY <1>4 DEF Released, frame
    <3>3. CASE o.lastSent = None
      <4>1. o.sent = <<>> /\ InOrder(o.imu, o.received)
        BY <2>1, <3>3 DEF Kept
      <4>2. o.accepted = {}
        BY <1>1, <1>2, <3>3 DEF ImagesRise, None
      <4>3. PICK b \in Nat : /\ IsBoundary(b, frame, o.received)
                             /\ InOrder(SubSeq(o.imu, j, Len(o.imu)), From(o.received, b))
        <5> DEFINE q == o.imu
                   T == o.received
        <5>1. /\ q \in Seq(Nat) /\ T \in SUBSET Nat /\ InOrder(q, T) /\ frame \in Nat /\ k \in 0 .. Len(q)
              /\ Splits(q, k, frame) /\ j \in 1 .. Len(q) + 1 /\ j >= k
              /\ (j = 1 \/ j = k)
          BY <1>2, <1>5, <3>2, <3>3, <4>1 DEF Splits
        <5> HIDE DEF q, T
        <5>2. \E b \in Nat : IsBoundary(b, frame, T) /\ InOrder(SubSeq(q, j, Len(q)), From(T, b))
          BY <5>1, ReleaseKeepsFirst
        <5> QED BY <5>2 DEF q, T
      <4>4. r.sent \o r.imu = r.imu
        <5>1. r.sent = <<>>
          BY <2>3, <3>2, <3>3, <4>1, EmptySeq, ConcatEmptySeq
        <5>2. r.imu \in Seq(Nat)
          BY <1>6 DEF Orbs
        <5> QED BY <5>1, <5>2, ConcatEmptySeq
      <4>5. InOrder(r.sent \o r.imu, From(r.received, b))
        BY <1>6, <3>2, <4>3, <4>4, Zenon
      <4>6. frame \in r.accepted /\ \A f \in r.accepted : frame <= f
        BY <1>5, <2>3, <4>2
      <4> QED BY <1>6, <3>1, <4>3, <4>5, <4>6 DEF Kept
    <3>4. CASE o.lastSent # None
      <4>1. PICK first \in o.accepted, b \in Nat :
               /\ \A f \in o.accepted : first <= f
               /\ IsBoundary(b, first, o.received)
               /\ InOrder(o.sent \o o.imu, From(o.received, b))
        BY <2>1, <3>4 DEF Kept
      <4>2. r.sent \o r.imu = o.sent \o o.imu
        <5>1. (o.sent \o SubSeq(o.imu, 1, k)) \o SubSeq(o.imu, k + 1, Len(o.imu)) = o.sent \o o.imu
          BY <1>2, <3>2, Handover
        <5> QED BY <2>3, <3>2, <3>4, <5>1
      <4>3. first \in r.accepted /\ \A f \in r.accepted : first <= f
        BY <1>2, <1>5, <1>7, <2>3, <4>1
      <4>4. InOrder(r.sent \o r.imu, From(r.received, b)) /\ IsBoundary(b, first, r.received)
        BY <1>6, <4>1, <4>2, Zenon
      <4> QED BY <3>1, <4>3, <4>4 DEF Kept
    <3> QED BY <3>3, <3>4
  <2> QED BY <1>8, <1>13, <2>2, <2>3
<1>14. IsFiniteSet(r.accepted) /\ (r.raised => r.failure)
  <2>1. IsFiniteSet(o.accepted \cup {frame})
    BY <1>1, FS_AddElement
  <2> QED BY <1>1, <1>8, <2>1
<1>15. Follows(o, r, new)
  <2>1. (o.failure => r.failure) /\ o.accepted \subseteq r.accepted /\ r.accepted \subseteq o.accepted \cup {frame}
    BY <1>8
  <2>2. frame \in ToSet(o.pending)
    BY <1>5 DEF ToSet
  <2>3. ToSet(r.pending) \subseteq ToSet(o.pending)
    BY <1>5, <1>6 DEF ToSet
  <2>4. \A p \in ToSet(r.queue) : p \in ToSet(o.queue) \/ IsFrame(p)
    <3>1. ToSet(Append(o.queue, packet)) = ToSet(o.queue) \cup {packet}
      BY <1>2, <1>9, QueueAppend
    <3> QED BY <1>8, <1>9, <3>1
  <2> QED BY <1>6, <2>1, <2>2, <2>3, <2>4 DEF Follows
<1>16. OrbOk(r, low)
  BY <1>6, <1>10, <1>11, <1>12, <1>13, <1>14 DEF OrbOk
<1>17. r.raised => o.raised \/ r.accepted = o.accepted
  BY <1>8
<1> QED BY <1>6, <1>15, <1>16, <1>17 DEF r

LEMMA Constants ==
    /\ Lead \in Nat /\ Stale \in Nat /\ PairTime \in Nat /\ HilTime \in Nat
    /\ Spacing \in Nat \ {0} /\ QueueDepth \in Nat \ {0} /\ Programs \subseteq {"pair", "hil"}
BY LiveAssumption

\* What only raises, fails or stops leaves the samples, the images and the queue.
LEMMA FlagsOk ==
    ASSUME NEW low, NEW o, OrbOk(o, low), NEW r \in Orbs,
           r.imu = o.imu, r.pending = o.pending, r.lastImu = o.lastImu, r.lastSent = o.lastSent,
           r.queue = o.queue, r.received = o.received, r.accepted = o.accepted, r.sent = o.sent,
           o.failure => r.failure, r.raised => r.failure
    PROVE  OrbOk(r, low)
<1>1. /\ IsFiniteSet(o.accepted) /\ SamplesRise(o) /\ ImagesRise(o) /\ QueueRises(o, low)
      /\ (~o.failure => Kept(o))
  BY DEF OrbOk
<1>2. SamplesRise(r) /\ ImagesRise(r) /\ QueueRises(r, low)
  BY <1>1, Zenon DEF SamplesRise, ImagesRise, QueueRises
<1>3. Kept(o) => Kept(r)
  BY Zenon DEF Kept
<1> QED BY <1>1, <1>2, <1>3 DEF OrbOk

LEMMA TurnOk ==
    ASSUME NEW low \in Nat, NEW o, OrbOk(o, low), NEW lead \in Nat, NEW new
    PROVE  /\ OrbOk(Turn(o, lead), low) /\ Follows(o, Turn(o, lead), new) /\ Turn(o, lead).lastImu = o.lastImu
           /\ \/ Turn(o, lead) = o /\ (o.raised \/ ~Ready(o, lead))
              \/ o.pending # <<>> /\ Turn(o, lead).pending = Tail(o.pending)
           /\ Turn(o, lead).raised => o.raised \/ Turn(o, lead).accepted = o.accepted
<1>1. CASE o.raised \/ ~Ready(o, lead)
  BY <1>1, FollowsSelf DEF Turn
<1>2. CASE ~(o.raised \/ ~Ready(o, lead))
  <2>1. Turn(o, lead) = Release(o) /\ Ready(o, lead)
    BY <1>2 DEF Turn
  <2>2. o.pending \in Seq(Nat) /\ o.lastImu \in Nat
    BY DEF OrbOk, Orbs
  <2>3. o.pending # <<>> /\ Head(o.pending) + lead <= o.lastImu
    BY <2>1 DEF Ready
  <2>4. Head(o.pending) \in Nat
    BY <2>2, <2>3, HeadTailProperties
  <2>5. Head(o.pending) <= o.lastImu
    BY <2>2, <2>3, <2>4
  <2> QED BY <2>1, <2>3, <2>5, ReleaseOk
<1> QED BY <1>1, <1>2

\* Drain ends with an image that is not old enough, without one, or with a failure.
LEMMA DrainOk ==
    ASSUME NEW low \in Nat, NEW o, OrbOk(o, low), NEW lead \in Nat, NEW new
    PROVE  /\ OrbOk(Drain(o, lead), low) /\ Follows(o, Drain(o, lead), new)
           /\ Drain(o, lead).lastImu = o.lastImu
           /\ Drain(o, lead).raised \/ ~Ready(Drain(o, lead), lead)
<1> DEFINE N == Len(o.pending)
           Done(x) == OrbOk(x, low) /\ Follows(o, x, new) /\ x.lastImu = o.lastImu
           More(x, n) == x.raised \/ ~Ready(x, lead) \/ Len(x.pending) + n <= N
           P == [n \in Nat |-> {x \in Orbs : Done(x) /\ More(x, n)}]
<1>1. N \in Nat
  <2>1. o.pending \in Seq(Nat)
    BY DEF OrbOk, Orbs
  <2> QED BY <2>1, LenProperties
<1>2. o \in P[0]
  <2>1. o \in Orbs /\ Done(o)
    BY FollowsSelf DEF OrbOk
  <2>2. More(o, 0)
    BY <1>1
  <2> HIDE DEF Done, More
  <2> QED BY <2>1, <2>2
<1>3. ASSUME NEW n \in 0 .. N - 1, NEW x \in P[n] PROVE Turn(x, lead) \in P[n + 1]
  <2>1. n \in Nat /\ n + 1 \in Nat
    BY <1>1
  <2>2. Done(x) /\ More(x, n)
    <3> HIDE DEF Done, More
    <3> QED BY <1>3, <2>1
  <2> DEFINE y == Turn(x, lead)
  <2>3. /\ OrbOk(y, low) /\ Follows(x, y, new) /\ y.lastImu = x.lastImu
        /\ \/ y = x /\ (x.raised \/ ~Ready(x, lead))
           \/ x.pending # <<>> /\ y.pending = Tail(x.pending)
    BY <2>2, TurnOk
  <2> HIDE DEF y
  <2>4. y \in Orbs /\ Done(y)
    BY <2>2, <2>3, FollowsFollows DEF OrbOk
  <2>5. More(y, n + 1)
    <3>1. CASE y = x /\ (x.raised \/ ~Ready(x, lead))
      BY <3>1
    <3>2. CASE x.pending # <<>> /\ y.pending = Tail(x.pending) /\ Len(x.pending) + n <= N
      <4>1. x.pending \in Seq(Nat)
        BY <2>2 DEF OrbOk, Orbs
      <4>2. Len(x.pending) \in Nat /\ Len(y.pending) = Len(x.pending) - 1
        BY <3>2, <4>1, HeadTailProperties, LenProperties
      <4>3. Len(y.pending) + (n + 1) <= N
        <5> DEFINE before == Len(x.pending)
                   after  == Len(y.pending)
        <5>1. before \in Nat /\ after = before - 1 /\ before + n <= N
          BY <3>2, <4>2
        <5>2. after + (n + 1) <= N
          <6> HIDE DEF N, P, before, after
          <6> QED BY <1>1, <2>1, <5>1
        <5> QED BY <5>2
      <4> QED BY <4>3
    <3>3. CASE (x.raised \/ ~Ready(x, lead)) /\ x.pending # <<>>
      <4>1. y = x
        BY <3>3 DEF Turn, y
      <4> QED BY <3>3, <4>1
    <3> QED BY <2>2, <2>3, <3>1, <3>2, <3>3
  <2> HIDE DEF Done, More
  <2> QED BY <2>1, <2>4, <2>5 DEF y
<1>4. Drain(o, lead) \in P[N]
  <2> HIDE DEF P
  <2> QED BY <1>1, <1>2, <1>3, DrainInduction
<1>5. Done(Drain(o, lead)) /\ More(Drain(o, lead), N)
  <2> HIDE DEF Done, More
  <2> QED BY <1>1, <1>4
<1>6. Drain(o, lead).raised \/ ~Ready(Drain(o, lead), lead)
  <2> DEFINE x == Drain(o, lead)
  <2> SUFFICES ASSUME Len(x.pending) + N <= N PROVE ~Ready(x, lead)
    BY <1>5
  <2>1. x.pending \in Seq(Nat)
    BY <1>5 DEF OrbOk, Orbs
  <2>2. x.pending = <<>>
    <3>1. Len(x.pending) \in Nat /\ (x.pending # <<>> => Len(x.pending) # 0)
      BY <2>1, EmptySeq, LenProperties
    <3> HIDE DEF x, N
    <3>2. Len(x.pending) = 0
      BY <1>1, <3>1
    <3> QED BY <3>1, <3>2
  <2> QED BY <2>2 DEF Ready
<1> QED BY <1>5, <1>6

LEMMA DrainNone ==
    ASSUME NEW o, o.pending = <<>>, NEW lead
    PROVE  Drain(o, lead) = o
<1>1. Len(o.pending) = 0
  BY EmptySeq
<1> DEFINE P == [n \in {0} |-> {o}]
<1>2. Drain(o, lead) \in P[Len(o.pending)]
  <2>1. o \in P[0]
    OBVIOUS
  <2>2. \A n \in 0 .. Len(o.pending) - 1 : FALSE
    BY <1>1
  <2> HIDE DEF P
  <2> QED BY <1>1, <2>1, <2>2, DrainInduction
<1> QED BY <1>1, <1>2

LEMMA DrainOne ==
    ASSUME NEW o, Len(o.pending) = 1, NEW lead
    PROVE  Drain(o, lead) = Turn(o, lead)
<1> DEFINE P == [n \in 0 .. 1 |-> IF n = 0 THEN {o} ELSE {Turn(o, lead)}]
<1>1. o \in P[0]
  OBVIOUS
<1>2. \A n \in 0 .. Len(o.pending) - 1 : \A x \in P[n] : Turn(x, lead) \in P[n + 1]
  OBVIOUS
<1>3. Drain(o, lead) \in P[Len(o.pending)]
  <2> HIDE DEF P
  <2>1. Len(o.pending) \in Nat
    OBVIOUS
  <2> QED BY <1>1, <1>2, <2>1, DrainInduction
<1> QED BY <1>3

\* A sample behind those that wait is behind those sent.
LEMMA AppendBehind ==
    ASSUME NEW s \in Seq(Nat), NEW u \in Seq(Nat), NEW t \in Nat
    PROVE  s \o Append(u, t) = Append(s \o u, t) /\ s \o u \in Seq(Nat)
<1>1. <<t>> \in Seq(Nat) /\ Append(u, t) = u \o <<t>>
  BY AppendIsConcat
<1>2. s \o u \in Seq(Nat)
  BY ConcatProperties
<1>3. Append(s \o u, t) = (s \o u) \o <<t>>
  BY <1>2, AppendIsConcat
<1>4. ASSUME NEW v \in Seq(Nat) PROVE (s \o u) \o v = s \o (u \o v)
  BY ConcatAssociative
<1>5. (s \o u) \o <<t>> = s \o (u \o <<t>>)
  BY <1>1, <1>4, Zenon
<1> QED BY <1>1, <1>2, <1>3, <1>5, Zenon

LEMMA PushImuOk ==
    ASSUME NEW low \in Nat, NEW o, OrbOk(o, low), NEW t \in Nat, o.lastImu < t, NEW new
    PROVE  /\ OrbOk(Push_imu(o, t), low) /\ Follows(o, Push_imu(o, t), new)
           /\ \/ Push_imu(o, t).lastImu = t
              \/ Push_imu(o, t).lastImu = o.lastImu /\ Push_imu(o, t).raised
           /\ o.raised => Push_imu(o, t).raised
           /\ o.pending = <<>> => Push_imu(o, t).pending = <<>>
<1>1. CASE o.raised \/ o.failure
  <2> DEFINE r == [o EXCEPT !.raised = TRUE]
  <2>1. Push_imu(o, t) = r
    BY <1>1 DEF Push_imu
  <2>2. o \in Orbs /\ (o.raised => o.failure)
    BY DEF OrbOk
  <2>3. /\ r \in Orbs /\ r.imu = o.imu /\ r.pending = o.pending /\ r.lastImu = o.lastImu /\ r.lastSent = o.lastSent
        /\ r.queue = o.queue /\ r.received = o.received /\ r.accepted = o.accepted /\ r.sent = o.sent
        /\ r.failure /\ o.failure /\ r.raised /\ r.stop = o.stop
    BY <1>1, <2>2 DEF Orbs
  <2> HIDE DEF r
  <2>4. OrbOk(r, low)
    BY <2>3, FlagsOk
  <2>5. Follows(o, r, new)
    BY <2>3 DEF Follows
  <2> QED BY <2>1, <2>3, <2>4, <2>5
<1>2. CASE ~(o.raised \/ o.failure)
  <2> DEFINE imu == Append(o.imu, t)
             received == o.received \cup {t}
             q == [o EXCEPT !.imu = imu, !.lastImu = t, !.received = received]
  <2>1. Push_imu(o, t) = Drain(q, Lead)
    BY <1>2 DEF Push_imu
  <2>2. /\ o \in Orbs /\ IsFiniteSet(o.accepted)
        /\ SamplesRise(o) /\ ImagesRise(o) /\ QueueRises(o, low) /\ Kept(o)
    BY <1>2 DEF OrbOk
  <2>3. /\ o.imu \in Seq(Nat) /\ o.sent \in Seq(Nat) /\ o.received \in SUBSET Nat /\ o.accepted \in SUBSET Nat
        /\ o.lastImu \in Nat /\ o.lastSent \in Nat
    BY <2>2 DEF Orbs
  <2>4. /\ Rising(o.imu) /\ (\A i \in DOMAIN o.imu : o.imu[i] < t) /\ \A u \in o.received : u < t
    <3>1. /\ Rising(o.imu) /\ (\A i \in DOMAIN o.imu : o.imu[i] <= o.lastImu)
          /\ \A u \in o.received : u <= o.lastImu
      BY <2>2 DEF SamplesRise
    <3>2. \A i \in DOMAIN o.imu : o.imu[i] \in Nat
      BY <2>3, LenProperties
    <3> QED BY <2>3, <3>1, <3>2
  <2>5. /\ imu \in Seq(Nat) /\ Rising(imu) /\ DOMAIN imu = 1 .. Len(o.imu) + 1
        /\ (\A i \in 1 .. Len(o.imu) : imu[i] = o.imu[i])
        /\ imu[Len(o.imu) + 1] = t
    BY <2>3, <2>4, RisingAppend
  <2>6. o.sent \o imu = Append(o.sent \o o.imu, t) /\ o.sent \o o.imu \in Seq(Nat)
    BY <2>3, AppendBehind
  <2>7. received \in SUBSET Nat
    BY <2>3
  <2> HIDE DEF imu, received
  <2>8. /\ q \in Orbs /\ q.imu = imu /\ q.pending = o.pending /\ q.lastImu = t /\ q.lastSent = o.lastSent
        /\ q.failure = o.failure /\ q.raised = o.raised /\ q.stop = o.stop
        /\ q.queue = o.queue /\ q.received = received /\ q.accepted = o.accepted /\ q.sent = o.sent
    BY <2>2, <2>5, <2>7 DEF Orbs
  <2> HIDE DEF q
  <2>9. SamplesRise(q)
    <3>1. Len(o.imu) \in Nat /\ DOMAIN o.imu = 1 .. Len(o.imu) /\ \A i \in 1 .. Len(o.imu) : o.imu[i] \in Nat
      BY <2>3, LenProperties
    <3>2. \A i \in DOMAIN imu : imu[i] <= t
      <4> DEFINE n == Len(o.imu)
      <4> SUFFICES ASSUME NEW i \in 1 .. n + 1 PROVE imu[i] <= t
        BY <2>5
      <4>1. n \in Nat
        BY <3>1
      <4> HIDE DEF n
      <4>2. i \in 1 .. n \/ i = n + 1
        BY <4>1
      <4>3. ASSUME i \in 1 .. n PROVE imu[i] <= t
        <5>1. imu[i] = o.imu[i] /\ o.imu[i] < t /\ o.imu[i] \in Nat
          BY <2>4, <2>5, <3>1, <4>3 DEF n
        <5> QED BY <5>1
      <4>4. ASSUME i = n + 1 PROVE imu[i] <= t
        BY <2>5, <4>4 DEF n
      <4> QED BY <4>2, <4>3, <4>4
    <3>3. \A u \in received : u <= t
      BY <2>3, <2>4 DEF received
    <3> QED BY <2>5, <2>8, <3>2, <3>3 DEF SamplesRise
  <2>10. ImagesRise(q) /\ QueueRises(q, low)
    <3>1. \A f \in o.accepted : 0 < f /\ f <= o.lastSent /\ f <= t
      BY <2>2, <2>3 DEF ImagesRise
    <3> QED BY <2>2, <2>8, <3>1 DEF ImagesRise, QueueRises
  <2>11. Kept(q)
    <3>1. CASE o.lastSent = None
      <4>1. o.sent = <<>> /\ InOrder(o.imu, o.received)
        BY <2>2, <3>1 DEF Kept
      <4>2. InOrder(imu, received)
        BY <2>3, <2>4, <4>1, OrderedAppend DEF imu, received
      <4> QED BY <2>8, <3>1, <4>1, <4>2 DEF Kept
    <3>2. CASE o.lastSent # None
      <4>1. PICK first \in o.accepted, b \in Nat :
               /\ \A f \in o.accepted : first <= f
               /\ IsBoundary(b, first, o.received)
               /\ InOrder(o.sent \o o.imu, From(o.received, b))
        BY <2>2, <3>2 DEF Kept
      <4>2. first <= o.lastImu /\ first < t /\ b <= first /\ first \in Nat
        BY <2>2, <2>3, <4>1 DEF ImagesRise, IsBoundary
      <4>3. IsBoundary(b, first, received)
        BY <4>1, <4>2 DEF IsBoundary, received
      <4>4. From(received, b) = From(o.received, b) \cup {t}
        BY <4>2 DEF From, received
      <4>5. InOrder(Append(o.sent \o o.imu, t), From(o.received, b) \cup {t})
        <5>1. From(o.received, b) \in SUBSET Nat /\ \A u \in From(o.received, b) : u < t
          BY <2>3, <2>4 DEF From
        <5> QED BY <2>6, <4>1, <5>1, OrderedAppend
      <4>6. InOrder(q.sent \o q.imu, From(q.received, b))
        BY <2>6, <2>8, <4>4, <4>5, Zenon
      <4> QED BY <2>8, <3>2, <4>1, <4>3, <4>6 DEF Kept
    <3> QED BY <3>1, <3>2
  <2>12. OrbOk(q, low)
    BY <1>2, <2>2, <2>8, <2>9, <2>10, <2>11 DEF OrbOk
  <2>13. Follows(o, q, new)
    BY <2>8 DEF Follows
  <2>14. /\ OrbOk(Drain(q, Lead), low) /\ Follows(q, Drain(q, Lead), new) /\ Drain(q, Lead).lastImu = q.lastImu
    BY <2>12, DrainOk, Constants
  <2>15. o.pending = <<>> => Drain(q, Lead).pending = <<>>
    BY <2>8, DrainNone
  <2> QED BY <1>2, <2>1, <2>8, <2>13, <2>14, <2>15, FollowsFollows
<1> QED BY <1>1, <1>2

LEMMA PushSamplesOk ==
    ASSUME NEW low \in Nat, NEW o, OrbOk(o, low), NEW times \in SUBSET Nat, NEW b \in Nat,
           \A t \in times : o.lastImu < t /\ t <= b, NEW new
    PROVE  /\ OrbOk(Push_samples(o, times), low) /\ Follows(o, Push_samples(o, times), new)
           /\ Push_samples(o, times).lastImu \in times \cup {o.lastImu}
           /\ o.pending = <<>> => Push_samples(o, times).pending = <<>>
           /\ Push_samples(o, times).raised \/ \A t \in times : t <= Push_samples(o, times).lastImu
<1> DEFINE N == Max({None} \cup times)
           Done(x) == /\ OrbOk(x, low) /\ Follows(o, x, new) /\ x.lastImu \in times \cup {o.lastImu}
                      /\ o.pending = <<>> => x.pending = <<>>
           More(x, n) == /\ x.lastImu <= n \/ x.lastImu = o.lastImu
                         /\ x.raised \/ \A t \in times : t <= n => t <= x.lastImu
           P == [n \in Nat |-> {x \in Orbs : Done(x) /\ More(x, n)}]
<1>1. N \in Nat /\ \A t \in times : t <= N
  <2> DEFINE S == {None} \cup times
  <2>1. S \in SUBSET Nat /\ S # {} /\ \A t \in S : t <= b
    BY DEF None
  <2> HIDE DEF S
  <2>2. Max(S) \in S /\ \A t \in S : t <= Max(S)
    BY <2>1, MaxMember
  <2> QED BY <2>1, <2>2 DEF S
<1>2. o \in P[0]
  <2>1. o \in Orbs /\ Done(o)
    BY FollowsSelf DEF OrbOk
  <2>2. More(o, 0)
    <3>1. o.lastImu \in Nat
      BY <2>1 DEF Orbs
    <3> QED BY <3>1
  <2> HIDE DEF Done, More
  <2> QED BY <2>1, <2>2
<1>3. ASSUME NEW n \in 0 .. N - 1, NEW x \in P[n] PROVE Sampled(x, n + 1, times) \in P[n + 1]
  <2>1. n \in Nat /\ n + 1 \in Nat /\ n < n + 1
    BY <1>1
  <2>2. x \in Orbs /\ Done(x) /\ More(x, n)
    <3> HIDE DEF Done, More
    <3> QED BY <1>3, <2>1
  <2>3. x.lastImu \in Nat /\ o.lastImu \in Nat
    BY <2>2 DEF OrbOk, Orbs
  <2>4. CASE n + 1 \notin times
    <3>1. Sampled(x, n + 1, times) = x
      BY <2>4 DEF Sampled
    <3>2. \A t \in times : t <= n + 1 => t <= n
      BY <2>1, <2>4
    <3>3. More(x, n + 1)
      BY <2>1, <2>2, <2>3, <3>2
    <3> HIDE DEF Done, More
    <3> QED BY <2>1, <2>2, <3>1, <3>3
  <2>5. CASE n + 1 \in times
    <3> DEFINE y == Push_imu(x, n + 1)
    <3>1. Sampled(x, n + 1, times) = y
      BY <2>5 DEF Sampled
    <3>2. x.lastImu < n + 1
      BY <2>1, <2>2, <2>3, <2>5
    <3>3. /\ OrbOk(y, low) /\ Follows(x, y, new)
          /\ (y.lastImu = n + 1 \/ (y.lastImu = x.lastImu /\ y.raised))
          /\ x.raised => y.raised
          /\ x.pending = <<>> => y.pending = <<>>
      BY <2>1, <2>2, <3>2, PushImuOk
    <3> HIDE DEF y
    <3>4. y \in Orbs /\ Done(y)
      <4>1. Follows(o, y, new)
        BY <2>2, <3>3, FollowsFollows
      <4> QED BY <2>2, <2>5, <3>3, <4>1 DEF OrbOk
    <3>5. More(y, n + 1)
      <4>1. y.lastImu <= n + 1
        BY <2>1, <2>3, <3>2, <3>3
      <4>2. y.raised \/ \A t \in times : t <= n + 1 => t <= y.lastImu
        BY <3>3
      <4> QED BY <4>1, <4>2
    <3> HIDE DEF Done, More
    <3> QED BY <2>1, <3>1, <3>4, <3>5
  <2> QED BY <2>4, <2>5
<1>4. Push_samples(o, times) \in P[N]
  <2> HIDE DEF P, N
  <2>1. N = Max({None} \cup times)
    BY DEF N
  <2> QED BY <1>1, <1>2, <1>3, <2>1, PushInduction
<1>5. Done(Push_samples(o, times)) /\ More(Push_samples(o, times), N)
  <2> HIDE DEF Done, More
  <2> QED BY <1>1, <1>4
<1> QED BY <1>1, <1>5

LEMMA PushStereoOk ==
    ASSUME NEW low \in Nat, NEW o, OrbOk(o, low), NEW frame \in Nat,
           o.lastSent < frame, \A i \in DOMAIN o.pending : o.pending[i] < frame
    PROVE  /\ OrbOk(Push_stereo(o, frame), low) /\ Follows(o, Push_stereo(o, frame), {frame})
           /\ Push_stereo(o, frame).lastImu = o.lastImu
           /\ o.pending = <<>> /\ (o.raised \/ frame + Lead <= o.lastImu) =>
                 /\ Push_stereo(o, frame).pending = <<>>
                 /\ Push_stereo(o, frame).raised => Push_stereo(o, frame).accepted = o.accepted
<1>0. o \in Orbs /\ (o.raised => o.failure)
  BY DEF OrbOk
<1>1. CASE o.raised \/ o.failure
  <2> DEFINE r == [o EXCEPT !.raised = TRUE]
  <2>1. Push_stereo(o, frame) = r
    BY <1>1 DEF Push_stereo
  <2>3. /\ r \in Orbs /\ r.imu = o.imu /\ r.pending = o.pending /\ r.lastImu = o.lastImu /\ r.lastSent = o.lastSent
        /\ r.queue = o.queue /\ r.received = o.received /\ r.accepted = o.accepted /\ r.sent = o.sent
        /\ r.failure /\ o.failure /\ r.raised /\ r.stop = o.stop
    BY <1>0, <1>1 DEF Orbs
  <2> HIDE DEF r
  <2>4. OrbOk(r, low)
    BY <2>3, FlagsOk
  <2>5. Follows(o, r, {frame})
    BY <2>3 DEF Follows
  <2> QED BY <2>1, <2>3, <2>4, <2>5
<1>2. CASE ~(o.raised \/ o.failure) /\ program = "pair" /\ frame > Unpressed /\ Len(o.queue) >= Backlog
  <2>1. Push_stereo(o, frame) = o
    BY <1>2 DEF Push_stereo
  <2> QED BY <2>1, FollowsSelf
<1>3. CASE ~(o.raised \/ o.failure) /\ ~(program = "pair" /\ frame > Unpressed /\ Len(o.queue) >= Backlog)
  <2> DEFINE pending == Append(o.pending, frame)
             q == [o EXCEPT !.pending = pending]
  <2>1. Push_stereo(o, frame) = IF Len(q.pending) > QueueDepth THEN Set_failure(q) ELSE Drain(q, Lead)
    BY <1>3 DEF Push_stereo
  <2>2. /\ IsFiniteSet(o.accepted) /\ SamplesRise(o) /\ ImagesRise(o) /\ QueueRises(o, low) /\ Kept(o)
    BY <1>3 DEF OrbOk
  <2>3. o.pending \in Seq(Nat) /\ o.lastSent \in Nat /\ o.lastImu \in Nat
    BY <1>0 DEF Orbs
  <2>4. Rising(o.pending) /\ \A i \in DOMAIN o.pending : o.pending[i] > o.lastSent
    BY <2>2 DEF ImagesRise
  <2>5. /\ pending \in Seq(Nat) /\ Rising(pending) /\ DOMAIN pending = 1 .. Len(o.pending) + 1
        /\ (\A i \in 1 .. Len(o.pending) : pending[i] = o.pending[i])
        /\ pending[Len(o.pending) + 1] = frame /\ ToSet(pending) = ToSet(o.pending) \cup {frame}
    BY <2>3, <2>4, RisingAppend
  <2> HIDE DEF pending
  <2>6. /\ q \in Orbs /\ q.imu = o.imu /\ q.pending = pending /\ q.lastImu = o.lastImu /\ q.lastSent = o.lastSent
        /\ q.failure = o.failure /\ q.raised = o.raised /\ q.stop = o.stop
        /\ q.queue = o.queue /\ q.received = o.received /\ q.accepted = o.accepted /\ q.sent = o.sent
    BY <1>0, <2>5 DEF Orbs
  <2> HIDE DEF q
  <2>7. \A i \in DOMAIN pending : pending[i] > o.lastSent
    <3>1. \A f \in ToSet(pending) : f > o.lastSent
      BY <2>3, <2>4, <2>5 DEF ToSet
    <3> QED BY <3>1 DEF ToSet
  <2>8. SamplesRise(q) /\ ImagesRise(q) /\ QueueRises(q, low)
    BY <2>2, <2>5, <2>6, <2>7, Zenon DEF SamplesRise, ImagesRise, QueueRises
  <2>9. Kept(q)
    BY <2>2, <2>6, Zenon DEF Kept
  <2>10. OrbOk(q, low)
    BY <1>0, <2>2, <2>6, <2>8, <2>9 DEF OrbOk
  <2>11. Follows(o, q, {frame})
    BY <2>5, <2>6 DEF Follows
  <2>12. CASE Len(q.pending) > QueueDepth
    <3> DEFINE r == Set_failure(q)
    <3>1. /\ r \in Orbs /\ r.imu = q.imu /\ r.pending = q.pending /\ r.lastImu = q.lastImu
          /\ r.lastSent = q.lastSent /\ r.queue = q.queue /\ r.received = q.received
          /\ r.accepted = q.accepted /\ r.sent = q.sent /\ r.failure /\ r.stop = q.stop
      BY <2>6 DEF Set_failure, Orbs
    <3> HIDE DEF r
    <3>2. OrbOk(r, low)
      BY <2>10, <3>1, FlagsOk
    <3>3. Follows(q, r, {frame})
      BY <3>1 DEF Follows
    <3>4. o.pending # <<>>
      <4>1. o.pending = <<>> => Len(pending) = 1
        <5>1. Len(pending) = Len(o.pending) + 1
          BY <2>3, AppendProperties DEF pending
        <5> QED BY <5>1, EmptySeq
      <4>2. Len(pending) > QueueDepth /\ QueueDepth \in Nat /\ QueueDepth >= 1
        <5>1. QueueDepth \in Nat /\ QueueDepth >= 1
          BY Constants
        <5> QED BY <2>6, <2>12, <5>1
      <4>3. Len(pending) \in Nat
        BY <2>5, LenProperties
      <4>4. Len(pending) # 1
        <5>1. ASSUME NEW x \in Nat, NEW y \in Nat, x > y, y >= 1 PROVE x # 1
          BY <5>1
        <5> QED BY <4>2, <4>3, <5>1, Zenon
      <4> QED BY <4>1, <4>4, Zenon
    <3>5. Push_stereo(o, frame) = r
      BY <2>1, <2>12 DEF r
    <3>6. Follows(o, r, {frame})
      BY <2>11, <3>3, FollowsFollows
    <3> QED BY <2>6, <3>1, <3>2, <3>4, <3>5, <3>6
  <2>13. CASE ~(Len(q.pending) > QueueDepth)
    <3> DEFINE r == Drain(q, Lead)
    <3>1. r = Push_stereo(o, frame)
      BY <2>1, <2>13
    <3>2. OrbOk(r, low) /\ Follows(q, r, {frame}) /\ r.lastImu = q.lastImu
      BY <2>10, DrainOk, Constants
    <3>3. ASSUME o.pending = <<>>, frame + Lead <= o.lastImu
          PROVE  r.pending = <<>> /\ (r.raised => r.accepted = o.accepted)
      <4>1. Len(pending) = 1 /\ pending # <<>> /\ Head(pending) = frame /\ Tail(pending) = <<>>
        <5>1. pending = <<frame>>
          BY <3>3 DEF pending
        <5> QED BY <5>1
      <4>2. r = Turn(q, Lead)
        BY <2>6, <4>1, DrainOne
      <4>3. ~q.raised /\ Ready(q, Lead)
        BY <1>3, <2>3, <2>6, <3>3, <4>1, Constants DEF Ready
      <4>4. r.pending = Tail(q.pending)
        <5>1. \/ Turn(q, Lead) = q /\ (q.raised \/ ~Ready(q, Lead))
              \/ q.pending # <<>> /\ Turn(q, Lead).pending = Tail(q.pending)
          BY <2>10, TurnOk, Constants
        <5> QED BY <4>2, <4>3, <5>1
      <4>5. r.raised => r.accepted = q.accepted
        <5>1. Turn(q, Lead).raised => q.raised \/ Turn(q, Lead).accepted = q.accepted
          BY <2>10, TurnOk, Constants
        <5> QED BY <4>2, <4>3, <5>1
      <4> QED BY <2>6, <4>1, <4>4, <4>5
    <3>4. Follows(o, r, {frame})
      BY <2>11, <3>2, FollowsFollows
    <3> HIDE DEF r
    <3> QED BY <1>3, <2>6, <3>1, <3>2, <3>3, <3>4
  <2> QED BY <2>12, <2>13
<1> QED BY <1>1, <1>2, <1>3

LEMMA HandledOk ==
    ASSUME NEW low, NEW o, OrbOk(o, low), NEW new
    PROVE  LET r == [o EXCEPT !.raised = FALSE]
           IN  /\ OrbOk(r, low) /\ ~r.raised /\ Follows(o, r, new)
               /\ r.imu = o.imu /\ r.pending = o.pending /\ r.lastImu = o.lastImu /\ r.accepted = o.accepted
<1> DEFINE r == [o EXCEPT !.raised = FALSE]
<1>1. o \in Orbs /\ (o.raised => o.failure)
  BY DEF OrbOk
<1>2. /\ r \in Orbs /\ r.imu = o.imu /\ r.pending = o.pending /\ r.lastImu = o.lastImu /\ r.lastSent = o.lastSent
      /\ r.queue = o.queue /\ r.received = o.received /\ r.accepted = o.accepted /\ r.sent = o.sent
      /\ r.failure = o.failure /\ ~r.raised /\ r.stop = o.stop
  BY <1>1 DEF Orbs
<1> HIDE DEF r
<1>3. OrbOk(r, low)
  BY <1>2, FlagsOk
<1>4. Follows(o, r, new)
  BY <1>2 DEF Follows
<1> QED BY <1>2, <1>3, <1>4 DEF r

\* The samples that the combiner gives, and those it keeps.
LEMMA CombinedOk ==
    ASSUME NEW low \in Nat, NEW o, OrbOk(o, low), NEW c \in [gyro : SUBSET Nat, accel : SUBSET Nat], NEW g \in Nat,
           o.lastImu <= g, \A x \in c.gyro : o.lastImu < x /\ x <= g, NEW new
    PROVE  LET r == Push_samples(o, Combined(c))
           IN  /\ OrbOk(r, low) /\ Follows(o, r, new) /\ r.lastImu <= g
               /\ Drained(c) \in [gyro : SUBSET Nat, accel : SUBSET Nat]
               /\ \A x \in Drained(c).gyro : r.lastImu < x /\ x <= g
<1> DEFINE r == Push_samples(o, Combined(c))
<1>1. Combined(c) \subseteq Reached(c) /\ Reached(c) \subseteq c.gyro /\ c.gyro \in SUBSET Nat /\ c.accel \in SUBSET Nat
  BY DEF Combined, Reached
<1>2. Combined(c) \in SUBSET Nat /\ \A t \in Combined(c) : o.lastImu < t /\ t <= g
  BY <1>1
<1>3. OrbOk(r, low) /\ Follows(o, r, new) /\ r.lastImu \in Combined(c) \cup {o.lastImu}
  BY <1>2, PushSamplesOk
<1>4. Drained(c).gyro = c.gyro \ Reached(c) /\ Drained(c) \in [gyro : SUBSET Nat, accel : SUBSET Nat]
  BY DEF Drained
<1> HIDE DEF r
<1>5. o.lastImu \in Nat /\ r.lastImu \in Nat
  BY <1>3 DEF OrbOk, Orbs
<1>6. ASSUME NEW x \in c.gyro \ Reached(c) PROVE r.lastImu < x /\ x <= g
  <2>1. CASE r.lastImu = o.lastImu
    BY <2>1
  <2>2. CASE r.lastImu \in Combined(c)
    <3>1. PICK a \in c.accel : r.lastImu <= a
      BY <1>1, <2>2 DEF Reached
    <3>2. ~(x <= a)
      BY <3>1, <1>6 DEF Reached
    <3> QED BY <1>1, <1>5, <1>6, <3>1, <3>2
  <2> QED BY <1>3, <2>1, <2>2
<1>7. r.lastImu <= g
  BY <1>2, <1>3
<1> QED BY <1>3, <1>4, <1>6, <1>7 DEF r

-----------------------------------------------------------------------------
(* The callbacks of the cameras.                                            *)

SensorsType  == [gyro : Nat, accel : Nat, stereo : Nat, running : BOOLEAN]
CombinerType == [gyro : SUBSET Nat, accel : SUBSET Nat]
FeedType     == [active : BOOLEAN, error : BOOLEAN, image : Nat]

\* What every callback does.
CamerasMove ==
    /\ UNCHANGED <<program, writer, child, reader, poses, main, world, stopped>>
    /\ sensors.running /\ sensors'.running = sensors.running
    /\ sensors' \in SensorsType /\ combiner' \in CombinerType /\ feed' \in FeedType
    /\ OrbOk(orb', Low) /\ ~orb'.raised /\ (orb.failure => orb'.failure) /\ orb.accepted \subseteq orb'.accepted
    /\ orb'.stop = orb.stop
    /\ \A p \in ToSet(orb'.queue) : p \in ToSet(orb.queue) \/ IsFrame(p)
    /\ \A f \in orb'.accepted \cup ToSet(orb'.pending) : f <= sensors'.stereo
    /\ orb'.lastImu <= sensors'.gyro
    /\ program = "hil" => \A g \in combiner'.gyro : orb'.lastImu < g /\ g <= sensors'.gyro
    /\ program = "pair" => /\ orb'.pending = <<>> /\ sensors'.gyro <= sensors'.stereo + Lead
                           /\ InLoop /\ (\A f \in orb.accepted : f <= feed.image) =>
                                 \A f \in orb'.accepted : f <= feed'.image

LEMMA LowIsNat ==
    ASSUME Types
    PROVE  Low \in Nat
<1>1. child.frame \in Nat
  BY DEF Types
<1>2. IsFrame(writer.packet) => writer.packet.frame \in Nat
  BY DEF Types, IsFrame, Packets, Shutdown, Sentinel
<1> QED BY <1>1, <1>2 DEF Low

\* What the cameras have sent, as the lemmas about OrbSlam3LiveProcess need it.
LEMMA CamerasFacts ==
    ASSUME Types, CamerasInv
    PROVE  /\ orb \in Orbs /\ Low \in Nat /\ OrbOk(orb, Low) /\ ~orb.raised
           /\ sensors \in SensorsType /\ combiner \in CombinerType /\ feed \in FeedType
           /\ orb.accepted \in SUBSET Nat /\ orb.pending \in Seq(Nat) /\ orb.lastImu \in Nat /\ orb.lastSent \in Nat
           /\ ToSet(orb.pending) \in SUBSET Nat
           /\ \A f \in orb.accepted \cup ToSet(orb.pending) : f <= sensors.stereo
           /\ orb.lastSent <= sensors.stereo /\ orb.lastImu <= sensors.gyro
<1>1. orb \in Orbs /\ OrbOk(orb, Low) /\ ~orb.raised /\ ImagesRise(orb)
  BY DEF CamerasInv, OrbOk
<1>2. sensors \in SensorsType /\ combiner \in CombinerType /\ feed \in FeedType
  BY DEF Types, SensorsType, CombinerType, FeedType
<1>3. orb.accepted \in SUBSET Nat /\ orb.pending \in Seq(Nat) /\ orb.lastImu \in Nat /\ orb.lastSent \in Nat
  BY <1>1 DEF Orbs
<1>4. \A f \in orb.accepted \cup ToSet(orb.pending) : f <= sensors.stereo
  BY DEF CamerasInv, ToSet
<1>5. orb.lastSent <= sensors.stereo
  <2>1. orb.lastSent \in orb.accepted \cup {None} /\ sensors.stereo \in Nat
    BY <1>1, <1>2 DEF ImagesRise, SensorsType
  <2> QED BY <1>3, <1>4, <2>1 DEF None
<1>6. ToSet(orb.pending) \in SUBSET Nat
  BY <1>3, Members
<1>7. orb.lastImu <= sensors.gyro
  BY DEF CamerasInv
<1> QED BY <1>1, <1>2, <1>3, <1>4, <1>5, <1>6, <1>7, LowIsNat

LEMMA GyroMoves ==
    ASSUME Types, CamerasInv, Gyro
    PROVE  CamerasMove
<1>1. PICK t \in sensors.gyro + 1 .. HilTime :
         /\ sensors' = [sensors EXCEPT !.gyro = t]
         /\ combiner' = Drained([combiner EXCEPT !.gyro = @ \cup {t}])
         /\ Handled(Push_samples(orb, Combined([combiner EXCEPT !.gyro = @ \cup {t}])))
  BY DEF Gyro, Motion
<1>2. sensors.running /\ program = "hil" /\ UNCHANGED <<program, writer, child, reader, poses, main, world, stopped>>
  BY DEF Gyro, Motion
<1>3. /\ orb \in Orbs /\ Low \in Nat /\ OrbOk(orb, Low) /\ ~orb.raised
      /\ sensors \in SensorsType /\ combiner \in CombinerType /\ feed \in FeedType
      /\ orb.accepted \in SUBSET Nat /\ orb.lastImu \in Nat
      /\ ToSet(orb.pending) \in SUBSET Nat
      /\ \A f \in orb.accepted \cup ToSet(orb.pending) : f <= sensors.stereo
      /\ orb.lastImu <= sensors.gyro
  BY CamerasFacts
<1> DEFINE c == [combiner EXCEPT !.gyro = @ \cup {t}]
<1>4. t \in Nat /\ sensors.gyro \in Nat /\ sensors.gyro < t
  BY <1>3, Constants DEF SensorsType
<1>5. /\ sensors' \in SensorsType /\ sensors'.running = sensors.running /\ sensors'.gyro = t
      /\ sensors'.stereo = sensors.stereo
  BY <1>1, <1>3, <1>4 DEF SensorsType
<1>6. c \in CombinerType /\ c.gyro = combiner.gyro \cup {t}
  BY <1>3, <1>4 DEF CombinerType
<1>7. \A x \in c.gyro : orb.lastImu < x /\ x <= t
  <2>1. \A x \in combiner.gyro : x \in Nat /\ orb.lastImu < x /\ x <= sensors.gyro
    BY <1>2, <1>3 DEF CamerasInv, CombinerType
  <2> QED BY <1>3, <1>4, <1>6, <2>1
<1>8. orb.lastImu <= t
  BY <1>3, <1>4
<1> DEFINE o == Push_samples(orb, Combined(c))
<1>9. /\ OrbOk(o, Low) /\ Follows(orb, o, {}) /\ o.lastImu <= t
      /\ Drained(c) \in CombinerType
      /\ \A x \in Drained(c).gyro : o.lastImu < x /\ x <= t
  <2> HIDE DEF c
  <2>1. c \in [gyro : SUBSET Nat, accel : SUBSET Nat]
    BY <1>6 DEF CombinerType
  <2> QED BY <1>3, <1>4, <1>7, <1>8, <2>1, CombinedOk DEF CombinerType
<1>10. /\ orb' = [o EXCEPT !.raised = FALSE] /\ feed' = [feed EXCEPT !.error = @ \/ o.raised]
       /\ combiner' = Drained(c)
  BY <1>1 DEF Handled
<1> HIDE DEF o, c
<1>11. /\ OrbOk(orb', Low) /\ ~orb'.raised /\ Follows(o, orb', {}) /\ orb'.lastImu = o.lastImu
  BY <1>9, <1>10, HandledOk
<1>12. Follows(orb, orb', {})
  BY <1>9, <1>11, FollowsFollows
<1>13. feed' \in FeedType
  <2>1. o.raised \in BOOLEAN
    BY <1>9 DEF OrbOk, Orbs
  <2> QED BY <1>3, <1>10, <2>1 DEF FeedType
<1>14. \A f \in orb'.accepted \cup ToSet(orb'.pending) : f <= sensors'.stereo
  BY <1>3, <1>5, <1>12 DEF Follows
<1> QED BY <1>2, <1>5, <1>9, <1>10, <1>11, <1>12, <1>13, <1>14 DEF CamerasMove, Follows

LEMMA AccelMoves ==
    ASSUME Types, CamerasInv, Accel
    PROVE  CamerasMove
<1>1. PICK t \in sensors.accel + 1 .. HilTime :
         /\ sensors' = [sensors EXCEPT !.accel = t]
         /\ combiner' = Drained([combiner EXCEPT !.accel = @ \cup {t}])
         /\ Handled(Push_samples(orb, Combined([combiner EXCEPT !.accel = @ \cup {t}])))
  BY DEF Accel, Motion
<1>2. sensors.running /\ program = "hil" /\ UNCHANGED <<program, writer, child, reader, poses, main, world, stopped>>
  BY DEF Accel, Motion
<1>3. /\ orb \in Orbs /\ Low \in Nat /\ OrbOk(orb, Low) /\ ~orb.raised
      /\ sensors \in SensorsType /\ combiner \in CombinerType /\ feed \in FeedType
      /\ orb.accepted \in SUBSET Nat /\ orb.lastImu \in Nat
      /\ ToSet(orb.pending) \in SUBSET Nat
      /\ \A f \in orb.accepted \cup ToSet(orb.pending) : f <= sensors.stereo
      /\ orb.lastImu <= sensors.gyro
  BY CamerasFacts
<1> DEFINE c == [combiner EXCEPT !.accel = @ \cup {t}]
           g == sensors.gyro
<1>4. t \in Nat /\ g \in Nat
  BY <1>3, Constants DEF SensorsType
<1>5. /\ sensors' \in SensorsType /\ sensors'.running = sensors.running /\ sensors'.gyro = g
      /\ sensors'.stereo = sensors.stereo
  BY <1>1, <1>3, <1>4 DEF SensorsType
<1>6. c \in CombinerType /\ c.gyro = combiner.gyro
  BY <1>3, <1>4 DEF CombinerType
<1>7. \A x \in c.gyro : orb.lastImu < x /\ x <= g
  BY <1>2, <1>6 DEF CamerasInv
<1> DEFINE o == Push_samples(orb, Combined(c))
<1>9. /\ OrbOk(o, Low) /\ Follows(orb, o, {}) /\ o.lastImu <= g
      /\ Drained(c) \in CombinerType
      /\ \A x \in Drained(c).gyro : o.lastImu < x /\ x <= g
  <2> HIDE DEF c
  <2>1. c \in [gyro : SUBSET Nat, accel : SUBSET Nat] /\ orb.lastImu <= g
    BY <1>3, <1>6 DEF CombinerType
  <2> HIDE DEF g
  <2> QED BY <1>3, <1>4, <1>7, <2>1, CombinedOk DEF CombinerType
<1>10. /\ orb' = [o EXCEPT !.raised = FALSE] /\ feed' = [feed EXCEPT !.error = @ \/ o.raised]
       /\ combiner' = Drained(c)
  BY <1>1 DEF Handled
<1> HIDE DEF o, c
<1>11. /\ OrbOk(orb', Low) /\ ~orb'.raised /\ Follows(o, orb', {}) /\ orb'.lastImu = o.lastImu
  BY <1>9, <1>10, HandledOk
<1>12. Follows(orb, orb', {})
  BY <1>9, <1>11, FollowsFollows
<1>13. feed' \in FeedType
  <2>1. o.raised \in BOOLEAN
    BY <1>9 DEF OrbOk, Orbs
  <2> QED BY <1>3, <1>10, <2>1 DEF FeedType
<1>14. \A f \in orb'.accepted \cup ToSet(orb'.pending) : f <= sensors'.stereo
  BY <1>3, <1>5, <1>12 DEF Follows
<1> QED BY <1>2, <1>5, <1>9, <1>10, <1>11, <1>12, <1>13, <1>14 DEF CamerasMove, Follows

LEMMA StereoMoves ==
    ASSUME Types, CamerasInv, Stereo
    PROVE  CamerasMove
<1>1. PICK frame \in Frames(HilTime) :
         sensors' = [sensors EXCEPT !.stereo = frame] /\ Handled(Push_stereo(orb, frame))
  BY DEF Stereo
<1>2. /\ sensors.running /\ program = "hil"
      /\ UNCHANGED <<program, combiner, writer, child, reader, poses, main, world, stopped>>
  BY DEF Stereo
<1>3. /\ orb \in Orbs /\ Low \in Nat /\ OrbOk(orb, Low) /\ ~orb.raised
      /\ sensors \in SensorsType /\ combiner \in CombinerType /\ feed \in FeedType
      /\ orb.accepted \in SUBSET Nat /\ orb.lastImu \in Nat /\ orb.lastSent \in Nat
      /\ ToSet(orb.pending) \in SUBSET Nat
      /\ \A f \in orb.accepted \cup ToSet(orb.pending) : f <= sensors.stereo
      /\ orb.lastImu <= sensors.gyro /\ orb.lastSent <= sensors.stereo
  BY CamerasFacts
<1>4. frame \in Nat /\ sensors.stereo \in Nat /\ sensors.stereo < frame
  BY <1>3, Constants DEF SensorsType, Frames
<1>5. /\ sensors' \in SensorsType /\ sensors'.running = sensors.running /\ sensors'.gyro = sensors.gyro
      /\ sensors'.stereo = frame
  BY <1>1, <1>3, <1>4 DEF SensorsType
<1>6. orb.lastSent < frame
  BY <1>3, <1>4
<1>7. \A i \in DOMAIN orb.pending : orb.pending[i] < frame
  <2>1. \A f \in ToSet(orb.pending) : f < frame
    BY <1>3, <1>4
  <2> QED BY <2>1 DEF ToSet
<1> DEFINE o == Push_stereo(orb, frame)
<1>9. OrbOk(o, Low) /\ Follows(orb, o, {frame}) /\ o.lastImu = orb.lastImu
  BY <1>3, <1>4, <1>6, <1>7, PushStereoOk
<1>10. orb' = [o EXCEPT !.raised = FALSE] /\ feed' = [feed EXCEPT !.error = @ \/ o.raised]
  BY <1>1 DEF Handled
<1> HIDE DEF o
<1>11. /\ OrbOk(orb', Low) /\ ~orb'.raised /\ Follows(o, orb', {frame}) /\ orb'.lastImu = o.lastImu
  BY <1>9, <1>10, HandledOk
<1>12. Follows(orb, orb', {frame})
  BY <1>9, <1>11, FollowsFollows
<1>13. feed' \in FeedType
  <2>1. o.raised \in BOOLEAN
    BY <1>9 DEF OrbOk, Orbs
  <2> QED BY <1>3, <1>10, <2>1 DEF FeedType
<1>14. \A f \in orb'.accepted \cup ToSet(orb'.pending) : f <= sensors'.stereo
  <2>1. \A f \in orb.accepted \cup ToSet(orb.pending) \cup {frame} : f <= frame
    BY <1>3, <1>4
  <2> QED BY <1>5, <1>12, <2>1 DEF Follows
<1>15. \A x \in combiner'.gyro : orb'.lastImu < x /\ x <= sensors'.gyro
  BY <1>2, <1>5, <1>9, <1>11 DEF CamerasInv
<1>16. combiner' \in CombinerType /\ orb'.lastImu <= sensors'.gyro
  BY <1>2, <1>3, <1>5, <1>9, <1>11
<1> QED BY <1>2, <1>5, <1>11, <1>12, <1>13, <1>14, <1>15, <1>16 DEF CamerasMove, Follows

LEMMA CallbackRaisesMoves ==
    ASSUME Types, CamerasInv, CallbackRaises
    PROVE  CamerasMove
<1>2. /\ sensors.running /\ program = "hil" /\ feed' = [feed EXCEPT !.error = TRUE]
      /\ UNCHANGED <<program, sensors, combiner, orb, writer, child, reader, poses, main, world, stopped>>
  BY DEF CallbackRaises
<1>3. /\ OrbOk(orb, Low) /\ ~orb.raised
      /\ sensors \in SensorsType /\ combiner \in CombinerType /\ feed \in FeedType
      /\ \A f \in orb.accepted \cup ToSet(orb.pending) : f <= sensors.stereo
      /\ orb.lastImu <= sensors.gyro
  BY CamerasFacts
<1>4. feed' \in FeedType
  BY <1>2, <1>3 DEF FeedType
<1>5. \A x \in combiner.gyro : orb.lastImu < x /\ x <= sensors.gyro
  BY <1>2 DEF CamerasInv
<1> QED BY <1>2, <1>3, <1>4, <1>5 DEF CamerasMove

\* The pair: the samples, then the image, for which they are enough.
LEMMA StereoAndSamplesMoves ==
    ASSUME Types, CamerasInv, StereoAndSamples
    PROVE  CamerasMove
<1> DEFINE frame == sensors.stereo + Spacing
           times == sensors.gyro + 1 .. frame + Lead
           q == Push_samples(orb, times)
           o == Push_stereo(q, frame)
<1>1. /\ sensors' = [sensors EXCEPT !.stereo = frame, !.gyro = frame + Lead, !.accel = frame + Lead]
      /\ orb' = [o EXCEPT !.raised = FALSE]
      /\ feed' = [feed EXCEPT !.error = @ \/ o.raised, !.image = IF o.raised \/ ~InLoop THEN @ ELSE frame]
  BY DEF StereoAndSamples
<1>2. /\ sensors.running /\ program = "pair"
      /\ UNCHANGED <<program, combiner, writer, child, reader, poses, main, world, stopped>>
  BY DEF StereoAndSamples
<1>3. /\ orb \in Orbs /\ Low \in Nat /\ OrbOk(orb, Low) /\ ~orb.raised
      /\ sensors \in SensorsType /\ combiner \in CombinerType /\ feed \in FeedType
      /\ orb.accepted \in SUBSET Nat /\ orb.lastImu \in Nat /\ orb.lastSent \in Nat
      /\ ToSet(orb.pending) \in SUBSET Nat
      /\ \A f \in orb.accepted \cup ToSet(orb.pending) : f <= sensors.stereo
      /\ orb.lastImu <= sensors.gyro /\ orb.lastSent <= sensors.stereo
  BY CamerasFacts
<1>4. /\ frame \in Nat /\ sensors.stereo \in Nat /\ sensors.stereo < frame /\ sensors.gyro \in Nat
      /\ frame + Lead \in Nat /\ Lead \in Nat
  BY <1>3, Constants DEF SensorsType
<1>5. orb.pending = <<>> /\ sensors.gyro <= sensors.stereo + Lead
  BY <1>2 DEF CamerasInv
<1>6. sensors.gyro + 1 <= frame + Lead /\ frame <= frame + Lead
  BY <1>3, <1>4, <1>5, Constants
<1> HIDE DEF frame
<1>7. /\ sensors' \in SensorsType /\ sensors'.running = sensors.running /\ sensors'.gyro = frame + Lead
      /\ sensors'.stereo = frame
  BY <1>1, <1>3, <1>4 DEF SensorsType
<1>8. times \in SUBSET Nat /\ (\A t \in times : orb.lastImu < t /\ t <= frame + Lead) /\ frame + Lead \in times
  BY <1>3, <1>4, <1>6
<1>9. /\ OrbOk(q, Low) /\ Follows(orb, q, {}) /\ q.lastImu \in times \cup {orb.lastImu} /\ q.pending = <<>>
      /\ q.raised \/ \A t \in times : t <= q.lastImu
  <2> HIDE DEF times
  <2> DEFINE b == frame + Lead
  <2>1. OrbOk(orb, Low) /\ Low \in Nat /\ b \in Nat /\ times \in SUBSET Nat
    BY <1>3, <1>4, <1>8
  <2>2. \A t \in times : orb.lastImu < t /\ t <= b
    BY <1>8
  <2> HIDE DEF b, q
  <2>3. /\ OrbOk(Push_samples(orb, times), Low) /\ Follows(orb, Push_samples(orb, times), {})
        /\ Push_samples(orb, times).lastImu \in times \cup {orb.lastImu}
        /\ orb.pending = <<>> => Push_samples(orb, times).pending = <<>>
        /\ Push_samples(orb, times).raised \/ \A t \in times : t <= Push_samples(orb, times).lastImu
    BY <2>1, <2>2, PushSamplesOk
  <2> QED BY <1>5, <2>3 DEF q
<1>10. q.raised \/ frame + Lead <= q.lastImu
  BY <1>8, <1>9
<1>11. q.lastImu \in Nat /\ q.lastImu <= frame + Lead
  BY <1>3, <1>4, <1>6, <1>8, <1>9
<1> HIDE DEF q, times
<1>12. ToSet(orb.pending) = {} /\ ToSet(q.pending) = {}
  BY <1>5, <1>9 DEF ToSet
<1>13. q.accepted = orb.accepted
  BY <1>9, <1>12 DEF Follows
<1>14. q.lastSent < frame /\ \A i \in DOMAIN q.pending : q.pending[i] < frame
  <2>1. q.lastSent \in q.accepted \cup {None} /\ q.lastSent \in Nat
    BY <1>9 DEF OrbOk, ImagesRise, Orbs
  <2>2. q.lastSent <= sensors.stereo
    BY <1>3, <1>4, <1>13, <2>1 DEF None
  <2> QED BY <1>4, <1>9, <2>1, <2>2
<1>15. /\ OrbOk(o, Low) /\ Follows(q, o, {frame}) /\ o.lastImu = q.lastImu /\ o.pending = <<>>
       /\ (o.raised => o.accepted = q.accepted)
  <2>1. OrbOk(q, Low) /\ Low \in Nat /\ frame \in Nat /\ q.lastSent < frame
    BY <1>3, <1>4, <1>9, <1>14
  <2>2. \A i \in DOMAIN q.pending : q.pending[i] < frame
    BY <1>14
  <2>3. /\ OrbOk(Push_stereo(q, frame), Low) /\ Follows(q, Push_stereo(q, frame), {frame})
        /\ Push_stereo(q, frame).lastImu = q.lastImu
        /\ q.pending = <<>> /\ (q.raised \/ frame + Lead <= q.lastImu) =>
              /\ Push_stereo(q, frame).pending = <<>>
              /\ Push_stereo(q, frame).raised => Push_stereo(q, frame).accepted = q.accepted
    BY <2>1, <2>2, PushStereoOk
  <2> QED BY <1>9, <1>10, <2>3
<1> HIDE DEF o
<1>16. OrbOk(orb', Low) /\ ~orb'.raised /\ Follows(o, orb', {frame}) /\ orb'.pending = o.pending
       /\ orb'.lastImu = o.lastImu /\ orb'.accepted = o.accepted
  BY <1>1, <1>15, HandledOk
<1>17. Follows(orb, orb', {frame})
  <2>1. Follows(orb, q, {frame})
    BY <1>9 DEF Follows
  <2>2. Follows(orb, o, {frame})
    BY <1>15, <2>1, FollowsFollows
  <2> QED BY <1>16, <2>2, FollowsFollows
<1>18. feed' \in FeedType
  <2>1. o.raised \in BOOLEAN
    BY <1>15 DEF OrbOk, Orbs
  <2> QED BY <1>1, <1>3, <1>4, <2>1 DEF FeedType
<1>19. \A f \in orb'.accepted \cup ToSet(orb'.pending) : f <= sensors'.stereo
  <2>1. \A f \in orb.accepted \cup ToSet(orb.pending) \cup {frame} : f <= frame
    BY <1>3, <1>4
  <2> QED BY <1>7, <1>17, <2>1 DEF Follows
<1>20. ASSUME InLoop, \A f \in orb.accepted : f <= feed.image PROVE \A f \in orb'.accepted : f <= feed'.image
  <2>1. CASE o.raised
    <3>1. orb'.accepted = orb.accepted
      BY <1>13, <1>15, <1>16, <2>1
    <3>2. feed'.image = feed.image
      BY <1>1, <1>3, <2>1 DEF FeedType
    <3> QED BY <1>20, <3>1, <3>2
  <2>2. CASE ~o.raised
    <3>1. feed'.image = frame
      BY <1>1, <1>3, <1>20, <2>2 DEF FeedType
    <3> QED BY <1>7, <1>19, <3>1
  <2> QED BY <2>1, <2>2
<1>21. sensors'.gyro <= sensors'.stereo + Lead /\ orb'.lastImu <= sensors'.gyro
  BY <1>4, <1>7, <1>11, <1>15, <1>16
<1> QED BY <1>2, <1>3, <1>7, <1>15, <1>16, <1>17, <1>18, <1>19, <1>20, <1>21 DEF CamerasMove, Follows

-----------------------------------------------------------------------------
(* The queue of packets.                                                    *)

LEMMA PacketKinds ==
    /\ Shutdown \in Packets /\ Sentinel \in Packets /\ Shutdown # Sentinel
    /\ ~IsFrame(Shutdown) /\ ~IsFrame(Sentinel)
    /\ \A p \in Packets : IsFrame(p) \/ p = Shutdown \/ p = Sentinel
    /\ \A p \in Packets : IsFrame(p) => p.frame \in Nat
BY DEF Packets, Shutdown, Sentinel, IsFrame

Puts(o, p, r) == r = [o EXCEPT !.queue = Append(@, p)]
LEMMA QueuePut ==
    ASSUME NEW low, NEW o, OrbOk(o, low), NEW p \in {Shutdown, Sentinel}, NEW r, Puts(o, p, r),
           p = Shutdown => Shutdown \notin ToSet(o.queue)
    PROVE  /\ OrbOk(r, low) /\ r.raised = o.raised /\ r.stop = o.stop /\ r.failure = o.failure
           /\ r.accepted = o.accepted /\ r.pending = o.pending /\ r.lastImu = o.lastImu
           /\ ToSet(r.queue) = ToSet(o.queue) \cup {p}
<1>0. r = [o EXCEPT !.queue = Append(@, p)]
  BY DEF Puts
<1>1. /\ o \in Orbs /\ IsFiniteSet(o.accepted) /\ (o.raised => o.failure)
      /\ SamplesRise(o) /\ ImagesRise(o) /\ QueueRises(o, low)
      /\ (~o.failure => Kept(o))
  BY DEF OrbOk
<1>2. p \in Packets /\ ~IsFrame(p) /\ o.queue \in Seq(Packets)
  BY <1>1, PacketKinds DEF Orbs
<1> DEFINE n == Len(o.queue)
           queue == Append(o.queue, p)
<1>3. /\ queue \in Seq(Packets) /\ n \in Nat /\ DOMAIN o.queue = 1 .. n /\ DOMAIN queue = 1 .. n + 1
      /\ \A i \in 1 .. n : queue[i] = o.queue[i]
      /\ queue[n + 1] = p /\ ToSet(queue) = ToSet(o.queue) \cup {p}
  BY <1>2, QueueAppend
<1> HIDE DEF n, queue
<1>4. /\ r \in Orbs /\ r.imu = o.imu /\ r.pending = o.pending /\ r.lastImu = o.lastImu /\ r.lastSent = o.lastSent
      /\ r.failure = o.failure /\ r.raised = o.raised /\ r.stop = o.stop
      /\ r.queue = queue /\ r.received = o.received /\ r.accepted = o.accepted /\ r.sent = o.sent
  BY <1>0, <1>1, <1>3 DEF Orbs, queue
<1>5. \A i \in DOMAIN queue : IsFrame(queue[i]) => i \in DOMAIN o.queue /\ queue[i] = o.queue[i]
  <2> TAKE i \in DOMAIN queue
  <2>1. i \in 1 .. n \/ i = n + 1
    BY <1>3
  <2> QED BY <1>2, <1>3, <2>1
<1>5a. OneShutdown(queue)
  <2>1. OneShutdown(o.queue)
    BY <1>1 DEF QueueRises
  <2>2. \A i \in DOMAIN o.queue : o.queue[i] = Shutdown => p # Shutdown
    BY DEF ToSet
  <2>3. \A i \in DOMAIN queue : (i \in DOMAIN o.queue /\ queue[i] = o.queue[i]) \/ (i = n + 1 /\ queue[i] = p)
    <3> TAKE i \in DOMAIN queue
    <3>1. i \in 1 .. n \/ i = n + 1
      BY <1>3
    <3> QED BY <1>3, <3>1
  <2> QED BY <2>1, <2>2, <2>3 DEF OneShutdown
<1>6. QueueRises(r, low)
  BY <1>1, <1>4, <1>5, <1>5a DEF QueueRises
<1>7. SamplesRise(r) /\ ImagesRise(r)
  BY <1>1, <1>4, Zenon DEF SamplesRise, ImagesRise
<1>8. Kept(o) => Kept(r)
  BY <1>4, Zenon DEF Kept
<1> QED BY <1>1, <1>3, <1>4, <1>6, <1>7, <1>8 DEF OrbOk

Takes(o, r) == o.queue # <<>> /\ r = [o EXCEPT !.queue = Tail(@)]
Taken(o, r, low) ==
    /\ Head(o.queue) \in Packets /\ Head(o.queue) \in ToSet(o.queue)
    /\ IsFrame(Head(o.queue)) =>
          Head(o.queue).frame \in o.accepted /\ low < Head(o.queue).frame /\ OrbOk(r, Head(o.queue).frame)
    /\ OrbOk(r, low) /\ r.raised = o.raised /\ r.stop = o.stop /\ r.failure = o.failure
    /\ r.accepted = o.accepted /\ r.pending = o.pending /\ r.lastImu = o.lastImu
    /\ ToSet(r.queue) \subseteq ToSet(o.queue) /\ (Head(o.queue) = Shutdown => Shutdown \notin ToSet(r.queue))

LEMMA QueueTaken ==
    ASSUME NEW low \in Nat, NEW o, OrbOk(o, low), NEW r, Takes(o, r)
    PROVE  Taken(o, r, low)
<1>0. o.queue # <<>> /\ r = [o EXCEPT !.queue = Tail(@)]
  BY DEF Takes
<1>1. /\ o \in Orbs /\ IsFiniteSet(o.accepted) /\ (o.raised => o.failure)
      /\ SamplesRise(o) /\ ImagesRise(o) /\ QueueRises(o, low)
      /\ (~o.failure => Kept(o))
  BY DEF OrbOk
<1>2. o.queue \in Seq(Packets) /\ o.accepted \in SUBSET Nat /\ o.lastSent \in Nat
  BY <1>1 DEF Orbs
<1> DEFINE n == Len(o.queue)
           queue == Tail(o.queue)
           head == Head(o.queue)
<1>3. /\ head \in Packets /\ queue \in Seq(Packets) /\ n \in Nat \ {0} /\ DOMAIN o.queue = 1 .. n
      /\ Len(queue) = n - 1 /\ \A i \in 1 .. Len(queue) : queue[i] = o.queue[i + 1]
  BY <1>0, <1>2, HeadTailProperties, LenProperties, EmptySeq
<1>3a. DOMAIN queue = 1 .. n - 1 /\ head = o.queue[1]
  BY <1>2, <1>3, LenProperties
<1> HIDE DEF n, queue, head
<1>4. \A i \in DOMAIN queue : i \in Nat /\ i + 1 \in DOMAIN o.queue /\ 1 < i + 1 /\ queue[i] = o.queue[i + 1]
  BY <1>3, <1>3a
<1>5. 1 \in DOMAIN o.queue
  BY <1>3
<1>6. /\ r \in Orbs /\ r.imu = o.imu /\ r.pending = o.pending /\ r.lastImu = o.lastImu /\ r.lastSent = o.lastSent
      /\ r.failure = o.failure /\ r.raised = o.raised /\ r.stop = o.stop
      /\ r.queue = queue /\ r.received = o.received /\ r.accepted = o.accepted /\ r.sent = o.sent
  BY <1>0, <1>1, <1>3 DEF Orbs, queue
<1>6a. OneShutdown(queue) /\ (head = Shutdown => Shutdown \notin ToSet(queue))
  <2>1. OneShutdown(o.queue)
    BY <1>1 DEF QueueRises
  <2>2. \A i, j \in DOMAIN queue : i + 1 = j + 1 => i = j
    BY <1>4
  <2>3. ASSUME head = Shutdown, Shutdown \in ToSet(queue)
        PROVE  FALSE
    <3>1. PICK i \in DOMAIN queue : queue[i] = Shutdown
      BY <2>3 DEF ToSet
    <3>2. i + 1 \in DOMAIN o.queue /\ 1 < i + 1 /\ o.queue[i + 1] = Shutdown /\ i \in Nat
      BY <1>4, <3>1
    <3>3. i + 1 = 1
      BY <1>3a, <1>5, <2>1, <2>3, <3>2 DEF OneShutdown
    <3> QED BY <3>2, <3>3
  <2> QED BY <1>4, <2>1, <2>2, <2>3 DEF OneShutdown
<1>7. QueueRises(r, low)
  <2>1. \A i, j \in DOMAIN queue : i < j => i + 1 < j + 1
    BY <1>4
  <2> QED BY <1>1, <1>4, <1>6, <1>6a, <2>1 DEF QueueRises
<1>8. ASSUME IsFrame(head)
      PROVE  head.frame \in o.accepted /\ low < head.frame /\ QueueRises(r, head.frame)
  <2>1. head.frame \in o.accepted /\ low < head.frame
    BY <1>1, <1>3a, <1>5, <1>8 DEF QueueRises
  <2>2. head.frame <= o.lastSent
    BY <1>1, <2>1 DEF ImagesRise
  <2>3. \A i \in DOMAIN queue : IsFrame(queue[i]) => head.frame < queue[i].frame
    BY <1>1, <1>3a, <1>4, <1>5, <1>8 DEF QueueRises
  <2> QED BY <1>6, <1>6a, <1>7, <2>1, <2>2, <2>3 DEF QueueRises
<1>9. SamplesRise(r) /\ ImagesRise(r)
  BY <1>1, <1>6, Zenon DEF SamplesRise, ImagesRise
<1>10. Kept(o) => Kept(r)
  BY <1>6, Zenon DEF Kept
<1>11. OrbOk(r, low) /\ (IsFrame(head) => OrbOk(r, head.frame))
  BY <1>1, <1>6, <1>7, <1>8, <1>9, <1>10 DEF OrbOk
<1>12. head \in ToSet(o.queue) /\ ToSet(queue) \subseteq ToSet(o.queue)
  BY <1>3a, <1>4, <1>5 DEF ToSet
<1> QED BY <1>3, <1>6, <1>6a, <1>8, <1>11, <1>12 DEF head, Taken

-----------------------------------------------------------------------------
(* The other steps, and what the cameras have sent.                         *)

\* What every step but a callback does.
OthersMove ==
    /\ program' = program
    /\ sensors'.gyro = sensors.gyro /\ sensors'.stereo = sensors.stereo /\ combiner'.gyro \subseteq combiner.gyro
    /\ OrbOk(orb', Low') /\ ~orb'.raised /\ orb.accepted \subseteq orb'.accepted
    /\ orb'.accepted \cup ToSet(orb'.pending) \subseteq orb.accepted \cup ToSet(orb.pending)
    /\ orb'.lastImu = orb.lastImu
    /\ program = "pair" => orb'.pending = <<>>

LEMMA OthersKeepCameras ==
    ASSUME Types, CamerasInv, OthersMove
    PROVE  CamerasInv'
<1>1. \A f \in orb'.accepted \cup ToSet(orb'.pending) : f <= sensors'.stereo
  BY CamerasFacts DEF OthersMove
<1>2. \A i \in DOMAIN orb'.pending : orb'.pending[i] \in ToSet(orb'.pending)
  BY DEF ToSet
<1>3. \A i \in DOMAIN orb'.pending : orb'.pending[i] <= sensors'.stereo
  BY <1>1, <1>2
<1> QED BY <1>1, <1>3 DEF CamerasInv, OthersMove

LEMMA CallbacksKeepCameras ==
    ASSUME Types, CamerasInv, CamerasMove
    PROVE  CamerasInv'
<1>1. Low' = Low
  BY DEF CamerasMove, Low, Holds
<1>2. \A i \in DOMAIN orb'.pending : orb'.pending[i] \in ToSet(orb'.pending)
  BY DEF ToSet
<1>3. \A i \in DOMAIN orb'.pending : orb'.pending[i] <= sensors'.stereo
  BY <1>2 DEF CamerasMove
<1>4. OrbOk(orb', Low') /\ ~orb'.raised /\ (\A f \in orb'.accepted : f <= sensors'.stereo) /\ orb'.lastImu <= sensors'.gyro
  BY <1>1 DEF CamerasMove
<1>5. program' = program
  BY DEF CamerasMove
<1> QED BY <1>3, <1>4, <1>5 DEF CamerasInv, CamerasMove

\* Steps that leave OrbSlam3LiveProcess as it is, and the frame its child has read.
LEMMA Untouched ==
    ASSUME Types, CamerasInv, program' = program, orb' = orb, writer' = writer, child'.frame = child.frame,
           sensors'.gyro = sensors.gyro, sensors'.stereo = sensors.stereo, combiner'.gyro \subseteq combiner.gyro
    PROVE  OthersMove
<1>1. Low' = Low
  BY DEF Low, Holds
<1> QED BY <1>1, CamerasFacts DEF OthersMove, CamerasInv

\* Steps that change its flags or its queue.
LEMMA Touched ==
    ASSUME Types, CamerasInv, program' = program, OrbOk(orb', Low'), orb'.raised = orb.raised,
           orb'.accepted = orb.accepted, orb'.pending = orb.pending, orb'.lastImu = orb.lastImu,
           sensors' = sensors, combiner' = combiner
    PROVE  OthersMove
BY CamerasFacts DEF OthersMove, CamerasInv

FlagsOnly(o, r) ==
    /\ r \in Orbs /\ r.imu = o.imu /\ r.pending = o.pending /\ r.lastImu = o.lastImu /\ r.lastSent = o.lastSent
    /\ r.queue = o.queue /\ r.received = o.received /\ r.accepted = o.accepted /\ r.sent = o.sent
    /\ r.raised = o.raised /\ (o.failure => r.failure)

LEMMA FlagsSet ==
    ASSUME NEW o, NEW low, OrbOk(o, low), NEW r, FlagsOnly(o, r)
    PROVE  OrbOk(r, low)
<1>1. o.raised => o.failure
  BY DEF OrbOk
<1> QED BY <1>1, FlagsOk DEF FlagsOnly

LEMMA WriterGetsMoves ==
    ASSUME Types, CamerasInv, ShutdownInv, WriterGets
    PROVE  /\ OthersMove
           /\ IsFrame(Head(orb.queue)) => Head(orb.queue).frame \in orb.accepted /\ child.frame < Head(orb.queue).frame
           /\ Head(orb.queue) \in Packets /\ Head(orb.queue) \in ToSet(orb.queue)
           /\ ToSet(orb'.queue) \subseteq ToSet(orb.queue) /\ orb'.accepted = orb.accepted
           /\ (Head(orb.queue) = Shutdown => Shutdown \notin ToSet(orb'.queue))
<1> DEFINE p == Head(orb.queue)
<1>1. /\ writer.pc = "get" /\ orb.queue # <<>> /\ orb' = [orb EXCEPT !.queue = Tail(@)]
      /\ writer'.packet = p /\ (IsFrame(p) => writer'.pc \in {"dead", "write"})
      /\ UNCHANGED <<program, sensors, combiner, feed, child, reader, poses, main, world, stopped, faults>>
  BY PacketKinds DEF WriterGets
<1>2. Low = child.frame /\ Low \in Nat /\ OrbOk(orb, Low)
  BY <1>1, CamerasFacts DEF Low, Holds
<1>3. /\ p \in Packets /\ p \in ToSet(orb.queue)
      /\ (IsFrame(p) => p.frame \in orb.accepted /\ Low < p.frame /\ OrbOk(orb', p.frame))
      /\ OrbOk(orb', Low) /\ orb'.raised = orb.raised
      /\ orb'.accepted = orb.accepted /\ orb'.pending = orb.pending /\ orb'.lastImu = orb.lastImu
      /\ ToSet(orb'.queue) \subseteq ToSet(orb.queue) /\ (p = Shutdown => Shutdown \notin ToSet(orb'.queue))
  <2>1. Takes(orb, orb')
    BY <1>1 DEF Takes
  <2>2. Low \in Nat /\ OrbOk(orb, Low)
    BY <1>2
  <2>3. Taken(orb, orb', Low)
    BY <2>1, <2>2, QueueTaken
  <2> QED BY <2>3, Zenon DEF Taken
<1> HIDE DEF p
<1>4. Low' = IF IsFrame(p) THEN p.frame ELSE child.frame
  BY <1>1 DEF Low, Holds
<1>5. OrbOk(orb', Low')
  BY <1>2, <1>3, <1>4
<1>6. OthersMove
  BY <1>1, <1>3, <1>5, Touched
<1>7. IsFrame(p) => p.frame \in orb.accepted /\ child.frame < p.frame
  BY <1>2, <1>3
<1>8. p \in Packets /\ p \in ToSet(orb.queue)
  BY <1>3, Zenon
<1>9. ToSet(orb'.queue) \subseteq ToSet(orb.queue) /\ orb'.accepted = orb.accepted
  BY <1>3, Zenon
<1>10. p = Shutdown => Shutdown \notin ToSet(orb'.queue)
  BY <1>3, Zenon
<1> QED BY <1>6, <1>7, <1>8, <1>9, <1>10, Zenon DEF p

LEMMA WriterWritesMoves ==
    ASSUME Types, CamerasInv, ShutdownInv, WriterWrites
    PROVE  /\ OthersMove
           /\ orb'.accepted = orb.accepted /\ orb'.queue = orb.queue /\ orb'.pending = orb.pending
           /\ (orb.failure => orb'.failure)
<1>1. /\ writer.pc = "write" /\ writer \in [pc : {"get", "write", "done", "dead"}, packet : Packets]
      /\ UNCHANGED <<program, sensors, combiner, feed, reader, poses, main, world, stopped, faults>>
  BY DEF WriterWrites, Types
<1>2. OrbOk(orb, Low) /\ orb \in Orbs /\ child.frame \in Nat
  BY CamerasFacts DEF Types
<1>3. child \in [pc : {"none", "loading", "idle", "track", "exited"}, frame : Nat, code : {0, 1},
                  input : {"open", "ending", "closed"}, map : Nat \ {0}, born : Nat, unseen : BOOLEAN,
                  ready : BOOLEAN]
  BY DEF Types
<1>4. CASE /\ child.pc = "exited" /\ writer' = [writer EXCEPT !.pc = "dead"]
           /\ orb' = [orb EXCEPT !.failure = @ \/ ~orb.stop] /\ UNCHANGED child
  <2>1. Low' = Low
    BY <1>1, <1>4 DEF Low, Holds
  <2>2. FlagsOnly(orb, orb')
    BY <1>2, <1>4 DEF FlagsOnly, Orbs
  <2>3. OrbOk(orb', Low)
    BY <1>2, <2>2, FlagsSet
  <2> QED BY <1>1, <2>1, <2>2, <2>3, Touched DEF FlagsOnly
<1>5. CASE /\ child.pc # "exited" /\ writer.packet = Shutdown /\ writer' = [writer EXCEPT !.pc = "get"]
           /\ child' = [child EXCEPT !.input = "ending"] /\ UNCHANGED orb
  <2>1. child'.frame = child.frame /\ writer'.pc = "get"
    BY <1>1, <1>3, <1>5
  <2>2. Low' = Low
    BY <1>1, <1>5, <2>1, PacketKinds DEF Low, Holds
  <2> QED BY <1>1, <1>2, <1>5, <2>2, Touched
<1>6. CASE /\ child.pc = "idle" /\ writer.packet # Shutdown /\ writer' = [writer EXCEPT !.pc = "get"]
           /\ child' = [child EXCEPT !.pc = "track", !.frame = writer.packet.frame] /\ UNCHANGED orb
  <2>1. IsFrame(writer.packet)
    BY <1>1, <1>6, PacketKinds DEF ShutdownInv, Holds
  <2>2. child'.frame = writer.packet.frame /\ writer'.pc = "get"
    BY <1>1, <1>3, <1>6
  <2>3. Low' = Low
    BY <1>1, <2>1, <2>2 DEF Low, Holds
  <2> QED BY <1>1, <1>2, <1>6, <2>3, Touched
<1> QED BY <1>4, <1>5, <1>6 DEF WriterWrites

\* The flags of OrbSlam3LiveProcess, set by a step that leaves the pipe as it is.
LEMMA FlagsMove ==
    ASSUME Types, CamerasInv, FlagsOnly(orb, orb'), UNCHANGED <<program, sensors, combiner, writer, child>>
    PROVE  OthersMove
<1>1. Low' = Low
  BY DEF Low, Holds
<1>2. OrbOk(orb', Low)
  BY CamerasFacts, FlagsSet
<1> QED BY <1>1, <1>2, Touched DEF FlagsOnly

LEMMA EndReaderMoves ==
    ASSUME Types, CamerasInv, EndReader
    PROVE  OthersMove /\ FlagsOnly(orb, orb')
<1>1. orb \in Orbs
  BY DEF Types
<1>2. /\ orb' = [orb EXCEPT !.failure = @ \/ ~orb.stop]
      /\ UNCHANGED <<program, sensors, combiner, writer, child>>
  BY DEF EndReader
<1>3. FlagsOnly(orb, orb')
  BY <1>1, <1>2 DEF FlagsOnly, Orbs
<1> QED BY <1>2, <1>3, FlagsMove

\* The steps of main that ask the threads to stop.
LEMMA StopMoves ==
    ASSUME Types, CamerasInv, orb' = [orb EXCEPT !.stop = TRUE],
           UNCHANGED <<program, sensors, combiner, writer, child>>
    PROVE  OthersMove /\ FlagsOnly(orb, orb')
<1>1. orb \in Orbs
  BY DEF Types
<1>3. FlagsOnly(orb, orb')
  BY <1>1 DEF FlagsOnly, Orbs
<1> QED BY <1>3, FlagsMove

\* finish_input gives ORB every image that the last samples cover.
LEMMA FinishInputMoves ==
    ASSUME Types, CamerasInv, FinishInput
    PROVE  /\ OthersMove /\ Follows(orb, orb', {}) /\ (main'.pc = "settle" => Late(orb') /\ program = "hil")
           /\ orb.accepted \subseteq orb'.accepted
<1> DEFINE o == Drain(orb, 0)
<1>1. /\ orb' = [o EXCEPT !.raised = FALSE]
      /\ (main'.pc = "settle" => ~o.raised /\ program # "pair")
      /\ UNCHANGED <<program, sensors, combiner, writer, child>>
  <2>1. main \in [pc : Positions, raised : BOOLEAN, returned : Nat, transport : BOOLEAN,
                  status : {"none", "ending", "FAIL", "PROVISIONAL_LIVE_LOCAL_PASS"}]
    BY DEF Types
  <2> HIDE DEF o
  <2>2. /\ orb' = [o EXCEPT !.raised = FALSE]
        /\ main' = [main EXCEPT !.pc = IF o.raised \/ child.pc = "none" THEN "exit"
                                       ELSE IF program = "pair" THEN "stop" ELSE "settle",
                                !.raised = @ \/ o.raised]
        /\ UNCHANGED <<program, sensors, combiner, writer, child>>
    BY DEF FinishInput, o
  <2> QED BY <2>1, <2>2
<1>2. OrbOk(orb, Low) /\ Low \in Nat /\ 0 \in Nat /\ program \in {"pair", "hil"}
  BY CamerasFacts DEF Types
<1>3. OrbOk(o, Low) /\ Follows(orb, o, {}) /\ o.lastImu = orb.lastImu /\ (o.raised \/ ~Ready(o, 0))
  <2> HIDE DEF o
  <2> QED BY <1>2, DrainOk DEF o
<1>4. program = "pair" => o = orb
  BY DrainNone DEF CamerasInv
<1> HIDE DEF o
<1>5. /\ OrbOk(orb', Low) /\ ~orb'.raised /\ Follows(o, orb', {})
      /\ orb'.pending = o.pending /\ orb'.lastImu = o.lastImu /\ orb'.accepted = o.accepted
  BY <1>1, <1>3, HandledOk
<1>6. Follows(orb, orb', {})
  BY <1>3, <1>5, FollowsFollows
<1>7. Low' = Low
  BY <1>1 DEF Low, Holds
<1>8. program = "pair" => orb'.pending = <<>>
  BY <1>4, <1>5 DEF CamerasInv
<1>9. OthersMove
  <2>1. sensors'.gyro = sensors.gyro /\ sensors'.stereo = sensors.stereo /\ combiner'.gyro \subseteq combiner.gyro
    BY <1>1
  <2> QED BY <1>1, <1>3, <1>5, <1>6, <1>7, <1>8, <2>1 DEF OthersMove, Follows
<1>10. ASSUME ~o.raised PROVE Late(orb')
  <2>1. ~Ready(o, 0) /\ o.pending \in Seq(Nat) /\ o.lastImu \in Nat /\ Rising(o.pending)
    BY <1>3, <1>10 DEF OrbOk, Orbs, ImagesRise
  <2>2. SUFFICES ASSUME o.pending # <<>> PROVE Late(orb')
    BY <1>5 DEF Late
  <2>3. Head(o.pending) = o.pending[1] /\ Head(o.pending) \in Nat /\ o.lastImu < Head(o.pending)
    BY <2>1, <2>2, RisingTail DEF Ready
  <2>4. ASSUME NEW i \in DOMAIN o.pending PROVE o.pending[i] > o.lastImu
    <3>1. i \in Nat \ {0} /\ 1 \in DOMAIN o.pending /\ o.pending[i] \in Nat
      BY <2>1, <2>2, <2>4
    <3> QED BY <2>1, <2>3, <2>4, <3>1 DEF Rising
  <2> QED BY <1>5, <2>4 DEF Late
<1> QED BY <1>1, <1>2, <1>6, <1>9, <1>10 DEF OthersMove

\* The packets that main puts into the queue.
LEMMA QueueMoves ==
    ASSUME Types, CamerasInv, NEW p \in {Shutdown, Sentinel}, Puts(orb, p, orb'),
           UNCHANGED <<program, sensors, combiner, writer>>, child'.frame = child.frame,
           p = Shutdown => Shutdown \notin ToSet(orb.queue)
    PROVE  /\ OthersMove /\ orb'.accepted = orb.accepted /\ orb'.pending = orb.pending /\ orb'.lastImu = orb.lastImu
           /\ ToSet(orb'.queue) = ToSet(orb.queue) \cup {p} /\ orb'.stop = orb.stop /\ orb'.failure = orb.failure
<1>1. Low' = Low
  BY DEF Low, Holds
<1>2. OrbOk(orb, Low)
  BY CamerasFacts
<1>3. /\ OrbOk(orb', Low) /\ orb'.raised = orb.raised /\ orb'.accepted = orb.accepted /\ orb'.pending = orb.pending
      /\ orb'.lastImu = orb.lastImu /\ ToSet(orb'.queue) = ToSet(orb.queue) \cup {p}
      /\ orb'.stop = orb.stop /\ orb'.failure = orb.failure
  BY <1>2, QueuePut
<1> QED BY <1>1, <1>3, Touched

LEMMA PutShutdownMoves ==
    ASSUME Types, CamerasInv, ShutdownInv, PutShutdown
    PROVE  /\ OthersMove /\ orb'.accepted = orb.accepted /\ orb'.pending = orb.pending /\ orb'.lastImu = orb.lastImu
           /\ \/ main'.pc = "join" /\ ToSet(orb'.queue) = ToSet(orb.queue) \cup {Shutdown}
              \/ main'.pc = "close" /\ orb' = orb
<1>1. /\ UNCHANGED <<program, sensors, combiner, writer>> /\ child' = child
      /\ main.pc = "put"
      /\ \/ orb' = [orb EXCEPT !.queue = Append(@, Shutdown)] /\ main' = [main EXCEPT !.pc = "join"]
         \/ orb' = orb /\ main' = [main EXCEPT !.pc = "close"]
  BY DEF PutShutdown, Goto
<1>2. main \in [pc : Positions, raised : BOOLEAN, returned : Nat, transport : BOOLEAN,
                status : {"none", "ending", "FAIL", "PROVISIONAL_LIVE_LOCAL_PASS"}]
  BY DEF Types
<1>3. CASE orb' = [orb EXCEPT !.queue = Append(@, Shutdown)] /\ main' = [main EXCEPT !.pc = "join"]
  <2>1. UNCHANGED <<program, sensors, combiner, writer>> /\ child'.frame = child.frame
    BY <1>1
  <2>2. Puts(orb, Shutdown, orb')
    BY <1>3 DEF Puts
  <2>2a. Shutdown \notin ToSet(orb.queue)
    BY <1>1 DEF ShutdownInv
  <2>3. /\ OthersMove /\ orb'.accepted = orb.accepted /\ orb'.pending = orb.pending /\ orb'.lastImu = orb.lastImu
        /\ ToSet(orb'.queue) = ToSet(orb.queue) \cup {Shutdown}
    BY <2>1, <2>2, <2>2a, QueueMoves
  <2> QED BY <1>2, <1>3, <2>3
<1>4. CASE orb' = orb /\ main' = [main EXCEPT !.pc = "close"]
  <2>1. OthersMove
    BY <1>1, <1>4, Untouched
  <2> QED BY <1>2, <1>4, <2>1
<1> QED BY <1>1, <1>3, <1>4

LEMMA CloseInputMoves ==
    ASSUME Types, CamerasInv, CloseInput
    PROVE  /\ OthersMove /\ orb'.accepted = orb.accepted /\ orb'.pending = orb.pending /\ orb'.lastImu = orb.lastImu
           /\ ToSet(orb'.queue) \subseteq ToSet(orb.queue) \cup {Sentinel}
<1>1. /\ UNCHANGED <<program, sensors, combiner, writer>> /\ child' = [child EXCEPT !.input = "closed"]
      /\ orb' = [orb EXCEPT !.queue = IF Len(@) < QueueDepth THEN Append(@, Sentinel) ELSE @]
  BY DEF CloseInput
<1>2. orb \in Orbs /\ child'.frame = child.frame
  BY <1>1 DEF Types
<1>3. CASE Len(orb.queue) < QueueDepth
  <2>1. Puts(orb, Sentinel, orb')
    BY <1>1, <1>3 DEF Puts
  <2>2. /\ OthersMove /\ orb'.accepted = orb.accepted /\ orb'.pending = orb.pending /\ orb'.lastImu = orb.lastImu
        /\ ToSet(orb'.queue) = ToSet(orb.queue) \cup {Sentinel}
    <3> HIDE <1>3
    <3> QED BY <1>1, <1>2, <2>1, QueueMoves, PacketKinds
  <2> QED BY <2>2
<1>4. CASE ~(Len(orb.queue) < QueueDepth)
  <2>1. orb' = orb
    BY <1>1, <1>2, <1>4 DEF Orbs
  <2> QED BY <1>1, <1>2, <2>1, Untouched
<1> QED BY <1>3, <1>4

\* Every other step leaves OrbSlam3LiveProcess as it is.
IdleSteps ==
    \/ CallbackRaises \/ Child \/ Ba2Completes \/ ChildCrashes \/ Start \/ (Await /\ orb' = orb) \/ StartSensors
    \/ NextPhase \/ LoopTop \/ DrainPose \/ Poll \/ Search \/ CloseSensors \/ Settle \/ JoinQueue \/ Reap \/ Report
    \/ StopRequested

LEMMA IdleMoves ==
    ASSUME Types, CamerasInv, IdleSteps
    PROVE  OthersMove /\ orb' = orb /\ program' = program
<1>1. child \in [pc : {"none", "loading", "idle", "track", "exited"}, frame : Nat, code : {0, 1},
                  input : {"open", "ending", "closed"}, map : Nat \ {0}, born : Nat, unseen : BOOLEAN,
                  ready : BOOLEAN]
  BY DEF Types
<1>2. sensors \in [gyro : Nat, accel : Nat, stereo : Nat, running : BOOLEAN]
  BY DEF Types
<1>3. program' = program /\ orb' = orb /\ writer' = writer
  BY DEF IdleSteps, CallbackRaises, Child, ChildLoads, ChildTracks, ChildEnds, Ba2Completes, ChildCrashes, Start, Await,
         StartSensors, NextPhase, LoopTop, DrainPose, Poll, Search, CloseSensors, Settle, JoinQueue, Reap, Report,
         StopRequested
<1>4. sensors'.gyro = sensors.gyro /\ sensors'.stereo = sensors.stereo
  <2>1. sensors' \in {sensors, [sensors EXCEPT !.running = TRUE], [sensors EXCEPT !.running = FALSE]}
    BY DEF IdleSteps, CallbackRaises, Child, ChildLoads, ChildTracks, ChildEnds, Ba2Completes, ChildCrashes, Start, Await,
           StartSensors, NextPhase, LoopTop, DrainPose, Poll, Search, CloseSensors, Settle, JoinQueue, Reap, Report,
           StopRequested
  <2> QED BY <1>2, <2>1
<1>5. combiner'.gyro \subseteq combiner.gyro
  <2>1. combiner' = combiner \/ combiner' = [gyro |-> {}, accel |-> {}]
    BY DEF IdleSteps, CallbackRaises, Child, ChildLoads, ChildTracks, ChildEnds, Ba2Completes, ChildCrashes, Start, Await,
           StartSensors, NextPhase, LoopTop, DrainPose, Poll, Search, CloseSensors, Settle, JoinQueue, Reap, Report,
           StopRequested
  <2> QED BY <2>1
<1>6. child'.frame = child.frame
  <2>1. CASE Child \/ Ba2Completes \/ ChildCrashes \/ Start \/ Reap \/ Search
    BY <1>1, <2>1 DEF Child, ChildLoads, ChildTracks, ChildEnds, Ba2Completes, ChildCrashes, Start, Reap, Search
  <2>2. CASE LoopTop \/ DrainPose \/ Poll
    BY <1>1, <2>2 DEF LoopTop, DrainPose, Poll, Leave
  <2>3. CASE \/ CallbackRaises \/ (Await /\ orb' = orb) \/ StartSensors \/ NextPhase \/ CloseSensors \/ Settle
             \/ JoinQueue \/ Report \/ StopRequested
    BY <2>3 DEF CallbackRaises, Await, StartSensors, NextPhase, CloseSensors, Settle, JoinQueue, Report, StopRequested
  <2> QED BY <2>1, <2>2, <2>3 DEF IdleSteps
<1> QED BY <1>3, <1>4, <1>5, <1>6, Untouched

\* A step is one of a camera, of a thread or main on OrbSlam3LiveProcess, or of others.
LEMMA Steps ==
    ASSUME Next
    PROVE  \/ Gyro \/ Accel \/ Stereo \/ StereoAndSamples \/ IdleSteps
           \/ WriterGets \/ WriterWrites \/ EndReader \/ FinishInput \/ Stop \/ PutShutdown \/ CloseInput
           \/ (Await /\ orb' = [orb EXCEPT !.stop = TRUE])
BY DEF Next, Callbacks, Threads, Child, Main, IdleSteps, ReaderEnds, ReaderFails, Await

LEMMA CamerasStep ==
    ASSUME LiveInv, Next
    PROVE  CamerasInv' /\ (CamerasMove \/ OthersMove)
<1>1. Types /\ CamerasInv /\ ShutdownInv
  BY DEF LiveInv
<1>2. CamerasMove => CamerasInv'
  BY <1>1, CallbacksKeepCameras
<1>3. OthersMove => CamerasInv'
  BY <1>1, OthersKeepCameras
<1>4. CASE Gyro \/ Accel \/ Stereo \/ StereoAndSamples
  BY <1>1, <1>2, <1>4, GyroMoves, AccelMoves, StereoMoves, StereoAndSamplesMoves
<1>5. CASE IdleSteps
  BY <1>1, <1>3, <1>5, IdleMoves
<1>6. CASE WriterGets \/ WriterWrites \/ EndReader
  BY <1>1, <1>3, <1>6, WriterGetsMoves, WriterWritesMoves, EndReaderMoves
<1>7. CASE FinishInput \/ PutShutdown \/ CloseInput
  BY <1>1, <1>3, <1>7, FinishInputMoves, PutShutdownMoves, CloseInputMoves
<1>8. CASE Stop \/ (Await /\ orb' = [orb EXCEPT !.stop = TRUE])
  <2>1. UNCHANGED <<program, sensors, combiner, writer, child>> /\ orb' = [orb EXCEPT !.stop = TRUE]
    BY <1>8 DEF Stop, Await
  <2> QED BY <1>1, <1>3, <2>1, StopMoves
<1> QED BY <1>4, <1>5, <1>6, <1>7, <1>8, Steps

-----------------------------------------------------------------------------
(* Types.                                                                   *)

WriterType == [pc : {"get", "write", "done", "dead"}, packet : Packets]
ChildType ==
    [pc : {"none", "loading", "idle", "track", "exited"}, frame : Nat, code : {0, 1},
     input : {"open", "ending", "closed"}, map : Nat \ {0}, born : Nat, unseen : BOOLEAN, ready : BOOLEAN]
ReaderType == [pc : {"run", "done"}, received : Seq(Nat)]
MainType ==
    [pc : Positions, raised : BOOLEAN, returned : Nat, transport : BOOLEAN,
     status : {"none", "ending", "FAIL", "PROVISIONAL_LIVE_LOCAL_PASS"}]
WorldType ==
    [ready : BOOLEAN, odometry : SUBSET [time : Nat, map : Nat \ {0}], window : Seq(Nat \ {0}),
     anchor : Nat, rows : SUBSET (Nat \ {0})]

LEMMA AllTypes ==
    Types <=>
      /\ program \in {"pair", "hil"} /\ sensors \in SensorsType /\ combiner \in CombinerType /\ feed \in FeedType
      /\ orb \in Orbs /\ writer \in WriterType /\ child \in ChildType /\ reader \in ReaderType /\ poses \in Seq(Poses)
      /\ main \in MainType /\ world \in WorldType
BY DEF Types, SensorsType, CombinerType, FeedType, WriterType, ChildType, ReaderType, MainType, WorldType

LEMMA CallbacksMove ==
    ASSUME Types, CamerasInv, Callbacks
    PROVE  CamerasMove
BY GyroMoves, AccelMoves, StereoMoves, StereoAndSamplesMoves, CallbackRaisesMoves DEF Callbacks

\* A window keeps the maps of its candidates; an anchor is one of them.
LEMMA AddedTypes ==
    ASSUME world \in WorldType, NEW candidate \in Nat \ {0}, NEW w \in Added(candidate)
    PROVE  /\ w \in WorldType /\ w.ready = world.ready /\ w.odometry = world.odometry /\ w.rows = world.rows
           /\ \/ w.window = Append(world.window, candidate) /\ w.anchor = world.anchor
              \/ /\ w.window = <<>>
                 /\ w.anchor \in IF world.anchor # None THEN {world.anchor}
                                 ELSE {None} \cup ToSet(Append(world.window, candidate))
<1> DEFINE batch == Append(world.window, candidate)
<1>1. world.window \in Seq(Nat \ {0}) /\ world.anchor \in Nat
  BY DEF WorldType
<1>2. batch \in Seq(Nat \ {0}) /\ ToSet(batch) \subseteq Nat \ {0}
  <2>1. batch \in Seq(Nat \ {0})
    BY <1>1, AppendProperties
  <2> HIDE DEF batch
  <2> QED BY <2>1, Members
<1>3. Decisions(batch) \subseteq IF world.anchor # None THEN {world.anchor} ELSE {None} \cup ToSet(batch)
  BY DEF Decisions
<1>4. Decisions(batch) \subseteq Nat
  BY <1>1, <1>2, <1>3 DEF None
<1>5. w = [world EXCEPT !.window = batch] \/ \E a \in Decisions(batch) : w = [world EXCEPT !.window = <<>>, !.anchor = a]
  <2> HIDE DEF batch
  <2> QED BY DEF Added, batch
<1> HIDE DEF batch
<1>6. CASE w = [world EXCEPT !.window = batch]
  BY <1>2, <1>6 DEF WorldType, batch
<1>7. CASE \E a \in Decisions(batch) : w = [world EXCEPT !.window = <<>>, !.anchor = a]
  <2>1. PICK a \in Decisions(batch) : w = [world EXCEPT !.window = <<>>, !.anchor = a]
    BY <1>7
  <2>2. a \in Nat /\ <<>> \in Seq(Nat \ {0})
    BY <1>4, EmptySeq
  <2>3. w \in WorldType /\ w.window = <<>> /\ w.anchor = a
        /\ w.ready = world.ready /\ w.odometry = world.odometry /\ w.rows = world.rows
    BY <2>1, <2>2 DEF WorldType
  <2> QED BY <1>3, <2>3 DEF batch
<1> QED BY <1>5, <1>6, <1>7

LEMMA LeaveTypes ==
    ASSUME Types, NEW raised \in BOOLEAN, Leave(raised)
    PROVE  /\ main' \in MainType /\ poses' \in Seq(Poses) /\ world' \in WorldType /\ child' \in ChildType
           /\ feed' \in FeedType
           /\ main'.pc = "closing" /\ main'.transport = main.transport /\ main'.status = main.status
           /\ world'.anchor = world.anchor /\ world'.rows = world.rows /\ world'.window = <<>>
           /\ child'.pc = child.pc /\ child'.frame = child.frame /\ child'.code = child.code
           /\ child'.input = child.input
<1>1. /\ feed \in FeedType /\ child \in ChildType /\ main \in MainType /\ world \in WorldType
  BY AllTypes
<1>2. main' \in MainType /\ main'.pc = "closing" /\ main'.transport = main.transport /\ main'.status = main.status
  BY <1>1 DEF Leave, MainType, Positions, None
<1>3. poses' \in Seq(Poses)
  BY EmptySeq DEF Leave
<1>4. /\ world' \in WorldType
      /\ world'.anchor = world.anchor /\ world'.rows = world.rows /\ world'.window = <<>>
  <2>1. <<>> \in Seq(Nat \ {0})
    BY EmptySeq
  <2> QED BY <1>1, <2>1 DEF Leave, WorldType
<1>5. /\ child' \in ChildType /\ child'.pc = child.pc /\ child'.frame = child.frame /\ child'.code = child.code
      /\ child'.input = child.input
  <2>1. child' = [child EXCEPT !.map = 1, !.born = 0, !.unseen = FALSE, !.ready = FALSE]
    BY DEF Leave, None
  <2>2. child' \in ChildType
    <3>1. child \in ChildType
      BY <1>1
    <3>2. 0 \in Nat /\ 1 \in Nat \ {0} /\ FALSE \in BOOLEAN
      OBVIOUS
    <3>3. [child EXCEPT !.map = 1, !.born = 0] \in ChildType
      BY <3>1, <3>2 DEF ChildType
    <3>4. child' = [[child EXCEPT !.map = 1, !.born = 0] EXCEPT !.unseen = FALSE, !.ready = FALSE]
      BY <2>1
    <3> QED BY <3>2, <3>3, <3>4 DEF ChildType
  <2>3. child'.pc = child.pc /\ child'.frame = child.frame /\ child'.code = child.code /\ child'.input = child.input
    BY <1>1, <2>1 DEF ChildType
  <2> QED BY <2>2, <2>3
<1>6. feed' \in FeedType
  BY <1>1 DEF Leave, FeedType, None
<1> QED BY <1>2, <1>3, <1>4, <1>5, <1>6

LEMMA IngestedTypes ==
    ASSUME world \in WorldType, main \in MainType, NEW pose \in Poses
    PROVE  /\ Ingested(pose) \in WorldType
           /\ Ingested(pose).ready = pose.ready /\ Ingested(pose).window = world.window
           /\ Ingested(pose).anchor = world.anchor
           /\ Ingested(pose).odometry = {o \in world.odometry : o.time + Stale >= main.returned}
                                           \cup {[time |-> pose.frame, map |-> pose.map]}
           /\ Ingested(pose).rows = IF world.anchor # None THEN world.rows \cup {pose.map} ELSE world.rows
<1>1. pose.frame \in Nat /\ pose.map \in Nat \ {0} /\ pose.ready \in BOOLEAN
  BY DEF Poses
<1> DEFINE odometry == {o \in world.odometry : o.time + Stale >= main.returned}
                           \cup {[time |-> pose.frame, map |-> pose.map]}
           rows == IF world.anchor # None THEN world.rows \cup {pose.map} ELSE world.rows
<1>2. odometry \in SUBSET [time : Nat, map : Nat \ {0}] /\ rows \in SUBSET (Nat \ {0})
  BY <1>1 DEF WorldType
<1>3. Ingested(pose) = [world EXCEPT !.ready = pose.ready, !.odometry = odometry, !.rows = rows]
  BY DEF Ingested, WorldType
<1> HIDE DEF odometry, rows
<1>4. /\ Ingested(pose) \in WorldType
      /\ Ingested(pose).ready = pose.ready /\ Ingested(pose).window = world.window
      /\ Ingested(pose).anchor = world.anchor /\ Ingested(pose).odometry = odometry /\ Ingested(pose).rows = rows
  BY <1>1, <1>2, <1>3 DEF WorldType
<1> QED BY <1>4 DEF odometry, rows

\* What the search of an image does to the world.
LEMMA SearchTypes ==
    ASSUME Types, Search
    PROVE  /\ world' \in WorldType /\ world'.ready = world.ready /\ world'.odometry = world.odometry
           /\ world'.rows = world.rows
           /\ \/ world'.window = <<>> /\ world'.anchor = world.anchor
              \/ \E o \in Nearest(main.returned) :
                    /\ world.ready /\ o \in world.odometry
                    /\ \/ world'.window = Append(world.window, o.map) /\ world'.anchor = world.anchor
                       \/ /\ world'.window = <<>>
                          /\ world'.anchor \in IF world.anchor # None THEN {world.anchor}
                                               ELSE {None} \cup ToSet(Append(world.window, o.map))
<1>1. world \in WorldType
  BY AllTypes
<1>2. CASE world' = [world EXCEPT !.window = <<>>]
  <2>1. <<>> \in Seq(Nat \ {0})
    BY EmptySeq
  <2> QED BY <1>1, <1>2, <2>1 DEF WorldType
<1>3. CASE world' \in (IF world.ready THEN UNION {Added(o.map) : o \in Nearest(main.returned)} ELSE {})
  <2>1. PICK o \in Nearest(main.returned) : world.ready /\ world' \in Added(o.map)
    BY <1>3
  <2>2. o \in world.odometry /\ o.map \in Nat \ {0}
    BY <1>1, <2>1 DEF Nearest, WorldType
  <2>3. /\ world' \in WorldType /\ world'.ready = world.ready /\ world'.odometry = world.odometry
        /\ world'.rows = world.rows
        /\ \/ world'.window = Append(world.window, o.map) /\ world'.anchor = world.anchor
           \/ /\ world'.window = <<>>
              /\ world'.anchor \in IF world.anchor # None THEN {world.anchor}
                                   ELSE {None} \cup ToSet(Append(world.window, o.map))
    BY <1>1, <2>1, <2>2, AddedTypes
  <2> QED BY <2>1, <2>2, <2>3
<1> QED BY <1>2, <1>3 DEF Search

LEMMA TypesStep ==
    ASSUME LiveInv, Next, CamerasInv'
    PROVE  Types'
<1>1. Types /\ CamerasInv /\ ShutdownInv
  BY DEF LiveInv
<1> USE DEF None
<1>2. /\ program \in {"pair", "hil"} /\ sensors \in SensorsType /\ combiner \in CombinerType /\ feed \in FeedType
      /\ orb \in Orbs /\ writer \in WriterType /\ child \in ChildType /\ reader \in ReaderType /\ poses \in Seq(Poses)
      /\ main \in MainType /\ world \in WorldType
  BY <1>1, AllTypes
<1>3. orb' \in Orbs
  BY DEF CamerasInv, OrbOk
<1> DEFINE P == /\ program' \in {"pair", "hil"} /\ sensors' \in SensorsType /\ combiner' \in CombinerType
                /\ feed' \in FeedType /\ writer' \in WriterType /\ child' \in ChildType
                /\ reader' \in ReaderType /\ poses' \in Seq(Poses) /\ main' \in MainType /\ world' \in WorldType
<1> SUFFICES P
  BY <1>3 DEF Types, SensorsType, CombinerType, FeedType, WriterType, ChildType, ReaderType, MainType, WorldType
<1>4. CASE Callbacks
  BY <1>1, <1>2, <1>4, CallbacksMove DEF CamerasMove
<1>5. CASE WriterGets
  <2>1. Head(orb.queue) \in Packets
    BY <1>1, <1>5, WriterGetsMoves
  <2> QED BY <1>2, <1>5, <2>1 DEF WriterGets, WriterType
<1>6. CASE WriterWrites
  <2>1. /\ UNCHANGED <<program, sensors, combiner, feed, reader, poses, main, world>>
        /\ \/ writer' = [writer EXCEPT !.pc = "dead"] /\ child' = child
           \/ writer' = [writer EXCEPT !.pc = "get"] /\ child' = [child EXCEPT !.input = "ending"]
           \/ /\ writer' = [writer EXCEPT !.pc = "get"] /\ writer.packet # Shutdown /\ writer.pc = "write"
              /\ child' = [child EXCEPT !.pc = "track", !.frame = writer.packet.frame]
    BY <1>6 DEF WriterWrites
  <2>2. writer.packet # Shutdown /\ writer.pc = "write" => writer.packet.frame \in Nat
    BY <1>1, <1>2, PacketKinds DEF ShutdownInv, Holds, WriterType
  <2>3. writer' \in WriterType
    BY <1>2, <2>1 DEF WriterType
  <2>4. child' \in ChildType
    BY <1>2, <2>1, <2>2 DEF ChildType
  <2> QED BY <1>2, <2>1, <2>3, <2>4
<1>7. CASE EndReader
  BY <1>2, <1>7 DEF EndReader, ReaderType
<1>8. CASE ChildLoads \/ ChildEnds \/ ChildCrashes \/ Ba2Completes
  BY <1>2, <1>8 DEF ChildLoads, ChildEnds, ChildCrashes, Ba2Completes, ChildType
<1>9. CASE ChildTracks
  <2>1. UNCHANGED <<program, sensors, combiner, feed, writer, main, world>>
    BY <1>9 DEF ChildTracks
  <2>2. CASE reader.pc = "done"
    BY <1>2, <1>9, <2>1, <2>2 DEF ChildTracks, ChildType
  <2>3. CASE reader.pc # "done"
    <3>1. PICK reset \in BOOLEAN :
             LET begins == reset \/ child.born = None
                 map    == IF reset THEN child.map + 1 ELSE child.map
                 pose   == [frame |-> child.frame, ready |-> child.ready /\ ~begins, map |-> map]
             IN  /\ child' = IF InLoop
                              THEN [child EXCEPT !.pc = "idle", !.map = map, !.ready = pose.ready,
                                           !.born = IF begins THEN child.frame ELSE @, !.unseen = @ \/ reset]
                              ELSE [child EXCEPT !.pc = "idle"]
                 /\ reader' = [reader EXCEPT !.received = IF program = "hil" THEN Append(@, pose.frame) ELSE @]
                 /\ poses' = IF program = "pair" /\ InLoop THEN Append(poses, pose) ELSE poses
      BY <1>9, <2>3 DEF ChildTracks
    <3> DEFINE begins == reset \/ child.born = None
               map == IF reset THEN child.map + 1 ELSE child.map
               pose == [frame |-> child.frame, ready |-> child.ready /\ ~begins, map |-> map]
    <3>2. map \in Nat \ {0} /\ begins \in BOOLEAN /\ child.frame \in Nat /\ pose \in Poses
      BY <1>2 DEF ChildType, Poses
    <3>3. child' \in ChildType
      BY <1>2, <3>1, <3>2 DEF ChildType
    <3>4. reader' \in ReaderType
      <4>1. Append(reader.received, child.frame) \in Seq(Nat)
        BY <1>2, <3>2, AppendProperties DEF ReaderType
      <4> QED BY <1>2, <3>1, <4>1 DEF ReaderType
    <3>5. poses' \in Seq(Poses)
      <4> HIDE DEF pose
      <4>1. Append(poses, pose) \in Seq(Poses)
        BY <1>2, <3>2, AppendProperties
      <4>2. poses' = poses \/ poses' = Append(poses, pose)
        BY <3>1 DEF pose
      <4> QED BY <1>2, <4>1, <4>2
    <3> QED BY <1>2, <2>1, <3>3, <3>4, <3>5
  <2> QED BY <2>2, <2>3
<1>10. CASE Start \/ Await
  <2>1. UNCHANGED <<program, sensors, combiner, feed, writer, reader, poses, world>>
    BY <1>10 DEF Start, Await
  <2>2. child' \in ChildType
    BY <1>2, <1>10 DEF Start, Await, ChildType
  <2>3. main' \in MainType
    BY <1>2, <1>10 DEF Start, Await, Raise, Goto, MainType, Positions
  <2> QED BY <1>2, <2>1, <2>2, <2>3
<1>10a. CASE StartSensors
  BY <1>2, <1>10a DEF StartSensors, Raise, Goto, MainType, Positions, SensorsType
<1>10b. CASE NextPhase
  BY <1>2, <1>10b DEF NextPhase, CombinerType, FeedType
<1>11. CASE LoopTop
  <2>1. UNCHANGED <<program, sensors, combiner, writer, reader>>
    BY <1>11 DEF LoopTop
  <2>2. Leave(TRUE) \/ Leave(FALSE) \/ (Goto("drain") /\ UNCHANGED <<child, feed, poses, world>>)
    BY <1>11 DEF LoopTop
  <2>3. ASSUME Goto("drain") PROVE main' \in MainType
    BY <1>2, <2>3 DEF Goto, MainType, Positions
  <2> QED BY <1>1, <1>2, <2>1, <2>2, <2>3, LeaveTypes
<1>12. CASE DrainPose
  <2>1. UNCHANGED <<program, sensors, combiner, writer, reader>>
    BY <1>12 DEF DrainPose
  <2>2. \/ Leave(TRUE)
        \/ Goto("poll") /\ UNCHANGED <<feed, child, poses, world>>
        \/ poses # <<>> /\ poses' = Tail(poses) /\ world' = Ingested(Head(poses)) /\ UNCHANGED <<feed, child, main>>
    BY <1>12 DEF DrainPose
  <2>3. ASSUME Goto("poll") PROVE main' \in MainType
    BY <1>2, <2>3 DEF Goto, MainType, Positions
  <2>4. ASSUME poses # <<>>, world' = Ingested(Head(poses)), poses' = Tail(poses)
        PROVE  world' \in WorldType /\ poses' \in Seq(Poses)
    <3>1. Head(poses) \in Poses /\ Tail(poses) \in Seq(Poses)
      BY <1>2, <2>4, HeadTailProperties
    <3> QED BY <1>2, <2>4, <3>1, IngestedTypes
  <2> QED BY <1>1, <1>2, <2>1, <2>2, <2>3, <2>4, LeaveTypes
<1>13. CASE Poll
  <2>1. UNCHANGED <<program, sensors, combiner, writer, reader>>
    BY <1>13 DEF Poll
  <2>2. \/ Leave(TRUE)
        \/ /\ UNCHANGED <<feed, child, poses, world>>
           /\ \E pc \in {"loop", "anchor"} : main' = [main EXCEPT !.pc = pc, !.returned = feed.image]
    BY <1>13 DEF Poll
  <2>3. ASSUME \E pc \in {"loop", "anchor"} : main' = [main EXCEPT !.pc = pc, !.returned = feed.image]
        PROVE  main' \in MainType
    BY <1>2, <2>3 DEF MainType, FeedType, Positions
  <2> QED BY <1>1, <1>2, <2>1, <2>2, <2>3, LeaveTypes
<1>14. CASE Search
  <2>1. world' \in WorldType
    BY <1>1, <1>14, SearchTypes
  <2> QED BY <1>2, <1>14, <2>1 DEF Search, Goto, ChildType, MainType, Positions, WorldType
<1>15. CASE CloseSensors
  BY <1>2, <1>15 DEF CloseSensors, MainType, Positions, SensorsType
<1>16. CASE FinishInput
  <2>1. (Drain(orb, 0)).raised \in BOOLEAN
    <3>1. OrbOk(orb, Low) /\ Low \in Nat /\ 0 \in Nat
      BY <1>1, CamerasFacts
    <3>2. Drain(orb, 0) \in Orbs
      BY <3>1, DrainOk DEF OrbOk
    <3> QED BY <3>2 DEF Orbs
  <2> QED BY <1>2, <1>16, <2>1 DEF FinishInput, MainType, Positions
<1>17. CASE Settle \/ Stop \/ PutShutdown \/ JoinQueue
  <2>1. orb.failure \in BOOLEAN
    BY <1>2 DEF Orbs
  <2> QED BY <1>2, <1>17, <2>1 DEF Settle, Stop, PutShutdown, JoinQueue, Goto, MainType, Positions
<1>18. CASE CloseInput \/ Reap
  <2>1. UNCHANGED <<program, sensors, combiner, feed, writer, reader, poses, world>>
    BY <1>18 DEF CloseInput, Reap
  <2>2. child' \in ChildType
    BY <1>2, <1>18 DEF CloseInput, Reap, ChildType
  <2>3. main' \in MainType
    BY <1>2, <1>18 DEF CloseInput, Reap, Goto, MainType, Positions
  <2> QED BY <1>2, <2>1, <2>2, <2>3
<1>18a. CASE Report \/ StopRequested
  BY <1>2, <1>18a DEF Report, StopRequested, MainType, Positions
<1> QED BY <1>4, <1>5, <1>6, <1>7, <1>8, <1>9, <1>10, <1>10a, <1>10b, <1>11, <1>12, <1>13, <1>14, <1>15, <1>16, <1>17, <1>18, <1>18a
        DEF Next, Threads, Child, Main, ReaderEnds, ReaderFails

-----------------------------------------------------------------------------
(* The pipe.                                                                *)

LEMMA PipeKept ==
    ASSUME Types, PipeInv, orb.accepted \subseteq orb'.accepted, writer' = writer, child'.frame = child.frame,
           child'.pc = "track" => child.pc = "track", reader'.received = reader.received
    PROVE  PipeInv'
BY DEF PipeInv, Holds

\* What any step does to the images that ORB has been given.
LEMMA AcceptedGrow ==
    ASSUME CamerasMove \/ OthersMove
    PROVE  orb.accepted \subseteq orb'.accepted /\ program' = program
BY DEF CamerasMove, OthersMove

\* A pose is answered once the images before it are.
LEMMA AppendAnswer ==
    ASSUME NEW s \in Seq(Nat), NEW T, NEW f \in Nat, f \in T, Rising(s), \A i \in DOMAIN s : s[i] \in T /\ s[i] < f
    PROVE  Rising(Append(s, f)) /\ \A i \in DOMAIN Append(s, f) : Append(s, f)[i] \in T /\ Append(s, f)[i] <= f
<1>1. /\ Rising(Append(s, f)) /\ DOMAIN Append(s, f) = 1 .. Len(s) + 1 /\ Append(s, f) \in Seq(Nat)
      /\ \A i \in 1 .. Len(s) : Append(s, f)[i] = s[i]
      /\ Append(s, f)[Len(s) + 1] = f
  BY RisingAppend
<1> DEFINE n == Len(s)
<1>2. n \in Nat /\ DOMAIN s = 1 .. n
  BY LenProperties
<1> DEFINE a == Append(s, f)
<1>3. Rising(a) /\ DOMAIN a = 1 .. n + 1 /\ (\A i \in 1 .. n : a[i] = s[i]) /\ a[n + 1] = f
  BY <1>1
<1> HIDE DEF n, a
<1>4. ASSUME NEW i \in DOMAIN a PROVE a[i] \in T /\ a[i] <= f
  <2>1. i \in 1 .. n \/ i = n + 1
    BY <1>2, <1>3, <1>4
  <2>2. CASE i = n + 1
    BY <1>3, <2>2
  <2>3. CASE i \in 1 .. n
    BY <1>2, <1>3, <2>3
  <2> QED BY <2>1, <2>2, <2>3
<1> QED BY <1>3, <1>4 DEF a

LEMMA ChildTracksFacts ==
    ASSUME Types, ChildTracks
    PROVE  /\ UNCHANGED <<program, sensors, combiner, feed, orb, writer, main, world, stopped, faults>>
           /\ child.pc = "track" /\ child'.frame = child.frame /\ child'.input = child.input
           /\ \/ reader.pc = "done" /\ child'.pc = "exited" /\ child'.code = 1 /\ UNCHANGED <<reader, poses>>
                 /\ child'.map = child.map /\ child'.ready = child.ready /\ child'.unseen = child.unseen
                 /\ child'.born = child.born
              \/ /\ child'.pc = "idle" /\ child'.code = child.code
                 /\ reader'.received = IF program = "hil" THEN Append(reader.received, child.frame)
                                       ELSE reader.received
<1>1. child \in ChildType /\ reader \in ReaderType
  BY AllTypes
<1>2. child.pc = "track" /\ UNCHANGED <<program, sensors, combiner, feed, orb, writer, main, world, stopped, faults>>
  BY DEF ChildTracks
<1>3. CASE reader.pc = "done"
  <2>1. child' = [child EXCEPT !.pc = "exited", !.code = 1] /\ UNCHANGED <<reader, poses>>
    BY <1>3 DEF ChildTracks
  <2> QED BY <1>1, <1>2, <1>3, <2>1 DEF ChildType
<1>4. CASE reader.pc # "done"
  <2>1. PICK reset \in BOOLEAN :
           LET begins == reset \/ child.born = None
               map    == IF reset THEN child.map + 1 ELSE child.map
               pose   == [frame |-> child.frame, ready |-> child.ready /\ ~begins, map |-> map]
           IN  /\ child' = IF InLoop
                            THEN [child EXCEPT !.pc = "idle", !.map = map, !.ready = pose.ready,
                                         !.born = IF begins THEN child.frame ELSE @, !.unseen = @ \/ reset]
                            ELSE [child EXCEPT !.pc = "idle"]
               /\ reader' = [reader EXCEPT !.received = IF program = "hil" THEN Append(@, pose.frame) ELSE @]
    BY <1>4 DEF ChildTracks
  <2>2. /\ child'.pc = "idle" /\ child'.frame = child.frame /\ child'.input = child.input /\ child'.code = child.code
    <3> DEFINE begins == reset \/ child.born = None
               map == IF reset THEN child.map + 1 ELSE child.map
               ready == child.ready /\ ~begins
               born == IF begins THEN child.frame ELSE child.born
               unseen == child.unseen \/ reset
    <3>1. CASE InLoop
      <4>1. child' = [child EXCEPT !.pc = "idle", !.map = map, !.ready = ready, !.born = born, !.unseen = unseen]
        BY <2>1, <3>1, Zenon
      <4> HIDE DEF map, ready, born, unseen
      <4> QED BY <1>1, <4>1 DEF ChildType
    <3>2. CASE ~InLoop
      <4>1. child' = [child EXCEPT !.pc = "idle"]
        BY <2>1, <3>2, Zenon
      <4> QED BY <1>1, <4>1 DEF ChildType
    <3> QED BY <3>1, <3>2
  <2>3. reader'.received = IF program = "hil" THEN Append(reader.received, child.frame) ELSE reader.received
    BY <1>1, <2>1 DEF ReaderType
  <2> QED BY <1>2, <2>2, <2>3
<1> QED BY <1>3, <1>4

LEMMA PipeStep ==
    ASSUME LiveInv, Next, CamerasMove \/ OthersMove
    PROVE  PipeInv'
<1>1. Types /\ CamerasInv /\ PipeInv /\ ShutdownInv
  BY DEF LiveInv
<1>2. orb.accepted \subseteq orb'.accepted
  BY AcceptedGrow
<1>3. /\ child \in ChildType /\ reader \in ReaderType /\ writer \in WriterType
  BY <1>1, AllTypes
<1> DEFINE Same == /\ writer' = writer /\ child'.frame = child.frame
                   /\ (child'.pc = "track" => child.pc = "track") /\ reader'.received = reader.received
<1>4. Same => PipeInv'
  BY <1>1, <1>2, PipeKept
<1>5. CASE Callbacks
  BY <1>1, <1>4, <1>5, CallbacksMove DEF CamerasMove
<1>6. CASE WriterGets
  <2>1. /\ IsFrame(Head(orb.queue)) => Head(orb.queue).frame \in orb.accepted /\ child.frame < Head(orb.queue).frame
    BY <1>1, <1>6, WriterGetsMoves
  <2>2. writer'.packet = Head(orb.queue) /\ child' = child /\ reader' = reader
    BY <1>6 DEF WriterGets
  <2> QED BY <1>1, <1>2, <2>1, <2>2 DEF PipeInv, Holds
<1>7. CASE WriterWrites
  <2>1. /\ UNCHANGED <<reader>> /\ writer.pc = "write"
        /\ \/ writer' = [writer EXCEPT !.pc = "dead"] /\ child' = child
           \/ writer' = [writer EXCEPT !.pc = "get"] /\ child' = [child EXCEPT !.input = "ending"]
           \/ /\ writer' = [writer EXCEPT !.pc = "get"] /\ writer.packet # Shutdown
              /\ child' = [child EXCEPT !.pc = "track", !.frame = writer.packet.frame]
    BY <1>7 DEF WriterWrites
  <2>2. CASE writer' = [writer EXCEPT !.pc = "dead"] /\ child' = child
    BY <1>1, <1>2, <1>3, <2>1, <2>2 DEF PipeInv, Holds, WriterType
  <2>3. CASE writer' = [writer EXCEPT !.pc = "get"] /\ child' = [child EXCEPT !.input = "ending"]
    <3>1. ~(Holds')
      BY <1>3, <2>3 DEF Holds, WriterType
    <3>2. child'.pc = child.pc /\ child'.frame = child.frame /\ reader' = reader
      BY <1>3, <2>1, <2>3 DEF ChildType
    <3> QED BY <1>1, <1>2, <3>1, <3>2 DEF PipeInv
  <2>4. CASE /\ writer' = [writer EXCEPT !.pc = "get"] /\ writer.packet # Shutdown
             /\ child' = [child EXCEPT !.pc = "track", !.frame = writer.packet.frame]
    <3>1. ~(Holds')
      BY <1>3, <2>4 DEF Holds, WriterType
    <3>2. IsFrame(writer.packet) /\ writer.packet.frame \in Nat
      BY <1>1, <1>3, <2>1, <2>4, PacketKinds DEF ShutdownInv, Holds, WriterType
    <3>3. child'.pc = "track" /\ child'.frame = writer.packet.frame /\ reader' = reader
      BY <1>3, <2>1, <2>4 DEF ChildType
    <3>4. writer.packet.frame \in orb.accepted /\ child.frame < writer.packet.frame
      BY <1>1, <2>1, <3>2 DEF PipeInv, Holds
    <3>5. \A i \in DOMAIN reader.received :
             reader.received[i] \in orb'.accepted /\ reader.received[i] < writer.packet.frame
      <4>1. reader.received \in Seq(Nat) /\ child.frame \in Nat
        BY <1>3 DEF ReaderType, ChildType
      <4>2. \A i \in DOMAIN reader.received : reader.received[i] \in Nat
        BY <4>1
      <4> QED BY <1>1, <1>2, <3>2, <3>4, <4>1, <4>2 DEF PipeInv
    <3>6. Rising(reader'.received) /\ child'.frame \in orb'.accepted
      BY <1>1, <1>2, <3>3, <3>4 DEF PipeInv
    <3>7. \A i \in DOMAIN reader'.received : reader'.received[i] <= child'.frame
      <4>1. reader.received \in Seq(Nat)
        BY <1>3 DEF ReaderType
      <4> QED BY <3>2, <3>3, <3>5, <4>1
    <3> QED BY <3>1, <3>3, <3>5, <3>6, <3>7 DEF PipeInv
  <2> QED BY <2>1, <2>2, <2>3, <2>4
<1>8. CASE EndReader
  <2>1. writer' = writer /\ child' = child /\ reader'.received = reader.received
    BY <1>3, <1>8 DEF EndReader, ReaderType
  <2> QED BY <1>4, <2>1
<1>9. CASE ChildTracks
  <2>1. /\ UNCHANGED <<program, orb, writer>> /\ child.pc = "track" /\ child'.frame = child.frame
        /\ child'.pc # "track"
        /\ reader'.received \in {reader.received, Append(reader.received, child.frame)}
    BY <1>1, <1>9, ChildTracksFacts
  <2>2. CASE reader'.received = reader.received
    BY <1>4, <2>1, <2>2
  <2>3. CASE reader'.received = Append(reader.received, child.frame)
    <3>1. /\ child.frame \in orb.accepted /\ Rising(reader.received)
          /\ \A i \in DOMAIN reader.received : reader.received[i] \in orb.accepted /\ reader.received[i] < child.frame
      BY <1>1, <2>1 DEF PipeInv
    <3>2. reader.received \in Seq(Nat) /\ child.frame \in Nat
      BY <1>3 DEF ReaderType, ChildType
    <3>3. /\ Rising(reader'.received)
          /\ \A i \in DOMAIN reader'.received : reader'.received[i] \in orb.accepted /\ reader'.received[i] <= child.frame
      BY <2>3, <3>1, <3>2, AppendAnswer
    <3> QED BY <1>1, <2>1, <3>3 DEF PipeInv, Holds
  <2> QED BY <2>1, <2>2, <2>3
<1>10. CASE ChildLoads \/ ChildEnds \/ ChildCrashes \/ Ba2Completes
  <2>1. Same
    BY <1>3, <1>10 DEF ChildLoads, ChildEnds, ChildCrashes, Ba2Completes, ChildType
  <2> QED BY <1>4, <2>1
<1>11. CASE Main \/ StopRequested
  <2>1. writer' = writer /\ reader' = reader
    BY <1>11 DEF Main, Start, Await, StartSensors, NextPhase, LoopTop, DrainPose, Poll, Search, CloseSensors,
                 FinishInput, Settle, Stop, PutShutdown, JoinQueue, CloseInput, Reap, Report, StopRequested
  <2>2. child'.frame = child.frame /\ (child'.pc = "track" => child.pc = "track")
    <3>1. CASE Start \/ Search \/ CloseInput \/ Reap
      BY <1>3, <3>1 DEF Start, Search, CloseInput, Reap, ChildType
    <3>2. CASE Leave(TRUE) \/ Leave(FALSE)
      BY <1>3, <3>2 DEF Leave, ChildType
    <3>3. CASE child' = child
      BY <3>3
    <3> QED BY <1>11, <3>1, <3>2, <3>3 DEF Main, Await, StartSensors, NextPhase, LoopTop, DrainPose, Poll, CloseSensors,
                 FinishInput, Settle, Stop, PutShutdown, JoinQueue, Report, StopRequested
  <2> QED BY <1>4, <2>1, <2>2
<1> QED BY <1>5, <1>6, <1>7, <1>8, <1>9, <1>10, <1>11 DEF Next, Threads, Child, ReaderEnds, ReaderFails

-----------------------------------------------------------------------------
(* The end of the child's input.                                            *)

\* Steps that leave the pipe as it is, and main where it does not matter.
LEMMA ShutdownKept ==
    ASSUME Types, ShutdownInv, writer' = writer, child'.pc = child.pc, child'.code = child.code,
           child'.input = child.input,
           \A p \in ToSet(orb'.queue) : p \in ToSet(orb.queue) \/ IsFrame(p) \/ p = Sentinel,
           main'.pc = main.pc \/ (main.pc \notin {"join", "close", "reap"} /\ main'.pc \notin {"put", "start"})
    PROVE  ShutdownInv'
<1>1. Shutdown \in ToSet(orb'.queue) => Shutdown \in ToSet(orb.queue)
  BY PacketKinds
<1>2. Holds' = Holds
  BY DEF Holds
<1>3. CASE main'.pc = main.pc
  BY <1>1, <1>2, <1>3 DEF ShutdownInv
<1>4. CASE main.pc \notin {"join", "close", "reap"} /\ main'.pc \notin {"put", "start"}
  BY <1>1, <1>2, <1>4 DEF ShutdownInv
<1> QED BY <1>3, <1>4

LEMMA ShutdownStep ==
    ASSUME LiveInv, Next, Types'
    PROVE  ShutdownInv'
<1>1. Types /\ CamerasInv /\ PipeInv /\ ShutdownInv
  BY DEF LiveInv
<1>2. /\ child \in ChildType /\ reader \in ReaderType /\ writer \in WriterType /\ main \in MainType
  BY <1>1, AllTypes
<1>3. ASSUME writer' = writer, child'.pc = child.pc, child'.code = child.code, child'.input = child.input,
             ToSet(orb'.queue) = ToSet(orb.queue),
             main'.pc = main.pc \/ (main.pc \notin {"join", "close", "reap"} /\ main'.pc \notin {"put", "start"})
      PROVE  ShutdownInv'
  BY <1>1, <1>3, ShutdownKept
<1>4. CASE Callbacks
  <2>1. \A p \in ToSet(orb'.queue) : p \in ToSet(orb.queue) \/ IsFrame(p) \/ p = Sentinel
    BY <1>1, <1>4, CallbacksMove DEF CamerasMove
  <2>2. writer' = writer /\ child' = child /\ main' = main
    BY <1>1, <1>4, CallbacksMove DEF CamerasMove
  <2> QED BY <1>1, <2>1, <2>2, ShutdownKept
<1>5. CASE WriterGets
  <2>1. /\ Head(orb.queue) \in Packets /\ Head(orb.queue) \in ToSet(orb.queue)
        /\ ToSet(orb'.queue) \subseteq ToSet(orb.queue)
        /\ (Head(orb.queue) = Shutdown => Shutdown \notin ToSet(orb'.queue))
    BY <1>1, <1>5, WriterGetsMoves
  <2>2. /\ writer'.packet = Head(orb.queue) /\ child' = child /\ main' = main
        /\ (Head(orb.queue) = Sentinel => writer'.pc = "done")
        /\ (writer'.pc = "dead" => child.input = "closed")
        /\ writer'.pc \in {"done", "dead", "write"}
    BY <1>5 DEF WriterGets
  <2>3. writer'.pc = "dead" => Head(orb.queue) # Shutdown
    BY <1>1, <2>1, <2>2 DEF ShutdownInv
  <2>4. Holds' => writer'.packet # Sentinel
    BY <2>2 DEF Holds
  <2>5. Shutdown \in ToSet(orb'.queue) \/ (writer'.pc = "write" /\ writer'.packet = Shutdown)
          => main'.pc = "join" /\ child'.input = "open"
    BY <1>1, <2>1, <2>2 DEF ShutdownInv
  <2>6. writer'.pc = "write" /\ writer'.packet = Shutdown => Shutdown \notin ToSet(orb'.queue)
    BY <2>1, <2>2
  <2> QED BY <1>1, <2>2, <2>3, <2>4, <2>5, <2>6 DEF ShutdownInv
<1>6. CASE WriterWrites
  <2>1. /\ UNCHANGED <<reader, main>> /\ writer.pc = "write" /\ ToSet(orb'.queue) = ToSet(orb.queue)
        /\ \/ writer' = [writer EXCEPT !.pc = "dead"] /\ child' = child /\ child.pc = "exited"
           \/ /\ writer' = [writer EXCEPT !.pc = "get"] /\ child' = [child EXCEPT !.input = "ending"]
              /\ writer.packet = Shutdown
           \/ /\ writer' = [writer EXCEPT !.pc = "get"] /\ writer.packet # Shutdown /\ child.pc = "idle"
              /\ child' = [child EXCEPT !.pc = "track", !.frame = writer.packet.frame]
    <3>1. orb'.queue = orb.queue
      BY <1>1, <1>6, WriterWritesMoves
    <3> QED BY <1>6, <3>1 DEF WriterWrites
  <2>2. CASE writer' = [writer EXCEPT !.pc = "dead"] /\ child' = child /\ child.pc = "exited"
    <3>1. writer'.pc = "dead" /\ writer'.packet = writer.packet
      BY <1>2, <2>2 DEF WriterType
    <3> QED BY <1>1, <2>1, <2>2, <3>1 DEF ShutdownInv, Holds
  <2>3. CASE /\ writer' = [writer EXCEPT !.pc = "get"] /\ child' = [child EXCEPT !.input = "ending"]
             /\ writer.packet = Shutdown
    <3>1. writer'.pc = "get" /\ child'.pc = child.pc /\ child'.input = "ending" /\ child'.code = child.code
      BY <1>2, <2>3 DEF WriterType, ChildType
    <3> QED BY <1>1, <2>1, <2>3, <3>1 DEF ShutdownInv, Holds
  <2>4. CASE /\ writer' = [writer EXCEPT !.pc = "get"] /\ writer.packet # Shutdown /\ child.pc = "idle"
             /\ child' = [child EXCEPT !.pc = "track", !.frame = writer.packet.frame]
    <3>1. writer'.pc = "get" /\ child'.pc = "track" /\ child'.input = child.input /\ child'.code = child.code
      BY <1>2, <2>4 DEF WriterType, ChildType
    <3> QED BY <1>1, <2>1, <2>4, <3>1 DEF ShutdownInv, Holds
  <2> QED BY <2>1, <2>2, <2>3, <2>4
<1>7. CASE EndReader
  <2>1. FlagsOnly(orb, orb')
    BY <1>1, <1>7, EndReaderMoves
  <2>2. writer' = writer /\ child' = child /\ main' = main /\ ToSet(orb'.queue) = ToSet(orb.queue)
    BY <1>7, <2>1 DEF EndReader, FlagsOnly
  <2> QED BY <1>3, <2>2
<1>8. CASE ChildTracks \/ ChildLoads \/ ChildEnds \/ ChildCrashes \/ Ba2Completes \/ Start
  <2>1. UNCHANGED <<orb, writer>>
    BY <1>8 DEF ChildTracks, ChildLoads, ChildEnds, ChildCrashes, Ba2Completes, Start
  <2>2. CASE ChildTracks
    <3>1. /\ UNCHANGED main /\ child.pc = "track" /\ child'.input = child.input
          /\ (child'.pc = "exited" /\ child'.code = 1) \/ child'.pc = "idle"
      BY <1>1, <2>2, ChildTracksFacts
    <3> QED BY <1>1, <2>1, <3>1 DEF ShutdownInv, Holds
  <2>3. CASE ChildLoads \/ Ba2Completes
    <3>1. /\ UNCHANGED main /\ child.pc \notin {"exited", "none"} /\ child'.pc # "exited" /\ child'.input = child.input
          /\ child'.code = child.code
      BY <1>2, <2>3 DEF ChildLoads, Ba2Completes, ChildType
    <3> QED BY <1>1, <2>1, <3>1 DEF ShutdownInv, Holds
  <2>4. CASE ChildEnds \/ ChildCrashes
    <3>1. /\ UNCHANGED main /\ child.pc \notin {"exited", "none"} /\ child'.pc = "exited" /\ child'.input = child.input
          /\ child'.code = 1 \/ child.input # "open"
      BY <1>2, <2>4 DEF ChildEnds, ChildCrashes, ChildType
    <3> QED BY <1>1, <2>1, <3>1 DEF ShutdownInv, Holds
  <2>5. CASE Start
    <3>1. main.pc = "start" /\ main'.pc \in {"closing", "await"}
      BY <1>2, <2>5 DEF Start, Raise, Goto, MainType
    <3>2. child.pc = "none" /\ child'.pc \in {"none", "loading"} /\ child'.input = child.input
      BY <1>1, <1>2, <2>5, <3>1 DEF Start, ShutdownInv, ChildType
    <3> QED BY <1>1, <2>1, <3>1, <3>2 DEF ShutdownInv, Holds
  <2> QED BY <1>8, <2>2, <2>3, <2>4, <2>5
<1>9. CASE Await \/ StartSensors \/ NextPhase \/ CloseSensors \/ FinishInput \/ Settle \/ Report \/ StopRequested
  <2>1. writer' = writer /\ child' = child
    BY <1>9 DEF Await, StartSensors, NextPhase, CloseSensors, FinishInput, Settle, Report, StopRequested
  <2>2. main'.pc = main.pc \/ (main.pc \notin {"join", "close", "reap"} /\ main'.pc \notin {"put", "start"})
    BY <1>2, <1>9 DEF Await, StartSensors, NextPhase, CloseSensors, FinishInput, Settle, Report, StopRequested, Raise, Goto,
           MainType
  <2>3. \A p \in ToSet(orb'.queue) : p \in ToSet(orb.queue) \/ IsFrame(p) \/ p = Sentinel
    <3>1. CASE FinishInput
      BY <1>1, <3>1, FinishInputMoves DEF Follows
    <3>2. CASE Await
      <4>1. orb \in Orbs
        BY <1>1, AllTypes
      <4>2. orb'.queue = orb.queue
        BY <3>2, <4>1 DEF Await, Orbs
      <4> QED BY <4>2
    <3>3. CASE orb' = orb
      BY <3>3
    <3> QED BY <1>9, <3>1, <3>2, <3>3 DEF StartSensors, NextPhase, CloseSensors, Settle, Report, StopRequested
  <2> QED BY <1>1, <2>1, <2>2, <2>3, ShutdownKept
<1>10. CASE LoopTop \/ DrainPose \/ Poll \/ Search
  <2>1. writer' = writer /\ orb' = orb
    BY <1>10 DEF LoopTop, DrainPose, Poll, Search
  <2>2. child'.pc = child.pc /\ child'.code = child.code /\ child'.input = child.input
    <3>1. CASE Leave(TRUE) \/ Leave(FALSE)
      BY <1>1, <3>1, LeaveTypes
    <3>2. CASE Search
      BY <1>2, <3>2 DEF Search, ChildType
    <3>3. CASE child' = child
      BY <3>3
    <3> QED BY <1>10, <3>1, <3>2, <3>3 DEF LoopTop, DrainPose, Poll
  <2>3. main.pc \in {"loop", "drain", "poll", "anchor"} /\ main'.pc \in {"loop", "drain", "poll", "anchor", "closing"}
    <3>1. main.pc \in {"loop", "drain", "poll", "anchor"}
      BY <1>10 DEF LoopTop, DrainPose, Poll, Search
    <3>2. CASE Leave(TRUE) \/ Leave(FALSE)
      BY <1>1, <3>1, <3>2, LeaveTypes
    <3>3. CASE ~Leave(TRUE) /\ ~Leave(FALSE)
      <4>1. \/ \E pc \in {"drain", "poll", "loop"} : main' = [main EXCEPT !.pc = pc]
            \/ main' = main
            \/ \E pc \in {"loop", "anchor"} : main' = [main EXCEPT !.pc = pc, !.returned = feed.image]
        BY <1>10, <3>3 DEF LoopTop, DrainPose, Poll, Search, Goto
      <4> QED BY <1>2, <3>1, <4>1 DEF MainType
    <3> QED BY <3>1, <3>2, <3>3
  <2> QED BY <1>3, <2>1, <2>2, <2>3
<1>11. CASE Stop
  <2>1. orb \in Orbs
    BY <1>1, AllTypes
  <2>2. orb'.queue = orb.queue
    BY <1>11, <2>1 DEF Stop, Orbs
  <2>3. /\ writer' = writer /\ child' = child /\ main.pc = "stop" /\ main'.pc \in {"close", "put"}
        /\ (main'.pc = "put" => child.pc # "exited")
    BY <1>2, <1>11 DEF Stop, Goto, MainType
  <2> QED BY <1>1, <2>2, <2>3 DEF ShutdownInv, Holds
<1>12. CASE PutShutdown
  <2>1. \/ main'.pc = "join" /\ ToSet(orb'.queue) = ToSet(orb.queue) \cup {Shutdown}
        \/ main'.pc = "close" /\ orb' = orb
    BY <1>1, <1>12, PutShutdownMoves
  <2>2. writer' = writer /\ child' = child /\ main.pc = "put"
    BY <1>12 DEF PutShutdown
  <2> QED BY <1>1, <2>1, <2>2 DEF ShutdownInv, Holds
<1>13. CASE JoinQueue
  <2>1. writer' = writer /\ child' = child /\ main.pc = "join" /\ main'.pc = "close" /\ writer.pc # "write"
        /\ orb' = orb /\ orb.queue = <<>>
    BY <1>2, <1>13 DEF JoinQueue, Goto, MainType
  <2>2. Shutdown \notin ToSet(orb.queue)
    BY <2>1 DEF ToSet
  <2> QED BY <1>1, <2>1, <2>2 DEF ShutdownInv, Holds
<1>14. CASE CloseInput
  <2>1. ToSet(orb'.queue) \subseteq ToSet(orb.queue) \cup {Sentinel}
    BY <1>1, <1>14, CloseInputMoves
  <2>2. /\ writer' = writer /\ writer.pc # "write" /\ main.pc = "close" /\ main'.pc = "reap"
        /\ child'.pc = child.pc /\ child'.code = child.code /\ child'.input = "closed"
    BY <1>2, <1>14 DEF CloseInput, Goto, MainType, ChildType
  <2>3. Shutdown \notin ToSet(orb'.queue)
    BY <1>1, <2>1, <2>2, PacketKinds DEF ShutdownInv
  <2> QED BY <1>1, <2>2, <2>3 DEF ShutdownInv, Holds
<1>15. CASE Reap
  <2>1. /\ UNCHANGED <<orb, writer>> /\ main.pc = "reap" /\ main'.pc \in {"closing", "report", "exit"}
        /\ child'.pc = "exited" /\ child'.input = child.input /\ (child' = child \/ child'.code = 1)
    BY <1>2, <1>15 DEF Reap, MainType, ChildType
  <2> QED BY <1>1, <2>1 DEF ShutdownInv, Holds
<1> QED BY <1>4, <1>5, <1>6, <1>7, <1>8, <1>9, <1>10, <1>11, <1>12, <1>13, <1>14, <1>15
        DEF Next, Threads, Child, Main, ReaderEnds, ReaderFails

-----------------------------------------------------------------------------
(* The end of the acceptance.                                               *)

\* Steps that change nothing the end of the acceptance depends on.
LEMMA EndKept ==
    ASSUME EndInv, program' = program, main' = main, sensors'.running = sensors.running, child'.pc = child.pc,
           child'.code = child.code, reader'.received = reader.received, orb'.accepted = orb.accepted,
           orb'.pending = orb.pending, orb'.lastImu = orb.lastImu
    PROVE  EndInv'
BY DEF EndInv, Late

\* A step of main before the acceptance is settled.
LEMMA EndEarly ==
    ASSUME EndInv, main.pc \notin {"stop", "put", "join", "close", "reap", "report", "exit"},
           main'.transport = main.transport, main'.status \in {main.status, "ending"},
           main'.pc = "settle" => program' = "hil" /\ Late(orb'),
           main'.pc \in {"finish", "settle"} => main'.status # "none",
           program' = "hil" /\ main'.pc \notin {"loop", "closing", "exit"} => ~sensors'.running,
           main'.pc \in {"drain", "poll", "anchor"} => program' = "pair",
           main'.pc # "report"
    PROVE  EndInv'
BY DEF EndInv

LEMMA Complete ==
    ASSUME NEW s \in Seq(Nat), Rising(s), NEW T \in SUBSET Nat, IsFiniteSet(T), ToSet(s) \subseteq T,
           Len(s) = Cardinality(T)
    PROVE  ToSet(s) = T
<1> DEFINE n == Len(s)
<1>1. n \in Nat /\ DOMAIN s = 1 .. n /\ \A i \in 1 .. n : s[i] \in Nat
  BY LenProperties
<1>2. s \in Injection(1 .. n, T)
  <2>1. \A i \in 1 .. n : s[i] \in T
    BY <1>1 DEF ToSet
  <2>2. s \in [1 .. n -> T]
    BY <1>1, <2>1
  <2>3. \A i, j \in 1 .. n : s[i] = s[j] => i = j
    <3> TAKE i, j \in 1 .. n
    <3>1. i < j \/ j < i \/ i = j
      OBVIOUS
    <3>2. i < j => s[i] < s[j]
      BY <1>1 DEF Rising
    <3>3. j < i => s[j] < s[i]
      BY <1>1 DEF Rising
    <3>4. s[i] \in Nat /\ s[j] \in Nat
      BY <1>1
    <3> QED BY <3>1, <3>2, <3>3, <3>4
  <2> HIDE DEF n
  <2>4. IsInjective(s)
    BY <2>2, <2>3 DEF IsInjective
  <2> QED BY <2>2, <2>4 DEF Injection
<1>3. s \in Surjection(1 .. n, T)
  <2>1. IsFiniteSet(1 .. n) /\ Cardinality(1 .. n) = n
    BY <1>1, FS_Interval
  <2>2. Cardinality(1 .. n) = Cardinality(T)
    BY <2>1
  <2> HIDE DEF n
  <2> QED BY <1>2, <2>2, FS_Injection
<1>4. \A t \in T : \E i \in 1 .. n : s[i] = t
  <2> HIDE DEF n
  <2> QED BY <1>3 DEF Surjection
<1>5. T \subseteq ToSet(s)
  BY <1>1, <1>4 DEF ToSet
<1> QED BY <1>5

LEMMA EndStep ==
    ASSUME LiveInv, Next, Types', CamerasInv'
    PROVE  EndInv'
<1>1. Types /\ CamerasInv /\ PipeInv /\ ShutdownInv /\ EndInv /\ main.pc # "exit"
  BY DEF LiveInv, Next
<1>2. /\ child \in ChildType /\ reader \in ReaderType /\ writer \in WriterType /\ main \in MainType
      /\ sensors \in SensorsType /\ orb \in Orbs /\ program \in {"pair", "hil"}
  BY <1>1, AllTypes
<1>3. main.status # "PROVISIONAL_LIVE_LOCAL_PASS"
  BY <1>1 DEF EndInv
<1>4. CASE Callbacks
  <2>1. /\ UNCHANGED <<program, child, reader, main>> /\ sensors.running /\ sensors'.running = sensors.running
    BY <1>1, <1>4, CallbacksMove DEF CamerasMove
  <2>2. ~main.transport /\ main.pc # "settle"
    BY <1>1, <2>1 DEF EndInv
  <2> QED BY <1>1, <1>3, <2>1, <2>2 DEF EndInv
<1>5. CASE WriterGets
  <2>1. /\ UNCHANGED <<program, child, reader, main, sensors>> /\ orb' = [orb EXCEPT !.queue = Tail(@)]
    BY <1>5 DEF WriterGets
  <2>2. orb'.accepted = orb.accepted /\ orb'.pending = orb.pending /\ orb'.lastImu = orb.lastImu
    BY <1>2, <2>1 DEF Orbs
  <2> QED BY <1>1, <2>1, <2>2, EndKept
<1>6. CASE WriterWrites
  <2>1. /\ UNCHANGED <<program, reader, main, sensors>>
        /\ child' = child \/ child.pc # "exited"
        /\ orb' = orb \/ orb' = [orb EXCEPT !.failure = @ \/ ~orb.stop]
    BY <1>6 DEF WriterWrites
  <2>2. orb'.accepted = orb.accepted /\ orb'.pending = orb.pending /\ orb'.lastImu = orb.lastImu
    BY <1>2, <2>1 DEF Orbs
  <2>3. Late(orb') = Late(orb)
    BY <2>2 DEF Late
  <2> QED BY <1>1, <1>3, <2>1, <2>2, <2>3 DEF EndInv
<1>7. CASE EndReader
  <2>1. /\ UNCHANGED <<program, child, main, sensors>> /\ reader'.received = reader.received
        /\ orb' = [orb EXCEPT !.failure = @ \/ ~orb.stop]
    BY <1>2, <1>7 DEF EndReader, ReaderType
  <2>2. orb'.accepted = orb.accepted /\ orb'.pending = orb.pending /\ orb'.lastImu = orb.lastImu
    BY <1>2, <2>1 DEF Orbs
  <2> QED BY <1>1, <2>1, <2>2, EndKept
<1>8. CASE ChildTracks
  <2>1. /\ UNCHANGED <<program, sensors, orb, main>> /\ child.pc = "track"
    BY <1>1, <1>8, ChildTracksFacts
  <2>2. ~main.transport
    <3> SUFFICES ASSUME main.transport PROVE FALSE
      OBVIOUS
    <3>1. child.frame \in ToSet(reader.received)
      BY <1>1, <2>1 DEF EndInv, PipeInv
    <3>2. \A i \in DOMAIN reader.received : reader.received[i] < child.frame
      BY <1>1, <2>1 DEF PipeInv
    <3>3. child.frame \in Nat
      BY <1>2 DEF ChildType
    <3> QED BY <3>1, <3>2, <3>3 DEF ToSet
  <2> QED BY <1>1, <1>3, <2>1, <2>2 DEF EndInv
<1>9. CASE ChildLoads \/ ChildEnds \/ ChildCrashes \/ Ba2Completes
  <2>1. /\ UNCHANGED <<program, sensors, orb, main, reader>> /\ child.pc # "exited"
    BY <1>9 DEF ChildLoads, ChildEnds, ChildCrashes, Ba2Completes
  <2> QED BY <1>1, <1>3, <2>1 DEF EndInv
<1>10. CASE Start \/ Await
  <2>1. /\ UNCHANGED <<program, sensors>> /\ main.pc \in {"start", "await"}
        /\ main'.pc \in {"closing", "await", "sensors", "close"} /\ main'.transport = main.transport
        /\ main'.status = main.status
    BY <1>2, <1>10 DEF Start, Await, Raise, Goto, MainType
  <2> QED BY <1>1, <2>1, EndEarly DEF EndInv
<1>11. CASE StartSensors
  <2>1. /\ program' = program /\ main.pc = "sensors"
        /\ main'.pc \in {"closing", "loop"} /\ main'.transport = main.transport
        /\ main'.status = main.status
    BY <1>2, <1>11 DEF StartSensors, Raise, Goto, MainType
  <2> QED BY <1>1, <2>1, EndEarly DEF EndInv
<1>12. CASE NextPhase \/ StopRequested
  <2>1. /\ UNCHANGED <<program, sensors, orb, main, child, reader>>
    BY <1>12 DEF NextPhase, StopRequested
  <2> QED BY <1>1, <2>1, EndKept
<1>13. CASE LoopTop \/ DrainPose \/ Poll \/ Search
  <2>1. UNCHANGED <<program, sensors>> /\ main.pc \in {"loop", "drain", "poll", "anchor"}
    BY <1>13 DEF LoopTop, DrainPose, Poll, Search
  <2>2. CASE Leave(TRUE) \/ Leave(FALSE)
    <3>1. main'.pc = "closing" /\ main'.transport = main.transport /\ main'.status = main.status
      BY <1>1, <2>2, LeaveTypes
    <3> QED BY <1>1, <2>1, <3>1, EndEarly
  <2>3. CASE ~Leave(TRUE) /\ ~Leave(FALSE)
    <3>1. \/ program = "pair" /\ \E pc \in {"drain"} : main' = [main EXCEPT !.pc = pc]
          \/ main.pc \in {"drain", "poll", "anchor"} /\ \E pc \in {"poll", "loop"} : main' = [main EXCEPT !.pc = pc]
          \/ main.pc \in {"drain", "poll", "anchor"} /\ main' = main
          \/ /\ main.pc \in {"drain", "poll", "anchor"}
             /\ \E pc \in {"loop", "anchor"} : main' = [main EXCEPT !.pc = pc, !.returned = feed.image]
      BY <1>13, <2>3 DEF LoopTop, DrainPose, Poll, Search, Goto
    <3>2. /\ program = "pair" /\ main'.pc \in {"drain", "poll", "loop", "anchor"}
          /\ main'.transport = main.transport /\ main'.status = main.status
      BY <1>1, <1>2, <2>1, <3>1 DEF MainType, EndInv
    <3> QED BY <1>1, <2>1, <3>2, EndEarly
  <2> QED BY <2>2, <2>3
<1>14. CASE CloseSensors
  <2>1. /\ program' = program /\ main.pc = "closing" /\ main'.transport = main.transport
        /\ \/ main'.pc = "finish" /\ main'.status = "ending" /\ (program = "hil" => ~sensors'.running)
           \/ main'.pc = "exit" /\ main'.status = main.status
    BY <1>2, <1>14 DEF CloseSensors, MainType, SensorsType
  <2> QED BY <1>1, <2>1, EndEarly
<1>15. CASE FinishInput
  <2>1. main'.pc = "settle" => Late(orb') /\ program = "hil"
    BY <1>1, <1>15, FinishInputMoves
  <2>2. /\ UNCHANGED <<program, sensors>> /\ main.pc = "finish" /\ main'.pc \in {"exit", "stop", "settle"}
        /\ main'.transport = main.transport /\ main'.status = main.status
    <3>1. UNCHANGED <<program, sensors>> /\ main.pc = "finish"
      BY <1>15 DEF FinishInput
    <3>2. \E pc \in {"exit", "stop", "settle"} : \E r : main' = [main EXCEPT !.pc = pc, !.raised = r]
      BY <1>15 DEF FinishInput
    <3> QED BY <1>2, <3>1, <3>2 DEF MainType
  <2> QED BY <1>1, <2>1, <2>2, EndEarly DEF EndInv
<1>16. CASE Settle
  <2>1. /\ UNCHANGED <<program, sensors, orb, child, reader>> /\ main.pc = "settle"
    BY <1>16 DEF Settle
  <2> DEFINE complete == Len(reader.received) = Cardinality(orb.accepted)
  <2>2. \/ main' = [main EXCEPT !.pc = "stop", !.transport = complete /\ ~orb.failure]
        \/ main' = [main EXCEPT !.pc = "exit", !.raised = TRUE]
    BY <1>16 DEF Settle
  <2>3. complete => ToSet(reader.received) = orb.accepted
    <3>1. reader.received \in Seq(Nat) /\ orb.accepted \in SUBSET Nat
      BY <1>2 DEF ReaderType, Orbs
    <3>2. IsFiniteSet(orb.accepted) /\ Rising(reader.received)
      BY <1>1 DEF CamerasInv, OrbOk, PipeInv
    <3>3. ToSet(reader.received) \subseteq orb.accepted
      BY <1>1 DEF PipeInv, ToSet
    <3> QED BY <3>1, <3>2, <3>3, Complete
  <2> HIDE DEF complete
  <2>4. program = "hil" /\ Late(orb) /\ ~sensors.running /\ main.status # "none" /\ ~main.transport
    BY <1>1, <2>1 DEF EndInv
  <2>5. CASE main' = [main EXCEPT !.pc = "stop", !.transport = complete /\ ~orb.failure]
    <3>1. main'.pc = "stop" /\ (main'.transport => complete) /\ main'.status = main.status
      BY <1>2, <2>5 DEF MainType
    <3> QED BY <1>1, <1>3, <2>1, <2>3, <2>4, <3>1 DEF EndInv
  <2>6. CASE main' = [main EXCEPT !.pc = "exit", !.raised = TRUE]
    <3>1. main'.pc = "exit" /\ main'.transport = main.transport /\ main'.status = main.status
      BY <1>2, <2>6 DEF MainType
    <3> QED BY <1>1, <1>3, <2>1, <2>4, <3>1 DEF EndInv
  <2> QED BY <2>2, <2>5, <2>6
<1>17. CASE Stop \/ PutShutdown \/ JoinQueue \/ CloseInput
  <2>1. /\ UNCHANGED <<program, sensors, reader>> /\ main.pc \in {"stop", "put", "join", "close"}
        /\ main'.pc \in {"put", "join", "close", "reap"} /\ main'.transport = main.transport
        /\ main'.status = main.status
    BY <1>2, <1>17 DEF Stop, PutShutdown, JoinQueue, CloseInput, Goto, MainType
  <2>2. orb'.accepted = orb.accepted /\ orb'.pending = orb.pending /\ orb'.lastImu = orb.lastImu
    <3>1. CASE Stop
      BY <1>2, <3>1 DEF Stop, Orbs
    <3>2. CASE PutShutdown \/ CloseInput
      BY <1>1, <3>2, PutShutdownMoves, CloseInputMoves
    <3>3. CASE JoinQueue
      BY <3>3 DEF JoinQueue
    <3> QED BY <1>17, <3>1, <3>2, <3>3
  <2>3. Late(orb') = Late(orb)
    BY <2>2 DEF Late
  <2> QED BY <1>1, <1>3, <2>1, <2>2, <2>3 DEF EndInv
<1>18. CASE Reap
  <2>1. /\ UNCHANGED <<program, sensors, reader, orb>> /\ main.pc = "reap" /\ child'.pc = "exited"
        /\ main'.pc \in {"closing", "report", "exit"} /\ (main'.pc = "closing" => main.status = "none")
        /\ main'.transport = main.transport /\ main'.status = main.status
    BY <1>2, <1>18 DEF Reap, MainType, ChildType
  <2> QED BY <1>1, <1>3, <2>1 DEF EndInv
<1>19. CASE Report
  <2>1. /\ UNCHANGED <<program, sensors, reader, orb, child>> /\ main.pc = "report" /\ main'.pc = "exit"
        /\ main'.transport = main.transport
        /\ main'.status = "FAIL" \/ (main'.status = "PROVISIONAL_LIVE_LOCAL_PASS" /\ main.transport /\ child.code = 0)
    BY <1>2, <1>19 DEF Report, MainType
  <2> QED BY <1>1, <2>1 DEF EndInv
<1> QED BY <1>4, <1>5, <1>6, <1>7, <1>8, <1>9, <1>10, <1>11, <1>12, <1>13, <1>14, <1>15, <1>16, <1>17, <1>18, <1>19
        DEF Next, Threads, Child, Main, ReaderEnds, ReaderFails

-----------------------------------------------------------------------------
(* The world.                                                               *)

\* Steps that leave the loop, or have left it, and those of the acceptance.
LEMMA WorldLeft ==
    ASSUME WorldInv, program' = program, world'.rows = world.rows, world'.anchor = world.anchor,
           ~(program' = "pair" /\ InLoop')
    PROVE  WorldInv'
BY DEF WorldInv

\* Steps that change nothing of the poses, from the child to the world.
LEMMA WorldKept ==
    ASSUME WorldInv, program' = program, world' = world, poses' = poses,
           child'.frame = child.frame, child'.map = child.map, child'.born = child.born,
           child'.unseen = child.unseen, child'.ready = child.ready, child'.pc = "track" => child.pc = "track",
           InLoop' => InLoop,
           main'.pc \notin {"poll", "anchor"} \/ (main'.pc = main.pc /\ main'.returned = main.returned),
           program = "pair" /\ InLoop' /\ (\A f \in orb.accepted : f <= feed.image)
              => \A f \in orb'.accepted : f <= feed'.image
    PROVE  WorldInv'
<1>1. world'.rows \subseteq {world'.anchor} /\ (program' = "hil" => world'.rows = {})
  BY DEF WorldInv
<1>2. SUFFICES ASSUME program' = "pair", InLoop' PROVE (TimesInv /\ StreamInv /\ WindowInv)'
  BY <1>1 DEF WorldInv
<1>3. TimesInv /\ StreamInv /\ WindowInv /\ program = "pair"
  BY <1>2 DEF WorldInv
<1>4. \A o : IsNewest(o)' <=> IsNewest(o)
  BY DEF IsNewest
<1>5. TimesInv'
  <2>1. \A f \in orb'.accepted : f <= feed'.image
    BY <1>2, <1>3 DEF TimesInv
  <2>2. world'.odometry # {} => \E o \in world'.odometry : IsNewest(o)'
    BY <1>3, <1>4 DEF TimesInv
  <2> QED BY <1>3, <2>1, <2>2 DEF TimesInv
<1>6. StreamInv'
  BY <1>3, <1>4 DEF StreamInv
<1>7. NoReturn' <=> NoReturn
  BY DEF NoReturn
<1>8. WindowInv'
  BY <1>3, <1>4, <1>7 DEF WindowInv
<1> QED BY <1>5, <1>6, <1>8

\* The child reads an image later than all its answers.
LEMMA WorldReads ==
    ASSUME Types, WorldInv, UNCHANGED <<program, world, poses, main, feed>>, orb'.accepted = orb.accepted,
           child'.map = child.map, child'.born = child.born,
           child'.unseen = child.unseen, child'.ready = child.ready, child'.pc = "track",
           child'.frame \in Nat, child.frame < child'.frame
    PROVE  WorldInv'
<1>1. world'.rows \subseteq {world'.anchor} /\ (program' = "hil" => world'.rows = {})
  BY DEF WorldInv
<1>2. SUFFICES ASSUME program' = "pair", InLoop' PROVE (TimesInv /\ StreamInv /\ WindowInv)'
  BY <1>1 DEF WorldInv
<1>3. TimesInv /\ StreamInv /\ WindowInv /\ program = "pair"
  BY <1>2 DEF WorldInv, InLoop
<1>4. \A o : IsNewest(o)' <=> IsNewest(o)
  BY DEF IsNewest
<1>5. TimesInv'
  <2>0. child.frame \in Nat /\ poses \in Seq(Poses) /\ world.odometry \in SUBSET [time : Nat, map : Nat \ {0}]
    BY DEF Types
  <2>1. \A f \in orb'.accepted : f <= feed'.image
    BY <1>3 DEF TimesInv
  <2>2. world'.odometry # {} => \E o \in world'.odometry : IsNewest(o)'
    BY <1>3, <1>4 DEF TimesInv
  <2>3. \A o \in world.odometry : o.time \in Nat /\ o.time <= child.frame
    BY <1>3, <2>0 DEF TimesInv
  <2>3a. \A i \in DOMAIN poses : poses[i] \in Poses
    BY <2>0
  <2>4. \A i \in DOMAIN poses : poses[i].frame \in Nat /\ poses[i].frame <= child.frame
    BY <1>3, <2>3a DEF TimesInv, Poses
  <2>5. \A o \in world.odometry : o.time <= child'.frame /\ o.time < child'.frame
    BY <2>0, <2>3
  <2>6. \A i \in DOMAIN poses : poses[i].frame <= child'.frame /\ poses[i].frame < child'.frame
    BY <2>0, <2>4
  <2> QED BY <1>3, <2>1, <2>2, <2>5, <2>6 DEF TimesInv
<1>6. StreamInv'
  BY <1>3, <1>4 DEF StreamInv
<1>7. NoReturn' <=> NoReturn
  BY DEF NoReturn
<1>8. WindowInv'
  BY <1>3, <1>4, <1>7 DEF WindowInv
<1> QED BY <1>5, <1>6, <1>8

\* A map becomes ready only when main has seen every reset.
LEMMA WorldBa2 ==
    ASSUME Types, WorldInv, Ba2Completes
    PROVE  WorldInv'
<1>0. /\ child \in ChildType /\ child' = [child EXCEPT !.ready = TRUE]
      /\ UNCHANGED <<program, sensors, combiner, feed, orb, writer, reader, poses, main, world, stopped, faults>>
      /\ ~child.ready /\ ~child.unseen /\ child.born # None
  BY AllTypes DEF Ba2Completes
<1>1. world'.rows \subseteq {world'.anchor} /\ (program' = "hil" => world'.rows = {})
  BY <1>0 DEF WorldInv
<1>2. SUFFICES ASSUME program' = "pair", InLoop' PROVE (TimesInv /\ StreamInv /\ WindowInv)'
  BY <1>1 DEF WorldInv
<1>3. TimesInv /\ StreamInv /\ WindowInv /\ program = "pair"
  BY <1>0, <1>2 DEF WorldInv, InLoop
<1>4. \A o : IsNewest(o)' <=> IsNewest(o)
  BY <1>0 DEF IsNewest
<1>5. /\ child'.pc = child.pc /\ child'.frame = child.frame /\ child'.map = child.map /\ child'.born = child.born
      /\ child'.unseen = child.unseen /\ child'.ready
  BY <1>0 DEF ChildType
<1>6. TimesInv'
  <2>2. world'.odometry # {} => \E o \in world'.odometry : IsNewest(o)'
    BY <1>0, <1>3, <1>4 DEF TimesInv
  <2> QED BY <1>0, <1>3, <1>5, <2>2 DEF TimesInv
<1>7. StreamInv'
  BY <1>0, <1>3, <1>4, <1>5 DEF StreamInv
<1>8. NoReturn => NoReturn'
  BY <1>0 DEF NoReturn
<1>9. WindowInv'
  BY <1>0, <1>3, <1>4, <1>8 DEF WindowInv
<1> QED BY <1>6, <1>7, <1>9

\* The poses with one more behind them.
LEMMA PoseAppend ==
    ASSUME NEW s \in Seq(Poses), NEW pose \in Poses
    PROVE  /\ Len(s) \in Nat /\ DOMAIN s = 1 .. Len(s) /\ DOMAIN Append(s, pose) = 1 .. Len(s) + 1
           /\ Append(s, pose) # <<>> /\ Len(Append(s, pose)) = Len(s) + 1
           /\ \A i \in 1 .. Len(s) : Append(s, pose)[i] = s[i]
           /\ Append(s, pose)[Len(s) + 1] = pose
           /\ (s = <<>> <=> Len(s) = 0)
<1>1. /\ Len(s) \in Nat /\ DOMAIN s = 1 .. Len(s) /\ Append(s, pose) \in Seq(Poses)
      /\ Len(Append(s, pose)) = Len(s) + 1
      /\ \A i \in 1 .. Len(s) : Append(s, pose)[i] = s[i]
      /\ Append(s, pose)[Len(s) + 1] = pose
      /\ Append(s, pose) # <<>>
  BY AppendProperties, LenProperties
<1>2. DOMAIN Append(s, pose) = 1 .. Len(s) + 1
  BY <1>1, LenProperties
<1>3. s = <<>> <=> Len(s) = 0
  BY EmptySeq
<1> QED BY <1>1, <1>2, <1>3

\* The child answers: its pose is behind those that wait, and ready only if its
\* map is the one before.
LEMMA WorldAnswers ==
    ASSUME Types, WorldInv, program = "pair", InLoop, child.pc = "track",
           UNCHANGED <<program, sensors, combiner, feed, orb, writer, main, world, stopped, faults>>,
           NEW reset \in BOOLEAN, NEW map \in Nat \ {0}, NEW pose \in Poses,
           NEW begins, begins = (reset \/ child.born = None), ~reset => map = child.map,
           pose.frame = child.frame, pose.ready = (child.ready /\ ~begins), pose.map = map,
           child'.pc = "idle", child'.frame = child.frame, child'.map = map, child'.ready = pose.ready,
           ~begins => child'.born = child.born, child'.unseen = (child.unseen \/ reset),
           poses' = Append(poses, pose)
    PROVE  WorldInv'
<1>1. world'.rows \subseteq {world'.anchor} /\ (program' = "hil" => world'.rows = {})
  BY DEF WorldInv
<1>2. TimesInv /\ StreamInv /\ WindowInv
  BY DEF WorldInv
<1>3. \A o : IsNewest(o)' <=> IsNewest(o)
  BY DEF IsNewest
<1> DEFINE n == Len(poses)
           s == poses'
<1>4. /\ n \in Nat /\ DOMAIN poses = 1 .. n /\ DOMAIN s = 1 .. n + 1
      /\ s # <<>> /\ Len(s) = n + 1
      /\ \A i \in 1 .. n : s[i] = poses[i]
      /\ s[n + 1] = pose
      /\ (poses = <<>> <=> n = 0)
  <2>1. poses \in Seq(Poses)
    BY AllTypes
  <2>2. /\ Len(poses) \in Nat /\ DOMAIN poses = 1 .. Len(poses) /\ DOMAIN Append(poses, pose) = 1 .. Len(poses) + 1
        /\ Append(poses, pose) # <<>> /\ Len(Append(poses, pose)) = Len(poses) + 1
        /\ \A i \in 1 .. Len(poses) : Append(poses, pose)[i] = poses[i]
        /\ Append(poses, pose)[Len(poses) + 1] = pose
        /\ (poses = <<>> <=> Len(poses) = 0)
    BY <2>1, PoseAppend
  <2> QED BY <2>2, Zenon
<1>5. /\ child.frame \in Nat /\ (\A i \in DOMAIN poses : poses[i] \in Poses)
      /\ world.odometry \in SUBSET [time : Nat, map : Nat \ {0}] /\ child.ready \in BOOLEAN /\ pose.ready \in BOOLEAN
  <2>1. child \in ChildType /\ poses \in Seq(Poses) /\ world \in WorldType
    BY AllTypes
  <2>2. \A i \in DOMAIN poses : poses[i] \in Poses
    BY <2>1
  <2>3. pose.ready \in BOOLEAN
    BY DEF Poses
  <2> QED BY <2>1, <2>2, <2>3 DEF ChildType, WorldType
<1> HIDE DEF n, s
<1>6. \A i \in DOMAIN s : (i \in DOMAIN poses /\ s[i] = poses[i]) \/ (i = n + 1 /\ s[i] = pose)
  <2> TAKE i \in DOMAIN s
  <2>1. i \in 1 .. n \/ i = n + 1
    BY <1>4
  <2> QED BY <1>4, <2>1
<1>7. TimesInv'
  <2>1. \A f \in orb'.accepted : f <= feed'.image
    BY <1>2 DEF TimesInv
  <2>2. world'.odometry # {} => \E o \in world'.odometry : IsNewest(o)'
    BY <1>2, <1>3 DEF TimesInv
  <2>3. \A o \in world.odometry : o.time <= child.frame /\ o.time < child.frame
    BY <1>2, <1>5 DEF TimesInv
  <2>4. \A i \in DOMAIN poses : poses[i].frame \in Nat /\ poses[i].frame < child.frame
    BY <1>2, <1>5 DEF TimesInv, Poses
  <2>5. \A o \in world.odometry : \A i \in DOMAIN s : o.time < s[i].frame
    BY <1>2, <1>6, <2>3 DEF TimesInv
  <2>6. \A i \in DOMAIN s : s[i].frame <= child.frame
    BY <1>5, <1>6, <2>4
  <2>7. ASSUME NEW i \in DOMAIN s, NEW j \in DOMAIN s, i < j PROVE s[i].frame < s[j].frame
    <3>1. i \in DOMAIN poses /\ s[i] = poses[i]
      <4>1. i # n + 1
        BY <1>4, <2>7
      <4> QED BY <1>6, <4>1
    <3>2. CASE j \in DOMAIN poses /\ s[j] = poses[j]
      BY <1>2, <2>7, <3>1, <3>2 DEF TimesInv
    <3>3. CASE s[j] = pose
      BY <2>4, <3>1, <3>3
    <3> QED BY <1>6, <3>2, <3>3
  <2>8. \A o \in world'.odometry :
           /\ o.time <= child'.frame /\ (child'.pc = "track" => o.time < child'.frame)
           /\ \A i \in DOMAIN poses' : o.time < poses'[i].frame
           /\ main'.pc = "anchor" => o.time <= main'.returned
    BY <1>2, <2>3, <2>5 DEF TimesInv, s
  <2>9. \A i \in DOMAIN poses' :
           /\ poses'[i].frame <= child'.frame /\ (child'.pc = "track" => poses'[i].frame < child'.frame)
           /\ \A j \in DOMAIN poses' : i < j => poses'[i].frame < poses'[j].frame
    BY <2>6, <2>7 DEF s
  <2> QED BY <2>1, <2>2, <2>8, <2>9 DEF TimesInv
<1>8. pose.ready => ~begins /\ child.ready /\ map = child.map /\ child.born # None
  OBVIOUS
<1>9. StreamInv'
  <2>1. world'.ready => world'.odometry # {}
    BY <1>2 DEF StreamInv
  <2>2. ASSUME NEW i \in DOMAIN s, s[i].ready
        PROVE  IF i = 1 THEN world.ready => \A o : IsNewest(o) => o.map = s[1].map
                        ELSE s[i - 1].ready => s[i - 1].map = s[i].map
    <3>1. CASE i \in DOMAIN poses /\ s[i] = poses[i]
      <4>1. i # 1 => i - 1 \in 1 .. n
        BY <1>4, <3>1
      <4>2. i = 1 => s[1] = poses[1]
        BY <3>1
      <4>3. i # 1 => s[i - 1] = poses[i - 1]
        BY <1>4, <4>1
      <4>4. IF i = 1 THEN world.ready => \A o : IsNewest(o) => o.map = poses[1].map
                     ELSE poses[i - 1].ready => poses[i - 1].map = poses[i].map
        BY <1>2, <2>2, <3>1 DEF StreamInv
      <4> QED BY <3>1, <4>2, <4>3, <4>4
    <3>2. CASE i = n + 1 /\ s[i] = pose
      <4>1. child.ready /\ pose.map = child.map
        BY <1>8, <2>2, <3>2
      <4>2. CASE n = 0
        <5>1. world.ready => \A o : IsNewest(o) => o.map = child.map
          BY <1>2, <1>4, <4>2 DEF StreamInv
        <5> QED BY <3>2, <4>1, <4>2, <5>1
      <4>3. CASE n # 0
        <5>1. n \in 1 .. n /\ i - 1 = n /\ i # 1 /\ s[i - 1] = poses[n]
          BY <1>4, <3>2, <4>3
        <5>2. poses[n].ready => poses[n].map = child.map
          BY <1>2, <1>4, <4>3 DEF StreamInv, n
        <5> QED BY <3>2, <4>1, <5>1, <5>2
      <4> QED BY <4>2, <4>3
    <3> QED BY <1>6, <3>1, <3>2
  <2>3. s[Len(s)].ready => child'.ready /\ s[Len(s)].map = child'.map
    BY <1>4
  <2>4. child'.ready => child'.born # None
    BY <1>8
  <2>5. \A i \in DOMAIN poses' : poses'[i].ready =>
            IF i = 1 THEN world'.ready => \A o : IsNewest(o)' => o.map = poses'[1].map
                     ELSE poses'[i - 1].ready => poses'[i - 1].map = poses'[i].map
    BY <1>3, <2>2 DEF s
  <2>6. poses' # <<>> /\ (poses'[Len(poses')].ready => child'.ready /\ poses'[Len(poses')].map = child'.map)
    BY <1>4, <2>3 DEF s
  <2> QED BY <2>1, <2>4, <2>5, <2>6 DEF StreamInv
<1>10. ASSUME NoReturn, child.unseen \/ world.ready \/ n # 0 PROVE NoReturn'
  <2>1. ASSUME NEW i \in DOMAIN s, ~s[i].ready
        PROVE  child'.unseen /\ ~child'.ready /\ \A j \in DOMAIN s : i < j => ~s[j].ready
    <3>1. CASE i \in DOMAIN poses /\ s[i] = poses[i]
      <4>1. child.unseen /\ ~child.ready /\ \A j \in DOMAIN poses : i < j => ~poses[j].ready
        BY <1>10, <2>1, <3>1 DEF NoReturn
      <4>2. ~pose.ready
        BY <4>1
      <4> QED BY <1>6, <4>1, <4>2
    <3>2. CASE i = n + 1 /\ s[i] = pose
      <4>1. ~child'.ready
        BY <2>1, <3>2
      <4>2. child'.unseen
        <5>1. SUFFICES ASSUME ~child.unseen PROVE reset
          OBVIOUS
        <5>2. \A k \in DOMAIN poses : poses[k].ready
          BY <1>10, <5>1 DEF NoReturn
        <5>3. CASE n = 0
          <6>1. child.ready
            BY <1>2, <1>4, <1>10, <5>1, <5>3 DEF StreamInv
          <6> QED BY <1>2, <2>1, <3>2, <6>1 DEF StreamInv
        <5>4. CASE n # 0
          <6>1. n \in DOMAIN poses /\ poses # <<>>
            BY <1>4, <5>4
          <6>2. child.ready /\ child.born # None
            BY <1>2, <5>2, <6>1 DEF StreamInv, n
          <6> QED BY <2>1, <3>2, <6>2
        <5> QED BY <5>3, <5>4
      <4>3. \A j \in DOMAIN s : ~(i < j)
        BY <1>4, <3>2
      <4> QED BY <4>1, <4>2, <4>3
    <3> QED BY <1>6, <3>1, <3>2
  <2> QED BY <2>1 DEF NoReturn, s
<1>11. WindowInv'
  <2>1. main'.pc \in {"poll", "anchor"} /\ world'.ready => NoReturn'
    BY <1>2, <1>10 DEF WindowInv
  <2>2. world.window # <<>> /\ world.ready =>
           NoReturn' /\ \A k \in DOMAIN world.window : \A o : IsNewest(o) => world.window[k] = o.map
    BY <1>2, <1>10 DEF WindowInv
  <2>3. ASSUME world.window # <<>>, ~world.ready
        PROVE  child'.unseen /\ ~child'.ready /\ \A i \in DOMAIN s : ~s[i].ready
    BY <1>2, <1>6, <2>3 DEF WindowInv
  <2>4. world'.window # <<>> =>
           IF world'.ready
           THEN NoReturn' /\ \A k \in DOMAIN world'.window : \A o : IsNewest(o)' => world'.window[k] = o.map
           ELSE child'.unseen /\ ~child'.ready /\ \A i \in DOMAIN poses' : ~poses'[i].ready
    BY <1>3, <2>2, <2>3 DEF s
  <2>5. world'.anchor # None => world'.ready /\ \A o : IsNewest(o)' => o.map = world'.anchor
    BY <1>2, <1>3 DEF WindowInv
  <2> QED BY <2>1, <2>4, <2>5 DEF WindowInv
<1> QED BY <1>1, <1>7, <1>9, <1>11 DEF WorldInv

\* Main looks at an image no older than any pose.
LEMMA WorldPolls ==
    ASSUME Types, PipeInv, WorldInv, program = "pair", main.pc = "poll",
           UNCHANGED <<program, feed, orb, child, poses, world>>,
           main'.pc \in {"loop", "anchor"}, main'.returned = feed.image
    PROVE  WorldInv'
<1>1. TimesInv /\ StreamInv /\ WindowInv
  BY DEF WorldInv, InLoop
<1>2. \A o : IsNewest(o)' <=> IsNewest(o)
  BY DEF IsNewest
<1>3. NoReturn' <=> NoReturn
  BY DEF NoReturn
<1>4. \A o \in world.odometry : o.time <= feed.image
  <2>1. child.frame \in Nat /\ feed.image \in Nat
    BY DEF Types
  <2>2. child.frame <= feed.image
    BY <1>1, <2>1 DEF PipeInv, TimesInv, None
  <2>3. world.odometry \in SUBSET [time : Nat, map : Nat \ {0}]
    BY DEF Types
  <2>4. \A o \in world.odometry : o.time \in Nat /\ o.time <= child.frame
    BY <1>1, <2>3 DEF TimesInv
  <2> QED BY <2>1, <2>2, <2>4
<1>5. TimesInv'
  <2>1. world'.odometry # {} => \E o \in world'.odometry : IsNewest(o)'
    BY <1>1, <1>2 DEF TimesInv
  <2> QED BY <1>1, <1>4, <2>1 DEF TimesInv
<1>6. StreamInv'
  BY <1>1, <1>2 DEF StreamInv
<1>7. WindowInv'
  BY <1>1, <1>2, <1>3 DEF WindowInv
<1> QED BY <1>5, <1>6, <1>7 DEF WorldInv

\* The pose nearest to such an image is the newest one.
LEMMA NearestIsNewest ==
    ASSUME Types, TimesInv, main.pc = "anchor", NEW o \in Nearest(main.returned)
    PROVE  IsNewest(o)
<1>1. o \in world.odometry /\ \A p \in world.odometry : Distance(o.time, main.returned) <= Distance(p.time, main.returned)
  BY DEF Nearest
<1>2. PICK p \in world.odometry : IsNewest(p)
  BY <1>1 DEF TimesInv
<1>3. /\ main.returned \in Nat /\ o.time \in Nat /\ p.time \in Nat
      /\ o.time <= main.returned /\ p.time <= main.returned
  <2>1. world \in WorldType /\ main \in MainType
    BY AllTypes
  <2> QED BY <1>1, <1>2, <2>1 DEF WorldType, MainType, TimesInv
<1>4. Distance(o.time, main.returned) = main.returned - o.time /\ Distance(p.time, main.returned) = main.returned - p.time
  BY <1>3 DEF Distance
<1>5. p.time <= o.time
  BY <1>1, <1>3, <1>4
<1>6. o = p \/ o.time < p.time
  BY <1>1, <1>2 DEF IsNewest
<1>7. o = p
  BY <1>3, <1>5, <1>6
<1> QED BY <1>2, <1>7

LEMMA AppendMembers ==
    ASSUME NEW S, NEW s \in Seq(S), NEW x \in S
    PROVE  /\ \A k \in DOMAIN Append(s, x) : (k \in DOMAIN s /\ Append(s, x)[k] = s[k]) \/ Append(s, x)[k] = x
           /\ \A y \in ToSet(Append(s, x)) : y = x \/ \E k \in DOMAIN s : y = s[k]
<1> DEFINE n == Len(s)
           a == Append(s, x)
<1>1. n \in Nat /\ DOMAIN s = 1 .. n /\ (\A i \in 1 .. n : a[i] = s[i]) /\ a[n + 1] = x /\ DOMAIN a = 1 .. n + 1
  <2>1. /\ n \in Nat /\ DOMAIN s = 1 .. n /\ a \in Seq(S) /\ Len(a) = n + 1
        /\ (\A i \in 1 .. n : a[i] = s[i]) /\ a[n + 1] = x
    BY AppendProperties, LenProperties
  <2> QED BY <2>1, LenProperties
<1> HIDE DEF n, a
<1>2. \A k \in DOMAIN a : (k \in DOMAIN s /\ a[k] = s[k]) \/ a[k] = x
  <2> TAKE k \in DOMAIN a
  <2>1. k \in 1 .. n \/ k = n + 1
    BY <1>1
  <2> QED BY <1>1, <2>1
<1>3. \A y \in ToSet(a) : y = x \/ \E k \in DOMAIN s : y = s[k]
  BY <1>2 DEF ToSet
<1> QED BY <1>2, <1>3 DEF a

\* A search is of the newest pose, which comes before every reset.
LEMMA WorldSearches ==
    ASSUME Types, WorldInv, EndInv, Search
    PROVE  WorldInv'
<1>0. /\ main.pc = "anchor" /\ main'.pc = "loop" /\ program = "pair"
      /\ UNCHANGED <<program, feed, orb, poses>>
      /\ child \in ChildType /\ child' = [child EXCEPT !.unseen = @ /\ world.ready]
  <2>1. child \in ChildType /\ main \in MainType
    BY AllTypes
  <2> QED BY <2>1 DEF Search, Goto, MainType, EndInv
<1>1. world.rows \subseteq {world.anchor} /\ TimesInv /\ StreamInv /\ WindowInv
  BY <1>0 DEF WorldInv, InLoop
<1>2. /\ child'.pc = child.pc /\ child'.frame = child.frame /\ child'.map = child.map /\ child'.born = child.born
      /\ child'.ready = child.ready /\ child'.unseen = (child.unseen /\ world.ready)
  BY <1>0 DEF ChildType
<1>3. /\ world \in WorldType /\ world' \in WorldType /\ world'.ready = world.ready /\ world'.odometry = world.odometry
      /\ world'.rows = world.rows
      /\ \/ world'.window = <<>> /\ world'.anchor = world.anchor
         \/ \E o \in Nearest(main.returned) :
               /\ world.ready /\ o \in world.odometry
               /\ \/ world'.window = Append(world.window, o.map) /\ world'.anchor = world.anchor
                  \/ /\ world'.window = <<>>
                     /\ world'.anchor \in IF world.anchor # None THEN {world.anchor}
                                          ELSE {None} \cup ToSet(Append(world.window, o.map))
  BY SearchTypes, AllTypes
<1>4. \A o : IsNewest(o)' <=> IsNewest(o)
  BY <1>3 DEF IsNewest
<1>5. TimesInv'
  <2>1. world'.odometry # {} => \E o \in world'.odometry : IsNewest(o)'
    BY <1>1, <1>3, <1>4 DEF TimesInv
  <2> QED BY <1>0, <1>1, <1>2, <1>3, <2>1 DEF TimesInv
<1>6. StreamInv'
  BY <1>0, <1>1, <1>2, <1>3, <1>4 DEF StreamInv
<1>7. world.ready /\ NoReturn => NoReturn'
  BY <1>0, <1>2 DEF NoReturn
<1>8. WindowInv' /\ world'.rows \subseteq {world'.anchor}
  <2>1. CASE world'.window = <<>> /\ world'.anchor = world.anchor
    BY <1>0, <1>1, <1>3, <1>4, <2>1 DEF WindowInv
  <2>2. ASSUME NEW o \in Nearest(main.returned),
               world.ready, o \in world.odometry,
               \/ world'.window = Append(world.window, o.map) /\ world'.anchor = world.anchor
               \/ /\ world'.window = <<>>
                  /\ world'.anchor \in IF world.anchor # None THEN {world.anchor}
                                       ELSE {None} \cup ToSet(Append(world.window, o.map))
        PROVE  WindowInv' /\ world'.rows \subseteq {world'.anchor}
    <3>1. IsNewest(o)
      BY <1>0, <1>1, NearestIsNewest
    <3>2. \A p : IsNewest(p) => p.map = o.map
      <4>1. \A p : IsNewest(p) => p \in world.odometry /\ (o = p \/ o.time < p.time) /\ (p = o \/ p.time < o.time)
        BY <3>1 DEF IsNewest
      <4>2. \A p \in world.odometry : p.time \in Nat
        BY <1>3 DEF WorldType
      <4>3. o.time \in Nat
        BY <2>2, <4>2
      <4> QED BY <4>1, <4>2, <4>3
    <3>3. NoReturn /\ NoReturn'
      BY <1>0, <1>1, <1>7, <2>2 DEF WindowInv
    <3>4. \A k \in DOMAIN world.window : world.window[k] = o.map
      <4>1. world.window # <<>> => \A k \in DOMAIN world.window : \A p : IsNewest(p) => world.window[k] = p.map
        BY <1>1, <2>2 DEF WindowInv
      <4>2. ASSUME NEW k \in DOMAIN world.window PROVE world.window # <<>>
        <5>1. world.window \in Seq(Nat \ {0}) /\ DOMAIN <<>> = {}
          BY <1>3 DEF WorldType
        <5> QED BY <4>2, <5>1
      <4> QED BY <3>1, <4>1, <4>2
    <3>5. /\ \A k \in DOMAIN Append(world.window, o.map) : Append(world.window, o.map)[k] = o.map
          /\ \A y \in ToSet(Append(world.window, o.map)) : y = o.map
      <4>1. world.window \in Seq(Nat \ {0}) /\ o.map \in Nat \ {0}
        BY <1>3, <2>2 DEF WorldType
      <4> QED BY <3>4, <4>1, AppendMembers
    <3>6. CASE world'.window = Append(world.window, o.map) /\ world'.anchor = world.anchor
      <4>1. \A k \in DOMAIN world'.window : \A p : IsNewest(p)' => world'.window[k] = p.map
        BY <1>4, <3>2, <3>5, <3>6
      <4>2. world'.anchor # None => world'.ready /\ \A p : IsNewest(p)' => p.map = world'.anchor
        BY <1>1, <1>3, <1>4, <3>6 DEF WindowInv
      <4>3. world'.ready /\ main'.pc = "loop"
        BY <1>0, <1>3, <2>2
      <4> QED BY <1>1, <1>3, <3>3, <3>6, <4>1, <4>2, <4>3 DEF WindowInv
    <3>7. CASE /\ world'.window = <<>>
               /\ world'.anchor \in IF world.anchor # None THEN {world.anchor}
                                    ELSE {None} \cup ToSet(Append(world.window, o.map))
      <4>1. world'.anchor # None => world'.ready /\ \A p : IsNewest(p)' => p.map = world'.anchor
        <5>1. CASE world.anchor # None
          BY <1>1, <1>3, <1>4, <3>7, <5>1 DEF WindowInv
        <5>2. CASE world.anchor = None
          <6>1. world'.anchor # None => world'.anchor = o.map
            BY <3>5, <3>7, <5>2
          <6> QED BY <1>3, <1>4, <2>2, <3>2, <6>1
        <5> QED BY <5>1, <5>2
      <4>2. world'.rows \subseteq {world'.anchor}
        <5>1. CASE world.anchor # None
          BY <1>1, <1>3, <3>7, <5>1
        <5>2. CASE world.anchor = None
          <6>1. world.rows = {}
            BY <1>1, <1>3, <5>2 DEF WorldType, None
          <6> QED BY <1>3, <6>1
        <5> QED BY <5>1, <5>2
      <4> QED BY <1>0, <3>7, <4>1, <4>2 DEF WindowInv
    <3> QED BY <2>2, <3>6, <3>7
  <2> QED BY <1>3, <2>1, <2>2
<1>9. program' = "hil" => world'.rows = {}
  BY <1>0
<1> QED BY <1>5, <1>6, <1>8, <1>9 DEF WorldInv

LEMMA PoseTail ==
    ASSUME NEW s \in Seq(Poses), s # <<>>
    PROVE  /\ Len(s) \in Nat \ {0} /\ DOMAIN s = 1 .. Len(s) /\ DOMAIN Tail(s) = 1 .. Len(s) - 1
           /\ Len(Tail(s)) = Len(s) - 1 /\ Head(s) = s[1] /\ Head(s) \in Poses
           /\ (Tail(s) = <<>> <=> Len(s) = 1)
           /\ \A i \in 1 .. Len(s) - 1 : Tail(s)[i] = s[i + 1]
<1>1. /\ Head(s) \in Poses /\ Tail(s) \in Seq(Poses) /\ Len(Tail(s)) = Len(s) - 1
      /\ \A i \in 1 .. Len(Tail(s)) : Tail(s)[i] = s[i + 1]
  BY HeadTailProperties
<1>2. Len(s) \in Nat \ {0} /\ DOMAIN s = 1 .. Len(s) /\ Head(s) = s[1]
  BY EmptySeq, LenProperties
<1>3. DOMAIN Tail(s) = 1 .. Len(s) - 1
  BY <1>1, LenProperties
<1>4. Tail(s) = <<>> <=> Len(s) = 1
  <2> DEFINE t == Tail(s)
  <2>1. t \in Seq(Poses) /\ Len(t) = Len(s) - 1
    BY <1>1
  <2> HIDE DEF t
  <2>2. t = <<>> => Len(t) = 0
    BY EmptySeq
  <2>3. t # <<>> => Len(t) \in Nat \ {0}
    BY <2>1, EmptySeq
  <2>4. t = <<>> <=> Len(s) = 1
    BY <1>2, <2>1, <2>2, <2>3
  <2> QED BY <2>4 DEF t
<1> QED BY <1>1, <1>2, <1>3, <1>4

\* Main takes a pose, which is then the newest.
LEMMA WorldDrains ==
    ASSUME Types, WorldInv, program = "pair", main.pc = "drain", poses # <<>>, EpochIsValid(Head(poses)),
           UNCHANGED <<program, feed, orb, child, main>>,
           poses' = Tail(poses), world' = Ingested(Head(poses))
    PROVE  WorldInv'
<1> DEFINE n == Len(poses)
           s == poses'
           pose == Head(poses)
<1>1. world.rows \subseteq {world.anchor} /\ TimesInv /\ StreamInv /\ WindowInv
  BY DEF WorldInv, InLoop
<1>2. /\ n \in Nat \ {0} /\ DOMAIN poses = 1 .. n /\ DOMAIN s = 1 .. n - 1 /\ Len(s) = n - 1
      /\ pose = poses[1] /\ pose \in Poses /\ (s = <<>> <=> n = 1)
      /\ \A i \in 1 .. n - 1 : s[i] = poses[i + 1]
  <2>1. poses \in Seq(Poses)
    BY AllTypes
  <2>2. /\ Len(poses) \in Nat \ {0} /\ DOMAIN poses = 1 .. Len(poses) /\ DOMAIN Tail(poses) = 1 .. Len(poses) - 1
        /\ Len(Tail(poses)) = Len(poses) - 1 /\ Head(poses) = poses[1] /\ Head(poses) \in Poses
        /\ (Tail(poses) = <<>> <=> Len(poses) = 1)
        /\ \A i \in 1 .. Len(poses) - 1 : Tail(poses)[i] = poses[i + 1]
    BY <2>1, PoseTail
  <2> QED BY <2>2, Zenon
<1>3. /\ world \in WorldType /\ main \in MainType /\ child \in ChildType
      /\ \A i \in DOMAIN poses : poses[i] \in Poses
  <2>1. poses \in Seq(Poses)
    BY AllTypes
  <2> QED BY <2>1, AllTypes
<1>4. /\ world' \in WorldType
      /\ world'.ready = pose.ready /\ world'.window = world.window /\ world'.anchor = world.anchor
      /\ world'.odometry = {o \in world.odometry : o.time + Stale >= main.returned}
                              \cup {[time |-> pose.frame, map |-> pose.map]}
      /\ world'.rows = IF world.anchor # None THEN world.rows \cup {pose.map} ELSE world.rows
  BY <1>2, <1>3, IngestedTypes
<1>5. pose.ready \/ world.anchor = None
  BY DEF EpochIsValid
<1>6. main.pc = "drain" /\ UNCHANGED <<program, feed, orb, child, main>>
  OBVIOUS
<1> HIDE DEF n, s, pose
<1> DEFINE new == [time |-> pose.frame, map |-> pose.map]
<1>7. /\ new.time = pose.frame /\ new.map = pose.map /\ new \in world'.odometry
      /\ \A o \in world'.odometry : o = new \/ o \in world.odometry
  BY <1>4
<1>8. 1 \in DOMAIN poses /\ \A i \in DOMAIN s : i + 1 \in DOMAIN poses /\ s[i] = poses[i + 1] /\ 1 < i + 1 /\ i \in Nat
  BY <1>2
<1>9. \A o \in world.odometry : o.time < pose.frame /\ o.time \in Nat /\ pose.frame \in Nat
  <2>1. pose.frame \in Nat
    BY <1>2 DEF Poses
  <2> QED BY <1>1, <1>2, <1>3, <1>8, <2>1 DEF TimesInv, WorldType
<1>10. \A o : IsNewest(o)' <=> o = new
  <2> HIDE DEF new
  <2>1. \A p \in world'.odometry : p = new \/ p.time < new.time
    BY <1>7, <1>9
  <2>2. pose.frame \in Nat
    BY <1>2 DEF Poses
  <2>3. ASSUME NEW o \in world'.odometry, \A p \in world'.odometry : p = o \/ p.time < o.time PROVE o = new
    <3>1. new = o \/ new.time < o.time
      BY <1>7, <2>3
    <3>2. o = new \/ (o.time < new.time /\ o.time \in Nat)
      BY <1>7, <1>9, <2>3
    <3> QED BY <1>7, <2>2, <3>1, <3>2
  <2>4. new \in world'.odometry
    BY <1>7
  <2>5. \A o : IsNewest(o)' <=> (o \in world'.odometry /\ \A p \in world'.odometry : p = o \/ p.time < o.time)
    BY DEF IsNewest
  <2> QED BY <2>1, <2>3, <2>4, <2>5
<1> HIDE DEF new
<1>11. TimesInv'
  <2>1. \A f \in orb'.accepted : f <= feed'.image
    BY <1>1, <1>6 DEF TimesInv
  <2>2. world'.odometry # {} => \E o \in world'.odometry : IsNewest(o)'
    BY <1>7, <1>10
  <2>3. \A i \in DOMAIN s : pose.frame < s[i].frame
    BY <1>1, <1>2, <1>8 DEF TimesInv
  <2>4. pose.frame <= child.frame /\ (child.pc = "track" => pose.frame < child.frame)
    BY <1>1, <1>2, <1>8 DEF TimesInv
  <2>5. \A o \in world'.odometry :
           /\ o.time <= child.frame /\ (child.pc = "track" => o.time < child.frame)
           /\ \A i \in DOMAIN s : o.time < s[i].frame
    <3> TAKE o \in world'.odometry
    <3>1. CASE o = new
      BY <1>7, <2>3, <2>4, <3>1
    <3>2. CASE o \in world.odometry
      BY <1>1, <1>8, <3>2 DEF TimesInv
    <3> QED BY <1>7, <3>1, <3>2
  <2>6. \A i \in DOMAIN s :
           /\ s[i].frame <= child.frame /\ (child.pc = "track" => s[i].frame < child.frame)
           /\ \A j \in DOMAIN s : i < j => s[i].frame < s[j].frame
    <3> TAKE i \in DOMAIN s
    <3>1. s[i].frame <= child.frame /\ (child.pc = "track" => s[i].frame < child.frame)
      BY <1>1, <1>8 DEF TimesInv
    <3>2. ASSUME NEW j \in DOMAIN s, i < j PROVE s[i].frame < s[j].frame
      <4>1. i + 1 \in DOMAIN poses /\ j + 1 \in DOMAIN poses /\ i + 1 < j + 1 /\ s[i] = poses[i + 1] /\ s[j] = poses[j + 1]
        BY <1>8, <3>2
      <4> QED BY <1>1, <4>1 DEF TimesInv
    <3> QED BY <3>1, <3>2
  <2>7. main'.pc # "anchor"
    BY <1>6
  <2>8. child' = child
    BY <1>6
  <2>9. /\ \A o \in world'.odometry :
             /\ o.time <= child'.frame /\ (child'.pc = "track" => o.time < child'.frame)
             /\ \A i \in DOMAIN poses' : o.time < poses'[i].frame
        /\ \A i \in DOMAIN poses' :
             /\ poses'[i].frame <= child'.frame /\ (child'.pc = "track" => poses'[i].frame < child'.frame)
             /\ \A j \in DOMAIN poses' : i < j => poses'[i].frame < poses'[j].frame
    BY <2>5, <2>6, <2>8 DEF s
  <2> QED BY <2>1, <2>2, <2>7, <2>9 DEF TimesInv
<1>12. \A i \in DOMAIN poses : poses[i].ready =>
          IF i = 1 THEN world.ready => \A o : IsNewest(o) => o.map = poses[1].map
                   ELSE poses[i - 1].ready => poses[i - 1].map = poses[i].map
  BY <1>1 DEF StreamInv
<1>13. \A i \in DOMAIN s : s[i].ready =>
          IF i = 1 THEN pose.ready => s[1].map = pose.map
                   ELSE s[i - 1].ready => s[i - 1].map = s[i].map
  <2> TAKE i \in DOMAIN s
  <2>1. /\ i + 1 \in DOMAIN poses /\ i + 1 # 1 /\ (i + 1) - 1 = i /\ s[i] = poses[i + 1]
        /\ (i # 1 => i - 1 \in DOMAIN s /\ s[i - 1] = poses[i])
    BY <1>2, <1>8
  <2>2. poses[i + 1].ready => (poses[i].ready => poses[i].map = poses[i + 1].map)
    BY <1>12, <2>1
  <2>3. CASE i = 1
    BY <1>2, <2>1, <2>2, <2>3
  <2>4. CASE i # 1
    BY <2>1, <2>2, <2>4
  <2> QED BY <2>3, <2>4
<1>14. StreamInv'
  <2>1. world'.ready => world'.odometry # {}
    BY <1>7
  <2>2. \A i \in DOMAIN poses' : poses'[i].ready =>
            IF i = 1 THEN world'.ready => \A o : IsNewest(o)' => o.map = poses'[1].map
                     ELSE poses'[i - 1].ready => poses'[i - 1].map = poses'[i].map
    BY <1>4, <1>7, <1>10, <1>13 DEF s
  <2>3. child.ready => child.born # None
    BY <1>1 DEF StreamInv
  <2>4. poses[n].ready => child.ready /\ poses[n].map = child.map
    BY <1>1 DEF StreamInv, n
  <2>5. CASE n = 1
    <3>1. s = <<>> /\ poses[n] = pose
      BY <1>2, <2>5
    <3>2. world'.ready => child'.ready /\ \A o : IsNewest(o)' => o.map = child'.map
      BY <1>4, <1>6, <1>7, <1>10, <2>4, <3>1
    <3> QED BY <1>6, <2>1, <2>2, <2>3, <3>1, <3>2 DEF StreamInv, s
  <2>6. CASE n # 1
    <3>1. s # <<>> /\ n - 1 \in 1 .. n - 1 /\ s[n - 1] = poses[n]
      <4>1. n - 1 \in 1 .. n - 1 /\ (n - 1) + 1 = n
        BY <1>2, <2>6
      <4> QED BY <1>2, <2>6, <4>1
    <3>2. s[Len(s)].ready => child'.ready /\ s[Len(s)].map = child'.map
      BY <1>2, <1>6, <2>4, <3>1
    <3> QED BY <1>6, <2>1, <2>2, <2>3, <3>1, <3>2 DEF StreamInv, s
  <2> QED BY <2>5, <2>6
<1>15. world.ready => (pose.ready => \A o : IsNewest(o) => o.map = pose.map)
  BY <1>2, <1>8, <1>12
<1>16. NoReturn => NoReturn'
  <2>1. ASSUME NoReturn, NEW i \in DOMAIN s, ~s[i].ready
        PROVE  child.unseen /\ ~child.ready /\ \A j \in DOMAIN s : i < j => ~s[j].ready
    <3>1. i + 1 \in DOMAIN poses /\ ~poses[i + 1].ready
      BY <1>8, <2>1
    <3>2. child.unseen /\ ~child.ready /\ \A j \in DOMAIN poses : i + 1 < j => ~poses[j].ready
      BY <2>1, <3>1 DEF NoReturn
    <3>3. \A j \in DOMAIN s : i < j => j + 1 \in DOMAIN poses /\ i + 1 < j + 1 /\ s[j] = poses[j + 1]
      BY <1>8
    <3> QED BY <3>2, <3>3
  <2> QED BY <1>6, <2>1 DEF NoReturn, s
<1>17. world.ready => \E o : IsNewest(o)
  BY <1>1 DEF StreamInv, TimesInv
<1>18. world.anchor # None => pose.ready /\ pose.map = world.anchor
  <2> SUFFICES ASSUME world.anchor # None PROVE pose.ready /\ pose.map = world.anchor
    OBVIOUS
  <2>1. pose.ready /\ world.ready /\ \A o : IsNewest(o) => o.map = world.anchor
    BY <1>1, <1>5 DEF WindowInv
  <2> QED BY <1>15, <1>17, <2>1
<1>19. WindowInv'
  <2>1. main'.pc \notin {"poll", "anchor"}
    BY <1>6
  <2>2. world'.anchor # None => world'.ready /\ \A o : IsNewest(o)' => o.map = world'.anchor
    BY <1>4, <1>7, <1>10, <1>18
  <2>3. ASSUME world.window # <<>>
        PROVE  IF pose.ready
               THEN NoReturn' /\ \A k \in DOMAIN world.window : world.window[k] = pose.map
               ELSE child.unseen /\ ~child.ready /\ \A i \in DOMAIN s : ~s[i].ready
    <3>1. CASE world.ready
      <4>1. NoReturn /\ \A k \in DOMAIN world.window : \A o : IsNewest(o) => world.window[k] = o.map
        BY <1>1, <2>3, <3>1 DEF WindowInv
      <4>2. CASE pose.ready
        BY <1>15, <1>16, <1>17, <3>1, <4>1, <4>2
      <4>3. CASE ~pose.ready
        <5>1. child.unseen /\ ~child.ready /\ \A j \in DOMAIN poses : 1 < j => ~poses[j].ready
          BY <1>2, <1>8, <4>1, <4>3 DEF NoReturn
        <5> QED BY <1>8, <4>3, <5>1
      <4> QED BY <4>2, <4>3
    <3>2. CASE ~world.ready
      <4>1. child.unseen /\ ~child.ready /\ \A i \in DOMAIN poses : ~poses[i].ready
        BY <1>1, <2>3, <3>2 DEF WindowInv
      <4> QED BY <1>2, <1>8, <4>1
    <3> QED BY <3>1, <3>2
  <2>4. world'.window # <<>> =>
           IF world'.ready
           THEN NoReturn' /\ \A k \in DOMAIN world'.window : \A o : IsNewest(o)' => world'.window[k] = o.map
           ELSE child'.unseen /\ ~child'.ready /\ \A i \in DOMAIN poses' : ~poses'[i].ready
    BY <1>4, <1>6, <1>7, <1>10, <2>3 DEF s
  <2> QED BY <2>1, <2>2, <2>4 DEF WindowInv
<1>20. world'.rows \subseteq {world'.anchor}
  BY <1>1, <1>4, <1>18
<1>21. program' = "pair"
  BY <1>6
<1> QED BY <1>11, <1>14, <1>19, <1>20, <1>21 DEF WorldInv

\* Main has taken every pose that has come.
LEMMA WorldEmpties ==
    ASSUME WorldInv, program = "pair", main.pc = "drain", poses = <<>>,
           UNCHANGED <<program, feed, orb, child>>, UNCHANGED <<poses, world>>, main'.pc = "poll"
    PROVE  WorldInv'
<1>1. world.rows \subseteq {world.anchor} /\ TimesInv /\ StreamInv /\ WindowInv
  BY DEF WorldInv, InLoop
<1>2. \A o : IsNewest(o)' <=> IsNewest(o)
  BY DEF IsNewest
<1>3. TimesInv'
  <2>1. world'.odometry # {} => \E o \in world'.odometry : IsNewest(o)'
    BY <1>1, <1>2 DEF TimesInv
  <2> QED BY <1>1, <2>1 DEF TimesInv
<1>4. StreamInv'
  BY <1>1, <1>2 DEF StreamInv
<1>5. DOMAIN poses' = {}
  OBVIOUS
<1>6. NoReturn /\ NoReturn'
  BY <1>5 DEF NoReturn
<1>7. WindowInv'
  BY <1>1, <1>2, <1>6 DEF WindowInv
<1> QED BY <1>1, <1>3, <1>4, <1>7 DEF WorldInv

LEMMA WorldStep ==
    ASSUME LiveInv, Next, CamerasMove \/ OthersMove
    PROVE  WorldInv'
<1>1. Types /\ CamerasInv /\ PipeInv /\ ShutdownInv /\ EndInv /\ WorldInv
  BY DEF LiveInv
<1>2. /\ child \in ChildType /\ reader \in ReaderType /\ writer \in WriterType /\ main \in MainType
      /\ world \in WorldType /\ orb \in Orbs /\ program \in {"pair", "hil"}
  BY <1>1, AllTypes
<1>3. program' = program
  BY AcceptedGrow
<1> DEFINE Same ==
             /\ UNCHANGED <<world, poses>> /\ orb'.accepted = orb.accepted /\ feed'.image = feed.image
             /\ child'.frame = child.frame /\ child'.map = child.map /\ child'.born = child.born
             /\ child'.unseen = child.unseen /\ child'.ready = child.ready /\ (child'.pc = "track" => child.pc = "track")
<1>4. ASSUME Same, InLoop' => InLoop,
             main'.pc \notin {"poll", "anchor"} \/ (main'.pc = main.pc /\ main'.returned = main.returned)
      PROVE  WorldInv'
  BY <1>1, <1>3, <1>4, WorldKept
<1>5. CASE Callbacks
  <2>1. CamerasMove
    BY <1>1, <1>5, CallbacksMove
  <2>2. UNCHANGED <<program, world, poses, child, main>>
    BY <2>1 DEF CamerasMove
  <2>3. (InLoop' => InLoop) /\ main'.pc = main.pc /\ main'.returned = main.returned
    BY <2>2 DEF InLoop
  <2>4. program = "pair" /\ InLoop' /\ (\A f \in orb.accepted : f <= feed.image)
              => \A f \in orb'.accepted : f <= feed'.image
    BY <2>1, <2>3 DEF CamerasMove
  <2>5. /\ child'.frame = child.frame /\ child'.map = child.map /\ child'.born = child.born
        /\ child'.unseen = child.unseen /\ child'.ready = child.ready /\ (child'.pc = "track" => child.pc = "track")
    BY <2>2
  <2>6. program' = program /\ world' = world /\ poses' = poses
    BY <2>2
  <2> QED BY <1>1, <2>3, <2>4, <2>5, <2>6, WorldKept
<1>6. CASE WriterGets \/ EndReader
  <2>1. /\ UNCHANGED <<world, poses, feed, child, main>>
        /\ \/ orb' = [orb EXCEPT !.queue = Tail(@)]
           \/ orb' = [orb EXCEPT !.failure = @ \/ ~orb.stop]
    BY <1>6 DEF WriterGets, EndReader
  <2>2. orb'.accepted = orb.accepted
    BY <1>2, <2>1 DEF Orbs
  <2> HIDE <1>6
  <2>3. (InLoop' => InLoop) /\ main'.pc = main.pc /\ main'.returned = main.returned
    BY <2>1 DEF InLoop
  <2>4. Same
    BY <2>1, <2>2
  <2> QED BY <1>4, <2>3, <2>4
<1>7. CASE WriterWrites
  <2>1. /\ UNCHANGED <<program, world, poses, feed, main>> /\ writer.pc = "write"
        /\ \/ child' = child
           \/ child' = [child EXCEPT !.input = "ending"]
           \/ /\ writer.packet # Shutdown
              /\ child' = [child EXCEPT !.pc = "track", !.frame = writer.packet.frame]
    BY <1>7 DEF WriterWrites
  <2>2. orb'.accepted = orb.accepted
    BY <1>1, <1>7, WriterWritesMoves
  <2>3. (InLoop' => InLoop) /\ main'.pc = main.pc /\ main'.returned = main.returned
    BY <2>1 DEF InLoop
  <2>4. CASE child' = child \/ child' = [child EXCEPT !.input = "ending"]
    <3>1. /\ child'.frame = child.frame /\ child'.map = child.map /\ child'.born = child.born
          /\ child'.unseen = child.unseen /\ child'.ready = child.ready /\ child'.pc = child.pc
      BY <1>2, <2>4 DEF ChildType
    <3>2. Same
      BY <2>1, <2>2, <3>1
    <3> QED BY <1>4, <2>3, <3>2
  <2>5. CASE writer.packet # Shutdown /\ child' = [child EXCEPT !.pc = "track", !.frame = writer.packet.frame]
    <3>1. IsFrame(writer.packet) /\ writer.packet.frame \in Nat /\ Holds
      BY <1>1, <1>2, <2>1, <2>5, PacketKinds DEF ShutdownInv, Holds, WriterType
    <3>2. child.frame < writer.packet.frame
      BY <1>1, <3>1 DEF PipeInv
    <3>3. /\ child'.frame = writer.packet.frame /\ child'.map = child.map /\ child'.born = child.born
          /\ child'.unseen = child.unseen /\ child'.ready = child.ready /\ child'.pc = "track"
      BY <1>2, <2>5 DEF ChildType
    <3>4. child'.frame \in Nat /\ child.frame < child'.frame
      BY <3>1, <3>2, <3>3
    <3>5. UNCHANGED <<program, world, poses, main, feed>>
      BY <2>1
    <3> QED BY <1>1, <2>2, <3>3, <3>4, <3>5, WorldReads
  <2> QED BY <2>1, <2>4, <2>5
<1>8. CASE ChildTracks
  <2>1. /\ UNCHANGED <<program, sensors, combiner, feed, orb, writer, main, world, stopped, faults>>
        /\ child.pc = "track" /\ child'.frame = child.frame
    BY <1>1, <1>8, ChildTracksFacts
  <2>2. (InLoop' <=> InLoop) /\ main'.pc = main.pc /\ main'.returned = main.returned
    BY <2>1 DEF InLoop
  <2>3. CASE reader.pc = "done"
    <3>1. child' = [child EXCEPT !.pc = "exited", !.code = 1] /\ UNCHANGED poses
      BY <1>8, <2>3 DEF ChildTracks
    <3>2. /\ child'.map = child.map /\ child'.born = child.born
          /\ child'.unseen = child.unseen /\ child'.ready = child.ready /\ child'.pc = "exited"
      BY <1>2, <3>1 DEF ChildType
    <3>3. Same
      BY <2>1, <3>1, <3>2
    <3> QED BY <1>4, <2>2, <3>3
  <2>4. CASE ~(program = "pair" /\ InLoop)
    BY <1>1, <2>1, <2>2, <2>4, WorldLeft
  <2>5. CASE reader.pc # "done" /\ program = "pair" /\ InLoop
    <3>1. PICK reset \in BOOLEAN :
             LET begins == reset \/ child.born = None
                 map    == IF reset THEN child.map + 1 ELSE child.map
                 pose   == [frame |-> child.frame, ready |-> child.ready /\ ~begins, map |-> map]
             IN  /\ child' = [child EXCEPT !.pc = "idle", !.map = map, !.ready = pose.ready,
                                           !.born = IF begins THEN child.frame ELSE @, !.unseen = @ \/ reset]
                 /\ poses' = Append(poses, pose)
      BY <1>8, <2>5 DEF ChildTracks
    <3> DEFINE begins == reset \/ child.born = None
               map == IF reset THEN child.map + 1 ELSE child.map
               pose == [frame |-> child.frame, ready |-> child.ready /\ ~begins, map |-> map]
               born == IF begins THEN child.frame ELSE child.born
               unseen == child.unseen \/ reset
    <3>2. map \in Nat \ {0} /\ begins \in BOOLEAN /\ child.frame \in Nat /\ pose \in Poses
      BY <1>2 DEF ChildType, Poses
    <3>3. /\ pose.frame = child.frame /\ pose.ready = (child.ready /\ ~begins) /\ pose.map = map
          /\ (~reset => map = child.map) /\ (~begins => born = child.born) /\ unseen = (child.unseen \/ reset)
          /\ begins = (reset \/ child.born = None)
      OBVIOUS
    <3>4. /\ child' = [child EXCEPT !.pc = "idle", !.map = map, !.ready = pose.ready, !.born = born, !.unseen = unseen]
          /\ poses' = Append(poses, pose)
      BY <3>1, Zenon
    <3> HIDE DEF begins, map, pose, born, unseen
    <3>5. /\ child'.pc = "idle" /\ child'.map = map /\ child'.ready = pose.ready /\ child'.born = born
          /\ child'.unseen = unseen
      BY <1>2, <3>4 DEF ChildType
    <3> QED BY <1>1, <2>1, <2>5, <3>2, <3>3, <3>4, <3>5, WorldAnswers
  <2> QED BY <1>2, <2>3, <2>4, <2>5
<1>9. CASE ChildLoads \/ ChildEnds \/ ChildCrashes
  <2>1. UNCHANGED <<orb, feed, poses, main, world>>
    BY <1>9 DEF ChildLoads, ChildEnds, ChildCrashes
  <2>2. /\ child'.frame = child.frame /\ child'.map = child.map /\ child'.born = child.born
        /\ child'.unseen = child.unseen /\ child'.ready = child.ready /\ child'.pc \in {"idle", "exited"}
    BY <1>2, <1>9 DEF ChildLoads, ChildEnds, ChildCrashes, ChildType
  <2>3. (InLoop' => InLoop) /\ main'.pc = main.pc /\ main'.returned = main.returned
    BY <2>1 DEF InLoop
  <2>4. Same
    BY <2>1, <2>2
  <2> QED BY <1>4, <2>3, <2>4
<1>10. CASE Ba2Completes
  BY <1>1, <1>10, WorldBa2
<1>11. CASE Start \/ Await \/ StartSensors \/ NextPhase \/ StopRequested
  <2>1. UNCHANGED <<poses, world>> /\ feed'.image = feed.image
    <3>1. feed \in FeedType
      BY <1>1, AllTypes
    <3> QED BY <1>11, <3>1 DEF Start, Await, StartSensors, NextPhase, StopRequested, FeedType
  <2>2. orb'.accepted = orb.accepted
    BY <1>2, <1>11 DEF Start, Await, StartSensors, NextPhase, StopRequested, Orbs
  <2>3. /\ child'.frame = child.frame /\ child'.map = child.map /\ child'.born = child.born
        /\ child'.unseen = child.unseen /\ child'.ready = child.ready /\ (child'.pc = "track" => child.pc = "track")
    <3>1. child' = child \/ child' = [child EXCEPT !.pc = "loading"]
      BY <1>11 DEF Start, Await, StartSensors, NextPhase, StopRequested
    <3> QED BY <1>2, <3>1 DEF ChildType
  <2>4. /\ main.pc \in {"start", "await", "sensors", "loop"}
        /\ main'.pc \notin {"poll", "anchor"}
    BY <1>2, <1>11 DEF Start, Await, StartSensors, NextPhase, StopRequested, Raise, Goto, MainType
  <2>5. InLoop' => InLoop
    BY <2>4 DEF InLoop
  <2>6. Same
    BY <2>1, <2>2, <2>3
  <2> QED BY <1>4, <2>4, <2>5, <2>6
<1>12. CASE Leave(TRUE) \/ Leave(FALSE)
  <2>1. main'.pc = "closing" /\ world'.rows = world.rows /\ world'.anchor = world.anchor
    BY <1>1, <1>12, LeaveTypes
  <2>2. ~(InLoop')
    BY <2>1 DEF InLoop
  <2> QED BY <1>1, <1>3, <2>1, <2>2, WorldLeft
<1>13. CASE LoopTop /\ ~Leave(TRUE) /\ ~Leave(FALSE)
  <2>1. UNCHANGED <<orb, child, feed, poses, world>> /\ main.pc = "loop" /\ main' = [main EXCEPT !.pc = "drain"]
    BY <1>13 DEF LoopTop, Goto
  <2>2. main'.pc = "drain" /\ (InLoop' => InLoop)
    BY <1>2, <2>1 DEF MainType, InLoop
  <2>3. Same
    BY <2>1
  <2> QED BY <1>4, <2>2, <2>3
<1>14. CASE DrainPose /\ ~Leave(TRUE) /\ ~Leave(FALSE)
  <2>1. UNCHANGED <<orb, feed, child, program>> /\ main.pc = "drain"
    BY <1>14 DEF DrainPose
  <2>2. program = "pair"
    BY <1>1, <2>1 DEF EndInv
  <2>3. CASE poses = <<>>
    <3>1. main' = [main EXCEPT !.pc = "poll"] /\ UNCHANGED <<poses, world>>
      BY <1>14, <2>3 DEF DrainPose, Goto
    <3>2. main'.pc = "poll"
      BY <1>2, <3>1 DEF MainType
    <3> QED BY <1>1, <2>1, <2>2, <2>3, <3>1, <3>2, WorldEmpties
  <2>4. CASE poses # <<>>
    <3>1. poses' = Tail(poses) /\ world' = Ingested(Head(poses)) /\ UNCHANGED main /\ EpochIsValid(Head(poses))
      BY <1>14, <2>4 DEF DrainPose
    <3>2. UNCHANGED <<program, feed, orb, child, main>>
      BY <2>1, <3>1
    <3> QED BY <1>1, <2>1, <2>2, <2>4, <3>1, <3>2, WorldDrains
  <2> QED BY <2>3, <2>4
<1>15. CASE Poll /\ ~Leave(TRUE) /\ ~Leave(FALSE)
  <2>1. UNCHANGED <<program, orb, feed, child, poses, world>> /\ main.pc = "poll"
    BY <1>15 DEF Poll
  <2>2. \E pc \in {"loop", "anchor"} : main' = [main EXCEPT !.pc = pc, !.returned = feed.image]
    BY <1>15 DEF Poll
  <2>3. main'.pc \in {"loop", "anchor"} /\ main'.returned = feed.image
    BY <1>2, <2>2 DEF MainType
  <2>4. program = "pair"
    BY <1>1, <2>1 DEF EndInv
  <2>5. UNCHANGED <<program, feed, orb, child, poses, world>>
    BY <2>1
  <2> QED BY <1>1, <2>1, <2>3, <2>4, <2>5, WorldPolls
<1>16. CASE Search
  BY <1>1, <1>16, WorldSearches
<1>17. CASE CloseSensors \/ FinishInput \/ Settle \/ Stop \/ PutShutdown \/ JoinQueue \/ CloseInput \/ Reap \/ Report
  <2>1. world' = world
    BY <1>17 DEF CloseSensors, FinishInput, Settle, Stop, PutShutdown, JoinQueue, CloseInput, Reap, Report
  <2>2. ~(InLoop')
    BY <1>2, <1>17 DEF CloseSensors, FinishInput, Settle, Stop, PutShutdown, JoinQueue, CloseInput, Reap, Report, Goto,
           MainType, InLoop
  <2> QED BY <1>1, <1>3, <2>1, <2>2, WorldLeft
<1> QED BY <1>5, <1>6, <1>7, <1>8, <1>9, <1>10, <1>11, <1>12, <1>13, <1>14, <1>15, <1>16, <1>17
        DEF Next, Threads, Child, Main, ReaderEnds, ReaderFails

-----------------------------------------------------------------------------
(* The invariant.                                                           *)

LEMMA LiveInitially == ASSUME Init PROVE LiveInv
<1> USE LiveAssumption
<1>1. Types
  <2>1. orb \in Orbs
    BY DEF Init, Orbs, None
  <2>2. writer \in [pc : {"get", "write", "done", "dead"}, packet : Packets]
    BY DEF Init, Packets
  <2>3. poses \in Seq(Poses) /\ main.pc \in Positions
    BY DEF Init, Positions
  <2>4. main \in [pc : Positions, raised : BOOLEAN, returned : Nat, transport : BOOLEAN,
                  status : {"none", "ending", "FAIL", "PROVISIONAL_LIVE_LOCAL_PASS"}]
    BY DEF Init, Positions, None
  <2>5. program \in {"pair", "hil"}
    BY DEF Init
  <2> QED BY <2>1, <2>2, <2>3, <2>4, <2>5 DEF Init, Types, None
<1>2. CamerasInv
  <2>1. Low = 0
    BY DEF Init, Low, Holds, None
  <2>2. orb.imu = <<>> /\ orb.pending = <<>> /\ orb.queue = <<>> /\ orb.sent = <<>> /\ orb.received = {}
        /\ orb.accepted = {} /\ orb.lastSent = 0 /\ orb.lastImu = 0 /\ ~orb.raised /\ ~orb.failure
    BY DEF Init, None
  <2>3. IsFiniteSet(orb.accepted)
    BY <2>2, FS_EmptySet
  <2>4. SamplesRise(orb) /\ ImagesRise(orb) /\ QueueRises(orb, 0)
    BY <2>2 DEF SamplesRise, ImagesRise, QueueRises, OneShutdown, Rising, None
  <2>5. Kept(orb)
    BY <2>2 DEF Kept, InOrder, ToSet, None
  <2>6. OrbOk(orb, Low)
    BY <1>1, <2>1, <2>2, <2>3, <2>4, <2>5 DEF OrbOk, Types
  <2>7. sensors.gyro = 0 /\ sensors.stereo = 0 /\ combiner.gyro = {}
    BY DEF Init, None
  <2> QED BY <2>2, <2>6, <2>7 DEF CamerasInv
<1>3. PipeInv
  BY DEF Init, PipeInv, Holds, Rising, None
<1>4. ShutdownInv
  <2>1. ToSet(orb.queue) = {}
    BY DEF Init, ToSet
  <2> QED BY <2>1 DEF Init, ShutdownInv, Holds
<1>5. EndInv
  BY DEF Init, EndInv
<1>6. WorldInv
  <2>1. world.rows = {} /\ world.odometry = {} /\ poses = <<>> /\ orb.accepted = {} /\ child.ready = FALSE
        /\ world.ready = FALSE /\ world.window = <<>> /\ world.anchor = 0
    BY DEF Init, None
  <2>2. TimesInv
    BY <2>1 DEF TimesInv
  <2>3. StreamInv
    BY <2>1 DEF StreamInv
  <2>4. WindowInv
    BY <2>1 DEF WindowInv, None
  <2> QED BY <2>1, <2>2, <2>3, <2>4 DEF WorldInv
<1> QED BY <1>1, <1>2, <1>3, <1>4, <1>5, <1>6 DEF LiveInv

LEMMA LiveStays == ASSUME LiveInv, UNCHANGED vars PROVE LiveInv'
<1>1. UNCHANGED <<program, sensors, combiner, feed, orb, writer, child, reader, poses, main, world>>
  BY DEF vars
<1>2. Low' = Low /\ Holds' = Holds /\ InLoop' = InLoop
  BY <1>1 DEF Low, Holds, InLoop
<1>3. Types'
  BY <1>1 DEF LiveInv, Types
<1>4. CamerasInv'
  BY <1>1, <1>2 DEF LiveInv, CamerasInv
<1>5. PipeInv'
  BY <1>1, <1>2 DEF LiveInv, PipeInv
<1>6. ShutdownInv'
  BY <1>1, <1>2 DEF LiveInv, ShutdownInv
<1>7. EndInv'
  BY <1>1 DEF LiveInv, EndInv
<1>8. WorldInv'
  <2>1. TimesInv' = TimesInv /\ StreamInv' = StreamInv /\ WindowInv' = WindowInv
    BY <1>1 DEF TimesInv, StreamInv, WindowInv, IsNewest, NoReturn
  <2> QED BY <1>1, <1>2, <2>1 DEF LiveInv, WorldInv
<1> QED BY <1>3, <1>4, <1>5, <1>6, <1>7, <1>8 DEF LiveInv

LEMMA LiveStep == ASSUME LiveInv, [Next]_vars PROVE LiveInv'
<1>1. CASE Next
  <2>1. CamerasInv' /\ (CamerasMove \/ OthersMove)
    BY <1>1, CamerasStep
  <2>2. Types'
    BY <1>1, <2>1, TypesStep
  <2>3. PipeInv'
    BY <1>1, <2>1, PipeStep
  <2>4. ShutdownInv'
    BY <1>1, <2>2, ShutdownStep
  <2>5. EndInv'
    BY <1>1, <2>1, <2>2, EndStep
  <2>6. WorldInv'
    BY <1>1, <2>1, WorldStep
  <2> QED BY <2>1, <2>2, <2>3, <2>4, <2>5, <2>6 DEF LiveInv
<1>2. CASE UNCHANGED vars
  BY <1>2, LiveStays
<1> QED BY <1>1, <1>2

\* The invariant on which the next three rest holds throughout every run of either
\* program: of the samples and images in OrbSlam3LiveProcess (Kept, ImagesRise), of
\* what its threads and the child hold (PipeInv, ShutdownInv), of the end of the
\* program (EndInv) and of the poses on their way to the world (WorldInv).
THEOREM LiveInvariance == Spec => []LiveInv
<1>1. Init => LiveInv
  BY LiveInitially
<1>2. LiveInv /\ [Next]_vars => LiveInv'
  BY LiveStep
<1> QED BY <1>1, <1>2, PTL DEF Spec

\* The boundary of the first image that was accepted is the one that Kept is about.
LEMMA TheBoundary ==
    ASSUME OrbOk(orb, Low), ~orb.failure, orb.lastSent # None
    PROVE  InOrder(orb.sent \o orb.imu, {t \in orb.received : t >= Boundary(Min(orb.accepted))})
<1>1. PICK first \in orb.accepted, b \in Nat :
          /\ \A f \in orb.accepted : first <= f
          /\ IsBoundary(b, first, orb.received)
          /\ InOrder(orb.sent \o orb.imu, From(orb.received, b))
  BY DEF OrbOk, Kept
<1>2. orb.accepted \in SUBSET Nat /\ orb.received \in SUBSET Nat /\ first \in Nat
  BY <1>1 DEF OrbOk, Orbs
<1>3. Min(orb.accepted) = first
  <2>1. Min(orb.accepted) \in orb.accepted /\ \A x \in orb.accepted : Min(orb.accepted) <= x
    BY <1>1, <1>2, MinMember
  <2>2. Min(orb.accepted) \in Nat /\ Min(orb.accepted) <= first /\ first <= Min(orb.accepted)
    BY <1>1, <1>2, <2>1
  <2> QED BY <1>2, <2>2
<1> DEFINE before == {t \in orb.received : t <= first}
<1>4. {t \in orb.received : t >= Boundary(first)} = From(orb.received, b)
  <2>1. CASE before = {}
    <3>1. Boundary(first) = 0
      BY <2>1 DEF Boundary
    <3>2. b = 0
      BY <1>1, <2>1 DEF IsBoundary
    <3> QED BY <3>1, <3>2 DEF From
  <2>2. CASE before # {}
    <3>1. before \in SUBSET Nat /\ \A x \in before : x <= first
      BY <1>2
    <3>2. Boundary(first) = Max(before)
      BY <2>2 DEF Boundary
    <3>3. Max(before) \in before /\ \A x \in before : x <= Max(before)
      <4> HIDE DEF before
      <4> QED BY <1>2, <2>2, <3>1, MaxMember
    <3>4. \A x \in before : x <= b
      BY <1>1 DEF IsBoundary
    <3>5. b \in before \/ b = 0
      BY <1>1 DEF IsBoundary
    <3>6. Max(before) \in Nat /\ Max(before) <= b
      BY <3>1, <3>3, <3>4
    <3>7. b <= Max(before)
      BY <3>3, <3>5, <3>6
    <3>8. b = Max(before)
      BY <1>1, <3>6, <3>7
    <3> QED BY <3>2, <3>8 DEF From
  <2> QED BY <2>1, <2>2
<1> QED BY <1>1, <1>3, <1>4

\* Until something fails, OrbSlam3LiveProcess has every combined sample once and in
\* order, in the packets it accepted or waiting, from the boundary of the first image
\* on, whatever the lead, the backlog, the depth of the queue and the samples that an
\* image needs: neither backpressure nor a dropped image loses one.
THEOREM SamplesAlwaysKept == Spec => []SamplesAreKept
<1>1. LiveInv => SamplesAreKept
  BY TheBoundary DEF LiveInv, CamerasInv, SamplesAreKept
<1> QED BY <1>1, LiveInvariance, PTL

\* Every pose of the Ego that the pair publishes in the world is of the map of ORB in
\* which its anchor was taken, however many maps ORB begins and however late main
\* takes a pose or searches an image.
THEOREM EgoWorldAlwaysOneMap == Spec => []EgoWorldIsOneMap
<1>1. LiveInv => EgoWorldIsOneMap
  BY DEF LiveInv, WorldInv, EgoWorldIsOneMap
<1> QED BY <1>1, LiveInvariance, PTL

\* An acceptance that passes has the answer to every image it gave to ORB, in order;
\* the images left over are later than the last sample; the child ended by itself, and
\* the writer had not died.
THEOREM PassAlwaysAnswered == Spec => []PassIsAnswered
<1>1. LiveInv => PassIsAnswered
  <2> SUFFICES ASSUME LiveInv, main.status = "PROVISIONAL_LIVE_LOCAL_PASS"
               PROVE  /\ InOrder(reader.received, orb.accepted)
                      /\ \A frame \in ToSet(orb.pending) : frame > orb.lastImu
                      /\ child.pc = "exited" /\ child.code = 0 /\ writer.pc # "dead"
    BY DEF PassIsAnswered
  <2>1. child.pc = "exited" /\ child.code = 0 /\ ToSet(reader.received) = orb.accepted /\ Late(orb)
    BY DEF LiveInv, EndInv
  <2>2. InOrder(reader.received, orb.accepted)
    BY <2>1 DEF LiveInv, PipeInv, Rising, InOrder
  <2>3. \A frame \in ToSet(orb.pending) : frame > orb.lastImu
    BY <2>1 DEF Late, ToSet
  <2>4. ASSUME writer.pc = "dead" PROVE FALSE
    <3>1. writer.packet # Sentinel /\ writer.packet # Shutdown
      BY <2>1, <2>4 DEF LiveInv, ShutdownInv, Holds
    <3>2. writer.packet \in Packets /\ child.frame \in Nat /\ orb.accepted \subseteq Nat
      BY DEF LiveInv, Types, Orbs
    <3>3. IsFrame(writer.packet)
      BY <3>1, <3>2 DEF Packets, IsFrame
    <3>4. writer.packet.frame \in orb.accepted /\ child.frame < writer.packet.frame
      BY <2>4, <3>3 DEF LiveInv, PipeInv, Holds
    <3>5. PICK i \in DOMAIN reader.received : reader.received[i] = writer.packet.frame
      BY <2>1, <3>4 DEF ToSet
    <3>6. reader.received[i] <= child.frame
      BY <3>5 DEF LiveInv, PipeInv
    <3> QED BY <3>2, <3>4, <3>5, <3>6
  <2> QED BY <2>1, <2>2, <2>3, <2>4
<1> QED BY <1>1, LiveInvariance, PTL
=============================================================================
