--------------------------- MODULE ProductRun_proof ---------------------------
(***************************************************************************)
(* The product command, for every choice of devices, delays, windows and   *)
(* every number of misfortunes and raising calls.                          *)
(*                                                                         *)
(* First the index, for streams of any length: the binary search finds its *)
(* place, the frame chosen for a point of the grid is the nearest one, the *)
(* choices never go back as the grid goes on, and a sample is trainable    *)
(* exactly within the hard limit.  Then the owner: however a run ends,     *)
(* what it holds was given back, and a PASS hides nothing.  Then the       *)
(* command: what ends well has a sound index.                              *)
(*                                                                         *)
(* Last ClockMapping, which gives the index its times, for every spacing   *)
(* of the frames: the clamp holds, the mapping is continuous while the     *)
(* rate stays, and a new rate keeps the order exactly as long as it moves  *)
(* the past by little enough.                                              *)
(***************************************************************************)
EXTENDS ProductRun, ClockMapping, WellFoundedInduction, TLAPS

-----------------------------------------------------------------------------
(* The index.                                                               *)

Streams == {times \in Seq(Int) : Ordered(times)}

\* p timestamps come before t, and no others.
Splits(times, t, p) ==
    /\ p \in 0..Len(times)
    /\ \A i \in 1..p : times[i] < t
    /\ \A i \in p + 1..Len(times) : t <= times[i]

(* A set of natural numbers has a least element.                            *)
LEMMA LeastElement ==
    ASSUME NEW S \in SUBSET Nat, S # {}
    PROVE  \E m \in S : \A k \in S : m <= k
<1>1. \E m \in S : \A k \in S : <<k, m>> \notin OpToRel(<, Nat)
  BY NatLessThanWellFounded, WFMin
<1>2. ASSUME NEW m \in S, NEW k \in S, <<k, m>> \notin OpToRel(<, Nat)
      PROVE  m <= k
  BY <1>2 DEF OpToRel
<1> QED BY <1>1, <1>2

(* In ordered timestamps there is a place before which all are smaller and  *)
(* after which none is.                                                     *)
LEMMA SplitExists ==
    ASSUME NEW times \in Streams, NEW t \in Int
    PROVE  \E p \in 0..Len(times) : Splits(times, t, p)
<1> DEFINE S == {p \in 0..Len(times) : p = Len(times) \/ t <= times[p + 1]}
<1>1. Len(times) \in S /\ S \in SUBSET Nat
  BY DEF Streams
<1>2. PICK p \in S : \A k \in S : p <= k
  BY <1>1, LeastElement
<1>3. \A i \in 1..p : times[i] < t
  <2>1. SUFFICES ASSUME NEW i \in 1..p PROVE times[i] < t
    OBVIOUS
  <2>2. i - 1 \in 0..Len(times) /\ i \in 1..Len(times) /\ i - 1 # Len(times) /\ (i - 1) + 1 = i
    BY DEF Streams
  <2>3. i - 1 \notin S
    <3>1. i - 1 \in S => p <= i - 1
      BY <1>2
    <3> QED BY <3>1, <1>1
  <2>4. times[i] \in Int
    BY <2>2 DEF Streams
  <2> QED BY <2>2, <2>3, <2>4
<1>4. \A i \in p + 1..Len(times) : t <= times[i]
  <2>1. SUFFICES ASSUME NEW i \in p + 1..Len(times) PROVE t <= times[i]
    OBVIOUS
  <2>2. p \in 0..Len(times) /\ p # Len(times) /\ t <= times[p + 1]
    BY DEF Streams
  <2>3. p + 1 \in 1..Len(times) /\ i \in 1..Len(times) /\ p + 1 <= i
    BY <2>2 DEF Streams
  <2>4. times[p + 1] <= times[i] /\ times[p + 1] \in Int /\ times[i] \in Int
    BY <2>3 DEF Streams, Ordered
  <2> QED BY <2>2, <2>4
<1> QED BY <1>3, <1>4 DEF Splits

(* bisect_left finds that place.                                            *)
LEMMA BisectSplits ==
    ASSUME NEW times \in Streams, NEW t \in Int
    PROVE  Splits(times, t, bisect_left(times, t))
BY SplitExists DEF bisect_left, Splits

(* NearestTime is one of the timestamps, no other one is nearer, and of two  *)
(* at one distance it is the earlier (_nearest_frame).                      *)
LEMMA NearestTimeIsNearest ==
    ASSUME NEW times \in Streams, times # <<>>, NEW t \in Int, NEW j \in 1..Len(times)
    PROVE  /\ \E i \in 1..Len(times) : NearestTime(times, t) = times[i]
           /\ Distance(NearestTime(times, t), t) <= Distance(times[j], t)
           /\ Distance(NearestTime(times, t), t) = Distance(times[j], t) =>
                 NearestTime(times, t) <= times[j]
<1> DEFINE p == bisect_left(times, t)
           n == Len(times)
<1>0. Splits(times, t, p)
  BY BisectSplits
<1>1. p \in 0..n /\ n \in Nat /\ n > 0 /\ \A i \in 1..n : times[i] \in Int
  BY <1>0 DEF Splits, Streams
<1>2. /\ \A i \in 1..p : times[i] < t
      /\ \A i \in p + 1..n : t <= times[i]
  BY <1>0 DEF Splits
<1>3. \A i, k \in 1..n : i <= k => times[i] <= times[k]
  BY DEF Streams, Ordered
<1>4. p > 0 => /\ p \in 1..n /\ times[p] < t
               /\ \A i \in 1..p : times[i] <= times[p]
  BY <1>1, <1>2, <1>3
<1>5. p < n => /\ p + 1 \in 1..n /\ t <= times[p + 1]
               /\ \A i \in p + 1..n : times[p + 1] <= times[i]
  BY <1>1, <1>2, <1>3
<1>6. j \in 1..p \/ j \in p + 1..n
  BY <1>1
<1>7. CASE p < n /\ times[p + 1] = t
  <2>1. NearestTime(times, t) = t
    BY <1>7 DEF NearestTime
  <2> QED BY <2>1, <1>1, <1>5, <1>7 DEF Distance
<1>8. CASE ~(p < n /\ times[p + 1] = t) /\ p = 0
  <2>1. NearestTime(times, t) = times[1]
    BY <1>8 DEF NearestTime
  <2> QED BY <2>1, <1>1, <1>5, <1>6, <1>8 DEF Distance
<1>9. CASE ~(p < n /\ times[p + 1] = t) /\ p # 0 /\ p = n
  <2>1. NearestTime(times, t) = times[p]
    BY <1>9 DEF NearestTime
  <2> QED BY <2>1, <1>1, <1>3, <1>4, <1>6, <1>9 DEF Distance
<1>10. CASE p < n /\ times[p + 1] # t /\ p # 0
  <2>1. NearestTime(times, t) = IF t - times[p] <= times[p + 1] - t THEN times[p] ELSE times[p + 1]
    BY <1>10 DEF NearestTime
  <2>2. p \in 1..n /\ p + 1 \in 1..n /\ times[p] \in Int /\ times[p + 1] \in Int /\ times[j] \in Int
    BY <1>1, <1>10
  <2>3. CASE j \in 1..p
    BY <2>1, <2>2, <2>3, <1>1, <1>4, <1>5, <1>10 DEF Distance
  <2>4. CASE j \in p + 1..n
    BY <2>1, <2>2, <2>4, <1>1, <1>4, <1>5, <1>10 DEF Distance
  <2> QED BY <2>3, <2>4, <1>6
<1> QED BY <1>1, <1>7, <1>8, <1>9, <1>10

(* The frame selected for a point of the grid exists and is nearest to it;  *)
(* of several at one distance it is the first in the stream.                *)
THEOREM FrameIsNearest ==
    ASSUME NEW times \in Streams, times # <<>>, NEW t \in Int
    PROVE  LET f == NearestFrame(times, t)
           IN  /\ f \in 1..Len(times)
               /\ \A j \in 1..Len(times) :
                     /\ Distance(times[f], t) <= Distance(times[j], t)
                     /\ j < f => Distance(times[f], t) < Distance(times[j], t)
<1> DEFINE time == NearestTime(times, t)
           f    == NearestFrame(times, t)
<1>1. PICK i \in 1..Len(times) : time = times[i]
  BY NearestTimeIsNearest, Len(times) \in 1..Len(times) DEF Streams
<1>2. time \in Int
  BY <1>1 DEF Streams
<1>3. Splits(times, time, f - 1) /\ f \in Int
  <2>1. Splits(times, time, bisect_left(times, time))
    BY <1>2, BisectSplits
  <2>2. bisect_left(times, time) \in Int
    BY <2>1 DEF Splits
  <2>3. f = bisect_left(times, time) + 1 /\ f - 1 = bisect_left(times, time)
    BY <2>2 DEF NearestFrame
  <2> QED BY <2>1, <2>2, <2>3
<1>4. i \in f..Len(times) /\ f \in 1..Len(times)
  <2>1. i \notin 1..f - 1
    BY <1>1, <1>2, <1>3 DEF Splits
  <2> QED BY <2>1, <1>3 DEF Splits, Streams
<1>5. times[f] = time
  <2>1. time <= times[f]
    BY <1>3, <1>4 DEF Splits
  <2>2. times[f] <= times[i]
    BY <1>4 DEF Streams, Ordered
  <2>3. times[f] \in Int
    BY <1>4 DEF Streams
  <2> QED BY <1>1, <1>2, <2>1, <2>2, <2>3
<1>6. ASSUME NEW j \in 1..Len(times), j < f PROVE times[j] < time
  BY <1>3, <1>6 DEF Splits, Streams
<1>7. ASSUME NEW j \in 1..Len(times)
      PROVE  /\ Distance(time, t) <= Distance(times[j], t)
             /\ j < f => Distance(time, t) < Distance(times[j], t)
  <2>1. times[j] \in Int
    BY DEF Streams
  <2>2. /\ Distance(time, t) <= Distance(times[j], t)
        /\ Distance(time, t) = Distance(times[j], t) => time <= times[j]
    BY NearestTimeIsNearest
  <2>3. Distance(time, t) \in Int /\ Distance(times[j], t) \in Int
    BY <1>2, <2>1 DEF Distance
  <2> QED BY <2>1, <2>2, <2>3, <1>2, <1>6
<1> HIDE DEF f, time
<1> QED BY <1>4, <1>5, <1>7 DEF f, time

(* The choices of two points of the grid do not cross: a later point never  *)
(* gets an earlier frame.                                                   *)
THEOREM FramesNeverGoBack ==
    ASSUME NEW times \in Streams, times # <<>>, NEW t \in Int, NEW u \in Int, t <= u
    PROVE  NearestFrame(times, t) <= NearestFrame(times, u)
<1> DEFINE f == NearestFrame(times, t)
           g == NearestFrame(times, u)
<1>1. /\ f \in 1..Len(times) /\ g \in 1..Len(times)
      /\ g < f => Distance(times[f], t) < Distance(times[g], t)
      /\ Distance(times[g], u) <= Distance(times[f], u)
  BY FrameIsNearest
<1>2. times[f] \in Int /\ times[g] \in Int
  BY <1>1 DEF Streams
<1>3. g < f => times[g] <= times[f]
  BY <1>1 DEF Streams, Ordered
<1> HIDE DEF f, g
<1>4. ~(g < f)
  BY <1>1, <1>2, <1>3 DEF Distance
<1>5. f <= g
  BY <1>1, <1>4
<1> QED BY <1>5 DEF f, g

(* A sample is trainable exactly if its frames are no further apart than    *)
(* the hard limit (_classify).                                              *)
THEOREM TrainableIsWithinHardLimit ==
    ASSUME NEW span \in Int
    PROVE  Trainable(Classify(span)) <=> span <= HARD_SPAN_NS
BY SyncAssumption DEF Trainable, Classify

(* A set of two streams has a largest and a smallest time.                  *)
LEMMA Extremes ==
    ASSUME NEW a \in Int, NEW b \in Int
    PROVE  /\ Largest({a, b})  = IF a <= b THEN b ELSE a
           /\ Smallest({a, b}) = IF a <= b THEN a ELSE b
BY DEF Largest, Smallest

(* The points of the grid stay within the time they divide.                 *)
LEMMA GridWithin ==
    ASSUME NEW grid \in Nat \ {0}, NEW length \in Nat, NEW j \in 0..length \div grid
    PROVE  length \div grid \in Nat /\ j * grid \in Nat /\ j * grid <= length
<1> DEFINE q == length \div grid
<1>1. q \in Nat /\ q * grid <= length
  OBVIOUS
<1>2. j \in Nat /\ q - j \in Nat
  BY <1>1
<1> HIDE DEF q
<1>3. j * grid \in Nat /\ (q - j) * grid \in Nat
  BY <1>2
<1>4. q * grid = j * grid + (q - j) * grid
  BY <1>1, <1>2
<1> QED BY <1>1, <1>3, <1>4 DEF q

(* Of two streams: every row of the index pairs the frames nearest to its   *)
(* point of the grid, which lies in the time both streams cover; rows are a *)
(* grid step apart; and a row is trainable exactly if its two frames are    *)
(* within the hard limit (build_pairs).                                     *)
THEOREM PairsAreNearest ==
    ASSUME NEW a \in Streams, NEW b \in Streams, NEW k \in 1..Len(BuildIndex(<<a, b>>))
    PROVE  LET row == BuildIndex(<<a, b>>)[k]
           IN  /\ a # <<>> /\ b # <<>>
               /\ row.frames[1] = NearestFrame(a, row.grid)
               /\ row.frames[2] = NearestFrame(b, row.grid)
               /\ row.grid = OverlapStart(<<a, b>>) + (k - 1) * GRID_NS
               /\ row.grid <= OverlapEnd(<<a, b>>)
               /\ row.trainable <=> Distance(a[row.frames[1]], b[row.frames[2]]) <= HARD_SPAN_NS
<1> DEFINE streams == <<a, b>>
           start   == OverlapStart(streams)
           end     == OverlapEnd(streams)
           n       == ((end - start) \div GRID_NS) + 1
           grid    == start + (k - 1) * GRID_NS
           f       == NearestFrame(a, grid)
           g       == NearestFrame(b, grid)
<1>1. a # <<>> /\ b # <<>>
  <2>1. (\E s \in DOMAIN streams : streams[s] = <<>>) => k \in 1..0
    BY DEF BuildIndex
  <2>2. DOMAIN streams = {1, 2} /\ streams[1] = a /\ streams[2] = b
    OBVIOUS
  <2> QED BY <2>1, <2>2
<1>2. start \in Int /\ end \in Int
  <2>1. /\ {streams[s][1] : s \in DOMAIN streams} = {a[1], b[1]}
        /\ {streams[s][Len(streams[s])] : s \in DOMAIN streams} = {a[Len(a)], b[Len(b)]}
    OBVIOUS
  <2>2. a[1] \in Int /\ b[1] \in Int /\ a[Len(a)] \in Int /\ b[Len(b)] \in Int
    BY <1>1 DEF Streams
  <2>3. Largest({a[1], b[1]}) \in Int /\ Smallest({a[Len(a)], b[Len(b)]}) \in Int
    BY <2>2, Extremes
  <2> QED BY <2>1, <2>3 DEF OverlapStart, OverlapEnd
<1>3. /\ start <= end
      /\ BuildIndex(streams) = [i \in 1..n |-> Sample(streams, start + (i - 1) * GRID_NS)]
  <2>1. ~\E s \in DOMAIN streams : streams[s] = <<>>
    BY <1>1
  <2>2. start > end => k \in 1..0
    BY <2>1 DEF BuildIndex
  <2>3. start <= end
    BY <2>2, <1>2
  <2> QED BY <2>1, <2>3, <1>2 DEF BuildIndex
<1> HIDE DEF start, end
<1>4. /\ n \in Nat /\ k \in 1..n
      /\ grid \in Int /\ grid <= end
  <2>1. end - start \in Nat /\ GRID_NS \in Nat \ {0}
    BY <1>2, <1>3, SyncAssumption
  <2>2. (end - start) \div GRID_NS \in Nat
    BY <2>1
  <2>3. Len(BuildIndex(streams)) = n /\ n \in Nat
    BY <2>2, <1>3
  <2>4. k \in 1..n /\ k - 1 \in 0..(end - start) \div GRID_NS
    BY <2>2, <2>3
  <2>5. (k - 1) * GRID_NS \in Nat /\ (k - 1) * GRID_NS <= end - start
    BY <2>1, <2>4, GridWithin
  <2> QED BY <2>3, <2>4, <2>5, <1>2
<1>5. BuildIndex(streams)[k] = Sample(streams, grid)
  BY <1>3, <1>4
<1> HIDE DEF n, grid, f, g
<1>6. a[f] \in Int /\ b[g] \in Int
  <2>1. f \in 1..Len(a) /\ g \in 1..Len(b)
    BY <1>1, <1>4, FrameIsNearest DEF f, g
  <2> QED BY <2>1 DEF Streams
<1>7. LET row == Sample(streams, grid)
      IN  /\ row.frames[1] = f /\ row.frames[2] = g /\ row.grid = grid
          /\ row.span = Distance(a[f], b[g]) /\ row.trainable = Trainable(Classify(row.span))
  <2> DEFINE selected == [s \in DOMAIN streams |-> NearestFrame(streams[s], grid)]
  <2>1. DOMAIN streams = {1, 2} /\ selected[1] = f /\ selected[2] = g
    BY DEF f, g
  <2>2. {streams[s][selected[s]] : s \in DOMAIN streams} = {a[f], b[g]}
    BY <2>1
  <2>3. Largest({a[f], b[g]}) - Smallest({a[f], b[g]}) = Distance(a[f], b[g])
    BY <1>6, Extremes DEF Distance
  <2> HIDE DEF selected
  <2> QED BY <2>1, <2>2, <2>3 DEF Sample, selected
<1>8. Distance(a[f], b[g]) \in Int
  BY <1>6 DEF Distance
<1> QED BY <1>1, <1>4, <1>5, <1>7, <1>8, TrainableIsWithinHardLimit DEF f, g, grid, start, end

\* r has some of the first k elements of s, all from the given places, in order.
PickedFrom(r, s, places, k) ==
    /\ Len(r) <= k
    /\ \A i, j \in 1..Len(r) : i <= j =>
          \E p, q \in 1..k : p \in places /\ q \in places /\ p <= q /\ r[i] = s[p] /\ r[j] = s[q]

(* One more element is picked, or not.                                      *)
LEMMA PickOneMore ==
    ASSUME NEW T, NEW s \in Seq(T), NEW places, NEW m \in 1..Len(s), NEW r \in Seq(T),
           PickedFrom(r, s, places, m - 1)
    PROVE  LET more == IF m \in places THEN Append(r, s[m]) ELSE r
           IN  more \in Seq(T) /\ PickedFrom(more, s, places, m)
<1>1. s[m] \in T /\ m \in Nat /\ Len(r) \in Nat
  OBVIOUS
<1>2. CASE m \notin places
  <2>1. \A p \in 1..(m - 1) : p \in 1..m
    OBVIOUS
  <2> QED BY <1>1, <1>2, <2>1 DEF PickedFrom
<1>3. CASE m \in places
  <2> DEFINE more == Append(r, s[m])
             n == Len(r)
  <2>1. /\ more \in Seq(T) /\ Len(more) = n + 1 /\ more[n + 1] = s[m]
        /\ \A i \in 1..n : more[i] = r[i]
    BY <1>1
  <2>2. n + 1 <= m
    BY <1>1 DEF PickedFrom
  <2>3. ASSUME NEW i \in 1..(n + 1), NEW j \in 1..(n + 1), i <= j
        PROVE  \E p, q \in 1..m : p \in places /\ q \in places /\ p <= q /\ more[i] = s[p] /\ more[j] = s[q]
    <3> HIDE DEF more
    <3>1. CASE j <= n
      <4>1. i \in 1..n /\ j \in 1..n
        BY <1>1, <2>3, <3>1
      <4>2. PICK p, q \in 1..(m - 1) : p \in places /\ q \in places /\ p <= q /\ r[i] = s[p] /\ r[j] = s[q]
        BY <2>3, <4>1 DEF PickedFrom
      <4>3. p \in 1..m /\ q \in 1..m
        BY <1>1
      <4> QED BY <2>1, <4>1, <4>2, <4>3
    <3>2. CASE i <= n /\ ~(j <= n)
      <4>1. i \in 1..n /\ j = n + 1
        BY <1>1, <2>3, <3>2
      <4>2. PICK p \in 1..(m - 1) : p \in places /\ r[i] = s[p]
        BY <4>1 DEF PickedFrom
      <4>3. p \in 1..m /\ m \in 1..m /\ p <= m
        BY <1>1
      <4> QED BY <1>3, <2>1, <4>1, <4>2, <4>3
    <3>3. CASE ~(i <= n)
      <4>1. i = n + 1 /\ j = n + 1
        BY <1>1, <2>3, <3>3
      <4>2. m \in 1..m /\ m <= m
        BY <1>1
      <4> QED BY <1>3, <2>1, <4>1, <4>2
    <3> QED BY <1>1, <3>1, <3>2, <3>3
  <2> HIDE DEF more
  <2>4. 1..Len(more) = 1..(n + 1) /\ Len(more) <= m
    BY <2>1, <2>2
  <2>5. PickedFrom(more, s, places, m)
    <3>1. SUFFICES ASSUME NEW i \in 1..Len(more), NEW j \in 1..Len(more), i <= j
                   PROVE  \E p, q \in 1..m : /\ p \in places /\ q \in places /\ p <= q
                                             /\ more[i] = s[p] /\ more[j] = s[q]
      BY <2>4 DEF PickedFrom
    <3>2. i \in 1..(n + 1) /\ j \in 1..(n + 1)
      BY <2>4
    <3> QED BY <2>3, <3>1, <3>2
  <2> QED BY <1>3, <2>1, <2>5 DEF more
<1> QED BY <1>2, <1>3

(* Chosen picks from the whole sequence.                                    *)
LEMMA ChosenIsPicked ==
    ASSUME NEW T, NEW s \in Seq(T), NEW places
    PROVE  Chosen(s, places) \in Seq(T) /\ PickedFrom(Chosen(s, places), s, places, Len(s))
<1> DEFINE n == Len(s)
           more(r, i) == IF i \in places THEN Append(r, s[i]) ELSE r
           History(f, k) == /\ f = [i \in 0..k |-> f[i]] /\ f[0] = <<>>
                            /\ \A i \in 1..k : f[i] = more(f[i - 1], i)
           Body(f) == [i \in 0..n |-> IF i = 0 THEN <<>> ELSE more(f[i - 1], i)]
           upTo == CHOOSE f : f = Body(f)
<1>1. n \in Nat
  OBVIOUS
<1>2. Chosen(s, places) = upTo[n]
  BY DEF Chosen
<1>3. ASSUME NEW r \in Seq(T), NEW i \in 1..n, PickedFrom(r, s, places, i - 1)
      PROVE  more(r, i) \in Seq(T) /\ PickedFrom(more(r, i), s, places, i)
  BY <1>3, PickOneMore
<1> HIDE DEF n, more
<1>4. \E f : History(f, n)
  <2> DEFINE without == {k \in 0..n : ~ \E f : History(f, k)}
  <2>1. SUFFICES ASSUME without # {} PROVE FALSE
    BY <1>1, <2>1
  <2>2. PICK m \in without : \A k \in without : m <= k
    <3>1. without \in SUBSET Nat
      OBVIOUS
    <3> QED BY <2>1, <3>1, LeastElement
  <2>3. CASE m = 0
    <3>1. History([i \in 0..0 |-> <<>>], 0)
      OBVIOUS
    <3> QED BY <2>2, <2>3, <3>1
  <2>4. CASE m # 0
    <3>1. m - 1 \in 0..n /\ m - 1 \notin without
      BY <1>1, <2>2, <2>4
    <3>2. PICK f : History(f, m - 1)
      BY <3>1
    <3> DEFINE h == [i \in 0..m |-> IF i = m THEN more(f[m - 1], m) ELSE f[i]]
    <3>3. h = [i \in 0..m |-> h[i]] /\ h[0] = <<>>
      BY <1>1, <2>2, <2>4, <3>2
    <3>4. ASSUME NEW i \in 1..m PROVE h[i] = more(h[i - 1], i)
      <4>1. CASE i = m
        BY <1>1, <2>2, <2>4, <4>1
      <4>2. CASE i # m
        <5>1. i \in 1..(m - 1) /\ i \in 0..m /\ i - 1 \in 0..m /\ i - 1 # m
          BY <1>1, <2>2, <4>2
        <5>2. f[i] = more(f[i - 1], i)
          BY <3>2, <5>1
        <5> QED BY <4>2, <5>1, <5>2
      <4> QED BY <4>1, <4>2
    <3>5. History(h, m)
      BY <3>3, <3>4
    <3> QED BY <2>2, <3>5
  <2> QED BY <2>3, <2>4
<1>5. upTo = Body(upTo)
  <2>1. PICK f : History(f, n)
    BY <1>4
  <2>2. \A i \in 0..n : f[i] = IF i = 0 THEN <<>> ELSE more(f[i - 1], i)
    <3>1. \A i \in 0..n : i # 0 => i \in 1..n
      BY <1>1
    <3> QED BY <2>1, <3>1
  <2>3. f = Body(f)
    BY <2>1, <2>2
  <2> QED BY <2>3
<1> HIDE DEF upTo
<1>6. \A i \in 0..n : upTo[i] \in Seq(T) /\ PickedFrom(upTo[i], s, places, i)
  <2> DEFINE bad == {i \in 0..n : ~(upTo[i] \in Seq(T) /\ PickedFrom(upTo[i], s, places, i))}
  <2>1. SUFFICES ASSUME bad # {} PROVE FALSE
    OBVIOUS
  <2>2. PICK m \in bad : \A k \in bad : m <= k
    <3>1. bad \in SUBSET Nat
      OBVIOUS
    <3> QED BY <2>1, <3>1, LeastElement
  <2>3. CASE m = 0
    <3>1. upTo[0] = <<>>
      BY <1>1, <1>5
    <3>2. <<>> \in Seq(T) /\ PickedFrom(<<>>, s, places, 0)
      BY DEF PickedFrom
    <3> QED BY <2>2, <2>3, <3>1, <3>2
  <2>4. CASE m # 0
    <3>1. m - 1 \in 0..n /\ m - 1 \notin bad /\ m \in 1..n /\ m \in 0..n
      BY <1>1, <2>2, <2>4
    <3>2. upTo[m] = more(upTo[m - 1], m)
      BY <1>5, <2>4, <3>1
    <3>3. upTo[m - 1] \in Seq(T) /\ PickedFrom(upTo[m - 1], s, places, m - 1)
      BY <3>1
    <3>4. upTo[m] \in Seq(T) /\ PickedFrom(upTo[m], s, places, m)
      BY <1>3, <3>1, <3>2, <3>3
    <3> QED BY <2>2, <3>4
  <2> QED BY <2>3, <2>4
<1> QED BY <1>1, <1>2, <1>6 DEF n

-----------------------------------------------------------------------------
(* The lists of calls.                                                      *)

\* The words of the calls, and all the names a device may have.
CallWords == {"ego", "writer", "async", "pipeline", "calibration", "recorder", "reader", "sensor", "stream", "prepare"}
Words     == STRING \cup CallWords

(* The words of the calls are such words.                                   *)
LEMMA Strings ==
    /\ "ego" \in Words /\ "writer" \in Words /\ "async" \in Words /\ "pipeline" \in Words
    /\ "calibration" \in Words /\ "recorder" \in Words /\ "reader" \in Words /\ "sensor" \in Words
    /\ "stream" \in Words /\ "prepare" \in Words
BY DEF Words, CallWords

(* A sequence of strings is one of words.                                   *)
LEMMA StringsAreWords ==
    ASSUME NEW s \in Seq(STRING)
    PROVE  s \in Seq(Words)
<1>1. s \in [1..Len(s) -> STRING] /\ Len(s) \in Nat
  OBVIOUS
<1>2. STRING \subseteq Words
  BY DEF Words
<1>3. s \in [1..Len(s) -> Words]
  BY <1>1, <1>2
<1> QED BY <1>1, <1>3

CallSet == [name : Words, device : Words]

\* The calls of some names for some devices.
CallsOf(names, devices) == {Call(n, d) : n \in names, d \in devices}

(* The calls of more names, for more devices.                               *)
LEMMA CallsOfMore ==
    ASSUME NEW A, NEW B, NEW D, NEW E
    PROVE  /\ CallsOf(A \cup B, D) = CallsOf(A, D) \cup CallsOf(B, D)
           /\ CallsOf(A, D \cup E) = CallsOf(A, D) \cup CallsOf(A, E)
BY DEF CallsOf

(* A word and a device make a call.                                         *)
LEMMA CallIsTyped == \A n, d \in Words : Call(n, d) \in CallSet
BY Zenon DEF Call, CallSet

(* What is in two sequences put together.                                   *)
LEMMA ConcatSet ==
    ASSUME NEW T, NEW s \in Seq(T), NEW t \in Seq(T)
    PROVE  s \o t \in Seq(T) /\ ToSet(s \o t) = ToSet(s) \cup ToSet(t)
<1>1. /\ s \o t \in Seq(T) /\ Len(s \o t) = Len(s) + Len(t)
      /\ \A i \in 1..Len(s) + Len(t) : (s \o t)[i] = IF i <= Len(s) THEN s[i] ELSE t[i - Len(s)]
  OBVIOUS
<1>2. Len(s) \in Nat /\ Len(t) \in Nat
  OBVIOUS
<1>3. /\ DOMAIN s = 1..Len(s) /\ DOMAIN t = 1..Len(t) /\ DOMAIN (s \o t) = 1..Len(s) + Len(t)
  BY <1>1
<1>4. ASSUME NEW i \in 1..Len(s) PROVE i \in 1..Len(s) + Len(t) /\ (s \o t)[i] = s[i]
  BY <1>1, <1>2
<1>5. ASSUME NEW i \in 1..Len(t)
      PROVE  Len(s) + i \in 1..Len(s) + Len(t) /\ (s \o t)[Len(s) + i] = t[i]
  <2>1. Len(s) + i \in 1..Len(s) + Len(t) /\ ~(Len(s) + i <= Len(s)) /\ (Len(s) + i) - Len(s) = i
    BY <1>2
  <2> QED BY <1>1, <2>1
<1>6. ASSUME NEW i \in 1..Len(s) + Len(t), ~(i \in 1..Len(s))
      PROVE  i - Len(s) \in 1..Len(t) /\ (s \o t)[i] = t[i - Len(s)]
  BY <1>1, <1>2, <1>6
<1>7. ToSet(s) \subseteq ToSet(s \o t) /\ ToSet(t) \subseteq ToSet(s \o t)
  BY <1>3, <1>4, <1>5 DEF ToSet
<1>8. ToSet(s \o t) \subseteq ToSet(s) \cup ToSet(t)
  BY <1>3, <1>4, <1>6 DEF ToSet
<1> QED BY <1>1, <1>7, <1>8

(* For each device, each of the names: of one or two devices.               *)
LEMMA ForEachSet ==
    ASSUME NEW us \in Seq(Words), Len(us) \in {1, 2}, NEW names \in Seq(Words)
    PROVE  /\ ForEach(us, names) \in Seq(CallSet)
           /\ ToSet(ForEach(us, names)) = CallsOf(ToSet(names), ToSet(us))
<1> DEFINE calls(u) == [k \in DOMAIN names |-> Call(names[k], u)]
           seqs == [i \in DOMAIN us |-> calls(us[i])]
           Body(f) == [i \in 1..Len(seqs) |-> IF i = 1 THEN seqs[i] ELSE f[i - 1] \o seqs[i]]
           flat == CHOOSE f : f = Body(f)
<1>1. ASSUME NEW u \in Words
      PROVE  calls(u) \in Seq(CallSet) /\ ToSet(calls(u)) = {Call(n, u) : n \in ToSet(names)}
  <2>1. calls(u) \in Seq(CallSet)
    <3>1. \A k \in DOMAIN names : Call(names[k], u) \in CallSet
      BY DEF CallSet, Call
    <3>2. DOMAIN names = 1..Len(names) /\ Len(names) \in Nat
      OBVIOUS
    <3>3. \A f : f = [k \in 1..Len(names) |-> f[k]] /\ (\A k \in 1..Len(names) : f[k] \in CallSet)
                  => f \in Seq(CallSet)
      BY <3>2
    <3> QED BY <3>1, <3>2, <3>3
  <2>2. DOMAIN calls(u) = DOMAIN names
    OBVIOUS
  <2> QED BY <2>1, <2>2 DEF ToSet
<1>2. /\ DOMAIN us = 1..Len(us) /\ Len(seqs) = Len(us)
      /\ \A i \in 1..Len(us) : us[i] \in Words /\ seqs[i] = calls(us[i])
  OBVIOUS
<1> HIDE DEF calls, seqs
<1>3. ForEach(us, names) = flat[Len(seqs)]
  <2>1. ForEach(us, names) = FlattenSeq(seqs)
    BY Zenon DEF ForEach, seqs, calls
  <2>2. Len(seqs) # 0
    BY <1>2
  <2> QED BY <2>1, <2>2, Zenon DEF FlattenSeq, flat
<1>4. CASE Len(us) = 1
  <2>1. Len(seqs) = 1 /\ 1..1 = {1} /\ us[1] \in Words /\ seqs[1] = calls(us[1]) /\ ToSet(us) = {us[1]}
    BY <1>2, <1>4 DEF ToSet
  <2>2. [i \in 1..1 |-> seqs[1]] = Body([i \in 1..1 |-> seqs[1]])
    BY <2>1
  <2>3. flat = Body(flat)
    BY <2>2
  <2> HIDE DEF flat
  <2>4. flat[1] = seqs[1]
    BY <2>1, <2>3
  <2>5. ForEach(us, names) = calls(us[1])
    BY <1>3, <2>1, <2>4
  <2>6. calls(us[1]) \in Seq(CallSet) /\ ToSet(calls(us[1])) = {Call(n, us[1]) : n \in ToSet(names)}
    BY <1>1, <2>1
  <2>7. {Call(n, u) : n \in ToSet(names), u \in {us[1]}} = {Call(n, us[1]) : n \in ToSet(names)}
    OBVIOUS
  <2> QED BY <2>1, <2>5, <2>6, <2>7 DEF CallsOf
<1>5. CASE Len(us) = 2
  <2> DEFINE both == seqs[1] \o seqs[2]
             g == [i \in 1..2 |-> IF i = 1 THEN seqs[1] ELSE both]
  <2>1. /\ Len(seqs) = 2 /\ us[1] \in Words /\ us[2] \in Words
        /\ seqs[1] = calls(us[1]) /\ seqs[2] = calls(us[2]) /\ ToSet(us) = {us[1], us[2]}
    <3>1. 1..2 = {1, 2}
      OBVIOUS
    <3> QED BY <1>2, <1>5, <3>1 DEF ToSet
  <2>2. g = Body(g)
    BY <2>1
  <2>3. flat = Body(flat)
    BY <2>2
  <2> HIDE DEF flat
  <2>4. flat[1] = seqs[1] /\ flat[2] = both
    BY <2>1, <2>3
  <2>7. /\ seqs[1] \in Seq(CallSet) /\ ToSet(seqs[1]) = {Call(n, us[1]) : n \in ToSet(names)}
        /\ seqs[2] \in Seq(CallSet) /\ ToSet(seqs[2]) = {Call(n, us[2]) : n \in ToSet(names)}
    BY <1>1, <2>1
  <2>5. both \in Seq(CallSet) /\ ToSet(both) = ToSet(seqs[1]) \cup ToSet(seqs[2])
    BY <2>7, ConcatSet
  <2> HIDE DEF both
  <2>8. {Call(n, u) : n \in ToSet(names), u \in {us[1], us[2]}}
           = {Call(n, us[1]) : n \in ToSet(names)} \cup {Call(n, us[2]) : n \in ToSet(names)}
    OBVIOUS
  <2>6. ToSet(both) = {Call(n, u) : n \in ToSet(names), u \in ToSet(us)}
    BY <2>1, <2>5, <2>7, <2>8
  <2> QED BY <1>3, <2>1, <2>4, <2>5, <2>6 DEF CallsOf
<1> QED BY <1>4, <1>5

(* The sequences of names and devices that the lists are made of.           *)
LEMMA ShortSequences ==
    ASSUME NEW T, NEW a \in T, NEW b \in T
    PROVE  /\ <<a>> \in Seq(T) /\ <<a, b>> \in Seq(T)
           /\ ToSet(<<a>>) = {a} /\ ToSet(<<a, b>>) = {a, b}
<1>1. DOMAIN <<a>> = {1} /\ DOMAIN <<a, b>> = {1, 2}
  OBVIOUS
<1>2. <<a>> \in Seq(T) /\ <<a, b>> \in Seq(T)
  OBVIOUS
<1> QED BY <1>1, <1>2 DEF ToSet

(* The devices of a choice, in either order.                                *)
LEMMA ChoiceReversed ==
    ASSUME NEW us \in UmiChoices
    PROVE  /\ us \in Seq(Words) /\ Len(us) \in {1, 2} /\ ToSet(us) \in SUBSET Words
           /\ Reverse(us) \in Seq(Words) /\ Len(Reverse(us)) = Len(us)
           /\ ToSet(Reverse(us)) = ToSet(us)
<1>1. us \in Seq(Words) /\ Len(us) \in {1, 2}
  BY OwnerAssumption, StringsAreWords
<1>2. ASSUME NEW n \in {1, 2}, Len(us) = n
      PROVE  /\ Reverse(us) \in Seq(Words) /\ Len(Reverse(us)) = Len(us)
             /\ ToSet(Reverse(us)) = ToSet(us)
  <2>1. 1..1 = {1} /\ 1..2 = {1, 2}
    OBVIOUS
  <2>2. CASE n = 1
    BY <1>1, <1>2, <2>1, <2>2 DEF Reverse, ToSet
  <2>3. CASE n = 2
    BY <1>1, <1>2, <2>1, <2>3 DEF Reverse, ToSet
  <2> QED BY <2>2, <2>3
<1>3. ToSet(us) \in SUBSET Words
  BY <1>1 DEF ToSet
<1> QED BY <1>1, <1>2, <1>3

(* ForEach for one and for two names.                                       *)
LEMMA ForEachOfTwo ==
    ASSUME NEW us \in Seq(Words), Len(us) \in {1, 2}, NEW a \in Words, NEW b \in Words
    PROVE  /\ ForEach(us, <<a>>) \in Seq(CallSet) /\ ForEach(us, <<a, b>>) \in Seq(CallSet)
           /\ ToSet(ForEach(us, <<a>>)) = CallsOf({a}, ToSet(us))
           /\ ToSet(ForEach(us, <<a, b>>)) = CallsOf({a, b}, ToSet(us))
<1> DEFINE one == <<a>>
           two == <<a, b>>
<1>2. one \in Seq(Words) /\ two \in Seq(Words) /\ ToSet(one) = {a} /\ ToSet(two) = {a, b}
  BY ShortSequences
<1> HIDE DEF one, two
<1>3. /\ ForEach(us, one) \in Seq(CallSet) /\ ToSet(ForEach(us, one)) = CallsOf({a}, ToSet(us))
      /\ ForEach(us, two) \in Seq(CallSet) /\ ToSet(ForEach(us, two)) = CallsOf({a, b}, ToSet(us))
  BY <1>2, ForEachSet
<1> QED BY <1>3 DEF one, two

\* What is opened and closed for a choice of devices.
WriterCalls(us) == CallsOf({"writer", "async"}, {"ego"} \cup ToSet(us))
DeviceCalls(us) == {Call("pipeline", "ego")} \cup CallsOf({"recorder", "reader", "sensor", "stream"}, ToSet(us))

(* The writers are opened, that of ego first.                               *)
LEMMA OpenWritersIs ==
    ASSUME NEW us \in UmiChoices
    PROVE  /\ OpenWriters[us] \in Seq(CallSet) /\ Len(OpenWriters[us]) >= 2
           /\ OpenWriters[us][1] = Call("writer", "ego")
           /\ ToSet(OpenWriters[us]) = WriterCalls(us)
<1> DEFINE w == Call("writer", "ego")
           a == Call("async", "ego")
           first == <<w, a>>
           rest  == ForEach(us, <<"writer", "async">>)
<1>1. rest \in Seq(CallSet) /\ ToSet(rest) = CallsOf({"writer", "async"}, ToSet(us))
  BY Strings, ChoiceReversed, ForEachOfTwo
<1>2. w \in CallSet /\ a \in CallSet
  BY Strings, CallIsTyped
<1>3. OpenWriters[us] = first \o rest
  BY DEF OpenWriters
<1>4. WriterCalls(us) = {w, a} \cup CallsOf({"writer", "async"}, ToSet(us))
  BY DEF WriterCalls, CallsOf
<1> HIDE DEF rest, w, a
<1>5. first \in Seq(CallSet) /\ ToSet(first) = {w, a} /\ Len(first) = 2 /\ first[1] = w
  BY <1>2, ShortSequences
<1> HIDE DEF first
<1>6. /\ first \o rest \in Seq(CallSet) /\ ToSet(first \o rest) = ToSet(first) \cup ToSet(rest)
  BY <1>1, <1>5, ConcatSet
<1>7. Len(first \o rest) >= 2 /\ (first \o rest)[1] = first[1]
  BY <1>1, <1>5
<1> QED BY <1>1, <1>3, <1>4, <1>5, <1>6, <1>7 DEF w

(* The except clause closes all writers.                                    *)
LEMMA UndoWritersIs ==
    ASSUME NEW us \in UmiChoices
    PROVE  /\ UndoWriters[us] \in Seq(CallSet) /\ Len(UndoWriters[us]) >= 1
           /\ ToSet(UndoWriters[us]) = WriterCalls(us)
<1> DEFINE w == Call("writer", "ego")
           a == Call("async", "ego")
           last == <<a, w>>
           umi  == ForEach(us, <<"async", "writer">>)
<1>1. umi \in Seq(CallSet) /\ ToSet(umi) = CallsOf({"async", "writer"}, ToSet(us))
  BY Strings, ChoiceReversed, ForEachOfTwo
<1>2. w \in CallSet /\ a \in CallSet
  BY Strings, CallIsTyped
<1>3. UndoWriters[us] = umi \o last
  BY DEF UndoWriters
<1>4. WriterCalls(us) = {a, w} \cup CallsOf({"async", "writer"}, ToSet(us))
  BY DEF WriterCalls, CallsOf
<1> HIDE DEF umi, w, a
<1>5. last \in Seq(CallSet) /\ ToSet(last) = {a, w} /\ Len(last) = 2
  BY <1>2, ShortSequences
<1> HIDE DEF last
<1>6. umi \o last \in Seq(CallSet) /\ ToSet(umi \o last) = ToSet(umi) \cup ToSet(last)
  BY <1>1, <1>5, ConcatSet
<1>7. Len(umi \o last) >= 1
  BY <1>1, <1>5
<1> QED BY <1>1, <1>3, <1>4, <1>5, <1>6, <1>7

(* The devices are started, and their calibration is read.                  *)
LEMMA StartDevicesIs ==
    ASSUME NEW us \in UmiChoices
    PROVE  /\ StartDevices[us] \in Seq(CallSet) /\ Len(StartDevices[us]) >= 1
           /\ ToSet(StartDevices[us]) \subseteq
                 DeviceCalls(us) \cup CallsOf({"calibration"}, {"ego"} \cup ToSet(us))
<1> DEFINE p == Call("pipeline", "ego")
           c == Call("calibration", "ego")
           first == <<p, c>>
           names == <<"recorder", "reader", "sensor", "stream", "calibration">>
           five  == {"recorder", "reader", "sensor", "stream", "calibration"}
           rest  == ForEach(us, names)
<1>1. us \in Seq(Words) /\ Len(us) \in {1, 2}
  BY ChoiceReversed
<1>2. names \in Seq(Words) /\ ToSet(names) = five
  <2>1. DOMAIN names = {1, 2, 3, 4, 5}
    OBVIOUS
  <2>2. names \in Seq(Words)
    BY Strings
  <2>3. {names[i] : i \in {1, 2, 3, 4, 5}} = five
    OBVIOUS
  <2> QED BY <2>1, <2>2, <2>3 DEF ToSet
<1>3. p \in CallSet /\ c \in CallSet
  BY Strings, CallIsTyped
<1>4. StartDevices[us] = first \o rest
  BY DEF StartDevices
<1>5. CallsOf(five, ToSet(us)) \subseteq CallsOf({"recorder", "reader", "sensor", "stream"}, ToSet(us))
                                \cup CallsOf({"calibration"}, {"ego"} \cup ToSet(us))
  <2>1. five = {"recorder", "reader", "sensor", "stream"} \cup {"calibration"}
    OBVIOUS
  <2> HIDE DEF five
  <2> QED BY <2>1, CallsOfMore
<1>6. c \in CallsOf({"calibration"}, {"ego"} \cup ToSet(us)) /\ p \in DeviceCalls(us)
  BY DEF CallsOf, DeviceCalls
<1> HIDE DEF names, five
<1>7. rest \in Seq(CallSet) /\ ToSet(rest) = CallsOf(five, ToSet(us))
  BY <1>1, <1>2, ForEachSet
<1> HIDE DEF p, c, rest
<1>8. first \in Seq(CallSet) /\ ToSet(first) = {p, c} /\ Len(first) = 2
  BY <1>3, ShortSequences
<1> HIDE DEF first
<1>9. first \o rest \in Seq(CallSet) /\ ToSet(first \o rest) = ToSet(first) \cup ToSet(rest)
  BY <1>7, <1>8, ConcatSet
<1>10. Len(first \o rest) >= 1
  BY <1>7, <1>8
<1> QED BY <1>4, <1>5, <1>6, <1>7, <1>8, <1>9, <1>10 DEF DeviceCalls

(* A list of calls goes on with another.                                    *)
LEMMA LongerList ==
    ASSUME NEW m \in Seq(CallSet), NEW l \in Seq(CallSet), NEW more, more = m \o l
    PROVE  more \in Seq(CallSet) /\ ToSet(more) = ToSet(m) \cup ToSet(l)
BY ConcatSet

(* Everything that can have been opened is closed in the end.               *)
LEMMA CleanUpIs ==
    ASSUME NEW us \in UmiChoices
    PROVE  /\ CleanUp[us] \in Seq(CallSet) /\ Len(CleanUp[us]) >= 1
           /\ ToSet(CleanUp[us]) = WriterCalls(us) \cup DeviceCalls(us)
<1> DEFINE w == Call("writer", "ego")
           a == Call("async", "ego")
           p == Call("pipeline", "ego")
           l1 == ForEach(Reverse(us), <<"stream", "sensor">>)
           l2 == <<p>>
           l3 == ForEach(us, <<"reader", "recorder">>)
           l4 == <<a>>
           l5 == ForEach(us, <<"async">>)
           l6 == <<w>>
           l7 == ForEach(us, <<"writer">>)
           m2 == l1 \o l2
           m3 == m2 \o l3
           m4 == m3 \o l4
           m5 == m4 \o l5
           m6 == m5 \o l6
           m7 == m6 \o l7
<1>1. CleanUp[us] = m7
  BY DEF CleanUp
<1>2. l1 \in Seq(CallSet) /\ ToSet(l1) = CallsOf({"stream", "sensor"}, ToSet(us))
  <2> DEFINE back == Reverse(us)
  <2>1. back \in Seq(Words) /\ Len(back) \in {1, 2} /\ ToSet(back) = ToSet(us)
    BY ChoiceReversed
  <2> HIDE DEF back
  <2>2. /\ ForEach(back, <<"stream", "sensor">>) \in Seq(CallSet)
        /\ ToSet(ForEach(back, <<"stream", "sensor">>)) = CallsOf({"stream", "sensor"}, ToSet(back))
    BY Strings, <2>1, ForEachOfTwo
  <2> QED BY <2>1, <2>2 DEF back
<1>3. l3 \in Seq(CallSet) /\ ToSet(l3) = CallsOf({"reader", "recorder"}, ToSet(us))
  BY Strings, ChoiceReversed, ForEachOfTwo
<1>4. l5 \in Seq(CallSet) /\ ToSet(l5) = CallsOf({"async"}, ToSet(us))
  BY Strings, ChoiceReversed, ForEachOfTwo
<1>5. l7 \in Seq(CallSet) /\ ToSet(l7) = CallsOf({"writer"}, ToSet(us))
  BY Strings, ChoiceReversed, ForEachOfTwo
<1>6. w \in CallSet /\ a \in CallSet /\ p \in CallSet
  BY Strings, CallIsTyped
<1>7. WriterCalls(us) = {w, a} \cup CallsOf({"async"}, ToSet(us)) \cup CallsOf({"writer"}, ToSet(us))
  <2>1. /\ WriterCalls(us) = CallsOf({"writer", "async"}, {"ego"}) \cup CallsOf({"writer", "async"}, ToSet(us))
        /\ {"writer", "async"} = {"writer"} \cup {"async"}
    BY CallsOfMore DEF WriterCalls
  <2>2. CallsOf({"writer", "async"}, {"ego"}) = {w, a}
    BY DEF CallsOf
  <2>3. CallsOf({"writer", "async"}, ToSet(us)) = CallsOf({"writer"}, ToSet(us)) \cup CallsOf({"async"}, ToSet(us))
    BY <2>1, CallsOfMore
  <2> QED BY <2>1, <2>2, <2>3
<1>8. DeviceCalls(us) = {p} \cup CallsOf({"stream", "sensor"}, ToSet(us)) \cup CallsOf({"reader", "recorder"}, ToSet(us))
  <2>1. {"recorder", "reader", "sensor", "stream"} = {"stream", "sensor"} \cup {"reader", "recorder"}
    OBVIOUS
  <2> QED BY <2>1, CallsOfMore DEF DeviceCalls
<1> HIDE DEF w, a, p, l1, l3, l5, l7
<1>9. /\ l2 \in Seq(CallSet) /\ l4 \in Seq(CallSet) /\ l6 \in Seq(CallSet)
      /\ ToSet(l2) = {p} /\ ToSet(l4) = {a} /\ ToSet(l6) = {w}
      /\ Len(l2) = 1
  BY <1>6, ShortSequences
<1> HIDE DEF l2, l4, l6
<1>m2. m2 = l1 \o l2
  OBVIOUS
<1>m3. m3 = m2 \o l3
  OBVIOUS
<1>m4. m4 = m3 \o l4
  OBVIOUS
<1>m5. m5 = m4 \o l5
  OBVIOUS
<1>m6. m6 = m5 \o l6
  OBVIOUS
<1>m7. m7 = m6 \o l7
  OBVIOUS
<1> HIDE DEF m2, m3, m4, m5, m6, m7
<1>10. m2 \in Seq(CallSet) /\ ToSet(m2) = ToSet(l1) \cup ToSet(l2)
  BY <1>2, <1>9, <1>m2, LongerList, Zenon
<1>11. m3 \in Seq(CallSet) /\ ToSet(m3) = ToSet(m2) \cup ToSet(l3)
  BY <1>3, <1>10, <1>m3, LongerList, Zenon
<1>12. m4 \in Seq(CallSet) /\ ToSet(m4) = ToSet(m3) \cup ToSet(l4)
  BY <1>9, <1>11, <1>m4, LongerList, Zenon
<1>13. m5 \in Seq(CallSet) /\ ToSet(m5) = ToSet(m4) \cup ToSet(l5)
  BY <1>4, <1>12, <1>m5, LongerList, Zenon
<1>14. m6 \in Seq(CallSet) /\ ToSet(m6) = ToSet(m5) \cup ToSet(l6)
  BY <1>9, <1>13, <1>m6, LongerList, Zenon
<1>15. m7 \in Seq(CallSet) /\ ToSet(m7) = ToSet(m6) \cup ToSet(l7)
  BY <1>5, <1>14, <1>m7, LongerList, Zenon
<1>16. ToSet(m7) = WriterCalls(us) \cup DeviceCalls(us)
  BY <1>2, <1>3, <1>4, <1>5, <1>7, <1>8, <1>9, <1>10, <1>11, <1>12, <1>13, <1>14, <1>15
<1>17. Len(m7) >= 1
  <2>1. p \in ToSet(m7)
    BY <1>8, <1>16
  <2>2. m7 # <<>>
    BY <2>1 DEF ToSet
  <2> QED BY <1>15, <2>2
<1> QED BY <1>1, <1>15, <1>16, <1>17

-----------------------------------------------------------------------------
(* What the variables hold.                                                 *)

FrameSet == [n : Nat, timed : BOOLEAN, fits : BOOLEAN]
RowSet   == [n : Nat, at : Nat, timed : BOOLEAN, formal : BOOLEAN]

\* The rows there may be when the formal start is known as start.
RowsOf(start) == {r \in RowSet : r.formal => start # Unset /\ r.at >= start}

Parts     == {"prepare", "writers", "devices", "undo", "warm", "guard", "formal", "postroll", "cleanup", "report",
              "end"}
Listed    == {"prepare", "writers", "devices", "undo", "cleanup"}
Looping   == {"warm", "guard", "formal", "postroll"}
BeforeStart == {"prepare", "writers", "devices", "undo", "warm"}
Outcomes  == {None, "error", "unavailable", "cancelled"}
Results   == {None, "PASS", "FAIL"}
Labels    == Looping \cup {"gap"}

HardwareTypeOK ==
    /\ umis \in UmiChoices /\ delay \in Delays /\ phase \in [Devices -> Nat]
    /\ now \in Nat /\ inFlight \in [Devices -> Seq(FrameSet)] /\ rsQueue \in [UmiSet -> Seq(FrameSet)]
    /\ imuErrors \in [UmiSet -> Nat] /\ recorderLost \in [UmiSet -> BOOLEAN]
    /\ diskFailed \in [Devices -> BOOLEAN] /\ stop \in BOOLEAN /\ misfortunes \in Nat /\ raises \in Nat
    /\ erredIn \in [UmiSet -> SUBSET Labels]

ControlTypeOK ==
    /\ pc \in Parts /\ outcome \in Outcomes /\ undone \in BOOLEAN /\ aborted \in BOOLEAN /\ waited \in BOOLEAN
    /\ held \subseteq CallSet /\ stuck \subseteq CallSet /\ initialized \subseteq UmiSet /\ manifest \subseteq Words
    /\ formalStart \in Nat \cup {Unset} /\ (pc \in BeforeStart => formalStart = Unset)
    /\ motion \in Results /\ status \in Results
    /\ step \in Nat /\ (pc \in Looping => step = 1) /\ (pc \in Listed => step \in 1..Len(Calls))

FrameTypeOK ==
    /\ seen \in [Devices -> Seq(RowsOf(formalStart))] /\ disk \in [Devices -> Seq(RowsOf(formalStart))]
    /\ error \in [Devices -> BOOLEAN]

ImuTypeOK == {stable, stableSince, errorStart, errorEnd} \subseteq [UmiSet -> Nat \cup {Unset}]

ProductTypeOK ==
    /\ stage \in {"capture", "index", "verify", "end"} /\ capture \in Results \cup {"BLOCKED"}
    /\ code \in {Unset, 0, 2, 3}

TypeOK == HardwareTypeOK /\ ControlTypeOK /\ FrameTypeOK /\ ImuTypeOK /\ ProductTypeOK

(* The devices have names.                                                  *)
LEMMA DevicesAre ==
    ASSUME umis \in UmiChoices
    PROVE  /\ UmiSet \subseteq Words /\ Devices \subseteq Words /\ "ego" \in Devices /\ "ego" \notin UmiSet
           /\ UmiSet \subseteq Devices /\ Used \subseteq UmiSet /\ Used = ToSet(umis)
<1>1. \A us \in UmiChoices : ToSet(us) \subseteq Words /\ "ego" \notin ToSet(us)
  BY OwnerAssumption, ChoiceReversed
<1>2. UmiSet \subseteq Words /\ "ego" \notin UmiSet
  BY <1>1 DEF UmiSet
<1>3. Used = ToSet(umis)
  BY DEF Used, Set
<1>4. ToSet(umis) \subseteq UmiSet
  BY DEF UmiSet
<1> QED BY <1>2, <1>3, <1>4, Strings DEF Devices

(* The constants are numbers.                                               *)
LEMMA Numbers ==
    /\ FRAME \in Nat \ {0} /\ WARM_FRAMES \in Nat /\ DURATION \in Nat /\ POSTROLL \in Nat
    /\ MaxTroubles \in Nat /\ MaxMisfortunes \in Nat
    /\ Delays \subseteq Nat /\ Phases \subseteq Nat
<1>1. FRAME \in Nat \ {0} /\ Phases \subseteq 0..FRAME - 1
  BY OwnerAssumption
<1>2. Phases \subseteq Nat
  BY <1>1
<1> QED BY <1>1, <1>2, OwnerAssumption

(* A frame is recorded as a row of the present start.                       *)
LEMMA RowTypes ==
    ASSUME HardwareTypeOK, NEW d \in Devices, NEW f \in FrameSet, NEW start \in Nat \cup {Unset}
    PROVE  Row(d, f, start) \in RowsOf(start)
<1>1. At(d, f.n) \in Nat
  <2>1. f.n \in Nat /\ phase[d] \in Nat /\ FRAME \in Nat
    BY Numbers DEF HardwareTypeOK, FrameSet
  <2>2. f.n * FRAME \in Nat
    BY <2>1
  <2> QED BY <2>1, <2>2 DEF At
<1> DEFINE at == At(d, f.n)
           r == Row(d, f, start)
<1> HIDE DEF at
<1>2. r = [n |-> f.n, at |-> IF f.timed THEN at ELSE 0, timed |-> f.timed,
           formal |-> start # Unset /\ f.timed /\ at >= start]
  BY DEF Row, at
<1>3. f.n \in Nat /\ f.timed \in BOOLEAN
  BY DEF FrameSet
<1>4. at \in Nat
  BY <1>1 DEF at
<1> HIDE DEF r
<1>5. r \in RowSet /\ (r.formal => start # Unset /\ r.at >= start)
  BY <1>2, <1>3, <1>4 DEF RowSet
<1> QED BY <1>5 DEF RowsOf, r

(* What frames add to the rows of a device: errors stay, and without one    *)
(* the file has what was counted.                                           *)
LEMMA RecordedIs ==
    ASSUME HardwareTypeOK, FrameTypeOK, NEW d \in Devices, NEW frames \in Seq(FrameSet),
           formalStart \in Nat \cup {Unset}
    PROVE  LET r == Recorded(d, frames, formalStart)
           IN  /\ r.seen \in Seq(RowsOf(formalStart)) /\ r.disk \in Seq(RowsOf(formalStart))
               /\ r.error \in BOOLEAN /\ (error[d] => r.error)
               /\ ((~error[d] => disk[d] = seen[d]) /\ ~r.error => r.disk = r.seen)
<1> DEFINE fitting == Chosen(frames, {i \in DOMAIN frames : frames[i].fits})
           rows == [i \in DOMAIN fitting |-> Row(d, fitting[i], formalStart)]
           T == RowsOf(formalStart)
           r == Recorded(d, frames, formalStart)
<1>1. fitting \in Seq(FrameSet)
  BY ChosenIsPicked
<1>2. /\ r.seen = seen[d] \o rows
      /\ r.disk = IF diskFailed[d] THEN disk[d] ELSE disk[d] \o rows
      /\ r.error = (error[d] \/ Len(fitting) < Len(frames) \/ (diskFailed[d] /\ rows # <<>>))
  BY DEF Recorded
<1> HIDE DEF fitting, r
<1>3. rows \in Seq(T)
  <2>1. DOMAIN fitting = 1..Len(fitting) /\ Len(fitting) \in Nat /\ \A i \in 1..Len(fitting) : fitting[i] \in FrameSet
    BY <1>1
  <2>2. \A i \in 1..Len(fitting) : Row(d, fitting[i], formalStart) \in T
    BY <2>1, RowTypes
  <2> HIDE DEF T
  <2> QED BY <2>1, <2>2
<1> HIDE DEF rows
<1>4. seen[d] \in Seq(T) /\ disk[d] \in Seq(T) /\ error[d] \in BOOLEAN /\ diskFailed[d] \in BOOLEAN
  BY DEF HardwareTypeOK, FrameTypeOK
<1> HIDE DEF T
<1>5. seen[d] \o rows \in Seq(T) /\ disk[d] \o rows \in Seq(T)
  BY <1>3, <1>4
<1>6. r.seen \in Seq(T) /\ r.disk \in Seq(T) /\ r.error \in BOOLEAN /\ (error[d] => r.error)
  BY <1>2, <1>4, <1>5
<1>7. ASSUME ~error[d] => disk[d] = seen[d], ~r.error PROVE r.disk = r.seen
  <2>1. ~error[d] /\ ~(diskFailed[d] /\ rows # <<>>)
    BY <1>2, <1>7
  <2>2. CASE diskFailed[d]
    <3>1. rows = <<>> /\ seen[d] \o rows = seen[d]
      BY <1>4, <2>1, <2>2
    <3> QED BY <1>2, <1>7, <2>1, <2>2, <3>1
  <2>3. CASE ~diskFailed[d]
    BY <1>2, <1>7, <2>1, <2>3
  <2> QED BY <2>2, <2>3
<1> QED BY <1>6, <1>7 DEF r, T

\* A device without an error has on disk what it has counted.
DiskInv == \A d \in Devices : ~error[d] => disk[d] = seen[d]

(* So of all that waits in the queues of the SDK.                           *)
LEMMA DrainIs ==
    ASSUME HardwareTypeOK, FrameTypeOK, DiskInv, formalStart \in Nat \cup {Unset}, Drain(formalStart)
    PROVE  /\ seen' \in [Devices -> Seq(RowsOf(formalStart))] /\ disk' \in [Devices -> Seq(RowsOf(formalStart))]
           /\ error' \in [Devices -> BOOLEAN] /\ rsQueue' \in [UmiSet -> Seq(FrameSet)]
           /\ \A d \in Devices : error[d] => error'[d]
           /\ DiskInv'
<1> DEFINE drained == Drained(formalStart)
           T == RowsOf(formalStart)
<1>1. ASSUME NEW u \in UmiSet
      PROVE  /\ drained[u].seen \in Seq(T) /\ drained[u].disk \in Seq(T)
             /\ drained[u].error \in BOOLEAN /\ (error[u] => drained[u].error)
             /\ (~drained[u].error => drained[u].disk = drained[u].seen)
  <2>1. drained[u] = Recorded(u, rsQueue[u], formalStart)
    BY DEF Drained
  <2>2. rsQueue[u] \in Seq(FrameSet) /\ u \in Devices
    BY DevicesAre DEF HardwareTypeOK
  <2>3. ~error[u] => disk[u] = seen[u]
    BY <2>2 DEF DiskInv
  <2> HIDE DEF drained
  <2> QED BY <2>1, <2>2, <2>3, RecordedIs
<1>2. /\ rsQueue' = [u \in UmiSet |-> <<>>]
      /\ seen' = [d \in Devices |-> IF d \in UmiSet THEN drained[d].seen ELSE seen[d]]
      /\ disk' = [d \in Devices |-> IF d \in UmiSet THEN drained[d].disk ELSE disk[d]]
      /\ error' = [d \in Devices |-> IF d \in UmiSet THEN drained[d].error ELSE error[d]]
  BY DEF Drain
<1> HIDE DEF drained
<1>3. ASSUME NEW d \in Devices
      PROVE  /\ seen'[d] \in Seq(T) /\ disk'[d] \in Seq(T) /\ error'[d] \in BOOLEAN
             /\ (error[d] => error'[d]) /\ (~error'[d] => disk'[d] = seen'[d])
  <2>1. /\ seen'[d] = IF d \in UmiSet THEN drained[d].seen ELSE seen[d]
        /\ disk'[d] = IF d \in UmiSet THEN drained[d].disk ELSE disk[d]
        /\ error'[d] = IF d \in UmiSet THEN drained[d].error ELSE error[d]
    BY <1>2
  <2>2. seen[d] \in Seq(T) /\ disk[d] \in Seq(T) /\ error[d] \in BOOLEAN /\ (~error[d] => disk[d] = seen[d])
    BY DEF FrameTypeOK, DiskInv
  <2> QED BY <1>1, <2>1, <2>2
<1>4. /\ seen' \in [Devices -> Seq(T)] /\ disk' \in [Devices -> Seq(T)] /\ error' \in [Devices -> BOOLEAN]
  <2>1. /\ seen' = [d \in Devices |-> seen'[d]] /\ disk' = [d \in Devices |-> disk'[d]]
        /\ error' = [d \in Devices |-> error'[d]]
    BY <1>2
  <2> HIDE DEF T
  <2> QED BY <1>3, <2>1
<1>5. rsQueue' \in [UmiSet -> Seq(FrameSet)]
  BY <1>2
<1>6. DiskInv'
  BY <1>3 DEF DiskInv, Devices, UmiSet
<1> QED BY <1>3, <1>4, <1>5, <1>6

-----------------------------------------------------------------------------
(* The invariant.                                                           *)

\* What is held can be given back: it is on the list of what follows, unless it
\* is the writer of a UMI whose thread does not run.
HeldInv ==
    /\ pc = "prepare" => held = {}
    /\ pc = "writers" => held \subseteq WriterCalls(umis)
    /\ pc \in {"devices"} \cup Looping => held \subseteq WriterCalls(umis) \cup DeviceCalls(umis)
    /\ pc = "cleanup" => held \subseteq {Calls[i] : i \in step..Len(Calls)}
    /\ pc = "undo" => held \ Overlooked \subseteq {Calls[i] : i \in step..Len(Calls)}
    /\ pc \in {"writers", "undo"} => \A u \in UmiSet : Call("async", u) \in held => u \in initialized
    /\ pc = "undo" => held \subseteq WriterCalls(umis)
    /\ pc = "report" => held = {}
    /\ pc = "end" /\ held # {} => outcome = "error" /\ (undone => held \subseteq Overlooked)

\* A raising call ends in the exception or in a device's error.
RaiseInv ==
    /\ pc = "undo" => outcome = "error"
    /\ pc = "report" => outcome = None
    /\ stage = "capture" /\ outcome = None /\ raises # 0 => \E d \in {"ego"} \cup Used : error[d]

\* The writer of ego is sealed or has an error, once it was closed.
EgoWriter == Call("writer", "ego")
ManifestInv ==
    /\ pc = "writers" => step = 1 \/ EgoWriter \in held
    /\ pc \in {"devices"} \cup Looping => EgoWriter \in held
    /\ pc \in {"cleanup", "report"} /\ outcome = None => EgoWriter \in held \/ "ego" \in manifest \/ error["ego"]

\* What the counters of an IMU show of an error: in the guard it is met by the
\* next pass, in the window by the difference of the two readings.
ImuInv ==
    \A u \in Used :
        /\ pc \in BeforeStart => erredIn[u] \subseteq {"warm"}
        /\ pc = "guard" =>
              /\ stable[u] # Unset /\ stable[u] <= imuErrors[u] /\ erredIn[u] \subseteq {"warm", "guard", "gap"}
              /\ "guard" \in erredIn[u] => stable[u] < imuErrors[u] /\ ~waited /\ now < formalStart
        /\ pc = "formal" =>
              /\ errorStart[u] # Unset /\ errorStart[u] <= imuErrors[u] /\ erredIn[u] \subseteq {"warm", "gap", "formal"}
              /\ "formal" \in erredIn[u] => errorStart[u] < imuErrors[u]
        /\ pc \in {"postroll", "cleanup", "report"} /\ outcome = None /\ ~aborted =>
              /\ errorStart[u] # Unset /\ erredIn[u] \subseteq {"warm", "gap", "formal", "postroll"}
              /\ "formal" \in erredIn[u] => errorStart[u] < errorEnd[u]

\* What a PASS was given for.
PassInv ==
    /\ status # None => pc = "end"
    /\ status = "PASS" =>
          /\ outcome = None /\ (stage = "capture" => raises = 0)
          /\ \A d \in {"ego"} \cup Used : ~error[d] /\ d \in manifest
          /\ \A u \in Used : ~recorderLost[u] /\ erredIn[u] \subseteq {"warm", "gap", "postroll"}
          /\ FormalSamples("ego") # <<>>

\* What the command has made of it.
IsIndexed == status = "PASS" /\ Indexable /\ index = BuildIndex(IndexStreams)
ProductInv ==
    /\ stage # "capture" => pc = "end"
    /\ stage # "end" => code = Unset
    /\ stage = "index" => status = "PASS"
    /\ stage = "verify" => IsIndexed
    /\ code = 3 => \/ outcome \in {"cancelled", "unavailable"}
                   \/ IsIndexed /\ \E i \in DOMAIN index : index[i].trainable

IInv == /\ TypeOK /\ HeldInv /\ RaiseInv /\ DiskInv /\ ManifestInv /\ ImuInv /\ PassInv /\ ProductInv

(* The lists of calls, none of which is empty.                              *)
LEMMA ListsAre ==
    ASSUME NEW us \in UmiChoices
    PROVE  /\ Prepare \in Seq(CallSet) /\ Len(Prepare) = 1
           /\ OpenWriters[us] \in Seq(CallSet) /\ Len(OpenWriters[us]) >= 1
           /\ StartDevices[us] \in Seq(CallSet) /\ Len(StartDevices[us]) >= 1
           /\ UndoWriters[us] \in Seq(CallSet) /\ Len(UndoWriters[us]) >= 1
           /\ CleanUp[us] \in Seq(CallSet) /\ Len(CleanUp[us]) >= 1
<1>1. Prepare \in Seq(CallSet) /\ Len(Prepare) = 1
  <2>1. Call("prepare", "ego") \in CallSet
    BY Strings, CallIsTyped
  <2> QED BY <2>1 DEF Prepare
<1>2. OpenWriters[us] \in Seq(CallSet) /\ Len(OpenWriters[us]) >= 1
  BY OpenWritersIs
<1> QED BY <1>1, <1>2, StartDevicesIs, UndoWritersIs, CleanUpIs

(* The call at hand.                                                        *)
LEMMA CallsAre ==
    ASSUME umis \in UmiChoices, pc \in Listed
    PROVE  Calls \in Seq(CallSet) /\ Len(Calls) \in Nat /\ Len(Calls) >= 1
<1>1. /\ pc = "prepare" => Calls = Prepare
      /\ pc = "writers" => Calls = OpenWriters[umis]
      /\ pc = "devices" => Calls = StartDevices[umis]
      /\ pc = "undo" => Calls = UndoWriters[umis]
      /\ pc = "cleanup" => Calls = CleanUp[umis]
  BY DEF Calls
<1>2. Calls \in {Prepare, OpenWriters[umis], StartDevices[umis], UndoWriters[umis], CleanUp[umis]}
  BY <1>1 DEF Listed
<1>3. \A list \in {Prepare, OpenWriters[umis], StartDevices[umis], UndoWriters[umis], CleanUp[umis]} :
         list \in Seq(CallSet) /\ Len(list) >= 1
  <2>1. /\ Prepare \in Seq(CallSet) /\ Len(Prepare) = 1
        /\ OpenWriters[umis] \in Seq(CallSet) /\ Len(OpenWriters[umis]) >= 1
        /\ StartDevices[umis] \in Seq(CallSet) /\ Len(StartDevices[umis]) >= 1
        /\ UndoWriters[umis] \in Seq(CallSet) /\ Len(UndoWriters[umis]) >= 1
        /\ CleanUp[umis] \in Seq(CallSet) /\ Len(CleanUp[umis]) >= 1
    BY ListsAre
  <2>2. Len(Prepare) >= 1
    BY <2>1
  <2> QED BY <2>1, <2>2, Zenon
<1> HIDE DEF Calls
<1>4. Calls \in Seq(CallSet) /\ Len(Calls) >= 1
  BY <1>2, <1>3, Zenon
<1> QED BY <1>4

(* The next call of the list, or the first of the next one.                 *)
LEMMA NextCallTypes ==
    ASSUME HardwareTypeOK, ControlTypeOK, pc \in Listed, umis' = umis, NextCall
    PROVE  /\ pc' \in Parts /\ step' \in Nat /\ (pc' \in Looping => step' = 1)
           /\ (pc' \in Listed => step' \in 1..Len(Calls'))
           /\ pc' \in BeforeStart => pc \in BeforeStart
           /\ pc' # pc => pc' = AfterCalls
<1>1. step \in 1..Len(Calls) /\ Len(Calls) \in Nat /\ umis \in UmiChoices
  BY CallsAre DEF HardwareTypeOK, ControlTypeOK
<1>2. CASE step < Len(Calls)
  <2>1. pc' = pc /\ step' = step + 1
    BY <1>2 DEF NextCall
  <2>2. Calls' = Calls
    BY <2>1 DEF Calls
  <2>3. step' \in 1..Len(Calls') /\ step' \in Nat
    BY <1>1, <1>2, <2>1, <2>2
  <2>4. pc \notin Looping /\ pc \in Parts
    BY DEF Listed, Looping, Parts
  <2> QED BY <2>1, <2>3, <2>4
<1>3. CASE ~(step < Len(Calls))
  <2>1. pc' = AfterCalls /\ step' = 1
    BY <1>3 DEF NextCall
  <2>2. pc' \in {"writers", "devices", "warm", "end", "report"} /\ (pc' \in BeforeStart => pc \in BeforeStart)
    BY <2>1 DEF AfterCalls, Listed, BeforeStart
  <2>3. pc' \in Listed => Len(Calls') >= 1
    <3>1. pc' = "writers" => Calls' = OpenWriters[umis]
      BY DEF Calls
    <3>2. pc' = "devices" => Calls' = StartDevices[umis]
      BY DEF Calls
    <3> QED BY <1>1, <2>2, <3>1, <3>2, ListsAre DEF Listed
  <2>4. pc' \in Listed => Len(Calls') \in Nat
    <3>1. pc' = "writers" => Calls' = OpenWriters[umis]
      BY DEF Calls
    <3>2. pc' = "devices" => Calls' = StartDevices[umis]
      BY DEF Calls
    <3> QED BY <1>1, <2>2, <3>1, <3>2, ListsAre DEF Listed
  <2>5. pc' \in Parts
    BY <2>2 DEF Parts
  <2> QED BY <2>1, <2>2, <2>3, <2>4, <2>5
<1> QED BY <1>2, <1>3

(* While the owner is at work the command waits.                            *)
LEMMA AtWork ==
    ASSUME IInv, pc # "end"
    PROVE  stage = "capture" /\ status = None /\ code = Unset
BY DEF IInv, PassInv, ProductInv

(* And nothing of the command has to be shown.                              *)
LEMMA StillAtWork ==
    ASSUME IInv, pc # "end", status' = status, UNCHANGED productVars
    PROVE  PassInv' /\ ProductInv' /\ ProductTypeOK'
<1>1. /\ stage = "capture" /\ status = None /\ code = Unset
      /\ stage' = "capture" /\ status' = None /\ code' = Unset /\ capture' = capture
  BY AtWork DEF productVars
<1>2. ProductTypeOK'
  BY <1>1 DEF IInv, TypeOK, ProductTypeOK
<1>3. PassInv'
  BY <1>1 DEF PassInv, None
<1>4. ProductInv'
  BY <1>1 DEF ProductInv, Unset
<1> QED BY <1>2, <1>3, <1>4

(* What a step leaves alone keeps its type: the hardware,                   *)
LEMMA HardwareStays ==
    ASSUME HardwareTypeOK, UNCHANGED <<inputVars, hardware>>, raises' \in Nat
    PROVE  HardwareTypeOK'
BY DEF HardwareTypeOK, inputVars, hardware

(* the frames,                                                              *)
LEMMA FramesStay ==
    ASSUME FrameTypeOK, DiskInv, UNCHANGED <<frameVars, error, formalStart>>
    PROVE  FrameTypeOK' /\ DiskInv'
BY DEF FrameTypeOK, DiskInv, frameVars

(* the readings of the counters.                                            *)
LEMMA ImuStays ==
    ASSUME ImuTypeOK, UNCHANGED imuVars
    PROVE  ImuTypeOK'
BY DEF ImuTypeOK, imuVars

(* A raising call is one more.                                              *)
LEMMA RaisesTypes ==
    ASSUME raises \in Nat, Raises
    PROVE  raises' \in Nat
BY DEF Raises

(* The devices of the run do not change.                                    *)
LEMMA UsedStays ==
    ASSUME umis' = umis
    PROVE  Used' = Used
BY DEF Used

(* The list goes on without the call at hand.                               *)
LEMMA RestIsHeld ==
    ASSUME HardwareTypeOK, ControlTypeOK, pc \in {"undo", "cleanup"}, umis' = umis, NextCall,
           NEW rest, rest \subseteq {Calls[i] : i \in step..Len(Calls)}, Calls[step] \notin rest
    PROVE  /\ pc' = pc => rest \subseteq {Calls'[i] : i \in step'..Len(Calls')}
           /\ pc' # pc => rest = {}
<1>1. /\ pc \in Listed /\ umis \in UmiChoices /\ step \in 1..Len(Calls) /\ Len(Calls) \in Nat
  <2>1. pc \in Listed
    BY DEF Listed
  <2> QED BY <2>1, CallsAre DEF HardwareTypeOK, ControlTypeOK
<1>2. ASSUME NEW call \in rest PROVE \E i \in step + 1..Len(Calls) : call = Calls[i]
  <2>1. PICK i \in step..Len(Calls) : call = Calls[i]
    OBVIOUS
  <2>2. i # step
    BY <2>1
  <2>3. i \in step + 1..Len(Calls)
    BY <1>1, <2>1, <2>2
  <2> QED BY <2>1, <2>3
<1>3. CASE step < Len(Calls)
  <2>1. pc' = pc /\ step' = step + 1
    BY <1>3 DEF NextCall
  <2>2. Calls' = Calls
    BY <2>1 DEF Calls
  <2> QED BY <1>2, <2>1, <2>2
<1>4. CASE ~(step < Len(Calls))
  <2>1. pc' = AfterCalls
    BY <1>4 DEF NextCall
  <2>2. pc' # pc
    BY <2>1 DEF AfterCalls
  <2>3. step + 1..Len(Calls) = {}
    BY <1>1, <1>4
  <2> QED BY <1>2, <2>2, <2>3
<1> QED BY <1>3, <1>4

(* A call of the set-up that is made.                                       *)
LEMMA SetUpCallKeeps ==
    ASSUME IInv, pc \in {"prepare", "writers", "devices"},
           held' = held \cup ({Calls[step]} \cap Resources),
           initialized' = initialized \cup (IF Calls[step].name = "async" THEN {Calls[step].device} \cap UmiSet ELSE {}),
           NextCall, UNCHANGED <<raises, outcome>>,
           UNCHANGED <<inputVars, hardware, stuck, undone, formalStart, aborted, waited, frameVars, error, imuVars,
                       manifest, motion, status>>,
           UNCHANGED productVars
    PROVE  IInv'
<1> DEFINE call == Calls[step]
<1>1. /\ HardwareTypeOK /\ ControlTypeOK /\ FrameTypeOK /\ ImuTypeOK /\ ProductTypeOK /\ TypeOK
      /\ HeldInv /\ RaiseInv /\ DiskInv /\ ManifestInv /\ ImuInv /\ PassInv /\ ProductInv
      /\ pc # "end" /\ pc \in Listed /\ umis \in UmiChoices /\ umis' = umis
  BY DEF IInv, TypeOK, Listed, HardwareTypeOK, inputVars
<1>2. PassInv' /\ ProductInv' /\ ProductTypeOK'
  BY <1>1, StillAtWork
<1>3. HardwareTypeOK' /\ FrameTypeOK' /\ DiskInv' /\ ImuTypeOK'
  BY <1>1, HardwareStays, FramesStay, ImuStays DEF HardwareTypeOK
<1>4. Calls \in Seq(CallSet) /\ step \in 1..Len(Calls) /\ call \in CallSet /\ call \in ToSet(Calls)
  <2>1. Calls \in Seq(CallSet) /\ step \in 1..Len(Calls)
    BY <1>1, CallsAre DEF ControlTypeOK
  <2> QED BY <2>1 DEF ToSet
<1>5. /\ pc' \in Parts /\ step' \in Nat /\ (pc' \in Looping => step' = 1)
      /\ (pc' \in Listed => step' \in 1..Len(Calls'))
      /\ pc' \in BeforeStart /\ (pc' # pc => pc' = AfterCalls)
  <2>1. /\ pc' \in Parts /\ step' \in Nat /\ (pc' \in Looping => step' = 1)
        /\ (pc' \in Listed => step' \in 1..Len(Calls'))
        /\ (pc' # pc => pc' = AfterCalls)
    BY <1>1, NextCallTypes
  <2>2. pc' \in {"prepare", "writers", "devices", "warm"}
    BY <2>1 DEF AfterCalls
  <2> QED BY <2>1, <2>2 DEF BeforeStart
<1>6. ControlTypeOK'
  <2>1. pc \in BeforeStart /\ formalStart = Unset
    BY <1>1 DEF ControlTypeOK, BeforeStart
  <2>2. held' \subseteq CallSet /\ initialized' \subseteq UmiSet
    BY <1>1, <1>4 DEF ControlTypeOK
  <2> QED BY <1>1, <1>5, <2>1, <2>2 DEF ControlTypeOK
<1>7. /\ pc = "prepare" => pc' = "writers" /\ step' = 1 /\ held' = {}
      /\ pc = "writers" => pc' \in {"writers", "devices"} /\ held' \subseteq WriterCalls(umis) /\ EgoWriter \in held'
      /\ pc = "devices" => /\ pc' \in {"devices", "warm"} /\ held' \subseteq WriterCalls(umis) \cup DeviceCalls(umis)
                           /\ EgoWriter \in held'
  <2>1. CASE pc = "prepare"
    <3>1. Calls = Prepare /\ Len(Prepare) = 1 /\ step = 1
      <4>1. Calls = Prepare
        BY <2>1 DEF Calls
      <4> QED BY <1>1, <1>4, <4>1, ListsAre
    <3>2. call = Call("prepare", "ego")
      BY <3>1 DEF Prepare
    <3>3. call.name = "prepare"
      BY <3>2 DEF Call
    <3>4. call \notin Resources
      BY <3>3 DEF Resources, Call
    <3>5. pc' = "writers" /\ step' = 1
      BY <2>1, <3>1 DEF NextCall, AfterCalls
    <3>6. held = {}
      BY <1>1, <2>1 DEF HeldInv
    <3> QED BY <2>1, <3>4, <3>5, <3>6
  <2>2. CASE pc = "writers"
    <3>1. Calls = OpenWriters[umis] /\ OpenWriters[umis][1] = EgoWriter /\ ToSet(OpenWriters[umis]) = WriterCalls(umis)
      <4>1. Calls = OpenWriters[umis]
        BY <2>2 DEF Calls
      <4> QED BY <1>1, <4>1, OpenWritersIs DEF EgoWriter
    <3>2. held' \subseteq WriterCalls(umis)
      <4>1. held \subseteq WriterCalls(umis)
        BY <1>1, <2>2 DEF HeldInv
      <4> QED BY <1>4, <3>1, <4>1
    <3>3. EgoWriter \in held'
      <4>1. CASE step = 1
        <5>1. call = EgoWriter
          BY <3>1, <4>1
        <5>2. EgoWriter \in Resources
          BY DEF Resources, EgoWriter, Devices
        <5> QED BY <5>1, <5>2
      <4>2. CASE step # 1
        BY <1>1, <2>2, <4>2 DEF ManifestInv
      <4> QED BY <4>1, <4>2
    <3>4. pc' \in {"writers", "devices"}
      BY <1>5, <2>2 DEF AfterCalls
    <3> QED BY <2>2, <3>2, <3>3, <3>4
  <2>3. CASE pc = "devices"
    <3>1. ToSet(Calls) \subseteq DeviceCalls(umis) \cup CallsOf({"calibration"}, {"ego"} \cup ToSet(umis))
      <4>1. Calls = StartDevices[umis]
        BY <2>3 DEF Calls
      <4> QED BY <1>1, <4>1, StartDevicesIs
    <3>2. ASSUME call \in Resources PROVE call \in DeviceCalls(umis)
      <4>1. call.name # "calibration"
        BY <3>2 DEF Resources, Call
      <4>2. call \notin CallsOf({"calibration"}, {"ego"} \cup ToSet(umis))
        BY <4>1 DEF CallsOf, Call
      <4> QED BY <1>4, <3>1, <4>2
    <3>3. held \subseteq WriterCalls(umis) \cup DeviceCalls(umis) /\ EgoWriter \in held
      BY <1>1, <2>3 DEF HeldInv, ManifestInv
    <3>4. pc' \in {"devices", "warm"}
      BY <1>5, <2>3 DEF AfterCalls
    <3> HIDE DEF call
    <3>5. held' \subseteq WriterCalls(umis) \cup DeviceCalls(umis) /\ EgoWriter \in held'
      BY <3>2, <3>3 DEF call
    <3> QED BY <2>3, <3>4, <3>5
  <2> QED BY <2>1, <2>2, <2>3
<1>8. pc' \in {"writers", "devices", "warm"}
  BY <1>7
<1>9. HeldInv'
  <2>1. /\ WriterCalls(umis)' = WriterCalls(umis) /\ DeviceCalls(umis)' = DeviceCalls(umis)
    BY <1>1 DEF WriterCalls, DeviceCalls
  <2>2. pc' = "writers" => held' \subseteq WriterCalls(umis)
    BY <1>7
  <2>3. pc' \in {"devices", "warm"} => held' \subseteq WriterCalls(umis) \cup DeviceCalls(umis)
    BY <1>7
  <2>4. pc' = "writers" => \A u \in UmiSet : Call("async", u) \in held' => u \in initialized'
    <3>1. SUFFICES ASSUME pc' = "writers", NEW u \in UmiSet, Call("async", u) \in held' PROVE u \in initialized'
      OBVIOUS
    <3>2. pc = "writers"
      BY <1>7, <3>1
    <3>3. CASE Call("async", u) \in held
      BY <1>1, <3>2, <3>3 DEF HeldInv
    <3>4. CASE Call("async", u) = call
      <4>1. call.name = "async" /\ call.device = u
        BY <3>4 DEF Call
      <4> QED BY <4>1
    <3> QED BY <3>1, <3>3, <3>4
  <2> QED BY <1>8, <2>1, <2>2, <2>3, <2>4 DEF HeldInv, Looping
<1>10. ManifestInv'
  BY <1>7, <1>8 DEF ManifestInv, Looping
<1>11. RaiseInv'
  <2>1. Used' = Used
    BY <1>1, UsedStays
  <2>2. raises' = raises /\ outcome' = outcome /\ error' = error /\ stage' = stage
    BY DEF productVars
  <2> QED BY <1>1, <1>8, <2>1, <2>2 DEF RaiseInv
<1>12. ImuInv'
  <2>1. Used' = Used /\ erredIn' = erredIn
    BY <1>1, UsedStays DEF hardware
  <2>2. pc \in BeforeStart
    BY DEF BeforeStart
  <2>3. pc' \notin {"guard", "formal", "postroll", "cleanup", "report"}
    BY <1>8
  <2> QED BY <1>1, <2>1, <2>2, <2>3 DEF ImuInv
<1> QED BY <1>2, <1>3, <1>6, <1>9, <1>10, <1>11, <1>12 DEF IInv, TypeOK

(* A call of the set-up that raises.                                        *)
LEMMA SetUpRaiseKeeps ==
    ASSUME IInv, pc \in {"prepare", "writers", "devices"}, Raises, outcome' \in {"error", "unavailable"},
           pc = "writers" => outcome' = "error",
           pc' = (CASE pc = "prepare" -> "end" [] pc = "writers" -> "undo" [] pc = "devices" -> "cleanup"),
           step' = 1, UNCHANGED <<held, initialized>>,
           UNCHANGED <<inputVars, hardware, stuck, undone, formalStart, aborted, waited, frameVars, error, imuVars,
                       manifest, motion, status>>,
           UNCHANGED productVars
    PROVE  IInv'
<1>1. /\ HardwareTypeOK /\ ControlTypeOK /\ FrameTypeOK /\ ImuTypeOK /\ ProductTypeOK /\ TypeOK
      /\ HeldInv /\ RaiseInv /\ DiskInv /\ ManifestInv /\ ImuInv /\ PassInv /\ ProductInv
      /\ pc # "end" /\ umis \in UmiChoices /\ umis' = umis
  BY DEF IInv, TypeOK, HardwareTypeOK, inputVars
<1>2. PassInv' /\ ProductInv' /\ ProductTypeOK'
  BY <1>1, StillAtWork
<1>3. HardwareTypeOK' /\ FrameTypeOK' /\ DiskInv' /\ ImuTypeOK'
  BY <1>1, HardwareStays, FramesStay, ImuStays, RaisesTypes DEF HardwareTypeOK
<1>4. /\ pc = "prepare" => pc' = "end"
      /\ pc = "writers" => pc' = "undo"
      /\ pc = "devices" => pc' = "cleanup"
      /\ pc' \in {"end", "undo", "cleanup"} /\ outcome' # None /\ outcome' \in Outcomes
      /\ pc' = "undo" => pc = "writers" /\ outcome' = "error"
  BY DEF None, Outcomes
<1>5. /\ pc' = "undo" => /\ Calls' = UndoWriters[umis] /\ Len(UndoWriters[umis]) \in Nat /\ Len(UndoWriters[umis]) >= 1
                         /\ WriterCalls(umis) = {UndoWriters[umis][i] : i \in 1..Len(UndoWriters[umis])}
      /\ pc' = "cleanup" => /\ Calls' = CleanUp[umis] /\ Len(CleanUp[umis]) \in Nat /\ Len(CleanUp[umis]) >= 1
                            /\ WriterCalls(umis) \cup DeviceCalls(umis) = {CleanUp[umis][i] : i \in 1..Len(CleanUp[umis])}
  <2>1. (pc' = "undo" => Calls' = UndoWriters[umis]) /\ (pc' = "cleanup" => Calls' = CleanUp[umis])
    BY <1>1 DEF Calls
  <2>2. /\ UndoWriters[umis] \in Seq(CallSet) /\ Len(UndoWriters[umis]) >= 1
        /\ ToSet(UndoWriters[umis]) = WriterCalls(umis)
    BY <1>1, UndoWritersIs
  <2>3. /\ CleanUp[umis] \in Seq(CallSet) /\ Len(CleanUp[umis]) >= 1
        /\ ToSet(CleanUp[umis]) = WriterCalls(umis) \cup DeviceCalls(umis)
    BY <1>1, CleanUpIs
  <2>4. ASSUME NEW s \in Seq(CallSet) PROVE ToSet(s) = {s[i] : i \in 1..Len(s)} /\ Len(s) \in Nat
    BY DEF ToSet
  <2> QED BY <2>1, <2>2, <2>3, <2>4
<1>6. ControlTypeOK'
  <2>1. pc \in BeforeStart /\ formalStart = Unset
    BY <1>1 DEF ControlTypeOK, BeforeStart
  <2>2. pc' \in Parts /\ pc' \notin Looping
    BY <1>4 DEF Parts, Looping
  <2>3. pc' \in Listed => step' \in 1..Len(Calls')
    BY <1>4, <1>5 DEF Listed
  <2> QED BY <1>1, <1>4, <2>1, <2>2, <2>3 DEF ControlTypeOK
<1>7. HeldInv'
  <2>1. pc' = "end" => held' = {}
    BY <1>1, <1>4 DEF HeldInv
  <2>2. pc' = "undo" => /\ held' \subseteq {Calls'[i] : i \in step'..Len(Calls')} /\ held' \subseteq WriterCalls(umis)
                        /\ \A u \in UmiSet : Call("async", u) \in held' => u \in initialized'
    BY <1>1, <1>4, <1>5 DEF HeldInv
  <2>3. pc' = "cleanup" => held' \subseteq {Calls'[i] : i \in step'..Len(Calls')}
    BY <1>1, <1>4, <1>5 DEF HeldInv
  <2>4. WriterCalls(umis)' = WriterCalls(umis)
    BY <1>1 DEF WriterCalls
  <2> QED BY <1>4, <2>1, <2>2, <2>3, <2>4 DEF HeldInv, Looping
<1>8. RaiseInv' /\ ManifestInv'
  BY <1>4 DEF RaiseInv, ManifestInv, Looping
<1>9. ImuInv'
  <2>1. Used' = Used /\ erredIn' = erredIn
    BY <1>1, UsedStays DEF hardware
  <2>2. pc \in BeforeStart
    BY DEF BeforeStart
  <2> QED BY <1>1, <1>4, <2>1, <2>2 DEF ImuInv
<1> QED BY <1>2, <1>3, <1>6, <1>7, <1>8, <1>9 DEF IInv, TypeOK

(* Setting up,                                                              *)
LEMMA SetUpKeeps ==
    ASSUME IInv, SetUp, UNCHANGED productVars
    PROVE  IInv'
<1> DEFINE call == Calls[step]
<1>1. /\ pc \in {"prepare", "writers", "devices"}
      /\ UNCHANGED <<inputVars, hardware, stuck, undone, formalStart, aborted, waited, frameVars, error, imuVars,
                     manifest, motion, status>>
  BY DEF SetUp
<1>2. CASE /\ held' = held \cup ({call} \cap Resources)
           /\ initialized' = initialized \cup (IF call.name = "async" THEN {call.device} \cap UmiSet ELSE {})
           /\ NextCall /\ UNCHANGED <<raises, outcome>>
  BY <1>1, <1>2, SetUpCallKeeps
<1>3. CASE /\ Raises
           /\ outcome' \in {"error"} \cup (IF MayBeUnavailable(call) THEN {"unavailable"} ELSE {})
           /\ pc' = (CASE pc = "prepare" -> "end" [] pc = "writers" -> "undo" [] pc = "devices" -> "cleanup")
           /\ step' = 1 /\ UNCHANGED <<held, initialized>>
  <2>1. outcome' \in {"error", "unavailable"}
    BY <1>3
  <2>2. ASSUME pc = "writers" PROVE outcome' = "error"
    <3>1. umis \in UmiChoices /\ step \in 1..Len(Calls) /\ Calls = OpenWriters[umis]
      BY <2>2 DEF IInv, TypeOK, HardwareTypeOK, ControlTypeOK, Listed, Calls
    <3>2. call \in WriterCalls(umis)
      <4>1. Calls \in Seq(CallSet) /\ ToSet(Calls) = WriterCalls(umis)
        BY <3>1, OpenWritersIs
      <4>2. call \in ToSet(Calls)
        BY <3>1, <4>1 DEF ToSet
      <4> QED BY <4>1, <4>2
    <3>3. call.name \in {"writer", "async"}
      BY <3>2 DEF WriterCalls, CallsOf, Call
    <3> QED BY <1>3, <3>3 DEF MayBeUnavailable
  <2> QED BY <1>1, <1>3, <2>1, <2>2, SetUpRaiseKeeps
<1> QED BY <1>2, <1>3 DEF SetUp

(* and the except clause of the writers.                                    *)
LEMMA UndoWriterKeeps ==
    ASSUME IInv, UndoWriter, UNCHANGED productVars
    PROVE  IInv'
<1> DEFINE call == Calls[step]
<1>1. /\ HardwareTypeOK /\ ControlTypeOK /\ FrameTypeOK /\ ImuTypeOK /\ ProductTypeOK /\ TypeOK
      /\ HeldInv /\ RaiseInv /\ DiskInv /\ ManifestInv /\ ImuInv /\ PassInv /\ ProductInv
      /\ pc = "undo" /\ pc # "end" /\ pc \in Listed /\ outcome = "error" /\ outcome # None
  BY DEF IInv, TypeOK, Listed, UndoWriter, RaiseInv, None
<1>2. UNCHANGED <<inputVars, hardware, stuck, initialized, outcome, formalStart, aborted, waited, frameVars, error, imuVars, manifest,
                  motion, status>>
  BY DEF UndoWriter
<1>3. umis' = umis /\ stage' = stage
  BY <1>2 DEF inputVars, productVars
<1>4. \/ NextCall /\ UNCHANGED <<undone, raises>> /\ (call \in held' => call \in Overlooked)
      \/ undone' = FALSE /\ pc' = "end" /\ step' = 1 /\ (Raises \/ UNCHANGED raises)
  <2>1. CASE NextCall /\ UNCHANGED <<held, undone, raises>> /\ ~Undoes(call)
    <3>1. ASSUME call \in held PROVE call \in Overlooked
      <4>1. PICK u \in UmiSet \ initialized : call.device = u
        BY <2>1, <3>1 DEF Undoes
      <4>2. PICK name \in {"writer", "async"} : \E d \in {"ego"} \cup ToSet(umis) : call = Call(name, d)
        BY <1>1, <3>1 DEF HeldInv, WriterCalls, CallsOf
      <4>3. call = Call(name, u)
        BY <4>1, <4>2 DEF Call
      <4>4. name # "async"
        BY <1>1, <3>1, <4>1, <4>2, <4>3 DEF HeldInv
      <4> QED BY <4>1, <4>2, <4>3, <4>4 DEF Overlooked
    <3> QED BY <2>1, <3>1
  <2>2. CASE NextCall /\ UNCHANGED <<undone, raises>> /\ held' = held \ {call}
    BY <2>2
  <2>3. CASE undone' = FALSE /\ pc' = "end" /\ step' = 1 /\ (Raises \/ UNCHANGED raises)
    BY <2>3
  <2> QED BY <2>1, <2>2, <2>3 DEF UndoWriter
<1>5. held' \subseteq held /\ Overlooked' = Overlooked
  <2>1. held' = held \/ held' = held \ {call}
    BY DEF UndoWriter
  <2> QED BY <1>2, <2>1 DEF Overlooked
<1>6. raises' \in Nat
  <2>1. CASE UNCHANGED raises
    BY <1>1, <2>1 DEF HardwareTypeOK
  <2>2. CASE Raises
    BY <1>1, <2>2, RaisesTypes DEF HardwareTypeOK
  <2> QED BY <1>4, <2>1, <2>2
<1>7. PassInv' /\ ProductInv' /\ ProductTypeOK'
  BY <1>1, <1>2, StillAtWork
<1>8. HardwareTypeOK' /\ FrameTypeOK' /\ DiskInv' /\ ImuTypeOK'
  BY <1>1, <1>2, <1>6, HardwareStays, FramesStay, ImuStays
<1>9. /\ pc' \in {"undo", "end"} /\ step' \in Nat /\ (pc' \in Listed => step' \in 1..Len(Calls'))
      /\ undone' \in BOOLEAN
  <2>1. CASE NextCall /\ UNCHANGED <<undone, raises>>
    <3>1. /\ step' \in Nat /\ (pc' \in Listed => step' \in 1..Len(Calls')) /\ (pc' # pc => pc' = AfterCalls)
      BY <1>1, <1>3, <2>1, NextCallTypes
    <3>2. pc' \in {"undo", "end"}
      BY <1>1, <3>1 DEF AfterCalls
    <3> QED BY <1>1, <2>1, <3>1, <3>2 DEF ControlTypeOK
  <2>2. CASE undone' = FALSE /\ pc' = "end" /\ step' = 1
    BY <2>2 DEF Listed
  <2> QED BY <1>4, <2>1, <2>2
<1>10. ControlTypeOK'
  <2>1. formalStart = Unset
    BY <1>1 DEF ControlTypeOK, BeforeStart
  <2>2. pc' \in Parts /\ pc' \notin Looping
    BY <1>9 DEF Parts, Looping
  <2>3. held' \subseteq CallSet /\ stuck' = stuck /\ initialized' = initialized
    BY <1>1, <1>2, <1>5 DEF ControlTypeOK
  <2> QED BY <1>1, <1>2, <1>9, <2>1, <2>2, <2>3 DEF ControlTypeOK
<1>11. HeldInv'
  <2>1. CASE NextCall /\ (call \in held' => call \in Overlooked)
    <3> DEFINE rest == held' \ Overlooked
    <3>1. rest \subseteq {Calls[i] : i \in step..Len(Calls)} /\ Calls[step] \notin rest
      BY <1>1, <1>5, <2>1 DEF HeldInv
    <3>2. /\ pc' = pc => rest \subseteq {Calls'[i] : i \in step'..Len(Calls')}
          /\ pc' # pc => rest = {}
      <4> HIDE DEF rest
      <4> QED BY <1>1, <1>3, <2>1, <3>1, RestIsHeld
    <3>3. /\ held' \subseteq WriterCalls(umis)' /\ initialized' = initialized
          /\ \A u \in UmiSet : Call("async", u) \in held' => u \in initialized
      BY <1>1, <1>2, <1>3, <1>5 DEF HeldInv, WriterCalls
    <3> QED BY <1>1, <1>2, <1>5, <1>9, <3>2, <3>3 DEF HeldInv, Looping
  <2>2. CASE undone' = FALSE /\ pc' = "end"
    BY <1>1, <1>2, <2>2 DEF HeldInv, Looping
  <2> QED BY <1>4, <2>1, <2>2
<1>12. RaiseInv' /\ ManifestInv'
  BY <1>1, <1>2, <1>9 DEF RaiseInv, ManifestInv, Looping
<1>13. ImuInv'
  <2>1. Used' = Used /\ erredIn' = erredIn
    BY <1>2, <1>3, UsedStays DEF hardware
  <2>2. pc \in BeforeStart
    BY <1>1 DEF BeforeStart
  <2> QED BY <1>1, <1>9, <2>1, <2>2 DEF ImuInv
<1> QED BY <1>7, <1>8, <1>10, <1>11, <1>12, <1>13 DEF IInv, TypeOK

(* What a device acquires at a time is a frame, or nothing.                 *)
LEMMA AcquiredIs ==
    ASSUME HardwareTypeOK, NEW d \in Devices, NEW time \in Nat, NEW bad
    PROVE  Acquired(d, time, bad) \in Seq(FrameSet)
<1> DEFINE n == (time - phase[d]) \div FRAME
           is(kind) == bad.kind = kind /\ bad.device = d
           frame == [n |-> n, timed |-> ~is("untimed"), fits |-> ~is("unfit")]
<1>1. CASE (d # "ego" /\ d \notin Used) \/ time < phase[d] \/ At(d, n) # time \/ is("lost")
  <2>1. Acquired(d, time, bad) = <<>>
    BY <1>1 DEF Acquired
  <2> QED BY <2>1
<1>2. CASE ~((d # "ego" /\ d \notin Used) \/ time < phase[d] \/ At(d, n) # time \/ is("lost"))
  <2>1. Acquired(d, time, bad) = <<frame>>
    BY <1>2 DEF Acquired
  <2>2. n \in Nat
    <3>1. phase[d] \in Nat /\ ~(time < phase[d])
      BY <1>2 DEF HardwareTypeOK
    <3>2. time - phase[d] \in Nat /\ FRAME \in Nat \ {0}
      BY <3>1, Numbers
    <3> QED BY <3>2
  <2> HIDE DEF n
  <2>3. frame \in FrameSet
    BY <2>2 DEF FrameSet
  <2> HIDE DEF frame
  <2> QED BY <2>1, <2>3
<1> QED BY <1>1, <1>2

(* A unit of time: the hardware,                                            *)
LEMMA TickTypes ==
    ASSUME IInv, Tick
    PROVE  /\ HardwareTypeOK'
           /\ \A u \in UmiSet : \/ imuErrors'[u] = imuErrors[u] /\ erredIn'[u] = erredIn[u]
                                \/ /\ imuErrors'[u] = imuErrors[u] + 1
                                   /\ erredIn'[u] = erredIn[u] \cup {PhaseAt(now')}
<1>1. HardwareTypeOK /\ ControlTypeOK /\ FrameTypeOK /\ pc \in Looping
  BY DEF IInv, TypeOK, Tick, Looping
<1>2. now' = now + 1 /\ now' \in Nat
  BY <1>1 DEF Tick, HardwareTypeOK
<1>3. PICK bad \in Misfortunes, prompt \in BOOLEAN :
          /\ misfortunes' = misfortunes + (IF bad.kind = None THEN 0 ELSE 1)
          /\ inFlight' = [d \in Devices |-> IF prompt THEN <<>> ELSE Acquired(d, now', bad)]
          /\ rsQueue' = [u \in UmiSet |-> rsQueue[u] \o
                            (inFlight[u] \o (IF prompt THEN Acquired(u, now', bad) ELSE <<>>))]
          /\ diskFailed' = [d \in Devices |-> diskFailed[d] \/ bad = [kind |-> "disk", device |-> d]]
          /\ imuErrors' = [u \in UmiSet |-> imuErrors[u]
                              + (IF bad = [kind |-> "imu", device |-> u] THEN 1 ELSE 0)]
          /\ erredIn' = [u \in UmiSet |-> erredIn[u]
                              \cup (IF bad = [kind |-> "imu", device |-> u] THEN {PhaseAt(now')} ELSE {})]
          /\ recorderLost' = [u \in UmiSet |-> recorderLost[u] \/ bad = [kind |-> "recorder", device |-> u]]
  BY DEF Tick
<1>4. \A d \in Devices : Acquired(d, now', bad) \in Seq(FrameSet)
  BY <1>1, <1>2, AcquiredIs
<1>5. UmiSet \subseteq Devices
  BY <1>1, DevicesAre DEF HardwareTypeOK
<1>6. misfortunes' \in Nat
  BY <1>1, <1>3 DEF HardwareTypeOK
<1>7. inFlight' \in [Devices -> Seq(FrameSet)]
  <2>1. <<>> \in Seq(FrameSet)
    OBVIOUS
  <2> QED BY <1>3, <1>4, <2>1
<1>8. rsQueue' \in [UmiSet -> Seq(FrameSet)]
  <2>1. ASSUME NEW u \in UmiSet
        PROVE  rsQueue[u] \o (inFlight[u] \o (IF prompt THEN Acquired(u, now', bad) ELSE <<>>)) \in Seq(FrameSet)
    <3>1. rsQueue[u] \in Seq(FrameSet) /\ inFlight[u] \in Seq(FrameSet) /\ Acquired(u, now', bad) \in Seq(FrameSet)
      BY <1>1, <1>4, <1>5 DEF HardwareTypeOK
    <3> QED BY <3>1
  <2> QED BY <1>3, <2>1
<1>9. diskFailed' \in [Devices -> BOOLEAN] /\ recorderLost' \in [UmiSet -> BOOLEAN]
  BY <1>1, <1>3 DEF HardwareTypeOK
<1>10. imuErrors' \in [UmiSet -> Nat]
  <2>1. imuErrors \in [UmiSet -> Nat]
    BY <1>1 DEF HardwareTypeOK
  <2> QED BY <1>3, <2>1
<1>11. PhaseAt(now') \in Labels
  BY <1>1 DEF PhaseAt, Labels
<1>12. erredIn' \in [UmiSet -> SUBSET Labels]
  <2>1. erredIn \in [UmiSet -> SUBSET Labels]
    BY <1>1 DEF HardwareTypeOK
  <2> HIDE DEF Labels
  <2> QED BY <1>3, <1>11, <2>1
<1>13. /\ umis' = umis /\ delay' = delay /\ phase' = phase /\ raises' = raises
       /\ stop' \in BOOLEAN
  BY <1>1 DEF Tick, inputVars, HardwareTypeOK
<1>14. HardwareTypeOK'
  <2>1. Devices' = Devices /\ UmiSet' = UmiSet /\ Labels' = Labels /\ FrameSet' = FrameSet
    BY DEF Devices, UmiSet, Labels, Looping, FrameSet
  <2> QED BY <1>1, <1>2, <1>6, <1>7, <1>8, <1>9, <1>10, <1>12, <1>13 DEF HardwareTypeOK
<1>15. ASSUME NEW u \in UmiSet
       PROVE  \/ imuErrors'[u] = imuErrors[u] /\ erredIn'[u] = erredIn[u]
              \/ imuErrors'[u] = imuErrors[u] + 1 /\ erredIn'[u] = erredIn[u] \cup {PhaseAt(now')}
  <2>1. imuErrors[u] \in Nat
    BY <1>1 DEF HardwareTypeOK
  <2>2. CASE bad = [kind |-> "imu", device |-> u]
    BY <1>3, <2>2
  <2>3. CASE bad # [kind |-> "imu", device |-> u]
    <3>1. imuErrors'[u] = imuErrors[u] + 0 /\ erredIn'[u] = erredIn[u] \cup {}
      BY <1>3, <2>3
    <3> QED BY <2>1, <3>1
  <2> QED BY <2>2, <2>3
<1> QED BY <1>14, <1>15

(* the frames of ego,                                                       *)
LEMMA TickFrames ==
    ASSUME IInv, Tick
    PROVE  /\ FrameTypeOK' /\ DiskInv' /\ \A d \in Devices : error[d] => error'[d]
<1>1. HardwareTypeOK /\ ControlTypeOK /\ FrameTypeOK /\ DiskInv
  BY DEF IInv, TypeOK
<1>2. now' \in Nat /\ formalStart' = formalStart /\ formalStart \in Nat \cup {Unset}
  BY <1>1 DEF Tick, HardwareTypeOK, ControlTypeOK
<1>3. PICK bad \in Misfortunes, prompt \in BOOLEAN :
          LET ego == Recorded("ego", inFlight["ego"] \o (IF prompt THEN Acquired("ego", now', bad) ELSE <<>>),
                              formalStart)
          IN  /\ seen' = [seen EXCEPT !["ego"] = ego.seen]
              /\ disk' = [disk EXCEPT !["ego"] = ego.disk]
              /\ error' = [error EXCEPT !["ego"] = ego.error]
  BY DEF Tick
<1> DEFINE frames == inFlight["ego"] \o (IF prompt THEN Acquired("ego", now', bad) ELSE <<>>)
           ego == Recorded("ego", frames, formalStart)
           T == RowsOf(formalStart)
<1>4. "ego" \in Devices
  BY <1>1, DevicesAre DEF HardwareTypeOK
<1>5. frames \in Seq(FrameSet)
  <2>1. inFlight["ego"] \in Seq(FrameSet) /\ Acquired("ego", now', bad) \in Seq(FrameSet)
    BY <1>1, <1>2, <1>4, AcquiredIs DEF HardwareTypeOK
  <2> QED BY <2>1
<1>6. /\ seen' = [seen EXCEPT !["ego"] = ego.seen]
      /\ disk' = [disk EXCEPT !["ego"] = ego.disk]
      /\ error' = [error EXCEPT !["ego"] = ego.error]
  BY <1>3
<1> HIDE DEF frames
<1>7. /\ ego.seen \in Seq(T) /\ ego.disk \in Seq(T) /\ ego.error \in BOOLEAN /\ (error["ego"] => ego.error)
      /\ ((~error["ego"] => disk["ego"] = seen["ego"]) /\ ~ego.error => ego.disk = ego.seen)
  BY <1>1, <1>2, <1>4, <1>5, RecordedIs
<1> HIDE DEF ego, T
<1>8. /\ seen \in [Devices -> Seq(T)] /\ disk \in [Devices -> Seq(T)] /\ error \in [Devices -> BOOLEAN]
  BY <1>1 DEF FrameTypeOK, T
<1>9. seen' \in [Devices -> Seq(T)] /\ disk' \in [Devices -> Seq(T)] /\ error' \in [Devices -> BOOLEAN]
  BY <1>4, <1>6, <1>7, <1>8
<1>10. FrameTypeOK'
  BY <1>2, <1>9 DEF FrameTypeOK, T, RowsOf, RowSet, Devices, UmiSet
<1>11. ASSUME NEW d \in Devices
       PROVE  (error[d] => error'[d]) /\ (~error'[d] => disk'[d] = seen'[d])
  <2>1. CASE d = "ego"
    <3>1. seen'[d] = ego.seen /\ disk'[d] = ego.disk /\ error'[d] = ego.error
      BY <1>6, <1>8, <2>1
    <3>2. ~error["ego"] => disk["ego"] = seen["ego"]
      BY <1>1, <1>4 DEF DiskInv
    <3> QED BY <1>7, <2>1, <3>1, <3>2
  <2>2. CASE d # "ego"
    <3>1. seen'[d] = seen[d] /\ disk'[d] = disk[d] /\ error'[d] = error[d]
      BY <1>6, <1>8, <2>2
    <3> QED BY <1>1, <3>1 DEF DiskInv
  <2> QED BY <2>1, <2>2
<1>12. DiskInv'
  BY <1>11 DEF DiskInv, Devices, UmiSet
<1> QED BY <1>10, <1>11, <1>12

(* and what it means for the readings of the counters.                      *)
LEMMA TickKeeps ==
    ASSUME IInv, Tick, UNCHANGED productVars
    PROVE  IInv'
<1>1. /\ HardwareTypeOK /\ ControlTypeOK /\ FrameTypeOK /\ ImuTypeOK /\ ProductTypeOK /\ TypeOK
      /\ HeldInv /\ RaiseInv /\ DiskInv /\ ManifestInv /\ ImuInv /\ PassInv /\ ProductInv
      /\ pc \in Looping /\ pc # "end" /\ pc \notin Listed /\ waited
  BY DEF IInv, TypeOK, Tick, Looping, Listed
<1>2. /\ UNCHANGED <<inputVars, raises, pc, step, deviceVars, outcome, formalStart, aborted, imuVars, motion, status>>
      /\ now' = now + 1 /\ waited' = FALSE
  BY DEF Tick
<1>3. /\ umis' = umis /\ stage' = stage /\ pc' = pc /\ step' = step /\ held' = held /\ undone' = undone
      /\ manifest' = manifest /\ stuck' = stuck /\ initialized' = initialized
      /\ stable' = stable /\ errorStart' = errorStart /\ errorEnd' = errorEnd
      /\ formalStart' = formalStart /\ outcome' = outcome /\ aborted' = aborted /\ raises' = raises
  BY <1>2 DEF inputVars, productVars, deviceVars, imuVars
<1>4. PassInv' /\ ProductInv' /\ ProductTypeOK'
  BY <1>1, <1>2, StillAtWork
<1>5. /\ HardwareTypeOK' /\ FrameTypeOK' /\ DiskInv' /\ ImuTypeOK'
      /\ \A d \in Devices : error[d] => error'[d]
  BY <1>1, <1>2, TickTypes, TickFrames, ImuStays
<1>6. ControlTypeOK'
  BY <1>1, <1>2, <1>3 DEF ControlTypeOK
<1>7. HeldInv'
  <2>1. WriterCalls(umis)' = WriterCalls(umis) /\ DeviceCalls(umis)' = DeviceCalls(umis)
    BY <1>3 DEF WriterCalls, DeviceCalls
  <2> QED BY <1>1, <1>3, <2>1 DEF HeldInv, Looping
<1>8. ManifestInv'
  BY <1>1, <1>3 DEF ManifestInv, Looping
<1>9. RaiseInv'
  <2>1. Used' = Used /\ {"ego"} \cup Used \subseteq Devices
    BY <1>1, <1>3, UsedStays, DevicesAre DEF HardwareTypeOK
  <2> QED BY <1>1, <1>3, <1>5, <2>1 DEF RaiseInv, Looping
<1>10. ImuInv'
  <2>1. Used' = Used /\ Used \subseteq UmiSet
    BY <1>1, <1>3, UsedStays, DevicesAre DEF HardwareTypeOK
  <2>2. SUFFICES ASSUME NEW u \in Used
        PROVE
        /\ pc \in BeforeStart => erredIn'[u] \subseteq {"warm"}
        /\ pc = "guard" =>
              /\ stable[u] # Unset /\ stable[u] <= imuErrors'[u] /\ erredIn'[u] \subseteq {"warm", "guard", "gap"}
              /\ "guard" \in erredIn'[u] => stable[u] < imuErrors'[u] /\ ~waited' /\ now' < formalStart
        /\ pc = "formal" =>
              /\ errorStart[u] # Unset /\ errorStart[u] <= imuErrors'[u] /\ erredIn'[u] \subseteq {"warm", "gap", "formal"}
              /\ "formal" \in erredIn'[u] => errorStart[u] < imuErrors'[u]
        /\ pc \in {"postroll", "cleanup", "report"} /\ outcome = None /\ ~aborted =>
              /\ errorStart[u] # Unset /\ erredIn'[u] \subseteq {"warm", "gap", "formal", "postroll"}
              /\ "formal" \in erredIn'[u] => errorStart[u] < errorEnd[u]
    BY <1>3, <2>1 DEF ImuInv, BeforeStart
  <2>3. /\ imuErrors[u] \in Nat /\ stable[u] \in Nat \cup {Unset} /\ errorStart[u] \in Nat \cup {Unset}
        /\ now \in Nat /\ formalStart \in Nat \cup {Unset}
    BY <1>1, <2>1 DEF HardwareTypeOK, ImuTypeOK, ControlTypeOK
  <2>4. \/ imuErrors'[u] = imuErrors[u] /\ erredIn'[u] = erredIn[u]
        \/ imuErrors'[u] = imuErrors[u] + 1 /\ erredIn'[u] = erredIn[u] \cup {PhaseAt(now')}
    BY <2>1, TickTypes
  <2>5. imuErrors[u] <= imuErrors'[u] /\ imuErrors'[u] \in Nat
    BY <2>3, <2>4
  <2>6. CASE pc = "warm"
    <3>1. PhaseAt(now') = "warm" /\ erredIn[u] \subseteq {"warm"}
      BY <1>1, <2>6 DEF PhaseAt, ImuInv, BeforeStart
    <3>2. erredIn'[u] \subseteq {"warm"}
      BY <2>4, <3>1
    <3> QED BY <2>6, <3>2
  <2>7. CASE pc = "guard"
    <3>1. /\ stable[u] # Unset /\ stable[u] <= imuErrors[u] /\ erredIn[u] \subseteq {"warm", "guard", "gap"}
          /\ "guard" \notin erredIn[u]
      BY <1>1, <2>7 DEF ImuInv
    <3>2. PhaseAt(now') = IF now' >= formalStart THEN "gap" ELSE "guard"
      BY <2>7 DEF PhaseAt
    <3>3. PhaseAt(now') \in {"guard", "gap"} /\ (PhaseAt(now') = "guard" => now' < formalStart)
      BY <1>2, <2>3, <3>2 DEF Unset
    <3>4. stable[u] <= imuErrors'[u] /\ erredIn'[u] \subseteq {"warm", "guard", "gap"}
      <4>1. stable[u] <= imuErrors'[u]
        BY <2>3, <2>5, <3>1
      <4> QED BY <2>4, <3>1, <3>3, <4>1
    <3>5. ASSUME "guard" \in erredIn'[u] PROVE stable[u] < imuErrors'[u] /\ ~waited' /\ now' < formalStart
      <4>1. imuErrors'[u] = imuErrors[u] + 1 /\ PhaseAt(now') = "guard"
        BY <2>4, <3>1, <3>5
      <4>2. stable[u] < imuErrors'[u]
        BY <2>3, <3>1, <4>1
      <4> QED BY <1>2, <3>3, <4>1, <4>2
    <3> QED BY <2>7, <3>1, <3>4, <3>5 DEF BeforeStart
  <2>8. CASE pc = "formal"
    <3>1. /\ errorStart[u] # Unset /\ errorStart[u] <= imuErrors[u] /\ erredIn[u] \subseteq {"warm", "gap", "formal"}
          /\ "formal" \in erredIn[u] => errorStart[u] < imuErrors[u]
      BY <1>1, <2>8 DEF ImuInv
    <3>2. PhaseAt(now') = "formal"
      BY <2>8 DEF PhaseAt
    <3>3. errorStart[u] <= imuErrors'[u] /\ erredIn'[u] \subseteq {"warm", "gap", "formal"}
      <4>1. errorStart[u] <= imuErrors'[u]
        BY <2>3, <2>5, <3>1
      <4> QED BY <2>4, <3>1, <3>2, <4>1
    <3>4. ASSUME "formal" \in erredIn'[u] PROVE errorStart[u] < imuErrors'[u]
      <4>1. CASE imuErrors'[u] = imuErrors[u] /\ erredIn'[u] = erredIn[u]
        BY <3>1, <3>4, <4>1
      <4>2. CASE imuErrors'[u] = imuErrors[u] + 1
        BY <2>3, <3>1, <4>2
      <4> QED BY <2>4, <4>1, <4>2
    <3> QED BY <2>8, <3>1, <3>3, <3>4 DEF BeforeStart
  <2>9. CASE pc = "postroll"
    <3>1. outcome = None /\ ~aborted =>
             /\ errorStart[u] # Unset /\ erredIn[u] \subseteq {"warm", "gap", "formal", "postroll"}
             /\ "formal" \in erredIn[u] => errorStart[u] < errorEnd[u]
      BY <1>1, <2>9 DEF ImuInv
    <3>2. PhaseAt(now') = "postroll"
      BY <2>9 DEF PhaseAt
    <3>3. erredIn'[u] \subseteq erredIn[u] \cup {"postroll"}
      BY <2>4, <3>2
    <3> QED BY <2>9, <3>1, <3>3 DEF BeforeStart
  <2> QED BY <1>1, <2>6, <2>7, <2>8, <2>9 DEF Looping
<1> QED BY <1>4, <1>5, <1>6, <1>7, <1>8, <1>9, <1>10 DEF IInv, TypeOK

(* A pass of main's loops: what it changes has its type and shows what it   *)
(* must of the counters, and the rest follows.                              *)
LEMMA PassKeeps ==
    ASSUME IInv, pc \in Looping, pc' \in Looping \cup {"cleanup"},
           HardwareTypeOK', FrameTypeOK', DiskInv', ImuTypeOK', ImuInv',
           \A d \in Devices : error[d] => error'[d],
           UNCHANGED <<umis, raises, step, deviceVars, motion, status>>,
           outcome' \in Outcomes, outcome' = None => outcome = None,
           aborted' \in BOOLEAN, waited' \in BOOLEAN,
           formalStart' \in Nat \cup {Unset}, pc' = "warm" => formalStart' = Unset,
           UNCHANGED productVars
    PROVE  IInv'
<1>1. /\ HardwareTypeOK /\ ControlTypeOK /\ HeldInv /\ RaiseInv /\ ManifestInv
      /\ pc # "end" /\ step = 1 /\ umis \in UmiChoices /\ Looping' = Looping
      /\ held \subseteq WriterCalls(umis) \cup DeviceCalls(umis) /\ EgoWriter \in held
  BY DEF IInv, TypeOK, Looping, HardwareTypeOK, ControlTypeOK, HeldInv, ManifestInv
<1>2. /\ umis' = umis /\ stage' = stage /\ step' = 1 /\ held' = held /\ undone' = undone
      /\ manifest' = manifest /\ stuck' = stuck /\ raises' = raises /\ motion' = motion /\ status' = status
      /\ initialized' = initialized
  BY <1>1 DEF productVars, deviceVars
<1>3. PassInv' /\ ProductInv' /\ ProductTypeOK'
  BY <1>1, <1>2, StillAtWork
<1>4. pc' = "cleanup" =>
         /\ 1 \in 1..Len(Calls')
         /\ WriterCalls(umis) \cup DeviceCalls(umis) = {Calls'[i] : i \in 1..Len(Calls')}
  <2>1. pc' = "cleanup" => Calls' = CleanUp[umis]
    BY <1>2 DEF Calls
  <2>2. /\ CleanUp[umis] \in Seq(CallSet) /\ Len(CleanUp[umis]) >= 1
        /\ ToSet(CleanUp[umis]) = WriterCalls(umis) \cup DeviceCalls(umis)
    BY <1>1, CleanUpIs
  <2>3. ASSUME NEW s \in Seq(CallSet) PROVE ToSet(s) = {s[i] : i \in 1..Len(s)} /\ Len(s) \in Nat
    BY DEF ToSet
  <2> QED BY <2>1, <2>2, <2>3
<1>5. ControlTypeOK'
  <2>1. pc' \in Parts /\ (pc' \in Listed => pc' = "cleanup") /\ (pc' \in BeforeStart => pc' = "warm")
    BY DEF Parts, Listed, Looping, BeforeStart
  <2>2. /\ held' \subseteq CallSet /\ stuck' \subseteq CallSet /\ manifest' \subseteq Words /\ undone' \in BOOLEAN
        /\ initialized' \subseteq UmiSet
        /\ motion' \in Results /\ status' \in Results
    BY <1>1, <1>2 DEF ControlTypeOK
  <2>3. step' \in Nat /\ (pc' \in Looping => step' = 1) /\ (pc' \in Listed => step' \in 1..Len(Calls'))
    BY <1>2, <1>4, <2>1
  <2> QED BY <2>1, <2>2, <2>3 DEF ControlTypeOK
<1>6. HeldInv'
  <2>1. WriterCalls(umis)' = WriterCalls(umis) /\ DeviceCalls(umis)' = DeviceCalls(umis)
    BY <1>2 DEF WriterCalls, DeviceCalls
  <2>2. pc' \in Looping => held' \subseteq WriterCalls(umis) \cup DeviceCalls(umis)
    BY <1>1, <1>2
  <2>3. pc' = "cleanup" => held' \subseteq {Calls'[i] : i \in step'..Len(Calls')}
    BY <1>1, <1>2, <1>4
  <2> QED BY <1>1, <2>1, <2>2, <2>3 DEF HeldInv, Looping
<1>7. ManifestInv'
  BY <1>1, <1>2 DEF ManifestInv, Looping
<1>8. RaiseInv'
  <2>1. Used' = Used /\ {"ego"} \cup Used \subseteq Devices
    BY <1>1, <1>2, UsedStays, DevicesAre DEF HardwareTypeOK
  <2> QED BY <1>1, <1>2, <2>1 DEF RaiseInv, Looping
<1> QED BY <1>3, <1>5, <1>6, <1>7, <1>8 DEF IInv, TypeOK

(* What a pass leaves alone of the hardware keeps its type.                 *)
LEMMA PassHardware ==
    ASSUME HardwareTypeOK, rsQueue' \in [UmiSet -> Seq(FrameSet)],
           UNCHANGED <<inputVars, now, inFlight, imuErrors, recorderLost, diskFailed, stop, misfortunes, erredIn,
                       raises>>
    PROVE  HardwareTypeOK'
BY DEF HardwareTypeOK, inputVars

(* Rows of before the start is known are rows of any start.                 *)
LEMMA RowsOfAnyStart ==
    ASSUME NEW f \in [Devices -> Seq(RowsOf(Unset))], NEW start
    PROVE  f \in [Devices -> Seq(RowsOf(start))]
<1> DEFINE A == RowsOf(Unset)
           B == RowsOf(start)
<1>1. A \subseteq B
  BY DEF RowsOf
<1> HIDE DEF A, B
<1>2. Seq(A) \subseteq Seq(B)
  <2>1. ASSUME NEW s \in Seq(A) PROVE s \in Seq(B)
    <3>1. s \in [1..Len(s) -> A] /\ Len(s) \in Nat
      OBVIOUS
    <3>2. s \in [1..Len(s) -> B]
      BY <1>1, <3>1
    <3> QED BY <3>1, <3>2
  <2> QED BY <2>1
<1> QED BY <1>2 DEF A, B

(* The warm-up,                                                             *)
LEMMA WarmPassKeeps ==
    ASSUME IInv, WarmPass, UNCHANGED productVars
    PROVE  IInv'
<1>1. /\ HardwareTypeOK /\ ControlTypeOK /\ FrameTypeOK /\ ImuTypeOK /\ TypeOK
      /\ DiskInv /\ ImuInv /\ pc = "warm" /\ pc \in Looping /\ formalStart = Unset /\ outcome \in Outcomes
      /\ aborted \in BOOLEAN /\ waited \in BOOLEAN /\ \A u \in Used : erredIn[u] \subseteq {"warm"}
  BY DEF IInv, TypeOK, WarmPass, Looping, ControlTypeOK, BeforeStart, ImuInv
<1>2. /\ UNCHANGED <<inputVars, now, inFlight, imuErrors, recorderLost, diskFailed, stop, misfortunes, erredIn,
                     raises, step, deviceVars, errorStart, errorEnd, motion, status>>
      /\ ~waited
  BY DEF WarmPass
<1>3. /\ umis' = umis /\ Used' = Used /\ imuErrors' = imuErrors /\ erredIn' = erredIn /\ now' = now
      /\ now \in Nat /\ imuErrors \in [UmiSet -> Nat] /\ Used \subseteq UmiSet
  BY <1>1, <1>2, UsedStays, DevicesAre DEF inputVars, HardwareTypeOK
<1>4. CASE stop
  <2>1. /\ outcome' = "cancelled" /\ pc' = "cleanup" /\ waited' = waited /\ aborted' = aborted
        /\ UNCHANGED <<rsQueue, frameVars, error, stable, stableSince, formalStart>>
    BY <1>4 DEF WarmPass, Leave
  <2>2. HardwareTypeOK'
    BY <1>1, <1>2, <2>1, PassHardware DEF HardwareTypeOK
  <2>3. FrameTypeOK' /\ DiskInv'
    BY <1>1, <2>1, FramesStay
  <2>4. ImuTypeOK'
    BY <1>1, <1>2, <2>1, ImuStays DEF imuVars
  <2>5. ImuInv'
    BY <2>1 DEF ImuInv, BeforeStart, None
  <2>6. /\ outcome' \in Outcomes /\ outcome' # None /\ pc' \in Looping \cup {"cleanup"} /\ pc' # "warm"
        /\ formalStart' \in Nat \cup {Unset} /\ \A d \in Devices : error[d] => error'[d]
    BY <1>1, <2>1 DEF Outcomes, None
  <2> QED BY <1>1, <1>2, <1>3, <2>1, <2>2, <2>3, <2>4, <2>5, <2>6, PassKeeps
<1>5. CASE ~stop
  <2> DEFINE ready == /\ Len(seen["ego"]) >= WARM_FRAMES /\ ~error["ego"]
                      /\ \A u \in Used : /\ stableSince'[u] # Unset
                                         /\ now - stableSince'[u] >= IMU_STABLE
                      /\ now >= MIN_WARMUP
  <2>1. /\ Drain(Unset)
        /\ stable' = [u \in UmiSet |-> IF RuntimeReady(u) THEN imuErrors[u] ELSE Unset]
        /\ stableSince' = [u \in UmiSet |->
                  IF ~RuntimeReady(u) THEN Unset
                  ELSE IF imuErrors[u] # stable[u] THEN now ELSE stableSince[u]]
        /\ IF ready
           THEN formalStart' = now + delay /\ pc' = "guard" /\ UNCHANGED <<outcome, waited, aborted>>
           ELSE /\ UNCHANGED formalStart
                /\ \/ /\ IF now >= WARMUP_TIMEOUT THEN Leave("error") ELSE Stay
                      /\ UNCHANGED aborted
                   \/ aborted' = TRUE /\ Leave("error")
    BY <1>5 DEF WarmPass
  <2> HIDE DEF ready
  <2>2. /\ seen' \in [Devices -> Seq(RowsOf(Unset))] /\ disk' \in [Devices -> Seq(RowsOf(Unset))]
        /\ error' \in [Devices -> BOOLEAN] /\ rsQueue' \in [UmiSet -> Seq(FrameSet)]
        /\ \A d \in Devices : error[d] => error'[d]
        /\ DiskInv'
    <3>1. Drain(formalStart) /\ formalStart \in Nat \cup {Unset}
      BY <1>1, <2>1
    <3> QED BY <1>1, <3>1, DrainIs
  <2>3. HardwareTypeOK'
    BY <1>1, <1>2, <2>2, PassHardware
  <2>4. FrameTypeOK'
    <3>1. /\ seen' \in [Devices -> Seq(RowsOf(formalStart'))] /\ disk' \in [Devices -> Seq(RowsOf(formalStart'))]
      BY <2>2, RowsOfAnyStart
    <3> QED BY <2>2, <3>1 DEF FrameTypeOK, RowsOf, RowSet, Devices, UmiSet
  <2>5. ImuTypeOK'
    <3>1. {stable, stableSince, errorStart, errorEnd} \subseteq [UmiSet -> Nat \cup {Unset}]
      BY <1>1 DEF ImuTypeOK
    <3>2. stable' \in [UmiSet -> Nat \cup {Unset}]
      BY <1>3, <2>1
    <3>3. stableSince' \in [UmiSet -> Nat \cup {Unset}]
      BY <1>3, <2>1, <3>1
    <3> QED BY <1>2, <3>1, <3>2, <3>3 DEF ImuTypeOK, UmiSet
  <2>6. CASE ready
    <3>1. formalStart' = now + delay /\ pc' = "guard" /\ UNCHANGED <<outcome, waited, aborted>>
      BY <2>1, <2>6
    <3>2. formalStart' \in Nat
      BY <1>1, <1>3, <3>1, Numbers DEF HardwareTypeOK
    <3>3. ImuInv'
      <4>1. ASSUME NEW u \in Used
            PROVE  stable'[u] # Unset /\ stable'[u] <= imuErrors[u]
        <5>1. u \in UmiSet /\ stableSince'[u] # Unset
          BY <1>3, <2>6 DEF ready
        <5>2. RuntimeReady(u)
          BY <2>1, <5>1
        <5>3. stable'[u] = imuErrors[u] /\ imuErrors[u] \in Nat
          BY <1>3, <2>1, <5>1, <5>2
        <5> QED BY <5>3 DEF Unset
      <4> QED BY <1>1, <1>3, <3>1, <4>1 DEF ImuInv, BeforeStart
    <3>4. /\ outcome' \in Outcomes /\ (outcome' = None => outcome = None) /\ pc' \in Looping \cup {"cleanup"}
          /\ pc' # "warm" /\ aborted' \in BOOLEAN /\ waited' \in BOOLEAN
      BY <1>1, <3>1 DEF Looping
    <3> QED BY <1>1, <1>2, <1>3, <2>2, <2>3, <2>4, <2>5, <3>2, <3>3, <3>4, PassKeeps
  <2>7. CASE ~ready
    <3>1. /\ formalStart' = Unset /\ aborted' \in BOOLEAN
          /\ \/ outcome' = "error" /\ pc' = "cleanup" /\ waited' = waited
             \/ pc' = pc /\ outcome' = outcome /\ waited' = TRUE
      BY <1>1, <2>1, <2>7 DEF Leave, Stay
    <3>2. ImuInv'
      BY <1>1, <1>3, <3>1 DEF ImuInv, BeforeStart, None
    <3>3. /\ outcome' \in Outcomes /\ (outcome' = None => outcome = None) /\ pc' \in Looping \cup {"cleanup"}
          /\ waited' \in BOOLEAN
      BY <1>1, <3>1 DEF Outcomes, None
    <3> QED BY <1>1, <1>2, <1>3, <2>2, <2>3, <2>4, <2>5, <3>1, <3>2, <3>3, PassKeeps
  <2> QED BY <2>6, <2>7
<1> QED BY <1>4, <1>5

(* An exception in a pass, before or after the queues were emptied: nothing *)
(* has to be shown of the counters any more.                                *)
LEMMA LeaveKeeps ==
    ASSUME IInv, pc \in Looping, NEW exception \in {"cancelled", "error"}, Leave(exception),
           UNCHANGED <<inputVars, now, inFlight, imuErrors, recorderLost, diskFailed, stop, misfortunes, erredIn,
                       raises, step, deviceVars, formalStart, aborted, imuVars, motion, status>>,
           UNCHANGED <<rsQueue, frameVars, error>> \/ Drain(formalStart),
           UNCHANGED productVars
    PROVE  IInv'
<1>1. /\ HardwareTypeOK /\ ControlTypeOK /\ FrameTypeOK /\ ImuTypeOK /\ DiskInv
      /\ formalStart \in Nat \cup {Unset} /\ aborted \in BOOLEAN /\ waited \in BOOLEAN
  BY DEF IInv, TypeOK, ControlTypeOK
<1>2. outcome' = exception /\ pc' = "cleanup" /\ waited' = waited /\ formalStart' = formalStart /\ aborted' = aborted
  BY DEF Leave
<1>3. /\ HardwareTypeOK' /\ FrameTypeOK' /\ DiskInv' /\ \A d \in Devices : error[d] => error'[d]
  <2>1. CASE UNCHANGED <<rsQueue, frameVars, error>>
    <3>1. HardwareTypeOK'
      BY <1>1, <2>1, PassHardware DEF HardwareTypeOK
    <3>2. FrameTypeOK' /\ DiskInv'
      BY <1>1, <1>2, <2>1, FramesStay
    <3> QED BY <2>1, <3>1, <3>2
  <2>2. CASE Drain(formalStart)
    <3>1. /\ seen' \in [Devices -> Seq(RowsOf(formalStart))] /\ disk' \in [Devices -> Seq(RowsOf(formalStart))]
          /\ error' \in [Devices -> BOOLEAN] /\ rsQueue' \in [UmiSet -> Seq(FrameSet)]
          /\ \A d \in Devices : error[d] => error'[d]
          /\ DiskInv'
      BY <1>1, <2>2, DrainIs
    <3>2. HardwareTypeOK'
      BY <1>1, <3>1, PassHardware
    <3>3. FrameTypeOK'
      BY <1>2, <3>1 DEF FrameTypeOK, RowsOf, RowSet, Devices, UmiSet
    <3> QED BY <3>1, <3>2, <3>3
  <2> QED BY <2>1, <2>2
<1>4. ImuTypeOK'
  BY <1>1, ImuStays
<1>5. ImuInv'
  BY <1>2 DEF ImuInv, BeforeStart, None
<1>6. /\ outcome' \in Outcomes /\ outcome' # None /\ pc' \in Looping \cup {"cleanup"} /\ pc' # "warm"
      /\ formalStart' \in Nat \cup {Unset} /\ aborted' \in BOOLEAN /\ waited' \in BOOLEAN
  BY <1>1, <1>2 DEF Outcomes, None
<1>7. umis' = umis
  BY DEF inputVars
<1> QED BY <1>3, <1>4, <1>5, <1>6, <1>7, PassKeeps

(* A pass that goes on or ends its loop after emptying the queues, or leaves *)
(* the frames alone.                                                         *)
LEMMA GoOnKeeps ==
    ASSUME IInv, pc \in Looping, pc' \in Looping \cup {"cleanup"}, pc' # "warm",
           UNCHANGED <<inputVars, now, inFlight, imuErrors, recorderLost, diskFailed, stop, misfortunes, erredIn,
                       raises, step, deviceVars, formalStart, outcome, stable, stableSince, motion, status>>,
           aborted' \in BOOLEAN, waited' \in BOOLEAN,
           errorStart' \in {errorStart, imuErrors}, errorEnd' \in {errorEnd, imuErrors},
           UNCHANGED <<rsQueue, frameVars, error>> \/ Drain(formalStart),
           ImuInv',
           UNCHANGED productVars
    PROVE  IInv'
<1>1. /\ HardwareTypeOK /\ ControlTypeOK /\ FrameTypeOK /\ ImuTypeOK /\ DiskInv
      /\ formalStart \in Nat \cup {Unset} /\ outcome \in Outcomes
  BY DEF IInv, TypeOK, ControlTypeOK
<1>2. formalStart' = formalStart /\ outcome' = outcome
  OBVIOUS
<1>3. /\ HardwareTypeOK' /\ FrameTypeOK' /\ DiskInv' /\ \A d \in Devices : error[d] => error'[d]
  <2>1. CASE UNCHANGED <<rsQueue, frameVars, error>>
    <3>1. HardwareTypeOK'
      BY <1>1, <2>1, PassHardware DEF HardwareTypeOK
    <3>2. FrameTypeOK' /\ DiskInv'
      BY <1>1, <1>2, <2>1, FramesStay
    <3> QED BY <2>1, <3>1, <3>2
  <2>2. CASE Drain(formalStart)
    <3>1. /\ seen' \in [Devices -> Seq(RowsOf(formalStart))] /\ disk' \in [Devices -> Seq(RowsOf(formalStart))]
          /\ error' \in [Devices -> BOOLEAN] /\ rsQueue' \in [UmiSet -> Seq(FrameSet)]
          /\ \A d \in Devices : error[d] => error'[d]
          /\ DiskInv'
      BY <1>1, <2>2, DrainIs
    <3>2. HardwareTypeOK'
      BY <1>1, <3>1, PassHardware
    <3>3. FrameTypeOK'
      BY <1>2, <3>1 DEF FrameTypeOK, RowsOf, RowSet, Devices, UmiSet
    <3> QED BY <3>1, <3>2, <3>3
  <2> QED BY <2>1, <2>2
<1>4. ImuTypeOK'
  <2>1. imuErrors \in [UmiSet -> Nat \cup {Unset}]
    BY <1>1 DEF HardwareTypeOK
  <2>2. stable' = stable /\ stableSince' = stableSince
    OBVIOUS
  <2> QED BY <1>1, <2>1, <2>2 DEF ImuTypeOK, UmiSet
<1>5. umis' = umis
  BY DEF inputVars
<1> QED BY <1>1, <1>2, <1>3, <1>4, <1>5, PassKeeps

(* The counters at hand, at a pass.                                         *)
LEMMA AtAPass ==
    ASSUME IInv, pc \in Looping, umis' = umis
    PROVE  /\ Used' = Used /\ Used \subseteq UmiSet /\ ImuInv
           /\ imuErrors \in [UmiSet -> Nat] /\ stable \in [UmiSet -> Nat \cup {Unset}]
           /\ errorStart \in [UmiSet -> Nat \cup {Unset}] /\ errorEnd \in [UmiSet -> Nat \cup {Unset}]
           /\ now \in Nat /\ formalStart \in Nat \cup {Unset} /\ waited \in BOOLEAN /\ aborted \in BOOLEAN
BY UsedStays, DevicesAre DEF IInv, TypeOK, HardwareTypeOK, ControlTypeOK, ImuTypeOK

(* The start guard,                                                         *)
LEMMA GuardPassKeeps ==
    ASSUME IInv, GuardPass, UNCHANGED productVars
    PROVE  IInv'
<1>1. /\ UNCHANGED <<inputVars, now, inFlight, imuErrors, recorderLost, diskFailed, stop, misfortunes, erredIn,
                     raises, step, deviceVars, formalStart, stable, stableSince, errorStart, motion, status>>
      /\ pc = "guard" /\ pc \in Looping
  BY DEF GuardPass, Looping
<1>2. /\ umis' = umis /\ erredIn' = erredIn /\ imuErrors' = imuErrors /\ stable' = stable
      /\ now' = now /\ formalStart' = formalStart /\ errorStart' = errorStart
  BY <1>1 DEF inputVars
<1>3. /\ Used' = Used /\ Used \subseteq UmiSet /\ ImuInv
      /\ waited \in BOOLEAN /\ aborted \in BOOLEAN
  BY <1>1, <1>2, AtAPass
<1>4. CASE stop
  <2>1. Leave("cancelled") /\ UNCHANGED <<rsQueue, frameVars, error, aborted, errorEnd>>
    BY <1>4 DEF GuardPass
  <2>2. "cancelled" \in {"cancelled", "error"}
    OBVIOUS
  <2> QED BY <1>1, <2>1, <2>2, LeaveKeeps DEF imuVars
<1>5. CASE ~stop
  <2>1. /\ Drain(formalStart)
        /\ \/ Drifted /\ Leave("error") /\ UNCHANGED <<aborted, errorEnd>>
           \/ ~Drifted /\ Stay /\ UNCHANGED <<aborted, errorEnd>>
           \/ /\ ~Drifted
              /\ aborted' = TRUE /\ errorEnd' = imuErrors /\ pc' = "postroll"
              /\ UNCHANGED <<outcome, waited>>
    BY <1>5 DEF GuardPass
  <2>2. CASE Leave("error") /\ UNCHANGED <<aborted, errorEnd>>
    <3>1. "error" \in {"cancelled", "error"}
      OBVIOUS
    <3> QED BY <1>1, <2>1, <2>2, <3>1, LeaveKeeps DEF imuVars
  <2>3. CASE ~Drifted /\ Stay /\ UNCHANGED <<aborted, errorEnd>>
    <3>1. pc' = "guard" /\ outcome' = outcome /\ waited' = TRUE /\ aborted' = aborted /\ errorEnd' = errorEnd
      BY <1>1, <2>3 DEF Stay
    <3>2. ImuInv'
      <4>1. ASSUME NEW u \in Used
            PROVE  /\ stable[u] # Unset /\ stable[u] <= imuErrors[u] /\ erredIn[u] \subseteq {"warm", "guard", "gap"}
                   /\ "guard" \notin erredIn[u]
        <5>1. /\ stable[u] # Unset /\ stable[u] <= imuErrors[u] /\ erredIn[u] \subseteq {"warm", "guard", "gap"}
              /\ "guard" \in erredIn[u] => stable[u] < imuErrors[u]
          BY <1>1, <1>3 DEF ImuInv
        <5>2. imuErrors[u] = stable[u] /\ imuErrors[u] \in Nat
          <6>1. u \in UmiSet /\ imuErrors \in [UmiSet -> Nat]
            BY <1>1, <1>2, <1>3, AtAPass
          <6> QED BY <2>3, <6>1 DEF Drifted
        <5> QED BY <5>1, <5>2
      <4> QED BY <1>2, <1>3, <3>1, <4>1 DEF ImuInv, BeforeStart
    <3>3. pc' \in Looping \cup {"cleanup"} /\ pc' # "warm" /\ aborted' \in BOOLEAN /\ waited' \in BOOLEAN
      BY <1>3, <3>1 DEF Looping
    <3>4. errorStart' \in {errorStart, imuErrors} /\ errorEnd' \in {errorEnd, imuErrors}
      BY <1>2, <3>1
    <3> QED BY <1>1, <2>1, <3>1, <3>2, <3>3, <3>4, GoOnKeeps
  <2>4. CASE /\ aborted' = TRUE /\ errorEnd' = imuErrors /\ pc' = "postroll"
             /\ UNCHANGED <<outcome, waited>>
    <3>1. ImuInv'
      BY <2>4 DEF ImuInv, BeforeStart
    <3>2. pc' \in Looping \cup {"cleanup"} /\ pc' # "warm" /\ aborted' \in BOOLEAN /\ waited' \in BOOLEAN
      BY <1>3, <2>4 DEF Looping
    <3>3. errorStart' \in {errorStart, imuErrors} /\ errorEnd' \in {errorEnd, imuErrors}
      BY <1>2, <2>4
    <3> QED BY <1>1, <2>1, <2>4, <3>1, <3>2, <3>3, GoOnKeeps
  <2> QED BY <2>1, <2>2, <2>3, <2>4
<1> QED BY <1>4, <1>5

(* the start,                                                               *)
LEMMA BeginFormalKeeps ==
    ASSUME IInv, BeginFormal, UNCHANGED productVars
    PROVE  IInv'
<1>1. /\ UNCHANGED <<inputVars, hardware, raises, step, deviceVars, outcome, formalStart, aborted, waited, frameVars,
                     error, stable, stableSince, errorEnd, motion, status>>
      /\ pc = "guard" /\ pc \in Looping /\ pc' = "formal" /\ errorStart' = imuErrors /\ now >= formalStart
  BY DEF BeginFormal, Looping
<1>2. /\ UNCHANGED <<now, inFlight, imuErrors, recorderLost, diskFailed, stop, misfortunes, erredIn, rsQueue>>
      /\ umis' = umis
  BY <1>1 DEF inputVars, hardware
<1>3. /\ Used' = Used /\ Used \subseteq UmiSet /\ ImuInv /\ imuErrors \in [UmiSet -> Nat]
      /\ now \in Nat /\ formalStart \in Nat \cup {Unset} /\ waited \in BOOLEAN /\ aborted \in BOOLEAN
  BY <1>1, <1>2, AtAPass
<1>4. ImuInv'
  <2>1. ASSUME NEW u \in Used
        PROVE  /\ errorStart'[u] # Unset /\ errorStart'[u] <= imuErrors'[u]
               /\ erredIn'[u] \subseteq {"warm", "gap", "formal"} /\ "formal" \notin erredIn'[u]
    <3>1. imuErrors[u] \in Nat /\ errorStart'[u] = imuErrors[u] /\ imuErrors'[u] = imuErrors[u]
          /\ erredIn'[u] = erredIn[u]
      BY <1>1, <1>2, <1>3
    <3>2. /\ erredIn[u] \subseteq {"warm", "guard", "gap"} /\ ("guard" \in erredIn[u] => now < formalStart)
      BY <1>1, <1>3 DEF ImuInv
    <3>3. ~(now < formalStart)
      BY <1>1, <1>3 DEF Unset
    <3>4. erredIn[u] \subseteq {"warm", "gap"}
      BY <3>2, <3>3
    <3> QED BY <3>1, <3>4 DEF Unset
  <2> QED BY <1>1, <1>3, <2>1 DEF ImuInv, BeforeStart
<1>5. pc' \in Looping \cup {"cleanup"} /\ pc' # "warm" /\ aborted' \in BOOLEAN /\ waited' \in BOOLEAN
  BY <1>1, <1>3 DEF Looping
<1>6. errorStart' \in {errorStart, imuErrors} /\ errorEnd' \in {errorEnd, imuErrors}
  BY <1>1
<1> QED BY <1>1, <1>2, <1>4, <1>5, <1>6, GoOnKeeps

(* the window                                                               *)
LEMMA FormalPassKeeps ==
    ASSUME IInv, FormalPass, UNCHANGED productVars
    PROVE  IInv'
<1>1. /\ UNCHANGED <<inputVars, now, inFlight, imuErrors, recorderLost, diskFailed, stop, misfortunes, erredIn,
                     raises, step, deviceVars, formalStart, stable, stableSince, errorStart, motion, status>>
      /\ pc = "formal" /\ pc \in Looping
  BY DEF FormalPass, Looping
<1>2. umis' = umis /\ erredIn' = erredIn /\ imuErrors' = imuErrors /\ errorStart' = errorStart
  BY <1>1 DEF inputVars
<1>3. Used' = Used /\ Used \subseteq UmiSet /\ ImuInv /\ waited \in BOOLEAN /\ aborted \in BOOLEAN
  BY <1>1, <1>2, AtAPass
<1>4. CASE stop
  <2>1. Leave("cancelled") /\ UNCHANGED <<rsQueue, frameVars, error, aborted, errorEnd>>
    BY <1>4 DEF FormalPass
  <2>2. "cancelled" \in {"cancelled", "error"}
    OBVIOUS
  <2> QED BY <1>1, <2>1, <2>2, LeaveKeeps DEF imuVars
<1>5. CASE ~stop
  <2>1. /\ Drain(formalStart)
        /\ \/ Stay /\ UNCHANGED <<aborted, errorEnd>>
           \/ /\ aborted' = TRUE /\ errorEnd' = imuErrors /\ pc' = "postroll"
              /\ UNCHANGED <<outcome, waited>>
    BY <1>5 DEF FormalPass
  <2>2. CASE Stay /\ UNCHANGED <<aborted, errorEnd>>
    <3>1. pc' = "formal" /\ outcome' = outcome /\ waited' = TRUE /\ aborted' = aborted /\ errorEnd' = errorEnd
      BY <1>1, <2>2 DEF Stay
    <3>2. ImuInv'
      BY <1>1, <1>2, <1>3, <3>1 DEF ImuInv, BeforeStart
    <3>3. pc' \in Looping \cup {"cleanup"} /\ pc' # "warm" /\ aborted' \in BOOLEAN /\ waited' \in BOOLEAN
      BY <1>3, <3>1 DEF Looping
    <3>4. errorStart' \in {errorStart, imuErrors} /\ errorEnd' \in {errorEnd, imuErrors}
      BY <1>2, <3>1
    <3> QED BY <1>1, <2>1, <3>1, <3>2, <3>3, <3>4, GoOnKeeps
  <2>3. CASE /\ aborted' = TRUE /\ errorEnd' = imuErrors /\ pc' = "postroll"
             /\ UNCHANGED <<outcome, waited>>
    <3>1. ImuInv'
      BY <2>3 DEF ImuInv, BeforeStart
    <3>2. pc' \in Looping \cup {"cleanup"} /\ pc' # "warm" /\ aborted' \in BOOLEAN /\ waited' \in BOOLEAN
      BY <1>3, <2>3 DEF Looping
    <3>3. errorStart' \in {errorStart, imuErrors} /\ errorEnd' \in {errorEnd, imuErrors}
      BY <1>2, <2>3
    <3> QED BY <1>1, <2>1, <2>3, <3>1, <3>2, <3>3, GoOnKeeps
  <2> QED BY <2>1, <2>2, <2>3
<1> QED BY <1>4, <1>5

(* and its end.                                                             *)
LEMMA EndFormalKeeps ==
    ASSUME IInv, EndFormal, UNCHANGED productVars
    PROVE  IInv'
<1>1. /\ UNCHANGED <<inputVars, hardware, raises, step, deviceVars, outcome, formalStart, aborted, waited, frameVars,
                     error, stable, stableSince, errorStart, motion, status>>
      /\ pc = "formal" /\ pc \in Looping /\ pc' = "postroll" /\ errorEnd' = imuErrors
  BY DEF EndFormal, Looping
<1>2. /\ UNCHANGED <<now, inFlight, imuErrors, recorderLost, diskFailed, stop, misfortunes, erredIn, rsQueue>>
      /\ umis' = umis
  BY <1>1 DEF inputVars, hardware
<1>3. Used' = Used /\ ImuInv /\ waited \in BOOLEAN /\ aborted \in BOOLEAN
  BY <1>1, <1>2, AtAPass
<1>4. ImuInv'
  BY <1>1, <1>2, <1>3 DEF ImuInv, BeforeStart
<1>5. pc' \in Looping \cup {"cleanup"} /\ pc' # "warm" /\ aborted' \in BOOLEAN /\ waited' \in BOOLEAN
  BY <1>1, <1>3 DEF Looping
<1>6. errorStart' \in {errorStart, imuErrors} /\ errorEnd' \in {errorEnd, imuErrors}
  BY <1>1
<1> QED BY <1>1, <1>2, <1>4, <1>5, <1>6, GoOnKeeps

(* The frames of the window that are still on their way,                    *)
LEMMA PostrollPassKeeps ==
    ASSUME IInv, PostrollPass, UNCHANGED productVars
    PROVE  IInv'
<1>1. /\ UNCHANGED <<inputVars, now, inFlight, imuErrors, recorderLost, diskFailed, stop, misfortunes, erredIn,
                     raises, step, deviceVars, formalStart, aborted, imuVars, motion, status>>
      /\ Drain(formalStart) /\ pc = "postroll" /\ pc \in Looping
      /\ pc' = "postroll" /\ outcome' = outcome /\ waited' = TRUE
  BY DEF PostrollPass, Stay, Looping
<1>2. /\ umis' = umis /\ erredIn' = erredIn /\ aborted' = aborted
      /\ UNCHANGED <<stable, stableSince, errorStart, errorEnd>>
  BY <1>1 DEF inputVars, imuVars
<1>3. Used' = Used /\ ImuInv /\ aborted \in BOOLEAN
  BY <1>1, <1>2, AtAPass
<1>4. ImuInv'
  BY <1>1, <1>2, <1>3 DEF ImuInv, BeforeStart
<1>5. pc' \in Looping \cup {"cleanup"} /\ pc' # "warm" /\ aborted' \in BOOLEAN /\ waited' \in BOOLEAN
  BY <1>1, <1>2, <1>3 DEF Looping
<1>6. errorStart' \in {errorStart, imuErrors} /\ errorEnd' \in {errorEnd, imuErrors}
  BY <1>2
<1> QED BY <1>1, <1>2, <1>4, <1>5, <1>6, GoOnKeeps

(* and their end.                                                           *)
LEMMA EndPostrollKeeps ==
    ASSUME IInv, EndPostroll, UNCHANGED productVars
    PROVE  IInv'
<1>1. /\ UNCHANGED <<inputVars, hardware, raises, step, deviceVars, outcome, formalStart, aborted, waited, frameVars,
                     error, imuVars, motion, status>>
      /\ pc = "postroll" /\ pc \in Looping /\ pc' = "cleanup"
  BY DEF EndPostroll, Looping
<1>2. /\ UNCHANGED <<now, inFlight, imuErrors, recorderLost, diskFailed, stop, misfortunes, erredIn, rsQueue>>
      /\ UNCHANGED <<stable, stableSince, errorStart, errorEnd>>
      /\ umis' = umis /\ erredIn' = erredIn
  BY <1>1 DEF inputVars, hardware, imuVars
<1>3. Used' = Used /\ ImuInv /\ waited \in BOOLEAN /\ aborted \in BOOLEAN
  BY <1>1, <1>2, AtAPass
<1>4. ImuInv'
  BY <1>1, <1>2, <1>3 DEF ImuInv, BeforeStart
<1>5. pc' \in Looping \cup {"cleanup"} /\ pc' # "warm" /\ aborted' \in BOOLEAN /\ waited' \in BOOLEAN
  BY <1>1, <1>3
<1>6. errorStart' \in {errorStart, imuErrors} /\ errorEnd' \in {errorEnd, imuErrors}
  BY <1>2
<1> QED BY <1>1, <1>2, <1>4, <1>5, <1>6, GoOnKeeps

(* The call of the finally clause at hand is about a device of this run.    *)
LEMMA CleanUpCallIs ==
    ASSUME HardwareTypeOK, ControlTypeOK, pc = "cleanup"
    PROVE  Calls[step].device \in {"ego"} \cup Used /\ Calls[step].name \in Words
<1> DEFINE call == Calls[step]
<1>1. /\ umis \in UmiChoices /\ pc \in Listed /\ step \in 1..Len(Calls) /\ Used = ToSet(umis)
      /\ UmiSet \subseteq Words /\ Used \subseteq UmiSet
  BY DevicesAre DEF HardwareTypeOK, ControlTypeOK, Listed
<1>2. Calls = CleanUp[umis]
  BY DEF Calls
<1>3. ToSet(CleanUp[umis]) = WriterCalls(umis) \cup DeviceCalls(umis)
  BY <1>1, CleanUpIs
<1>4. Calls \in Seq(CallSet)
  BY <1>1, CallsAre
<1>5. call \in WriterCalls(umis) \cup DeviceCalls(umis) /\ call \in CallSet
  <2>1. call \in ToSet(Calls) /\ call \in CallSet
    BY <1>1, <1>4 DEF ToSet
  <2> QED BY <1>2, <1>3, <2>1
<1> HIDE DEF call
<1>6. call.name \in Words
  BY <1>5 DEF CallSet
<1>7. CASE call = Call("pipeline", "ego")
  BY <1>6, <1>7 DEF Call, call
<1>8. CASE \E names, devices : call \in CallsOf(names, devices) /\ devices \subseteq {"ego"} \cup ToSet(umis)
  <2>1. PICK names, devices : call \in CallsOf(names, devices) /\ devices \subseteq {"ego"} \cup ToSet(umis)
    BY <1>8
  <2>2. PICK n \in names, d \in devices : call = Call(n, d)
    BY <2>1 DEF CallsOf
  <2>3. call.device = d
    BY <2>2 DEF Call
  <2> QED BY <1>1, <1>6, <2>1, <2>2, <2>3 DEF call
<1>9. \/ call = Call("pipeline", "ego")
      \/ \E names, devices : call \in CallsOf(names, devices) /\ devices \subseteq {"ego"} \cup ToSet(umis)
  <2>1. CASE call \in WriterCalls(umis)
    BY <2>1 DEF WriterCalls
  <2>2. CASE call \in DeviceCalls(umis)
    <3>1. call = Call("pipeline", "ego") \/ call \in CallsOf({"recorder", "reader", "sensor", "stream"}, ToSet(umis))
      BY <2>2 DEF DeviceCalls
    <3>2. ToSet(umis) \subseteq {"ego"} \cup ToSet(umis)
      OBVIOUS
    <3> QED BY <3>1, <3>2
  <2> QED BY <1>5, <2>1, <2>2
<1> QED BY <1>7, <1>8, <1>9

(* What a call of the finally clause does to the errors and the manifests.  *)
LEMMA CleanUpCallDoes ==
    ASSUME IInv, CleanUpCall
    PROVE  /\ held' \subseteq held \ {Calls[step]} /\ stuck' \subseteq CallSet /\ manifest' \subseteq Words
           /\ error' \in [Devices -> BOOLEAN] /\ raises' \in Nat
           /\ \A d \in Devices : error[d] => error'[d]
           /\ raises' # raises => \E d \in {"ego"} \cup Used : error'[d]
           /\ EgoWriter \in held => EgoWriter \in held' \/ "ego" \in manifest' \/ error'["ego"]
           /\ manifest \subseteq manifest'
<1> DEFINE call == Calls[step]
<1>1. /\ HardwareTypeOK /\ ControlTypeOK /\ FrameTypeOK /\ pc = "cleanup"
      /\ raises \in Nat /\ error \in [Devices -> BOOLEAN] /\ held \subseteq CallSet /\ stuck \subseteq CallSet
      /\ manifest \subseteq Words
  BY DEF IInv, TypeOK, CleanUpCall, HardwareTypeOK, ControlTypeOK, FrameTypeOK
<1>2. call.device \in {"ego"} \cup Used /\ {"ego"} \cup Used \subseteq Devices /\ Devices \subseteq Words
      /\ call.device \in Devices
  <2>1. call.device \in {"ego"} \cup Used
    BY <1>1, CleanUpCallIs
  <2>2. {"ego"} \cup Used \subseteq Devices /\ Devices \subseteq Words
    BY <1>1, DevicesAre DEF HardwareTypeOK
  <2> QED BY <2>1, <2>2
<1> HIDE DEF call
<1>3. CASE call \notin held
  <2>1. UNCHANGED <<held, stuck, manifest, error, raises>>
    BY <1>3 DEF CleanUpCall, call
  <2> QED BY <1>1, <1>3, <2>1 DEF call
<1>4. CASE call \in held /\ held' = held \ {call}
           /\ manifest' = manifest \cup (IF call.name = "writer" THEN {call.device} ELSE {})
           /\ UNCHANGED <<stuck, error, raises>>
  <2>1. call = EgoWriter => "ego" \in manifest'
    BY <1>4 DEF EgoWriter, Call
  <2>2. EgoWriter \in held => EgoWriter \in held' \/ "ego" \in manifest'
    BY <1>4, <2>1
  <2>3. manifest' \subseteq Words /\ manifest \subseteq manifest'
    BY <1>1, <1>2, <1>4
  <2> QED BY <1>1, <1>4, <2>2, <2>3 DEF call
<1>5. CASE call \in held /\ held' = held \ {call} /\ Raises
           /\ stuck' = stuck \cup (IF call.name = "writer" THEN {} ELSE {call})
           /\ error' = [error EXCEPT ![call.device] = TRUE]
           /\ UNCHANGED manifest
  <2>1. call.device \in Devices /\ error' \in [Devices -> BOOLEAN] /\ error'[call.device]
        /\ \A d \in Devices : error[d] => error'[d]
    BY <1>1, <1>2, <1>5
  <2>2. call = EgoWriter => error'["ego"]
    <3>1. call = EgoWriter => call.device = "ego"
      BY DEF EgoWriter, Call
    <3> QED BY <2>1, <3>1
  <2>3. EgoWriter \in held => EgoWriter \in held' \/ error'["ego"]
    BY <1>5, <2>2
  <2>4. raises' \in Nat
    BY <1>1, <1>5, RaisesTypes
  <2>5. stuck' \subseteq CallSet
    BY <1>1, <1>5
  <2> QED BY <1>1, <1>2, <1>5, <2>1, <2>3, <2>4, <2>5 DEF call
<1> QED BY <1>3, <1>4, <1>5 DEF CleanUpCall, call

(* The finally clause.                                                      *)
LEMMA CleanUpCallKeeps ==
    ASSUME IInv, CleanUpCall, UNCHANGED productVars
    PROVE  IInv'
<1>1. /\ HardwareTypeOK /\ ControlTypeOK /\ FrameTypeOK /\ ImuTypeOK /\ ProductTypeOK /\ TypeOK
      /\ HeldInv /\ RaiseInv /\ DiskInv /\ ManifestInv /\ ImuInv /\ PassInv /\ ProductInv
      /\ pc = "cleanup" /\ pc # "end" /\ pc \in Listed /\ NextCall
  BY DEF IInv, TypeOK, Listed, CleanUpCall
<1>2. UNCHANGED <<inputVars, hardware, initialized, undone, outcome, formalStart, aborted, waited, frameVars,
                  imuVars, motion, status>>
  BY DEF CleanUpCall
<1>3. umis' = umis /\ stage' = stage /\ Used' = Used /\ {"ego"} \cup Used \subseteq Devices
  BY <1>1, <1>2, UsedStays, DevicesAre DEF inputVars, productVars, HardwareTypeOK
<1>4. /\ held' \subseteq held \ {Calls[step]} /\ stuck' \subseteq CallSet /\ manifest' \subseteq Words
      /\ error' \in [Devices -> BOOLEAN] /\ raises' \in Nat
      /\ \A d \in Devices : error[d] => error'[d]
      /\ raises' # raises => \E d \in {"ego"} \cup Used : error'[d]
      /\ EgoWriter \in held => EgoWriter \in held' \/ "ego" \in manifest' \/ error'["ego"]
      /\ manifest \subseteq manifest'
  BY CleanUpCallDoes
<1>5. /\ pc' \in {"cleanup", "report", "end"} /\ (pc' = "report" => outcome = None)
      /\ step' \in Nat /\ (pc' \in Listed => step' \in 1..Len(Calls'))
  <2>1. /\ step' \in Nat /\ (pc' \in Listed => step' \in 1..Len(Calls')) /\ (pc' # pc => pc' = AfterCalls)
    BY <1>1, <1>3, NextCallTypes
  <2>2. AfterCalls \in {"report", "end"} /\ (AfterCalls = "report" => outcome = None)
    BY <1>1 DEF AfterCalls
  <2> QED BY <1>1, <2>1, <2>2
<1>6. PassInv' /\ ProductInv' /\ ProductTypeOK'
  BY <1>1, <1>2, StillAtWork
<1>7. HardwareTypeOK' /\ ImuTypeOK'
  BY <1>1, <1>2, <1>4, HardwareStays, ImuStays
<1>8. FrameTypeOK' /\ DiskInv'
  <2>1. seen' = seen /\ disk' = disk /\ formalStart' = formalStart
    BY <1>2 DEF frameVars
  <2>2. \A d \in Devices : ~error'[d] => disk'[d] = seen'[d]
    BY <1>1, <1>4, <2>1 DEF DiskInv
  <2>3. FrameTypeOK'
    BY <1>1, <1>4, <2>1 DEF FrameTypeOK
  <2> QED BY <2>2, <2>3 DEF DiskInv, Devices, UmiSet
<1>9. ControlTypeOK'
  <2>1. pc' \in Parts /\ pc' \notin Looping /\ pc' \notin BeforeStart
    BY <1>5 DEF Parts, Looping, BeforeStart
  <2>2. held' \subseteq CallSet /\ initialized' = initialized
    BY <1>1, <1>2, <1>4 DEF ControlTypeOK
  <2> QED BY <1>1, <1>2, <1>4, <1>5, <2>1, <2>2 DEF ControlTypeOK
<1>10. HeldInv'
  <2>1. held' \subseteq {Calls[i] : i \in step..Len(Calls)} /\ Calls[step] \notin held'
    BY <1>1, <1>4 DEF HeldInv
  <2>2. /\ pc' = pc => held' \subseteq {Calls'[i] : i \in step'..Len(Calls')}
        /\ pc' # pc => held' = {}
    BY <1>1, <1>3, <2>1, RestIsHeld
  <2> QED BY <1>1, <1>5, <2>2 DEF HeldInv, Looping
<1>11. ManifestInv'
  <2>1. pc' \in {"cleanup", "report"} /\ outcome' = None => EgoWriter \in held' \/ "ego" \in manifest' \/ error'["ego"]
    <3>1. SUFFICES ASSUME outcome' = None PROVE EgoWriter \in held' \/ "ego" \in manifest' \/ error'["ego"]
      OBVIOUS
    <3>2. EgoWriter \in held \/ "ego" \in manifest \/ error["ego"]
      BY <1>1, <1>2, <3>1 DEF ManifestInv
    <3>3. error["ego"] => error'["ego"]
      BY <1>4 DEF Devices
    <3> QED BY <1>4, <3>2, <3>3
  <2> QED BY <1>5, <2>1 DEF ManifestInv, Looping
<1>12. RaiseInv'
  <2>1. SUFFICES ASSUME stage' = "capture", outcome' = None, raises' # 0
                 PROVE  \E d \in {"ego"} \cup Used : error'[d]
    BY <1>2, <1>3, <1>5 DEF RaiseInv
  <2>2. CASE raises' # raises
    BY <1>4, <2>2
  <2>3. CASE raises' = raises
    <3>1. PICK d \in {"ego"} \cup Used : error[d]
      BY <1>1, <1>2, <1>3, <2>1, <2>3 DEF RaiseInv
    <3> QED BY <1>3, <1>4, <3>1
  <2> QED BY <2>2, <2>3
<1>13. ImuInv'
  <2>1. /\ erredIn' = erredIn /\ errorStart' = errorStart /\ errorEnd' = errorEnd /\ aborted' = aborted
        /\ outcome' = outcome
    BY <1>2 DEF hardware, imuVars
  <2>2. pc' \notin BeforeStart /\ pc' # "guard" /\ pc' # "formal"
    BY <1>5 DEF BeforeStart
  <2> QED BY <1>1, <1>3, <2>1, <2>2 DEF ImuInv
<1> QED BY <1>6, <1>7, <1>8, <1>9, <1>10, <1>11, <1>12, <1>13 DEF IInv, TypeOK

(* The verdict: a PASS has what it was given for.                           *)
LEMMA VerdictIs ==
    ASSUME IInv, pc = "report", Verdict = "PASS"
    PROVE  /\ outcome = None /\ raises = 0 /\ FormalSamples("ego") # <<>>
           /\ \A d \in {"ego"} \cup Used : ~error[d] /\ d \in manifest
           /\ \A u \in Used : ~recorderLost[u] /\ erredIn[u] \subseteq {"warm", "gap", "postroll"}
<1>1. /\ HardwareTypeOK /\ ControlTypeOK /\ ImuTypeOK /\ HeldInv /\ RaiseInv /\ ManifestInv /\ ImuInv
      /\ outcome = None /\ held = {} /\ stage = "capture"
  <2>1. stage = "capture"
    BY AtWork
  <2> QED BY <2>1 DEF IInv, TypeOK, HeldInv, RaiseInv
<1>2. EgoPasses /\ \A u \in Used : UmiPasses(u)
  BY DEF Verdict
<1>3. FormalSamples("ego") # <<>> /\ ~error["ego"] /\ ~aborted
  BY <1>2 DEF EgoPasses, StreamPasses
<1>4. \A u \in Used : ~error[u] /\ u \in manifest /\ ImuPasses(u)
  BY <1>2 DEF UmiPasses
<1>5. "ego" \in manifest
  BY <1>1, <1>3 DEF ManifestInv
<1>6. \A d \in {"ego"} \cup Used : ~error[d] /\ d \in manifest
  BY <1>3, <1>4, <1>5
<1>7. raises = 0
  BY <1>1, <1>6 DEF RaiseInv
<1>8. ASSUME NEW u \in Used
      PROVE  ~recorderLost[u] /\ erredIn[u] \subseteq {"warm", "gap", "postroll"}
  <2>1. /\ errorStart[u] # Unset /\ erredIn[u] \subseteq {"warm", "gap", "formal", "postroll"}
        /\ "formal" \in erredIn[u] => errorStart[u] < errorEnd[u]
    BY <1>1, <1>3 DEF ImuInv
  <2>2. errorEnd[u] <= errorStart[u] /\ ~recorderLost[u]
    BY <1>4, <2>1 DEF ImuPasses
  <2>3. errorStart[u] \in Int /\ errorEnd[u] \in Int
    <3>1. u \in UmiSet
      BY <1>1, DevicesAre DEF HardwareTypeOK
    <3> QED BY <1>1, <3>1 DEF ImuTypeOK, Unset
  <2>4. "formal" \notin erredIn[u]
    BY <2>1, <2>2, <2>3
  <2> QED BY <2>1, <2>2, <2>4
<1> QED BY <1>1, <1>3, <1>6, <1>7, <1>8

(* The reports.                                                             *)
LEMMA ReportKeeps ==
    ASSUME IInv, Report, UNCHANGED productVars
    PROVE  IInv'
<1>1. /\ HardwareTypeOK /\ ControlTypeOK /\ FrameTypeOK /\ ImuTypeOK /\ ProductTypeOK /\ TypeOK
      /\ HeldInv /\ DiskInv /\ pc = "report" /\ pc # "end" /\ held = {} /\ outcome = None
      /\ stage = "capture" /\ status = None /\ code = Unset
  <2>1. IInv /\ pc = "report"
    BY DEF Report
  <2>2. stage = "capture" /\ status = None /\ code = Unset
    BY <2>1, AtWork
  <2> QED BY <2>1, <2>2 DEF IInv, TypeOK, HeldInv, RaiseInv
<1>2. /\ UNCHANGED <<inputVars, hardware, step, deviceVars, formalStart, aborted, waited, frameVars, error, imuVars>>
      /\ pc' = "end"
  BY DEF Report
<1>3. \/ motion' \in {"PASS", "FAIL"} /\ status' = Verdict /\ UNCHANGED <<raises, outcome>>
      \/ Raises /\ outcome' = "error" /\ UNCHANGED <<motion, status>>
  BY DEF Report
<1>4. /\ umis' = umis /\ stage' = stage /\ code' = code /\ capture' = capture /\ Used' = Used
      /\ held' = held /\ stuck' = stuck /\ undone' = undone /\ manifest' = manifest
      /\ initialized' = initialized /\ Overlooked' = Overlooked
      /\ error' = error /\ recorderLost' = recorderLost /\ erredIn' = erredIn
      /\ FormalSamples("ego")' = FormalSamples("ego")
  <2>1. umis' = umis /\ stage' = stage /\ code' = code /\ capture' = capture
        /\ held' = held /\ stuck' = stuck /\ undone' = undone /\ manifest' = manifest
        /\ initialized' = initialized
        /\ error' = error /\ recorderLost' = recorderLost /\ erredIn' = erredIn
        /\ seen' = seen /\ formalStart' = formalStart
    BY <1>2 DEF inputVars, productVars, deviceVars, hardware, frameVars
  <2> QED BY <2>1, UsedStays DEF FormalSamples, FormalEnd, Overlooked
<1>5. Verdict \in {"PASS", "FAIL"}
  BY DEF Verdict
<1>6. /\ raises' \in Nat /\ outcome' \in Outcomes /\ motion' \in Results /\ status' \in Results
  <2>1. CASE motion' \in {"PASS", "FAIL"} /\ status' = Verdict /\ UNCHANGED <<raises, outcome>>
    BY <1>1, <1>5, <2>1 DEF HardwareTypeOK, ControlTypeOK, Results
  <2>2. CASE Raises /\ outcome' = "error" /\ UNCHANGED <<motion, status>>
    BY <1>1, <2>2, RaisesTypes DEF HardwareTypeOK, ControlTypeOK, Outcomes
  <2> QED BY <1>3, <2>1, <2>2
<1>7. HardwareTypeOK' /\ FrameTypeOK' /\ DiskInv' /\ ImuTypeOK'
  BY <1>1, <1>2, <1>6, HardwareStays, FramesStay, ImuStays
<1>8. ControlTypeOK'
  <2>1. pc' \in Parts /\ pc' \notin Looping /\ pc' \notin Listed /\ pc' \notin BeforeStart
    BY <1>2 DEF Parts, Looping, Listed, BeforeStart
  <2> QED BY <1>1, <1>2, <1>4, <1>6, <2>1 DEF ControlTypeOK
<1>9. ProductTypeOK' /\ ProductInv'
  BY <1>1, <1>4 DEF ProductTypeOK, ProductInv, Unset
<1>10. HeldInv' /\ ManifestInv' /\ ImuInv'
  BY <1>1, <1>2, <1>4 DEF HeldInv, ManifestInv, ImuInv, Looping, BeforeStart
<1>11. PassInv'
  <2>1. SUFFICES ASSUME status' = "PASS"
        PROVE  /\ outcome' = None /\ raises' = 0
               /\ \A d \in {"ego"} \cup Used : ~error[d] /\ d \in manifest
               /\ \A u \in Used : ~recorderLost[u] /\ erredIn[u] \subseteq {"warm", "gap", "postroll"}
               /\ FormalSamples("ego") # <<>>
    BY <1>2, <1>4 DEF PassInv
  <2>2. Verdict = "PASS" /\ raises' = raises /\ outcome' = outcome
    BY <1>1, <1>3, <2>1 DEF None
  <2> QED BY <1>1, <2>2, VerdictIs
<1>12. RaiseInv'
  <2>1. SUFFICES ASSUME outcome' = None, raises' # 0 PROVE \E d \in {"ego"} \cup Used : error[d]
    BY <1>2, <1>4 DEF RaiseInv
  <2>2. raises' = raises
    BY <1>3, <2>1 DEF None
  <2> QED BY <1>1, <2>1, <2>2 DEF IInv, RaiseInv
<1> QED BY <1>7, <1>8, <1>9, <1>10, <1>11, <1>12 DEF IInv, TypeOK

(* The command, once run_pair has ended: what it makes of its own status.   *)
LEMMA CommandKeeps ==
    ASSUME IInv, pc = "end", raises' \in Nat, stage' # "capture", ProductTypeOK', ProductInv',
           UNCHANGED <<inputVars, hardware, pc, step, deviceVars, outcome, formalStart, aborted, waited, frameVars,
                       error, imuVars, motion, status>>
    PROVE  IInv'
<1>1. /\ HardwareTypeOK /\ ControlTypeOK /\ FrameTypeOK /\ ImuTypeOK
      /\ HeldInv /\ DiskInv /\ PassInv /\ pc' = "end"
  BY DEF IInv, TypeOK
<1>2. /\ umis' = umis /\ Used' = Used /\ held' = held /\ stuck' = stuck /\ undone' = undone /\ manifest' = manifest
      /\ initialized' = initialized /\ Overlooked' = Overlooked
      /\ error' = error /\ recorderLost' = recorderLost /\ erredIn' = erredIn
      /\ FormalSamples("ego")' = FormalSamples("ego")
  <2>1. umis' = umis /\ held' = held /\ stuck' = stuck /\ undone' = undone /\ manifest' = manifest
        /\ initialized' = initialized
        /\ error' = error /\ recorderLost' = recorderLost /\ erredIn' = erredIn
        /\ seen' = seen /\ formalStart' = formalStart
    BY DEF inputVars, deviceVars, hardware, frameVars
  <2> QED BY <2>1, UsedStays DEF FormalSamples, FormalEnd, Overlooked
<1>3. HardwareTypeOK' /\ FrameTypeOK' /\ DiskInv' /\ ImuTypeOK'
  BY <1>1, HardwareStays, FramesStay, ImuStays
<1>4. ControlTypeOK'
  <2>1. pc' \notin Listed
    BY <1>1 DEF Listed
  <2> QED BY <1>1, <1>2, <2>1 DEF ControlTypeOK
<1>5. HeldInv' /\ ManifestInv' /\ ImuInv'
  BY <1>1, <1>2 DEF HeldInv, ManifestInv, ImuInv, Looping, BeforeStart
<1>6. PassInv' /\ RaiseInv'
  <2>1. status' = status /\ outcome' = outcome
    OBVIOUS
  <2> QED BY <1>1, <1>2, <2>1 DEF PassInv, RaiseInv
<1> QED BY <1>3, <1>4, <1>5, <1>6 DEF IInv, TypeOK

(* Its result is a number of its own.                                       *)
LEMMA Exits == Exit["PASS"] = 0 /\ Exit["FAIL"] = 2 /\ Exit["BLOCKED"] = 3
BY DEF Exit

(* The capture's report,                                                    *)
LEMMA CaptureIsReportedKeeps ==
    ASSUME IInv, CaptureIsReported
    PROVE  IInv'
<1>1. /\ UNCHANGED <<inputVars, hardware, pc, step, deviceVars, outcome, formalStart, aborted, waited, frameVars,
                     error, imuVars, motion, status, index>>
      /\ stage = "capture" /\ pc = "end" /\ pc' = "end"
  BY DEF CaptureIsReported
<1>2. /\ raises \in Nat /\ status \in Results /\ ProductTypeOK /\ code = Unset
  BY <1>1 DEF IInv, TypeOK, HardwareTypeOK, ControlTypeOK, ProductInv
<1>3. \/ outcome = "error" /\ stage' = "end" /\ code' = 2 /\ UNCHANGED <<raises, capture>>
      \/ /\ outcome \in {"cancelled", "unavailable"} /\ capture' = "BLOCKED" /\ stage' = "end" /\ code' = 3
         /\ UNCHANGED raises
      \/ /\ capture' = status /\ UNCHANGED raises
         /\ IF status = "PASS" THEN stage' = "index" /\ UNCHANGED code ELSE stage' = "end" /\ code' = 2
      \/ Raises /\ stage' = "end" /\ code' = 2 /\ UNCHANGED capture
  BY Exits DEF CaptureIsReported, Finish
<1>4. /\ raises' \in Nat /\ stage' \in {"index", "end"} /\ code' \in {Unset, 2, 3}
      /\ capture' \in Results \cup {"BLOCKED"}
      /\ (stage' = "index" => status = "PASS" /\ code' = Unset)
      /\ (code' = 3 => outcome \in {"cancelled", "unavailable"})
  <2>1. CASE outcome = "error" /\ stage' = "end" /\ code' = 2 /\ UNCHANGED <<raises, capture>>
    BY <1>2, <2>1 DEF ProductTypeOK
  <2>2. CASE /\ outcome \in {"cancelled", "unavailable"} /\ capture' = "BLOCKED" /\ stage' = "end" /\ code' = 3
             /\ UNCHANGED raises
    BY <1>2, <2>2
  <2>3. CASE /\ capture' = status /\ UNCHANGED raises
             /\ IF status = "PASS" THEN stage' = "index" /\ UNCHANGED code ELSE stage' = "end" /\ code' = 2
    BY <1>2, <2>3 DEF Unset
  <2>4. CASE Raises /\ stage' = "end" /\ code' = 2 /\ UNCHANGED capture
    BY <1>2, <2>4, RaisesTypes DEF ProductTypeOK
  <2> QED BY <1>3, <2>1, <2>2, <2>3, <2>4
<1>5. ProductTypeOK'
  BY <1>4 DEF ProductTypeOK, Results, Unset
<1>6. ProductInv'
  BY <1>1, <1>4 DEF ProductInv, Unset
<1>7. stage' # "capture"
  BY <1>4
<1> QED BY <1>1, <1>4, <1>5, <1>6, <1>7, CommandKeeps

(* The files do not change any more.                                        *)
LEMMA IndexStays ==
    ASSUME UNCHANGED <<umis, seen, disk, formalStart>>
    PROVE  Indexable' = Indexable /\ IndexStreams' = IndexStreams /\ BuildIndex(IndexStreams)' = BuildIndex(IndexStreams)
<1>1. TaskStart' = TaskStart
  BY DEF TaskStart, FormalSamples, FormalEnd
<1>2. IndexStreams' = IndexStreams
  BY <1>1 DEF IndexStreams
<1>3. Indexable' = Indexable
  BY <1>1 DEF Indexable
<1> QED BY <1>2, <1>3

(* the index                                                                *)
LEMMA IndexKeeps ==
    ASSUME IInv, Index
    PROVE  IInv'
<1>1. /\ UNCHANGED <<inputVars, hardware, pc, step, deviceVars, outcome, formalStart, aborted, waited, frameVars,
                     error, imuVars, motion, status, capture>>
      /\ stage = "index"
  BY DEF Index
<1>2. /\ raises \in Nat /\ status = "PASS" /\ ProductTypeOK /\ code = Unset /\ pc = "end"
  BY <1>1 DEF IInv, TypeOK, HardwareTypeOK, ProductInv
<1>3. \/ Indexable /\ index' = BuildIndex(IndexStreams) /\ stage' = "verify" /\ UNCHANGED <<raises, code>>
      \/ stage' = "end" /\ code' = 2 /\ UNCHANGED <<raises, index>>
      \/ Raises /\ stage' = "end" /\ code' = 2 /\ UNCHANGED index
  BY Exits DEF Index, Finish
<1>4. UNCHANGED <<umis, seen, disk, formalStart>> /\ pc' = "end" /\ status' = "PASS" /\ capture' = capture
  BY <1>1, <1>2 DEF inputVars, frameVars
<1>5. Indexable' = Indexable /\ BuildIndex(IndexStreams)' = BuildIndex(IndexStreams)
  BY <1>4, IndexStays
<1>6. /\ raises' \in Nat /\ stage' \in {"verify", "end"} /\ code' \in {Unset, 2}
      /\ (stage' = "verify" => code' = Unset /\ Indexable /\ index' = BuildIndex(IndexStreams))
  <2>1. CASE Indexable /\ index' = BuildIndex(IndexStreams) /\ stage' = "verify" /\ UNCHANGED <<raises, code>>
    BY <1>2, <2>1
  <2>2. CASE stage' = "end" /\ code' = 2 /\ UNCHANGED <<raises, index>>
    BY <1>2, <2>2
  <2>3. CASE Raises /\ stage' = "end" /\ code' = 2 /\ UNCHANGED index
    BY <1>2, <2>3, RaisesTypes
  <2> QED BY <1>3, <2>1, <2>2, <2>3
<1>7. ProductTypeOK'
  BY <1>2, <1>4, <1>6 DEF ProductTypeOK, Results
<1>8. ProductInv'
  <2>1. stage' = "verify" => IsIndexed'
    BY <1>4, <1>5, <1>6, Zenon DEF IsIndexed
  <2>2. code' # 3 /\ (stage' # "end" => code' = Unset) /\ stage' # "index"
    BY <1>6 DEF Unset
  <2> QED BY <1>4, <2>1, <2>2 DEF ProductInv
<1>9. stage' # "capture"
  BY <1>6
<1> QED BY <1>1, <1>2, <1>6, <1>7, <1>8, <1>9, CommandKeeps

(* and the verification.                                                    *)
LEMMA VerifyKeeps ==
    ASSUME IInv, Verify
    PROVE  IInv'
<1>1. /\ UNCHANGED <<inputVars, hardware, pc, step, deviceVars, outcome, formalStart, aborted, waited, frameVars,
                     error, imuVars, motion, status, capture, index>>
      /\ stage = "verify"
  BY DEF Verify
<1>2. /\ raises \in Nat /\ IsIndexed /\ ProductTypeOK /\ pc = "end"
  BY <1>1 DEF IInv, TypeOK, HardwareTypeOK, ProductInv
<1>3. UNCHANGED <<umis, seen, disk, formalStart>> /\ pc' = "end" /\ status' = status /\ capture' = capture
      /\ index' = index
  BY <1>1, <1>2 DEF inputVars, frameVars
<1>4. IsIndexed'
  <2>1. Indexable' = Indexable /\ BuildIndex(IndexStreams)' = BuildIndex(IndexStreams)
    BY <1>3, IndexStays
  <2> QED BY <1>2, <1>3, <2>1, Zenon DEF IsIndexed
<1>5. Verified \in {"FAIL", "BLOCKED", "PASS"} /\ (Verified # "FAIL" => \E i \in DOMAIN index : index[i].trainable)
  <2>1. Verified \in {"FAIL", "BLOCKED", "PASS"}
    BY DEF Verified
  <2>2. ASSUME Verified # "FAIL" PROVE \E i \in DOMAIN index : index[i].trainable
    <3>1. SyncSection # "FAIL"
      BY <2>2 DEF Verified
    <3> QED BY <3>1 DEF SyncSection, Section
  <2> QED BY <2>1, <2>2
<1>6. /\ raises' \in Nat /\ stage' = "end" /\ code' \in {2, 3}
      /\ code' = 3 => \E i \in DOMAIN index : index[i].trainable
  <2>1. CASE Finish(Exit[compose_product_status(Verified)]) /\ UNCHANGED raises
    <3>1. compose_product_status(Verified) = IF Verified = "PASS" THEN "BLOCKED" ELSE Verified
      BY DEF compose_product_status
    <3>2. CASE Verified = "FAIL"
      BY <1>2, <2>1, <3>1, <3>2, Exits DEF Finish
    <3>3. CASE Verified # "FAIL"
      <4>1. compose_product_status(Verified) = "BLOCKED"
        BY <1>5, <3>1, <3>3
      <4> QED BY <1>2, <1>5, <2>1, <3>3, <4>1, Exits DEF Finish
    <3> QED BY <3>2, <3>3
  <2>2. CASE Raises /\ Finish(Exit["FAIL"])
    BY <1>2, <2>2, Exits, RaisesTypes DEF Finish
  <2> QED BY <2>1, <2>2 DEF Verify
<1>7. ProductTypeOK'
  BY <1>2, <1>3, <1>6 DEF ProductTypeOK, Results
<1>8. ProductInv'
  <2>1. code' = 3 => \E i \in DOMAIN index' : index'[i].trainable
    BY <1>3, <1>6
  <2>2. stage' # "index" /\ stage' # "verify" /\ stage' = "end"
    BY <1>6
  <2> QED BY <1>3, <1>4, <2>1, <2>2 DEF ProductInv
<1>9. stage' # "capture"
  BY <1>6
<1> QED BY <1>1, <1>2, <1>6, <1>7, <1>8, <1>9, CommandKeeps

-----------------------------------------------------------------------------
(* The theorems.                                                            *)

(* Nothing is started when the command begins.                              *)
LEMMA InitHolds ==
    ASSUME InitProduct
    PROVE  IInv
<1>1. /\ umis \in UmiChoices /\ delay \in Delays /\ motion = None
      /\ phase \in {[d \in Devices |-> IF d \in Used THEN p[d] ELSE 0] : p \in [Used -> Phases]}
      /\ now = 0 /\ inFlight = [d \in Devices |-> <<>>] /\ rsQueue = [u \in UmiSet |-> <<>>]
      /\ imuErrors = [u \in UmiSet |-> 0] /\ recorderLost = [u \in UmiSet |-> FALSE]
      /\ diskFailed = [d \in Devices |-> FALSE] /\ stop = FALSE /\ misfortunes = 0 /\ raises = 0
      /\ erredIn = [u \in UmiSet |-> {}]
  BY DEF InitProduct, Init
<1>2. /\ pc = "prepare" /\ step = 1 /\ held = {} /\ stuck = {} /\ initialized = {} /\ undone = TRUE
      /\ outcome = None /\ formalStart = Unset /\ aborted = FALSE /\ waited = FALSE /\ manifest = {} /\ status = None
      /\ stage = "capture" /\ capture = None /\ code = Unset
  BY DEF InitProduct, Init
<1>3. /\ seen = [d \in Devices |-> <<>>] /\ disk = [d \in Devices |-> <<>>]
      /\ error = [d \in Devices |-> FALSE]
      /\ stable = [u \in UmiSet |-> Unset] /\ stableSince = [u \in UmiSet |-> Unset]
      /\ errorStart = [u \in UmiSet |-> Unset] /\ errorEnd = [u \in UmiSet |-> Unset]
  BY DEF InitProduct, Init
<1>4. HardwareTypeOK
  <2>1. phase \in [Devices -> Nat]
    <3>1. PICK p \in [Used -> Phases] : phase = [d \in Devices |-> IF d \in Used THEN p[d] ELSE 0]
      BY <1>1
    <3>2. \A d \in Used : p[d] \in Nat
      BY Numbers
    <3> QED BY <3>1, <3>2
  <2>2. inFlight \in [Devices -> Seq(FrameSet)] /\ rsQueue \in [UmiSet -> Seq(FrameSet)]
    <3>1. <<>> \in Seq(FrameSet)
      OBVIOUS
    <3> QED BY <1>1, <3>1
  <2>3. /\ imuErrors \in [UmiSet -> Nat] /\ recorderLost \in [UmiSet -> BOOLEAN]
        /\ diskFailed \in [Devices -> BOOLEAN] /\ erredIn \in [UmiSet -> SUBSET Labels]
    BY <1>1
  <2> QED BY <1>1, <2>1, <2>2, <2>3 DEF HardwareTypeOK
<1>5. ControlTypeOK
  <2>1. step \in 1..Len(Calls)
    <3>1. Calls = Prepare
      BY <1>2 DEF Calls
    <3>2. Len(Prepare) = 1
      BY <1>1, ListsAre
    <3> QED BY <1>2, <3>1, <3>2
  <2>2. pc \in Parts /\ pc \notin Looping /\ outcome \in Outcomes /\ motion \in Results /\ status \in Results
    BY <1>1, <1>2 DEF Parts, Looping, Outcomes, Results
  <2> QED BY <1>2, <2>1, <2>2 DEF ControlTypeOK
<1>6. FrameTypeOK /\ DiskInv
  <2> DEFINE T == RowsOf(formalStart)
  <2> HIDE DEF T
  <2>1. <<>> \in Seq(T)
    OBVIOUS
  <2>2. seen \in [Devices -> Seq(T)] /\ disk \in [Devices -> Seq(T)] /\ error \in [Devices -> BOOLEAN]
    BY <1>3, <2>1
  <2>3. DiskInv
    BY <1>3 DEF DiskInv
  <2> QED BY <2>2, <2>3 DEF FrameTypeOK, T
<1>7. ImuTypeOK
  BY <1>3 DEF ImuTypeOK
<1>8. ProductTypeOK
  BY <1>2 DEF ProductTypeOK, Results
<1>9. HeldInv /\ RaiseInv /\ ManifestInv
  BY <1>1, <1>2 DEF HeldInv, RaiseInv, ManifestInv, Looping
<1>10. ImuInv
  <2>1. \A u \in Used : erredIn[u] = {}
    BY <1>1, DevicesAre
  <2> QED BY <1>2, <2>1 DEF ImuInv
<1>11. PassInv /\ ProductInv
  BY <1>2 DEF PassInv, ProductInv, None, Unset
<1> QED BY <1>4, <1>5, <1>6, <1>7, <1>8, <1>9, <1>10, <1>11 DEF IInv, TypeOK

(* A step that changes nothing keeps everything.                            *)
LEMMA StutterKeeps ==
    ASSUME IInv, UNCHANGED allVars
    PROVE  IInv'
<1>1. /\ UNCHANGED <<inputVars, hardware, raises, pc, step, deviceVars, outcome, formalStart, aborted, waited,
                     frameVars, error, imuVars, motion, status>>
      /\ UNCHANGED <<stage, capture, index, code>>
  BY DEF allVars, vars, productVars
<1>2. /\ HardwareTypeOK /\ ControlTypeOK /\ FrameTypeOK /\ ImuTypeOK /\ ProductTypeOK
      /\ HeldInv /\ RaiseInv /\ DiskInv /\ ManifestInv /\ ImuInv /\ PassInv /\ ProductInv
  BY DEF IInv, TypeOK
<1>3. /\ umis' = umis /\ Used' = Used /\ held' = held /\ stuck' = stuck /\ undone' = undone /\ manifest' = manifest
      /\ initialized' = initialized /\ Overlooked' = Overlooked
      /\ error' = error /\ recorderLost' = recorderLost /\ erredIn' = erredIn /\ imuErrors' = imuErrors
      /\ seen' = seen /\ disk' = disk /\ now' = now
      /\ stable' = stable /\ errorStart' = errorStart /\ errorEnd' = errorEnd
  BY <1>1, UsedStays DEF inputVars, deviceVars, hardware, frameVars, imuVars, Overlooked
<1>4. Calls' = Calls
  BY <1>1, <1>3 DEF Calls
<1>5. HardwareTypeOK' /\ FrameTypeOK' /\ DiskInv' /\ ImuTypeOK'
  <2>1. raises' \in Nat
    BY <1>1, <1>2 DEF HardwareTypeOK
  <2> QED BY <1>1, <1>2, <2>1, HardwareStays, FramesStay, ImuStays
<1>6. ControlTypeOK'
  BY <1>1, <1>2, <1>3, <1>4 DEF ControlTypeOK
<1>7. ProductTypeOK' /\ RaiseInv' /\ ManifestInv'
  BY <1>1, <1>2, <1>3 DEF ProductTypeOK, RaiseInv, ManifestInv
<1>8. HeldInv'
  <2>1. WriterCalls(umis)' = WriterCalls(umis) /\ DeviceCalls(umis)' = DeviceCalls(umis)
    BY <1>3 DEF WriterCalls, DeviceCalls
  <2> QED BY <1>1, <1>2, <1>3, <1>4, <2>1 DEF HeldInv
<1>9. ImuInv'
  BY <1>1, <1>2, <1>3 DEF ImuInv
<1>10. PassInv'
  <2>1. FormalSamples("ego")' = FormalSamples("ego")
    BY <1>1, <1>3 DEF FormalSamples, FormalEnd
  <2> QED BY <1>1, <1>2, <1>3, <2>1 DEF PassInv
<1>11. ProductInv'
  <2>1. Indexable' = Indexable /\ BuildIndex(IndexStreams)' = BuildIndex(IndexStreams)
    BY <1>1, <1>3, IndexStays
  <2>2. IsIndexed' = IsIndexed
    BY <1>1, <2>1 DEF IsIndexed
  <2> QED BY <1>1, <1>2, <2>2 DEF ProductInv
<1> QED BY <1>5, <1>6, <1>7, <1>8, <1>9, <1>10, <1>11 DEF IInv, TypeOK

(* Every step of the command keeps the invariant.                           *)
LEMMA NextKeeps ==
    ASSUME IInv, [Next]_allVars
    PROVE  IInv'
<1>1. CASE Capture
  <2>1. UNCHANGED productVars /\ Owner
    BY <1>1 DEF Capture
  <2> QED BY <2>1, SetUpKeeps, UndoWriterKeeps, TickKeeps, WarmPassKeeps, GuardPassKeeps, BeginFormalKeeps,
             FormalPassKeeps, EndFormalKeeps, PostrollPassKeeps, EndPostrollKeeps, CleanUpCallKeeps, ReportKeeps
          DEF Owner
<1>2. CASE CaptureIsReported
  BY <1>2, CaptureIsReportedKeeps
<1>3. CASE Index
  BY <1>3, IndexKeeps
<1>4. CASE Verify
  BY <1>4, VerifyKeeps
<1>5. CASE Terminated \/ UNCHANGED allVars
  BY <1>5, StutterKeeps DEF Terminated
<1> QED BY <1>1, <1>2, <1>3, <1>4, <1>5 DEF Next

(* So it always holds.                                                      *)
THEOREM Invariance == Spec => []IInv
<1>1. InitProduct => IInv
  BY InitHolds
<1>2. IInv /\ [Next]_allVars => IInv'
  BY NextKeeps
<1> QED BY <1>1, <1>2, PTL DEF Spec

(* The variables hold what they should in every run.                        *)
THEOREM TypesAreRight == Spec => []TypeOK
<1>1. IInv => TypeOK
  BY DEF IInv
<1> QED BY <1>1, Invariance, PTL

(* However run_pair ends, nothing it started is still running, but after an *)
(* error of the writers' set-up: then the except clause passed over the     *)
(* writer of a UMI whose thread could not be started, or raised itself.     *)
THEOREM NothingIsLeftRunning == Spec => []NothingLeftRunning
<1>1. IInv => NothingLeftRunning
  BY DEF IInv, HeldInv, NothingLeftRunning
<1> QED BY <1>1, Invariance, PTL

(* A capture that passes hides no raising call, no frame that is counted and *)
(* not on disk, no unsealed writer, no lost sample and no IMU transport      *)
(* error but where nobody looks.                                             *)
THEOREM PassesAreClean == Spec => []PassIsClean
<1>1. ASSUME IInv PROVE PassIsClean
  <2>1. SUFFICES ASSUME status = "PASS"
        PROVE  /\ outcome = None /\ (stage = "capture" => raises = 0)
               /\ \A d \in {"ego"} \cup Used : disk[d] = seen[d] /\ d \in manifest
               /\ \A u \in Used : ~recorderLost[u] /\ erredIn[u] \subseteq {"warm", "gap", "postroll"}
    BY DEF PassIsClean
  <2>2. {"ego"} \cup Used \subseteq Devices
    BY <1>1, DevicesAre DEF IInv, TypeOK, HardwareTypeOK
  <2> QED BY <1>1, <2>1, <2>2 DEF IInv, PassInv, DiskInv
<1> QED BY <1>1, Invariance, PTL

(* The index of two streams is a list, and the points of the grid ascend.   *)
LEMMA IndexIsAList ==
    ASSUME NEW a \in Streams, NEW b \in Streams
    PROVE  LET rows == BuildIndex(<<a, b>>)
           IN  /\ DOMAIN rows = 1..Len(rows) /\ Len(rows) \in Nat
               /\ \A i \in DOMAIN rows : rows[i].grid \in Int
               /\ \A i \in DOMAIN rows : i > 1 => i - 1 \in DOMAIN rows /\ rows[i - 1].grid <= rows[i].grid
<1> DEFINE streams == <<a, b>>
           start   == OverlapStart(streams)
           end     == OverlapEnd(streams)
           n       == ((end - start) \div GRID_NS) + 1
           rows    == BuildIndex(streams)
<1>1. CASE a = <<>> \/ b = <<>>
  <2>1. \E s \in DOMAIN streams : streams[s] = <<>>
    <3>1. DOMAIN streams = {1, 2} /\ streams[1] = a /\ streams[2] = b
      OBVIOUS
    <3> QED BY <1>1, <3>1
  <2>2. rows = <<>>
    BY <2>1 DEF BuildIndex
  <2> QED BY <2>2
<1>2. CASE a # <<>> /\ b # <<>>
  <2>1. start \in Int /\ end \in Int
    <3>1. /\ {streams[s][1] : s \in DOMAIN streams} = {a[1], b[1]}
          /\ {streams[s][Len(streams[s])] : s \in DOMAIN streams} = {a[Len(a)], b[Len(b)]}
      OBVIOUS
    <3>2. a[1] \in Int /\ b[1] \in Int /\ a[Len(a)] \in Int /\ b[Len(b)] \in Int
      BY <1>2 DEF Streams
    <3>3. Largest({a[1], b[1]}) \in Int /\ Smallest({a[Len(a)], b[Len(b)]}) \in Int
      BY <3>2, Extremes
    <3> QED BY <3>1, <3>3 DEF OverlapStart, OverlapEnd
  <2>2. ~\E s \in DOMAIN streams : streams[s] = <<>>
    <3>1. DOMAIN streams = {1, 2} /\ streams[1] = a /\ streams[2] = b
      OBVIOUS
    <3> QED BY <1>2, <3>1
  <2>3. rows = IF start > end THEN <<>> ELSE [i \in 1..n |-> Sample(streams, start + (i - 1) * GRID_NS)]
    BY <2>2 DEF BuildIndex
  <2>4. CASE start > end
    BY <2>3, <2>4
  <2>5. CASE ~(start > end)
    <3>1. n \in Nat
      <4>1. end - start \in Nat /\ GRID_NS \in Nat \ {0}
        BY <2>1, <2>5, SyncAssumption
      <4> QED BY <4>1
    <3> HIDE DEF start, end, n, rows
    <3>2. rows = [i \in 1..n |-> Sample(streams, start + (i - 1) * GRID_NS)]
      BY <2>3, <2>5
    <3>3. DOMAIN rows = 1..n /\ Len(rows) = n
      BY <3>1, <3>2
    <3>4. ASSUME NEW i \in 1..n PROVE rows[i].grid = start + (i - 1) * GRID_NS
      <4>1. rows[i] = Sample(streams, start + (i - 1) * GRID_NS)
        BY <3>2
      <4> DEFINE g == start + (i - 1) * GRID_NS
      <4> HIDE DEF g
      <4>2. Sample(streams, g).grid = g
        BY DEF Sample
      <4> QED BY <4>1, <4>2 DEF g
    <3>5. ASSUME NEW i \in 1..n PROVE (i - 1) * GRID_NS \in Int
      <4>1. i - 1 \in Int /\ GRID_NS \in Int
        BY <3>1, SyncAssumption
      <4> QED BY <4>1
    <3>6. ASSUME NEW i \in 1..n, i > 1 PROVE i - 1 \in 1..n /\ rows[i - 1].grid <= rows[i].grid
      <4>1. i - 1 \in 1..n
        BY <3>1, <3>6
      <4>2. rows[i - 1].grid = start + ((i - 1) - 1) * GRID_NS /\ rows[i].grid = start + (i - 1) * GRID_NS
        BY <3>4, <4>1
      <4>3. ((i - 1) - 1) * GRID_NS \in Int /\ (i - 1) * GRID_NS \in Int
        BY <3>5, <4>1
      <4>4. (i - 1) * GRID_NS = ((i - 1) - 1) * GRID_NS + GRID_NS
        <5>1. i \in Int /\ GRID_NS \in Int
          BY <3>1, SyncAssumption
        <5> QED BY <5>1
      <4>5. GRID_NS \in Nat
        BY SyncAssumption
      <4> QED BY <2>1, <4>1, <4>2, <4>3, <4>4, <4>5
    <3>7. \A i \in 1..n : rows[i].grid \in Int
      BY <2>1, <3>4, <3>5
    <3> QED BY <3>1, <3>3, <3>6, <3>7 DEF rows
  <2> QED BY <2>4, <2>5
<1> QED BY <1>1, <1>2

(* The candidates of an accepted file are in order, and from the formal     *)
(* start on.                                                                *)
LEMMA CandidatesAreFormal ==
    ASSUME NEW start, NEW rows \in Seq(RowsOf(start)), NEW taskStart, ~Refused(rows, taskStart)
    PROVE  LET times == Times(Candidates(rows, taskStart))
           IN  times \in Streams /\ \A i \in 1..Len(times) : times[i] >= start
<1> DEFINE T == RowsOf(start)
           places == {i \in DOMAIN rows : rows[i].formal /\ rows[i].timed /\ rows[i].at >= taskStart}
           r == Chosen(rows, places)
           times == Times(r)
<1>1. /\ r \in Seq(T) /\ PickedFrom(r, rows, places, Len(rows))
      /\ DOMAIN rows = 1..Len(rows) /\ Len(rows) \in Nat
  <2> HIDE DEF T, places
  <2> QED BY ChosenIsPicked DEF T
<1>2. ASSUME NEW p \in places
      PROVE  p \in 1..Len(rows) /\ rows[p].at \in Nat /\ rows[p].at >= start
  <2>1. rows[p] \in T /\ rows[p].formal /\ p \in 1..Len(rows)
    BY <1>1
  <2> QED BY <2>1 DEF RowsOf, RowSet
<1>3. \A p, q \in 1..Len(rows) : p < q => ~(rows[q].at < rows[p].at)
  BY <1>1 DEF Refused
<1>4. DOMAIN r = 1..Len(r) /\ Len(r) \in Nat
  BY <1>1
<1> HIDE DEF r, T, places
<1>5. ASSUME NEW i \in 1..Len(r), NEW j \in 1..Len(r), i <= j
      PROVE  r[i].at \in Nat /\ r[i].at >= start /\ r[j].at \in Nat /\ r[i].at <= r[j].at
  <2>1. PICK p, q \in 1..Len(rows) : p \in places /\ q \in places /\ p <= q /\ r[i] = rows[p] /\ r[j] = rows[q]
    BY <1>1, <1>5 DEF PickedFrom
  <2>2. rows[p].at \in Nat /\ rows[p].at >= start /\ rows[q].at \in Nat
    BY <1>2, <2>1
  <2>3. rows[p].at <= rows[q].at
    <3>1. CASE p = q
      BY <2>2, <3>1
    <3>2. CASE p # q
      <4>1. p < q
        BY <1>1, <2>1, <3>2
      <4> QED BY <1>3, <2>2, <4>1
    <3> QED BY <3>1, <3>2
  <2> QED BY <2>1, <2>2, <2>3
<1>6. times = [i \in 1..Len(r) |-> r[i].at]
  BY <1>4 DEF Times
<1>7. \A i \in 1..Len(r) : r[i].at \in Nat /\ r[i].at >= start
  <2>1. \A i \in 1..Len(r) : i <= i
    BY <1>4
  <2> QED BY <1>5, <2>1
<1> HIDE DEF times
<1>8. times \in Seq(Int) /\ Len(times) = Len(r)
  BY <1>4, <1>6, <1>7
<1>9. Ordered(times)
  BY <1>5, <1>6, <1>8 DEF Ordered
<1>10. \A i \in 1..Len(times) : times[i] >= start
  BY <1>6, <1>7, <1>8
<1> QED BY <1>8, <1>9, <1>10 DEF Candidates, times, r, places, Streams

(* A product run that ends BLOCKED, though nobody cancelled it and nothing  *)
(* was missing, follows a capture that passed and has an index of formal    *)
(* frames: nearest to its grid, in order, and trainable only within the     *)
(* hard limit.                                                              *)
THEOREM BlockedRunsAreIndexed == Spec => []BlockedIsIndexed
<1>1. ASSUME IInv PROVE BlockedIsIndexed
  <2>1. SUFFICES ASSUME stage = "end", code = 3, outcome \notin {"cancelled", "unavailable"}
        PROVE
        /\ status = "PASS" /\ \E i \in DOMAIN index : index[i].trainable
        /\ \A i \in DOMAIN index :
              LET row == index[i]
                  at(s) == IndexStreams[s][row.frames[s]]
              IN  /\ \A s \in {1, 2} : \A k \in DOMAIN IndexStreams[s] :
                         Distance(at(s), row.grid) <= Distance(IndexStreams[s][k], row.grid)
                  /\ \A s \in {1, 2} : at(s) >= formalStart
                  /\ row.trainable => Distance(at(1), at(2)) <= HARD_SPAN_NS
                  /\ i > 1 => \A s \in {1, 2} : row.frames[s] >= index[i - 1].frames[s]
    BY DEF BlockedIsIndexed
  <2>2. /\ status = "PASS" /\ Indexable /\ index = BuildIndex(IndexStreams)
        /\ \E i \in DOMAIN index : index[i].trainable
    BY <1>1, <2>1 DEF IInv, ProductInv, IsIndexed
  <2> DEFINE a == Times(Candidates(disk["ego"], TaskStart))
             b == Times(Candidates(disk[umis[1]], TaskStart))
  <2>3. IndexStreams = <<a, b>>
    BY DEF IndexStreams
  <2>4. /\ a \in Streams /\ \A k \in 1..Len(a) : a[k] >= formalStart
        /\ b \in Streams /\ \A k \in 1..Len(b) : b[k] >= formalStart
    <3>1. ASSUME NEW d \in {"ego", umis[1]}
          PROVE  LET times == Times(Candidates(disk[d], TaskStart))
                 IN  times \in Streams /\ \A k \in 1..Len(times) : times[k] >= formalStart
      <4>1. d \in Devices
        <5>1. /\ Len(umis) = 1 /\ umis \in UmiChoices /\ "ego" \in Devices /\ UmiSet \subseteq Devices
              /\ Used \subseteq UmiSet /\ Used = ToSet(umis)
          BY <1>1, <2>2, DevicesAre DEF Indexable, IInv, TypeOK, HardwareTypeOK
        <5>2. umis \in Seq(STRING)
          BY <5>1, OwnerAssumption
        <5>3. umis[1] \in ToSet(umis)
          BY <5>1, <5>2 DEF ToSet
        <5> QED BY <5>1, <5>3
      <4>2. disk[d] \in Seq(RowsOf(formalStart))
        BY <1>1, <4>1 DEF IInv, TypeOK, FrameTypeOK
      <4>3. ~Refused(disk[d], TaskStart)
        BY <2>2 DEF Indexable
      <4> QED BY <4>2, <4>3, CandidatesAreFormal
    <3> QED BY <3>1
  <2> HIDE DEF a, b
  <2>5. index = BuildIndex(<<a, b>>) /\ IndexStreams[1] = a /\ IndexStreams[2] = b
    BY <2>2, <2>3
  <2>6. ASSUME NEW i \in DOMAIN index
        PROVE  /\ a # <<>> /\ b # <<>>
               /\ index[i].frames[1] = NearestFrame(a, index[i].grid)
               /\ index[i].frames[2] = NearestFrame(b, index[i].grid)
               /\ index[i].trainable => Distance(a[index[i].frames[1]], b[index[i].frames[2]]) <= HARD_SPAN_NS
               /\ index[i].grid \in Int
    <3>1. i \in 1..Len(BuildIndex(<<a, b>>)) /\ index[i].grid \in Int
      BY <2>4, <2>5, IndexIsAList
    <3> QED BY <2>4, <2>5, <3>1, PairsAreNearest
  <2>7. ASSUME NEW i \in DOMAIN index, NEW s \in {1, 2}
        PROVE  /\ index[i].frames[s] \in 1..Len(IndexStreams[s])
               /\ \A k \in DOMAIN IndexStreams[s] :
                     Distance(IndexStreams[s][index[i].frames[s]], index[i].grid)
                        <= Distance(IndexStreams[s][k], index[i].grid)
               /\ IndexStreams[s][index[i].frames[s]] >= formalStart
    <3> DEFINE c == IndexStreams[s]
               f == index[i].frames[s]
               t == index[i].grid
    <3>1. c \in Streams /\ c # <<>> /\ f = NearestFrame(c, t) /\ t \in Int /\ \A k \in 1..Len(c) : c[k] >= formalStart
      <4>1. CASE s = 1
        BY <2>4, <2>5, <2>6, <4>1
      <4>2. CASE s = 2
        BY <2>4, <2>5, <2>6, <4>2
      <4> QED BY <4>1, <4>2
    <3> HIDE DEF c, f, t
    <3>2. /\ f \in 1..Len(c)
          /\ \A j \in 1..Len(c) : Distance(c[f], t) <= Distance(c[j], t)
      BY <3>1, FrameIsNearest
    <3>3. DOMAIN c = 1..Len(c)
      BY <3>1 DEF Streams
    <3> QED BY <3>1, <3>2, <3>3 DEF c, f, t
  <2>8. ASSUME NEW i \in DOMAIN index, i > 1, NEW s \in {1, 2}
        PROVE  index[i].frames[s] >= index[i - 1].frames[s]
    <3>1. /\ i - 1 \in DOMAIN index /\ index[i - 1].grid <= index[i].grid
          /\ index[i].grid \in Int /\ index[i - 1].grid \in Int
      BY <2>4, <2>5, <2>8, IndexIsAList
    <3>2. /\ index[i].frames[s] \in 1..Len(IndexStreams[s])
          /\ index[i - 1].frames[s] \in 1..Len(IndexStreams[s])
      BY <2>7, <3>1
    <3>3. index[i - 1].frames[s] <= index[i].frames[s]
      <4>1. CASE s = 1
        BY <2>4, <2>6, <3>1, <4>1, FramesNeverGoBack
      <4>2. CASE s = 2
        BY <2>4, <2>6, <3>1, <4>2, FramesNeverGoBack
      <4> QED BY <4>1, <4>2
    <3> QED BY <3>2, <3>3
  <2>9. \A i \in DOMAIN index :
           index[i].trainable =>
              Distance(IndexStreams[1][index[i].frames[1]], IndexStreams[2][index[i].frames[2]]) <= HARD_SPAN_NS
    BY <2>5, <2>6
  <2> QED BY <2>2, <2>7, <2>8, <2>9
<1> QED BY <1>1, Invariance, PTL

-----------------------------------------------------------------------------
(* The mapping of a camera's clock.                                         *)

\* Where the mapped time and its last step come from.
MappingInv ==
    /\ since \in Nat /\ latest.device \in Nat /\ latest.device <= since /\ updates \in Nat
    /\ rate \in -MAX_RATE..MAX_RATE /\ latest.rate \in -MAX_RATE..MAX_RATE
    /\ mapped = since - Correction(rate, since)
    /\ latest.mapped = latest.device - Correction(rate, since) + Correction(latest.rate, since - latest.device)

(* Smoothing two rates within the clamp stays within it.                    *)
LEMMA EstimateIsClamped ==
    ASSUME MappingConstants, MappingInv, NEW raw \in Fits
    PROVE  Estimate(raw) \in -MAX_RATE..MAX_RATE
<1> DEFINE c == Clamp(raw)
<1>1. MAX_RATE \in Nat /\ raw \in Int /\ rate \in Int /\ -MAX_RATE <= rate /\ rate <= MAX_RATE
  BY DEF MappingConstants, MappingInv
<1>2. c \in Int /\ -MAX_RATE <= c /\ c <= MAX_RATE
  BY <1>1 DEF Clamp
<1> HIDE DEF c
<1>3. CASE updates = 0
  BY <1>1, <1>2, <1>3 DEF Estimate, c
<1>4. CASE updates # 0
  <2>1. Estimate(raw) = (SMOOTH * c + (10 - SMOOTH) * rate) \div 10
    BY <1>4 DEF Estimate, c
  <2>2. SMOOTH \in {1, 2, 3, 4, 5, 6, 7, 8, 9, 10}
    BY DEF MappingConstants
  <2>3. LET x == SMOOTH * c + (10 - SMOOTH) * rate
        IN  x \in Int /\ -(10 * MAX_RATE) <= x /\ x <= 10 * MAX_RATE
    BY <1>1, <1>2, <2>2
  <2> QED BY <1>1, <2>1, <2>3
<1> QED BY <1>3, <1>4

(* Correction is an integer, and the quotient is off by less than one.      *)
LEMMA CorrectionIsQuotient ==
    ASSUME MappingConstants, NEW r \in Int, NEW t \in Int
    PROVE  /\ r * t \in Int /\ Correction(r, t) \in Int
           /\ SCALE * Correction(r, t) <= r * t
           /\ r * t < SCALE * Correction(r, t) + SCALE
<1>1. SCALE \in Nat \ {0} /\ r * t \in Int
  BY DEF MappingConstants
<1> DEFINE x == r * t
<1> HIDE DEF x
<1>2. x \in Int => x \div SCALE \in Int /\ SCALE * (x \div SCALE) <= x /\ x < SCALE * (x \div SCALE) + SCALE
  BY <1>1
<1> QED BY <1>1, <1>2 DEF Correction, x

(* Every frame is mapped by the present rate.                               *)
LEMMA MappingCorrect == ASSUME MappingConstants PROVE MappingSpec => []MappingInv
<1>1. InitMapping => MappingInv
  BY DEF MappingConstants, InitMapping, MappingInv, Correction
<1>2. MappingInv /\ [Frame]_mapping => MappingInv'
  <2> SUFFICES ASSUME MappingInv, [Frame]_mapping PROVE MappingInv'
    OBVIOUS
  <2>1. CASE Frame
    <3>1. PICK d \in Intervals :
             /\ since' = since + d
             /\ (\E raw \in Fits : rate' = Estimate(raw) /\ updates' = updates + 1) \/ UNCHANGED <<rate, updates>>
             /\ mapped' = since' - Correction(rate', since')
             /\ latest' = [device |-> d, mapped |-> mapped' - mapped, rate |-> rate]
      BY <2>1 DEF Frame
    <3>2. d \in Nat /\ since \in Nat /\ since' \in Nat /\ updates' \in Nat
      BY <3>1 DEF MappingConstants, MappingInv
    <3>3. rate \in -MAX_RATE..MAX_RATE /\ rate' \in -MAX_RATE..MAX_RATE
      BY <3>1, EstimateIsClamped DEF MappingInv
    <3>4. /\ latest'.device = d /\ latest'.rate = rate /\ latest'.mapped = mapped' - mapped
          /\ mapped = since - Correction(rate, since)
      BY <3>1 DEF MappingInv
    <3>5. Correction(rate, since) \in Int /\ Correction(rate', since') \in Int
      <4>1. rate \in Int /\ rate' \in Int
        BY <3>3 DEF MappingConstants
      <4> QED BY <3>2, <4>1, CorrectionIsQuotient
    <3>6. since' - latest'.device = since
      BY <3>1, <3>2, <3>4
    <3>7. latest'.mapped = latest'.device - Correction(rate', since') + Correction(latest'.rate, since' - latest'.device)
      BY <3>1, <3>2, <3>4, <3>5, <3>6
    <3> QED BY <3>1, <3>2, <3>3, <3>4, <3>7 DEF MappingInv, Correction
  <2>2. CASE UNCHANGED mapping
    BY <2>2 DEF mapping, MappingInv, Correction
  <2> QED BY <2>1, <2>2
<1> QED BY <1>1, <1>2, PTL DEF MappingSpec

(* The rate stays within the clamp.                                         *)
THEOREM Clamped == ASSUME MappingConstants PROVE MappingSpec => []RateIsClamped
<1>1. MappingInv => RateIsClamped
  BY DEF MappingInv, RateIsClamped
<1> QED BY <1>1, MappingCorrect, PTL

(* The difference of the two corrections is the frame's share and the shift.*)
LEMMA StepIsShareAndShift ==
    ASSUME MappingConstants, MappingInv
    PROVE  LET new == Correction(rate, since)
               old == Correction(latest.rate, since - latest.device)
               moved == (SCALE * new - SCALE * old) - (rate * latest.device + Shift)
           IN  /\ new \in Int /\ old \in Int /\ moved \in Int
               /\ -SCALE < moved /\ moved < SCALE
               /\ rate * latest.device \in Int /\ Shift \in Int
<1> DEFINE d == latest.device
           p == since - d
           r == latest.rate
           new == Correction(rate, since)
           old == Correction(r, p)
<1>1. d \in Nat /\ since \in Nat /\ p \in Nat /\ rate \in Int /\ r \in Int /\ SCALE \in Nat
  BY DEF MappingInv, MappingConstants
<1>2. /\ rate * since \in Int /\ new \in Int
      /\ SCALE * new <= rate * since /\ rate * since < SCALE * new + SCALE
  <2>1. since \in Int
    BY <1>1
  <2> QED BY <1>1, <2>1, CorrectionIsQuotient, Zenon
<1>3. /\ r * p \in Int /\ old \in Int
      /\ SCALE * old <= r * p /\ r * p < SCALE * old + SCALE
  <2>1. p \in Int
    BY <1>1
  <2> QED BY <1>1, <2>1, CorrectionIsQuotient, Zenon
<1>4. rate * since = rate * d + rate * p /\ (rate - r) * p = rate * p - r * p
  <2>1. since = d + p
    BY <1>1
  <2> HIDE DEF p, d, r
  <2>2. rate * (d + p) = rate * d + rate * p
    BY <1>1
  <2>3. (rate - r) * p = rate * p - r * p
    BY <1>1
  <2> QED BY <2>1, <2>2, <2>3
<1>5. rate * d \in Int /\ rate * p \in Int /\ SCALE * new \in Int /\ SCALE * old \in Int
  BY <1>1, <1>2, <1>3
<1>6. Shift = rate * p - r * p
  BY <1>4 DEF Shift
<1> HIDE DEF new, old, p, r, d
<1>7. LET moved == (SCALE * new - SCALE * old) - (rate * d + Shift)
      IN  moved \in Int /\ -SCALE < moved /\ moved < SCALE /\ Shift \in Int
  BY <1>1, <1>2, <1>3, <1>4, <1>5, <1>6
<1> QED BY <1>2, <1>3, <1>5, <1>7 DEF new, old, p, r, d

(* While the rate stays, mapped time goes on like the device's.             *)
THEOREM Continuous == ASSUME MappingConstants PROVE MappingSpec => []SteadyIsContinuous
<1>1. ASSUME MappingInv, rate = latest.rate
      PROVE  LET moved == SCALE * (latest.mapped - latest.device)
             IN  -(MAX_RATE * latest.device) - SCALE <= moved /\ moved <= MAX_RATE * latest.device + SCALE
  <2> DEFINE d == latest.device
             new == Correction(rate, since)
             old == Correction(latest.rate, since - latest.device)
             share == rate * d
  <2>1. /\ new \in Int /\ old \in Int /\ share \in Int
        /\ -SCALE < (SCALE * new - SCALE * old) - (share + Shift)
        /\ (SCALE * new - SCALE * old) - (share + Shift) < SCALE
    BY <1>1, StepIsShareAndShift
  <2>2. d \in Nat /\ SCALE \in Nat /\ MAX_RATE \in Nat /\ rate \in Int /\ since - d \in Int
    BY <1>1 DEF MappingInv, MappingConstants
  <2>3. Shift = 0
    BY <1>1, <2>2 DEF Shift
  <2>4. -(MAX_RATE * d) <= share /\ share <= MAX_RATE * d /\ MAX_RATE * d \in Int
    <3>1. -MAX_RATE <= rate /\ rate <= MAX_RATE
      BY <1>1 DEF MappingInv, MappingConstants
    <3>2. (MAX_RATE - rate) * d \in Nat /\ (MAX_RATE + rate) * d \in Nat
      BY <3>1, <2>2
    <3>3. /\ (MAX_RATE - rate) * d = MAX_RATE * d - rate * d
          /\ (MAX_RATE + rate) * d = MAX_RATE * d + rate * d
          /\ MAX_RATE * d \in Int
      BY <2>2
    <3> QED BY <3>2, <3>3, <2>1
  <2>5. latest.mapped = d - new + old
    BY <1>1 DEF MappingInv
  <2> HIDE DEF new, old, share, d
  <2>6. SCALE * (latest.mapped - d) = -(SCALE * new - SCALE * old)
    BY <2>1, <2>2, <2>5
  <2>7. SCALE * new \in Int /\ SCALE * old \in Int
    BY <2>1, <2>2
  <2>8. -(MAX_RATE * d) - SCALE <= SCALE * (latest.mapped - d) /\ SCALE * (latest.mapped - d) <= MAX_RATE * d + SCALE
    BY <2>1, <2>2, <2>3, <2>4, <2>6, <2>7
  <2> QED BY <2>8 DEF d
<1>2. MappingInv => SteadyIsContinuous
  BY <1>1 DEF SteadyIsContinuous
<1> QED BY <1>2, MappingCorrect, PTL

(* A new rate keeps the order if it moves the past by little enough, and    *)
(* loses it if it moves it by more.                                         *)
THEOREM OrderDependsOnShift == ASSUME MappingConstants PROVE MappingSpec => [](OrderIsKept /\ OrderIsLost)
<1>1. ASSUME MappingInv PROVE OrderIsKept /\ OrderIsLost
  <2> DEFINE d == latest.device
             new == Correction(rate, since)
             old == Correction(latest.rate, since - latest.device)
             share == rate * d
  <2>1. /\ new \in Int /\ old \in Int /\ share \in Int /\ Shift \in Int
        /\ -SCALE < (SCALE * new - SCALE * old) - (share + Shift)
        /\ (SCALE * new - SCALE * old) - (share + Shift) < SCALE
    BY <1>1, StepIsShareAndShift
  <2>2. d \in Nat /\ SCALE \in Nat \ {0} /\ rate \in Int
    BY <1>1 DEF MappingInv, MappingConstants
  <2>3. (SCALE - rate) * d = SCALE * d - share
    BY <2>2
  <2>4. latest.mapped = d - new + old
    BY <1>1 DEF MappingInv
  <2> HIDE DEF new, old, share, d
  <2>5. /\ latest.mapped \in Int
        /\ SCALE * latest.mapped = SCALE * d - (SCALE * new - SCALE * old)
        /\ {SCALE * d, SCALE * new, SCALE * old, SCALE * latest.mapped} \subseteq Int
    BY <2>1, <2>2, <2>4
  <2>6. Shift <= (SCALE - rate) * d => SCALE * latest.mapped > -SCALE
    BY <2>1, <2>2, <2>3, <2>5
  <2>7. Shift > (SCALE - rate) * d + SCALE => SCALE * latest.mapped < 0
    BY <2>1, <2>2, <2>3, <2>5
  <2>8. (SCALE * latest.mapped > -SCALE => latest.mapped >= 0) /\ (SCALE * latest.mapped < 0 => latest.mapped < 0)
    BY <2>2, <2>5
  <2> QED BY <2>6, <2>7, <2>8 DEF OrderIsKept, OrderIsLost, d
<1> QED BY <1>1, MappingCorrect, PTL

===============================================================================
