------------------------------ MODULE SyncIndex ------------------------------
(***************************************************************************)
(* The common-clock index of synchronization/sync_index.py and the rows of  *)
(* build_index.py it is built from, as operators on timestamps.  A stream   *)
(* is the sequence of the acquisition times of its frames; a frame is named *)
(* by its place in it.  build_pairs and build_triplets are one algorithm    *)
(* for two and for three streams, and so they are here.                     *)
(***************************************************************************)
EXTENDS Integers, Sequences, FiniteSets

CONSTANTS
    GRID_NS,            \* distance of two samples of the grid
    TARGET_SPAN_NS,     \* spread of a sample within the target
    HARD_SPAN_NS        \* largest spread of a trainable sample

ASSUME SyncAssumption ==
    /\ GRID_NS \in Nat \ {0} /\ TARGET_SPAN_NS \in Nat /\ HARD_SPAN_NS \in Nat
    /\ TARGET_SPAN_NS <= HARD_SPAN_NS

Distance(a, b) == IF a <= b THEN b - a ELSE a - b

\* What _validate_stream demands of the timestamps.
Ordered(times) == \A i, j \in 1..Len(times) : i <= j => times[i] <= times[j]

\* bisect_left: how many timestamps come before t.
bisect_left(times, t) ==
    CHOOSE p \in 0..Len(times) : /\ \A i \in 1..p : times[i] < t
                                 /\ \A i \in p + 1..Len(times) : t <= times[i]

\* Mutants: plausible bugs in the operations below; no specification uses them.
NearestTimeAfter(times, t) ==
    LET p == bisect_left(times, t)
    IN  IF p < Len(times) THEN times[p + 1] ELSE times[Len(times)]

\* The timestamp _nearest_frame selects: of two at one distance the earlier.
NearestTime(times, t) ==
    LET p == bisect_left(times, t)
    IN  IF p < Len(times) /\ times[p + 1] = t THEN t
        ELSE IF p = 0 THEN times[1]
        ELSE IF p = Len(times) THEN times[p]
        ELSE IF t - times[p] <= times[p + 1] - t THEN times[p] ELSE times[p + 1]

\* The frame: of several with that timestamp the first.
NearestFrame(times, t) == bisect_left(times, NearestTime(times, t)) + 1

Classify(span) ==
    IF span <= TARGET_SPAN_NS THEN "within_target"
    ELSE IF span <= HARD_SPAN_NS THEN "within_hard_limit" ELSE "span_over_hard_limit"

Trainable(reason) == reason # "span_over_hard_limit"

Largest(S)  == CHOOSE x \in S : \A y \in S : y <= x
Smallest(S) == CHOOSE x \in S : \A y \in S : x <= y

OverlapStart(streams) == Largest({streams[s][1] : s \in DOMAIN streams})
OverlapEnd(streams)   == Smallest({streams[s][Len(streams[s])] : s \in DOMAIN streams})

\* One sample: a frame of every stream, and how far apart they are.
Sample(streams, grid) ==
    LET selected == [s \in DOMAIN streams |-> NearestFrame(streams[s], grid)]
        times    == {streams[s][selected[s]] : s \in DOMAIN streams}
        span     == Largest(times) - Smallest(times)
    IN  [grid |-> grid, frames |-> selected, span |-> span, reason |-> Classify(span),
         trainable |-> Trainable(Classify(span))]

\* build_pairs, build_triplets.
BuildIndex(streams) ==
    IF \E s \in DOMAIN streams : streams[s] = <<>> THEN <<>>
    ELSE LET start == OverlapStart(streams)
             end   == OverlapEnd(streams)
         IN  IF start > end THEN <<>>
             ELSE [k \in 1..((end - start) \div GRID_NS) + 1 |->
                      Sample(streams, start + (k - 1) * GRID_NS)]

-----------------------------------------------------------------------------
(* _parse_append_only_rows on rows with a sequence number, an acquisition  *)
(* time, and whether they are formal and timed.                             *)

\* The elements of a sequence at some of its places, in order.
Chosen(s, places) ==
    LET chosen[i \in 0..Len(s)] ==
            IF i = 0 THEN <<>> ELSE IF i \in places THEN Append(chosen[i - 1], s[i]) ELSE chosen[i - 1]
    IN  chosen[Len(s)]

\* A row of an unverified clock, one that goes back, or a repeated number
\* among the candidates is refused, wherever in the file it is.
Refused(rows, taskStart) ==
    LET candidate(r) == r.formal /\ r.timed /\ r.at >= taskStart
    IN  \/ \E i \in DOMAIN rows : ~rows[i].timed
        \/ \E i, j \in DOMAIN rows : i < j /\ rows[j].at < rows[i].at
        \/ \E i, j \in DOMAIN rows :
               i # j /\ candidate(rows[i]) /\ candidate(rows[j]) /\ rows[i].n = rows[j].n

\* The frames the index may choose from.
Candidates(rows, taskStart) ==
    Chosen(rows, {i \in DOMAIN rows : rows[i].formal /\ rows[i].timed /\ rows[i].at >= taskStart})

Times(rows) == [i \in DOMAIN rows |-> rows[i].at]

=============================================================================
