---------------------------- MODULE ClockMapping ----------------------------
(***************************************************************************)
(* One device's clock mapping (synchronization/clock_mapping.py): from the *)
(* times a camera gives its frames to the host's monotonic time, by an     *)
(* intercept fixed at the start and a rate error that is fitted anew every *)
(* now and then over a window of frames.                                   *)
(*                                                                         *)
(* The correction is the rate times the time since the anchor, so a new    *)
(* rate also moves the time that has passed already.                       *)
(*                                                                         *)
(* What a window's fit gives is any of Fits.  Rates are integers in parts  *)
(* of SCALE, the smoothing is SMOOTH / 10, quotients are rounded down; the *)
(* intercept, a constant, is left out.                                     *)
(***************************************************************************)
EXTENDS Integers

CONSTANTS
    Fits,        \* what _fit_rate_ppm may return
    Intervals,   \* device time between two frames
    MAX_RATE,    \* max_rate_ppm
    SMOOTH,      \* smoothing, in tenths
    SCALE        \* a million

\* What __init__ checks, and a clamp below the scale.
MappingConstants ==
    /\ Fits \subseteq Int /\ Intervals \subseteq Nat
    /\ MAX_RATE \in Nat \ {0} /\ SCALE \in Nat /\ MAX_RATE < SCALE
    /\ SMOOTH \in 1..10

VARIABLES
    since,      \* device time since the anchor
    rate,       \* _rate_ppm
    updates,    \* _updates
    mapped,     \* mapped time of the last frame since the anchor's
    latest      \* of the last frame: device and mapped time since the one before, and the rate then

mapping == <<since, rate, updates, mapped, latest>>

InitMapping ==
    /\ since = 0 /\ rate = 0 /\ updates = 0 /\ mapped = 0
    /\ latest = [device |-> 0, mapped |-> 0, rate |-> 0]

Clamp(r) == IF r < -MAX_RATE THEN -MAX_RATE ELSE IF r > MAX_RATE THEN MAX_RATE ELSE r

\* The first estimate is taken as it is, the later ones are smoothed.
Estimate(raw) ==
    IF updates = 0 THEN Clamp(raw) ELSE (SMOOTH * Clamp(raw) + (10 - SMOOTH) * rate) \div 10

Correction(r, t) == (r * t) \div SCALE

\* add_sample, which may fit anew, then map_acquisition_ns.
Frame ==
    \E d \in Intervals :
        /\ since' = since + d
        /\ \/ \E raw \in Fits : rate' = Estimate(raw) /\ updates' = updates + 1
           \/ UNCHANGED <<rate, updates>>
        /\ mapped' = since' - Correction(rate', since')
        /\ latest' = [device |-> d, mapped |-> mapped' - mapped, rate |-> rate]

MappingSpec == InitMapping /\ [][Frame]_mapping

-----------------------------------------------------------------------------
\* The rate stays within the clamp, smoothed or not.
RateIsClamped == rate \in -MAX_RATE..MAX_RATE

\* The time a new rate moves: its difference times what passed before.
Shift == (rate - latest.rate) * (since - latest.device)

\* While the rate stays, the mapping is continuous: mapped time goes on like
\* the device's, off by the clamp at most.
SteadyIsContinuous ==
    rate = latest.rate =>
        LET error == SCALE * (latest.mapped - latest.device)
        IN  -(MAX_RATE * latest.device) - SCALE <= error /\ error <= MAX_RATE * latest.device + SCALE

\* Mapped times are in order, as the index requires, as long as a new rate
\* moves the past by less than the frame's own share; a fit that changes by
\* ten parts in a million outweighs a frame of 33 ms after an hour.
OrderIsKept == Shift <= (SCALE - rate) * latest.device => latest.mapped >= 0

\* And a new rate that moves the past by more does put the frame before its
\* predecessor: the condition cannot be weakened but for the rounding.
OrderIsLost == Shift > (SCALE - rate) * latest.device + SCALE => latest.mapped < 0
=============================================================================
