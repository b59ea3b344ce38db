----------------------------- MODULE SampleClock -----------------------------
(***************************************************************************)
(* The clocks of an external IMU (devices/d405_umi): how the reader turns  *)
(* the device's sample counter and the time a sample was received into the *)
(* time it publishes (imu_reader.py, timing.py), and how it unwraps the    *)
(* 32-bit microseconds of the microcontroller that stamps the IMU and the  *)
(* encoder (stream_protocol.py).                                           *)
(*                                                                         *)
(* Nothing is assumed of the counter: it may restart, stall or jump.  Nor  *)
(* of the receiving time: the phase a fit finds, the median of the window, *)
(* is any of Phases.  Times are integers; the code's are floats.           *)
(***************************************************************************)
EXTENDS Integers

CONSTANTS
    DeviceCounters,  \* values of the device's counter
    Times,       \* host times of reception
    Phases,      \* what a fit may find (OnlineCounterFitter._b)
    PERIOD,      \* 1 / nominal_rate_hz
    STARTUP,     \* min(window_size, 500)
    UINT32,      \* the microcontroller's timer wraps here
    MaxGap       \* bound: microseconds between two stamps of the timer

\* The reader's parameters.  A line that is silent for less than half the
\* timer's range, 35 minutes, is all the unwrapping needs.
ClockConstants ==
    /\ DeviceCounters \subseteq Nat /\ Times \subseteq Int /\ Phases \subseteq Int
    /\ PERIOD \in Nat \ {0} /\ STARTUP \in Nat
    /\ UINT32 \in Nat \ {0} /\ MaxGap \in Nat /\ 2 * MaxGap < UINT32

VARIABLES
    counted, counter,    \* last_counter is not None, last_counter
    clock,               \* _clock_counter
    anchored, out,       \* the fitter has an output, its last one
    fitted, phase,       \* the fitter has a fit, its _b
    total,               \* _total_count
    register, elapsed,   \* the microcontroller's timer, and what it would be without a wrap
    timer,               \* TimerUnwrapper
    origin               \* what it would be when the unwrapping counts from 0

reception == <<counted, counter, clock, anchored, out, fitted, phase, total>>
stamps == <<register, elapsed, timer, origin>>
clockVars == <<reception, stamps>>

NoStamp == -1
NewTimer == [previous |-> NoStamp, epoch |-> 0]

InitClock ==
    /\ counted = FALSE /\ counter = 0 /\ clock = 0
    /\ anchored = FALSE /\ out = 0 /\ fitted = FALSE /\ phase = 0 /\ total = 0
    /\ register \in 0..UINT32 - 1 /\ elapsed = register
    /\ timer = NewTimer /\ origin = 0

\* A small forward step of the counter is a loss of packets and keeps its
\* length; anything else is one sample.
ClockStep(c) == IF counted /\ c - counter \in 1..8 THEN c - counter ELSE 1

Limit(x, most) == IF x < -most THEN -most ELSE IF x > most THEN most ELSE x
Far(x) == x > 2 * PERIOD \/ x < -(2 * PERIOD)

\* How much of the phase error one sample may take.
MaxCorrection(error, n) ==
    IF n <= STARTUP \/ Far(error) THEN (9 * PERIOD) \div 10 ELSE PERIOD \div 200

\* OnlineCounterFitter.feed for a clock that has gone on by step.
Base(step) == out + PERIOD * step
Predicted == PERIOD * clock' + phase'
Output(step, received) ==
    IF ~anchored THEN received
    ELSE IF ~fitted' THEN Base(step)
    ELSE Base(step) + Limit(Predicted - Base(step), MaxCorrection(Predicted - Base(step), total + 1))

\* A sample is received; the fitter may have fitted its window anew.
Sample ==
    \E c \in DeviceCounters, received \in Times :
        /\ counted' = TRUE /\ counter' = c
        /\ clock' = clock + ClockStep(c)
        /\ total' = total + 1
        /\ \/ fitted' = TRUE /\ phase' \in Phases
           \/ UNCHANGED <<fitted, phase>>
        /\ anchored' = TRUE
        /\ out' = Output(ClockStep(c), received)
        /\ UNCHANGED stamps

\* The register after d more microseconds.
Advanced(r, d) == IF r + d < UINT32 THEN r + d ELSE r + d - UINT32

\* TimerUnwrapper.extend, whose result is epoch + previous afterwards.
Extended(t, value) ==
    [previous |-> value,
     epoch    |-> IF t.previous # NoStamp /\ value < t.previous /\ t.previous - value > UINT32 \div 2
                  THEN t.epoch + UINT32 ELSE t.epoch]

\* A stamp of a packet reaches the reader: the first byte of the IMU's, or the
\* reading of the encoder, which share the timer.
Stamp ==
    \E d \in 0..MaxGap :
        /\ register' = Advanced(register, d)
        /\ elapsed' = elapsed + d
        /\ timer' = Extended(timer, register')
        /\ origin' = IF timer.previous # NoStamp THEN origin ELSE elapsed' - register'
    /\ UNCHANGED reception

\* The port is opened again: the fitter and the timer start anew, the counters
\* go on.
Reopened ==
    /\ anchored' = FALSE /\ out' = 0 /\ fitted' = FALSE /\ phase' = 0 /\ total' = 0
    /\ timer' = NewTimer
    /\ UNCHANGED <<counted, counter, clock, register, elapsed, origin>>

NextClock == Sample \/ Stamp \/ Reopened

ClockSpec == InitClock /\ [][NextClock]_clockVars

-----------------------------------------------------------------------------
\* Between two reconnections the published time goes on by at least a tenth
\* of a period and by less than nine periods with every sample, whatever
\* counter and line do ("without ever stepping backwards", OnlineCounterFitter.feed).
TimesAdvance ==
    [][Sample /\ anchored =>
          /\ 10 * (out' - out) >= PERIOD
          /\ out' - out < 9 * PERIOD]_clockVars

\* The published time moves towards the fitted line and does not overshoot it.
TimesApproach ==
    [][Sample /\ anchored /\ fitted' =>
          \E step \in 1..8 :
             /\ clock' = clock + step
             /\ \/ Base(step) <= out' /\ out' <= Predicted
                \/ Predicted <= out' /\ out' <= Base(step)]_clockVars

\* Since it was started the unwrapped time has gone on by what really passed:
\* stamps of the IMU and of the encoder are at their true distance, across
\* wraps and lost packets too (TimerUnwrapper.extend).
UnwrappedIsExact == timer.previous # NoStamp => timer.epoch + timer.previous = elapsed - origin
=============================================================================
