---------------------------- MODULE TrendSampler ----------------------------
(***************************************************************************)
(* system_health_trend: one metric sampled at absolute times over a window *)
(* and classified.  A measurement may take long, fail, or yield nothing; a *)
(* sleep may end late.                                                     *)
(*                                                                         *)
(* Time is in ticks of TREND_MIN_MS.                                       *)
(***************************************************************************)
EXTENDS Integers, Sequences, FiniteSets, Functions

CONSTANTS
    MaxWindow,       \* trends.max_window_ms
    MaxSamples,      \* trends.max_samples
    TrendArgs,       \* the window, interval and sample count asked for
    TrendValues,     \* what a metric may read
    MaxMeasure,      \* bound: the longest measurement
    MaxOversleep     \* bound: how late a sleep may end

TrendMin == 1

ASSUME WindowAssumption == MaxWindow \in Nat
ASSUME SamplesAssumption == MaxSamples \in Nat
ASSUME ArgsAssumption ==
    TrendArgs \subseteq [window : Nat, interval : Nat, samples : Nat]
ASSUME ValuesAssumption == TrendValues \subseteq Nat
ASSUME MeasureAssumption == MaxMeasure \in Nat /\ MaxOversleep \in Nat

VARIABLES
    metric,     \* "port" or a level
    params,     \* the resolved window, interval and sample count
    index,      \* the sample that is next
    clock,      \* time since the start
    starts,     \* when each measurement started; only the properties read it
    points,     \* the samples: when and what
    remarks,    \* the limitations reported
    sstep,      \* where the loop is
    trend       \* the classification

trendVars == <<metric, params, index, clock, starts, points, remarks, sstep, trend>>

Clamp(n, low, high) == IF n < low THEN low ELSE IF n > high THEN high ELSE n

Larger(m, n) == IF m > n THEN m ELSE n
Smaller(m, n) == IF m < n THEN m ELSE n

\* resolve_trend_params
Resolve(args) ==
    LET window == Clamp(args.window, TrendMin, Larger(MaxWindow, TrendMin))
        interval == Clamp(args.interval, TrendMin, window)
        budget == Larger(window \div interval, 1) + 1
    IN  [window |-> window, interval |-> interval,
         samples |-> Smaller(Clamp(args.samples, 2, Larger(MaxSamples, 2)),
                             budget)]

Target(i) == i * params.interval

-----------------------------------------------------------------------------

Total(values) == FoldFunction(LAMBDA a, b : a + b, 0, values)

Spread(values) ==
    CHOOSE d \in {m - n : m, n \in Range(values)} :
        \A m, n \in Range(values) : m - n <= d

Magnitude(n) == IF n < 0 THEN -n ELSE n

\* classify_trend.  Ratios to the mean are multiplied out by the number of values
\* and by their total, which is zero only if all of them are.
ClassifyTrend(values) ==
    LET n == Len(values)
        direction == values[n] - values[1]
        monotonic == \A i \in 1..(n - 1) :
                        LET d == values[i + 1] - values[i]
                        IN  d # 0 => (d >= 0) = (direction >= 0)
    IN  IF n < 2 THEN "inconclusive"
        ELSE IF monotonic /\ direction # 0
                /\ 20 * n * Magnitude(direction) >= Total(values)
        THEN "sustained"
        ELSE IF Total(values) = 0 \/ 10 * n * Spread(values) < Total(values)
        THEN "flat" ELSE "noisy"

ClassifyPortSeries(values) ==
    IF \A i \in DOMAIN values : values[i] >= 1 THEN "sustained"
    ELSE IF \A i \in DOMAIN values : values[i] = 0 THEN "flat"
    ELSE "intermittent"

-----------------------------------------------------------------------------

NoParams == [window |-> 0, interval |-> 0, samples |-> 0]

TrendIdle ==
    /\ metric = "none"
    /\ params = NoParams
    /\ index = 0
    /\ clock = 0
    /\ starts = <<>>
    /\ points = <<>>
    /\ remarks = {}
    /\ sstep = "idle"
    /\ trend = "none"

StartTrend ==
    /\ sstep = "idle"
    /\ metric' \in {"port", "level"}
    /\ \E args \in TrendArgs :
          /\ params' = Resolve(args)
          /\ remarks' = IF Resolve(args) = args THEN {} ELSE {"clamped"}
    /\ sstep' = "begin"
    /\ UNCHANGED <<index, clock, starts, points, trend>>

ConcludeTrend ==
    LET values == [i \in DOMAIN points |-> points[i].value]
    IN  /\ trend' = IF metric = "port" THEN ClassifyPortSeries(values)
                    ELSE ClassifyTrend(values)
        /\ sstep' = "answered"

CutOff == remarks' = remarks \cup {"deadline"}

\* Mutant: only the check after a measurement looks at the deadline.
NeverOverdue == FALSE

\* The deadline keeps a sample from starting only if its target lies before it.
Overdue == clock >= params.window /\ Target(index) < params.window

LeftBehind ==
    /\ sstep = "begin"
    /\ Overdue
    /\ CutOff
    /\ ConcludeTrend
    /\ UNCHANGED <<metric, params, index, clock, starts, points>>

Readings == IF metric = "port" THEN {0, 1} ELSE TrendValues

\* A measurement runs to its end, whatever the deadline.
Measure ==
    /\ sstep = "begin"
    /\ ~Overdue
    /\ \E t \in 0..MaxMeasure : clock' = clock + t
    /\ starts' = Append(starts, clock)
    /\ \/ /\ \E v \in Readings :
                points' = Append(points, [at |-> clock', value |-> v,
                                          sample |-> index])
          /\ UNCHANGED remarks
       \/ /\ remarks' = remarks \cup {"no value"}
          /\ UNCHANGED points
    /\ sstep' = "measured"
    /\ UNCHANGED <<metric, params, index, trend>>

AllTaken ==
    /\ sstep = "measured"
    /\ index + 1 >= params.samples
    /\ ConcludeTrend
    /\ UNCHANGED <<metric, params, index, clock, starts, points, remarks>>

TimeIsUp ==
    /\ sstep = "measured"
    /\ index + 1 < params.samples
    /\ clock >= params.window
    /\ CutOff
    /\ ConcludeTrend
    /\ UNCHANGED <<metric, params, index, clock, starts, points>>

\* The next target has passed: the next sample is taken at once.
Overrun ==
    /\ sstep = "measured"
    /\ index + 1 < params.samples
    /\ clock < params.window
    /\ clock >= Target(index + 1)
    /\ remarks' = remarks \cup {"overrun"}
    /\ index' = index + 1
    /\ sstep' = "begin"
    /\ UNCHANGED <<metric, params, clock, starts, points, trend>>

\* Otherwise the loop sleeps to the next target.  A target beyond the deadline
\* would end it there, but no count of samples reaches so far (TargetsInWindow).
SleepToTarget ==
    /\ sstep = "measured"
    /\ index + 1 < params.samples
    /\ clock < params.window
    /\ clock < Target(index + 1)
    /\ \E late \in 0..MaxOversleep : clock' = Target(index + 1) + late
    /\ index' = index + 1
    /\ sstep' = "begin"
    /\ UNCHANGED <<metric, params, starts, points, remarks, trend>>

TrendTaken ==
    /\ sstep = "answered"
    /\ metric' = "none"
    /\ params' = NoParams
    /\ index' = 0
    /\ clock' = 0
    /\ starts' = <<>>
    /\ points' = <<>>
    /\ remarks' = {}
    /\ sstep' = "idle"
    /\ trend' = "none"

TrendNext ==
    StartTrend \/ LeftBehind \/ Measure \/ AllTaken \/ TimeIsUp \/ Overrun
        \/ SleepToTarget \/ TrendTaken

-----------------------------------------------------------------------------

TrendTypeOK ==
    /\ metric \in {"none", "port", "level"}
    /\ params \in [window : Nat, interval : Nat, samples : Nat]
    /\ index \in Nat
    /\ clock \in 0..(Larger(MaxWindow, TrendMin) + MaxOversleep + MaxMeasure)
    /\ starts \in Seq(Nat)
    /\ points \in Seq([at : Nat, value : TrendValues \cup {0, 1}, sample : Nat])
    /\ remarks \subseteq {"clamped", "deadline", "overrun", "no value"}
    /\ sstep \in {"idle", "begin", "measured", "answered"}
    /\ trend \in {"none", "sustained", "flat", "noisy", "intermittent",
                  "inconclusive"}

TargetsInWindow ==
    sstep # "idle" => \A i \in 0..(params.samples - 1) : Target(i) <= params.window

\* No measurement starts before its scheduled time.  None starts at or after the end
\* of the window but the one scheduled for the very end, and that one no later than a
\* sleep may end late.  A delay is not passed on: a start is behind its schedule by
\* what the sleep before it added, or as long as the measurement before it took.
StartedInTime ==
    \A i \in DOMAIN starts :
        /\ starts[i] >= Target(i - 1)
        /\ starts[i] < params.window \/ Target(i - 1) = params.window
        /\ starts[i] <= params.window + MaxOversleep
        /\ i > 1 => starts[i] <= Larger(Target(i - 1) + MaxOversleep,
                                       starts[i - 1] + MaxMeasure)

\* A value is never dated before its scheduled time, and samples keep their order.
OnSchedule ==
    \A i \in DOMAIN points :
        /\ points[i].at >= Target(points[i].sample)
        /\ i > 1 => points[i - 1].at <= points[i].at
                      /\ points[i - 1].sample < points[i].sample

\* What is missing is said: samples that were not taken, and measurements that
\* brought nothing.
GapsReported ==
    sstep = "answered" =>
        /\ index + 1 < params.samples => "deadline" \in remarks
        /\ Len(points) < index + 1
             => remarks \cap {"no value", "deadline"} # {}
        /\ trend \in {"sustained", "flat", "noisy"} /\ metric = "level"
             => Len(points) >= 2

\* Whatever the measurements take and however late the sleeps end, each measurement
\* starts on the absolute schedule or as late as the one before it made it, no
\* measurement starts at or after the end of the window except the one that is due at
\* the end of it, and every gap in the series is a limitation of the answer
\* (`collect_trend_samples`, `resolve_trend_params`).
TrendHonest ==
    /\ TrendTypeOK
    /\ TargetsInWindow
    /\ StartedInTime
    /\ OnSchedule
    /\ GapsReported
=============================================================================
