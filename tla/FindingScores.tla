--------------------------- MODULE FindingScores ---------------------------
(***************************************************************************)
(* The scores of findings: pure functions of a reading and a threshold,    *)
(* shared by system_health and system_diagnose.  Readings are whole        *)
(* numbers; where the code computes in floating point and then casts to    *)
(* u8, the score is the whole part.  A reading that may be missing is a    *)
(* set of at most one element.                                             *)
(***************************************************************************)
EXTENDS Integers

CONSTANTS
    HighCpuPercent, HighMemoryBytes, LowDiskFreeBytes, HighMemoryLoadPercent,
    MemoryGrowthThreshold, StorageUsedWarning, LowBatteryHealth, WeakWifiSignal,
    HighCpuTempC, ThrottleCpuTempC

ASSUME ThresholdsAssumption ==
    /\ {HighCpuPercent, HighMemoryBytes, LowDiskFreeBytes, HighMemoryLoadPercent,
        MemoryGrowthThreshold, StorageUsedWarning, LowBatteryHealth,
        WeakWifiSignal} \subseteq Nat
    /\ HighMemoryLoadPercent <= 100

Score == 0..100

AtMost(n, bound) == IF n < bound THEN n ELSE bound
AtLeast(n, bound) == IF n > bound THEN n ELSE bound

Highest(numbers) == CHOOSE n \in numbers : \A m \in numbers : m <= n

ScoreBands(score) ==
    CASE score >= 90 -> "critical"
      [] score \in 70..89 -> "high"
      [] score \in 50..69 -> "medium"
      [] score < 50 -> "low"

\* The score of a share of a total: that of the narrowest band it falls in, a
\* band being a percentage and a score.
BandScore(share, total, bands) ==
    Highest({0} \cup {b[2] : b \in {c \in bands : 100 * share <= c[1] * total}})

\* Of the free space of a drive.
StorageScore(free, total) ==
    BandScore(free, total, {<<1, 100>>, <<5, 95>>, <<10, 80>>, <<20, 60>>})

\* The square root ramp from the threshold to 100 percent load.
LoadRamp(load) ==
    LET span == 100 - HighMemoryLoadPercent
        over == AtMost(AtLeast(load - HighMemoryLoadPercent, 0), span)
    IN  IF span = 0 THEN 100
        ELSE Highest({s \in Score : s * s * span <= 10000 * over})

\* What little memory is available scores by itself, if both are known.
AvailabilityScore(available, total) ==
    Highest({0} \cup
            {BandScore(a, t, {<<5, 90>>, <<10, 80>>, <<15, 60>>, <<20, 40>>}) :
                a \in available, t \in total \ {0}})

MemoryPressureScore(load, available, total) ==
    AtLeast(LoadRamp(load), AvailabilityScore(available, total))

AppCpuScore(cpu) == AtMost(cpu, 100)

\* Against a quarter of the memory or the threshold, whichever is larger.
AppMemoryScore(bytes, total) ==
    LET denominator == Highest({HighMemoryBytes} \cup {t \div 4 : t \in total})
    IN  IF denominator = 0 THEN 100
        ELSE AtMost((100 * bytes) \div denominator, 100)

MemoryGrowthScore(rate) ==
    IF MemoryGrowthThreshold = 0 THEN 100
    ELSE AtMost((100 * rate) \div (2 * MemoryGrowthThreshold), 100)

ThermalPressureScore(pressure) ==
    CASE pressure = "high" -> 90 [] pressure = "elevated" -> 60 [] OTHER -> 0

FrequencyReductionScore(throttling, reduced) ==
    IF throttling = "likely" THEN 85 ELSE IF TRUE \in reduced THEN 70 ELSE 0

StorageHealthScore(status, used) ==
    IF "critical" \in status THEN 95
    ELSE IF "warning" \in status THEN 70
    ELSE IF \E u \in used : u >= StorageUsedWarning THEN 60 ELSE 0

\* Linear from nothing at the threshold to 100 at zero.
Shortfall(value, threshold) ==
    IF threshold = 0 THEN 100
    ELSE (100 * (threshold - AtMost(value, threshold))) \div threshold

BatteryHealthScore(health) == Shortfall(health, LowBatteryHealth)

WifiSignalScore(signal) == Shortfall(signal, WeakWifiSignal)

\* classify_application_group: a group is its own working set, that of its tree,
\* and its share of the CPU if it was sampled.
HighCpu(g) == \E c \in g.cpu : c >= HighCpuPercent
HighMemory(g) == g.tree >= HighMemoryBytes
HighMemoryTreeOnly(g) == HighMemory(g) /\ g.own < HighMemoryBytes

\* A tree that is large only in its descendants is scored by its own processes
\* and kept below the medium band.
GroupMemoryScore(g, total) ==
    IF HighMemoryTreeOnly(g)
    THEN AtMost(AppMemoryScore(g.own, total), 49)
    ELSE AppMemoryScore(g.tree, total)

\* thermal_snapshot: the state interpreted from the highest CPU temperature, if a
\* sensor gave one, and from whether the clock is well below its base.
ThermalState(temperature, reduced) ==
    LET hot(limit) == \E t \in temperature : t >= limit
    IN  [pressure |->
           IF temperature = {} THEN "unknown"
           ELSE IF hot(ThrottleCpuTempC) THEN "high"
           ELSE IF hot(HighCpuTempC) THEN "elevated" ELSE "low",
         throttling |->
           IF hot(ThrottleCpuTempC) \/ TRUE \in reduced THEN "likely"
           ELSE IF temperature = {} THEN "unknown" ELSE "not_observed",
         reduced |-> reduced]
=============================================================================
