-------------------------- MODULE SystemDiagnosis --------------------------
(***************************************************************************)
(* system_health and system_diagnose: what they read of the machine, what  *)
(* they make of a read that fails, and what they conclude.  The first      *)
(* fails with its first failed read; the second goes on without it, reads  *)
(* more dimensions, each under a budget, and takes two samples of memory.  *)
(*                                                                         *)
(* Findings are a set: their order is by score and then by subject.        *)
(***************************************************************************)
EXTENDS FindingScores, FiniteSets

CONSTANTS
    GroupReadings,    \* what application_groups may return
    DriveReadings,    \* list_drives
    ThermalReadings,  \* the temperature and the clock behind thermal_snapshot
    DeviceReadings,   \* disk_health
    BatteryReadings,  \* the health of the battery
    WifiReadings,     \* wifi_status
    MemoryReadings    \* resource_snapshot

\* A reading that may be missing.
AtMostOne(reading) == reading \subseteq Nat /\ \A m, n \in reading : m = n

\* The root of a drive names it; a group does not: applications may share a
\* display name.
ASSUME ReadingsAssumption ==
    /\ \A groups \in GroupReadings : \A g \in groups :
         AtMostOne(g.cpu) /\ g.own \in Nat /\ g.tree \in Nat
    /\ \A drives \in DriveReadings :
         /\ \A d \in drives : AtMostOne(d.free) /\ AtMostOne(d.total)
         /\ \A c, d \in drives : c.root = d.root => c = d
    /\ \A battery \in BatteryReadings : AtMostOne(battery)
    /\ \A wifi \in WifiReadings : \A w \in wifi : AtMostOne(w.signal)
    /\ \A s \in MemoryReadings :
         AtMostOne(s.load) /\ AtMostOne(s.available) /\ AtMostOne(s.total)

VARIABLES
    dtool,    \* the tool that runs
    dstep,    \* its next step
    data,     \* the evidence collected, a dimension at a time
    failed,   \* history: the dimensions whose read failed
    verdict   \* what the tool answers

diagnosisVars == <<dtool, dstep, data, failed, verdict>>

\* Evidence before anything was read.  A thermal reading, a snapshot and a
\* battery are sets of at most one element.
NoData ==
    [groups |-> {}, drives |-> {}, thermal |-> {}, devices |-> {},
     battery |-> {}, wifi |-> {}, first |-> {}, second |-> {}]

NoVerdict == [kind |-> "none"]

DiagnosisIdle ==
    /\ dtool = "none"
    /\ dstep = "idle"
    /\ data = NoData
    /\ failed = {}
    /\ verdict = NoVerdict

-----------------------------------------------------------------------------
(* Conclusions: pure functions of the evidence *)

Finding(signal, category, subject, score) ==
    [signal |-> signal, category |-> category, subject |-> subject,
     score |-> score, severity |-> ScoreBands(score)]

KnownSize(drive) == drive.free # {} /\ drive.total # {}

\* build_health_report.  A drive whose free space is known and low, but not its
\* size, is scored as full.
HealthIssues(groups, drives, snapshot) ==
    (UNION {{Finding("high_cpu", "app_cpu", g.name, AppCpuScore(c)) :
               c \in g.cpu} : g \in {h \in groups : HighCpu(h)}})
    \cup {Finding("high_memory", "app_memory", g.name,
                  GroupMemoryScore(g, snapshot.total)) :
             g \in {h \in groups : HighMemory(h)}}
    \cup (UNION {{Finding("low_disk_space", "storage", d.root,
                          IF d.total \ {0} = {} THEN 100
                          ELSE Highest({StorageScore(f, t) : t \in d.total})) :
                     f \in {x \in d.free : x <= LowDiskFreeBytes}} : d \in drives})
    \cup {Finding("memory_pressure", "memory_pressure", "memory",
                  MemoryPressureScore(l, snapshot.available, snapshot.total)) :
             l \in {x \in snapshot.load : x >= HighMemoryLoadPercent}}

\* system_signals_and_findings, a dimension at a time.
StorageFindings(drives) ==
    UNION {{Finding("storage_pressure", "storage", d.root,
                    IF t = 0 THEN 0 ELSE StorageScore(f, t)) :
              f \in {x \in d.free : x <= LowDiskFreeBytes}, t \in d.total} :
             d \in drives}

MemoryFindings(load, available, total) ==
    {Finding("memory_pressure", "memory_pressure", "memory",
             MemoryPressureScore(l, available, total)) :
        l \in {x \in load : x >= HighMemoryLoadPercent}}

GroupFindings(groups, total) ==
    {Finding("app_high_cpu", "app_cpu", g.name, AppCpuScore(Highest(g.cpu))) :
        g \in {h \in groups : HighCpu(h)}}
    \cup {Finding("app_high_memory", "app_memory", g.name,
                  GroupMemoryScore(g, total)) :
             g \in {h \in groups : HighMemory(h)}}

GrowthFindings(growth) ==
    {Finding("memory_growth", "memory_growth", "system memory",
             MemoryGrowthScore(r)) :
        r \in {x \in growth : x > 0 /\ x >= MemoryGrowthThreshold}}

ThermalFindings(thermal) ==
    {f \in {Finding("cpu_thermal_pressure", "thermal", "cpu_package",
                    ThermalPressureScore(t.pressure)) : t \in thermal}
          \cup {Finding("cpu_frequency_reduced", "frequency", "cpu_package",
                    FrequencyReductionScore(t.throttling, t.reduced)) :
                  t \in thermal} : f.score > 0}

DeviceFindings(devices) ==
    {f \in {Finding("storage_health", "storage_health", d.device,
                    StorageHealthScore(d.status, d.used)) : d \in devices} :
       f.score > 0}

BatteryFindings(battery) ==
    {f \in {Finding("battery_degraded", "battery", "battery",
                    BatteryHealthScore(h)) : h \in UNION battery} : f.score > 0}

WifiFindings(wifi) ==
    {f \in UNION {{Finding("wifi_weak_signal", "wifi", w.adapter,
                           WifiSignalScore(s)) : s \in w.signal} : w \in wifi} :
       f.score > 0}

\* What a later sample says, or an earlier one where it says nothing.
Preferred(field, evidence) ==
    LET of(samples) == UNION {s[field] : s \in samples}
    IN  IF of(evidence.second) # {} THEN of(evidence.second)
        ELSE of(evidence.first)

\* The fall of available memory over the second between the samples, when both have
\* it.  The code divides by the time that really passed, the reads included; here it
\* is the second that the tool sleeps.
Growth(e) ==
    {a - b : a \in UNION {s.available : s \in e.first},
             b \in UNION {s.available : s \in e.second}}

SystemFindings(e) ==
    StorageFindings({d \in e.drives : KnownSize(d)})
    \cup MemoryFindings(Preferred("load", e), Preferred("available", e),
                        Preferred("total", e))
    \cup GroupFindings(e.groups, Preferred("total", e))
    \cup GrowthFindings(Growth(e))
    \cup ThermalFindings(e.thermal)
    \cup DeviceFindings(e.devices)
    \cup BatteryFindings(e.battery)
    \cup WifiFindings(e.wifi)

Signals(findings) == {f.signal : f \in findings}

\* Mutant: the two findings of a thermal reading are given the same cause.
SupportingSignalConfused(category) ==
    CASE category = "storage"        -> "storage_pressure"
      [] category = "app_cpu"        -> "app_high_cpu"
      [] category = "app_memory"     -> "app_high_memory"
      [] category \in {"thermal", "frequency"} -> "cpu_thermal_pressure"
      [] category = "battery"        -> "battery_degraded"
      [] category = "wifi"           -> "wifi_weak_signal"
      [] category \in {"memory_pressure", "storage_health"} -> category
      [] OTHER                       -> "memory_growth"

\* finding_as_possible_cause: the signal a finding of the category rests on.
SupportingSignal(category) ==
    CASE category = "storage"        -> "storage_pressure"
      [] category = "app_cpu"        -> "app_high_cpu"
      [] category = "app_memory"     -> "app_high_memory"
      [] category = "thermal"        -> "cpu_thermal_pressure"
      [] category = "frequency"      -> "cpu_frequency_reduced"
      [] category = "battery"        -> "battery_degraded"
      [] category = "wifi"           -> "wifi_weak_signal"
      [] category \in {"memory_pressure", "storage_health"} -> category
      [] OTHER                       -> "memory_growth"

\* checked_clean: a dimension with evidence, and without a signal.
CheckedClean(e, signals) ==
    LET clean == [
          storage      |-> {d \in e.drives : KnownSize(d)} # {}
                             /\ "storage_pressure" \notin signals,
          memory       |-> Preferred("load", e) # {}
                             /\ "memory_pressure" \notin signals,
          applications |-> e.groups # {}
                             /\ signals \cap {"app_high_cpu", "app_high_memory"} = {},
          growth       |-> Growth(e) # {} /\ "memory_growth" \notin signals,
          thermal      |-> e.thermal # {}
                             /\ signals \cap {"cpu_thermal_pressure",
                                              "cpu_frequency_reduced"} = {},
          devices      |-> e.devices # {} /\ "storage_health" \notin signals,
          battery      |-> UNION e.battery # {}
                             /\ "battery_degraded" \notin signals,
          wifi         |-> e.wifi # {} /\ "wifi_weak_signal" \notin signals]
    IN  {dimension \in DOMAIN clean : clean[dimension]}

\* analyze_system
AnalyzeSystem(e) ==
    LET findings == SystemFindings(e)
    IN  [kind |-> "diagnosis", findings |-> findings,
         clean |-> CheckedClean(e, Signals(findings)),
         causes |-> {SupportingSignal(f.category) : f \in findings},
         completeness |-> IF Preferred("load", e) = {} \/ e.groups = {}
                          THEN "limited" ELSE "full"]

-----------------------------------------------------------------------------
(* system_health *)

StartHealth ==
    /\ dstep = "idle"
    /\ dtool' = "system_health"
    /\ dstep' = "health"
    /\ UNCHANGED <<data, failed, verdict>>

\* One job on a worker thread reads the three dimensions.
CollectHealth ==
    /\ dstep = "health"
    /\ dstep' = "answered"
    /\ UNCHANGED dtool
    /\ \/ /\ \E g \in GroupReadings, d \in DriveReadings, s \in MemoryReadings :
                /\ data' = [data EXCEPT !.groups = g, !.drives = d,
                                        !.second = {s}]
                /\ verdict' = [kind |-> "health",
                               findings |-> HealthIssues(g, d, s)]
          /\ UNCHANGED failed
       \/ /\ failed' = {"health"}
          /\ verdict' = [kind |-> "error"]
          /\ UNCHANGED data

-----------------------------------------------------------------------------
(* system_diagnose *)

StartDiagnose ==
    /\ dstep = "idle"
    /\ dtool' = "system_diagnose"
    /\ dstep' = "groups"
    /\ UNCHANGED <<data, failed, verdict>>

\* A dimension is read, or its read fails or exceeds its budget and leaves it
\* empty.
Collect(dimension, here, next, readings) ==
    /\ dstep = here
    /\ dstep' = next
    /\ UNCHANGED <<dtool, verdict>>
    /\ \/ /\ \E r \in readings : data' = [data EXCEPT ![dimension] = r]
          /\ UNCHANGED failed
       \/ /\ failed' = failed \cup {dimension}
          /\ UNCHANGED data

CollectGroups == Collect("groups", "groups", "drives", GroupReadings)
CollectDrives == Collect("drives", "drives", "thermal", DriveReadings)

CollectThermal ==
    Collect("thermal", "thermal", "devices",
            {{ThermalState(t.temperature, t.reduced)} : t \in ThermalReadings})

CollectDevices == Collect("devices", "devices", "battery", DeviceReadings)

CollectBattery ==
    Collect("battery", "battery", "wifi", {{b} : b \in BatteryReadings})

CollectWifi == Collect("wifi", "wifi", "first", WifiReadings)

\* The two samples of memory; the tool sleeps in between, and the machine moves.
TakeFirst == Collect("first", "first", "second", {{s} : s \in MemoryReadings})
TakeSecond == Collect("second", "second", "analyze", {{s} : s \in MemoryReadings})

\* The detail level is looked at only now.
ConcludeDiagnosis ==
    /\ dstep = "analyze"
    /\ dstep' = "answered"
    /\ verdict' \in {AnalyzeSystem(data), [kind |-> "error"]}
    /\ UNCHANGED <<dtool, data, failed>>

DiagnosisTaken ==
    /\ dstep = "answered"
    /\ dtool' = "none"
    /\ dstep' = "idle"
    /\ data' = NoData
    /\ failed' = {}
    /\ verdict' = NoVerdict

DiagnosisNext ==
    StartHealth \/ CollectHealth \/ StartDiagnose \/ CollectGroups
        \/ CollectDrives \/ CollectThermal \/ CollectDevices \/ CollectBattery
        \/ CollectWifi \/ TakeFirst \/ TakeSecond \/ ConcludeDiagnosis
        \/ DiagnosisTaken

-----------------------------------------------------------------------------

DiagnosisTypeOK ==
    /\ dtool \in {"none", "system_health", "system_diagnose"}
    /\ dstep \in {"idle", "health", "groups", "drives", "thermal", "devices",
                  "battery", "wifi", "first", "second", "analyze", "answered"}
    /\ data.groups \in GroupReadings \cup {{}}
    /\ data.drives \in DriveReadings \cup {{}}
    /\ Cardinality(data.thermal) <= 1
    /\ data.devices \in DeviceReadings \cup {{}}
    /\ data.wifi \in WifiReadings \cup {{}}
    /\ data.first \in {{}} \cup {{s} : s \in MemoryReadings}
    /\ data.second \in {{}} \cup {{s} : s \in MemoryReadings}
    /\ failed \subseteq DOMAIN NoData \cup {"health"}
    /\ verdict.kind \in {"none", "health", "diagnosis", "error"}
    /\ verdict.kind \in {"health", "diagnosis"} =>
         \A f \in verdict.findings : f.score \in Score

\* What a finding says, whichever tool it comes from.
Judged(findings, categories) ==
    {[category |-> f.category, subject |-> f.subject, score |-> f.score,
      severity |-> f.severity] :
        f \in {g \in findings : g.category \in categories}}

SharedCategories == {"app_cpu", "app_memory", "storage", "memory_pressure"}

\* Drives whose size is known and is not zero: on the others the tools differ.
Measurable(drives) == {d \in drives : KnownSize(d) /\ 0 \notin d.total}

\* What a finding is about, among the dimensions that may be called clean.
Concern(category) ==
    CASE category \in {"app_cpu", "app_memory"} -> "applications"
      [] category \in {"thermal", "frequency"}  -> "thermal"
      [] category = "memory_pressure" -> "memory"
      [] category = "memory_growth"   -> "growth"
      [] category = "storage_health"  -> "devices"
      [] OTHER                        -> category

\* A dimension that is called clean was read, whatever subset of the reads failed,
\* and nothing was found in it; every cause that is named rests on a signal that
\* was seen (`checked_clean`, `finding_as_possible_cause`); the evidence is told as
\* full only if the groups and one sample of the memory were read, whatever became of
\* the other dimensions (`analyze_system`; docs/security.md:86-87 and
\* docs/diagnostics.md:199-201 say that any of them makes it limited); and memory is
\* more than a low finding only of an application that is heavy itself, not just in its
\* descendants.
EvidenceBacked ==
    verdict.kind = "diagnosis" =>
        /\ verdict.clean \cap failed = {}
        /\ "storage" \in verdict.clean => "drives" \notin failed
        /\ "applications" \in verdict.clean => "groups" \notin failed
        /\ "memory" \in verdict.clean => ~{"first", "second"} \subseteq failed
        /\ "growth" \in verdict.clean => failed \cap {"first", "second"} = {}
        /\ \A f \in verdict.findings : Concern(f.category) \notin verdict.clean
        /\ verdict.causes \subseteq Signals(verdict.findings)
        /\ verdict.completeness = "full" =>
              "groups" \notin failed /\ ~{"first", "second"} \subseteq failed
        /\ \A f \in verdict.findings :
              f.category = "app_memory" /\ f.severity # "low" =>
                 \E g \in data.groups : g.name = f.subject /\ g.own >= HighMemoryBytes

\* On the same evidence the two tools answer the same: system_diagnose finds of
\* groups, memory and drives of a known size exactly what system_health would
\* make an issue of, with the same score and severity, though each computes them
\* in a place of its own (`build_health_report`, `system_signals_and_findings`).
SameVerdict ==
    verdict.kind = "diagnosis" =>
        LET snapshot == [load |-> Preferred("load", data),
                         available |-> Preferred("available", data),
                         total |-> Preferred("total", data)]
            drives == Measurable(data.drives)
            of(f) == f.category = "storage" => \E d \in drives : f.subject = d.root
        IN  Judged({f \in verdict.findings : of(f)}, SharedCategories)
              = Judged(HealthIssues(data.groups, drives, snapshot),
                       SharedCategories)

\* No verdict rests on what was not read, nor calls clean what a read that failed was
\* about, though only the groups and the memory make it limited (analyze_system,
\* checked_clean); and where system_health and system_diagnose
\* judge the same readings they judge them alike (build_health_report).
DiagnosisSound == DiagnosisTypeOK /\ EvidenceBacked /\ SameVerdict
=============================================================================
