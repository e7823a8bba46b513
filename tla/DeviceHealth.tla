---------------------------- MODULE DeviceHealth ----------------------------
(***************************************************************************)
(* disk_health, battery_status and power_status: reports put together from *)
(* several sources, each of which may fail by itself, of a machine that is *)
(* plugged in and out meanwhile.                                           *)
(*                                                                         *)
(* A value that may be missing is a set of at most one element.  Serial    *)
(* numbers, firmware and other identities are left out.                    *)
(***************************************************************************)
EXTENDS Integers, FiniteSets

CONSTANTS
    DiskLists,     \* what Win32_DiskDrive may list: sets of [device, nvme, number]
    StackReadings, \* MSFT_PhysicalDisk: sets of [number, status]
    SmartLogs,     \* NVMe health logs: [warnings, used, spare, threshold]
    Percentages,   \* charges the battery may report
    Capacities     \* what a capacity of the battery may read as

VARIABLES
    devtool,   \* the tool that runs
    devstep,   \* its next step
    plugged,   \* the machine: on AC
    replugged, \* history: it was plugged in or out during the call
    disks,     \* disk_health: disks still to be read
    stackSays, \* what the storage stack said of them
    devices,   \* and what the report says so far
    handle,    \* a drive is open
    raw,       \* GetSystemPowerStatus, the one the report is made of
    battery,   \* what is known of the battery
    without,   \* readings that are unavailable
    devsaid    \* what the tool answers

deviceVars == <<devtool, devstep, plugged, replugged, disks, stackSays, devices, handle,
                raw, battery, without, devsaid>>
diskVars == <<disks, stackSays, devices, handle>>
powerVars == <<raw, battery>>

NoRaw == {}
NoBattery == [present |-> FALSE, health |-> {}, source |-> "unknown"]
NoReport == [kind |-> "none"]
DeviceTools == {"disk_health", "battery_status", "power_status"}

DevicesIdle ==
    /\ devtool = "none" /\ devstep = "idle"
    /\ plugged \in BOOLEAN /\ replugged = FALSE
    /\ disks = {} /\ stackSays = {} /\ devices = {} /\ handle = FALSE
    /\ raw = NoRaw /\ battery = NoBattery /\ without = {}
    /\ devsaid = NoReport

Statuses == {"healthy", "warning", "critical"}
DeviceTypeOK ==
    /\ devtool \in DeviceTools \cup {"none"}
    /\ devstep \in {"idle", "list", "stack", "open", "log", "raw", "batteries", "wmi",
                    "rawAgain", "answer", "answered"}
    /\ plugged \in BOOLEAN /\ replugged \in BOOLEAN /\ handle \in BOOLEAN
    /\ disks \subseteq UNION DiskLists
    /\ \A d \in devices : d.status \in SUBSET Statuses /\ d.smart \in BOOLEAN
    /\ Cardinality(raw) <= 1 /\ Cardinality(battery.health) <= 1

\* The plug is not WinKit's: it moves between two reads of one call.
Replug ==
    /\ devstep # "idle" /\ ~replugged
    /\ plugged' = ~plugged
    /\ replugged' = TRUE
    /\ UNCHANGED <<devtool, devstep, diskVars, powerVars, without, devsaid>>

StartDevices ==
    \E tool \in DeviceTools :
        /\ devstep = "idle"
        /\ devtool' = tool
        /\ devstep' = IF tool = "disk_health" THEN "list" ELSE "raw"
        /\ UNCHANGED <<plugged, replugged, diskVars, powerVars, without, devsaid>>

------------------------------------------------------------------------------
(* disk_health *)

DiskReport(status, completeness) ==
    [kind |-> "disks", status |-> status, completeness |-> completeness]

\* Sensors that are switched off, and a list that cannot be read, end the report.
NoDiskList ==
    /\ devstep = "list"
    /\ \E why \in {"all", "storage"} : without' = {why}
    /\ devsaid' = DiskReport("unavailable", "limited")
    /\ devstep' = "answered"
    /\ UNCHANGED <<devtool, plugged, replugged, diskVars, powerVars>>

ListDisks ==
    /\ devstep = "list"
    /\ disks' \in DiskLists
    /\ devstep' = "stack"
    /\ UNCHANGED <<devtool, plugged, replugged, stackSays, devices, handle, powerVars,
                   without, devsaid>>

\* A storage stack that fails is one that knows of no disk.
ReadStack ==
    /\ devstep = "stack"
    /\ \/ stackSays' \in StackReadings /\ UNCHANGED without
       \/ stackSays' = {} /\ without' = {"storage_stack"}
    /\ devstep' = "open"
    /\ UNCHANGED <<devtool, plugged, replugged, disks, devices, handle, powerVars, devsaid>>

\* health_status_from: any warning of the drive is critical; wear and little spare
\* are a warning.
SmartStatus(log) ==
    IF log.warnings # {} THEN "critical"
    ELSE IF log.used >= 80 \/ log.spare <= log.threshold THEN "warning"
    ELSE "healthy"

\* push_storage_or_unavailable: what the stack says of the disk with that number, if
\* it says anything WinKit knows.
StackStatus(disk) ==
    UNION {s.status \cap Statuses : s \in {t \in stackSays : t.number \in disk.number}}
FromStack(disk) == [device |-> disk.device, status |-> StackStatus(disk), smart |-> FALSE]

Unknowable(disk) == IF StackStatus(disk) = {} THEN {disk.device} ELSE {}

\* A disk of another kind is reported from the stack.
ReportOther ==
    /\ devstep = "open"
    /\ \E disk \in disks :
          /\ ~disk.nvme
          /\ disks' = disks \ {disk}
          /\ devices' = devices \cup {FromStack(disk)}
          /\ without' = without \cup Unknowable(disk)
    /\ UNCHANGED <<devtool, devstep, plugged, replugged, stackSays, handle, powerVars,
                   devsaid>>

\* nvme_health_log: the drive is opened for less and less, and at last for nothing;
\* a query needs no access.
OpenDrive ==
    /\ devstep = "open"
    /\ \E disk \in disks : disk.nvme
    /\ handle' = TRUE
    /\ devstep' = "log"
    /\ UNCHANGED <<devtool, plugged, replugged, disks, stackSays, devices, powerVars, without,
                   devsaid>>

\* nvme_health: the log of the drive, which is closed before what it told is used.  The
\* drives are read one at a time, here in any order.
ReadSmartLog ==
    /\ devstep = "log"
    /\ \E disk \in disks, log \in SmartLogs :
          /\ disk.nvme
          /\ disks' = disks \ {disk}
          /\ devices' = devices \cup
               {[device |-> disk.device, status |-> {SmartStatus(log)}, smart |-> TRUE]}
    /\ handle' = FALSE
    /\ devstep' = "open"
    /\ UNCHANGED <<devtool, plugged, replugged, stackSays, powerVars, without, devsaid>>

\* The drive cannot be opened at all, or the query fails; the stack stands in.
NoLog ==
    /\ devstep \in {"open", "log"}
    /\ \E disk \in disks :
          /\ disk.nvme
          /\ disks' = disks \ {disk}
          /\ devices' = devices \cup {FromStack(disk)}
          /\ without' = without \cup Unknowable(disk)
    /\ handle' = FALSE
    /\ devstep' = "open"
    /\ UNCHANGED <<devtool, plugged, replugged, stackSays, powerVars, devsaid>>

\* Mutant: a disk whose status is unknown is passed over.
DiskStatusOfKnown(found) ==
    LET known == UNION {d.status : d \in found}
    IN  IF "critical" \in known THEN "critical"
        ELSE IF "warning" \in known THEN "warning"
        ELSE IF found = {} THEN "not_applicable"
        ELSE "healthy"

\* The worst status of a device is the report's; one that is unknown makes it unknown
\* when nothing worse is known.
DiskStatus(found) ==
    LET known == UNION {d.status : d \in found}
    IN  IF "critical" \in known THEN "critical"
        ELSE IF "warning" \in known THEN "warning"
        ELSE IF found = {} THEN "not_applicable"
        ELSE IF \E d \in found : d.status = {} THEN "unknown"
        ELSE "healthy"

\* Full only with the attributes of every drive.
DiskCompleteness(found, missing) ==
    IF missing = {} /\ \A d \in found : d.smart THEN "full" ELSE "limited"

ReportDisks ==
    /\ devstep = "open" /\ disks = {}
    /\ devsaid' = DiskReport(DiskStatus(devices), DiskCompleteness(devices, without))
    /\ devstep' = "answered"
    /\ UNCHANGED <<devtool, plugged, replugged, diskVars, powerVars, without>>

------------------------------------------------------------------------------
(* battery_status and power_status *)

\* GetSystemPowerStatus, where the battery may be one it knows nothing of.
RawReadings ==
    [ac : {{}, {plugged}}, percent : {{}} \cup {{p} : p \in Percentages},
     charging : IF plugged THEN BOOLEAN ELSE {FALSE}]

ReadRaw ==
    /\ devstep = "raw"
    /\ \/ raw' \in {{r} : r \in RawReadings} /\ UNCHANGED without
       \/ raw' = {} /\ without' = {"system_power_status"}
    /\ devstep' = IF devtool = "power_status" THEN "rawAgain" ELSE "batteries"
    /\ UNCHANGED <<devtool, plugged, replugged, diskVars, battery, devsaid>>

\* power_state: the status is read once more, and the battery is asked for.  Where it is
\* asked in vain there is none, and without one the machine runs on AC.
SourceOf(present, ac) ==
    IF ~present THEN "ac"
    ELSE IF ac = {} THEN "unknown" ELSE IF ac = {TRUE} THEN "ac" ELSE "battery"

ReadPowerState ==
    /\ devstep = "rawAgain"
    /\ \E ac \in {{}, {plugged}}, asked \in {"present", "absent", "failed"} :
          battery' = [present |-> asked = "present", health |-> {},
                      source |-> SourceOf(asked = "present", ac),
                      asked |-> asked, ac |-> ac]
    /\ devstep' = "answer"
    /\ UNCHANGED <<devtool, plugged, replugged, diskVars, raw, without, devsaid>>

\* battery_health, of the capacities of Win32_Battery.
HealthPercent(design, full) ==
    {IF f >= d THEN 100 ELSE (f * 100) \div d : d \in design \ {0}, f \in full}

\* read_battery_health: no battery, or one whose capacities are known, is the end of it.
AskBattery ==
    /\ devstep = "batteries"
    /\ \/ /\ without' = without \cup {"not_present"}
          /\ UNCHANGED battery
          /\ devstep' = "answer"
       \/ \E design, full \in {{}} \cup {{c} : c \in Capacities} :
            /\ battery' = [battery EXCEPT !.health = HealthPercent(design, full)]
            /\ devstep' = IF HealthPercent(design, full) = {} THEN "wmi" ELSE "answer"
            /\ UNCHANGED without
       \/ /\ without' = without \cup {"battery"}
          /\ UNCHANGED battery
          /\ devstep' = "wmi"
    /\ UNCHANGED <<devtool, plugged, replugged, diskVars, raw, devsaid>>

\* battery_health_root_wmi: four queries; a usable full charge is a health, even one
\* whose percentage is not known.
UnknownPercent == -1
AskRootWmi ==
    /\ devstep = "wmi"
    /\ \E full, design \in {{}} \cup {{c} : c \in Capacities} :
          IF full \ {0} = {}
          THEN without' = without \cup {"battery_full_charge"} /\ UNCHANGED battery
          ELSE /\ battery' = [battery EXCEPT !.health =
                                IF design \ {0} = {} THEN {UnknownPercent}
                                ELSE HealthPercent(design, full)]
               /\ UNCHANGED without
    /\ devstep' = "answer"
    /\ UNCHANGED <<devtool, plugged, replugged, diskVars, raw, devsaid>>

\* What the one reading of the status says, where there was one.
RawAc == UNION {r.ac : r \in raw}
RawPercent == UNION {r.percent : r \in raw}
RawCharging == \E r \in raw : r.charging

\* battery_state_label
StateLabel(present, percent, charging, ac) ==
    CASE ~present                        -> "none"
      [] present /\ \E p \in percent : p <= 10 -> "critical"
      [] present /\ \E p \in percent : p \in 11..25 -> "low"
      [] OTHER -> IF charging THEN "charging"
                  ELSE IF ac # {TRUE} THEN "discharging"
                  ELSE IF \E p \in percent : p >= 99 THEN "full" ELSE "not_charging"

BatteryPresent == "not_present" \notin without /\ (raw # {} \/ battery.health # {})

ReportBattery ==
    /\ devtool = "battery_status" /\ devstep = "answer"
    /\ devsaid' = [kind |-> "battery",
                   status |-> IF "not_present" \in without THEN "not_present"
                              ELSE IF without # {} /\ battery.health = {} THEN "limited"
                              ELSE "ok",
                   present |-> BatteryPresent,
                   state |-> StateLabel(BatteryPresent, RawPercent, RawCharging, RawAc)]
    /\ devstep' = "answered"
    /\ UNCHANGED <<devtool, plugged, replugged, diskVars, powerVars, without>>

\* power_status: the source is power_state's, the rest is of the first reading; what
\* power_state could not read is not told.
ReportPower ==
    /\ devtool = "power_status" /\ devstep = "answer"
    /\ devsaid' = [kind |-> "power",
                   status |-> IF raw # {} THEN "ok" ELSE "limited",
                   source |-> battery.source, ac |-> RawAc,
                   state |-> StateLabel(battery.present, RawPercent, RawCharging, RawAc)]
    /\ devstep' = "answered"
    /\ UNCHANGED <<devtool, plugged, replugged, diskVars, powerVars, without>>

DevicesReturn ==
    /\ devstep = "answered"
    /\ devtool' = "none" /\ devstep' = "idle" /\ replugged' = FALSE
    /\ disks' = {} /\ stackSays' = {} /\ devices' = {} /\ handle' = FALSE
    /\ raw' = NoRaw /\ battery' = NoBattery /\ without' = {} /\ devsaid' = NoReport
    /\ UNCHANGED plugged

DevicesNext ==
    \/ Replug
    \/ StartDevices
    \/ NoDiskList \/ ListDisks \/ ReadStack
    \/ ReportOther \/ OpenDrive \/ ReadSmartLog \/ NoLog \/ ReportDisks
    \/ ReadRaw \/ ReadPowerState \/ AskBattery \/ AskRootWmi
    \/ ReportBattery \/ ReportPower
    \/ DevicesReturn

------------------------------------------------------------------------------
\* Whichever of the two sources of a disk's health fails, every disk that was listed is
\* in the report; it is healthy only if each has a status and none a bad one, and full
\* only if the attributes of each were read from the drive itself.
DisksAreCounted ==
    devsaid.kind = "disks" /\ devsaid.status # "unavailable" =>
        /\ \E listed \in DiskLists : {d.device : d \in listed} = {d.device : d \in devices}
        /\ devsaid.status = "healthy" => \A d \in devices : d.status = {"healthy"}
        /\ devsaid.completeness = "full" =>
              without = {} /\ \A d \in devices : d.smart

\* A disk whose health nobody could tell is named among the unavailable readings, and a
\* drive that was opened to be asked is closed again.
UnknownIsTold ==
    /\ \A d \in devices : d.status = {} => d.device \in without
    /\ devstep # "log" => ~handle

\* A battery is ok when its health is known and limited when it is not, however many of
\* the five queries failed; one that is not there has no health and no state.
BatteryIsTold ==
    devsaid.kind = "battery" =>
        /\ devsaid.status = "ok" <=> battery.health # {}
        /\ ~devsaid.present => battery.health = {} /\ devsaid.state = "none"

\* Neither report calls a battery that is plugged in discharging, whether the plug moved
\* between its reads or not.
PluggedNeverDischarges ==
    devsaid.kind \in {"battery", "power"} /\ RawAc = {TRUE} => devsaid.state # "discharging"

\* The source of a power report comes from a second reading and a query.  It agrees with
\* the first one if both were made, were answered, and the plug stayed where it was.
SourceAgrees ==
    devsaid.kind = "power" /\ ~replugged /\ battery.asked = "present" /\ battery.ac # {} =>
        /\ devsaid.source = "ac" => FALSE \notin devsaid.ac
        /\ devsaid.source = "battery" => TRUE \notin devsaid.ac

\* However many of its sources fail, a device report tells the health of what it was
\* asked about or that it is unknown: no disk is dropped or called healthy unread, no
\* drive stays open (`disk_health`, `nvme_health_log`), and a battery's state and the
\* power source do not contradict the plug although they are read one after the other
\* (`battery_status`, `power_status`, `power_state`).
DevicesSound ==
    /\ DeviceTypeOK
    /\ DisksAreCounted
    /\ UnknownIsTold
    /\ BatteryIsTold
    /\ PluggedNeverDischarges
    /\ SourceAgrees
=============================================================================
