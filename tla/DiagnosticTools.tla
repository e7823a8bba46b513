-------------------------- MODULE DiagnosticTools --------------------------
(***************************************************************************)
(* The components that share no state with one another: the handlers and   *)
(* providers of the tools, and the commands that touch WinKit's own        *)
(* configuration.  A call reads the machine and answers; it leaves nothing *)
(* behind that the next call, of the same tool or of another, could meet,  *)
(* so each component goes through all its calls by itself.  What one call  *)
(* does to another through the runtime is the subject of ToolRuntime.      *)
(***************************************************************************)
EXTENDS WorkflowReports, SystemDiagnosis, TrendSampler, BoundedFiles, EventHistory,
        VersionProbe, ProcessListing, ToolArguments, Configuration, SystemTables,
        ApplicationGroups, NetworkDiagnosis, DeviceHealth

VARIABLE served   \* the component whose calls are served

webVars == <<probeVars, reportVars>>
sampledVars == <<diagnosisVars, trendVars, groupVars>>
hostVars == <<fileVars, eventVars, versionVars>>
listVars == <<processVars, tableVars, argumentVars>>
machineVars == <<cfgVars, netVars, deviceVars>>
toolVars == <<served, webVars, sampledVars, hostVars, listVars, machineVars>>

WebIdle == ProbeIdle /\ ReportIdle
SampledIdle == DiagnosisIdle /\ TrendIdle /\ GroupsIdle
HostIdle == FilesIdle /\ EventsIdle /\ VersionIdle
ListIdle == ProcessesIdle /\ TablesIdle /\ ArgumentsIdle
MachineIdle == ConfigIdle /\ NetworkIdle /\ DevicesIdle

Components ==
    {"probe", "report", "diagnosis", "trend", "groups", "files", "events", "version",
     "processes", "tables", "arguments", "configuration", "network", "devices"}

Init ==
    /\ served \in Components
    /\ WebIdle /\ SampledIdle /\ HostIdle /\ ListIdle /\ MachineIdle
    /\ served # "devices" => plugged

WebNext ==
    /\ \/ served = "probe" /\ ProbeNext /\ UNCHANGED reportVars
       \/ served = "report" /\ ReportNext /\ UNCHANGED probeVars
    /\ UNCHANGED <<served, sampledVars, hostVars, listVars, machineVars>>

SampledNext ==
    /\ \/ served = "diagnosis" /\ DiagnosisNext /\ UNCHANGED <<trendVars, groupVars>>
       \/ served = "trend" /\ TrendNext /\ UNCHANGED <<diagnosisVars, groupVars>>
       \/ served = "groups" /\ GroupsNext /\ UNCHANGED <<diagnosisVars, trendVars>>
    /\ UNCHANGED <<served, webVars, hostVars, listVars, machineVars>>

HostNext ==
    /\ \/ served = "files" /\ FilesNext /\ UNCHANGED <<eventVars, versionVars>>
       \/ served = "events" /\ EventsNext /\ UNCHANGED <<fileVars, versionVars>>
       \/ served = "version" /\ VersionNext /\ UNCHANGED <<fileVars, eventVars>>
    /\ UNCHANGED <<served, webVars, sampledVars, listVars, machineVars>>

ListNext ==
    /\ \/ served = "processes" /\ ProcessesNext /\ UNCHANGED <<tableVars, argumentVars>>
       \/ served = "tables" /\ TablesNext /\ UNCHANGED <<processVars, argumentVars>>
       \/ served = "arguments" /\ ArgumentsNext /\ UNCHANGED <<processVars, tableVars>>
    /\ UNCHANGED <<served, webVars, sampledVars, hostVars, machineVars>>

MachineNext ==
    /\ \/ served = "configuration" /\ ConfigNext /\ UNCHANGED <<netVars, deviceVars>>
       \/ served = "network" /\ NetworkNext /\ UNCHANGED <<cfgVars, deviceVars>>
       \/ served = "devices" /\ DevicesNext /\ UNCHANGED <<cfgVars, netVars>>
    /\ UNCHANGED <<served, webVars, sampledVars, hostVars, listVars>>

Next == WebNext \/ SampledNext \/ HostNext \/ ListNext \/ MachineNext

\* Of all these, only the version probe waits for something that is not certain to
\* come, and must end all the same: its own steps are taken, and time passes.
Spec == Init /\ [][Next]_toolVars /\ WF_versionVars(VersionProgress)
=============================================================================
