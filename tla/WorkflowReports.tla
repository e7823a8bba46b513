-------------------------- MODULE WorkflowReports --------------------------
(***************************************************************************)
(* The workflow tools that collect evidence step by step and answer with a *)
(* report: diagnose_workspace, diagnose_local_webapp and                   *)
(* correlate_recent_failures; and list_dev_servers, which answers with a   *)
(* list.  Each step asks one provider, whose answer may be a failure and   *)
(* may contradict what an earlier step was told, for the machine goes on   *)
(* while the tool runs.  A probe ends in one of the answers of HttpProbe.  *)
(***************************************************************************)
EXTENDS EvidenceReport, HttpProbe

CONSTANTS
    Port,             \* TCP ports
    MaxPortsPerCall,  \* MAX_PORTS_PER_CALL
    PortNeighborhood, \* PORT_NEIGHBORHOOD
    Calls             \* the calls that are made

ASSUME PortAssumption == Port \subseteq 1..65535 /\ IsFiniteSet(Port)
ASSUME MaxPortsAssumption == MaxPortsPerCall \in Nat \ {0}
ASSUME NeighborhoodAssumption == PortNeighborhood \in Nat

\* The arguments of a call that its tool branches on: the ports it names (of a
\* web application, the one of its URL), whether it names a workspace, whether
\* it has the option of its tool (include_events, wait_for_ready_ms,
\* include_http), and the detail level.
ReportCall ==
    [tool : {"diagnose_workspace", "diagnose_local_webapp",
             "correlate_recent_failures", "list_dev_servers"},
     ports : SUBSET Port, workspace : BOOLEAN, option : BOOLEAN,
     detail : DetailLevel]

ASSUME CallsAssumption == Calls \subseteq ReportCall

VARIABLES
    call,    \* the call that is served
    step,    \* the next step of its handler
    todo,    \* the ports it has still to look at
    found,   \* what later steps use
    report,  \* the report so far
    answer,  \* what the caller gets
    unread   \* history: the reads that failed

reportVars == <<call, step, todo, found, report, answer, unread>>

NoCall ==
    [tool |-> "list_dev_servers", ports |-> {}, workspace |-> FALSE,
     option |-> FALSE, detail |-> "normal"]

\* What the steps leave for later ones: the answer of the probe and whether it
\* was slow, whether the port has an owner and the workspace a scan, the failure
\* signals and what stands for them, whether ports were left out, and the list.
NothingFound ==
    [probe |-> [outcome |-> "ok", status |-> NoStatus], slow |-> FALSE,
     owner |-> FALSE, scan |-> FALSE, signal |-> FALSE, cited |-> {},
     dropped |-> FALSE, listed |-> {}]

NoAnswer == [kind |-> "none"]

ReportIdle ==
    /\ call = NoCall
    /\ step = "idle"
    /\ todo = {}
    /\ found = NothingFound
    /\ report = BeginReport
    /\ answer = NoAnswer
    /\ unread = {}

FirstStep ==
    [diagnose_workspace |-> "resolve", diagnose_local_webapp |-> "validate",
     correlate_recent_failures |-> "app_log", list_dev_servers |-> "usable"]

AcceptCall ==
    /\ step = "idle"
    /\ \E c \in Calls : call' = c /\ step' = FirstStep[c.tool]
    /\ UNCHANGED <<todo, found, report, answer, unread>>

\* The answer has been written: the next call starts afresh.
Replied ==
    /\ step = "answered"
    /\ call' = NoCall
    /\ step' = "idle"
    /\ todo' = {}
    /\ found' = NothingFound
    /\ report' = BeginReport
    /\ answer' = NoAnswer
    /\ unread' = {}

At(s) == step = s /\ UNCHANGED call

\* The handler returns report r, projected onto the level asked for.
Return(r) ==
    /\ report' = r
    /\ answer' = [kind |-> "report", report |-> Project(r, call.detail)]
    /\ step' = "answered"

GoOn(next, r) ==
    /\ step' = next
    /\ report' = r
    /\ UNCHANGED answer

\* What a read says, or that it failed.
Answers == UNCHANGED unread
Fails(read) == unread' = unread \cup {read}

-----------------------------------------------------------------------------
(* diagnose_workspace *)

ResolveWorkspace ==
    /\ At("resolve")
    /\ UNCHANGED <<todo, found, unread>>
    /\ \/ GoOn("scan", report)
       \/ LET rejected ==
                Conclude(report,
                         EvidenceItem("workspace_metadata", "workspace_path"),
                         "workspace_path_rejected", "high", "confirmed")
          IN  Return([rejected EXCEPT !.status = "blocked",
                                      !.summary = "rejected"])

WorkspaceEvidence == EvidenceItem("workspace_metadata", "workspace")

\* The directory may be gone by the time it is scanned.
ScanWorkspace ==
    /\ At("scan")
    /\ UNCHANGED <<todo, unread>>
    /\ LET scanned ==
             AddChecked(AddEvidence(report, WorkspaceEvidence), "workspace")
       IN  \/ /\ found' = [found EXCEPT !.scan = TRUE]
              /\ GoOn("ports", scanned)
           \/ /\ UNCHANGED found
              /\ Return(Finish(
                   [Conclude(scanned, WorkspaceEvidence,
                             "workspace_unreachable", "critical", "confirmed")
                      EXCEPT !.summary = "unreachable"]))

\* The ports of a list cut off at MAX_PORTS_PER_CALL: of a caller's list the
\* first ones, of the listeners' the lowest.
Kept(ports) ==
    {kept \in SUBSET ports :
        \/ kept = ports /\ Cardinality(ports) <= MaxPortsPerCall
        \/ Cardinality(kept) = MaxPortsPerCall}

Lowest(kept, ports) == \A p \in kept : \A q \in ports \ kept : p < q

\* checked has a remark where there is no port to look at, which the handler adds behind
\* the loop over the ports.
NoteNoPorts(r) ==
    IF call.tool = "diagnose_workspace" /\ todo' = {} THEN AddChecked(r, "no_ports") ELSE r

\* A failed look at the listeners finds none.
DiscoverPorts ==
    /\ At("ports")
    /\ \/ /\ call.ports # {}
          /\ todo' \in Kept(call.ports)
          /\ Answers
          /\ UNCHANGED found
          /\ GoOn("inspect", report)
       \/ /\ call.ports = {}
          /\ Answers
          /\ \E listening \in SUBSET Port :
                /\ todo' \in {k \in Kept(listening) : Lowest(k, listening)}
                /\ found' = [found EXCEPT !.dropped = todo' # listening]
          /\ GoOn("inspect", NoteNoPorts(report))
       \/ /\ call.ports = {}
          /\ Fails("ports")
          /\ todo' = {}
          /\ UNCHANGED found
          /\ GoOn("inspect", IF call.tool = "list_dev_servers" THEN report
                             ELSE MarkLimited(NoteNoPorts(report)))

PortEvidence(p) == EvidenceItem("port_listener", p)

NextPort(p) == p \in todo /\ (call.ports = {} => \A q \in todo : p <= q)

\* relate_process_to_workspace: the owner of a port is related if its executable
\* or the stack of the scanned workspace says so; without a scan nothing is.
Relation == IF found.scan THEN BOOLEAN ELSE {FALSE}

InspectPort ==
    /\ At("inspect")
    /\ call.tool = "diagnose_workspace"
    /\ UNCHANGED found
    /\ \E p \in Port :
          /\ NextPort(p)
          /\ todo' = todo \ {p}
          /\ \/ Fails("port") /\ GoOn("inspect", MarkLimited(report))
             \/ /\ Answers
                /\ \E related \in Relation :
                      GoOn("inspect",
                        IF related
                        THEN AddChecked(AddEvidence(report, PortEvidence(p)),
                                        "owner")
                        ELSE Conclude(report, PortEvidence(p),
                               "port_unrelated_process", "high", "confirmed"))
             \/ /\ Answers
                /\ GoOn("inspect",
                     IF call.ports # {}
                     THEN Conclude(report, PortEvidence(p),
                            "dev_server_not_running", "medium", "confirmed")
                     ELSE AddEvidence(report, PortEvidence(p)))

MemoryEvidence == EvidenceItem("system_health", "system_memory")

\* A snapshot without a memory reading counts as one below the threshold.
ReadResources ==
    /\ At("inspect")
    /\ call.tool = "diagnose_workspace"
    /\ todo = {}
    /\ UNCHANGED <<todo, found>>
    /\ \/ /\ Answers
          /\ GoOn("drives", Conclude(report, MemoryEvidence, "memory_pressure",
                                     "medium", "observed"))
       \/ /\ Answers \/ Fails("memory")
          /\ GoOn("drives",
               AddChecked(AddEvidence(report, MemoryEvidence), "memory"))
       \/ Fails("resources") /\ GoOn("drives", MarkLimited(report))

DiskEvidence == EvidenceItem("system_health", "disk_usage")

\* A failed list, or no drive that holds the workspace, leaves no trace; a drive
\* whose free space is not known counts as full.
ReadDrives ==
    /\ At("drives")
    /\ UNCHANGED <<todo, found>>
    /\ \/ (Answers \/ Fails("drives")) /\ GoOn("events", report)
       \/ Answers /\ GoOn("events", AddEvidence(report, DiskEvidence))
       \/ /\ Answers \/ Fails("drives")
          /\ GoOn("events", Conclude(report, DiskEvidence, "low_disk_space",
                                     "medium", "observed"))

EventEvidence == EvidenceItem("windows_events", "recent_error_events")

\* A query that fails counts as one without results.
ReadEvents ==
    /\ At("events")
    /\ UNCHANGED <<todo, found>>
    /\ \/ /\ ~call.option
          /\ Answers
          /\ GoOn("conclude", AddChecked(report, "events_skipped"))
       \/ /\ call.option
          /\ Answers \/ Fails("events")
          /\ \/ GoOn("conclude", Conclude(report, EventEvidence,
                              "recent_error_events", "low", "observed"))
             \/ GoOn("conclude",
                  AddChecked(AddEvidence(report, EventEvidence), "events"))

\* The summary quotes the first finding as found, before they are sorted.
ConcludeWorkspace ==
    /\ At("conclude")
    /\ call.tool = "diagnose_workspace"
    /\ UNCHANGED <<todo, found, unread>>
    /\ Return(Finish(
         [report EXCEPT !.summary =
            IF report.findings = <<>> THEN "healthy"
            ELSE report.findings[1].id]))

-----------------------------------------------------------------------------
(* diagnose_local_webapp *)

ValidateUrl ==
    /\ At("validate")
    /\ UNCHANGED <<todo, found, unread>>
    /\ \/ GoOn("wait", AddChecked(report, "url"))
       \/ LET rejected ==
                Conclude(report, EvidenceItem("http_probe", "url_validation"),
                         "url_rejected", "high", "confirmed")
          IN  Return([rejected EXCEPT !.status = "blocked",
                                      !.summary = "rejected"])

\* The wait itself is WaitCondition; its outcome is evidence and nothing more.
WaitForReady ==
    /\ At("wait")
    /\ UNCHANGED <<todo, found, unread>>
    /\ GoOn("probe",
         IF call.option
         THEN AddEvidence(report, EvidenceItem("http_probe", "readiness_wait"))
         ELSE report)

GetEvidence == EvidenceItem("http_probe", "GET")

ProbeWebapp ==
    /\ At("probe")
    /\ UNCHANGED <<todo, unread>>
    /\ \E a \in ProbeAnswers : \E slow \in BOOLEAN :
          found' = [found EXCEPT !.probe = a,
                                 !.slow = slow /\ ReachedHttp(a.outcome)]
    /\ GoOn("owner", AddEvidence(report, GetEvidence))

\* A failed lookup counts as a port without an owner.
FindOwner ==
    /\ At("owner")
    /\ UNCHANGED todo
    /\ \/ Answers /\ found' = [found EXCEPT !.owner = TRUE]
       \/ (Answers \/ Fails("owner")) /\ UNCHANGED found
    /\ GoOn("context", report)

\* The workspace, when one is named: rejected, no directory, or scanned.
ScanForOwner ==
    /\ At("context")
    /\ call.tool = "diagnose_local_webapp"
    /\ UNCHANGED <<todo, unread>>
    /\ \/ /\ ~call.workspace
          /\ UNCHANGED found
          /\ GoOn("relate", report)
       \/ /\ call.workspace
          /\ UNCHANGED found
          /\ GoOn("relate", NoteLimitation(report))
       \/ /\ call.workspace
          /\ found' = [found EXCEPT !.scan = TRUE]
          /\ GoOn("relate", report)

RelateOwner ==
    /\ At("relate")
    /\ UNCHANGED <<todo, found, unread>>
    /\ \E p \in call.ports :
         \/ /\ found.owner
            /\ \E related \in Relation :
                 GoOn("hunt",
                   IF related
                   THEN AddChecked(AddEvidence(report, PortEvidence(p)), "owner")
                   ELSE Conclude(report, PortEvidence(p),
                                 "unrelated_listener", "medium", "observed"))
         \/ ~found.owner /\ GoOn("hunt", AddChecked(report, "no_owner"))

NotListening(outcome) ==
    outcome \in {"connection_refused", "connection_timeout", "unreachable"}

\* Where find_dev_server_neighbor looks for a development server.
Neighbors(p) == {q \in Port : p < q /\ q <= p + PortNeighborhood}

HuntNeighbor ==
    /\ At("hunt")
    /\ UNCHANGED <<todo, found, unread>>
    /\ \/ /\ ~NotListening(found.probe.outcome)
          /\ GoOn("outcome", report)
       \/ /\ NotListening(found.probe.outcome)
          /\ GoOn("outcome",
               AddFinding(report,
                 FindingItem("connection_refused", "high", "confirmed",
                             {GetEvidence})))
       \/ /\ NotListening(found.probe.outcome)
          /\ \E p \in call.ports : \E near \in Neighbors(p) :
                GoOn("outcome",
                  AddFinding(AddEvidence(report, PortEvidence(near)),
                    FindingItem("server_on_different_port", "high", "observed",
                                {PortEvidence(near), GetEvidence})))

\* probe_finding: the finding that the answer of a probe warrants.
ProbeFinding(a) ==
    LET finding(id, severity) ==
          <<FindingItem(id, severity, "confirmed", {GetEvidence})>>
    IN  CASE a.status \in 400..499 -> finding("http_4xx", "medium")
          [] a.status \in 500..599 -> finding("http_5xx", "high")
          [] a.outcome \in {"redirect_loop", "too_many_redirects"}
               -> finding("redirect_loop", "high")
          [] a.outcome = "redirect_to_external_blocked"
               -> finding("redirect_blocked", "medium")
          [] a.outcome = "tls_error" -> finding("local_tls_failure", "medium")
          [] a.outcome = "dns_error" -> finding("dns_error", "low")
          [] a.outcome = "malformed_response"
               -> finding("malformed_response", "low")
          [] a.outcome = "body_too_large" -> finding("body_too_large", "low")
          [] OTHER -> <<>>

SlowFinding ==
    IF found.slow
    THEN <<FindingItem("slow_response", "low", "observed", {GetEvidence})>>
    ELSE <<>>

ConcludeWebapp ==
    /\ At("outcome")
    /\ UNCHANGED <<todo, found, unread>>
    /\ LET r == [report EXCEPT !.findings =
                    @ \o ProbeFinding(found.probe) \o SlowFinding]
       IN  Return(Finish(
             [r EXCEPT !.summary =
                CASE r.findings # <<>> -> @
                  [] ReachedHttp(found.probe.outcome) -> "reachable"
                  [] OTHER -> "no_signal"]))

-----------------------------------------------------------------------------
(* correlate_recent_failures *)

\* An event log, with error events in it or without, or a query that fails.  Of the
\* application log checked says that its events were read, if there are any.
ReadLog(here, next, evidence) ==
    /\ At(here)
    /\ UNCHANGED todo
    /\ \/ /\ Answers
          /\ found' = [found EXCEPT !.signal = TRUE, !.cited = @ \cup {evidence}]
          /\ LET r == AddEvidence(report, evidence)
             IN  GoOn(next, IF here = "app_log" THEN AddChecked(r, "app_events") ELSE r)
       \/ Answers /\ UNCHANGED found /\ GoOn(next, report)
       \/ Fails(here) /\ UNCHANGED found /\ GoOn(next, MarkLimited(report))

ReadApplicationLog ==
    ReadLog("app_log", "sys_log",
            EvidenceItem("windows_events", "application_error_events"))

ReadSystemLog ==
    ReadLog("sys_log", "port_state",
            EvidenceItem("windows_events", "system_error_events"))

\* The state of the port now; what it was before is a limitation.
ReadPortState ==
    /\ At("port_state")
    /\ UNCHANGED todo
    /\ \/ /\ call.ports = {}
          /\ Answers
          /\ UNCHANGED found
          /\ GoOn("context", report)
       \/ \E p \in call.ports :
             \/ /\ Answers
                /\ \E listening \in BOOLEAN :
                      /\ found' = [found EXCEPT
                                     !.signal = @ \/ ~listening,
                                     !.cited = @ \cup {PortEvidence(p)}]
                      /\ LET r == AddEvidence(NoteLimitation(report),
                                              PortEvidence(p))
                         IN  GoOn("context", IF listening
                                             THEN AddChecked(r, "owner") ELSE r)
             \/ /\ Fails("port")
                /\ UNCHANGED found
                /\ GoOn("context", MarkLimited(report))

ReadContext ==
    /\ At("context")
    /\ call.tool = "correlate_recent_failures"
    /\ UNCHANGED <<todo, unread>>
    /\ \/ /\ ~call.workspace
          /\ UNCHANGED found
          /\ GoOn("correlate", report)
       \/ /\ call.workspace
          /\ UNCHANGED found
          /\ GoOn("correlate", NoteLimitation(report))
       \/ /\ call.workspace
          /\ found' = [found EXCEPT !.cited = @ \cup {WorkspaceEvidence}]
          /\ GoOn("correlate", AddEvidence(report, WorkspaceEvidence))

CorrelationEvidence == EvidenceItem("windows_events", "signal_correlation")

ConcludeCorrelation ==
    /\ At("correlate")
    /\ UNCHANGED <<todo, found, unread>>
    /\ LET r == IF found.signal
                THEN AddFinding(AddEvidence(report, CorrelationEvidence),
                       FindingItem("failure_cluster", "medium", "likely",
                                   found.cited \cup {CorrelationEvidence}))
                ELSE AddChecked(report, "signals")
       IN  Return(Finish(
             [r EXCEPT !.summary = IF found.signal THEN "signals" ELSE "none"]))

-----------------------------------------------------------------------------
(* list_dev_servers *)

\* A workspace that cannot be used ends the call.
UseWorkspace ==
    /\ At("usable")
    /\ UNCHANGED <<todo, unread>>
    /\ \/ /\ ~call.workspace
          /\ UNCHANGED found
          /\ GoOn("ports", report)
       \/ /\ call.workspace
          /\ found' = [found EXCEPT !.scan = TRUE]
          /\ GoOn("ports", report)
       \/ /\ call.workspace
          /\ UNCHANGED <<found, report>>
          /\ answer' = [kind |-> "invalid_argument"]
          /\ step' = "answered"

\* listener_entry: a port whose lookup fails has no listener.
ListPort ==
    /\ At("inspect")
    /\ call.tool = "list_dev_servers"
    /\ GoOn("inspect", report)
    /\ \E p \in Port :
          /\ NextPort(p)
          /\ todo' = todo \ {p}
          /\ LET List(entry) ==
                   found' = [found EXCEPT !.listed = @ \cup {entry}]
             IN  \/ /\ Answers \/ Fails("port")
                    /\ List([port |-> p, listener |-> FALSE, related |-> FALSE,
                             probed |-> FALSE])
                 \/ /\ Answers
                    /\ \E related \in Relation :
                         List([port |-> p, listener |-> TRUE,
                               related |-> related, probed |-> call.option])

ConcludeList ==
    /\ At("inspect")
    /\ call.tool = "list_dev_servers"
    /\ todo = {}
    /\ UNCHANGED <<todo, found, report, unread>>
    /\ answer' = [kind |-> "listeners", listed |-> found.listed,
                  truncated |-> found.dropped]
    /\ step' = "answered"

ReportNext ==
    \/ AcceptCall \/ Replied
    \/ ResolveWorkspace \/ ScanWorkspace \/ DiscoverPorts \/ InspectPort
    \/ ReadResources \/ ReadDrives \/ ReadEvents \/ ConcludeWorkspace
    \/ ValidateUrl \/ WaitForReady \/ ProbeWebapp \/ FindOwner \/ ScanForOwner
    \/ RelateOwner \/ HuntNeighbor \/ ConcludeWebapp
    \/ ReadApplicationLog \/ ReadSystemLog \/ ReadPortState \/ ReadContext
    \/ ConcludeCorrelation
    \/ UseWorkspace \/ ListPort \/ ConcludeList

-----------------------------------------------------------------------------

ReportTypeOK ==
    /\ call \in Calls \cup {NoCall}
    /\ step \in {"idle", "resolve", "scan", "ports", "inspect", "drives", "events",
                 "conclude", "validate", "wait", "probe", "owner", "context",
                 "relate", "hunt", "outcome", "app_log", "sys_log", "port_state",
                 "correlate", "usable", "answered"}
    /\ todo \subseteq Port
    /\ found.probe \in ProbeAnswers \cup {NothingFound.probe}
    /\ found.slow \in BOOLEAN /\ found.owner \in BOOLEAN
    /\ found.scan \in BOOLEAN /\ found.signal \in BOOLEAN
    /\ report.status \in ReportStatus /\ report.limited \in BOOLEAN
    /\ \A i \in DOMAIN report.findings :
          /\ report.findings[i].id \in Range(FindingIds)
          /\ report.findings[i].severity \in Range(FindingSeverity)
          /\ report.findings[i].confidence \in FindingConfidence
    /\ answer.kind \in {"none", "report", "listeners", "invalid_argument"}

\* The reads whose failure the handlers answer with mark_limited.  The other failures
\* leave the status as it was: of the drives, of the event logs that diagnose_workspace
\* reads, of the owner of a web application's port, of a memory reading in a snapshot
\* and, in list_dev_servers, of all reads.
CoreReads == {"ports", "port", "resources", "app_log", "sys_log"}

StatusHonest ==
    /\ unread \cap CoreReads # {} => report.status = "limited" /\ report.limited
    /\ report.status = "ok" => ~HasIssue(report)
    /\ report.status = "issues_detected" => HasIssue(report)
    /\ report.status = "blocked" => Len(report.findings) = 1

FindingsCited ==
    \A i \in DOMAIN report.findings :
        LET cited == report.findings[i].supporting
        IN  cited # {} /\ cited \subseteq report.evidence

WorstKept ==
    LET kept == Range(answer.report.findings)
    IN  \A f \in Range(report.findings) \ kept :
          Len(answer.report.findings) = MaxCompactFindings
            /\ \A g \in kept : SeverityRank(g) >= SeverityRank(f)

OneConnectionFinding ==
    LET ids(wanted) ==
          Cardinality({i \in DOMAIN report.findings :
                         report.findings[i].id \in wanted})
        connection == {"connection_refused", "server_on_different_port"}
    IN  call.tool = "diagnose_local_webapp" /\ report.status # "blocked" =>
          /\ ids(connection) = IF NotListening(found.probe.outcome) THEN 1 ELSE 0
          /\ ids(connection) = 1 =>
                ids({"http_4xx", "http_5xx", "redirect_loop", "slow_response"}) = 0

\* What a read is about, as checked has it.
Dimension(read) ==
    CASE read = "owner" -> "no_owner"
      [] read \in {"ports", "app_log", "sys_log"} -> "signals"
      [] OTHER -> read

\* Violated: checked has the "Dimensions that were checked and found clean."
\* (src/models/evidence.rs:308), so a report that is not limited lists nothing there whose
\* read failed.  diagnose_workspace lists the event logs after a query that failed
\* (unwrap_or_default) and the memory without a reading, and the web application a port
\* without an owner after a lookup that failed.  The correlation lists no signals after
\* logs that could not be read, but is limited.
CheckedWasRead ==
    answer.kind = "report" /\ report.status # "limited" =>
      \A read \in unread : Dimension(read) \notin report.checked

\* An answered report says no better than what its core reads allow: a failed one is
\* never told as ok or as issues alone, while the reads outside CoreReads may fail in
\* silence (`mark_limited`, `finalize_status`, and `CheckedWasRead` above); every finding
\* cites evidence of the full report, which the compact one leaves out (`add_finding`,
\* `project`); the compact projection never cuts a finding that is worse than one it
\* keeps (`project` after `sort_findings`); and an unreachable port yields exactly one
\* connection finding, never beside one of the HTTP outcome
\* (`diagnose_local_webapp_handler`).
ReportSound ==
    /\ ReportTypeOK
    /\ answer.kind = "report" =>
          StatusHonest /\ FindingsCited /\ WorstKept /\ OneConnectionFinding
=============================================================================
