--------------------------- MODULE EvidenceReport ---------------------------
(***************************************************************************)
(* The report envelope that every high-level tool fills and returns.  An   *)
(* observation is an evidence item whose id is a hash of its source and    *)
(* subject; a conclusion is a finding that cites such ids; the detail      *)
(* level asked for is a projection of the finished report.                 *)
(*                                                                         *)
(* Wording, categories, values and time stamps are left out.  An id is the *)
(* pair it is the hash of, so two items with the same source and subject   *)
(* have the same id, as they have in the code.                             *)
(***************************************************************************)
EXTENDS Rankings, Functions

EvidenceSource ==
    {"workspace_metadata", "port_listener", "http_probe", "windows_events",
     "system_health"}

\* In ascending order, as the derived Ord of the enumeration has them.
FindingSeverity == <<"info", "low", "medium", "high", "critical">>

FindingConfidence == {"confirmed", "observed", "likely"}

ReportStatus == {"ok", "issues_detected", "limited", "blocked"}

DetailLevel == {"compact", "normal", "detailed"}

\* The ids of the findings, in the order of their names.  Ids and subjects are
\* written with underscores for the code's hyphens and spaces.
FindingIds ==
    <<"body_too_large", "connection_refused", "dev_server_not_running",
      "dns_error", "failure_cluster", "http_4xx", "http_5xx",
      "local_tls_failure", "low_disk_space", "malformed_response",
      "memory_pressure", "port_unrelated_process", "recent_error_events",
      "redirect_blocked", "redirect_loop", "server_on_different_port",
      "slow_response", "unrelated_listener", "url_rejected",
      "workspace_path_rejected", "workspace_unreachable">>

Place(x, s) == CHOOSE n \in DOMAIN s : s[n] = x

SeverityRank(f) == Place(f.severity, FindingSeverity)

-----------------------------------------------------------------------------

EvidenceItem(source, subject) == <<source, subject>>

FindingItem(id, severity, confidence, supporting) ==
    [id |-> id, severity |-> severity, confidence |-> confidence,
     supporting |-> supporting]

\* ReportEnvelope::begin; an entry of checked is what was found clean.
BeginReport ==
    [status |-> "ok", summary |-> "begun", findings |-> <<>>,
     evidence |-> {}, checked |-> {}, limited |-> FALSE]

AddEvidence(r, ev) == [r EXCEPT !.evidence = @ \cup {ev}]

AddChecked(r, dimension) == [r EXCEPT !.checked = @ \cup {dimension}]

MarkLimited(r) == [r EXCEPT !.status = "limited", !.limited = TRUE]

\* A limitation that leaves the status alone.
NoteLimitation(r) == [r EXCEPT !.limited = TRUE]

AddFinding(r, f) == [r EXCEPT !.findings = Append(@, f)]

\* An observation and the finding that cites it alone.
Conclude(r, ev, id, severity, confidence) ==
    AddFinding(AddEvidence(r, ev), FindingItem(id, severity, confidence, {ev}))

\* Worst first, then by id.
SortsAhead(f, g) ==
    \/ SeverityRank(f) > SeverityRank(g)
    \/ /\ SeverityRank(f) = SeverityRank(g)
       /\ Place(f.id, FindingIds) < Place(g.id, FindingIds)

\* The sort is stable: findings that are neither ahead stay in their order.
SortOrder(s) ==
    {p \in (DOMAIN s) \X (DOMAIN s) :
        \/ SortsAhead(s[p[1]], s[p[2]])
        \/ ~SortsAhead(s[p[2]], s[p[1]]) /\ p[1] < p[2]}

Sorted(s) == [n \in DOMAIN s |-> s[Ranked(DOMAIN s, SortOrder(s))[n]]]

SortFindings(r) == [r EXCEPT !.findings = Sorted(@)]

HasIssue(r) == \E i \in DOMAIN r.findings : SeverityRank(r.findings[i]) > 1

\* Mutant: an issue found overrides that the diagnosis was limited or blocked.
FinalizeStatusAlways(r) ==
    IF HasIssue(r) THEN [r EXCEPT !.status = "issues_detected"] ELSE r

FinalizeStatus(r) ==
    IF r.status \notin {"blocked", "limited"} /\ HasIssue(r)
    THEN [r EXCEPT !.status = "issues_detected"]
    ELSE r

MaxCompactFindings == 3

Truncate(s, n) == SubSeq(s, 1, IF Len(s) < n THEN Len(s) ELSE n)

\* A compact report keeps the first findings and has no evidence section: the
\* items they cite are collected and then not inserted.
Project(r, level) ==
    IF level = "compact"
    THEN [r EXCEPT !.findings = Truncate(@, MaxCompactFindings),
                   !.evidence = {}]
    ELSE r

\* How a diagnosis ends once its evidence is in.
Finish(r) == FinalizeStatus(SortFindings(r))

=============================================================================
