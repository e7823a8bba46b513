--------------------------- MODULE Reports_proofs ---------------------------
(***************************************************************************)
(* What the tools conclude: the reports of the workflow tools, whatever    *)
(* the providers answer or fail to, and what system_diagnose and           *)
(* system_health say of the machine, for any readings.  The findings of a  *)
(* report are ranked, which is a lemma of Probes_proofs.                   *)
(***************************************************************************)
EXTENDS WorkflowReports, SystemDiagnosis, Probes_proofs, TLAPS

-----------------------------------------------------------------------------
(* WorkflowReports: what every report is filled with on its way, and what  *)
(* sorting, finishing and projecting it keep.                              *)

ReportsSpec == ReportIdle /\ [][ReportNext]_reportVars

ConnectionIds == {"connection_refused", "server_on_different_port"}
HttpIds == {"http_4xx", "http_5xx", "redirect_loop", "slow_response"}

\* The findings that cite the evidence E.
FindingsOn(E) ==
    [id : Range(FindingIds), severity : Range(FindingSeverity),
     confidence : FindingConfidence, supporting : (SUBSET E) \ {{}}]

Filled(r) ==
    /\ DOMAIN r = {"status", "summary", "findings", "evidence", "checked", "limited"}
    /\ r.status \in ReportStatus /\ r.limited \in BOOLEAN
    /\ r.findings \in Seq(FindingsOn(r.evidence))

FoundOn(f, E) ==
    /\ DOMAIN f = {"probe", "slow", "owner", "scan", "signal", "cited", "dropped", "listed"}
    /\ f.probe \in ProbeAnswers \cup {NothingFound.probe}
    /\ f.slow \in BOOLEAN /\ f.owner \in BOOLEAN
    /\ f.scan \in BOOLEAN /\ f.signal \in BOOLEAN
    /\ f.cited \subseteq E
    /\ f.slow => ReachedHttp(f.probe.outcome)

Without(s, ids) == \A i \in DOMAIN s : s[i].id \notin ids

Once(s, ids) ==
    \E i \in DOMAIN s : s[i].id \in ids /\ \A j \in DOMAIN s : s[j].id \in ids => j = i

BeforeProbe == {"validate", "wait", "probe"}
AfterProbe == {"owner", "context", "relate", "hunt"}

\* Where each tool can be.
Fits(tool, s) ==
    \/ /\ tool = "diagnose_workspace"
       /\ s \in {"resolve", "scan", "ports", "inspect", "drives", "events", "conclude"}
    \/ tool = "diagnose_local_webapp" /\ s \in BeforeProbe \cup AfterProbe \cup {"outcome"}
    \/ /\ tool = "correlate_recent_failures"
       /\ s \in {"app_log", "sys_log", "port_state", "context", "correlate"}
    \/ tool = "list_dev_servers" /\ s \in {"usable", "ports", "inspect"}

StepsFit ==
    \/ step = "idle" /\ ReportIdle
    \/ step = "answered" /\ answer.kind \in {"report", "listeners", "invalid_argument"}
    \/ answer = NoAnswer /\ Fits(call.tool, step)

\* A failed core read has limited the report, whatever came after it.
LimitsTold ==
    /\ step # "answered" => report.status \in {"ok", "limited"}
    /\ step \in {"idle", "resolve", "validate"} => report = BeginReport /\ unread = {}
    /\ call.tool # "list_dev_servers" /\ unread \cap CoreReads # {} =>
         report.status = "limited" /\ report.limited = TRUE

\* What the report of a web application says of the connection so far.
ConnectionTold ==
    call.tool = "diagnose_local_webapp" =>
      /\ step \in BeforeProbe \cup AfterProbe =>
           Without(report.findings, ConnectionIds \cup HttpIds)
      /\ step \in AfterProbe \cup {"outcome"} => GetEvidence \in report.evidence
      /\ step = "outcome" =>
           /\ Without(report.findings, HttpIds)
           /\ IF NotListening(found.probe.outcome) THEN Once(report.findings, ConnectionIds)
              ELSE Without(report.findings, ConnectionIds)

ReportInvariant ==
    /\ call \in Calls \cup {NoCall} /\ todo \subseteq Port
    /\ StepsFit /\ Filled(report) /\ FoundOn(found, report.evidence)
    /\ LimitsTold /\ ConnectionTold
    /\ answer.kind = "report" => StatusHonest /\ WorstKept /\ OneConnectionFinding

Special == ConnectionIds \cup HttpIds

\* Report s is report r with more in it, and no more about the connection.
Continues(r, s) ==
    /\ Filled(s)
    /\ r.evidence \subseteq s.evidence
    /\ s.status = r.status \/ (s.status = "limited" /\ s.limited = TRUE)
    /\ r.limited = TRUE => s.limited = TRUE
    /\ \A i \in DOMAIN s.findings :
         \/ i \in DOMAIN r.findings /\ s.findings[i] = r.findings[i]
         \/ s.findings[i].id \notin Special

\* An id of the list is the id of a finding.
LEMMA IdsAreListed ==
    /\ {"dev_server_not_running", "failure_cluster", "low_disk_space", "memory_pressure",
        "port_unrelated_process", "recent_error_events", "unrelated_listener",
        "url_rejected", "workspace_path_rejected", "workspace_unreachable"}
         \subseteq Range(FindingIds) \ Special
    /\ {"body_too_large", "dns_error", "http_4xx", "http_5xx", "local_tls_failure",
        "malformed_response", "redirect_blocked", "redirect_loop", "slow_response"}
         \subseteq Range(FindingIds) \ ConnectionIds
    /\ ConnectionIds \subseteq Range(FindingIds) \ HttpIds
PROOF
<1>1. \A n \in 1..21 : FindingIds[n] \in Range(FindingIds)
  BY DEF Range, FindingIds
<1>2. /\ FindingIds[1] = "body_too_large" /\ FindingIds[2] = "connection_refused"
      /\ FindingIds[3] = "dev_server_not_running" /\ FindingIds[4] = "dns_error"
      /\ FindingIds[5] = "failure_cluster" /\ FindingIds[6] = "http_4xx"
      /\ FindingIds[7] = "http_5xx" /\ FindingIds[8] = "local_tls_failure"
      /\ FindingIds[9] = "low_disk_space" /\ FindingIds[10] = "malformed_response"
      /\ FindingIds[11] = "memory_pressure" /\ FindingIds[12] = "port_unrelated_process"
      /\ FindingIds[13] = "recent_error_events" /\ FindingIds[14] = "redirect_blocked"
      /\ FindingIds[15] = "redirect_loop" /\ FindingIds[16] = "server_on_different_port"
      /\ FindingIds[17] = "slow_response" /\ FindingIds[18] = "unrelated_listener"
      /\ FindingIds[19] = "url_rejected" /\ FindingIds[20] = "workspace_path_rejected"
      /\ FindingIds[21] = "workspace_unreachable"
  BY DEF FindingIds
<1>3. /\ 1 \in 1..21 /\ 2 \in 1..21 /\ 3 \in 1..21 /\ 4 \in 1..21 /\ 5 \in 1..21
      /\ 6 \in 1..21 /\ 7 \in 1..21 /\ 8 \in 1..21 /\ 9 \in 1..21 /\ 10 \in 1..21
      /\ 11 \in 1..21 /\ 12 \in 1..21 /\ 13 \in 1..21 /\ 14 \in 1..21 /\ 15 \in 1..21
      /\ 16 \in 1..21 /\ 17 \in 1..21 /\ 18 \in 1..21 /\ 19 \in 1..21 /\ 20 \in 1..21
      /\ 21 \in 1..21
  OBVIOUS
<1>4. /\ {"dev_server_not_running", "failure_cluster", "low_disk_space", "memory_pressure",
          "port_unrelated_process"} \subseteq Range(FindingIds)
      /\ {"recent_error_events", "unrelated_listener", "url_rejected",
          "workspace_path_rejected", "workspace_unreachable"} \subseteq Range(FindingIds)
  BY <1>1, <1>2, <1>3
<1>5. /\ {"body_too_large", "dns_error", "http_4xx", "http_5xx"} \subseteq Range(FindingIds)
      /\ {"local_tls_failure", "malformed_response", "redirect_blocked", "redirect_loop",
          "slow_response"} \subseteq Range(FindingIds)
      /\ {"connection_refused", "server_on_different_port"} \subseteq Range(FindingIds)
  BY <1>1, <1>2, <1>3
<1> QED
  BY <1>4, <1>5 DEF Special, ConnectionIds, HttpIds

\* A finding has a place among the severities and among the ids.
LEMMA FindingsHavePlaces ==
    ASSUME NEW E, NEW f \in FindingsOn(E)
    PROVE  SeverityRank(f) \in Nat /\ Place(f.id, FindingIds) \in Nat
PROOF
<1>1. f.severity \in Range(FindingSeverity) /\ f.id \in Range(FindingIds)
  BY DEF FindingsOn
<1>2. DOMAIN FindingSeverity \subseteq Nat /\ DOMAIN FindingIds \subseteq Nat
  BY DEF FindingSeverity, FindingIds
<1>3. ASSUME NEW s, NEW x \in Range(s), DOMAIN s \subseteq Nat
      PROVE  Place(x, s) \in Nat
  <2>1. \E n \in DOMAIN s : s[n] = x
    BY DEF Range
  <2> QED
    BY <1>3, <2>1 DEF Place
<1> QED
  BY <1>1, <1>2, <1>3 DEF SeverityRank

LEMMA EvidenceGrows ==
    ASSUME NEW D, NEW E, D \subseteq E
    PROVE  Seq(FindingsOn(D)) \subseteq Seq(FindingsOn(E))
PROOF
<1>1. FindingsOn(D) \subseteq FindingsOn(E)
  BY DEF FindingsOn
<1>2. ASSUME NEW S, NEW T, S \subseteq T
      PROVE  Seq(S) \subseteq Seq(T)
  BY <1>2
<1> QED
  BY <1>1, <1>2

LEMMA BeginIsFilled ==
    /\ Filled(BeginReport) /\ BeginReport.status = "ok"
    /\ BeginReport.findings = <<>>
PROOF
  BY DEF Filled, BeginReport, ReportStatus

LEMMA ContinuesItself ==
    ASSUME NEW r, Filled(r)
    PROVE  Continues(r, r)
PROOF
  BY DEF Continues

LEMMA ContinuesOn ==
    ASSUME NEW r, NEW s, NEW t, Continues(r, s), Continues(s, t)
    PROVE  Continues(r, t)
PROOF
<1>1. \A i \in DOMAIN t.findings :
         \/ i \in DOMAIN r.findings /\ t.findings[i] = r.findings[i]
         \/ t.findings[i].id \notin Special
  BY DEF Continues
<1> QED
  BY <1>1 DEF Continues

LEMMA EvidenceContinues ==
    ASSUME NEW r, Filled(r), NEW ev
    PROVE  /\ Continues(r, AddEvidence(r, ev)) /\ ev \in AddEvidence(r, ev).evidence
           /\ AddEvidence(r, ev).status = r.status
           /\ AddEvidence(r, ev).findings = r.findings
           /\ AddEvidence(r, ev).limited = r.limited
PROOF
<1> DEFINE s == AddEvidence(r, ev)
<1>1. /\ DOMAIN s = DOMAIN r /\ s.status = r.status /\ s.limited = r.limited
      /\ s.findings = r.findings /\ s.evidence = r.evidence \cup {ev}
  BY DEF AddEvidence, Filled
<1> HIDE DEF s
<1>2. Seq(FindingsOn(r.evidence)) \subseteq Seq(FindingsOn(s.evidence))
  BY <1>1, EvidenceGrows
<1>3. s.findings \in Seq(FindingsOn(s.evidence))
  BY <1>1, <1>2 DEF Filled
<1>4. Filled(s)
  BY <1>1, <1>3 DEF Filled
<1>5. Continues(r, s)
  BY <1>1, <1>4 DEF Continues
<1> QED
  BY <1>1, <1>5 DEF s

LEMMA CheckedContinues ==
    ASSUME NEW r, Filled(r), NEW dimension
    PROVE  /\ Continues(r, AddChecked(r, dimension))
           /\ AddChecked(r, dimension).status = r.status
           /\ AddChecked(r, dimension).findings = r.findings
           /\ AddChecked(r, dimension).evidence = r.evidence
PROOF
<1> DEFINE s == AddChecked(r, dimension)
<1>1. /\ DOMAIN s = DOMAIN r /\ s.status = r.status /\ s.limited = r.limited
      /\ s.findings = r.findings /\ s.evidence = r.evidence
  BY DEF AddChecked, Filled
<1> HIDE DEF s
<1>2. Filled(s)
  BY <1>1 DEF Filled
<1>3. Continues(r, s)
  BY <1>1, <1>2 DEF Continues
<1> QED
  BY <1>1, <1>3 DEF s

LEMMA LimitedContinues ==
    ASSUME NEW r, Filled(r)
    PROVE  /\ Continues(r, MarkLimited(r)) /\ Continues(r, NoteLimitation(r))
           /\ MarkLimited(r).status = "limited" /\ MarkLimited(r).limited = TRUE
PROOF
<1> DEFINE s == MarkLimited(r)
           t == NoteLimitation(r)
<1>1. /\ DOMAIN s = DOMAIN r /\ s.status = "limited" /\ s.limited = TRUE
      /\ s.findings = r.findings /\ s.evidence = r.evidence
  BY DEF MarkLimited, Filled
<1>2. /\ DOMAIN t = DOMAIN r /\ t.status = r.status /\ t.limited = TRUE
      /\ t.findings = r.findings /\ t.evidence = r.evidence
  BY DEF NoteLimitation, Filled
<1> HIDE DEF s, t
<1>3. Filled(s) /\ Filled(t)
  BY <1>1, <1>2 DEF Filled, ReportStatus
<1>4. Continues(r, s) /\ Continues(r, t)
  BY <1>1, <1>2, <1>3 DEF Continues
<1> QED
  BY <1>1, <1>4 DEF s, t

\* A finding that is added comes last, and the report keeps its evidence.
LEMMA FindingAdded ==
    ASSUME NEW r, Filled(r), NEW f \in FindingsOn(r.evidence)
    PROVE  /\ Filled(AddFinding(r, f))
           /\ AddFinding(r, f).status = r.status /\ AddFinding(r, f).limited = r.limited
           /\ AddFinding(r, f).evidence = r.evidence
           /\ AddFinding(r, f).findings = Append(r.findings, f)
           /\ f.id \notin Special => Continues(r, AddFinding(r, f))
PROOF
<1> DEFINE s == AddFinding(r, f)
<1>1. /\ DOMAIN s = DOMAIN r /\ s.status = r.status /\ s.limited = r.limited
      /\ s.findings = Append(r.findings, f) /\ s.evidence = r.evidence
  BY DEF AddFinding, Filled
<1> HIDE DEF s
<1>2. Filled(s)
  BY <1>1 DEF Filled
<1>3. \A i \in DOMAIN s.findings :
        (i \in DOMAIN r.findings /\ s.findings[i] = r.findings[i]) \/ s.findings[i] = f
  BY <1>1 DEF Filled
<1>4. f.id \notin Special => Continues(r, s)
  BY <1>1, <1>2, <1>3 DEF Continues
<1> QED
  BY <1>1, <1>2, <1>4 DEF s

LEMMA FindingMade ==
    ASSUME NEW id \in Range(FindingIds), NEW severity \in Range(FindingSeverity),
           NEW confidence \in FindingConfidence, NEW E, NEW S \in SUBSET E, S # {}
    PROVE  /\ FindingItem(id, severity, confidence, S) \in FindingsOn(E)
           /\ FindingItem(id, severity, confidence, S).id = id
           /\ FindingItem(id, severity, confidence, S).severity = severity
PROOF
  BY DEF FindingItem, FindingsOn

LEMMA SeveritiesAndConfidences ==
    /\ {"low", "medium", "high", "critical"} \subseteq Range(FindingSeverity)
    /\ {"confirmed", "observed", "likely"} \subseteq FindingConfidence
PROOF
<1>1. \A n \in 1..5 : FindingSeverity[n] \in Range(FindingSeverity)
  BY DEF Range, FindingSeverity
<1>2. /\ FindingSeverity[2] = "low" /\ FindingSeverity[3] = "medium"
      /\ FindingSeverity[4] = "high" /\ FindingSeverity[5] = "critical"
      /\ 2 \in 1..5 /\ 3 \in 1..5 /\ 4 \in 1..5 /\ 5 \in 1..5
  BY DEF FindingSeverity
<1> QED
  BY <1>1, <1>2 DEF FindingConfidence

LEMMA ConclusionContinues ==
    ASSUME NEW r, Filled(r), NEW ev, NEW id \in Range(FindingIds) \ Special,
           NEW severity \in Range(FindingSeverity), NEW confidence \in FindingConfidence
    PROVE  /\ Continues(r, Conclude(r, ev, id, severity, confidence))
           /\ Len(Conclude(r, ev, id, severity, confidence).findings) = Len(r.findings) + 1
PROOF
<1> DEFINE s == AddEvidence(r, ev)
           f == FindingItem(id, severity, confidence, {ev})
<1>1. /\ Continues(r, s) /\ Filled(s) /\ ev \in s.evidence /\ s.findings = r.findings
      /\ r.findings \in Seq(FindingsOn(r.evidence))
  BY EvidenceContinues DEF Continues, Filled
<1> HIDE DEF s
<1>2. f \in FindingsOn(s.evidence) /\ f.id = id
  BY <1>1, FindingMade
<1> HIDE DEF f
<1>3. Continues(s, AddFinding(s, f)) /\ AddFinding(s, f).findings = Append(s.findings, f)
  BY <1>1, <1>2, FindingAdded
<1>4. Continues(r, AddFinding(s, f))
  BY <1>1, <1>3, ContinuesOn
<1>5. Conclude(r, ev, id, severity, confidence) = AddFinding(s, f)
  BY DEF Conclude, s, f
<1> QED
  BY <1>1, <1>3, <1>4, <1>5

\* Sorting findings moves each to one place, and none is before a worse one.
LEMMA SortedIsSorted ==
    ASSUME NEW E, NEW s \in Seq(FindingsOn(E))
    PROVE  /\ Sorted(s) \in Seq(FindingsOn(E)) /\ Len(Sorted(s)) = Len(s)
           /\ \E r \in [1..Len(s) -> 1..Len(s)] :
                /\ \A i \in 1..Len(s) : \E m \in 1..Len(s) : r[m] = i
                /\ \A m, k \in 1..Len(s) : m # k => r[m] # r[k]
                /\ \A m \in 1..Len(s) : Sorted(s)[m] = s[r[m]]
           /\ \A m, k \in 1..Len(s) :
                m < k => SeverityRank(Sorted(s)[m]) >= SeverityRank(Sorted(s)[k])
PROOF
<1> DEFINE D == DOMAIN s
           B == SortOrder(s)
           n == Len(s)
           r == Ranked(D, B)
           rank == [i \in D |-> SeverityRank(s[i])]
           place == [i \in D |-> Place(s[i].id, FindingIds)]
<1>0. n \in Nat /\ D = 1..n
  OBVIOUS
<1>1. IsFiniteSet(D) /\ Cardinality(D) = n
  <2> HIDE DEF D, n
  <2>1. IsFiniteSet(1..n)
          /\ Cardinality(1..n) = IF 1 > n THEN 0 ELSE n - 1 + 1
    BY <1>0, FS_Interval
  <2> QED
    BY <1>0, <2>1
<1>2. \A i \in D : i \in Int /\ rank[i] \in Nat /\ place[i] \in Nat
  <2> SUFFICES ASSUME NEW i \in D
               PROVE  i \in Int /\ rank[i] \in Nat /\ place[i] \in Nat
    OBVIOUS
  <2>1. s[i] \in FindingsOn(E) /\ i \in Int
    OBVIOUS
  <2> QED
    BY <2>1, FindingsHavePlaces
<1>3. \A i, j \in D : <<i, j>> \in B <=>
         \/ rank[i] > rank[j]
         \/ rank[i] = rank[j] /\ place[i] < place[j]
         \/ rank[i] = rank[j] /\ place[i] = place[j] /\ i < j
  <2> SUFFICES ASSUME NEW i \in D, NEW j \in D
               PROVE  <<i, j>> \in B <=>
                        \/ rank[i] > rank[j]
                        \/ rank[i] = rank[j] /\ place[i] < place[j]
                        \/ rank[i] = rank[j] /\ place[i] = place[j] /\ i < j
    OBVIOUS
  <2>1. <<i, j>> \in B <=> \/ SortsAhead(s[i], s[j])
                           \/ ~SortsAhead(s[j], s[i]) /\ i < j
    BY DEF SortOrder
  <2>2. /\ SortsAhead(s[i], s[j]) <=>
             rank[i] > rank[j] \/ (rank[i] = rank[j] /\ place[i] < place[j])
        /\ SortsAhead(s[j], s[i]) <=>
             rank[j] > rank[i] \/ (rank[j] = rank[i] /\ place[j] < place[i])
    BY DEF SortsAhead
  <2> HIDE DEF rank, place, B, D
  <2> QED
    BY <1>2, <2>1, <2>2
<1> HIDE DEF B, rank, place
<1>4. \A x \in D : <<x, x>> \notin B
  BY <1>2, <1>3
<1>5. \A x, y, z \in D : <<x, y>> \in B /\ <<y, z>> \in B => <<x, z>> \in B
  <2> SUFFICES ASSUME NEW x \in D, NEW y \in D, NEW z \in D,
                      <<x, y>> \in B, <<y, z>> \in B
               PROVE  <<x, z>> \in B
    OBVIOUS
  <2> HIDE DEF D
  <2>1. /\ \/ rank[x] > rank[y]
           \/ rank[x] = rank[y] /\ place[x] < place[y]
           \/ rank[x] = rank[y] /\ place[x] = place[y] /\ x < y
        /\ \/ rank[y] > rank[z]
           \/ rank[y] = rank[z] /\ place[y] < place[z]
           \/ rank[y] = rank[z] /\ place[y] = place[z] /\ y < z
    BY <1>3
  <2>2. /\ x \in Int /\ y \in Int /\ z \in Int
        /\ rank[x] \in Nat /\ rank[y] \in Nat /\ rank[z] \in Nat
        /\ place[x] \in Nat /\ place[y] \in Nat /\ place[z] \in Nat
    BY <1>2
  <2>3. \/ rank[x] > rank[z]
        \/ rank[x] = rank[z] /\ place[x] < place[z]
        \/ rank[x] = rank[z] /\ place[x] = place[z] /\ x < z
    BY <2>1, <2>2
  <2> QED
    BY <1>3, <2>3
<1>6. \A x, y \in D : x = y \/ <<x, y>> \in B \/ <<y, x>> \in B
  <2> SUFFICES ASSUME NEW x \in D, NEW y \in D
               PROVE  x = y \/ <<x, y>> \in B \/ <<y, x>> \in B
    OBVIOUS
  <2> HIDE DEF D
  <2>1. /\ x \in Int /\ y \in Int /\ rank[x] \in Nat /\ rank[y] \in Nat
        /\ place[x] \in Nat /\ place[y] \in Nat
    BY <1>2
  <2>2. \/ x = y
        \/ \/ rank[x] > rank[y]
           \/ rank[x] = rank[y] /\ place[x] < place[y]
           \/ rank[x] = rank[y] /\ place[x] = place[y] /\ x < y
        \/ \/ rank[y] > rank[x]
           \/ rank[y] = rank[x] /\ place[y] < place[x]
           \/ rank[y] = rank[x] /\ place[y] = place[x] /\ y < x
    BY <2>1
  <2> QED
    BY <1>3, <2>2
<1>7. /\ r \in [1..n -> D]
      /\ \A x \in D : \E i \in 1..n : r[i] = x
      /\ \A i, j \in 1..n : i < j => <<r[i], r[j]>> \in B
  <2> HIDE DEF D, n
  <2> QED
    BY <1>1, <1>4, <1>5, <1>6, RankedIsInOrder
<1>8. Sorted(s) = [m \in 1..n |-> s[r[m]]]
  BY <1>0 DEF Sorted, B
<1> HIDE DEF r
<1>9. \A m \in 1..n : r[m] \in D /\ s[r[m]] \in FindingsOn(E)
  BY <1>0, <1>7
<1>10. Sorted(s) \in Seq(FindingsOn(E)) /\ Len(Sorted(s)) = n
  <2> HIDE DEF n
  <2> QED
    BY <1>0, <1>8, <1>9
<1>11. \A m, k \in 1..n : m # k => r[m] # r[k]
  <2> SUFFICES ASSUME NEW m \in 1..n, NEW k \in 1..n, m # k
               PROVE  r[m] # r[k]
    OBVIOUS
  <2>1. m < k \/ k < m
    BY <1>0
  <2> HIDE DEF D, n
  <2>2. <<r[m], r[k]>> \in B \/ <<r[k], r[m]>> \in B
    BY <1>7, <2>1
  <2> QED
    BY <1>4, <1>9, <2>2
<1>12. \A m, k \in 1..n : m < k =>
         SeverityRank(Sorted(s)[m]) >= SeverityRank(Sorted(s)[k])
  <2> SUFFICES ASSUME NEW m \in 1..n, NEW k \in 1..n, m < k
               PROVE  SeverityRank(Sorted(s)[m]) >= SeverityRank(Sorted(s)[k])
    OBVIOUS
  <2>1. r[m] \in D /\ r[k] \in D /\ <<r[m], r[k]>> \in B
    BY <1>7, <1>9
  <2>2. rank[r[m]] >= rank[r[k]]
    <3> HIDE DEF D, n
    <3>1. rank[r[m]] \in Nat /\ rank[r[k]] \in Nat
      BY <1>2, <2>1
    <3>2. rank[r[m]] > rank[r[k]] \/ rank[r[m]] = rank[r[k]]
      BY <1>3, <2>1
    <3> QED
      BY <3>1, <3>2
  <2>3. rank[r[m]] = SeverityRank(s[r[m]]) /\ rank[r[k]] = SeverityRank(s[r[k]])
    BY <2>1 DEF rank
  <2>4. Sorted(s)[m] = s[r[m]] /\ Sorted(s)[k] = s[r[k]]
    BY <1>8
  <2> QED
    BY <2>2, <2>3, <2>4
<1>13. r \in [1..n -> 1..n]
  BY <1>0, <1>7
<1>14. \A m \in 1..n : Sorted(s)[m] = s[r[m]]
  BY <1>8
<1>15. \A i \in 1..n : \E m \in 1..n : r[m] = i
  BY <1>0, <1>7
<1> QED
  BY <1>10, <1>11, <1>12, <1>13, <1>14, <1>15

\* Sorting leaves the ids as many times as they were.
LEMMA SortingKeepsIds ==
    ASSUME NEW E, NEW s \in Seq(FindingsOn(E)), NEW ids
    PROVE  /\ Without(s, ids) => Without(Sorted(s), ids)
           /\ Once(s, ids) => Once(Sorted(s), ids)
PROOF
<1> DEFINE n == Len(s)
           t == Sorted(s)
<1>1. PICK r \in [1..n -> 1..n] :
        /\ \A i \in 1..n : \E m \in 1..n : r[m] = i
        /\ \A m, k \in 1..n : m # k => r[m] # r[k]
        /\ \A m \in 1..n : t[m] = s[r[m]]
  BY SortedIsSorted
<1>2. DOMAIN s = 1..n /\ DOMAIN t = 1..n
  <2>1. t \in Seq(FindingsOn(E)) /\ Len(t) = n
    BY SortedIsSorted
  <2> HIDE DEF t
  <2> QED
    BY <2>1
<1> HIDE DEF n, t
<1>3. Without(s, ids) => Without(t, ids)
  BY <1>1, <1>2 DEF Without
<1>4. ASSUME Once(s, ids)
      PROVE  Once(t, ids)
  <2>1. PICK i \in 1..n : s[i].id \in ids /\ \A j \in 1..n : s[j].id \in ids => j = i
    BY <1>2, <1>4 DEF Once
  <2>2. PICK m \in 1..n : r[m] = i
    BY <1>1
  <2>3. t[m].id \in ids
    BY <1>1, <2>1, <2>2
  <2>4. ASSUME NEW k \in 1..n, t[k].id \in ids
        PROVE  k = m
    <3>1. r[k] = i
      BY <1>1, <2>1, <2>4
    <3> QED
      BY <1>1, <2>2, <3>1
  <2> QED
    BY <1>2, <2>3, <2>4 DEF Once
<1> QED
  BY <1>3, <1>4 DEF t

\* A finished report is as limited as it was, and its status fits its findings.
LEMMA FinishedTells ==
    ASSUME NEW r, Filled(r), r.status \in {"ok", "limited"}
    PROVE  /\ Filled(Finish(r))
           /\ Finish(r).findings = Sorted(r.findings)
           /\ Finish(r).evidence = r.evidence /\ Finish(r).limited = r.limited
           /\ r.status = "limited" => Finish(r).status = "limited"
           /\ Finish(r).status = "ok" => ~HasIssue(Finish(r))
           /\ Finish(r).status = "issues_detected" => HasIssue(Finish(r))
           /\ Finish(r).status # "blocked"
PROOF
<1> DEFINE s == SortFindings(r)
<1>1. /\ DOMAIN s = DOMAIN r /\ s.status = r.status /\ s.limited = r.limited
      /\ s.findings = Sorted(r.findings) /\ s.evidence = r.evidence
  BY DEF SortFindings, Filled
<1> HIDE DEF s
<1>2. s.findings \in Seq(FindingsOn(s.evidence))
  BY <1>1, SortedIsSorted DEF Filled
<1>3. Filled(s)
  BY <1>1, <1>2 DEF Filled
<1> DEFINE t == [s EXCEPT !.status = "issues_detected"]
<1>4. /\ DOMAIN t = DOMAIN s /\ t.status = "issues_detected" /\ t.limited = s.limited
      /\ t.findings = s.findings /\ t.evidence = s.evidence
  BY <1>3 DEF Filled
<1> HIDE DEF t
<1>5. Filled(t) /\ (HasIssue(t) <=> HasIssue(s))
  BY <1>3, <1>4 DEF Filled, ReportStatus, HasIssue
<1>6. Finish(r) = IF s.status \notin {"blocked", "limited"} /\ HasIssue(s) THEN t ELSE s
  BY DEF Finish, FinalizeStatus, s, t
<1> QED
  BY <1>1, <1>3, <1>4, <1>5, <1>6

\* The projection of ranked findings cuts none that is worse than one it keeps.
LEMMA ProjectionKeepsWorst ==
    ASSUME NEW r, Filled(r), NEW level,
           \A m, k \in 1..Len(r.findings) :
             m < k => SeverityRank(r.findings[m]) >= SeverityRank(r.findings[k])
    PROVE  LET kept == Project(r, level).findings
           IN  \A f \in Range(r.findings) \ Range(kept) :
                 /\ Len(kept) = MaxCompactFindings
                 /\ \A g \in Range(kept) : SeverityRank(g) >= SeverityRank(f)
PROOF
<1> DEFINE s == r.findings
           n == Len(s)
           k == IF n < MaxCompactFindings THEN n ELSE MaxCompactFindings
           kept == Project(r, level).findings
<1>1. s \in Seq(FindingsOn(r.evidence)) /\ n \in Nat /\ k \in 0..n
      /\ (k < n => k = MaxCompactFindings)
  BY DEF Filled, MaxCompactFindings
<1>2. CASE level # "compact"
  <2>1. kept = s
    BY <1>2 DEF Project
  <2> HIDE DEF kept
  <2> QED
    BY <2>1 DEF kept
<1>3. CASE level = "compact"
  <2>1. kept = SubSeq(s, 1, k)
    BY <1>3 DEF Project, Truncate, Filled
  <2> HIDE DEF kept
  <2> DEFINE q == SubSeq(s, 1, k)
  <2>2. Len(q) = k /\ DOMAIN q = 1..k /\ \A i \in 1..k : q[i] = s[i]
    <3> HIDE DEF k, s, n
    <3>1. s \in Seq(FindingsOn(r.evidence)) /\ k \in 0..Len(s)
      BY <1>1 DEF n
    <3> QED
      BY <3>1
  <2> HIDE DEF q
  <2>3. ASSUME NEW f \in Range(s) \ Range(q)
        PROVE  Len(q) = MaxCompactFindings
                 /\ \A g \in Range(q) : SeverityRank(g) >= SeverityRank(f)
    <3>1. PICK i \in 1..n : f = s[i]
      BY <1>1 DEF Range
    <3>2. i \notin 1..k
      BY <2>2, <2>3, <3>1 DEF Range
    <3>3. k < i
      <4> HIDE DEF n, k
      <4> QED
        BY <1>1, <3>2
    <3>4. ASSUME NEW g \in Range(q)
          PROVE  SeverityRank(g) >= SeverityRank(f)
      <4>1. PICK j \in 1..k : g = s[j]
        BY <2>2 DEF Range
      <4>2. j \in 1..n /\ j < i
        <5> HIDE DEF n, k
        <5> QED
          BY <1>1, <3>3
      <4>3. SeverityRank(s[j]) >= SeverityRank(s[i])
        BY <4>2
      <4> QED
        BY <3>1, <4>1, <4>3
    <3>5. k < n
      <4> HIDE DEF n, k
      <4> QED
        BY <1>1, <3>3
    <3> QED
      BY <1>1, <2>2, <3>4, <3>5
  <2>4. kept = q
    BY <2>1 DEF q
  <2> QED
    BY <2>3, <2>4 DEF kept
<1> QED
  BY <1>2, <1>3

LEMMA CountOfIds ==
    ASSUME NEW E, NEW s \in Seq(FindingsOn(E)), NEW ids
    PROVE  /\ Without(s, ids) => Cardinality({i \in DOMAIN s : s[i].id \in ids}) = 0
           /\ Once(s, ids) => Cardinality({i \in DOMAIN s : s[i].id \in ids}) = 1
PROOF
<1> DEFINE S == {i \in DOMAIN s : s[i].id \in ids}
<1>1. ASSUME Without(s, ids)
      PROVE  Cardinality(S) = 0
  <2>1. S = {}
    BY <1>1 DEF Without
  <2> HIDE DEF S
  <2> QED
    BY <2>1, FS_EmptySet
<1>2. ASSUME Once(s, ids)
      PROVE  Cardinality(S) = 1
  <2>1. PICK i \in DOMAIN s : s[i].id \in ids /\ \A j \in DOMAIN s : s[j].id \in ids => j = i
    BY <1>2, Zenon DEF Once
  <2>2. S = {i}
    BY <2>1, Zenon
  <2> HIDE DEF S
  <2> QED
    BY <2>2, FS_Singleton
<1> QED
  BY <1>1, <1>2

LEMMA ReportsStart == ReportIdle => ReportInvariant
PROOF
<1> SUFFICES ASSUME ReportIdle
             PROVE  ReportInvariant
  OBVIOUS
<1>1. /\ call = NoCall /\ step = "idle" /\ todo = {} /\ found = NothingFound
      /\ report = BeginReport /\ answer = NoAnswer /\ unread = {}
  BY DEF ReportIdle
<1>2. Filled(report)
  BY <1>1, BeginIsFilled
<1>3. FoundOn(found, report.evidence)
  BY <1>1 DEF FoundOn, NothingFound
<1>4. LimitsTold
  BY <1>1, BeginIsFilled DEF LimitsTold
<1>5. ConnectionTold
  BY <1>1 DEF ConnectionTold, NoCall
<1>6. answer.kind # "report"
  BY <1>1 DEF NoAnswer
<1>7. StepsFit
  BY <1>1 DEF StepsFit
<1> QED
  BY <1>1, <1>2, <1>3, <1>4, <1>5, <1>6, <1>7 DEF ReportInvariant

\* A handler that goes on with a report that continues the one it had.
LEMMA ReportContinued ==
    ASSUME ReportInvariant, Fits(call.tool, step), step # "outcome", NEW next, NEW r,
           step' = next, report' = r, answer' = answer, call' = call, answer = NoAnswer,
           todo' \in SUBSET Port, Continues(report, r), FoundOn(found', r.evidence),
           \/ unread' \cap CoreReads = unread \cap CoreReads
           \/ r.status = "limited" /\ r.limited = TRUE
           \/ call.tool = "list_dev_servers",
           Fits(call.tool, next), next \notin {"resolve", "validate", "outcome"},
           next \in AfterProbe /\ call.tool = "diagnose_local_webapp" =>
             step \in AfterProbe \/ GetEvidence \in r.evidence
    PROVE  ReportInvariant'
PROOF
<1>1. Filled(r) /\ report.evidence \subseteq r.evidence
  BY DEF Continues
<1>2. step \notin {"idle", "answered"} /\ next \notin {"idle", "answered"}
  BY DEF Fits, BeforeProbe, AfterProbe
<1>3. report.status \in {"ok", "limited"} /\ Filled(report)
  BY <1>2 DEF ReportInvariant, LimitsTold
<1>4. LimitsTold'
  <2>1. r.status \in {"ok", "limited"}
    BY <1>3 DEF Continues
  <2>2. ASSUME call.tool # "list_dev_servers", unread' \cap CoreReads # {}
        PROVE  r.status = "limited" /\ r.limited = TRUE
    <3>1. CASE r.status = "limited" /\ r.limited = TRUE
      BY <3>1
    <3>2. CASE unread' \cap CoreReads = unread \cap CoreReads
      <4>1. report.status = "limited" /\ report.limited = TRUE
        BY <2>2, <3>2 DEF ReportInvariant, LimitsTold
      <4> QED
        BY <4>1 DEF Continues
    <3> QED
      BY <2>2, <3>1, <3>2
  <2> QED
    BY <1>2, <2>1, <2>2 DEF LimitsTold
<1>5. ConnectionTold'
  <2> SUFFICES ASSUME call.tool = "diagnose_local_webapp"
               PROVE  /\ Without(r.findings, ConnectionIds \cup HttpIds)
                      /\ next \in AfterProbe => GetEvidence \in r.evidence
    BY DEF ConnectionTold
  <2>1. step \in BeforeProbe \cup AfterProbe
    BY DEF Fits
  <2>2. Without(report.findings, ConnectionIds \cup HttpIds)
    BY <2>1 DEF ReportInvariant, ConnectionTold
  <2>3. Without(r.findings, ConnectionIds \cup HttpIds)
    BY <2>2 DEF Without, Continues, Special
  <2>4. next \in AfterProbe => GetEvidence \in r.evidence
    BY <1>1 DEF ReportInvariant, ConnectionTold
  <2> QED
    BY <2>3, <2>4
<1>6. StepsFit'
  BY DEF StepsFit
<1>7. answer'.kind # "report"
  BY DEF NoAnswer
<1>8. Filled(report)' /\ FoundOn(found, report.evidence)' /\ todo' \subseteq Port
      /\ call' \in Calls \cup {NoCall}
  BY <1>1 DEF ReportInvariant, Filled, FoundOn
<1> QED
  BY <1>4, <1>5, <1>6, <1>7, <1>8 DEF ReportInvariant

\* A handler that returns a report whose findings are ranked.
LEMMA ReportReturned ==
    ASSUME ReportInvariant, NEW r, Return(r), call' = call, todo' \in SUBSET Port,
           Filled(r), FoundOn(found', r.evidence),
           \A m, k \in 1..Len(r.findings) :
             m < k => SeverityRank(r.findings[m]) >= SeverityRank(r.findings[k]),
           StatusHonest', OneConnectionFinding'
    PROVE  ReportInvariant'
PROOF
<1>1. /\ report' = r /\ step' = "answered"
      /\ answer' = [kind |-> "report", report |-> Project(r, call.detail)]
  BY DEF Return
<1>2. answer'.kind = "report" /\ answer'.report = Project(r, call.detail)
  BY <1>1
<1>3. WorstKept'
  <2>1. \A f \in Range(r.findings) \ Range(Project(r, call.detail).findings) :
          /\ Len(Project(r, call.detail).findings) = MaxCompactFindings
          /\ \A g \in Range(Project(r, call.detail).findings) :
               SeverityRank(g) >= SeverityRank(f)
    BY ProjectionKeepsWorst
  <2> QED
    BY <1>1, <1>2, <2>1 DEF WorstKept, Range, SeverityRank, Place, MaxCompactFindings
<1>4. StepsFit'
  BY <1>1, <1>2 DEF StepsFit
<1>5. LimitsTold'
  BY <1>1 DEF LimitsTold, StatusHonest
<1>6. ConnectionTold'
  BY <1>1 DEF ConnectionTold, BeforeProbe, AfterProbe
<1>7. Filled(report)' /\ FoundOn(found, report.evidence)' /\ todo' \subseteq Port
      /\ call' \in Calls \cup {NoCall}
  BY <1>1 DEF ReportInvariant, Filled, FoundOn
<1> QED
  BY <1>3, <1>4, <1>5, <1>6, <1>7 DEF ReportInvariant

\* A handler that finishes its report and returns it.
LEMMA ReportFinished ==
    ASSUME ReportInvariant, NEW r, Return(Finish(r)), call' = call, todo' \in SUBSET Port,
           Filled(r), r.status \in {"ok", "limited"}, FoundOn(found', r.evidence),
           unread' \cap CoreReads # {} => r.status = "limited" /\ r.limited = TRUE,
           call.tool = "diagnose_local_webapp" =>
             IF NotListening(found'.probe.outcome)
             THEN Once(r.findings, ConnectionIds) /\ Without(r.findings, HttpIds)
             ELSE Without(r.findings, ConnectionIds)
    PROVE  ReportInvariant'
PROOF
<1> DEFINE f == Finish(r)
<1>1. /\ Filled(f) /\ f.findings = Sorted(r.findings) /\ f.evidence = r.evidence
      /\ f.limited = r.limited /\ f.status # "blocked"
      /\ r.status = "limited" => f.status = "limited"
      /\ f.status = "ok" => ~HasIssue(f)
      /\ f.status = "issues_detected" => HasIssue(f)
  BY FinishedTells
<1>2. Return(f) /\ report' = f
  BY DEF Return
<1> HIDE DEF f
<1>3. r.findings \in Seq(FindingsOn(r.evidence))
  BY DEF Filled
<1>4. \A m, k \in 1..Len(f.findings) :
        m < k => SeverityRank(f.findings[m]) >= SeverityRank(f.findings[k])
  BY <1>1, <1>3, SortedIsSorted
<1>5. StatusHonest'
  <2>1. HasIssue(report)' <=> HasIssue(f)
    BY <1>2 DEF HasIssue, SeverityRank, Place, FindingSeverity
  <2>2. unread' \cap CoreReads # {} => f.status = "limited" /\ f.limited = TRUE
    BY <1>1
  <2> QED
    BY <1>1, <1>2, <2>1, <2>2 DEF StatusHonest, CoreReads
<1>6. OneConnectionFinding'
  <2> DEFINE count(ids) == Cardinality({i \in DOMAIN f.findings : f.findings[i].id \in ids})
             listening == ~NotListening(found'.probe.outcome)
  <2>1. f.findings \in Seq(FindingsOn(f.evidence))
    BY <1>1 DEF Filled
  <2>2. ASSUME call.tool = "diagnose_local_webapp"
        PROVE  /\ listening => count(ConnectionIds) = 0
               /\ ~listening => count(ConnectionIds) = 1 /\ count(HttpIds) = 0
    <3>1. CASE listening
      <4>1. Without(f.findings, ConnectionIds)
        BY <1>1, <1>3, <2>2, <3>1, SortingKeepsIds
      <4> QED
        BY <2>1, <3>1, <4>1, CountOfIds
    <3>2. CASE ~listening
      <4>1. Once(f.findings, ConnectionIds) /\ Without(f.findings, HttpIds)
        BY <1>1, <1>3, <2>2, <3>2, SortingKeepsIds
      <4> QED
        BY <2>1, <3>2, <4>1, CountOfIds
    <3> QED
      BY <3>1, <3>2
  <2>3. ASSUME call.tool = "diagnose_local_webapp"
        PROVE  /\ count(ConnectionIds) = IF NotListening(found'.probe.outcome) THEN 1 ELSE 0
               /\ count(ConnectionIds) = 1 => count(HttpIds) = 0
    BY <2>2, <2>3
  <2> QED
    BY <1>2, <2>3, Zenon DEF OneConnectionFinding, ConnectionIds, HttpIds, NotListening
<1>7. FoundOn(found', f.evidence)
  BY <1>1
<1> QED
  BY <1>1, <1>2, <1>4, <1>5, <1>6, <1>7, ReportReturned

\* What an earlier step left for later ones outlives the steps between.
LEMMA FoundStays ==
    ASSUME NEW f, NEW D, NEW E, FoundOn(f, D), D \subseteq E
    PROVE  FoundOn(f, E)
PROOF
  BY DEF FoundOn

LEMMA ScanFound ==
    ASSUME NEW f, NEW E, FoundOn(f, E)
    PROVE  /\ FoundOn([f EXCEPT !.scan = TRUE], E)
           /\ FoundOn([f EXCEPT !.owner = TRUE], E)
           /\ \A x \in BOOLEAN : FoundOn([f EXCEPT !.dropped = x], E)
           /\ \A x : FoundOn([f EXCEPT !.listed = @ \cup {x}], E)
           /\ \A x \in E : FoundOn([f EXCEPT !.cited = @ \cup {x}], E)
           /\ \A x \in E : \A y \in BOOLEAN :
                FoundOn([f EXCEPT !.signal = y, !.cited = @ \cup {x}], E)
PROOF
  BY DEF FoundOn

\* What the handlers know between two steps.
LEMMA InHandler ==
    ASSUME ReportInvariant, step \notin {"idle", "answered"}
    PROVE  /\ Fits(call.tool, step) /\ answer = NoAnswer /\ Filled(report)
           /\ report.status \in {"ok", "limited"} /\ todo \in SUBSET Port
           /\ FoundOn(found, report.evidence)
           /\ unread \cap CoreReads # {} /\ call.tool # "list_dev_servers" =>
                report.status = "limited" /\ report.limited = TRUE
PROOF
  BY DEF ReportInvariant, StepsFit, LimitsTold

LEMMA CallAcceptedByTool == ReportInvariant /\ AcceptCall => ReportInvariant'
PROOF
<1> SUFFICES ASSUME ReportInvariant, AcceptCall
             PROVE  ReportInvariant'
  OBVIOUS
<1>1. PICK c \in Calls : call' = c /\ step' = FirstStep[c.tool]
  BY DEF AcceptCall
<1>2. /\ step = "idle" /\ UNCHANGED <<todo, found, report, answer, unread>>
  BY DEF AcceptCall
<1>3. ReportIdle /\ Filled(report) /\ FoundOn(found, report.evidence)
  BY <1>2 DEF ReportInvariant, StepsFit, Fits, BeforeProbe, AfterProbe
<1>4. report = BeginReport /\ unread = {} /\ answer = NoAnswer
  BY <1>3 DEF ReportIdle
<1>5. c.tool \in {"diagnose_workspace", "diagnose_local_webapp",
                  "correlate_recent_failures", "list_dev_servers"}
  BY CallsAssumption DEF ReportCall
<1>6. /\ Fits(c.tool, step') /\ step' \notin AfterProbe \cup {"outcome", "answered"}
      /\ step' \in {"resolve", "validate", "app_log", "usable"}
  BY <1>1, <1>5 DEF FirstStep, Fits, BeforeProbe, AfterProbe
<1>7. LimitsTold'
  BY <1>2, <1>4, <1>6, BeginIsFilled DEF LimitsTold
<1>8. ConnectionTold'
  BY <1>2, <1>4, <1>6, BeginIsFilled DEF ConnectionTold, Without, BeforeProbe, AfterProbe
<1>9. StepsFit'
  BY <1>1, <1>2, <1>4, <1>6 DEF StepsFit
<1>10. answer'.kind # "report"
  BY <1>2, <1>4 DEF NoAnswer
<1>11. Filled(report)' /\ FoundOn(found, report.evidence)' /\ todo' \subseteq Port
       /\ call' \in Calls \cup {NoCall}
  BY <1>1, <1>2, <1>3 DEF ReportInvariant, Filled, FoundOn
<1> QED
  BY <1>7, <1>8, <1>9, <1>10, <1>11 DEF ReportInvariant

\* A report that is rejected at once: one finding, and blocked.
LEMMA ReportRejected ==
    ASSUME ReportInvariant, step \in {"resolve", "validate"}, NEW ev,
           NEW id \in Range(FindingIds) \ Special, NEW summary,
           Return([Conclude(report, ev, id, "high", "confirmed")
                     EXCEPT !.status = "blocked", !.summary = summary]),
           UNCHANGED <<call, todo, found, unread>>
    PROVE  ReportInvariant'
PROOF
<1> DEFINE s == Conclude(report, ev, id, "high", "confirmed")
           r == [s EXCEPT !.status = "blocked", !.summary = summary]
<1>1. report = BeginReport /\ unread = {} /\ Filled(report)
      /\ FoundOn(found, report.evidence) /\ todo \in SUBSET Port
  BY DEF ReportInvariant, LimitsTold
<1>2. Continues(report, s) /\ Len(s.findings) = 1
  <2>1. Len(report.findings) = 0
    BY <1>1, BeginIsFilled
  <2>2. "high" \in Range(FindingSeverity) /\ "confirmed" \in FindingConfidence
    BY SeveritiesAndConfidences
  <2> HIDE DEF s
  <2>3. Continues(report, s) /\ Len(s.findings) = Len(report.findings) + 1
    BY <1>1, <2>2, ConclusionContinues DEF s
  <2> QED
    BY <2>1, <2>3
<1> HIDE DEF s
<1>3. /\ DOMAIN r = DOMAIN s /\ r.status = "blocked" /\ r.limited = s.limited
      /\ r.findings = s.findings /\ r.evidence = s.evidence
  BY <1>2 DEF Continues, Filled
<1>4. Return(r)
  BY DEF s
<1> HIDE DEF r
<1>5. Filled(r) /\ FoundOn(found', r.evidence)
  BY <1>1, <1>2, <1>3 DEF Continues, Filled, FoundOn, ReportStatus
<1>6. \A m, k \in 1..Len(r.findings) :
        m < k => SeverityRank(r.findings[m]) >= SeverityRank(r.findings[k])
  BY <1>2, <1>3
<1>7. report' = r
  BY <1>4 DEF Return
<1>8. StatusHonest'
  BY <1>1, <1>2, <1>3, <1>7 DEF StatusHonest
<1>9. OneConnectionFinding'
  <2>1. report'.status = "blocked"
    BY <1>3, <1>7
  <2> QED
    BY <2>1, Zenon DEF OneConnectionFinding
<1> QED
  BY <1>1, <1>4, <1>5, <1>6, <1>8, <1>9, ReportReturned

\* A step that only adds to the report and touches no core read.
LEMMA ReportGoesOn ==
    ASSUME ReportInvariant, step \notin {"idle", "answered", "outcome"}, NEW next, NEW r,
           GoOn(next, r), call' = call, todo' \in SUBSET Port, Continues(report, r),
           FoundOn(found', r.evidence), unread' \cap CoreReads = unread \cap CoreReads,
           Fits(call.tool, next), next \notin {"resolve", "validate", "outcome"},
           next \in AfterProbe /\ call.tool = "diagnose_local_webapp" =>
             step \in AfterProbe \/ GetEvidence \in r.evidence
    PROVE  ReportInvariant'
PROOF
<1>1. Fits(call.tool, step) /\ answer = NoAnswer
  BY InHandler
<1>2. step' = next /\ report' = r /\ answer' = answer
  BY DEF GoOn
<1> QED
  BY <1>1, <1>2, ReportContinued

\* A core read fails: the report is limited from now on.
LEMMA ReportIsLimited ==
    ASSUME ReportInvariant, step \notin {"idle", "answered", "outcome"}, NEW next,
           GoOn(next, MarkLimited(report)), UNCHANGED <<call, found>>, todo' \in SUBSET Port,
           Fits(call.tool, next), next \notin {"resolve", "validate", "outcome"},
           call.tool # "diagnose_local_webapp"
    PROVE  ReportInvariant'
PROOF
<1> DEFINE r == MarkLimited(report)
<1>1. Fits(call.tool, step) /\ answer = NoAnswer /\ Filled(report)
      /\ FoundOn(found, report.evidence)
  BY InHandler
<1>2. step' = next /\ report' = r /\ answer' = answer
  BY DEF GoOn
<1>3. Continues(report, r) /\ r.status = "limited" /\ r.limited = TRUE
  BY <1>1, LimitedContinues
<1> HIDE DEF r
<1>4. FoundOn(found', r.evidence)
  BY <1>1, <1>3, FoundStays DEF Continues
<1> QED
  BY <1>1, <1>2, <1>3, <1>4, ReportContinued

\* The evidence that a step adds, checked or concluded from.
LEMMA AddedToReport ==
    ASSUME NEW r, Filled(r), NEW ev, NEW dimension
    PROVE  /\ Continues(r, AddEvidence(r, ev))
           /\ Continues(r, AddChecked(AddEvidence(r, ev), dimension))
           /\ Continues(r, AddEvidence(NoteLimitation(r), ev))
           /\ Continues(r, AddChecked(AddEvidence(NoteLimitation(r), ev), dimension))
           /\ ev \in AddEvidence(r, ev).evidence
           /\ ev \in AddChecked(AddEvidence(r, ev), dimension).evidence
           /\ ev \in AddEvidence(NoteLimitation(r), ev).evidence
           /\ ev \in AddChecked(AddEvidence(NoteLimitation(r), ev), dimension).evidence
PROOF
<1> DEFINE n == NoteLimitation(r)
           s == AddEvidence(r, ev)
           t == AddEvidence(n, ev)
<1>1. Continues(r, n)
  BY LimitedContinues
<1>2. Filled(n)
  BY <1>1 DEF Continues
<1> HIDE DEF n
<1>3. Continues(r, s) /\ ev \in s.evidence /\ Continues(n, t) /\ ev \in t.evidence
  BY <1>2, EvidenceContinues
<1> HIDE DEF s, t
<1>4. Filled(s) /\ Filled(t) /\ Continues(r, t)
  BY <1>1, <1>3, ContinuesOn DEF Continues
<1>5. /\ Continues(s, AddChecked(s, dimension)) /\ Continues(t, AddChecked(t, dimension))
      /\ AddChecked(s, dimension).evidence = s.evidence
      /\ AddChecked(t, dimension).evidence = t.evidence
  BY <1>4, CheckedContinues
<1>6. Continues(r, AddChecked(s, dimension)) /\ Continues(r, AddChecked(t, dimension))
  BY <1>3, <1>4, <1>5, ContinuesOn
<1> QED
  BY <1>3, <1>4, <1>5, <1>6 DEF s, t, n

-----------------------------------------------------------------------------
(* diagnose_workspace *)

LEMMA WorkspaceResolved == ReportInvariant /\ ResolveWorkspace => ReportInvariant'
PROOF
<1> SUFFICES ASSUME ReportInvariant, ResolveWorkspace
             PROVE  ReportInvariant'
  OBVIOUS
<1>1. step = "resolve" /\ UNCHANGED <<call, todo, found, unread>>
  BY DEF ResolveWorkspace, At
<1>2. /\ Fits(call.tool, step) /\ Filled(report) /\ FoundOn(found, report.evidence)
      /\ todo \in SUBSET Port
  BY <1>1, InHandler
<1>3. call.tool = "diagnose_workspace"
  BY <1>1, <1>2 DEF Fits, BeforeProbe, AfterProbe
<1>4. CASE GoOn("scan", report)
  <2>1. Continues(report, report) /\ Fits(call.tool, "scan") /\ "scan" \notin AfterProbe
    BY <1>2, <1>3, ContinuesItself DEF Fits, AfterProbe
  <2> QED
    BY <1>1, <1>2, <1>4, <2>1, ReportGoesOn
<1>5. CASE ~GoOn("scan", report)
  <2>1. PICK ev : Return([Conclude(report, ev, "workspace_path_rejected", "high", "confirmed")
                            EXCEPT !.status = "blocked", !.summary = "rejected"])
    BY <1>5, Zenon DEF ResolveWorkspace
  <2> QED
    BY <1>1, <2>1, ReportRejected, IdsAreListed
<1> QED
  BY <1>4, <1>5

LEMMA WorkspaceScanned == ReportInvariant /\ ScanWorkspace => ReportInvariant'
PROOF
<1> SUFFICES ASSUME ReportInvariant, ScanWorkspace
             PROVE  ReportInvariant'
  OBVIOUS
<1> DEFINE scanned == AddChecked(AddEvidence(report, WorkspaceEvidence), "workspace")
           gone == Conclude(scanned, WorkspaceEvidence, "workspace_unreachable", "critical",
                            "confirmed")
           r == [gone EXCEPT !.summary = "unreachable"]
<1>1. step = "scan" /\ UNCHANGED <<call, todo, unread>>
  BY DEF ScanWorkspace, At
<1>2. /\ Fits(call.tool, step) /\ Filled(report) /\ FoundOn(found, report.evidence)
      /\ todo \in SUBSET Port /\ report.status \in {"ok", "limited"}
      /\ unread \cap CoreReads # {} /\ call.tool # "list_dev_servers" =>
           report.status = "limited" /\ report.limited = TRUE
  BY <1>1, InHandler
<1>3. call.tool = "diagnose_workspace"
  BY <1>1, <1>2 DEF Fits, BeforeProbe, AfterProbe
<1>4. \/ found' = [found EXCEPT !.scan = TRUE] /\ GoOn("ports", scanned)
      \/ found' = found /\ Return(Finish(r))
  BY Zenon DEF ScanWorkspace
<1>5. Continues(report, scanned) /\ FoundOn(found, scanned.evidence)
  BY <1>2, AddedToReport, FoundStays DEF Continues
<1>6. Filled(scanned)
  BY <1>5 DEF Continues
<1> HIDE DEF scanned
<1>7. CASE found' = [found EXCEPT !.scan = TRUE] /\ GoOn("ports", scanned)
  <2>1. FoundOn(found', scanned.evidence)
    BY <1>5, <1>7, ScanFound
  <2>2. Fits(call.tool, "ports") /\ "ports" \notin AfterProbe
    BY <1>3 DEF Fits, AfterProbe
  <2> QED
    BY <1>1, <1>2, <1>5, <1>7, <2>1, <2>2, ReportGoesOn
<1>8. CASE found' = found /\ Return(Finish(r))
  <2>1. /\ "workspace_unreachable" \in Range(FindingIds) \ Special
        /\ "critical" \in Range(FindingSeverity) /\ "confirmed" \in FindingConfidence
    BY IdsAreListed, SeveritiesAndConfidences
  <2>2. Continues(scanned, gone)
    BY <1>6, <2>1, ConclusionContinues
  <2> HIDE DEF gone
  <2>3. Continues(report, gone)
    BY <1>5, <2>2, ContinuesOn
  <2>4. /\ DOMAIN r = DOMAIN gone /\ r.status = gone.status /\ r.limited = gone.limited
        /\ r.findings = gone.findings /\ r.evidence = gone.evidence
    BY <2>3 DEF Continues, Filled
  <2> HIDE DEF r
  <2>5. Continues(report, r)
    BY <2>3, <2>4 DEF Continues, Filled
  <2>6. /\ Filled(r) /\ r.status \in {"ok", "limited"} /\ FoundOn(found', r.evidence)
        /\ unread' \cap CoreReads # {} => r.status = "limited" /\ r.limited = TRUE
    BY <1>1, <1>2, <1>3, <1>8, <2>5, FoundStays DEF Continues
  <2> QED
    BY <1>1, <1>2, <1>3, <1>8, <2>6, ReportFinished
<1> QED
  BY <1>4, <1>7, <1>8

LEMMA PortsDiscovered == ReportInvariant /\ DiscoverPorts => ReportInvariant'
PROOF
<1> SUFFICES ASSUME ReportInvariant, DiscoverPorts
             PROVE  ReportInvariant'
  OBVIOUS
<1>1. step = "ports" /\ call' = call
  BY DEF DiscoverPorts, At
<1>2. /\ Fits(call.tool, step) /\ Filled(report) /\ FoundOn(found, report.evidence)
      /\ answer = NoAnswer
  BY <1>1, InHandler
<1>3. call.tool \in {"diagnose_workspace", "list_dev_servers"}
  BY <1>1, <1>2 DEF Fits, BeforeProbe, AfterProbe
<1>4. Fits(call.tool, "inspect") /\ "inspect" \notin AfterProbe
  BY <1>3 DEF Fits, AfterProbe
<1>5. call.ports \in SUBSET Port
  BY CallsAssumption DEF ReportInvariant, ReportCall, NoCall
<1>6. Continues(report, report)
  BY <1>2, ContinuesItself
<1>7. CASE /\ call.ports # {} /\ todo' \in Kept(call.ports) /\ Answers
           /\ found' = found /\ GoOn("inspect", report)
  BY <1>1, <1>2, <1>4, <1>5, <1>6, <1>7, ReportGoesOn DEF Answers, Kept
<1>10. PICK r : r = NoteNoPorts(report)
  OBVIOUS
<1>11. Continues(report, r) /\ r.status = report.status /\ r.evidence = report.evidence
  <2>1. r = report \/ r = AddChecked(report, "no_ports")
    BY <1>10 DEF NoteNoPorts
  <2> QED
    BY <1>2, <1>6, <2>1, CheckedContinues
<1>8. CASE /\ Answers /\ GoOn("inspect", NoteNoPorts(report))
           /\ \E listening \in SUBSET Port :
                /\ todo' \in {k \in Kept(listening) : Lowest(k, listening)}
                /\ found' = [found EXCEPT !.dropped = todo' # listening]
  <2>1. PICK listening \in SUBSET Port :
                /\ todo' \in {k \in Kept(listening) : Lowest(k, listening)}
                /\ found' = [found EXCEPT !.dropped = todo' # listening]
    BY <1>8
  <2>2. FoundOn(found', report.evidence)
    <3>1. (todo' # listening) \in BOOLEAN
      OBVIOUS
    <3> QED
      BY <1>2, <2>1, <3>1, ScanFound, Zenon
  <2>3. todo' \in SUBSET Port
    BY <2>1 DEF Kept
  <2> QED
    <3>1. GoOn("inspect", r) /\ FoundOn(found', r.evidence)
      BY <1>8, <1>10, <1>11, <2>2
    <3> QED
      BY <1>1, <1>4, <1>8, <1>11, <2>3, <3>1, ReportGoesOn DEF Answers
<1>9. CASE /\ Fails("ports") /\ todo' = {} /\ found' = found
           /\ GoOn("inspect", IF call.tool = "list_dev_servers" THEN report
                              ELSE MarkLimited(NoteNoPorts(report)))
  <2>1. CASE call.tool = "list_dev_servers"
    <3>1. GoOn("inspect", report)
      BY <1>9, <2>1
    <3> QED
      BY <1>1, <1>2, <1>4, <1>6, <1>9, <2>1, <3>1, ReportContinued DEF GoOn
  <2>2. CASE call.tool # "list_dev_servers"
    <3>1. GoOn("inspect", MarkLimited(r))
      BY <1>9, <1>10, <2>2
    <3>2. PICK l : l = MarkLimited(r)
      OBVIOUS
    <3>3. Continues(r, l) /\ l.status = "limited" /\ l.limited = TRUE
      BY <1>11, <3>2, LimitedContinues DEF Continues
    <3>4. Continues(report, l)
      BY <1>11, <3>3, ContinuesOn
    <3>5. FoundOn(found', l.evidence)
      BY <1>2, <1>9, <3>4, FoundStays DEF Continues
    <3>6. step' = "inspect" /\ report' = l /\ answer' = answer
      BY <3>1, <3>2 DEF GoOn
    <3> QED
      BY <1>1, <1>2, <1>4, <1>9, <3>3, <3>4, <3>5, <3>6, ReportContinued
  <2> QED
    BY <2>1, <2>2
<1> QED
  BY <1>7, <1>8, <1>9, Zenon DEF DiscoverPorts

\* Conclusions as the steps of the workspace and the correlation draw them.
LEMMA StepConcludes ==
    ASSUME ReportInvariant, step \notin {"idle", "answered", "outcome"}, NEW next, NEW ev,
           NEW id \in Range(FindingIds) \ Special,
           NEW severity \in {"low", "medium", "high", "critical"},
           NEW confidence \in {"confirmed", "observed"},
           GoOn(next, Conclude(report, ev, id, severity, confidence)),
           UNCHANGED <<call, found>>, todo' \in SUBSET Port,
           unread' \cap CoreReads = unread \cap CoreReads,
           Fits(call.tool, next), next \notin {"resolve", "validate", "outcome"},
           next \in AfterProbe /\ call.tool = "diagnose_local_webapp" =>
             step \in AfterProbe
    PROVE  ReportInvariant'
PROOF
<1> DEFINE r == Conclude(report, ev, id, severity, confidence)
<1>1. Filled(report) /\ FoundOn(found, report.evidence)
  BY InHandler
<1>2. severity \in Range(FindingSeverity) /\ confidence \in FindingConfidence
  BY SeveritiesAndConfidences
<1>3. Continues(report, r)
  BY <1>1, <1>2, ConclusionContinues
<1> HIDE DEF r
<1>4. FoundOn(found', r.evidence)
  BY <1>1, <1>3, FoundStays DEF Continues
<1>5. GoOn(next, r)
  BY DEF r
<1> QED
  BY <1>3, <1>4, <1>5, ReportGoesOn

\* Evidence that is added, checked or not, or nothing at all.
LEMMA StepAdds ==
    ASSUME ReportInvariant, step \notin {"idle", "answered", "outcome"}, NEW next, NEW r,
           \/ r = report
           \/ \E ev : r = AddEvidence(report, ev)
           \/ \E dimension : r = AddChecked(report, dimension)
           \/ \E ev, dimension : r = AddChecked(AddEvidence(report, ev), dimension)
           \/ r = NoteLimitation(report),
           GoOn(next, r), call' = call, todo' \in SUBSET Port,
           FoundOn(found', report.evidence),
           unread' \cap CoreReads = unread \cap CoreReads,
           Fits(call.tool, next), next \notin {"resolve", "validate", "outcome"},
           next \in AfterProbe /\ call.tool = "diagnose_local_webapp" =>
             step \in AfterProbe \/ GetEvidence \in r.evidence
    PROVE  ReportInvariant'
PROOF
<1>1. Filled(report)
  BY InHandler
<1>2. Continues(report, r)
  <2>1. CASE r = report
    BY <1>1, <2>1, ContinuesItself
  <2>2. CASE \E ev : r = AddEvidence(report, ev)
    BY <1>1, <2>2, EvidenceContinues
  <2>3. CASE \E dimension : r = AddChecked(report, dimension)
    BY <1>1, <2>3, CheckedContinues
  <2>4. CASE \E ev, dimension : r = AddChecked(AddEvidence(report, ev), dimension)
    BY <1>1, <2>4, AddedToReport
  <2>5. CASE r = NoteLimitation(report)
    BY <1>1, <2>5, LimitedContinues
  <2> QED
    BY <2>1, <2>2, <2>3, <2>4, <2>5
<1>3. FoundOn(found', r.evidence)
  BY <1>2, FoundStays DEF Continues
<1> QED
  BY <1>2, <1>3, ReportGoesOn

\* The reads of a workspace that are not core leave the core reads as they were.
LEMMA OtherReads ==
    /\ Answers => unread' \cap CoreReads = unread \cap CoreReads
    /\ \A x : Fails(x) /\ x \notin CoreReads =>
         unread' \cap CoreReads = unread \cap CoreReads
PROOF
  BY DEF Answers, Fails

LEMMA PortInspected == ReportInvariant /\ InspectPort => ReportInvariant'
PROOF
<1> SUFFICES ASSUME ReportInvariant, InspectPort
             PROVE  ReportInvariant'
  OBVIOUS
<1>1. /\ step = "inspect" /\ call' = call /\ found' = found
      /\ call.tool = "diagnose_workspace"
  BY DEF InspectPort, At
<1>2. FoundOn(found, report.evidence) /\ todo \in SUBSET Port
  BY <1>1, InHandler
<1>3. Fits(call.tool, "inspect") /\ "inspect" \notin AfterProbe
  BY <1>1 DEF Fits, AfterProbe
<1>4. PICK p \in Port :
          /\ todo' = todo \ {p}
          /\ \/ Fails("port") /\ GoOn("inspect", MarkLimited(report))
             \/ /\ Answers
                /\ \E related \in Relation :
                      GoOn("inspect",
                        IF related
                        THEN AddChecked(AddEvidence(report, PortEvidence(p)), "owner")
                        ELSE Conclude(report, PortEvidence(p),
                               "port_unrelated_process", "high", "confirmed"))
             \/ /\ Answers
                /\ GoOn("inspect",
                     IF call.ports # {}
                     THEN Conclude(report, PortEvidence(p),
                            "dev_server_not_running", "medium", "confirmed")
                     ELSE AddEvidence(report, PortEvidence(p)))
  BY Zenon DEF InspectPort
<1>5. todo' \in SUBSET Port
  BY <1>2, <1>4
<1> DEFINE ev == PortEvidence(p)
<1>6. CASE GoOn("inspect", MarkLimited(report))
  BY <1>1, <1>3, <1>5, <1>6, ReportIsLimited
<1>7. CASE Answers /\ GoOn("inspect", AddChecked(AddEvidence(report, ev), "owner"))
  BY <1>1, <1>2, <1>3, <1>5, <1>7, OtherReads, StepAdds
<1>8. CASE Answers /\ GoOn("inspect", AddEvidence(report, ev))
  BY <1>1, <1>2, <1>3, <1>5, <1>8, OtherReads, StepAdds
<1>9. CASE Answers /\ GoOn("inspect", Conclude(report, ev, "port_unrelated_process",
                                               "high", "confirmed"))
  BY <1>1, <1>3, <1>5, <1>9, OtherReads, IdsAreListed, StepConcludes
<1>10. CASE Answers /\ GoOn("inspect", Conclude(report, ev, "dev_server_not_running",
                                                "medium", "confirmed"))
  BY <1>1, <1>3, <1>5, <1>10, OtherReads, IdsAreListed, StepConcludes
<1> HIDE DEF ev
<1>11. \/ GoOn("inspect", MarkLimited(report))
       \/ Answers /\ GoOn("inspect", AddChecked(AddEvidence(report, ev), "owner"))
       \/ Answers /\ GoOn("inspect", AddEvidence(report, ev))
       \/ Answers /\ GoOn("inspect", Conclude(report, ev, "port_unrelated_process",
                                              "high", "confirmed"))
       \/ Answers /\ GoOn("inspect", Conclude(report, ev, "dev_server_not_running",
                                              "medium", "confirmed"))
  BY <1>4, Zenon DEF ev
<1> QED
  BY <1>6, <1>7, <1>8, <1>9, <1>10, <1>11, Zenon

LEMMA ResourcesRead == ReportInvariant /\ ReadResources => ReportInvariant'
PROOF
<1> SUFFICES ASSUME ReportInvariant, ReadResources
             PROVE  ReportInvariant'
  OBVIOUS
<1>1. /\ step = "inspect" /\ UNCHANGED <<call, found, todo>>
      /\ call.tool = "diagnose_workspace"
  BY DEF ReadResources, At
<1>2. FoundOn(found, report.evidence) /\ todo' \in SUBSET Port
  BY <1>1, InHandler
<1>3. Fits(call.tool, "drives") /\ "drives" \notin AfterProbe
  BY <1>1 DEF Fits, AfterProbe
<1>4. "memory" \notin CoreReads
  BY DEF CoreReads
<1>5. CASE /\ Answers
           /\ GoOn("drives", Conclude(report, MemoryEvidence, "memory_pressure",
                                      "medium", "observed"))
  BY <1>1, <1>2, <1>3, <1>5, OtherReads, IdsAreListed, StepConcludes
<1>6. CASE /\ Answers \/ Fails("memory")
           /\ GoOn("drives", AddChecked(AddEvidence(report, MemoryEvidence), "memory"))
  BY <1>1, <1>2, <1>3, <1>4, <1>6, OtherReads, StepAdds
<1>7. CASE GoOn("drives", MarkLimited(report))
  BY <1>1, <1>2, <1>3, <1>7, ReportIsLimited
<1> QED
  BY <1>5, <1>6, <1>7, Zenon DEF ReadResources

LEMMA DrivesRead == ReportInvariant /\ ReadDrives => ReportInvariant'
PROOF
<1> SUFFICES ASSUME ReportInvariant, ReadDrives
             PROVE  ReportInvariant'
  OBVIOUS
<1>1. step = "drives" /\ UNCHANGED <<call, found, todo>>
  BY DEF ReadDrives, At
<1>2. /\ FoundOn(found, report.evidence) /\ todo' \in SUBSET Port
      /\ Fits(call.tool, step)
  BY <1>1, InHandler
<1>3. Fits(call.tool, "events") /\ "events" \notin AfterProbe
  BY <1>1, <1>2 DEF Fits, BeforeProbe, AfterProbe
<1>4. "drives" \notin CoreReads
  BY DEF CoreReads
<1>5. CASE (Answers \/ Fails("drives")) /\ GoOn("events", report)
  BY <1>1, <1>2, <1>3, <1>4, <1>5, OtherReads, StepAdds
<1>6. CASE Answers /\ GoOn("events", AddEvidence(report, DiskEvidence))
  BY <1>1, <1>2, <1>3, <1>6, OtherReads, StepAdds
<1>7. CASE /\ Answers \/ Fails("drives")
           /\ GoOn("events", Conclude(report, DiskEvidence, "low_disk_space",
                                      "medium", "observed"))
  BY <1>1, <1>2, <1>3, <1>4, <1>7, OtherReads, IdsAreListed, StepConcludes
<1> QED
  BY <1>5, <1>6, <1>7, Zenon DEF ReadDrives

LEMMA EventsRead == ReportInvariant /\ ReadEvents => ReportInvariant'
PROOF
<1> SUFFICES ASSUME ReportInvariant, ReadEvents
             PROVE  ReportInvariant'
  OBVIOUS
<1>1. step = "events" /\ UNCHANGED <<call, found, todo>>
  BY DEF ReadEvents, At
<1>2. /\ FoundOn(found, report.evidence) /\ todo' \in SUBSET Port
      /\ Fits(call.tool, step)
  BY <1>1, InHandler
<1>3. Fits(call.tool, "conclude") /\ "conclude" \notin AfterProbe
  BY <1>1, <1>2 DEF Fits, BeforeProbe, AfterProbe
<1>4. "events" \notin CoreReads
  BY DEF CoreReads
<1>5. CASE Answers /\ GoOn("conclude", AddChecked(report, "events_skipped"))
  BY <1>1, <1>2, <1>3, <1>5, OtherReads, StepAdds
<1>6. CASE /\ Answers \/ Fails("events")
           /\ GoOn("conclude", Conclude(report, EventEvidence, "recent_error_events",
                                        "low", "observed"))
  BY <1>1, <1>2, <1>3, <1>4, <1>6, OtherReads, IdsAreListed, StepConcludes
<1>7. CASE /\ Answers \/ Fails("events")
           /\ GoOn("conclude", AddChecked(AddEvidence(report, EventEvidence), "events"))
  BY <1>1, <1>2, <1>3, <1>4, <1>7, OtherReads, StepAdds
<1> QED
  BY <1>5, <1>6, <1>7, Zenon DEF ReadEvents

LEMMA WorkspaceConcluded == ReportInvariant /\ ConcludeWorkspace => ReportInvariant'
PROOF
<1> SUFFICES ASSUME ReportInvariant, ConcludeWorkspace
             PROVE  ReportInvariant'
  OBVIOUS
<1> DEFINE summary == IF report.findings = <<>> THEN "healthy" ELSE report.findings[1].id
           r == [report EXCEPT !.summary = summary]
<1>1. /\ step = "conclude" /\ UNCHANGED <<call, found, todo, unread>>
      /\ call.tool = "diagnose_workspace"
  BY DEF ConcludeWorkspace, At
<1>2. /\ Filled(report) /\ FoundOn(found, report.evidence) /\ todo' \in SUBSET Port
      /\ report.status \in {"ok", "limited"}
      /\ unread \cap CoreReads # {} =>
           report.status = "limited" /\ report.limited = TRUE
  BY <1>1, InHandler
<1>3. Return(Finish(r))
  BY DEF ConcludeWorkspace
<1>4. /\ DOMAIN r = DOMAIN report /\ r.status = report.status
      /\ r.limited = report.limited /\ r.findings = report.findings
      /\ r.evidence = report.evidence
  BY <1>2 DEF Filled
<1> HIDE DEF r
<1>5. Filled(r) /\ FoundOn(found', r.evidence)
  BY <1>1, <1>2, <1>4 DEF Filled
<1> QED
  BY <1>1, <1>2, <1>3, <1>4, <1>5, ReportFinished

-----------------------------------------------------------------------------
(* correlate_recent_failures *)

LEMMA LogIsRead ==
    ASSUME ReportInvariant, NEW here \in {"app_log", "sys_log"},
           NEW next \in {"sys_log", "port_state"}, NEW evidence, ReadLog(here, next, evidence)
    PROVE  ReportInvariant'
PROOF
<1>1. step = here /\ UNCHANGED <<call, todo>>
  BY DEF ReadLog, At
<1>2. /\ FoundOn(found, report.evidence) /\ todo' \in SUBSET Port /\ Filled(report)
      /\ Fits(call.tool, step)
  BY <1>1, InHandler
<1>3. /\ Fits(call.tool, next) /\ next \notin {"resolve", "validate", "outcome"}
      /\ call.tool # "diagnose_local_webapp"
  BY <1>1, <1>2 DEF Fits, BeforeProbe, AfterProbe
<1>4. CASE /\ Answers
           /\ LET r == AddEvidence(report, evidence)
              IN  GoOn(next, IF here = "app_log" THEN AddChecked(r, "app_events") ELSE r)
           /\ found' = [found EXCEPT !.signal = TRUE, !.cited = @ \cup {evidence}]
  <2> DEFINE s == AddEvidence(report, evidence)
             t == AddChecked(s, "app_events")
             r == IF here = "app_log" THEN t ELSE s
  <2>5. /\ Continues(report, s) /\ evidence \in s.evidence
        /\ Continues(report, t) /\ evidence \in t.evidence
    BY <1>2, AddedToReport
  <2> HIDE DEF s, t
  <2>1. Continues(report, r) /\ evidence \in r.evidence
    BY <2>5
  <2> HIDE DEF r
  <2>2. FoundOn(found, r.evidence)
    BY <1>2, <2>1, FoundStays DEF Continues
  <2>3. FoundOn(found', r.evidence)
    BY <1>4, <2>1, <2>2, ScanFound
  <2>4. GoOn(next, r)
    BY <1>4, Zenon DEF r, s, t
  <2> QED
    BY <1>1, <1>2, <1>3, <1>4, <2>1, <2>3, <2>4, OtherReads, ReportGoesOn
<1>5. CASE Answers /\ found' = found /\ GoOn(next, report)
  BY <1>1, <1>2, <1>3, <1>5, OtherReads, StepAdds
<1>6. CASE found' = found /\ GoOn(next, MarkLimited(report))
  BY <1>1, <1>2, <1>3, <1>6, ReportIsLimited
<1> QED
  BY <1>4, <1>5, <1>6, Zenon DEF ReadLog

LEMMA LogsRead == ReportInvariant /\ (ReadApplicationLog \/ ReadSystemLog) => ReportInvariant'
PROOF
  BY LogIsRead DEF ReadApplicationLog, ReadSystemLog

LEMMA PortStateRead == ReportInvariant /\ ReadPortState => ReportInvariant'
PROOF
<1> SUFFICES ASSUME ReportInvariant, ReadPortState
             PROVE  ReportInvariant'
  OBVIOUS
<1>1. step = "port_state" /\ UNCHANGED <<call, todo>>
  BY DEF ReadPortState, At
<1>2. /\ FoundOn(found, report.evidence) /\ todo' \in SUBSET Port /\ Filled(report)
      /\ Fits(call.tool, step)
  BY <1>1, InHandler
<1>3. call.tool = "correlate_recent_failures" /\ Fits(call.tool, "context")
  BY <1>1, <1>2 DEF Fits, BeforeProbe, AfterProbe
<1>4. CASE Answers /\ found' = found /\ GoOn("context", report)
  BY <1>1, <1>2, <1>3, <1>4, OtherReads, StepAdds
<1>5. ASSUME NEW p \in call.ports, NEW listening \in BOOLEAN, Answers,
             found' = [found EXCEPT !.signal = @ \/ ~listening,
                                    !.cited = @ \cup {PortEvidence(p)}],
             GoOn("context",
                  IF listening
                  THEN AddChecked(AddEvidence(NoteLimitation(report), PortEvidence(p)), "owner")
                  ELSE AddEvidence(NoteLimitation(report), PortEvidence(p)))
      PROVE  ReportInvariant'
  <2> DEFINE ev == PortEvidence(p)
  <2>1. PICK r : /\ GoOn("context", r)
                 /\ \/ r = AddEvidence(NoteLimitation(report), ev)
                    \/ r = AddChecked(AddEvidence(NoteLimitation(report), ev), "owner")
    BY <1>5
  <2> HIDE DEF ev
  <2>2. Continues(report, r) /\ ev \in r.evidence
    BY <1>2, <2>1, AddedToReport
  <2>3. FoundOn(found, r.evidence)
    BY <1>2, <2>2, FoundStays DEF Continues
  <2>4. FoundOn(found', r.evidence)
    <3>1. (found.signal \/ ~listening) \in BOOLEAN
      BY <2>3 DEF FoundOn
    <3>2. PICK signal \in BOOLEAN :
            found' = [found EXCEPT !.signal = signal, !.cited = @ \cup {ev}]
      BY <1>5, <3>1, Zenon DEF ev
    <3> QED
      BY <2>2, <2>3, <3>2, ScanFound
  <2> QED
    BY <1>1, <1>2, <1>3, <1>5, <2>1, <2>2, <2>4, OtherReads, ReportGoesOn
<1>6. CASE found' = found /\ GoOn("context", MarkLimited(report))
  BY <1>1, <1>2, <1>3, <1>6, ReportIsLimited
<1> QED
  BY <1>4, <1>5, <1>6, Zenon DEF ReadPortState

LEMMA ContextRead == ReportInvariant /\ ReadContext => ReportInvariant'
PROOF
<1> SUFFICES ASSUME ReportInvariant, ReadContext
             PROVE  ReportInvariant'
  OBVIOUS
<1>1. /\ step = "context" /\ UNCHANGED <<call, todo, unread>>
      /\ call.tool = "correlate_recent_failures"
  BY DEF ReadContext, At
<1>2. /\ FoundOn(found, report.evidence) /\ todo' \in SUBSET Port /\ Filled(report)
      /\ Fits(call.tool, "correlate")
  BY <1>1, InHandler DEF Fits
<1>3. CASE found' = found /\ (GoOn("correlate", report)
                              \/ GoOn("correlate", NoteLimitation(report)))
  BY <1>1, <1>2, <1>3, StepAdds
<1>4. CASE /\ found' = [found EXCEPT !.cited = @ \cup {WorkspaceEvidence}]
           /\ GoOn("correlate", AddEvidence(report, WorkspaceEvidence))
  <2> DEFINE r == AddEvidence(report, WorkspaceEvidence)
  <2>1. Continues(report, r) /\ WorkspaceEvidence \in r.evidence
    BY <1>2, EvidenceContinues
  <2>2. GoOn("correlate", r)
    BY <1>4
  <2> HIDE DEF r
  <2>3. FoundOn(found, r.evidence)
    BY <1>2, <2>1, FoundStays DEF Continues
  <2>4. FoundOn(found', r.evidence)
    BY <1>4, <2>1, <2>3, ScanFound
  <2> QED
    BY <1>1, <1>2, <2>1, <2>2, <2>4, ReportGoesOn
<1> QED
  BY <1>3, <1>4, Zenon DEF ReadContext

LEMMA CorrelationConcluded == ReportInvariant /\ ConcludeCorrelation => ReportInvariant'
PROOF
<1> SUFFICES ASSUME ReportInvariant, ConcludeCorrelation
             PROVE  ReportInvariant'
  OBVIOUS
<1> DEFINE signalled == AddEvidence(report, CorrelationEvidence)
           cluster == FindingItem("failure_cluster", "medium", "likely",
                                  found.cited \cup {CorrelationEvidence})
           told == IF found.signal THEN AddFinding(signalled, cluster)
                   ELSE AddChecked(report, "signals")
           r == [told EXCEPT !.summary = IF found.signal THEN "signals" ELSE "none"]
<1>1. step = "correlate" /\ UNCHANGED <<call, found, todo, unread>>
  BY DEF ConcludeCorrelation, At
<1>2. /\ Filled(report) /\ FoundOn(found, report.evidence) /\ todo' \in SUBSET Port
      /\ report.status \in {"ok", "limited"} /\ Fits(call.tool, step)
      /\ unread \cap CoreReads # {} /\ call.tool # "list_dev_servers" =>
           report.status = "limited" /\ report.limited = TRUE
  BY <1>1, InHandler
<1>3. call.tool = "correlate_recent_failures"
  BY <1>1, <1>2 DEF Fits, BeforeProbe, AfterProbe
<1>4. Return(Finish(r))
  BY Zenon DEF ConcludeCorrelation
<1>5. Continues(report, AddFinding(signalled, cluster))
  <2>1. Continues(report, signalled) /\ CorrelationEvidence \in signalled.evidence
    BY <1>2, EvidenceContinues
  <2> HIDE DEF signalled
  <2>2. Filled(signalled) /\ found.cited \cup {CorrelationEvidence} \in SUBSET signalled.evidence
    BY <1>2, <2>1 DEF Continues, FoundOn
  <2>3. /\ "failure_cluster" \in Range(FindingIds) \ Special
        /\ "medium" \in Range(FindingSeverity) /\ "likely" \in FindingConfidence
    BY IdsAreListed, SeveritiesAndConfidences
  <2>4. cluster \in FindingsOn(signalled.evidence) /\ cluster.id = "failure_cluster"
    <3> DEFINE cited == found.cited \cup {CorrelationEvidence}
    <3>1. cited # {}
      OBVIOUS
    <3> HIDE DEF cited
    <3> QED
      BY <2>2, <2>3, <3>1, FindingMade DEF cited
  <2> HIDE DEF cluster
  <2>5. Continues(signalled, AddFinding(signalled, cluster))
    BY <2>2, <2>3, <2>4, FindingAdded
  <2> QED
    BY <2>1, <2>5, ContinuesOn
<1>6. Continues(report, told)
  BY <1>2, <1>5, CheckedContinues
<1> HIDE DEF told
<1>7. /\ DOMAIN r = DOMAIN told /\ r.status = told.status
      /\ r.limited = told.limited /\ r.findings = told.findings
      /\ r.evidence = told.evidence
  BY <1>6 DEF Continues, Filled
<1> HIDE DEF r
<1>8. Continues(report, r)
  BY <1>6, <1>7 DEF Continues, Filled
<1>9. /\ Filled(r) /\ r.status \in {"ok", "limited"} /\ FoundOn(found', r.evidence)
      /\ unread' \cap CoreReads # {} => r.status = "limited" /\ r.limited = TRUE
  BY <1>1, <1>2, <1>3, <1>8, FoundStays DEF Continues
<1> QED
  BY <1>1, <1>2, <1>3, <1>4, <1>9, ReportFinished

-----------------------------------------------------------------------------
(* diagnose_local_webapp *)

\* Its finding of the answer of a probe: none if nothing listens, and never one of the
\* connection.
LEMMA ProbeFindingMade ==
    ASSUME NEW a \in ProbeAnswers \cup {NothingFound.probe}, NEW E, GetEvidence \in E
    PROVE  /\ ProbeFinding(a) \in Seq(FindingsOn(E))
           /\ Without(ProbeFinding(a), ConnectionIds)
           /\ NotListening(a.outcome) => ProbeFinding(a) = <<>>
PROOF
<1> DEFINE One(id, severity) == <<FindingItem(id, severity, "confirmed", {GetEvidence})>>
<1>1. ASSUME NEW id \in Range(FindingIds) \ ConnectionIds,
             NEW severity \in {"low", "medium", "high"}
      PROVE  One(id, severity) \in Seq(FindingsOn(E)) /\ Without(One(id, severity), ConnectionIds)
  <2> DEFINE f == FindingItem(id, severity, "confirmed", {GetEvidence})
  <2>1. severity \in Range(FindingSeverity) /\ "confirmed" \in FindingConfidence
    BY SeveritiesAndConfidences
  <2>2. {GetEvidence} \in SUBSET E /\ {GetEvidence} # {}
    OBVIOUS
  <2>3. f \in FindingsOn(E) /\ f.id = id
    BY <2>1, <2>2, FindingMade
  <2> HIDE DEF f
  <2>4. <<f>> \in Seq(FindingsOn(E)) /\ Without(<<f>>, ConnectionIds)
    BY <2>3 DEF Without
  <2> QED
    BY <2>4 DEF f
<1>2. <<>> \in Seq(FindingsOn(E)) /\ Without(<<>>, ConnectionIds)
  BY DEF Without
<1> HIDE DEF One
<1>3. /\ One("http_4xx", "medium") \in Seq(FindingsOn(E))
      /\ Without(One("http_4xx", "medium"), ConnectionIds)
      /\ One("http_5xx", "high") \in Seq(FindingsOn(E))
      /\ Without(One("http_5xx", "high"), ConnectionIds)
      /\ One("redirect_loop", "high") \in Seq(FindingsOn(E))
      /\ Without(One("redirect_loop", "high"), ConnectionIds)
  BY <1>1, IdsAreListed
<1>4. /\ One("redirect_blocked", "medium") \in Seq(FindingsOn(E))
      /\ Without(One("redirect_blocked", "medium"), ConnectionIds)
      /\ One("local_tls_failure", "medium") \in Seq(FindingsOn(E))
      /\ Without(One("local_tls_failure", "medium"), ConnectionIds)
      /\ One("dns_error", "low") \in Seq(FindingsOn(E))
      /\ Without(One("dns_error", "low"), ConnectionIds)
  BY <1>1, IdsAreListed
<1>5. /\ One("malformed_response", "low") \in Seq(FindingsOn(E))
      /\ Without(One("malformed_response", "low"), ConnectionIds)
      /\ One("body_too_large", "low") \in Seq(FindingsOn(E))
      /\ Without(One("body_too_large", "low"), ConnectionIds)
  BY <1>1, IdsAreListed
<1>6. /\ a.status \in Nat
      /\ NotListening(a.outcome) => a.status = NoStatus
  BY DEF ProbeAnswers, NothingFound, NoStatus, NotListening
<1>7. ProbeFinding(a) =
        CASE a.status \in 400..499 -> One("http_4xx", "medium")
          [] a.status \in 500..599 -> One("http_5xx", "high")
          [] a.outcome \in {"redirect_loop", "too_many_redirects"}
               -> One("redirect_loop", "high")
          [] a.outcome = "redirect_to_external_blocked"
               -> One("redirect_blocked", "medium")
          [] a.outcome = "tls_error" -> One("local_tls_failure", "medium")
          [] a.outcome = "dns_error" -> One("dns_error", "low")
          [] a.outcome = "malformed_response" -> One("malformed_response", "low")
          [] a.outcome = "body_too_large" -> One("body_too_large", "low")
          [] OTHER -> <<>>
  BY Zenon DEF ProbeFinding, One
<1>8. ProbeFinding(a) \in
        {One("http_4xx", "medium"), One("http_5xx", "high"), One("redirect_loop", "high"),
         One("redirect_blocked", "medium"), One("local_tls_failure", "medium"),
         One("dns_error", "low"), One("malformed_response", "low"),
         One("body_too_large", "low"), <<>>}
  BY <1>7
<1>9. NotListening(a.outcome) => ProbeFinding(a) = <<>>
  <2>1. ASSUME NotListening(a.outcome)
        PROVE  /\ a.status \notin 400..499 /\ a.status \notin 500..599
               /\ a.outcome \notin {"redirect_loop", "too_many_redirects"}
               /\ a.outcome # "redirect_to_external_blocked" /\ a.outcome # "tls_error"
               /\ a.outcome # "dns_error" /\ a.outcome # "malformed_response"
               /\ a.outcome # "body_too_large"
    BY <1>6, <2>1 DEF NotListening, NoStatus
  <2> QED
    BY <1>7, <2>1, Zenon
<1> QED
  BY <1>2, <1>3, <1>4, <1>5, <1>8, <1>9

LEMMA SlowFindingMade ==
    ASSUME NEW E, GetEvidence \in E, FoundOn(found, E)
    PROVE  /\ SlowFinding \in Seq(FindingsOn(E)) /\ Without(SlowFinding, ConnectionIds)
           /\ NotListening(found.probe.outcome) => SlowFinding = <<>>
PROOF
<1> DEFINE f == FindingItem("slow_response", "low", "observed", {GetEvidence})
<1>1. /\ "low" \in Range(FindingSeverity) /\ "observed" \in FindingConfidence
      /\ "slow_response" \in Range(FindingIds) \ ConnectionIds
  BY SeveritiesAndConfidences, IdsAreListed
<1>2. {GetEvidence} \in SUBSET E /\ {GetEvidence} # {}
  OBVIOUS
<1>3. f \in FindingsOn(E) /\ f.id = "slow_response"
  BY <1>1, <1>2, FindingMade
<1> HIDE DEF f
<1>4. /\ <<f>> \in Seq(FindingsOn(E)) /\ Without(<<f>>, ConnectionIds)
      /\ <<>> \in Seq(FindingsOn(E)) /\ Without(<<>>, ConnectionIds)
  BY <1>1, <1>3 DEF Without
<1>5. SlowFinding = IF found.slow THEN <<f>> ELSE <<>>
  BY Zenon DEF SlowFinding, f
<1>6. NotListening(found.probe.outcome) => ~found.slow
  BY DEF FoundOn, NotListening, ReachedHttp
<1> QED
  BY <1>4, <1>5, <1>6, Zenon

LEMMA UrlValidated == ReportInvariant /\ ValidateUrl => ReportInvariant'
PROOF
<1> SUFFICES ASSUME ReportInvariant, ValidateUrl
             PROVE  ReportInvariant'
  OBVIOUS
<1>1. step = "validate" /\ UNCHANGED <<call, todo, found, unread>>
  BY DEF ValidateUrl, At
<1>2. /\ FoundOn(found, report.evidence) /\ todo' \in SUBSET Port
      /\ Fits(call.tool, step)
  BY <1>1, InHandler
<1>3. Fits(call.tool, "wait") /\ "wait" \notin AfterProbe
  BY <1>1, <1>2 DEF Fits, BeforeProbe, AfterProbe
<1>4. CASE GoOn("wait", AddChecked(report, "url"))
  BY <1>1, <1>2, <1>3, <1>4, StepAdds
<1>5. CASE ~GoOn("wait", AddChecked(report, "url"))
  <2>1. PICK ev : Return([Conclude(report, ev, "url_rejected", "high", "confirmed")
                            EXCEPT !.status = "blocked", !.summary = "rejected"])
    BY <1>5, Zenon DEF ValidateUrl
  <2> QED
    BY <1>1, <2>1, ReportRejected, IdsAreListed
<1> QED
  BY <1>4, <1>5

LEMMA ReadinessWaited == ReportInvariant /\ WaitForReady => ReportInvariant'
PROOF
<1> SUFFICES ASSUME ReportInvariant, WaitForReady
             PROVE  ReportInvariant'
  OBVIOUS
<1>1. step = "wait" /\ UNCHANGED <<call, todo, found, unread>>
  BY DEF WaitForReady, At
<1>2. /\ FoundOn(found, report.evidence) /\ todo' \in SUBSET Port
      /\ Fits(call.tool, step)
  BY <1>1, InHandler
<1>3. Fits(call.tool, "probe") /\ "probe" \notin AfterProbe
  BY <1>1, <1>2 DEF Fits, BeforeProbe, AfterProbe
<1>4. PICK r : /\ GoOn("probe", r)
               /\ r = report \/ \E ev : r = AddEvidence(report, ev)
  BY Zenon DEF WaitForReady
<1> QED
  BY <1>1, <1>2, <1>3, <1>4, StepAdds

LEMMA WebappProbed == ReportInvariant /\ ProbeWebapp => ReportInvariant'
PROOF
<1> SUFFICES ASSUME ReportInvariant, ProbeWebapp
             PROVE  ReportInvariant'
  OBVIOUS
<1>1. step = "probe" /\ UNCHANGED <<call, todo, unread>>
  BY DEF ProbeWebapp, At
<1>2. /\ FoundOn(found, report.evidence) /\ todo' \in SUBSET Port
      /\ Fits(call.tool, step) /\ Filled(report)
  BY <1>1, InHandler
<1>3. Fits(call.tool, "owner")
  BY <1>1, <1>2 DEF Fits, BeforeProbe, AfterProbe
<1>4. PICK a \in ProbeAnswers, slow \in BOOLEAN :
        found' = [found EXCEPT !.probe = a, !.slow = slow /\ ReachedHttp(a.outcome)]
  BY DEF ProbeWebapp
<1> DEFINE slowly == slow /\ ReachedHttp(a.outcome)
<1>5. slowly \in BOOLEAN /\ (slowly => ReachedHttp(a.outcome))
  OBVIOUS
<1>6. found' = [found EXCEPT !.probe = a, !.slow = slowly]
  BY <1>4
<1> HIDE DEF slowly
<1>7. FoundOn(found', report.evidence)
  BY <1>2, <1>5, <1>6 DEF FoundOn
<1>8. GetEvidence \in AddEvidence(report, GetEvidence).evidence
  BY <1>2, EvidenceContinues
<1>9. GoOn("owner", AddEvidence(report, GetEvidence))
  BY DEF ProbeWebapp
<1> QED
  BY <1>1, <1>2, <1>3, <1>7, <1>8, <1>9, StepAdds

LEMMA OwnerFound == ReportInvariant /\ FindOwner => ReportInvariant'
PROOF
<1> SUFFICES ASSUME ReportInvariant, FindOwner
             PROVE  ReportInvariant'
  OBVIOUS
<1>1. step = "owner" /\ UNCHANGED <<call, todo>> /\ GoOn("context", report)
  BY DEF FindOwner, At
<1>2. /\ FoundOn(found, report.evidence) /\ todo' \in SUBSET Port
      /\ Fits(call.tool, step)
  BY <1>1, InHandler
<1>3. Fits(call.tool, "context") /\ step \in AfterProbe /\ "owner" \notin CoreReads
  BY <1>1, <1>2 DEF Fits, BeforeProbe, AfterProbe, CoreReads
<1>4. FoundOn(found', report.evidence)
  <2>1. found' = found \/ found' = [found EXCEPT !.owner = TRUE]
    BY Zenon DEF FindOwner
  <2>2. FoundOn([found EXCEPT !.owner = TRUE], report.evidence)
    BY <1>2, ScanFound, Zenon
  <2> QED
    BY <1>2, <2>1, <2>2, Zenon
<1>5. unread' \cap CoreReads = unread \cap CoreReads
  BY <1>3, OtherReads DEF FindOwner
<1> QED
  BY <1>1, <1>2, <1>3, <1>4, <1>5, StepAdds

LEMMA OwnerScanned == ReportInvariant /\ ScanForOwner => ReportInvariant'
PROOF
<1> SUFFICES ASSUME ReportInvariant, ScanForOwner
             PROVE  ReportInvariant'
  OBVIOUS
<1>1. /\ step = "context" /\ UNCHANGED <<call, todo, unread>>
      /\ call.tool = "diagnose_local_webapp"
  BY DEF ScanForOwner, At
<1>2. /\ FoundOn(found, report.evidence) /\ todo' \in SUBSET Port
  BY <1>1, InHandler
<1>3. Fits(call.tool, "relate") /\ step \in AfterProbe
  BY <1>1 DEF Fits, BeforeProbe, AfterProbe
<1>4. FoundOn(found', report.evidence)
  <2>1. found' = found \/ found' = [found EXCEPT !.scan = TRUE]
    BY Zenon DEF ScanForOwner
  <2>2. FoundOn([found EXCEPT !.scan = TRUE], report.evidence)
    BY <1>2, ScanFound, Zenon
  <2> QED
    BY <1>2, <2>1, <2>2, Zenon
<1>5. GoOn("relate", report) \/ GoOn("relate", NoteLimitation(report))
  BY DEF ScanForOwner
<1> QED
  BY <1>1, <1>2, <1>3, <1>4, <1>5, StepAdds

LEMMA OwnerRelated == ReportInvariant /\ RelateOwner => ReportInvariant'
PROOF
<1> SUFFICES ASSUME ReportInvariant, RelateOwner
             PROVE  ReportInvariant'
  OBVIOUS
<1>1. step = "relate" /\ UNCHANGED <<call, todo, found, unread>>
  BY DEF RelateOwner, At
<1>2. /\ FoundOn(found, report.evidence) /\ todo' \in SUBSET Port
      /\ Fits(call.tool, step)
  BY <1>1, InHandler
<1>3. Fits(call.tool, "hunt") /\ step \in AfterProbe
  BY <1>1, <1>2 DEF Fits, BeforeProbe, AfterProbe
<1>4. PICK p \in call.ports :
         \/ \E related \in Relation :
                 GoOn("hunt",
                   IF related
                   THEN AddChecked(AddEvidence(report, PortEvidence(p)), "owner")
                   ELSE Conclude(report, PortEvidence(p),
                                 "unrelated_listener", "medium", "observed"))
         \/ GoOn("hunt", AddChecked(report, "no_owner"))
  BY Zenon DEF RelateOwner
<1> DEFINE ev == PortEvidence(p)
<1>5. \/ GoOn("hunt", AddChecked(AddEvidence(report, ev), "owner"))
      \/ GoOn("hunt", Conclude(report, ev, "unrelated_listener", "medium", "observed"))
      \/ GoOn("hunt", AddChecked(report, "no_owner"))
  BY <1>4, Zenon
<1> HIDE DEF ev
<1>6. CASE GoOn("hunt", AddChecked(AddEvidence(report, ev), "owner"))
  BY <1>1, <1>2, <1>3, <1>6, StepAdds
<1>7. CASE GoOn("hunt", Conclude(report, ev, "unrelated_listener", "medium", "observed"))
  BY <1>1, <1>2, <1>3, <1>7, IdsAreListed, StepConcludes
<1>8. CASE GoOn("hunt", AddChecked(report, "no_owner"))
  BY <1>1, <1>2, <1>3, <1>8, StepAdds
<1> QED
  BY <1>5, <1>6, <1>7, <1>8

\* The one finding of the connection, of two kinds, is added by the hunt.
LEMMA NeighborHunted == ReportInvariant /\ HuntNeighbor => ReportInvariant'
PROOF
<1> SUFFICES ASSUME ReportInvariant, HuntNeighbor
             PROVE  ReportInvariant'
  OBVIOUS
<1>1. step = "hunt" /\ UNCHANGED <<call, todo, found, unread>>
  BY DEF HuntNeighbor, At
<1>2. /\ FoundOn(found, report.evidence) /\ todo' \in SUBSET Port /\ Filled(report)
      /\ Fits(call.tool, step) /\ answer = NoAnswer /\ report.status \in {"ok", "limited"}
      /\ unread \cap CoreReads # {} /\ call.tool # "list_dev_servers" =>
           report.status = "limited" /\ report.limited = TRUE
  BY <1>1, InHandler
<1>3. call.tool = "diagnose_local_webapp" /\ Fits(call.tool, "outcome")
  BY <1>1, <1>2 DEF Fits, BeforeProbe, AfterProbe
<1>4. /\ Without(report.findings, ConnectionIds \cup HttpIds)
      /\ GetEvidence \in report.evidence
  BY <1>1, <1>3 DEF ReportInvariant, ConnectionTold, AfterProbe
<1>5. ASSUME NEW r, GoOn("outcome", r), Filled(r), r.status = report.status,
             r.limited = report.limited, report.evidence \subseteq r.evidence,
             Without(r.findings, HttpIds),
             IF NotListening(found.probe.outcome) THEN Once(r.findings, ConnectionIds)
             ELSE Without(r.findings, ConnectionIds)
      PROVE  ReportInvariant'
  <2>1. step' = "outcome" /\ report' = r /\ answer' = NoAnswer
    BY <1>2, <1>5 DEF GoOn
  <2>2. LimitsTold'
    BY <1>1, <1>2, <1>5, <2>1 DEF LimitsTold
  <2>3. ConnectionTold'
    BY <1>1, <1>4, <1>5, <2>1 DEF ConnectionTold, BeforeProbe, AfterProbe, NotListening
  <2>4. StepsFit'
    BY <1>1, <1>3, <2>1 DEF StepsFit
  <2>5. answer'.kind # "report"
    BY <2>1 DEF NoAnswer
  <2>6. FoundOn(found, r.evidence)
    BY <1>2, <1>5, FoundStays
  <2>7. Filled(report)' /\ FoundOn(found, report.evidence)' /\ todo' \subseteq Port
        /\ call' \in Calls \cup {NoCall}
    BY <1>1, <1>2, <1>5, <2>1, <2>6 DEF ReportInvariant, Filled, FoundOn
  <2> QED
    BY <2>2, <2>3, <2>4, <2>5, <2>7 DEF ReportInvariant
<1>6. ASSUME NEW s, Filled(s), s.findings = report.findings, s.status = report.status,
             s.limited = report.limited, report.evidence \subseteq s.evidence,
             NEW f \in FindingsOn(s.evidence), f.id \in ConnectionIds,
             GoOn("outcome", AddFinding(s, f)), NotListening(found.probe.outcome)
      PROVE  ReportInvariant'
  <2> DEFINE r == AddFinding(s, f)
             n == Len(report.findings)
  <2>1. /\ Filled(r) /\ r.status = s.status /\ r.limited = s.limited
        /\ r.evidence = s.evidence /\ r.findings = Append(report.findings, f)
    BY <1>6, FindingAdded
  <2>2. report.findings \in Seq(FindingsOn(report.evidence))
    BY <1>2 DEF Filled
  <2> HIDE DEF r
  <2>3. /\ n \in Nat /\ DOMAIN report.findings = 1..n /\ DOMAIN r.findings = 1..(n + 1)
        /\ r.findings[n + 1] = f
        /\ \A i \in 1..n : r.findings[i] = report.findings[i]
    BY <2>1, <2>2
  <2> HIDE DEF n
  <2>4. \A i \in 1..(n + 1) : i = n + 1 \/ i \in 1..n
    BY <2>3
  <2>5. \A i \in 1..n : report.findings[i].id \notin ConnectionIds \cup HttpIds
    BY <1>4, <2>3 DEF Without
  <2>6. f.id \notin HttpIds
    BY <1>6 DEF ConnectionIds, HttpIds
  <2>7. Without(r.findings, HttpIds)
    BY <2>3, <2>4, <2>5, <2>6 DEF Without
  <2>8. Once(r.findings, ConnectionIds)
    <3>1. n + 1 \in 1..(n + 1)
      BY <2>3
    <3>2. \A j \in 1..(n + 1) : r.findings[j].id \in ConnectionIds => j = n + 1
      BY <2>3, <2>4, <2>5
    <3> QED
      BY <1>6, <2>3, <3>1, <3>2 DEF Once
  <2>9. GoOn("outcome", r)
    BY <1>6 DEF r
  <2> QED
    BY <1>5, <1>6, <2>1, <2>7, <2>8, <2>9
<1>7. CASE ~NotListening(found.probe.outcome) /\ GoOn("outcome", report)
  <2>1. Without(report.findings, HttpIds) /\ Without(report.findings, ConnectionIds)
    BY <1>4 DEF Without
  <2> QED
    BY <1>2, <1>5, <1>7, <2>1
<1>8. ASSUME NEW E, report.evidence \subseteq E, NEW S \in SUBSET E, S # {},
             NEW id \in ConnectionIds, NEW confidence \in {"confirmed", "observed"}
      PROVE  /\ FindingItem(id, "high", confidence, S) \in FindingsOn(E)
             /\ FindingItem(id, "high", confidence, S).id \in ConnectionIds
  <2>1. /\ "high" \in Range(FindingSeverity) /\ confidence \in FindingConfidence
        /\ id \in Range(FindingIds)
    BY SeveritiesAndConfidences, IdsAreListed
  <2> QED
    BY <1>8, <2>1, FindingMade
<1>9. /\ "connection_refused" \in ConnectionIds /\ "server_on_different_port" \in ConnectionIds
  BY DEF ConnectionIds
<1>10. CASE /\ NotListening(found.probe.outcome)
            /\ GoOn("outcome", AddFinding(report,
                 FindingItem("connection_refused", "high", "confirmed", {GetEvidence})))
  <2> DEFINE f == FindingItem("connection_refused", "high", "confirmed", {GetEvidence})
  <2>1. {GetEvidence} \in SUBSET report.evidence /\ {GetEvidence} # {}
    BY <1>4
  <2>2. f \in FindingsOn(report.evidence) /\ f.id \in ConnectionIds
    BY <1>8, <1>9, <2>1
  <2>3. GoOn("outcome", AddFinding(report, f))
    BY <1>10
  <2> HIDE DEF f
  <2> QED
    BY <1>2, <1>6, <1>10, <2>2, <2>3
<1>11. ASSUME NotListening(found.probe.outcome), NEW near,
              GoOn("outcome",
                AddFinding(AddEvidence(report, PortEvidence(near)),
                  FindingItem("server_on_different_port", "high", "observed",
                              {PortEvidence(near), GetEvidence})))
       PROVE  ReportInvariant'
  <2> DEFINE ev == PortEvidence(near)
             s == AddEvidence(report, ev)
             f == FindingItem("server_on_different_port", "high", "observed", {ev, GetEvidence})
  <2>1. /\ Continues(report, s) /\ ev \in s.evidence /\ s.status = report.status
        /\ s.findings = report.findings /\ s.limited = report.limited
    BY <1>2, EvidenceContinues
  <2>2. GoOn("outcome", AddFinding(s, f))
    BY <1>11
  <2> HIDE DEF ev, s
  <2>3. /\ Filled(s) /\ report.evidence \subseteq s.evidence
        /\ {ev, GetEvidence} \in SUBSET s.evidence /\ {ev, GetEvidence} # {}
    BY <1>4, <2>1 DEF Continues
  <2>4. f \in FindingsOn(s.evidence) /\ f.id \in ConnectionIds
    BY <1>8, <1>9, <2>3
  <2> HIDE DEF f
  <2> QED
    BY <1>6, <1>11, <2>1, <2>2, <2>3, <2>4
<1> QED
  BY <1>7, <1>10, <1>11, Zenon DEF HuntNeighbor

LEMMA WebappConcluded == ReportInvariant /\ ConcludeWebapp => ReportInvariant'
PROOF
<1> SUFFICES ASSUME ReportInvariant, ConcludeWebapp
             PROVE  ReportInvariant'
  OBVIOUS
<1> DEFINE fromProbe == ProbeFinding(found.probe)
           more == report.findings \o fromProbe \o SlowFinding
           told == [report EXCEPT !.findings = more]
<1>1. step = "outcome" /\ UNCHANGED <<call, todo, found, unread>>
  BY DEF ConcludeWebapp, At
<1>2. /\ FoundOn(found, report.evidence) /\ todo' \in SUBSET Port /\ Filled(report)
      /\ Fits(call.tool, step) /\ report.status \in {"ok", "limited"}
      /\ unread \cap CoreReads # {} /\ call.tool # "list_dev_servers" =>
           report.status = "limited" /\ report.limited = TRUE
  BY <1>1, InHandler
<1>3. call.tool = "diagnose_local_webapp"
  BY <1>1, <1>2 DEF Fits, BeforeProbe, AfterProbe
<1>4. /\ Without(report.findings, HttpIds) /\ GetEvidence \in report.evidence
      /\ IF NotListening(found.probe.outcome) THEN Once(report.findings, ConnectionIds)
         ELSE Without(report.findings, ConnectionIds)
  BY <1>1, <1>3 DEF ReportInvariant, ConnectionTold
<1>5. /\ fromProbe \in Seq(FindingsOn(report.evidence)) /\ Without(fromProbe, ConnectionIds)
      /\ NotListening(found.probe.outcome) => fromProbe = <<>>
  BY <1>2, <1>4, ProbeFindingMade DEF FoundOn
<1>6. /\ SlowFinding \in Seq(FindingsOn(report.evidence)) /\ Without(SlowFinding, ConnectionIds)
      /\ NotListening(found.probe.outcome) => SlowFinding = <<>>
  BY <1>2, <1>4, SlowFindingMade
<1> HIDE DEF fromProbe
<1>7. ASSUME NEW E, NEW s \in Seq(FindingsOn(E)), NEW t \in Seq(FindingsOn(E)), NEW ids
      PROVE  /\ s \o t \in Seq(FindingsOn(E)) /\ s \o <<>> = s
             /\ Without(s, ids) /\ Without(t, ids) => Without(s \o t, ids)
  <2>1. s \o t \in Seq(FindingsOn(E)) /\ s \o <<>> = s
    OBVIOUS
  <2>2. ASSUME Without(s, ids), Without(t, ids)
        PROVE  Without(s \o t, ids)
    <3>1. \A i \in DOMAIN (s \o t) :
            \/ i \in DOMAIN s /\ (s \o t)[i] = s[i]
            \/ (i - Len(s)) \in DOMAIN t /\ (s \o t)[i] = t[i - Len(s)]
      OBVIOUS
    <3> QED
      BY <2>2, <3>1 DEF Without
  <2> QED
    BY <2>1, <2>2
<1>8. report.findings \in Seq(FindingsOn(report.evidence))
  BY <1>2 DEF Filled
<1> DEFINE both == report.findings \o fromProbe
<1>9. /\ both \in Seq(FindingsOn(report.evidence)) /\ report.findings \o <<>> = report.findings
      /\ Without(report.findings, ConnectionIds) => Without(both, ConnectionIds)
  BY <1>5, <1>7, <1>8
<1>10. more = both \o SlowFinding
  OBVIOUS
<1>11. NotListening(found.probe.outcome) => more = report.findings
  BY <1>5, <1>6, <1>9
<1> HIDE DEF both, more
<1>12. /\ more \in Seq(FindingsOn(report.evidence))
       /\ Without(both, ConnectionIds) => Without(more, ConnectionIds)
  BY <1>6, <1>7, <1>9, <1>10
<1>13. IF NotListening(found.probe.outcome)
       THEN Once(more, ConnectionIds) /\ Without(more, HttpIds)
       ELSE Without(more, ConnectionIds)
  BY <1>4, <1>9, <1>11, <1>12
<1>14. /\ DOMAIN told = DOMAIN report /\ told.status = report.status
       /\ told.limited = report.limited /\ told.evidence = report.evidence
       /\ told.findings = more
  BY <1>2 DEF Filled
<1>15. PICK summary : Return(Finish([told EXCEPT !.summary = summary]))
  BY Zenon DEF ConcludeWebapp, told, more, fromProbe
<1> HIDE DEF told
<1> DEFINE r == [told EXCEPT !.summary = summary]
<1>16. /\ DOMAIN r = DOMAIN told /\ r.status = told.status
       /\ r.limited = told.limited /\ r.findings = told.findings
       /\ r.evidence = told.evidence
  BY <1>2, <1>14 DEF Filled
<1>17. Return(Finish(r))
  BY <1>15
<1> HIDE DEF r
<1>18. /\ Filled(r) /\ r.status \in {"ok", "limited"} /\ r.findings = more
       /\ FoundOn(found', r.evidence)
       /\ unread' \cap CoreReads # {} => r.status = "limited" /\ r.limited = TRUE
  BY <1>1, <1>2, <1>3, <1>12, <1>14, <1>16 DEF Filled
<1>19. IF NotListening(found'.probe.outcome)
       THEN Once(r.findings, ConnectionIds) /\ Without(r.findings, HttpIds)
       ELSE Without(r.findings, ConnectionIds)
  BY <1>1, <1>13, <1>18
<1> QED
  BY <1>1, <1>2, <1>17, <1>18, <1>19, ReportFinished

-----------------------------------------------------------------------------
(* list_dev_servers, which answers with a list and no report. *)

LEMMA ListAnswered ==
    ASSUME ReportInvariant, UNCHANGED <<call, todo, found, report, unread>>,
           step' = "answered", answer'.kind \in {"invalid_argument", "listeners"},
           call.tool = "list_dev_servers"
    PROVE  ReportInvariant'
PROOF
<1>1. StepsFit' /\ answer'.kind # "report"
  BY DEF StepsFit
<1>2. LimitsTold' /\ ConnectionTold'
  BY DEF LimitsTold, ConnectionTold
<1>3. Filled(report)' /\ FoundOn(found, report.evidence)' /\ todo' \subseteq Port
      /\ call' \in Calls \cup {NoCall}
  BY DEF ReportInvariant, Filled, FoundOn
<1> QED
  BY <1>1, <1>2, <1>3 DEF ReportInvariant

LEMMA WorkspaceUsed == ReportInvariant /\ UseWorkspace => ReportInvariant'
PROOF
<1> SUFFICES ASSUME ReportInvariant, UseWorkspace
             PROVE  ReportInvariant'
  OBVIOUS
<1>1. step = "usable" /\ UNCHANGED <<call, todo, unread>>
  BY DEF UseWorkspace, At
<1>2. /\ FoundOn(found, report.evidence) /\ todo' \in SUBSET Port
      /\ Fits(call.tool, step)
  BY <1>1, InHandler
<1>3. /\ call.tool = "list_dev_servers" /\ Fits(call.tool, "ports")
      /\ "ports" \notin AfterProbe
  BY <1>1, <1>2 DEF Fits, BeforeProbe, AfterProbe
<1>4. CASE /\ found' = found \/ found' = [found EXCEPT !.scan = TRUE]
           /\ GoOn("ports", report)
  <2>1. FoundOn([found EXCEPT !.scan = TRUE], report.evidence)
    BY <1>2, ScanFound, Zenon
  <2>2. FoundOn(found', report.evidence)
    BY <1>2, <1>4, <2>1, Zenon
  <2> QED
    BY <1>1, <1>2, <1>3, <1>4, <2>2, StepAdds
<1>5. CASE /\ UNCHANGED <<found, report>> /\ step' = "answered"
           /\ answer' = [kind |-> "invalid_argument"]
  BY <1>1, <1>3, <1>5, ListAnswered
<1> QED
  BY <1>4, <1>5, Zenon DEF UseWorkspace

LEMMA PortListed == ReportInvariant /\ ListPort => ReportInvariant'
PROOF
<1> SUFFICES ASSUME ReportInvariant, ListPort
             PROVE  ReportInvariant'
  OBVIOUS
<1>1. /\ step = "inspect" /\ call' = call /\ call.tool = "list_dev_servers"
      /\ GoOn("inspect", report)
  BY DEF ListPort, At
<1>2. /\ FoundOn(found, report.evidence) /\ todo \in SUBSET Port /\ Filled(report)
      /\ Fits(call.tool, step) /\ answer = NoAnswer
  BY <1>1, InHandler
<1>3. \E p, entry : todo' = todo \ {p} /\ found' = [found EXCEPT !.listed = @ \cup {entry}]
  BY Zenon DEF ListPort
<1>4. FoundOn(found', report.evidence) /\ todo' \in SUBSET Port
  <2>1. \A x : FoundOn([found EXCEPT !.listed = @ \cup {x}], report.evidence)
    BY <1>2, ScanFound, Zenon
  <2>2. FoundOn(found', report.evidence)
    BY <1>3, <2>1, Zenon
  <2> QED
    BY <1>2, <1>3, <2>2
<1>5. /\ Continues(report, report) /\ step' = "inspect" /\ report' = report
      /\ answer' = answer
  BY <1>1, <1>2, ContinuesItself DEF GoOn
<1> QED
  BY <1>1, <1>2, <1>4, <1>5, ReportContinued

LEMMA ListConcluded == ReportInvariant /\ ConcludeList => ReportInvariant'
PROOF
  BY ListAnswered DEF ConcludeList, At

-----------------------------------------------------------------------------

LEMMA ReportReplied == ReportInvariant /\ Replied => ReportInvariant'
PROOF
<1>1. Replied => ReportIdle'
  BY DEF Replied, ReportIdle, NoCall, NothingFound, BeginReport, NoAnswer
<1>2. (ReportIdle => ReportInvariant)'
  BY ReportsStart, PTL
<1> QED
  BY <1>1, <1>2

LEMMA ReportsUnchanged == ReportInvariant /\ UNCHANGED reportVars => ReportInvariant'
PROOF
<1> SUFFICES ASSUME ReportInvariant, UNCHANGED reportVars
             PROVE  ReportInvariant'
  OBVIOUS
<1>1. UNCHANGED <<call, step, todo, found, report, answer, unread>>
  BY DEF reportVars
<1>2. StepsFit'
  BY <1>1 DEF ReportInvariant, StepsFit, ReportIdle
<1>3. LimitsTold' /\ ConnectionTold'
  BY <1>1 DEF ReportInvariant, LimitsTold, ConnectionTold
<1>4. Filled(report)' /\ FoundOn(found, report.evidence)' /\ todo' \subseteq Port
      /\ call' \in Calls \cup {NoCall}
  BY <1>1 DEF ReportInvariant, Filled, FoundOn
<1>5. ASSUME answer'.kind = "report"
      PROVE  StatusHonest' /\ WorstKept' /\ OneConnectionFinding'
  <2>1. StatusHonest /\ WorstKept /\ OneConnectionFinding
    BY <1>1, <1>5 DEF ReportInvariant
  <2>2. StatusHonest'
    BY <1>1, <2>1 DEF StatusHonest, HasIssue
  <2>3. WorstKept'
    BY <1>1, <2>1 DEF WorstKept, Range, SeverityRank, Place, MaxCompactFindings
  <2>4. OneConnectionFinding'
    BY <1>1, <2>1, Zenon DEF OneConnectionFinding, NotListening
  <2> QED
    BY <2>2, <2>3, <2>4
<1> QED
  BY <1>2, <1>3, <1>4, <1>5 DEF ReportInvariant

LEMMA ReportsStepKeeps == ReportInvariant /\ [ReportNext]_reportVars => ReportInvariant'
PROOF
<1> SUFFICES ASSUME ReportInvariant, [ReportNext]_reportVars
             PROVE  ReportInvariant'
  OBVIOUS
<1>1. CASE UNCHANGED reportVars
  BY <1>1, ReportsUnchanged
<1>2. CASE ReportNext
  BY <1>2, CallAcceptedByTool, ReportReplied, WorkspaceResolved, WorkspaceScanned,
     PortsDiscovered, PortInspected, ResourcesRead, DrivesRead, EventsRead,
     WorkspaceConcluded, UrlValidated, ReadinessWaited, WebappProbed, OwnerFound,
     OwnerScanned, OwnerRelated, NeighborHunted, WebappConcluded, LogsRead, PortStateRead,
     ContextRead, CorrelationConcluded, WorkspaceUsed, PortListed, ListConcluded
     DEF ReportNext
<1> QED
  BY <1>1, <1>2

LEMMA ReportsHold == ReportInvariant => ReportSound
PROOF
<1> SUFFICES ASSUME ReportInvariant
             PROVE  ReportSound
  OBVIOUS
<1>1. step \in {"idle", "resolve", "scan", "ports", "inspect", "drives", "events",
                "conclude", "validate", "wait", "probe", "owner", "context",
                "relate", "hunt", "outcome", "app_log", "sys_log", "port_state",
                "correlate", "usable", "answered"}
  BY DEF ReportInvariant, StepsFit, Fits, BeforeProbe, AfterProbe
<1>2. answer.kind \in {"none", "report", "listeners", "invalid_argument"}
  BY DEF ReportInvariant, StepsFit, ReportIdle, NoAnswer
<1>3. \A i \in DOMAIN report.findings : report.findings[i] \in FindingsOn(report.evidence)
  BY DEF ReportInvariant, Filled
<1>4. \A i \in DOMAIN report.findings :
          /\ report.findings[i].id \in Range(FindingIds)
          /\ report.findings[i].severity \in Range(FindingSeverity)
          /\ report.findings[i].confidence \in FindingConfidence
          /\ report.findings[i].supporting \subseteq report.evidence
          /\ report.findings[i].supporting # {}
  BY <1>3 DEF FindingsOn
<1>5. /\ found.probe \in ProbeAnswers \cup {NothingFound.probe}
      /\ found.slow \in BOOLEAN /\ found.owner \in BOOLEAN
      /\ found.scan \in BOOLEAN /\ found.signal \in BOOLEAN
      /\ report.status \in ReportStatus /\ report.limited \in BOOLEAN
      /\ call \in Calls \cup {NoCall} /\ todo \subseteq Port
  BY DEF ReportInvariant, FoundOn, Filled
<1>6. ReportTypeOK
  BY <1>1, <1>2, <1>4, <1>5, Zenon DEF ReportTypeOK
<1>7. FindingsCited
  BY <1>4, Zenon DEF FindingsCited
<1> QED
  BY <1>6, <1>7 DEF ReportInvariant, ReportSound

\* Whatever the providers answer, fail or contradict, a failed core read is never told as
\* ok or as issues alone, every finding cites evidence its report holds, the compact
\* projection cuts no finding worse than one it keeps, and an unreachable port yields
\* exactly one finding of the connection, beside none of the HTTP outcome.
THEOREM ReportsAreSound == ReportsSpec => []ReportSound
PROOF
<1>1. ReportsSpec => []ReportInvariant
  BY ReportsStart, ReportsStepKeeps, PTL DEF ReportsSpec
<1> QED
  BY <1>1, ReportsHold, PTL

-----------------------------------------------------------------------------
(* SystemDiagnosis: every score is one, whatever the readings, and the two tools      *)
(* judge alike.                                                                        *)

DiagnosisSpec == DiagnosisIdle /\ [][DiagnosisNext]_diagnosisVars

\* A set of natural numbers that is not empty has a least one.
LEMMA LeastOfNaturals ==
    ASSUME NEW T, T \subseteq Nat, T # {}
    PROVE  \E x \in T : \A y \in T : x <= y
PROOF
<1> DEFINE R == {ss \in Nat \X Nat : ss[1] < ss[2]}
<1>1. IsWellFoundedOn(R, Nat)
  BY NatLessThanWellFounded, Zenon DEF OpToRel
<1>2. \A x, y \in Nat : y < x => <<y, x>> \in R
  OBVIOUS
<1> HIDE DEF R
<1>3. PICK x \in T : \A y \in T : ~ (<<y, x>> \in R)
  BY <1>1, WFMin
<1>4. \A y \in T : ~ (y < x)
  BY <1>2, <1>3
<1> QED
  BY <1>4

\* The highest of some scores is one of them.
LEMMA HighestIsOne ==
    ASSUME NEW T, T \subseteq Score, T # {}
    PROVE  Highest(T) \in T
PROOF
<1> DEFINE R == {n \in Nat : \E s \in T : n = 100 - s}
<1>1. R \subseteq Nat /\ R # {}
  <2>1. PICK s \in T : s \in 0..100
    BY DEF Score
  <2>2. 100 - s \in R
    BY <2>1
  <2> QED
    BY <2>2
<1>2. PICK x \in R : \A y \in R : x <= y
  <2> HIDE DEF R
  <2> QED
    BY <1>1, LeastOfNaturals
<1>3. PICK m \in T : x = 100 - m
  OBVIOUS
<1>4. \A s \in T : s <= m
  <2> SUFFICES ASSUME NEW s \in T
               PROVE  s <= m
    OBVIOUS
  <2>1. s \in 0..100 /\ m \in 0..100
    BY DEF Score
  <2>2. 100 - s \in R
    BY <2>1
  <2>3. 100 - m <= 100 - s
    <3> HIDE DEF R
    <3> QED
      BY <1>2, <1>3, <2>2
  <2> QED
    BY <2>1, <2>3
<1> QED
  BY <1>4 DEF Highest

LEMMA HighestOfOne ==
    ASSUME NEW n \in Int
    PROVE  Highest({n}) = n
  BY DEF Highest

LEMMA OneHighest ==
    ASSUME NEW numbers, AtMostOne(numbers), NEW n \in numbers
    PROVE  numbers = {n} /\ n \in Nat /\ Highest(numbers) = n
PROOF
<1>1. numbers = {n} /\ n \in Nat
  BY DEF AtMostOne
<1>2. Highest({n}) = n
  BY <1>1, HighestOfOne
<1> QED
  BY <1>1, <1>2

\* A share of a whole, in hundredths.
LEMMA HundredthsOf ==
    ASSUME NEW n \in Nat, NEW d \in Nat \ {0}
    PROVE  /\ (100 * n) \div d \in Nat
           /\ n <= d => (100 * n) \div d <= 100
PROOF
<1>1. 100 * n \in Nat
  OBVIOUS
<1> DEFINE hundred == 100 * n
<1> HIDE DEF hundred
<1>2. hundred \div d \in Nat /\ d * (hundred \div d) <= hundred
  BY <1>1 DEF hundred
<1>3. ASSUME n <= d
      PROVE  hundred \div d <= 100
  <2> DEFINE q == hundred \div d
  <2>1. q \in Nat /\ d * q <= hundred
    BY <1>2
  <2> HIDE DEF q
  <2>2. hundred <= d * 100
    BY <1>3 DEF hundred
  <2>3. d * q <= d * 100 /\ hundred \in Nat
    BY <1>1, <2>1, <2>2 DEF hundred
  <2>4. q <= 100
    BY <2>1, <2>3
  <2> QED
    BY <2>4 DEF q
<1> QED
  BY <1>2, <1>3 DEF hundred

LEMMA AtMostIsScore ==
    ASSUME NEW n \in Nat
    PROVE  AtMost(n, 100) \in Score
  BY DEF AtMost, Score

LEMMA BandIsScore ==
    ASSUME NEW part, NEW total, NEW bands, \A b \in bands : b[2] \in Score
    PROVE  BandScore(part, total, bands) \in Score
PROOF
<1> DEFINE T == {0} \cup {b[2] : b \in {c \in bands : 100 * part <= c[1] * total}}
<1>1. T \subseteq Score /\ T # {}
  BY DEF Score
<1> HIDE DEF T
<1>2. Highest(T) \in Score
  BY <1>1, HighestIsOne
<1> QED
  BY <1>2 DEF BandScore, T

LEMMA StorageIsScore ==
    ASSUME NEW free, NEW total
    PROVE  StorageScore(free, total) \in Score
PROOF
<1> DEFINE bands == {<<1, 100>>, <<5, 95>>, <<10, 80>>, <<20, 60>>}
<1>1. \A b \in bands : b[2] \in Score
  BY DEF Score
<1> HIDE DEF bands
<1>2. BandScore(free, total, bands) \in Score
  BY <1>1, BandIsScore
<1> QED
  BY <1>2 DEF StorageScore, bands

\* Memory pressure is scored by its load and by what is available, whichever is worse.
LEMMA PressureIsScore ==
    ASSUME NEW loads \in Int, NEW available, NEW total
    PROVE  MemoryPressureScore(loads, available, total) \in Score
PROOF
<1>1. LoadRamp(loads) \in Score
  <2> DEFINE span == 100 - HighMemoryLoadPercent
             over == AtMost(AtLeast(loads - HighMemoryLoadPercent, 0), span)
             T == {s \in Score : s * s * span <= 10000 * over}
  <2>1. span \in Nat /\ over \in Nat
    BY ThresholdsAssumption DEF AtMost, AtLeast
  <2>2. LoadRamp(loads) = IF span = 0 THEN 100 ELSE Highest(T)
    BY DEF LoadRamp
  <2> HIDE DEF span, over
  <2>3. 0 \in T
    BY <2>1 DEF Score
  <2>4. T \subseteq Score
    OBVIOUS
  <2> HIDE DEF T
  <2>5. Highest(T) \in Score
    BY <2>3, <2>4, HighestIsOne
  <2> QED
    BY <2>2, <2>5 DEF Score
<1>2. AvailabilityScore(available, total) \in Score
  <2> DEFINE bands == {<<5, 90>>, <<10, 80>>, <<15, 60>>, <<20, 40>>}
             T == {0} \cup {BandScore(a, t, bands) : a \in available, t \in total \ {0}}
  <2>1. \A b \in bands : b[2] \in Score
    BY DEF Score
  <2>2. AvailabilityScore(available, total) = Highest(T)
    BY DEF AvailabilityScore
  <2> HIDE DEF bands
  <2>3. \A a, t : BandScore(a, t, bands) \in Score
    BY <2>1, BandIsScore
  <2>4. T \subseteq Score /\ T # {}
    BY <2>3 DEF Score
  <2> HIDE DEF T
  <2> QED
    BY <2>2, <2>4, HighestIsOne
<1> QED
  BY <1>1, <1>2 DEF MemoryPressureScore, AtLeast

LEMMA AppMemoryIsScore ==
    ASSUME NEW bytes \in Nat, NEW total, AtMostOne(total)
    PROVE  AppMemoryScore(bytes, total) \in Score
PROOF
<1> DEFINE T == {HighMemoryBytes} \cup {t \div 4 : t \in total}
<1>1. HighMemoryBytes \in Nat
  BY ThresholdsAssumption
<1>2. Highest(T) \in Nat
  <2>1. CASE total = {}
    <3>1. T = {HighMemoryBytes}
      BY <2>1
    <3> HIDE DEF T
    <3> QED
      BY <1>1, <3>1, HighestOfOne
  <2>2. CASE total # {}
    <3>1. PICK t \in total : total = {t} /\ t \in Nat
      BY <2>2, OneHighest
    <3> DEFINE q == t \div 4
    <3>2. T = {HighMemoryBytes, q} /\ q \in Nat
      BY <3>1
    <3> HIDE DEF T, q
    <3>3. \E n \in T : \A m \in T : m <= n
      BY <1>1, <3>2
    <3>4. Highest(T) \in T
      BY <3>3 DEF Highest
    <3> QED
      BY <1>1, <3>2, <3>4
  <2> QED
    BY <2>1, <2>2
<1>3. AppMemoryScore(bytes, total)
        = IF Highest(T) = 0 THEN 100 ELSE AtMost((100 * bytes) \div Highest(T), 100)
  BY DEF AppMemoryScore
<1> DEFINE d == Highest(T)
<1> HIDE DEF T, d
<1>4. CASE d = 0
  BY <1>3, <1>4 DEF Score, d
<1>5. CASE d # 0
  <2>1. d \in Nat \ {0}
    BY <1>2, <1>5 DEF d
  <2>2. (100 * bytes) \div d \in Nat
    BY <2>1, HundredthsOf
  <2> QED
    BY <1>3, <1>5, <2>2, AtMostIsScore DEF d
<1> QED
  BY <1>4, <1>5

\* A group that is heavy only in its descendants stays below the medium band.
LEMMA GroupIsScore ==
    ASSUME NEW g, g.own \in Nat, g.tree \in Nat, NEW total, AtMostOne(total)
    PROVE  /\ GroupMemoryScore(g, total) \in Score
           /\ HighMemoryTreeOnly(g) => GroupMemoryScore(g, total) <= 49
PROOF
<1>1. AppMemoryScore(g.own, total) \in Score /\ AppMemoryScore(g.tree, total) \in Score
  BY AppMemoryIsScore
<1> QED
  BY <1>1 DEF GroupMemoryScore, AtMost, Score

LEMMA GrowthIsScore ==
    ASSUME NEW rate \in Nat
    PROVE  MemoryGrowthScore(rate) \in Score
PROOF
<1>1. MemoryGrowthThreshold \in Nat
  BY ThresholdsAssumption
<1>2. CASE MemoryGrowthThreshold = 0
  BY <1>2 DEF MemoryGrowthScore, Score
<1>3. CASE MemoryGrowthThreshold # 0
  <2> DEFINE d == 2 * MemoryGrowthThreshold
  <2>1. d \in Nat \ {0}
    BY <1>1, <1>3
  <2>2. MemoryGrowthScore(rate) = AtMost((100 * rate) \div d, 100)
    BY <1>3 DEF MemoryGrowthScore
  <2> HIDE DEF d
  <2> QED
    BY <2>1, <2>2, HundredthsOf, AtMostIsScore
<1> QED
  BY <1>2, <1>3

LEMMA ShortfallIsScore ==
    ASSUME NEW value \in Nat, NEW threshold \in Nat
    PROVE  Shortfall(value, threshold) \in Score
PROOF
<1>1. CASE threshold = 0
  BY <1>1 DEF Shortfall, Score
<1>2. CASE threshold # 0
  <2> DEFINE short == threshold - AtMost(value, threshold)
  <2>1. short \in Nat /\ short <= threshold /\ threshold \in Nat \ {0}
    BY <1>2 DEF AtMost
  <2>2. Shortfall(value, threshold) = (100 * short) \div threshold
    BY <1>2 DEF Shortfall
  <2> HIDE DEF short
  <2>3. (100 * short) \div threshold \in Nat /\ (100 * short) \div threshold <= 100
    BY <2>1, HundredthsOf
  <2> QED
    BY <2>2, <2>3 DEF Score
<1> QED
  BY <1>1, <1>2

\* The evidence of a diagnosis: of each dimension one reading, or nothing.
Evidence ==
    [groups : GroupReadings \cup {{}}, drives : DriveReadings \cup {{}},
     thermal : {{}} \cup {{ThermalState(t.temperature, t.reduced)} : t \in ThermalReadings},
     devices : DeviceReadings \cup {{}},
     battery : {{}} \cup {{b} : b \in BatteryReadings},
     wifi : WifiReadings \cup {{}},
     first : {{}} \cup {{s} : s \in MemoryReadings},
     second : {{}} \cup {{s} : s \in MemoryReadings}]

LEMMA EvidenceOfMachine ==
    ASSUME NEW e \in Evidence
    PROVE  /\ \A g \in e.groups : AtMostOne(g.cpu) /\ g.own \in Nat /\ g.tree \in Nat
           /\ \A d \in e.drives : AtMostOne(d.free) /\ AtMostOne(d.total)
           /\ \A c, d \in e.drives : c.root = d.root => c = d
           /\ UNION e.battery \subseteq Nat
           /\ \A w \in e.wifi : w.signal \subseteq Nat
PROOF
<1>1. e.groups \in GroupReadings \cup {{}} /\ e.drives \in DriveReadings \cup {{}}
  BY DEF Evidence
<1>2. e.wifi \in WifiReadings \cup {{}} /\ e.battery \in {{}} \cup {{b} : b \in BatteryReadings}
  BY DEF Evidence
<1>3. \A g \in e.groups : AtMostOne(g.cpu) /\ g.own \in Nat /\ g.tree \in Nat
  BY <1>1, ReadingsAssumption
<1>4. \A d \in e.drives : AtMostOne(d.free) /\ AtMostOne(d.total)
  BY <1>1, ReadingsAssumption
<1>5. \A c, d \in e.drives : c.root = d.root => c = d
  BY <1>1, ReadingsAssumption
<1>6. UNION e.battery \subseteq Nat
  <2>1. CASE e.battery = {}
    BY <2>1
  <2>2. CASE e.battery # {}
    <3>1. PICK b \in BatteryReadings : e.battery = {b}
      BY <1>2, <2>2
    <3>2. b \subseteq Nat
      BY ReadingsAssumption DEF AtMostOne
    <3> QED
      BY <3>1, <3>2
  <2> QED
    BY <2>1, <2>2
<1>7. \A w \in e.wifi : w.signal \subseteq Nat
  BY <1>2, ReadingsAssumption DEF AtMostOne
<1> QED
  BY <1>3, <1>4, <1>5, <1>6, <1>7

\* What the two samples of memory say.
LEMMA SamplesOfMemory ==
    ASSUME NEW e \in Evidence
    PROVE  /\ AtMostOne(Preferred("load", e)) /\ AtMostOne(Preferred("total", e))
           /\ \A field : Preferred(field, e) # {} => e.first # {} \/ e.second # {}
           /\ Growth(e) \subseteq Int
           /\ Growth(e) # {} => e.first # {} /\ e.second # {}
PROOF
<1> DEFINE of(samples, field) == UNION {s[field] : s \in samples}
<1>1. /\ e.first \in {{}} \cup {{s} : s \in MemoryReadings}
      /\ e.second \in {{}} \cup {{s} : s \in MemoryReadings}
  BY DEF Evidence
<1>2. ASSUME NEW samples \in {{}} \cup {{s} : s \in MemoryReadings}
      PROVE  /\ AtMostOne(of(samples, "load")) /\ AtMostOne(of(samples, "total"))
             /\ \A s \in samples : s.available \subseteq Nat
  <2>1. CASE samples = {}
    <3>1. of(samples, "load") = {} /\ of(samples, "total") = {}
      BY <2>1
    <3> HIDE DEF of
    <3> QED
      BY <2>1, <3>1 DEF AtMostOne
  <2>2. CASE samples # {}
    <3>1. PICK s \in MemoryReadings : samples = {s}
      BY <2>2
    <3>2. AtMostOne(s.load) /\ AtMostOne(s.total) /\ s.available \subseteq Nat
      BY ReadingsAssumption DEF AtMostOne
    <3>3. of(samples, "load") = s.load /\ of(samples, "total") = s.total
      BY <3>1
    <3> HIDE DEF of
    <3> QED
      BY <3>1, <3>2, <3>3
  <2> QED
    BY <2>1, <2>2
<1>3. \A field : Preferred(field, e) = IF of(e.second, field) # {} THEN of(e.second, field)
                                      ELSE of(e.first, field)
  BY DEF Preferred
<1>4. \A field : of({}, field) = {}
  OBVIOUS
<1> HIDE DEF of
<1>5. AtMostOne(Preferred("load", e)) /\ AtMostOne(Preferred("total", e))
  BY <1>1, <1>2, <1>3
<1>6. \A field : Preferred(field, e) # {} => e.first # {} \/ e.second # {}
  <2> SUFFICES ASSUME NEW field, e.first = {}, e.second = {}
               PROVE  Preferred(field, e) = {}
    OBVIOUS
  <2> QED
    BY <1>3, <1>4
<1>7. Growth(e) \subseteq Int /\ (Growth(e) # {} => e.first # {} /\ e.second # {})
  <2>1. \A a \in UNION {s.available : s \in e.first} : a \in Nat /\ e.first # {}
    BY <1>1, <1>2
  <2>2. \A b \in UNION {s.available : s \in e.second} : b \in Nat /\ e.second # {}
    BY <1>1, <1>2
  <2>3. \A n \in Growth(e) : \E a \in UNION {s.available : s \in e.first},
                                b \in UNION {s.available : s \in e.second} : n = a - b
    BY DEF Growth
  <2>4. \A n \in Growth(e) : n \in Int /\ e.first # {} /\ e.second # {}
    BY <2>1, <2>2, <2>3
  <2> QED
    BY <2>4
<1> QED
  BY <1>5, <1>6, <1>7

\* The signal and the category of a finding, whatever it is about.
FindingKinds ==
    {<<"storage_pressure", "storage">>, <<"memory_pressure", "memory_pressure">>,
     <<"app_high_cpu", "app_cpu">>, <<"app_high_memory", "app_memory">>,
     <<"memory_growth", "memory_growth">>, <<"cpu_thermal_pressure", "thermal">>,
     <<"cpu_frequency_reduced", "frequency">>, <<"storage_health", "storage_health">>,
     <<"battery_degraded", "battery">>, <<"wifi_weak_signal", "wifi">>}

\* A finding of one of some kinds, with a score.
Told(f, kinds) == <<f.signal, f.category>> \in kinds /\ f.score \in Score

LEMMA FindingTold ==
    ASSUME NEW signal, NEW category, NEW subject, NEW score \in Score
    PROVE  /\ Told(Finding(signal, category, subject, score), {<<signal, category>>})
           /\ Finding(signal, category, subject, score).score = score
           /\ Finding(signal, category, subject, score).subject = subject
           /\ Finding(signal, category, subject, score).category = category
           /\ Finding(signal, category, subject, score).severity = ScoreBands(score)
  BY DEF Finding, Told

LEMMA LowIsLow ==
    ASSUME NEW score \in Score, score <= 49
    PROVE  ScoreBands(score) = "low"
  BY DEF ScoreBands, Score

LEMMA StorageTold ==
    ASSUME NEW drives
    PROVE  \A f \in StorageFindings(drives) : Told(f, {<<"storage_pressure", "storage">>})
PROOF
<1> SUFFICES ASSUME NEW f \in StorageFindings(drives)
             PROVE  Told(f, {<<"storage_pressure", "storage">>})
  OBVIOUS
<1>1. PICK d \in drives : \E free \in d.free, t \in d.total :
        f = Finding("storage_pressure", "storage", d.root,
                    IF t = 0 THEN 0 ELSE StorageScore(free, t))
  BY DEF StorageFindings
<1>2. PICK score \in Score : f = Finding("storage_pressure", "storage", d.root, score)
  BY <1>1, StorageIsScore DEF Score
<1> QED
  BY <1>2, FindingTold

LEMMA MemoryTold ==
    ASSUME NEW loads, loads \subseteq Int, NEW available, NEW total
    PROVE  \A f \in MemoryFindings(loads, available, total) :
             Told(f, {<<"memory_pressure", "memory_pressure">>})
PROOF
<1> SUFFICES ASSUME NEW f \in MemoryFindings(loads, available, total)
             PROVE  Told(f, {<<"memory_pressure", "memory_pressure">>})
  OBVIOUS
<1>1. PICK l \in loads : f = Finding("memory_pressure", "memory_pressure", "memory",
                                    MemoryPressureScore(l, available, total))
  BY DEF MemoryFindings
<1>2. MemoryPressureScore(l, available, total) \in Score
  BY PressureIsScore
<1> QED
  BY <1>1, <1>2, FindingTold

\* The findings about applications: of its CPU, and of its memory.
LEMMA GroupsTold ==
    ASSUME NEW group_set, NEW total, AtMostOne(total),
           \A g \in group_set : AtMostOne(g.cpu) /\ g.own \in Nat /\ g.tree \in Nat
    PROVE  \A f \in GroupFindings(group_set, total) :
             \/ /\ Told(f, {<<"app_high_cpu", "app_cpu">>})
                /\ \E g \in group_set : \E c \in g.cpu :
                     /\ HighCpu(g) /\ g.cpu = {c}
                     /\ f = Finding("app_high_cpu", "app_cpu", g.name, AppCpuScore(c))
             \/ /\ Told(f, {<<"app_high_memory", "app_memory">>})
                /\ \E g \in group_set :
                     /\ HighMemory(g)
                     /\ f = Finding("app_high_memory", "app_memory", g.name,
                                    GroupMemoryScore(g, total))
PROOF
<1> SUFFICES ASSUME NEW f \in GroupFindings(group_set, total)
             PROVE  \/ /\ Told(f, {<<"app_high_cpu", "app_cpu">>})
                       /\ \E g \in group_set : \E c \in g.cpu :
                            /\ HighCpu(g) /\ g.cpu = {c}
                            /\ f = Finding("app_high_cpu", "app_cpu", g.name, AppCpuScore(c))
                    \/ /\ Told(f, {<<"app_high_memory", "app_memory">>})
                       /\ \E g \in group_set :
                            /\ HighMemory(g)
                            /\ f = Finding("app_high_memory", "app_memory", g.name,
                                           GroupMemoryScore(g, total))
  OBVIOUS
<1>1. \/ \E g \in group_set :
           HighCpu(g) /\ f = Finding("app_high_cpu", "app_cpu", g.name,
                                     AppCpuScore(Highest(g.cpu)))
      \/ \E g \in group_set :
           HighMemory(g) /\ f = Finding("app_high_memory", "app_memory", g.name,
                                        GroupMemoryScore(g, total))
  BY DEF GroupFindings
<1>2. ASSUME NEW g \in group_set, HighCpu(g),
             f = Finding("app_high_cpu", "app_cpu", g.name, AppCpuScore(Highest(g.cpu)))
      PROVE  /\ Told(f, {<<"app_high_cpu", "app_cpu">>})
             /\ \E c \in g.cpu :
                  /\ g.cpu = {c}
                  /\ f = Finding("app_high_cpu", "app_cpu", g.name, AppCpuScore(c))
  <2>1. PICK c \in g.cpu : c >= HighCpuPercent
    BY <1>2 DEF HighCpu
  <2>2. g.cpu = {c} /\ c \in Nat /\ Highest(g.cpu) = c
    BY OneHighest
  <2>3. AppCpuScore(c) \in Score
    BY <2>2, AtMostIsScore DEF AppCpuScore
  <2>4. f = Finding("app_high_cpu", "app_cpu", g.name, AppCpuScore(c))
    BY <1>2, <2>2
  <2>5. Told(f, {<<"app_high_cpu", "app_cpu">>})
    BY <2>3, <2>4, FindingTold
  <2> QED
    BY <2>2, <2>4, <2>5
<1>3. ASSUME NEW g \in group_set,
             f = Finding("app_high_memory", "app_memory", g.name, GroupMemoryScore(g, total))
      PROVE  Told(f, {<<"app_high_memory", "app_memory">>})
  BY <1>3, GroupIsScore, FindingTold
<1> QED
  BY <1>1, <1>2, <1>3

LEMMA OthersTold ==
    ASSUME NEW e \in Evidence
    PROVE  \A f \in GrowthFindings(Growth(e)) \cup ThermalFindings(e.thermal)
                     \cup DeviceFindings(e.devices) \cup BatteryFindings(e.battery)
                     \cup WifiFindings(e.wifi) :
             Told(f, {<<"memory_growth", "memory_growth">>,
                      <<"cpu_thermal_pressure", "thermal">>,
                      <<"cpu_frequency_reduced", "frequency">>,
                      <<"storage_health", "storage_health">>,
                      <<"battery_degraded", "battery">>, <<"wifi_weak_signal", "wifi">>})
PROOF
<1> DEFINE kinds == {<<"memory_growth", "memory_growth">>,
                     <<"cpu_thermal_pressure", "thermal">>,
                     <<"cpu_frequency_reduced", "frequency">>,
                     <<"storage_health", "storage_health">>,
                     <<"battery_degraded", "battery">>, <<"wifi_weak_signal", "wifi">>}
<1>1. ASSUME NEW signal, NEW category, <<signal, category>> \in kinds, NEW subject,
             NEW score \in Score
      PROVE  Told(Finding(signal, category, subject, score), kinds)
  BY <1>1 DEF Told, Finding
<1>2. /\ <<"memory_growth", "memory_growth">> \in kinds
      /\ <<"cpu_thermal_pressure", "thermal">> \in kinds
      /\ <<"cpu_frequency_reduced", "frequency">> \in kinds
      /\ <<"storage_health", "storage_health">> \in kinds
      /\ <<"battery_degraded", "battery">> \in kinds
      /\ <<"wifi_weak_signal", "wifi">> \in kinds
  OBVIOUS
<1> HIDE DEF kinds
<1>3. \A f \in GrowthFindings(Growth(e)) : Told(f, kinds)
  <2> SUFFICES ASSUME NEW f \in GrowthFindings(Growth(e))
               PROVE  Told(f, kinds)
    OBVIOUS
  <2>1. PICK r \in Growth(e) :
          /\ r \in Growth(e) /\ r > 0
          /\ f = Finding("memory_growth", "memory_growth", "system memory",
                         MemoryGrowthScore(r))
    BY DEF GrowthFindings
  <2>2. r \in Nat
    <3>1. Growth(e) \subseteq Int
      BY SamplesOfMemory
    <3>2. r \in Int /\ r > 0
      BY <2>1, <3>1
    <3> QED
      BY <3>2
  <2>3. MemoryGrowthScore(r) \in Score
    BY <2>2, GrowthIsScore
  <2> QED
    BY <1>1, <1>2, <2>1, <2>3
<1>4. \A f \in ThermalFindings(e.thermal) : Told(f, kinds)
  <2> SUFFICES ASSUME NEW f \in ThermalFindings(e.thermal)
               PROVE  Told(f, kinds)
    OBVIOUS
  <2>1. PICK t \in e.thermal :
          \/ f = Finding("cpu_thermal_pressure", "thermal", "cpu_package",
                         ThermalPressureScore(t.pressure))
          \/ f = Finding("cpu_frequency_reduced", "frequency", "cpu_package",
                         FrequencyReductionScore(t.throttling, t.reduced))
    BY DEF ThermalFindings
  <2>2. /\ ThermalPressureScore(t.pressure) \in Score
        /\ FrequencyReductionScore(t.throttling, t.reduced) \in Score
    BY DEF ThermalPressureScore, FrequencyReductionScore, Score
  <2> QED
    BY <1>1, <1>2, <2>1, <2>2
<1>5. \A f \in DeviceFindings(e.devices) : Told(f, kinds)
  <2> SUFFICES ASSUME NEW f \in DeviceFindings(e.devices)
               PROVE  Told(f, kinds)
    OBVIOUS
  <2>1. PICK d \in e.devices : f = Finding("storage_health", "storage_health", d.device,
                                           StorageHealthScore(d.status, d.used))
    BY DEF DeviceFindings
  <2>2. StorageHealthScore(d.status, d.used) \in Score
    BY DEF StorageHealthScore, Score
  <2> QED
    BY <1>1, <1>2, <2>1, <2>2
<1>6. \A f \in BatteryFindings(e.battery) : Told(f, kinds)
  <2> SUFFICES ASSUME NEW f \in BatteryFindings(e.battery)
               PROVE  Told(f, kinds)
    OBVIOUS
  <2>1. PICK h \in UNION e.battery : f = Finding("battery_degraded", "battery", "battery",
                                                 BatteryHealthScore(h))
    BY DEF BatteryFindings
  <2>2. h \in Nat /\ LowBatteryHealth \in Nat
    BY EvidenceOfMachine, ThresholdsAssumption
  <2>3. BatteryHealthScore(h) \in Score
    BY <2>2, ShortfallIsScore DEF BatteryHealthScore
  <2> QED
    BY <1>1, <1>2, <2>1, <2>3
<1>7. \A f \in WifiFindings(e.wifi) : Told(f, kinds)
  <2> SUFFICES ASSUME NEW f \in WifiFindings(e.wifi)
               PROVE  Told(f, kinds)
    OBVIOUS
  <2>1. PICK w \in e.wifi : \E s \in w.signal :
          f = Finding("wifi_weak_signal", "wifi", w.adapter, WifiSignalScore(s))
    BY DEF WifiFindings
  <2>2. PICK s \in w.signal :
          f = Finding("wifi_weak_signal", "wifi", w.adapter, WifiSignalScore(s))
    BY <2>1
  <2>3. s \in Nat /\ WeakWifiSignal \in Nat
    BY EvidenceOfMachine, ThresholdsAssumption
  <2>4. WifiSignalScore(s) \in Score
    BY <2>3, ShortfallIsScore DEF WifiSignalScore
  <2> QED
    BY <1>1, <1>2, <2>2, <2>4
<1> QED
  BY <1>3, <1>4, <1>5, <1>6, <1>7 DEF kinds

\* Every finding of a diagnosis is of a known kind and has a score.
LEMMA FindingsTold ==
    ASSUME NEW e \in Evidence
    PROVE  \A f \in SystemFindings(e) : Told(f, FindingKinds)
PROOF
<1>1. \A f, kinds : Told(f, kinds) /\ kinds \subseteq FindingKinds => Told(f, FindingKinds)
  BY DEF Told
<1>2. \A f \in StorageFindings({d \in e.drives : KnownSize(d)}) : Told(f, FindingKinds)
  BY <1>1, StorageTold DEF FindingKinds
<1>3. \A f \in MemoryFindings(Preferred("load", e), Preferred("available", e),
                              Preferred("total", e)) : Told(f, FindingKinds)
  <2>1. Preferred("load", e) \subseteq Int
    BY SamplesOfMemory DEF AtMostOne
  <2> QED
    BY <1>1, <2>1, MemoryTold DEF FindingKinds
<1>4. \A f \in GroupFindings(e.groups, Preferred("total", e)) : Told(f, FindingKinds)
  <2>1. /\ AtMostOne(Preferred("total", e))
        /\ \A g \in e.groups : AtMostOne(g.cpu) /\ g.own \in Nat /\ g.tree \in Nat
    BY SamplesOfMemory, EvidenceOfMachine
  <2>2. \A f \in GroupFindings(e.groups, Preferred("total", e)) :
          \/ Told(f, {<<"app_high_cpu", "app_cpu">>})
          \/ Told(f, {<<"app_high_memory", "app_memory">>})
    BY <2>1, GroupsTold
  <2> QED
    BY <1>1, <2>2 DEF FindingKinds
<1>5. \A f \in GrowthFindings(Growth(e)) \cup ThermalFindings(e.thermal)
                 \cup DeviceFindings(e.devices) \cup BatteryFindings(e.battery)
                 \cup WifiFindings(e.wifi) : Told(f, FindingKinds)
  BY <1>1, OthersTold DEF FindingKinds
<1> QED
  BY <1>2, <1>3, <1>4, <1>5 DEF SystemFindings

\* What system_diagnose makes of its evidence names causes it has signals for, calls
\* clean what it found nothing in, and never blames an application for its descendants.
LEMMA AnalysisBacked ==
    ASSUME NEW e \in Evidence
    PROVE  LET v == AnalyzeSystem(e)
           IN  /\ v.kind = "diagnosis" /\ \A f \in v.findings : f.score \in Score
               /\ v.clean \subseteq {"storage", "memory", "applications", "growth",
                                     "thermal", "devices", "battery", "wifi"}
               /\ "storage" \in v.clean => e.drives # {}
               /\ "applications" \in v.clean => e.groups # {}
               /\ "memory" \in v.clean => e.first # {} \/ e.second # {}
               /\ "growth" \in v.clean => e.first # {} /\ e.second # {}
               /\ "thermal" \in v.clean => e.thermal # {}
               /\ "devices" \in v.clean => e.devices # {}
               /\ "battery" \in v.clean => e.battery # {}
               /\ "wifi" \in v.clean => e.wifi # {}
               /\ \A f \in v.findings : Concern(f.category) \notin v.clean
               /\ v.causes \subseteq Signals(v.findings)
               /\ v.completeness = "full" =>
                    e.groups # {} /\ (e.first # {} \/ e.second # {})
               /\ \A f \in v.findings :
                    f.category = "app_memory" /\ f.severity # "low" =>
                      \E g \in e.groups : g.name = f.subject /\ g.own >= HighMemoryBytes
PROOF
<1> DEFINE v == AnalyzeSystem(e)
           shown == SystemFindings(e)
           signals == Signals(shown)
<1>1. /\ v.kind = "diagnosis" /\ v.findings = shown
      /\ v.clean = CheckedClean(e, signals)
      /\ v.causes = {SupportingSignal(f.category) : f \in shown}
      /\ v.completeness = IF Preferred("load", e) = {} \/ e.groups = {}
                          THEN "limited" ELSE "full"
  BY DEF AnalyzeSystem
<1>2. \A f \in shown : Told(f, FindingKinds) /\ f.signal \in signals
  BY FindingsTold DEF Signals
<1>3. /\ Preferred("load", e) # {} => e.first # {} \/ e.second # {}
      /\ Growth(e) # {} => e.first # {} /\ e.second # {}
  BY SamplesOfMemory
<1>4. /\ v.clean \subseteq {"storage", "memory", "applications", "growth",
                            "thermal", "devices", "battery", "wifi"}
      /\ "storage" \in v.clean => e.drives # {} /\ "storage_pressure" \notin signals
      /\ "applications" \in v.clean =>
           e.groups # {} /\ "app_high_cpu" \notin signals /\ "app_high_memory" \notin signals
      /\ "memory" \in v.clean =>
           Preferred("load", e) # {} /\ "memory_pressure" \notin signals
      /\ "growth" \in v.clean => Growth(e) # {} /\ "memory_growth" \notin signals
      /\ "thermal" \in v.clean =>
           /\ e.thermal # {} /\ "cpu_thermal_pressure" \notin signals
           /\ "cpu_frequency_reduced" \notin signals
      /\ "devices" \in v.clean => e.devices # {} /\ "storage_health" \notin signals
      /\ "battery" \in v.clean => e.battery # {} /\ "battery_degraded" \notin signals
      /\ "wifi" \in v.clean => e.wifi # {} /\ "wifi_weak_signal" \notin signals
  <2> HIDE DEF signals
  <2> DEFINE clean_storage == /\ {d \in e.drives : KnownSize(d)} # {}
                              /\ "storage_pressure" \notin signals
             clean_memory == Preferred("load", e) # {} /\ "memory_pressure" \notin signals
             clean_applications == /\ e.groups # {}
                                   /\ signals \cap {"app_high_cpu", "app_high_memory"} = {}
             clean_growth == Growth(e) # {} /\ "memory_growth" \notin signals
             clean_thermal == /\ e.thermal # {}
                              /\ signals \cap {"cpu_thermal_pressure", "cpu_frequency_reduced"} = {}
             clean_devices == e.devices # {} /\ "storage_health" \notin signals
             clean_battery == UNION e.battery # {} /\ "battery_degraded" \notin signals
             clean_wifi == e.wifi # {} /\ "wifi_weak_signal" \notin signals
             clean == [storage |-> clean_storage, memory |-> clean_memory,
                       applications |-> clean_applications, growth |-> clean_growth,
                       thermal |-> clean_thermal, devices |-> clean_devices,
                       battery |-> clean_battery, wifi |-> clean_wifi]
  <2>1. v.clean = {dimension \in DOMAIN clean : clean[dimension]}
    BY <1>1 DEF CheckedClean
  <2>2. /\ clean_storage => e.drives # {} /\ "storage_pressure" \notin signals
        /\ clean_memory => Preferred("load", e) # {} /\ "memory_pressure" \notin signals
        /\ clean_applications =>
             e.groups # {} /\ "app_high_cpu" \notin signals /\ "app_high_memory" \notin signals
        /\ clean_growth => Growth(e) # {} /\ "memory_growth" \notin signals
        /\ clean_thermal =>
             /\ e.thermal # {} /\ "cpu_thermal_pressure" \notin signals
             /\ "cpu_frequency_reduced" \notin signals
        /\ clean_devices => e.devices # {} /\ "storage_health" \notin signals
        /\ clean_battery => e.battery # {} /\ "battery_degraded" \notin signals
        /\ clean_wifi => e.wifi # {} /\ "wifi_weak_signal" \notin signals
    OBVIOUS
  <2> HIDE DEF clean_storage, clean_memory, clean_applications, clean_growth, clean_thermal,
               clean_devices, clean_battery, clean_wifi, v
  <2>3. DOMAIN clean = {"storage", "memory", "applications", "growth", "thermal",
                        "devices", "battery", "wifi"}
    OBVIOUS
  <2>4. /\ clean["storage"] = clean_storage /\ clean["memory"] = clean_memory
        /\ clean["applications"] = clean_applications /\ clean["growth"] = clean_growth
        /\ clean["thermal"] = clean_thermal /\ clean["devices"] = clean_devices
        /\ clean["battery"] = clean_battery /\ clean["wifi"] = clean_wifi
    BY Zenon
  <2> HIDE DEF clean
  <2>5. v.clean \subseteq {"storage", "memory", "applications", "growth", "thermal",
                           "devices", "battery", "wifi"}
    BY <2>1, <2>3
  <2>6. \A d \in v.clean : clean[d] = TRUE \/ clean[d]
    BY <2>1, Zenon
  <2>7. /\ "storage" \in v.clean => clean_storage
        /\ "memory" \in v.clean => clean_memory
        /\ "applications" \in v.clean => clean_applications
        /\ "growth" \in v.clean => clean_growth
        /\ "thermal" \in v.clean => clean_thermal
        /\ "devices" \in v.clean => clean_devices
        /\ "battery" \in v.clean => clean_battery
        /\ "wifi" \in v.clean => clean_wifi
    BY <2>4, <2>6, Zenon
  <2> QED
    BY <2>2, <2>5, <2>7
<1> HIDE DEF v, shown, signals
<1>5. \A f \in v.findings : f.score \in Score
  BY <1>1, <1>2 DEF Told
<1>6. \A f \in v.findings : Concern(f.category) \notin v.clean
  <2> SUFFICES ASSUME NEW f \in shown
               PROVE  Concern(f.category) \notin v.clean
    BY <1>1
  <2>1. PICK kind \in FindingKinds : f.signal = kind[1] /\ f.category = kind[2]
    BY <1>2 DEF Told
  <2>2. f.signal \in signals
    BY <1>2
  <2>3. /\ f.category = "storage" => f.signal = "storage_pressure"
        /\ f.category = "memory_pressure" => f.signal = "memory_pressure"
        /\ f.category = "app_cpu" => f.signal = "app_high_cpu"
        /\ f.category = "app_memory" => f.signal = "app_high_memory"
        /\ f.category = "memory_growth" => f.signal = "memory_growth"
        /\ f.category = "thermal" => f.signal = "cpu_thermal_pressure"
        /\ f.category = "frequency" => f.signal = "cpu_frequency_reduced"
        /\ f.category = "storage_health" => f.signal = "storage_health"
        /\ f.category = "battery" => f.signal = "battery_degraded"
        /\ f.category = "wifi" => f.signal = "wifi_weak_signal"
        /\ f.category \in {"storage", "memory_pressure", "app_cpu", "app_memory",
                           "memory_growth", "thermal", "frequency", "storage_health",
                           "battery", "wifi"}
    BY <2>1 DEF FindingKinds
  <2> QED
    BY <1>4, <2>2, <2>3 DEF Concern
<1>7. v.causes \subseteq Signals(v.findings)
  <2> SUFFICES ASSUME NEW f \in shown
               PROVE  SupportingSignal(f.category) \in signals
    BY <1>1 DEF signals
  <2>1. PICK kind \in FindingKinds : f.signal = kind[1] /\ f.category = kind[2]
    BY <1>2 DEF Told
  <2>2. SupportingSignal(f.category) = f.signal
    BY <2>1 DEF FindingKinds, SupportingSignal
  <2> QED
    BY <1>2, <2>2
<1>8. \A f \in v.findings :
        f.category = "app_memory" /\ f.severity # "low" =>
          \E g \in e.groups : g.name = f.subject /\ g.own >= HighMemoryBytes
  <2> SUFFICES ASSUME NEW f \in shown, f.category = "app_memory", f.severity # "low"
               PROVE  \E g \in e.groups : g.name = f.subject /\ g.own >= HighMemoryBytes
    BY <1>1
  <2>1. /\ AtMostOne(Preferred("total", e))
        /\ \A g \in e.groups : AtMostOne(g.cpu) /\ g.own \in Nat /\ g.tree \in Nat
    BY SamplesOfMemory, EvidenceOfMachine
  <2>2. f \in GroupFindings(e.groups, Preferred("total", e))
    <3>1. Preferred("load", e) \subseteq Int
      BY SamplesOfMemory DEF AtMostOne
    <3>2. \A x \in StorageFindings({d \in e.drives : KnownSize(d)}) : x.category = "storage"
      BY StorageTold DEF Told
    <3>3. \A x \in MemoryFindings(Preferred("load", e), Preferred("available", e),
                                  Preferred("total", e)) : x.category = "memory_pressure"
      BY <3>1, MemoryTold DEF Told
    <3>4. \A x \in GrowthFindings(Growth(e)) \cup ThermalFindings(e.thermal)
                     \cup DeviceFindings(e.devices) \cup BatteryFindings(e.battery)
                     \cup WifiFindings(e.wifi) : x.category # "app_memory"
      BY OthersTold DEF Told
    <3> QED
      BY <3>2, <3>3, <3>4 DEF shown, SystemFindings
  <2>3. PICK g \in e.groups :
          /\ HighMemory(g)
          /\ f = Finding("app_high_memory", "app_memory", g.name,
                         GroupMemoryScore(g, Preferred("total", e)))
    <3>1. ~ Told(f, {<<"app_high_cpu", "app_cpu">>})
      BY DEF Told
    <3> QED
      BY <2>1, <2>2, <3>1, GroupsTold
  <2> DEFINE score == GroupMemoryScore(g, Preferred("total", e))
  <2>4. score \in Score /\ (HighMemoryTreeOnly(g) => score <= 49)
    BY <2>1, GroupIsScore
  <2>5. f.subject = g.name /\ f.severity = ScoreBands(score)
    BY <2>3 DEF Finding
  <2> HIDE DEF score
  <2>6. ~ HighMemoryTreeOnly(g)
    BY <2>4, <2>5, LowIsLow
  <2>7. g.own >= HighMemoryBytes
    BY <2>1, <2>3, <2>6, ThresholdsAssumption DEF HighMemoryTreeOnly
  <2> QED
    BY <2>5, <2>7
<1>9. v.completeness = "full" => e.groups # {} /\ (e.first # {} \/ e.second # {})
  BY <1>1, <1>3
<1> QED
  BY <1>1, <1>3, <1>4, <1>5, <1>6, <1>7, <1>8, <1>9 DEF v

\* Two findings that say the same, whatever signal they rest on.
Alike(f, h) == /\ f.category = h.category /\ f.subject = h.subject
               /\ f.score = h.score /\ f.severity = h.severity

LEMMA AlikeWithin ==
    ASSUME NEW A, NEW B, NEW categories,
           \A f \in A : f.category \in categories => \E h \in B : Alike(f, h)
    PROVE  Judged(A, categories) \subseteq Judged(B, categories)
PROOF
<1> SUFFICES ASSUME NEW j \in Judged(A, categories)
             PROVE  j \in Judged(B, categories)
  OBVIOUS
<1>1. PICK f \in A : /\ f.category \in categories
                     /\ j = [category |-> f.category, subject |-> f.subject,
                             score |-> f.score, severity |-> f.severity]
  BY DEF Judged
<1>2. PICK h \in B : Alike(f, h)
  BY <1>1
<1>3. /\ h.category \in categories
      /\ j = [category |-> h.category, subject |-> h.subject,
              score |-> h.score, severity |-> h.severity]
  BY <1>1, <1>2 DEF Alike
<1> QED
  BY <1>3 DEF Judged

LEMMA AlikeJudged ==
    ASSUME NEW A, NEW B, NEW categories,
           \A f \in A : f.category \in categories => \E h \in B : Alike(f, h),
           \A h \in B : h.category \in categories => \E f \in A : Alike(f, h)
    PROVE  Judged(A, categories) = Judged(B, categories)
PROOF
<1>1. Judged(A, categories) \subseteq Judged(B, categories)
  BY AlikeWithin
<1>2. \A h \in B : h.category \in categories => \E f \in A : Alike(h, f)
  BY DEF Alike
<1>3. Judged(B, categories) \subseteq Judged(A, categories)
  BY <1>2, AlikeWithin
<1> QED
  BY <1>1, <1>3

LEMMA FindingAlike ==
    ASSUME NEW signal, NEW other, NEW category, NEW subject, NEW score
    PROVE  Alike(Finding(signal, category, subject, score),
                 Finding(other, category, subject, score))
  BY DEF Finding, Alike

\* A drive of a known size that is not zero scores the same with both tools.
LEMMA DriveScoresAlike ==
    ASSUME NEW total, AtMostOne(total), 0 \notin total, NEW t \in total, NEW free
    PROVE  (IF total \ {0} = {} THEN 100 ELSE Highest({StorageScore(free, x) : x \in total}))
             = IF t = 0 THEN 0 ELSE StorageScore(free, t)
PROOF
<1>1. total = {t}
  BY OneHighest
<1>2. {StorageScore(free, x) : x \in total} = {StorageScore(free, t)}
  BY <1>1
<1>3. StorageScore(free, t) \in Int
  BY StorageIsScore DEF Score
<1>4. Highest({StorageScore(free, t)}) = StorageScore(free, t)
  BY <1>3, HighestOfOne
<1> QED
  BY <1>2, <1>4

LEMMA AnalysisAgrees ==
    ASSUME NEW e \in Evidence
    PROVE  LET snapshot == [load |-> Preferred("load", e),
                            available |-> Preferred("available", e),
                            total |-> Preferred("total", e)]
               drives == Measurable(e.drives)
               of(f) == f.category = "storage" => \E d \in drives : f.subject = d.root
           IN  Judged({f \in AnalyzeSystem(e).findings : of(f)}, SharedCategories)
                 = Judged(HealthIssues(e.groups, drives, snapshot), SharedCategories)
PROOF
<1> DEFINE loads == Preferred("load", e)
           available == Preferred("available", e)
           total == Preferred("total", e)
           snapshot == [load |-> loads, available |-> available, total |-> total]
           drives == Measurable(e.drives)
           known == {d \in e.drives : KnownSize(d)}
           of(f) == f.category = "storage" => \E d \in drives : f.subject = d.root
           shown == SystemFindings(e)
           A == {f \in shown : of(f)}
           B == HealthIssues(e.groups, drives, snapshot)
           heavy(d, free) == IF d.total \ {0} = {} THEN 100
                            ELSE Highest({StorageScore(free, t) : t \in d.total})
<1>1. AnalyzeSystem(e).findings = shown
  BY DEF AnalyzeSystem
<1>2. /\ AtMostOne(total) /\ loads \subseteq Int
      /\ \A g \in e.groups : AtMostOne(g.cpu) /\ g.own \in Nat /\ g.tree \in Nat
      /\ \A d \in e.drives : AtMostOne(d.free) /\ AtMostOne(d.total)
      /\ \A c, d \in e.drives : c.root = d.root => c = d
  BY SamplesOfMemory, EvidenceOfMachine DEF AtMostOne
<1>3. /\ StorageFindings(known) \subseteq shown
      /\ MemoryFindings(loads, available, total) \subseteq shown
      /\ GroupFindings(e.groups, total) \subseteq shown
  BY DEF SystemFindings
<1> DEFINE hot == UNION {{Finding("high_cpu", "app_cpu", g.name, AppCpuScore(c)) :
                            c \in g.cpu} : g \in {h \in e.groups : HighCpu(h)}}
           big == {Finding("high_memory", "app_memory", g.name,
                           GroupMemoryScore(g, snapshot.total)) :
                     g \in {h \in e.groups : HighMemory(h)}}
           low == UNION {{Finding("low_disk_space", "storage", d.root, heavy(d, free)) :
                            free \in {x \in d.free : x <= LowDiskFreeBytes}} : d \in drives}
<1>s. snapshot.load = loads /\ snapshot.available = available /\ snapshot.total = total
  OBVIOUS
<1>4. B = hot \cup big \cup low \cup MemoryFindings(loads, available, total)
  <2> HIDE DEF snapshot, drives
  <2>1. B = hot \cup big \cup low
              \cup MemoryFindings(snapshot.load, snapshot.available, snapshot.total)
    BY DEF HealthIssues, MemoryFindings
  <2> QED
    BY <1>s, <2>1
<1>5. \A d \in drives : d \in e.drives /\ d \in known /\ 0 \notin d.total /\ d.total # {}
  BY DEF Measurable, KnownSize
<1>6. ASSUME NEW d \in drives, NEW t \in d.total, NEW free
      PROVE  heavy(d, free) = IF t = 0 THEN 0 ELSE StorageScore(free, t)
  BY <1>2, <1>5, DriveScoresAlike
<1> HIDE DEF heavy, shown, loads, available, total, B, snapshot
<1>a. \A g \in e.groups : \A c \in g.cpu :
        HighCpu(g) => Finding("high_cpu", "app_cpu", g.name, AppCpuScore(c)) \in hot
  OBVIOUS
<1>b. \A g \in e.groups :
        HighMemory(g) =>
          Finding("high_memory", "app_memory", g.name, GroupMemoryScore(g, total)) \in big
  BY <1>s
<1>c. \A d \in drives : \A free \in {x \in d.free : x <= LowDiskFreeBytes} :
        Finding("low_disk_space", "storage", d.root, heavy(d, free)) \in low
  OBVIOUS
<1>d. \A h \in hot : \E g \in e.groups : \E c \in g.cpu :
        HighCpu(g) /\ h = Finding("high_cpu", "app_cpu", g.name, AppCpuScore(c))
  OBVIOUS
<1>e. \A h \in big : \E g \in e.groups :
        /\ HighMemory(g)
        /\ h = Finding("high_memory", "app_memory", g.name, GroupMemoryScore(g, total))
  BY <1>s
<1>f. \A h \in low : \E d \in drives : \E free \in {x \in d.free : x <= LowDiskFreeBytes} :
        h = Finding("low_disk_space", "storage", d.root, heavy(d, free))
  OBVIOUS
<1> HIDE DEF hot, big, low
<1>7. ASSUME NEW f \in A, f.category \in SharedCategories
      PROVE  \E h \in B : Alike(f, h)
  <2>1. \/ f \in StorageFindings(known) \/ f \in MemoryFindings(loads, available, total)
        \/ f \in GroupFindings(e.groups, total)
    <3>1. \A x \in GrowthFindings(Growth(e)) \cup ThermalFindings(e.thermal)
                     \cup DeviceFindings(e.devices) \cup BatteryFindings(e.battery)
                     \cup WifiFindings(e.wifi) : x.category \notin SharedCategories
      BY OthersTold DEF Told, SharedCategories
    <3> QED
      BY <1>7, <3>1 DEF shown, SystemFindings, loads, available, total
  <2>2. CASE f \in StorageFindings(known)
    <3>1. PICK d \in known : \E free \in {x \in d.free : x <= LowDiskFreeBytes}, t \in d.total :
            f = Finding("storage_pressure", "storage", d.root,
                        IF t = 0 THEN 0 ELSE StorageScore(free, t))
      BY <2>2 DEF StorageFindings
    <3>2. PICK free \in {x \in d.free : x <= LowDiskFreeBytes}, t \in d.total :
            f = Finding("storage_pressure", "storage", d.root,
                        IF t = 0 THEN 0 ELSE StorageScore(free, t))
      BY <3>1
    <3>3. f.category = "storage" /\ f.subject = d.root
      BY <3>2 DEF Finding
    <3>4. PICK c \in drives : d.root = c.root
      BY <1>7, <3>3
    <3>5. d \in drives
      BY <1>2, <1>5, <3>4
    <3>6. f = Finding("storage_pressure", "storage", d.root, heavy(d, free))
      BY <1>6, <3>2, <3>5
    <3>7. Finding("low_disk_space", "storage", d.root, heavy(d, free)) \in B
      BY <1>4, <1>c, <3>2, <3>5
    <3> QED
      BY <3>6, <3>7, FindingAlike
  <2>3. CASE f \in MemoryFindings(loads, available, total)
    <3>1. f \in B /\ Alike(f, f)
      BY <1>4, <2>3 DEF Alike
    <3> QED
      BY <3>1
  <2>4. CASE f \in GroupFindings(e.groups, total)
    <3>1. \/ \E g \in e.groups : \E c \in g.cpu :
               /\ HighCpu(g)
               /\ f = Finding("app_high_cpu", "app_cpu", g.name, AppCpuScore(c))
          \/ \E g \in e.groups :
               /\ HighMemory(g)
               /\ f = Finding("app_high_memory", "app_memory", g.name,
                              GroupMemoryScore(g, total))
      BY <1>2, <2>4, GroupsTold
    <3>2. ASSUME NEW g \in e.groups, NEW c \in g.cpu, HighCpu(g),
                 f = Finding("app_high_cpu", "app_cpu", g.name, AppCpuScore(c))
          PROVE  \E h \in B : Alike(f, h)
      <4>1. Finding("high_cpu", "app_cpu", g.name, AppCpuScore(c)) \in B
        BY <1>4, <1>a, <3>2
      <4> QED
        BY <3>2, <4>1, FindingAlike
    <3>3. ASSUME NEW g \in e.groups, HighMemory(g),
                 f = Finding("app_high_memory", "app_memory", g.name,
                             GroupMemoryScore(g, total))
          PROVE  \E h \in B : Alike(f, h)
      <4>1. Finding("high_memory", "app_memory", g.name, GroupMemoryScore(g, total)) \in B
        BY <1>4, <1>b, <3>3
      <4> QED
        BY <3>3, <4>1, FindingAlike
    <3> QED
      BY <3>1, <3>2, <3>3
  <2> QED
    BY <2>1, <2>2, <2>3, <2>4
<1>8. ASSUME NEW h \in B
      PROVE  \E f \in A : Alike(f, h)
  <2>1. CASE h \in MemoryFindings(loads, available, total)
    <3>1. h \in shown /\ h.category = "memory_pressure"
      BY <1>2, <1>3, <2>1, MemoryTold DEF Told
    <3>2. h \in A /\ Alike(h, h)
      BY <3>1 DEF Alike
    <3> QED
      BY <3>2
  <2>2. ASSUME NEW g \in e.groups, HighCpu(g), NEW c \in g.cpu,
               h = Finding("high_cpu", "app_cpu", g.name, AppCpuScore(c))
        PROVE  \E f \in A : Alike(f, h)
    <3>1. Highest(g.cpu) = c
      BY <1>2, OneHighest
    <3> DEFINE f == Finding("app_high_cpu", "app_cpu", g.name, AppCpuScore(c))
    <3>2. f \in shown
      BY <1>3, <2>2, <3>1 DEF GroupFindings
    <3>3. f.category = "app_cpu"
      BY DEF Finding
    <3>4. f \in A
      BY <3>2, <3>3
    <3> QED
      BY <2>2, <3>4, FindingAlike
  <2>3. ASSUME NEW g \in e.groups, HighMemory(g),
               h = Finding("high_memory", "app_memory", g.name, GroupMemoryScore(g, total))
        PROVE  \E f \in A : Alike(f, h)
    <3> DEFINE f == Finding("app_high_memory", "app_memory", g.name,
                            GroupMemoryScore(g, total))
    <3>1. f \in shown
      BY <1>3, <2>3 DEF GroupFindings
    <3>2. f.category = "app_memory"
      BY DEF Finding
    <3>3. f \in A
      BY <3>1, <3>2
    <3> QED
      BY <2>3, <3>3, FindingAlike
  <2>4. ASSUME NEW d \in drives, NEW free \in {x \in d.free : x <= LowDiskFreeBytes},
               h = Finding("low_disk_space", "storage", d.root, heavy(d, free))
        PROVE  \E f \in A : Alike(f, h)
    <3>1. PICK t \in d.total : TRUE
      BY <1>5
    <3> DEFINE f == Finding("storage_pressure", "storage", d.root, heavy(d, free))
    <3>2. f = Finding("storage_pressure", "storage", d.root,
                      IF t = 0 THEN 0 ELSE StorageScore(free, t))
      BY <1>6
    <3>3. f \in StorageFindings(known)
      BY <1>5, <2>4, <3>2 DEF StorageFindings
    <3>4. f.category = "storage" /\ f.subject = d.root
      BY DEF Finding
    <3>5. f \in A
      BY <1>3, <3>3, <3>4
    <3> QED
      BY <2>4, <3>5, FindingAlike
  <2> QED
    BY <1>4, <1>d, <1>e, <1>f, <2>1, <2>2, <2>3, <2>4
<1>9. Judged(A, SharedCategories) = Judged(B, SharedCategories)
  <2> HIDE DEF A
  <2> QED
    BY <1>7, <1>8, AlikeJudged
<1> QED
  BY <1>1, <1>9 DEF B, loads, available, total, snapshot

\* Every issue of system_health has a score.
LEMMA HealthScored ==
    ASSUME NEW readings \in GroupReadings, NEW drives \in DriveReadings,
           NEW snapshot \in MemoryReadings
    PROVE  \A f \in HealthIssues(readings, drives, snapshot) : f.score \in Score
PROOF
<1> DEFINE heavy(d, free) == IF d.total \ {0} = {} THEN 100
                            ELSE Highest({StorageScore(free, t) : t \in d.total})
           low == UNION {{Finding("low_disk_space", "storage", d.root, heavy(d, free)) :
                            free \in {x \in d.free : x <= LowDiskFreeBytes}} : d \in drives}
           hot == UNION {{Finding("high_cpu", "app_cpu", g.name, AppCpuScore(c)) :
                            c \in g.cpu} : g \in {h \in readings : HighCpu(h)}}
           big == {Finding("high_memory", "app_memory", g.name,
                           GroupMemoryScore(g, snapshot.total)) :
                     g \in {h \in readings : HighMemory(h)}}
<1>1. HealthIssues(readings, drives, snapshot)
        = hot \cup big \cup low
            \cup MemoryFindings(snapshot.load, snapshot.available, snapshot.total)
  BY DEF HealthIssues, MemoryFindings
<1>2. /\ AtMostOne(snapshot.total) /\ snapshot.load \subseteq Int
      /\ \A g \in readings : AtMostOne(g.cpu) /\ g.own \in Nat /\ g.tree \in Nat
  BY ReadingsAssumption DEF AtMostOne
<1>3. \A f \in hot : f.score \in Score
  <2> SUFFICES ASSUME NEW f \in hot
               PROVE  f.score \in Score
    OBVIOUS
  <2>1. PICK g \in readings : \E c \in g.cpu :
          f = Finding("high_cpu", "app_cpu", g.name, AppCpuScore(c))
    OBVIOUS
  <2>2. PICK c \in g.cpu : f = Finding("high_cpu", "app_cpu", g.name, AppCpuScore(c))
    BY <2>1
  <2>3. AppCpuScore(c) \in Score
    BY <1>2, AtMostIsScore DEF AppCpuScore, AtMostOne
  <2> QED
    BY <2>2, <2>3 DEF Finding
<1>4. \A f \in big : f.score \in Score
  <2> SUFFICES ASSUME NEW f \in big
               PROVE  f.score \in Score
    OBVIOUS
  <2>1. PICK g \in readings : f = Finding("high_memory", "app_memory", g.name,
                                          GroupMemoryScore(g, snapshot.total))
    OBVIOUS
  <2>2. GroupMemoryScore(g, snapshot.total) \in Score
    BY <1>2, GroupIsScore
  <2> QED
    BY <2>1, <2>2 DEF Finding
<1>5. \A f \in low : f.score \in Score
  <2> SUFFICES ASSUME NEW d, NEW free
               PROVE  Finding("low_disk_space", "storage", d.root, heavy(d, free)).score
                        \in Score
    <3> HIDE DEF heavy
    <3> QED
      OBVIOUS
  <2>1. CASE d.total \ {0} = {}
    <3>1. heavy(d, free) = 100 /\ 100 \in Score
      BY <2>1 DEF Score
    <3> HIDE DEF heavy
    <3> QED
      BY <3>1 DEF Finding
  <2>2. CASE d.total \ {0} # {}
    <3> DEFINE T == {StorageScore(free, t) : t \in d.total}
    <3>1. T \subseteq Score /\ T # {} /\ heavy(d, free) = Highest(T)
      BY <2>2, StorageIsScore
    <3> HIDE DEF T, heavy
    <3>2. heavy(d, free) \in Score
      BY <3>1, HighestIsOne
    <3> QED
      BY <3>2 DEF Finding
  <2> QED
    BY <2>1, <2>2
<1>6. \A f \in MemoryFindings(snapshot.load, snapshot.available, snapshot.total) :
        f.score \in Score
  BY <1>2, MemoryTold DEF Told
<1> HIDE DEF hot, big, low
<1> QED
  BY <1>1, <1>3, <1>4, <1>5, <1>6

DiagnosisSteps ==
    {"idle", "health", "groups", "drives", "thermal", "devices", "battery", "wifi",
     "first", "second", "analyze", "answered"}

\* A dimension whose read failed, or is still to come, has no evidence.
Lacking(dimension, reading, steps) ==
    /\ dimension \in failed \/ dstep \in steps => reading = {}
    /\ dstep \in steps => dimension \notin failed

ReadInTurn ==
    /\ Lacking("groups", data.groups, {"idle", "health", "groups"})
    /\ Lacking("drives", data.drives, {"idle", "health", "groups", "drives"})
    /\ Lacking("thermal", data.thermal, {"idle", "health", "groups", "drives", "thermal"})
    /\ Lacking("devices", data.devices,
             {"idle", "health", "groups", "drives", "thermal", "devices"})
    /\ Lacking("battery", data.battery,
             {"idle", "health", "groups", "drives", "thermal", "devices", "battery"})
    /\ Lacking("wifi", data.wifi,
             {"idle", "health", "groups", "drives", "thermal", "devices", "battery", "wifi"})
    /\ Lacking("first", data.first, DiagnosisSteps \ {"second", "analyze", "answered"})
    /\ Lacking("second", data.second, DiagnosisSteps \ {"analyze", "answered"})

\* An answer is about the evidence that was collected.
VerdictOfEvidence ==
    \/ verdict = NoVerdict
    \/ /\ dstep = "answered"
       /\ \/ verdict = [kind |-> "error"]
          \/ \E g \in GroupReadings, d \in DriveReadings, s \in MemoryReadings :
               verdict = [kind |-> "health", findings |-> HealthIssues(g, d, s)]
          \/ verdict = AnalyzeSystem(data)

DiagnosisInv ==
    /\ dtool \in {"none", "system_health", "system_diagnose"} /\ dstep \in DiagnosisSteps
    /\ data \in Evidence /\ failed \subseteq DOMAIN NoData \cup {"health"}
    /\ ReadInTurn /\ VerdictOfEvidence

LEMMA Dimensions ==
    /\ DOMAIN NoData = {"groups", "drives", "thermal", "devices", "battery", "wifi",
                        "first", "second"}
    /\ NoData \in Evidence
    /\ NoData.groups = {} /\ NoData.drives = {} /\ NoData.thermal = {}
    /\ NoData.devices = {} /\ NoData.battery = {} /\ NoData.wifi = {}
    /\ NoData.first = {} /\ NoData.second = {}
  BY DEF NoData, Evidence

LEMMA DiagnosisStarts == DiagnosisIdle => DiagnosisInv
  BY Dimensions DEF DiagnosisIdle, DiagnosisInv, ReadInTurn, Lacking, VerdictOfEvidence,
                    DiagnosisSteps

LEMMA HealthCollected == DiagnosisInv /\ CollectHealth => DiagnosisInv'
PROOF
<1> SUFFICES ASSUME DiagnosisInv, CollectHealth
             PROVE  DiagnosisInv'
  OBVIOUS
<1>1. dstep = "health" /\ dstep' = "answered" /\ dtool' = dtool /\ data \in Evidence
  BY DEF CollectHealth, DiagnosisInv
<1>2. CASE \E g \in GroupReadings, d \in DriveReadings, s \in MemoryReadings :
             /\ data' = [data EXCEPT !.groups = g, !.drives = d, !.second = {s}]
             /\ verdict' = [kind |-> "health", findings |-> HealthIssues(g, d, s)]
             /\ failed' = failed
  <2>1. PICK g \in GroupReadings, d \in DriveReadings, s \in MemoryReadings :
             /\ data' = [data EXCEPT !.groups = g, !.drives = d, !.second = {s}]
             /\ verdict' = [kind |-> "health", findings |-> HealthIssues(g, d, s)]
             /\ failed' = failed
    BY <1>2
  <2>2. data' \in Evidence
    BY <1>1, <2>1 DEF Evidence
  <2>3. /\ data'.thermal = data.thermal /\ data'.devices = data.devices
        /\ data'.battery = data.battery /\ data'.wifi = data.wifi
        /\ data'.first = data.first
    BY <1>1, <2>1 DEF Evidence
  <2>4. ReadInTurn'
    BY <1>1, <2>1, <2>3 DEF DiagnosisInv, ReadInTurn, Lacking, DiagnosisSteps
  <2>5. VerdictOfEvidence'
    BY <1>1, <2>1 DEF VerdictOfEvidence
  <2> QED
    BY <1>1, <2>1, <2>2, <2>4, <2>5 DEF DiagnosisInv, DiagnosisSteps
<1>3. CASE failed' = {"health"} /\ verdict' = [kind |-> "error"] /\ data' = data
  <2>1. ReadInTurn'
    BY <1>1, <1>3 DEF DiagnosisInv, ReadInTurn, Lacking, DiagnosisSteps
  <2> QED
    BY <1>1, <1>3, <2>1 DEF DiagnosisInv, DiagnosisSteps, VerdictOfEvidence
<1> QED
  BY <1>2, <1>3 DEF CollectHealth

\* Until there is an answer, there is none.
LEMMA NoVerdictYet ==
    ASSUME DiagnosisInv, dstep # "answered", verdict' = verdict
    PROVE  verdict' = NoVerdict /\ VerdictOfEvidence'
  BY DEF DiagnosisInv, VerdictOfEvidence

\* What a read leaves.
ReadOn ==
    /\ data' \in Evidence /\ ReadInTurn' /\ failed' \subseteq DOMAIN NoData \cup {"health"}
    /\ dstep' \in DiagnosisSteps /\ dtool' = dtool /\ verdict' = verdict

\* A read fills its own dimension or marks it as failed, and goes on to the next.
LEMMA DimensionCollected ==
    ASSUME DiagnosisInv,
           \/ CollectGroups \/ CollectDrives \/ CollectThermal \/ CollectDevices
           \/ CollectBattery \/ CollectWifi \/ TakeFirst \/ TakeSecond
    PROVE  DiagnosisInv'
PROOF
<1> DEFINE thermals == {{ThermalState(t.temperature, t.reduced)} : t \in ThermalReadings}
           batteries == {{b} : b \in BatteryReadings}
           samples == {{s} : s \in MemoryReadings}
<1>1. /\ data \in Evidence /\ failed \subseteq DOMAIN NoData \cup {"health"}
      /\ dtool \in {"none", "system_health", "system_diagnose"} /\ ReadInTurn
  BY DEF DiagnosisInv
<1>2. ASSUME NEW dimension, NEW here, NEW next, NEW readings,
             Collect(dimension, here, next, readings)
      PROVE  /\ dstep = here /\ dstep' = next /\ dtool' = dtool /\ verdict' = verdict
             /\ \/ /\ \E r \in readings : data' = [data EXCEPT ![dimension] = r]
                   /\ failed' = failed
                \/ failed' = failed \cup {dimension} /\ data' = data
  BY <1>2 DEF Collect
<1>3. ASSUME CollectGroups
      PROVE  ReadOn /\ dstep = "groups"
  <2>1. /\ dstep = "groups" /\ dstep' = "drives" /\ dtool' = dtool /\ verdict' = verdict
        /\ \/ /\ \E r \in GroupReadings : data' = [data EXCEPT !["groups"] = r]
              /\ failed' = failed
           \/ failed' = failed \cup {"groups"} /\ data' = data
    BY <1>2, <1>3 DEF CollectGroups
  <2>2. data' \in Evidence
    BY <1>1, <2>1 DEF Evidence
  <2>3. /\ data'.drives = data.drives /\ data'.thermal = data.thermal
        /\ data'.devices = data.devices /\ data'.battery = data.battery
        /\ data'.wifi = data.wifi /\ data'.first = data.first
        /\ data'.second = data.second
        /\ failed' = failed \/ data'.groups = data.groups
    BY <1>1, <2>1 DEF Evidence
  <2>4. ReadInTurn'
    BY <1>1, <2>1, <2>3 DEF ReadInTurn, Lacking, DiagnosisSteps
  <2> QED
    BY <1>1, <2>1, <2>2, <2>4, Dimensions DEF ReadOn, DiagnosisSteps
<1>4. ASSUME CollectDrives
      PROVE  ReadOn /\ dstep = "drives"
  <2>1. /\ dstep = "drives" /\ dstep' = "thermal" /\ dtool' = dtool /\ verdict' = verdict
        /\ \/ /\ \E r \in DriveReadings : data' = [data EXCEPT !["drives"] = r]
              /\ failed' = failed
           \/ failed' = failed \cup {"drives"} /\ data' = data
    BY <1>2, <1>4 DEF CollectDrives
  <2>2. data' \in Evidence
    BY <1>1, <2>1 DEF Evidence
  <2>3. /\ data'.groups = data.groups /\ data'.thermal = data.thermal
        /\ data'.devices = data.devices /\ data'.battery = data.battery
        /\ data'.wifi = data.wifi /\ data'.first = data.first
        /\ data'.second = data.second
        /\ failed' = failed \/ data'.drives = data.drives
    BY <1>1, <2>1 DEF Evidence
  <2>4. ReadInTurn'
    BY <1>1, <2>1, <2>3 DEF ReadInTurn, Lacking, DiagnosisSteps
  <2> QED
    BY <1>1, <2>1, <2>2, <2>4, Dimensions DEF ReadOn, DiagnosisSteps
<1>5. ASSUME CollectThermal
      PROVE  ReadOn /\ dstep = "thermal"
  <2>1. /\ dstep = "thermal" /\ dstep' = "devices" /\ dtool' = dtool /\ verdict' = verdict
        /\ \/ /\ \E r \in thermals : data' = [data EXCEPT !["thermal"] = r]
              /\ failed' = failed
           \/ failed' = failed \cup {"thermal"} /\ data' = data
    BY <1>2, <1>5 DEF CollectThermal
  <2>2. data' \in Evidence
    BY <1>1, <2>1 DEF Evidence
  <2>3. /\ data'.groups = data.groups /\ data'.drives = data.drives
        /\ data'.devices = data.devices /\ data'.battery = data.battery
        /\ data'.wifi = data.wifi /\ data'.first = data.first
        /\ data'.second = data.second
        /\ failed' = failed \/ data'.thermal = data.thermal
    BY <1>1, <2>1 DEF Evidence
  <2>4. ReadInTurn'
    BY <1>1, <2>1, <2>3 DEF ReadInTurn, Lacking, DiagnosisSteps
  <2> QED
    BY <1>1, <2>1, <2>2, <2>4, Dimensions DEF ReadOn, DiagnosisSteps
<1>6. ASSUME CollectDevices
      PROVE  ReadOn /\ dstep = "devices"
  <2>1. /\ dstep = "devices" /\ dstep' = "battery" /\ dtool' = dtool /\ verdict' = verdict
        /\ \/ /\ \E r \in DeviceReadings : data' = [data EXCEPT !["devices"] = r]
              /\ failed' = failed
           \/ failed' = failed \cup {"devices"} /\ data' = data
    BY <1>2, <1>6 DEF CollectDevices
  <2>2. data' \in Evidence
    BY <1>1, <2>1 DEF Evidence
  <2>3. /\ data'.groups = data.groups /\ data'.drives = data.drives
        /\ data'.thermal = data.thermal /\ data'.battery = data.battery
        /\ data'.wifi = data.wifi /\ data'.first = data.first
        /\ data'.second = data.second
        /\ failed' = failed \/ data'.devices = data.devices
    BY <1>1, <2>1 DEF Evidence
  <2>4. ReadInTurn'
    BY <1>1, <2>1, <2>3 DEF ReadInTurn, Lacking, DiagnosisSteps
  <2> QED
    BY <1>1, <2>1, <2>2, <2>4, Dimensions DEF ReadOn, DiagnosisSteps
<1>7. ASSUME CollectBattery
      PROVE  ReadOn /\ dstep = "battery"
  <2>1. /\ dstep = "battery" /\ dstep' = "wifi" /\ dtool' = dtool /\ verdict' = verdict
        /\ \/ /\ \E r \in batteries : data' = [data EXCEPT !["battery"] = r]
              /\ failed' = failed
           \/ failed' = failed \cup {"battery"} /\ data' = data
    BY <1>2, <1>7 DEF CollectBattery
  <2>2. data' \in Evidence
    BY <1>1, <2>1 DEF Evidence
  <2>3. /\ data'.groups = data.groups /\ data'.drives = data.drives
        /\ data'.thermal = data.thermal /\ data'.devices = data.devices
        /\ data'.wifi = data.wifi /\ data'.first = data.first
        /\ data'.second = data.second
        /\ failed' = failed \/ data'.battery = data.battery
    BY <1>1, <2>1 DEF Evidence
  <2>4. ReadInTurn'
    BY <1>1, <2>1, <2>3 DEF ReadInTurn, Lacking, DiagnosisSteps
  <2> QED
    BY <1>1, <2>1, <2>2, <2>4, Dimensions DEF ReadOn, DiagnosisSteps
<1>8. ASSUME CollectWifi
      PROVE  ReadOn /\ dstep = "wifi"
  <2>1. /\ dstep = "wifi" /\ dstep' = "first" /\ dtool' = dtool /\ verdict' = verdict
        /\ \/ /\ \E r \in WifiReadings : data' = [data EXCEPT !["wifi"] = r]
              /\ failed' = failed
           \/ failed' = failed \cup {"wifi"} /\ data' = data
    BY <1>2, <1>8 DEF CollectWifi
  <2>2. data' \in Evidence
    BY <1>1, <2>1 DEF Evidence
  <2>3. /\ data'.groups = data.groups /\ data'.drives = data.drives
        /\ data'.thermal = data.thermal /\ data'.devices = data.devices
        /\ data'.battery = data.battery /\ data'.first = data.first
        /\ data'.second = data.second
        /\ failed' = failed \/ data'.wifi = data.wifi
    BY <1>1, <2>1 DEF Evidence
  <2>4. ReadInTurn'
    BY <1>1, <2>1, <2>3 DEF ReadInTurn, Lacking, DiagnosisSteps
  <2> QED
    BY <1>1, <2>1, <2>2, <2>4, Dimensions DEF ReadOn, DiagnosisSteps
<1>9. ASSUME TakeFirst
      PROVE  ReadOn /\ dstep = "first"
  <2>1. /\ dstep = "first" /\ dstep' = "second" /\ dtool' = dtool /\ verdict' = verdict
        /\ \/ /\ \E r \in samples : data' = [data EXCEPT !["first"] = r]
              /\ failed' = failed
           \/ failed' = failed \cup {"first"} /\ data' = data
    BY <1>2, <1>9 DEF TakeFirst
  <2>2. data' \in Evidence
    BY <1>1, <2>1 DEF Evidence
  <2>3. /\ data'.groups = data.groups /\ data'.drives = data.drives
        /\ data'.thermal = data.thermal /\ data'.devices = data.devices
        /\ data'.battery = data.battery /\ data'.wifi = data.wifi
        /\ data'.second = data.second
        /\ failed' = failed \/ data'.first = data.first
    BY <1>1, <2>1 DEF Evidence
  <2>4. ReadInTurn'
    BY <1>1, <2>1, <2>3 DEF ReadInTurn, Lacking, DiagnosisSteps
  <2> QED
    BY <1>1, <2>1, <2>2, <2>4, Dimensions DEF ReadOn, DiagnosisSteps
<1>10. ASSUME TakeSecond
      PROVE  ReadOn /\ dstep = "second"
  <2>1. /\ dstep = "second" /\ dstep' = "analyze" /\ dtool' = dtool /\ verdict' = verdict
        /\ \/ /\ \E r \in samples : data' = [data EXCEPT !["second"] = r]
              /\ failed' = failed
           \/ failed' = failed \cup {"second"} /\ data' = data
    BY <1>2, <1>10 DEF TakeSecond
  <2>2. data' \in Evidence
    BY <1>1, <2>1 DEF Evidence
  <2>3. /\ data'.groups = data.groups /\ data'.drives = data.drives
        /\ data'.thermal = data.thermal /\ data'.devices = data.devices
        /\ data'.battery = data.battery /\ data'.wifi = data.wifi
        /\ data'.first = data.first
        /\ failed' = failed \/ data'.second = data.second
    BY <1>1, <2>1 DEF Evidence
  <2>4. ReadInTurn'
    BY <1>1, <2>1, <2>3 DEF ReadInTurn, Lacking, DiagnosisSteps
  <2> QED
    BY <1>1, <2>1, <2>2, <2>4, Dimensions DEF ReadOn, DiagnosisSteps
<1> QED
  <2>1. /\ data' \in Evidence /\ ReadInTurn' /\ dstep' \in DiagnosisSteps
        /\ failed' \subseteq DOMAIN NoData \cup {"health"}
        /\ dtool' = dtool /\ verdict' = verdict /\ dstep # "answered"
    BY <1>3, <1>4, <1>5, <1>6, <1>7, <1>8, <1>9, <1>10 DEF ReadOn
  <2>2. VerdictOfEvidence'
    BY <2>1, NoVerdictYet
  <2> QED
    BY <1>1, <2>1, <2>2, Dimensions DEF DiagnosisInv, NoData

LEMMA DiagnosisConcluded == DiagnosisInv /\ ConcludeDiagnosis => DiagnosisInv'
PROOF
<1> SUFFICES ASSUME DiagnosisInv, ConcludeDiagnosis
             PROVE  DiagnosisInv'
  OBVIOUS
<1>1. /\ dstep = "analyze" /\ dstep' = "answered" /\ dtool' = dtool /\ data' = data
      /\ failed' = failed
      /\ verdict' = AnalyzeSystem(data) \/ verdict' = [kind |-> "error"]
  BY DEF ConcludeDiagnosis
<1>2. ReadInTurn'
  BY <1>1 DEF DiagnosisInv, ReadInTurn, Lacking, DiagnosisSteps
<1>3. VerdictOfEvidence'
  BY <1>1 DEF VerdictOfEvidence
<1> QED
  BY <1>1, <1>2, <1>3 DEF DiagnosisInv, DiagnosisSteps

LEMMA DiagnosisStep == DiagnosisInv /\ [DiagnosisNext]_diagnosisVars => DiagnosisInv'
PROOF
<1> SUFFICES ASSUME DiagnosisInv, [DiagnosisNext]_diagnosisVars
             PROVE  DiagnosisInv'
  OBVIOUS
<1>1. CASE StartHealth \/ StartDiagnose
  <2>1. /\ dstep = "idle" /\ dstep' \in {"health", "groups"}
        /\ dtool' \in {"system_health", "system_diagnose"}
        /\ data' = data /\ failed' = failed /\ verdict' = verdict
    BY <1>1 DEF StartHealth, StartDiagnose
  <2>2. ReadInTurn'
    BY <2>1 DEF DiagnosisInv, ReadInTurn, Lacking, DiagnosisSteps
  <2>3. VerdictOfEvidence'
    BY <2>1, NoVerdictYet
  <2> QED
    BY <2>1, <2>2, <2>3 DEF DiagnosisInv, DiagnosisSteps
<1>2. CASE DiagnosisTaken
  <2>1. DiagnosisIdle'
    BY <1>2 DEF DiagnosisTaken, DiagnosisIdle
  <2> QED
    BY <2>1, DiagnosisStarts, PTL
<1>3. CASE UNCHANGED diagnosisVars
  BY <1>3 DEF diagnosisVars, DiagnosisInv, ReadInTurn, Lacking, VerdictOfEvidence
<1> QED
  BY <1>1, <1>2, <1>3, HealthCollected, DimensionCollected, DiagnosisConcluded
     DEF DiagnosisNext

LEMMA DiagnosisHolds == DiagnosisInv => DiagnosisSound
PROOF
<1> SUFFICES ASSUME DiagnosisInv
             PROVE  DiagnosisSound
  OBVIOUS
<1>1. data \in Evidence /\ failed \subseteq DOMAIN NoData \cup {"health"} /\ ReadInTurn
  BY DEF DiagnosisInv
<1>2. verdict.kind = "diagnosis" => verdict = AnalyzeSystem(data)
  BY DEF DiagnosisInv, VerdictOfEvidence, NoVerdict
<1>3. DiagnosisTypeOK
  <2>1. Cardinality(data.thermal) <= 1
    <3>1. data.thermal = {} \/ \E x : data.thermal = {x}
      BY <1>1 DEF Evidence
    <3>2. CASE data.thermal = {}
      <4>1. Cardinality(data.thermal) = 0
        BY <3>2, FS_EmptySet
      <4> QED
        BY <4>1
    <3>3. ASSUME NEW x, data.thermal = {x}
          PROVE  Cardinality(data.thermal) = 1
      BY <3>3, FS_Singleton, Zenon
    <3> QED
      BY <3>1, <3>2, <3>3
  <2>2. /\ verdict.kind \in {"none", "health", "diagnosis", "error"}
        /\ verdict.kind \in {"health", "diagnosis"} => \A f \in verdict.findings : f.score \in Score
    <3>1. CASE verdict = NoVerdict
      BY <3>1 DEF NoVerdict
    <3>2. CASE verdict = [kind |-> "error"]
      BY <3>2
    <3>3. ASSUME NEW g \in GroupReadings, NEW d \in DriveReadings, NEW s \in MemoryReadings,
                 verdict = [kind |-> "health", findings |-> HealthIssues(g, d, s)]
          PROVE  /\ verdict.kind = "health"
                 /\ \A f \in verdict.findings : f.score \in Score
      <4>1. verdict.kind = "health" /\ verdict.findings = HealthIssues(g, d, s)
        BY <3>3
      <4> QED
        BY <4>1, HealthScored
    <3>4. CASE verdict = AnalyzeSystem(data)
      BY <1>1, <3>4, AnalysisBacked
    <3> QED
      BY <3>1, <3>2, <3>3, <3>4 DEF DiagnosisInv, VerdictOfEvidence
  <2>3. /\ data.groups \in GroupReadings \cup {{}} /\ data.drives \in DriveReadings \cup {{}}
        /\ data.devices \in DeviceReadings \cup {{}} /\ data.wifi \in WifiReadings \cup {{}}
        /\ data.first \in {{}} \cup {{s} : s \in MemoryReadings}
        /\ data.second \in {{}} \cup {{s} : s \in MemoryReadings}
    BY <1>1 DEF Evidence
  <2> QED
    BY <1>1, <2>1, <2>2, <2>3 DEF DiagnosisTypeOK, DiagnosisInv, DiagnosisSteps
<1>4. EvidenceBacked
  <2> SUFFICES ASSUME verdict = AnalyzeSystem(data)
               PROVE  EvidenceBacked
    BY <1>2 DEF EvidenceBacked
  <2>1. /\ "groups" \in failed => data.groups = {}
        /\ "drives" \in failed => data.drives = {}
        /\ "thermal" \in failed => data.thermal = {}
        /\ "devices" \in failed => data.devices = {}
        /\ "battery" \in failed => data.battery = {}
        /\ "wifi" \in failed => data.wifi = {}
        /\ "first" \in failed => data.first = {}
        /\ "second" \in failed => data.second = {}
    BY <1>1 DEF ReadInTurn, Lacking
  <2>2. /\ verdict.clean \subseteq {"storage", "memory", "applications", "growth",
                                    "thermal", "devices", "battery", "wifi"}
        /\ "storage" \in verdict.clean => data.drives # {}
        /\ "applications" \in verdict.clean => data.groups # {}
        /\ "memory" \in verdict.clean => data.first # {} \/ data.second # {}
        /\ "growth" \in verdict.clean => data.first # {} /\ data.second # {}
        /\ "thermal" \in verdict.clean => data.thermal # {}
        /\ "devices" \in verdict.clean => data.devices # {}
        /\ "battery" \in verdict.clean => data.battery # {}
        /\ "wifi" \in verdict.clean => data.wifi # {}
        /\ verdict.completeness = "full" =>
             data.groups # {} /\ (data.first # {} \/ data.second # {})
    BY <1>1, AnalysisBacked
  <2>3. /\ \A f \in verdict.findings : Concern(f.category) \notin verdict.clean
        /\ verdict.causes \subseteq Signals(verdict.findings)
        /\ \A f \in verdict.findings :
             f.category = "app_memory" /\ f.severity # "low" =>
               \E g \in data.groups : g.name = f.subject /\ g.own >= HighMemoryBytes
    BY <1>1, AnalysisBacked
  <2>4. verdict.clean \cap failed = {}
    BY <1>1, <2>1, <2>2, Dimensions
  <2> QED
    BY <2>1, <2>2, <2>3, <2>4 DEF EvidenceBacked
<1>5. SameVerdict
  <2> SUFFICES ASSUME verdict = AnalyzeSystem(data)
               PROVE  SameVerdict
    BY <1>2 DEF SameVerdict
  <2> QED
    BY <1>1, AnalysisAgrees DEF SameVerdict
<1> QED
  BY <1>3, <1>4, <1>5 DEF DiagnosisSound

\* No verdict on the machine rests on what was not read, nor calls clean what a read that
\* failed was about, whatever subset of the reads fails or runs out of time; no cause is
\* named without its signal; and what system_health and system_diagnose both judge, they
\* judge alike (`analyze_system`, `checked_clean`, `build_health_report`).
THEOREM DiagnosisIsSound == DiagnosisSpec => []DiagnosisSound
PROOF
<1>1. DiagnosisSpec => []DiagnosisInv
  BY DiagnosisStarts, DiagnosisStep, PTL DEF DiagnosisSpec
<1> QED
  BY <1>1, DiagnosisHolds, PTL

=============================================================================
