-------------------------- MODULE NetworkDiagnosis --------------------------
(***************************************************************************)
(* network_diagnose: what it reads of the adapters, how it probes the      *)
(* gateway and, behind it, name resolution, and which conclusions it draws *)
(* when the two disagree, when a read fails, or when the resolver answers  *)
(* too late.  network_snapshot makes the same reads without a conclusion.  *)
(*                                                                         *)
(* Time is counted in quarters of a second.  A gateway is a number, 0 one  *)
(* whose address is not IPv4; a round trip is in milliseconds.             *)
(***************************************************************************)
EXTENDS Integers, Sequences, FiniteSets, SequencesExt, FiniteSetsExt, Functions

CONSTANTS
    AdapterLists,   \* the adapters there may be: sequences of
                    \* [name, loopback, up, gateway, wifi]
    RadioReadings,  \* what the Wi-Fi service says: sets of [adapter, signal, speed]
    RoundTrips,     \* how long an echo may take to come back
    Pings,          \* echoes sent to a gateway (2)
    PingTimeout,    \* the longest one is waited for (3: 750 ms)
    ResolveTimeout, \* the longest the resolver is waited for (4: one second)
    NetworkBudget   \* what the probe of the tool may take (12: three seconds)

WeakSignalPercent == 40
VeryWeakSignalPercent == 25
LowLinkSpeed == 20
SlowRoundTrip == 100
LossWarningPercent == 5

\* The waits are chosen to fit the budget together, and so few echoes are sent that one
\* of them is a fifth of all.
ASSUME NetworkAssumption ==
    /\ Pings \in 1..5 /\ PingTimeout \in Nat /\ ResolveTimeout \in Nat
    /\ NetworkBudget \in Nat /\ ResolveTimeout + Pings * PingTimeout <= NetworkBudget
    /\ RoundTrips \subseteq Nat
    /\ \A list \in AdapterLists : DOMAIN list \subseteq Nat
    /\ \A list \in AdapterLists : \A i \in DOMAIN list :
          list[i].gateway \subseteq Nat /\ Cardinality(list[i].gateway) <= 1

VARIABLES
    nettool,     \* the tool that runs
    netstep,     \* its next step
    adapters,    \* the adapters that are not loopbacks, with what is known of them
    unavailable, \* the readings that are unavailable
    resolution,  \* what came of resolving the well-known name
    echoes,      \* the round trips so far, Lost for one that brought no answer
    icmp,        \* the ICMP handle is open
    probed,      \* time taken by the probes
    netsaid      \* what the tool answers

netVars == <<nettool, netstep, adapters, unavailable, resolution, echoes, icmp, probed,
             netsaid>>

Lost == -1
NotSaid == [kind |-> "none"]

NetworkIdle ==
    /\ nettool = "none" /\ netstep = "idle"
    /\ adapters = <<>> /\ unavailable = {} /\ resolution = "not_probed"
    /\ echoes = <<>> /\ icmp = FALSE /\ probed = 0
    /\ netsaid = NotSaid

NetworkReads == {"interfaces", "tcp_connections", "listening_ports", "gateway", "signal"}
NetworkTypeOK ==
    /\ nettool \in {"none", "network_diagnose", "network_snapshot"}
    /\ netstep \in {"idle", "interfaces", "connections", "ports", "radio", "resolve",
                    "open", "ping", "conclude", "answered"}
    /\ \A i \in DOMAIN adapters : adapters[i].loss \subseteq 0..100
    /\ unavailable \subseteq NetworkReads
    /\ resolution \in {"not_probed", "ok", "failed", "unconfirmed"}
    /\ echoes \in SeqOf(RoundTrips \cup {Lost}, Pings)
    /\ icmp \in BOOLEAN /\ probed \in Nat

------------------------------------------------------------------------------
(* What is read *)

StartNetwork ==
    \E tool \in {"network_diagnose", "network_snapshot"} :
        /\ netstep = "idle"
        /\ nettool' = tool
        /\ netstep' = "interfaces"
        /\ UNCHANGED <<adapters, unavailable, resolution, echoes, icmp, probed, netsaid>>

\* What is known of an adapter before anything was measured.
Unmeasured(a) == [name |-> a.name, up |-> a.up, gateway |-> a.gateway, wifi |-> a.wifi,
                  signal |-> {}, speed |-> {}, loss |-> {}, latency |-> {}]

\* The table of adapters: a diagnosis is about those that are no loopback, each at its
\* place in the table.
ReadInterfaces ==
    /\ netstep = "interfaces"
    /\ \E list \in AdapterLists :
          adapters' = [i \in {j \in DOMAIN list : ~list[j].loopback} |->
                         Unmeasured(list[i])]
    /\ netstep' = IF nettool = "network_diagnose" THEN "radio" ELSE "connections"
    /\ UNCHANGED <<nettool, unavailable, resolution, echoes, icmp, probed, netsaid>>

\* Without adapters a diagnosis ends; a snapshot goes on.
ReadInterfacesFails ==
    /\ netstep = "interfaces"
    /\ unavailable' = {"interfaces"}
    /\ IF nettool = "network_snapshot"
       THEN netstep' = "connections" /\ UNCHANGED netsaid
       ELSE /\ netstep' = "answered"
            /\ netsaid' = [kind |-> "diagnosis", status |-> "unavailable", findings |-> {},
                           completeness |-> "limited", external |-> "not_probed"]
    /\ UNCHANGED <<nettool, adapters, resolution, echoes, icmp, probed>>

\* network_snapshot: the connections, then the ports that listen.
ReadTable(step, next, reading) ==
    /\ netstep = step
    /\ unavailable' \in {unavailable, unavailable \cup {reading}}
    /\ netstep' = next
    /\ UNCHANGED <<nettool, adapters, resolution, echoes, icmp, probed, netsaid>>

SnapshotTables ==
    \/ ReadTable("connections", "ports", "tcp_connections")
    \/ ReadTable("ports", "radio", "listening_ports")

\* attach_wifi: a Wi-Fi adapter gets what the first reading of its description says.
AttachWifi(a, radio) ==
    LET mine == {r \in radio : a.wifi /\ r.adapter = a.name}
    IN  [a EXCEPT !.signal = UNION {r.signal : r \in mine},
                  !.speed = UNION {r.speed : r \in mine}]

\* The adapter that is probed: the first that is up and has a gateway.
ProbeTargets(list) == {i \in DOMAIN list : list[i].up /\ list[i].gateway # {}}
ProbeTarget(list) == list[Min(ProbeTargets(list))]

\* The Wi-Fi service; one that fails counts as one that knows no adapter.
ReadRadio ==
    /\ netstep = "radio"
    /\ \E radio \in RadioReadings \cup {{}} :
          adapters' = IF nettool = "network_snapshot" THEN adapters
                      ELSE [i \in DOMAIN adapters |-> AttachWifi(adapters[i], radio)]
    /\ netstep' = IF nettool = "network_diagnose" /\ ProbeTargets(adapters) # {}
                  THEN "resolve" ELSE "conclude"
    /\ UNCHANGED <<nettool, unavailable, resolution, echoes, icmp, probed, netsaid>>

------------------------------------------------------------------------------
(* What is probed *)

\* external_connectivity_ok: the resolver runs in a thread of its own, and what it
\* says after the wait is lost with the receiver.
ExternalConnectivity ==
    /\ netstep = "resolve"
    /\ \E outcome \in {"ok", "failed", "unconfirmed"}, t \in {0, ResolveTimeout} :
          /\ outcome = "unconfirmed" => t = ResolveTimeout
          /\ resolution' = outcome
          /\ probed' = probed + t
    /\ netstep' = "open"
    /\ UNCHANGED <<nettool, adapters, unavailable, echoes, icmp, netsaid>>

\* probe_gateway up to its loop: an IPv4 address and an ICMP handle that is not null.
\* IcmpCreateFile's own sign of failure is no null: the echoes of such a handle are all
\* lost at once, one of the behaviours of Ping.
OpenIcmp ==
    /\ netstep = "open"
    /\ 0 \notin ProbeTarget(adapters).gateway
    /\ icmp' = TRUE
    /\ netstep' = "ping"
    /\ UNCHANGED <<nettool, adapters, unavailable, resolution, echoes, probed, netsaid>>

\* Mutant: a gateway that cannot be probed is passed over.
OpenIcmpFailsQuietly ==
    /\ netstep = "open"
    /\ netstep' = "conclude"
    /\ UNCHANGED <<nettool, adapters, unavailable, resolution, echoes, icmp, probed,
                   netsaid>>

OpenIcmpFails ==
    /\ netstep = "open"
    /\ unavailable' = unavailable \cup {"gateway"}
    /\ netstep' = "conclude"
    /\ UNCHANGED <<nettool, adapters, resolution, echoes, icmp, probed, netsaid>>

\* One echo: an answer, an answer that tells of a failure, or none in time.
Ping ==
    /\ netstep = "ping"
    /\ Len(echoes) < Pings
    /\ \E rtt \in RoundTrips \cup {Lost}, t \in {0, PingTimeout} :
          /\ echoes' = Append(echoes, rtt)
          /\ probed' = probed + t
    /\ UNCHANGED <<nettool, netstep, adapters, unavailable, resolution, icmp, netsaid>>

\* The echoes that were answered, how much of all the others are, and how long the
\* answered ones took, on average.
Answered(sent) == {i \in DOMAIN sent : sent[i] # Lost}
LossPercent(sent) == ((Len(sent) - Cardinality(Answered(sent))) * 100) \div Len(sent)
AverageRtt(sent) ==
    IF Answered(sent) = {} THEN {}
    ELSE {SumFunctionOnSet(sent, Answered(sent)) \div Cardinality(Answered(sent))}

Measured(a, sent) ==
    [a EXCEPT !.loss = {LossPercent(sent)}, !.latency = AverageRtt(sent)]

\* The loss and the latency are put down at the first adapter with that gateway, and
\* not at all when no echo was answered.
CloseIcmp ==
    /\ netstep = "ping"
    /\ Len(echoes) = Pings
    /\ icmp' = FALSE
    /\ LET same == {i \in DOMAIN adapters :
                       adapters[i].gateway = ProbeTarget(adapters).gateway}
       IN  adapters' = IF Answered(echoes) = {} THEN adapters
                       ELSE [i \in DOMAIN adapters |->
                               IF i = Min(same) THEN Measured(adapters[i], echoes)
                               ELSE adapters[i]]
    /\ netstep' = "conclude"
    /\ UNCHANGED <<nettool, unavailable, resolution, echoes, probed, netsaid>>

------------------------------------------------------------------------------
(* What is concluded *)

NetFinding(id, subject, severity) == [id |-> id, subject |-> subject, severity |-> severity]

\* The loss is told first, and what it is worth depends on the resolver; a slow gateway
\* comes next, and a resolver that fails behind a gateway that answers is last.
GatewayFinding(gateway, sent, external) ==
    LET loss == LossPercent(sent)
    IN  IF loss >= LossWarningPercent
        THEN CASE external = "ok"     -> NetFinding("gateway-drops-icmp", gateway, "info")
               [] external = "failed" ->
                      NetFinding("no-external-connectivity", gateway, "high")
               [] OTHER               -> NetFinding("gateway-packet-loss", gateway,
                                            IF loss >= 20 THEN "medium" ELSE "low")
        ELSE IF \E rtt \in AverageRtt(sent) : rtt >= SlowRoundTrip
             THEN NetFinding("gateway-high-latency", gateway, "medium")
        ELSE IF external = "failed"
             THEN NetFinding("no-external-connectivity", gateway, "high")
        ELSE NetFinding("none", gateway, "none")

GatewayFindings(list, sent, external) ==
    IF Len(sent) < Pings THEN {}
    ELSE {f \in {GatewayFinding(ProbeTarget(list).gateway, sent, external)} : f.id # "none"}

WirelessFindings(list) ==
    UNION {{NetFinding("wifi-weak-signal", a.name,
                IF s < VeryWeakSignalPercent THEN "high" ELSE "medium") :
              s \in {x \in a.signal : x < WeakSignalPercent}}
           \cup {NetFinding("wifi-low-link-speed", a.name, "medium") :
                    s \in {x \in a.speed : x < LowLinkSpeed}} :
           a \in {b \in Range(list) : b.wifi}}

InterfaceFindings(list) ==
    {NetFinding("no-gateway", a.name, "info") :
        a \in {b \in Range(list) : b.up /\ b.gateway = {}}}
    \cup {NetFinding("interface-down", a.name, "low") : a \in {b \in Range(list) : ~b.up}}

\* An adapter that is up and whose signal nobody reported.
SilentRadios(list) == {a \in Range(list) : a.wifi /\ a.up /\ a.signal = {}}

Issues(findings) == {f \in findings : f.severity \in {"high", "critical", "medium"}}

Diagnosis(list, sent, external, missing) ==
    LET findings == GatewayFindings(list, sent, external) \cup WirelessFindings(list)
                    \cup InterfaceFindings(list)
    IN  [kind |-> "diagnosis",
         findings |-> findings,
         status |-> IF Issues(findings) # {} THEN "issues_detected"
                    ELSE IF missing = {} THEN "ok" ELSE "limited",
         completeness |-> IF missing = {} THEN "full" ELSE "limited",
         external |-> external]

ConcludeNetwork ==
    /\ nettool = "network_diagnose" /\ netstep = "conclude"
    /\ unavailable' = unavailable \cup {"signal" : a \in SilentRadios(adapters)}
    /\ netsaid' = Diagnosis(adapters, echoes, resolution, unavailable')
    /\ netstep' = "answered"
    /\ UNCHANGED <<nettool, adapters, resolution, echoes, icmp, probed>>

\* A snapshot is whole when its three tables were read.
ConcludeSnapshot ==
    /\ nettool = "network_snapshot" /\ netstep = "conclude"
    /\ netsaid' = [kind |-> "snapshot",
                   status |-> IF unavailable = {} THEN "ok" ELSE "limited",
                   completeness |-> IF unavailable = {} THEN "full" ELSE "limited"]
    /\ netstep' = "answered"
    /\ UNCHANGED <<nettool, adapters, unavailable, resolution, echoes, icmp, probed>>

NetworkReturns ==
    /\ netstep = "answered"
    /\ nettool' = "none" /\ netstep' = "idle" /\ adapters' = <<>> /\ unavailable' = {}
    /\ resolution' = "not_probed" /\ echoes' = <<>> /\ icmp' = FALSE /\ probed' = 0
    /\ netsaid' = NotSaid

NetworkNext ==
    \/ StartNetwork
    \/ ReadInterfaces \/ ReadInterfacesFails \/ SnapshotTables \/ ReadRadio
    \/ ExternalConnectivity \/ OpenIcmp \/ OpenIcmpFails \/ Ping \/ CloseIcmp
    \/ ConcludeNetwork \/ ConcludeSnapshot
    \/ NetworkReturns

------------------------------------------------------------------------------
DiagnosisSaid == netsaid.kind = "diagnosis"
Ids == {f.id : f \in netsaid.findings}

\* An outage is never claimed from lost echoes alone: it takes a resolver that answered
\* and failed; echoes that are lost beside a resolver that works are no issue.  The
\* loss is a possible issue only while the resolver has not spoken.
OutageIsConfirmed ==
    DiagnosisSaid =>
        /\ "no-external-connectivity" \in Ids => resolution = "failed"
        /\ "gateway-drops-icmp" \in Ids => resolution = "ok"
        /\ "gateway-packet-loss" \in Ids => resolution = "unconfirmed"

\* The other way round: no answer passes a gateway that lost echoes without a word, nor
\* a resolver that failed as a sound network, whatever else covers it.
OutageIsTold ==
    DiagnosisSaid /\ netsaid.status = "ok" =>
        /\ resolution # "failed"
        /\ (Lost \in Range(echoes) => "gateway-drops-icmp" \in Ids)

\* A diagnosis calls itself full only if the adapters were read, the gateway of the
\* first one with a gateway was probed with every echo, and each Wi-Fi adapter that is
\* up had its signal measured; and a snapshot, only if its three tables were read.
FullMeansRead ==
    netsaid.kind # "none" /\ netsaid.completeness = "full" =>
        /\ unavailable = {}
        /\ DiagnosisSaid =>
              /\ ProbeTargets(adapters) # {} =>
                    Len(echoes) = Pings /\ resolution # "not_probed"
              /\ \A a \in Range(adapters) : a.wifi /\ a.up => a.signal # {}

\* What is put down as an adapter's loss and latency was measured through its own
\* gateway, by echoes of this call of which at least one was answered.
ReadingsAreItsOwn ==
    \A a \in Range(adapters) :
        a.loss # {} => /\ a.gateway = ProbeTarget(adapters).gateway
                       /\ a.loss = {LossPercent(echoes)}
                       /\ Answered(echoes) # {}

\* However slow the resolver and the gateway are, the probes end within the time the
\* tool has, and the ICMP handle is closed by then.
ProbesWithinBudget == probed <= NetworkBudget /\ (netstep = "answered" => ~icmp)

\* network_diagnose weighs the resolver against the echoes of the gateway: it claims an
\* outage only when the resolver failed and never passes one in silence, calls itself
\* full only if everything was read, puts a reading down only where it was measured, and
\* ends within the tool's time with its ICMP handle closed, whatever fails or times out
\* (`network_diagnose`, `probe_gateway`, `network_snapshot`).
NetworkSound ==
    /\ NetworkTypeOK
    /\ OutageIsConfirmed
    /\ OutageIsTold
    /\ FullMeansRead
    /\ ReadingsAreItsOwn
    /\ ProbesWithinBudget
=============================================================================
