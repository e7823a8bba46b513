----------------------------- MODULE HttpProbe -----------------------------
(***************************************************************************)
(* One GET of a local URL: the URL policy, the attempts, the redirects     *)
(* between them, and the outcome they end in.  Every tool that speaks HTTP *)
(* goes through it.                                                        *)
(*                                                                         *)
(* The peer may do anything: refuse, stay silent, send its answer in       *)
(* pieces, close early, redirect anywhere.  Time is in ticks.  What is     *)
(* computed from the body, and the text of a URL, are left out: a URL is   *)
(* its scheme, its host and its port.                                      *)
(***************************************************************************)
EXTENDS Naturals, Sequences, FiniteSets

CONSTANTS
    Deadline,      \* max(timeout_ms, 100), in ticks
    Policies,      \* the [web] settings met
    RawUrls,       \* the URLs that callers and peers name
    MaxChunks,     \* bound: the reads of one response
    MostTicks      \* bound: beyond it, time is no longer counted

ASSUME DeadlineAssumption == Deadline \in Nat \ {0}
ASSUME ChunksAssumption == MaxChunks \in Nat
ASSUME TicksAssumption == MostTicks \in Nat /\ MostTicks > Deadline

\* "localhost" and literal loopback addresses; a name listed in dev_hosts; the
\* rest, as a name and as an address.
Host == {"localhost", "loopback", "dev_name", "external_name", "external"}

NoPort == 0

RawUrl == [scheme : {"http", "https", "other"}, host : Host, port : Nat]

UrlPolicy ==
    [allow_external : BOOLEAN, dev_hosts : BOOLEAN, local_tls_allowed : BOOLEAN,
     max_redirects : Nat]

ASSUME PoliciesAssumption == Policies \subseteq UrlPolicy
ASSUME RawUrlsAssumption == RawUrls \subseteq RawUrl

ProbeOutcome ==
    {"ok", "redirect", "http_error", "connection_refused", "connection_timeout",
     "unreachable", "redirect_loop", "too_many_redirects",
     "redirect_to_external_blocked", "tls_error", "dns_error",
     "malformed_response", "body_too_large"}

ReachedHttp(outcome) == outcome \in {"ok", "http_error"}

\* What parse_status yields: one status of each kind the probe tells apart.
Status == {200, 302, 304, 404, 500}

NoStatus == 0

IsRedirect(status) == status = 302

HttpStatusOutcome(status) == IF status \in 400..599 THEN "http_error" ELSE "ok"

VARIABLES
    hstep,      \* where probe_url and request_once are
    policy,     \* the settings
    target,     \* the URL of the current attempt
    remaining,  \* the time the current attempt was given
    spent,      \* the time since the probe began
    hops,       \* redirects followed
    chunks,     \* reads of the current response that brought bytes
    head,       \* the response of the current attempt
    contacts,   \* history: the URLs that were dialled
    result      \* outcome and status of the probe

probeVars ==
    <<hstep, policy, target, remaining, spent, hops, chunks, head, contacts,
      result>>

-----------------------------------------------------------------------------
(* The URL policy *)

IsLoopbackHost(host) == host \in {"localhost", "loopback"}

IsLocal(host, p) == IsLoopbackHost(host) \/ (p.dev_hosts /\ host = "dev_name")

DefaultPort(scheme) == IF scheme = "https" THEN 443 ELSE 80

ParsePort(raw) == IF raw.port = NoPort THEN DefaultPort(raw.scheme) ELSE raw.port

\* validate_url: whether it accepts, and what it makes of the URL.
Accepts(raw, p) ==
    /\ raw.scheme \in {"http", "https"}
    /\ raw.scheme = "https" => p.local_tls_allowed
    /\ raw.port <= 65535
    /\ IsLocal(raw.host, p) \/ p.allow_external

Validated(raw) == [raw EXCEPT !.port = ParsePort(raw)]

\* A location: none, relative to the URL it came from, or a URL.
NoLocation == [kind |-> "none"]
RelativeLocation == [kind |-> "relative"]
AbsoluteLocation(raw) == [kind |-> "absolute", url |-> raw]

Location ==
    {NoLocation, RelativeLocation} \cup {AbsoluteLocation(u) : u \in RawUrls}

\* A relative location keeps the scheme and the host of its base, not its port.
ResolveRedirect(base, location) ==
    IF location.kind = "relative"
    THEN [scheme |-> base.scheme, host |-> base.host, port |-> NoPort]
    ELSE location.url

-----------------------------------------------------------------------------

NoUrl == [scheme |-> "http", host |-> "localhost", port |-> 80]
NoPolicy ==
    [allow_external |-> FALSE, dev_hosts |-> FALSE, local_tls_allowed |-> FALSE,
     max_redirects |-> 0]
NoHead == [status |-> NoStatus, location |-> NoLocation]
NoResult == [outcome |-> "none", status |-> NoStatus]

ProbeIdle ==
    /\ hstep = "idle"
    /\ policy = NoPolicy
    /\ target = NoUrl
    /\ remaining = 0
    /\ spent = 0
    /\ hops = 0
    /\ chunks = 0
    /\ head = NoHead
    /\ contacts = <<>>
    /\ result = NoResult

\* A caller probes a URL that the policy accepts.
StartProbe ==
    /\ hstep = "idle"
    /\ \E p \in Policies : \E raw \in RawUrls :
          /\ Accepts(raw, p)
          /\ policy' = p
          /\ target' = Validated(raw)
    /\ hstep' = "attempt"
    /\ UNCHANGED <<remaining, spent, hops, chunks, head, contacts, result>>

\* The caller has the result.
ProbeTaken ==
    /\ hstep = "finished"
    /\ hstep' = "idle"
    /\ policy' = NoPolicy
    /\ target' = NoUrl
    /\ remaining' = 0
    /\ spent' = 0
    /\ hops' = 0
    /\ chunks' = 0
    /\ head' = NoHead
    /\ contacts' = <<>>
    /\ result' = NoResult

Finished(outcome, status) ==
    /\ hstep' = "finished"
    /\ result' = [outcome |-> outcome, status |-> status]

\* An operation on the socket takes up to the time of the attempt, which is the
\* timeout of each of them.
Takes(ticks) ==
    spent' = IF spent + ticks < MostTicks THEN spent + ticks ELSE MostTicks

TimesOut ==
    /\ Takes(remaining)
    /\ Finished("connection_timeout", NoStatus)

\* Each pass of the loop has what is left of the deadline.
Attempt ==
    /\ hstep = "attempt"
    /\ IF spent >= Deadline
       THEN /\ Finished("connection_timeout", NoStatus)
            /\ UNCHANGED remaining
       ELSE /\ hstep' = "dial"
            /\ remaining' = Deadline - spent
            /\ UNCHANGED result
    /\ UNCHANGED <<policy, target, spent, hops, chunks, head, contacts>>

\* Only "localhost" and literal addresses resolve.
Resolves(host) == host \notin {"dev_name", "external_name"}

Dial ==
    /\ hstep = "dial"
    /\ UNCHANGED <<policy, target, remaining, hops, chunks, head>>
    /\ \/ /\ ~Resolves(target.host)
          /\ Finished("dns_error", NoStatus)
          /\ UNCHANGED <<spent, contacts>>
       \/ /\ Resolves(target.host)
          /\ contacts' = Append(contacts, target)
          /\ \/ /\ \E t \in 0..remaining : Takes(t)
                /\ hstep' = IF target.scheme = "https" THEN "tls" ELSE "send"
                /\ UNCHANGED result
             \/ TimesOut
             \/ /\ \E t \in 0..remaining : Takes(t)
                /\ \E o \in {"connection_refused", "unreachable"} :
                      Finished(o, NoStatus)

Handshake ==
    /\ hstep = "tls"
    /\ UNCHANGED <<policy, target, remaining, hops, chunks, head, contacts>>
    /\ \E t \in 0..remaining : Takes(t)
    /\ \/ hstep' = "send" /\ UNCHANGED result
       \/ Finished("tls_error", NoStatus)

Send ==
    /\ hstep = "send"
    /\ UNCHANGED <<policy, target, remaining, hops, chunks, head, contacts>>
    /\ \E t \in 0..remaining : Takes(t)
    /\ \/ hstep' = "head" /\ UNCHANGED result
       \/ Finished("unreachable", NoStatus)

\* classify_read_error
ReadFails ==
    \/ TimesOut
    \/ /\ \E t \in 0..remaining : Takes(t)
       /\ \E o \in {"connection_refused", "unreachable"} : Finished(o, NoStatus)

\* More bytes, but not the last ones that are waited for.
ReadChunk ==
    /\ chunks < MaxChunks
    /\ chunks' = chunks + 1
    /\ \E t \in 0..remaining : Takes(t)
    /\ UNCHANGED <<hstep, result>>

ReadHead ==
    /\ hstep = "head"
    /\ UNCHANGED <<policy, target, remaining, hops, contacts>>
    /\ \/ ReadChunk /\ UNCHANGED head
       \/ /\ \E s \in Status : \E l \in Location :
                head' = [status |-> s, location |-> IF IsRedirect(s) THEN l
                                                    ELSE NoLocation]
          /\ \E t \in 0..remaining : Takes(t)
          /\ hstep' = "body"
          /\ UNCHANGED <<chunks, result>>
       \/ /\ UNCHANGED <<chunks, head>>
          /\ \/ ReadFails
             \/ /\ \E t \in 0..remaining : Takes(t)
                /\ \/ Finished("malformed_response", NoStatus)
                   \/ chunks = 0 /\ Finished("unreachable", NoStatus)

\* The body ends, or its cap is reached; it is not kept.
ReadBody ==
    /\ hstep = "body"
    /\ UNCHANGED <<policy, target, remaining, hops, head, contacts>>
    /\ \/ ReadChunk
       \/ /\ UNCHANGED <<spent, result>>
          /\ chunks' = 0
          /\ hstep' = "response"
       \/ ReadFails /\ UNCHANGED chunks

\* Mutant: the target of a redirect is followed without being validated.
RedirectedUnchecked(location) ==
    \/ /\ location.kind = "none"
       /\ Finished("malformed_response", head.status)
       /\ UNCHANGED target
    \/ /\ location.kind # "none"
       /\ target' = Validated(ResolveRedirect(target, location))
       /\ hstep' = "attempt"
       /\ UNCHANGED result

Redirected(location) ==
    \/ /\ location.kind = "none"
       /\ Finished("malformed_response", head.status)
       /\ UNCHANGED target
    \/ /\ location.kind # "none"
       /\ LET next == ResolveRedirect(target, location)
          IN  IF Accepts(next, policy)
              THEN /\ target' = Validated(next)
                   /\ hstep' = "attempt"
                   /\ UNCHANGED result
              ELSE /\ Finished("redirect_to_external_blocked", head.status)
                   /\ UNCHANGED target

Respond ==
    /\ hstep = "response"
    /\ head' = NoHead
    /\ UNCHANGED <<policy, remaining, spent, chunks, contacts>>
    /\ \/ /\ IsRedirect(head.status)
          /\ hops >= policy.max_redirects
          /\ Finished("too_many_redirects", head.status)
          /\ UNCHANGED <<target, hops>>
       \/ /\ IsRedirect(head.status)
          /\ hops < policy.max_redirects
          /\ hops' = hops + 1
          /\ Redirected(head.location)
       \/ /\ ~IsRedirect(head.status)
          /\ Finished(HttpStatusOutcome(head.status), head.status)
          /\ UNCHANGED <<target, hops>>

ProbeNext ==
    StartProbe \/ ProbeTaken \/ Attempt \/ Dial \/ Handshake \/ Send \/ ReadHead
        \/ ReadBody \/ Respond

-----------------------------------------------------------------------------

ProbeTypeOK ==
    /\ hstep \in {"idle", "attempt", "dial", "tls", "send", "head", "body",
                  "response", "finished"}
    /\ policy \in Policies \cup {NoPolicy}
    /\ target \in RawUrl
    /\ remaining \in 0..Deadline
    /\ spent \in 0..MostTicks
    /\ hops \in Nat
    /\ chunks \in 0..MaxChunks
    /\ head \in [status : Status \cup {NoStatus}, location : Location]
    /\ contacts \in Seq(RawUrl)
    /\ result \in [outcome : ProbeOutcome \cup {"none"},
                   status : Status \cup {NoStatus}]

\* The outcomes a probe can end in, each with the statuses it comes with.  The
\* workflow tools are written against these.
ProbeAnswers ==
    {[outcome |-> "ok", status |-> s] : s \in {200, 304}}
    \cup {[outcome |-> "http_error", status |-> s] : s \in {404, 500}}
    \cup {[outcome |-> o, status |-> 302] :
             o \in {"too_many_redirects", "redirect_to_external_blocked",
                    "malformed_response"}}
    \cup {[outcome |-> o, status |-> NoStatus] :
             o \in {"connection_refused", "connection_timeout", "unreachable",
                    "tls_error", "dns_error", "malformed_response"}}

\* Whatever chain of redirects the peers build, every address that is dialled
\* satisfies the policy the first URL had to satisfy (`validate_url` at each hop
\* of `probe_url`), no probe dials more than max_redirects + 1 times, none
\* dials once its deadline has passed, and what it reports is one of
\* ProbeAnswers: "too many redirects" only when the limit was used up.
ProbeWithinPolicy ==
    /\ ProbeTypeOK
    /\ \A i \in DOMAIN contacts : Accepts(contacts[i], policy)
    /\ Len(contacts) <= policy.max_redirects + 1
    /\ hstep = "dial" => spent < Deadline /\ spent + remaining = Deadline
    /\ hstep = "finished" =>
         /\ result \in ProbeAnswers
         /\ result.outcome = "too_many_redirects"
              => Len(contacts) = policy.max_redirects + 1
=============================================================================
