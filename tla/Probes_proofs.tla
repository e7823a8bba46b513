---------------------------- MODULE Probes_proofs ----------------------------
(***************************************************************************)
(* What is proved of the components that wait for somebody else, or for    *)
(* the clock: the HTTP probe, for any policies, URLs, deadlines and chains *)
(* of redirects; the trend sampler, for any arguments, limits and delays;  *)
(* the network diagnosis, for any adapters, readings and round trips; the  *)
(* version probe, for any PATH, timeouts and output of the child; the      *)
(* event tools, for any logs, calls, batches and failures of Windows; and  *)
(* the process tools, for any processes that come and go.                  *)
(***************************************************************************)
EXTENDS HttpProbe, TrendSampler, NetworkDiagnosis, VersionProbe, EventHistory,
        ProcessListing, FiniteSetTheorems, SequenceTheorems, WellFoundedInduction, TLAPS

ProbeSpec == ProbeIdle /\ [][ProbeNext]_probeVars
TrendSpec == TrendIdle /\ [][TrendNext]_trendVars
NetworkSpec == NetworkIdle /\ [][NetworkNext]_netVars
VersionSpec == VersionIdle /\ [][VersionNext]_versionVars
EventsSpec == EventsIdle /\ [][EventsNext]_eventVars
ProcessesSpec == ProcessesIdle /\ [][ProcessesNext]_processVars

-----------------------------------------------------------------------------
(* HttpProbe.  The number of addresses dialled is tied to the redirects    *)
(* followed: as many before an attempt dials, one more once it has.        *)

Connected == {"tls", "send", "head", "body", "response"}

\* The URL at hand is one the policy accepts.
TargetAccepted == hstep \in Connected \cup {"attempt", "dial"} => Accepts(target, policy)

DialsCounted ==
    /\ hops <= policy.max_redirects
    /\ hstep \in {"attempt", "dial"} => Len(contacts) = hops
    /\ hstep \in Connected => Len(contacts) = hops + 1
    /\ Len(contacts) <= hops + 1
    /\ hstep = "idle" => Len(contacts) = 0 /\ hops = 0

\* A response that has been read has a status.
HeadRead == hstep \in {"body", "response"} => head.status \in Status

ProbeInv ==
    /\ ProbeWithinPolicy
    /\ TargetAccepted
    /\ DialsCounted
    /\ HeadRead

LEMMA ProbeNumbers ==
    /\ Deadline \in Nat \ {0} /\ MostTicks \in Nat /\ MostTicks > Deadline
    /\ MaxChunks \in Nat
  BY DeadlineAssumption, ChunksAssumption, TicksAssumption

LEMMA PolicyTyped ==
    ASSUME policy \in Policies \cup {NoPolicy}
    PROVE  policy \in UrlPolicy /\ policy.max_redirects \in Nat
PROOF
<1>1. NoPolicy \in UrlPolicy
  BY DEF UrlPolicy, NoPolicy
<1>2. policy \in UrlPolicy
  BY <1>1, PoliciesAssumption
<1> QED
  BY <1>2 DEF UrlPolicy

\* The port that is filled in is a port of the policy.
LEMMA ValidatedAccepted ==
    ASSUME NEW raw \in RawUrl, NEW p, Accepts(raw, p)
    PROVE  Validated(raw) \in RawUrl /\ Accepts(Validated(raw), p)
PROOF
<1>1. /\ Validated(raw).scheme = raw.scheme /\ Validated(raw).host = raw.host
      /\ Validated(raw).port = ParsePort(raw)
      /\ ParsePort(raw) \in Nat /\ ParsePort(raw) <= 65535
      /\ Validated(raw) \in RawUrl
  BY DEF Validated, ParsePort, DefaultPort, RawUrl, Accepts, NoPort
<1> QED
  BY <1>1 DEF Accepts, IsLocal

\* A redirect leads to a URL.
LEMMA RedirectTyped ==
    ASSUME NEW base \in RawUrl, NEW location \in Location, location.kind # "none"
    PROVE  ResolveRedirect(base, location) \in RawUrl
PROOF
<1>1. CASE location = NoLocation
  BY <1>1 DEF NoLocation
<1>2. CASE location = RelativeLocation
  BY <1>2 DEF RelativeLocation, ResolveRedirect, RawUrl, NoPort
<1>3. CASE \E u \in RawUrls : location = AbsoluteLocation(u)
  BY <1>3, RawUrlsAssumption DEF AbsoluteLocation, ResolveRedirect
<1> QED
  BY <1>1, <1>2, <1>3 DEF Location

LEMMA ClockAdvances ==
    ASSUME spent \in 0..MostTicks, NEW t \in Nat, Takes(t)
    PROVE  spent' \in 0..MostTicks
  BY ProbeNumbers DEF Takes

\* What a probe may end with, by kind.
LEMMA AnswersListed ==
    /\ \A o \in {"connection_refused", "connection_timeout", "unreachable",
                 "tls_error", "dns_error", "malformed_response"} :
         [outcome |-> o, status |-> NoStatus] \in ProbeAnswers
    /\ \A o \in {"too_many_redirects", "redirect_to_external_blocked",
                 "malformed_response"} :
         [outcome |-> o, status |-> 302] \in ProbeAnswers
    /\ \A s \in {200, 304} : [outcome |-> "ok", status |-> s] \in ProbeAnswers
    /\ \A s \in {404, 500} : [outcome |-> "http_error", status |-> s] \in ProbeAnswers
  BY DEF ProbeAnswers

LEMMA AnswersTyped ==
    ASSUME NEW a \in ProbeAnswers
    PROVE  a \in [outcome : ProbeOutcome \cup {"none"}, status : Status \cup {NoStatus}]
  BY DEF ProbeAnswers, ProbeOutcome, Status

\* An answer without a status ends the probe soundly at any step of an attempt.
LEMMA EndsUnanswered ==
    ASSUME ProbeInv, hstep \in Connected \cup {"attempt", "dial"},
           NEW o \in {"connection_refused", "connection_timeout", "unreachable",
                      "tls_error", "dns_error", "malformed_response"},
           Finished(o, NoStatus),
           UNCHANGED <<policy, target, remaining, hops, head>>,
           chunks' \in 0..MaxChunks, spent' \in 0..MostTicks,
           \/ UNCHANGED contacts
           \/ hstep = "dial" /\ contacts' = Append(contacts, target)
    PROVE  ProbeInv'
PROOF
<1> USE DEF ProbeInv, ProbeWithinPolicy, ProbeTypeOK
<1>1. result' \in ProbeAnswers /\ hstep' = "finished" /\ result'.outcome = o
  BY AnswersListed DEF Finished
<1>2. policy.max_redirects \in Nat
  BY PolicyTyped
<1>3. /\ contacts' \in Seq(RawUrl) /\ Len(contacts') <= hops + 1
      /\ \A i \in DOMAIN contacts' : Accepts(contacts'[i], policy)
  <2>1. CASE UNCHANGED contacts
    BY <2>1 DEF DialsCounted
  <2>2. CASE hstep = "dial" /\ contacts' = Append(contacts, target)
    <3>1. Accepts(target, policy) /\ Len(contacts) = hops
      BY <2>2 DEF TargetAccepted, DialsCounted
    <3>2. \A i \in DOMAIN contacts' : contacts'[i] = target \/
              (i \in DOMAIN contacts /\ contacts'[i] = contacts[i])
      BY <2>2
    <3> QED BY <2>2, <3>1, <3>2
  <2> QED BY <2>1, <2>2
<1>4. ProbeTypeOK'
  BY <1>1, <1>3, AnswersTyped
<1>5. ProbeWithinPolicy'
  BY <1>1, <1>2, <1>3, <1>4 DEF DialsCounted
<1>6. TargetAccepted' /\ HeadRead' /\ DialsCounted'
  BY <1>1, <1>3 DEF TargetAccepted, HeadRead, DialsCounted, Connected
<1> QED
  BY <1>5, <1>6

\* The probe goes on to the next step of the same attempt.
LEMMA GoesOn ==
    ASSUME ProbeInv, hstep \in Connected, hstep' \in Connected,
           UNCHANGED <<policy, target, remaining, hops, contacts, result>>,
           head' \in [status : Status \cup {NoStatus}, location : Location],
           hstep' \in {"body", "response"} => head'.status \in Status,
           chunks' \in 0..MaxChunks, spent' \in 0..MostTicks
    PROVE  ProbeInv'
PROOF
<1> USE DEF ProbeInv, ProbeWithinPolicy, Connected
<1>1. ProbeTypeOK'
  BY DEF ProbeTypeOK
<1>2. ProbeWithinPolicy'
  BY <1>1
<1>3. TargetAccepted' /\ HeadRead' /\ DialsCounted'
  BY DEF TargetAccepted, HeadRead, DialsCounted
<1> QED
  BY <1>2, <1>3

\* Time has passed, however little.
LEMMA TimePasses ==
    ASSUME ProbeTypeOK, \E t \in 0..remaining : Takes(t)
    PROVE  spent' \in 0..MostTicks
PROOF
<1>1. remaining \in Nat
  BY ProbeNumbers DEF ProbeTypeOK
<1>2. PICK t \in 0..remaining : Takes(t)
  OBVIOUS
<1>3. t \in Nat
  BY <1>1
<1> QED
  BY <1>2, <1>3, ClockAdvances DEF ProbeTypeOK

LEMMA WaitRunsOut ==
    ASSUME ProbeTypeOK, Takes(remaining)
    PROVE  spent' \in 0..MostTicks
PROOF
<1>1. remaining \in Nat
  BY ProbeNumbers DEF ProbeTypeOK
<1> QED
  BY <1>1, ClockAdvances DEF ProbeTypeOK

LEMMA ProbeStarts ==
    ASSUME ProbeInv, StartProbe
    PROVE  ProbeInv'
PROOF
<1> USE DEF ProbeInv, ProbeWithinPolicy
<1>1. PICK p \in Policies, raw \in RawUrls :
        Accepts(raw, p) /\ policy' = p /\ target' = Validated(raw)
  BY DEF StartProbe
<1>2. /\ hstep = "idle" /\ hstep' = "attempt"
      /\ UNCHANGED <<remaining, spent, hops, chunks, head, contacts, result>>
  BY DEF StartProbe
<1>3. target' \in RawUrl /\ Accepts(target', policy')
  BY <1>1, ValidatedAccepted, RawUrlsAssumption
<1>4. policy'.max_redirects \in Nat
  <2>1. p \in UrlPolicy
    BY PoliciesAssumption
  <2> QED BY <1>1, <2>1 DEF UrlPolicy
<1>5. ProbeTypeOK'
  BY <1>1, <1>2, <1>3 DEF ProbeTypeOK
<1>6. Len(contacts) = 0 /\ hops = 0 /\ contacts \in Seq(RawUrl)
  BY <1>2 DEF DialsCounted, ProbeTypeOK
<1>7. ProbeWithinPolicy'
  BY <1>2, <1>4, <1>5, <1>6
<1>8. TargetAccepted' /\ HeadRead' /\ DialsCounted'
  BY <1>2, <1>3, <1>4, <1>6 DEF TargetAccepted, HeadRead, DialsCounted, Connected
<1> QED
  BY <1>7, <1>8

\* A probe that is idle satisfies the invariant.
LEMMA IdleProbe ==
    ASSUME ProbeIdle
    PROVE  ProbeInv
PROOF
<1>1. NoPolicy.max_redirects = 0
  BY DEF NoPolicy
<1>2. NoUrl \in RawUrl
  BY DEF NoUrl, RawUrl, Host
<1>3. NoHead \in [status : Status \cup {NoStatus}, location : Location]
  BY DEF NoHead, Location
<1>4. NoResult \in [outcome : ProbeOutcome \cup {"none"}, status : Status \cup {NoStatus}]
  BY DEF NoResult
<1>5. contacts = <<>> /\ contacts \in Seq(RawUrl) /\ Len(contacts) = 0
  BY DEF ProbeIdle
<1>6. ProbeTypeOK
  <2>1. 0 \in 0..Deadline /\ 0 \in 0..MostTicks /\ 0 \in 0..MaxChunks
    BY ProbeNumbers
  <2> QED BY <1>2, <1>3, <1>4, <1>5, <2>1 DEF ProbeIdle, ProbeTypeOK
<1> QED
  BY <1>1, <1>5, <1>6 DEF ProbeIdle, ProbeInv, ProbeWithinPolicy, TargetAccepted,
     DialsCounted, HeadRead, Connected

LEMMA AttemptBegins ==
    ASSUME ProbeInv, Attempt
    PROVE  ProbeInv'
PROOF
<1> USE DEF ProbeInv, ProbeWithinPolicy
<1>1. CASE spent >= Deadline
  <2>1. Finished("connection_timeout", NoStatus) /\ hstep = "attempt"
        /\ UNCHANGED <<remaining, policy, target, spent, hops, chunks, head, contacts>>
    BY <1>1 DEF Attempt
  <2>2. chunks' \in 0..MaxChunks /\ spent' \in 0..MostTicks
    BY <2>1 DEF ProbeTypeOK
  <2> QED BY <2>1, <2>2, EndsUnanswered
<1>2. CASE ~(spent >= Deadline)
  <2>1. /\ hstep = "attempt" /\ hstep' = "dial" /\ remaining' = Deadline - spent
        /\ UNCHANGED <<result, policy, target, spent, hops, chunks, head, contacts>>
    BY <1>2 DEF Attempt
  <2>2. spent \in Nat /\ spent < Deadline /\ remaining' \in 0..Deadline
        /\ spent + remaining' = Deadline
    BY <1>2, <2>1, ProbeNumbers DEF ProbeTypeOK
  <2>3. ProbeTypeOK'
    BY <2>1, <2>2 DEF ProbeTypeOK
  <2>4. ProbeWithinPolicy'
    BY <2>1, <2>2, <2>3
  <2>5. TargetAccepted' /\ HeadRead' /\ DialsCounted'
    BY <2>1 DEF TargetAccepted, HeadRead, DialsCounted, Connected
  <2> QED BY <2>4, <2>5
<1> QED
  BY <1>1, <1>2

LEMMA Dials ==
    ASSUME ProbeInv, Dial
    PROVE  ProbeInv'
PROOF
<1> USE DEF ProbeInv, ProbeWithinPolicy
<1>1. hstep = "dial" /\ UNCHANGED <<policy, target, remaining, hops, chunks, head>>
  BY DEF Dial
<1>2. chunks' \in 0..MaxChunks
  BY <1>1 DEF ProbeTypeOK
<1>3. CASE ~Resolves(target.host) /\ Finished("dns_error", NoStatus)
             /\ UNCHANGED <<spent, contacts>>
  <2>1. spent' \in 0..MostTicks
    BY <1>3 DEF ProbeTypeOK
  <2> QED BY <1>1, <1>2, <1>3, <2>1, EndsUnanswered
<1>4. CASE contacts' = Append(contacts, target) /\ TimesOut
  <2>1. spent' \in 0..MostTicks
    BY <1>4, WaitRunsOut DEF TimesOut
  <2> QED BY <1>1, <1>2, <1>4, <2>1, EndsUnanswered DEF TimesOut
<1>5. CASE /\ contacts' = Append(contacts, target)
           /\ \E t \in 0..remaining : Takes(t)
           /\ \E o \in {"connection_refused", "unreachable"} : Finished(o, NoStatus)
  <2>1. spent' \in 0..MostTicks
    BY <1>5, TimePasses
  <2> QED BY <1>1, <1>2, <1>5, <2>1, EndsUnanswered
<1>6. CASE /\ contacts' = Append(contacts, target)
           /\ \E t \in 0..remaining : Takes(t)
           /\ hstep' = (IF target.scheme = "https" THEN "tls" ELSE "send")
           /\ UNCHANGED result
  <2>1. spent' \in 0..MostTicks
    BY <1>6, TimePasses
  <2>2. Accepts(target, policy) /\ Len(contacts) = hops /\ contacts \in Seq(RawUrl)
        /\ target \in RawUrl /\ hops \in Nat
    BY <1>1 DEF TargetAccepted, DialsCounted, ProbeTypeOK
  <2>3. /\ contacts' \in Seq(RawUrl) /\ Len(contacts') = hops + 1
        /\ \A i \in DOMAIN contacts' : contacts'[i] = target \/
              (i \in DOMAIN contacts /\ contacts'[i] = contacts[i])
    BY <1>6, <2>2
  <2>4. \A i \in DOMAIN contacts' : Accepts(contacts'[i], policy)
    BY <2>2, <2>3
  <2>5. ProbeTypeOK'
    BY <1>1, <1>6, <2>1, <2>3 DEF ProbeTypeOK
  <2>6. TargetAccepted' /\ HeadRead' /\ DialsCounted'
    BY <1>1, <1>6, <2>3 DEF TargetAccepted, HeadRead, DialsCounted, Connected
  <2>7. policy.max_redirects \in Nat
    BY PolicyTyped DEF ProbeTypeOK
  <2>8. ProbeWithinPolicy'
    BY <1>1, <1>6, <2>2, <2>3, <2>4, <2>5, <2>7 DEF DialsCounted
  <2> QED BY <2>6, <2>8
<1> QED
  BY <1>3, <1>4, <1>5, <1>6 DEF Dial

LEMMA Handshakes ==
    ASSUME ProbeInv, Handshake \/ Send
    PROVE  ProbeInv'
PROOF
<1>1. /\ hstep \in Connected \ {"body", "response"}
      /\ UNCHANGED <<policy, target, remaining, hops, chunks, head, contacts>>
  BY DEF Handshake, Send, Connected
<1>2. spent' \in 0..MostTicks /\ chunks' \in 0..MaxChunks
  BY <1>1, TimePasses DEF Handshake, Send, ProbeInv, ProbeWithinPolicy, ProbeTypeOK
<1>3. head' \in [status : Status \cup {NoStatus}, location : Location]
  BY <1>1 DEF ProbeInv, ProbeWithinPolicy, ProbeTypeOK
<1>4. CASE hstep' \in {"send", "head"} /\ UNCHANGED result
  BY <1>1, <1>2, <1>3, <1>4, GoesOn DEF Connected
<1>5. CASE \E o \in {"tls_error", "unreachable"} : Finished(o, NoStatus)
  BY <1>1, <1>2, <1>5, EndsUnanswered
<1> QED
  BY <1>4, <1>5 DEF Handshake, Send

\* What a failed read ends in.
LEMMA ReadEnds ==
    ASSUME ProbeInv, hstep \in {"head", "body"},
           UNCHANGED <<policy, target, remaining, hops, contacts, chunks, head>>,
           \/ ReadFails
           \/ /\ \E t \in 0..remaining : Takes(t)
              /\ \/ Finished("malformed_response", NoStatus)
                 \/ Finished("unreachable", NoStatus)
    PROVE  ProbeInv'
PROOF
<1>1. ProbeTypeOK /\ hstep \in Connected
  BY DEF ProbeInv, ProbeWithinPolicy, Connected
<1>2. chunks' \in 0..MaxChunks
  BY <1>1 DEF ProbeTypeOK
<1>3. CASE TimesOut
  <2>1. spent' \in 0..MostTicks
    BY <1>1, <1>3, WaitRunsOut DEF TimesOut
  <2> QED BY <1>1, <1>2, <1>3, <2>1, EndsUnanswered DEF TimesOut
<1>4. CASE /\ \E t \in 0..remaining : Takes(t)
           /\ \E o \in {"connection_refused", "unreachable", "malformed_response"} :
                 Finished(o, NoStatus)
  <2>1. spent' \in 0..MostTicks
    BY <1>1, <1>4, TimePasses
  <2> QED BY <1>1, <1>2, <1>4, <2>1, EndsUnanswered
<1> QED
  BY <1>3, <1>4 DEF ReadFails

\* One more read of the same response.
LEMMA ChunkRead ==
    ASSUME ProbeInv, hstep \in {"head", "body"}, ReadChunk,
           UNCHANGED <<policy, target, remaining, hops, contacts, head>>
    PROVE  ProbeInv'
PROOF
<1>1. ProbeTypeOK /\ HeadRead
  BY DEF ProbeInv, ProbeWithinPolicy
<1>2. spent' \in 0..MostTicks
  BY <1>1, TimePasses DEF ReadChunk
<1>3. chunks' \in 0..MaxChunks
  BY <1>1, ProbeNumbers DEF ReadChunk, ProbeTypeOK
<1>4. head' \in [status : Status \cup {NoStatus}, location : Location]
  BY <1>1 DEF ProbeTypeOK
<1>5. hstep' = hstep /\ UNCHANGED result
  BY DEF ReadChunk
<1>6. hstep' \in {"body", "response"} => head'.status \in Status
  BY <1>1, <1>5 DEF HeadRead
<1> QED
  BY <1>2, <1>3, <1>4, <1>5, <1>6, GoesOn DEF Connected

LEMMA HeadReads ==
    ASSUME ProbeInv, ReadHead
    PROVE  ProbeInv'
PROOF
<1>1. hstep = "head" /\ UNCHANGED <<policy, target, remaining, hops, contacts>>
  BY DEF ReadHead
<1>2. ProbeTypeOK
  BY DEF ProbeInv, ProbeWithinPolicy
<1>3. CASE ReadChunk /\ UNCHANGED head
  BY <1>1, <1>3, ChunkRead
<1>4. CASE UNCHANGED <<chunks, head>> /\
             (ReadFails \/ /\ \E t \in 0..remaining : Takes(t)
                           /\ \/ Finished("malformed_response", NoStatus)
                              \/ chunks = 0 /\ Finished("unreachable", NoStatus))
  BY <1>1, <1>4, ReadEnds
<1>5. CASE /\ \E s \in Status : \E l \in Location :
                head' = [status |-> s, location |-> IF IsRedirect(s) THEN l
                                                    ELSE NoLocation]
           /\ \E t \in 0..remaining : Takes(t)
           /\ hstep' = "body"
           /\ UNCHANGED <<chunks, result>>
  <2>1. NoLocation \in Location
    BY DEF Location
  <2>2. /\ head' \in [status : Status \cup {NoStatus}, location : Location]
        /\ head'.status \in Status
    BY <1>5, <2>1
  <2>3. spent' \in 0..MostTicks /\ chunks' \in 0..MaxChunks
    BY <1>2, <1>5, TimePasses DEF ProbeTypeOK
  <2> QED BY <1>1, <1>5, <2>2, <2>3, GoesOn DEF Connected
<1> QED
  BY <1>3, <1>4, <1>5 DEF ReadHead

LEMMA BodyReads ==
    ASSUME ProbeInv, ReadBody
    PROVE  ProbeInv'
PROOF
<1>1. hstep = "body" /\ UNCHANGED <<policy, target, remaining, hops, head, contacts>>
  BY DEF ReadBody
<1>2. CASE ReadChunk
  BY <1>1, <1>2, ChunkRead
<1>3. CASE ReadFails /\ UNCHANGED chunks
  BY <1>1, <1>3, ReadEnds
<1>4. CASE UNCHANGED <<spent, result>> /\ chunks' = 0 /\ hstep' = "response"
  <2>1. spent' \in 0..MostTicks
    BY <1>4 DEF ProbeInv, ProbeWithinPolicy, ProbeTypeOK
  <2>2. chunks' \in 0..MaxChunks
    <3>1. 0 \in 0..MaxChunks
      BY ProbeNumbers
    <3> QED BY <1>4, <3>1
  <2>3. head' \in [status : Status \cup {NoStatus}, location : Location]
    BY <1>1 DEF ProbeInv, ProbeWithinPolicy, ProbeTypeOK
  <2>4. head'.status \in Status
    BY <1>1 DEF ProbeInv, HeadRead
  <2> QED BY <1>1, <1>4, <2>1, <2>2, <2>3, <2>4, GoesOn DEF Connected
<1> QED
  BY <1>2, <1>3, <1>4 DEF ReadBody

LEMMA OneMore ==
    ASSUME NEW n, NEW h \in Nat, NEW k \in Nat, n = h + 1, h <= k
    PROVE  n <= k + 1
  OBVIOUS

\* A response that is not followed ends the probe with its status.
LEMMA EndsAnswered ==
    ASSUME ProbeInv, hstep = "response", NEW o, Finished(o, head.status),
           [outcome |-> o, status |-> head.status] \in ProbeAnswers,
           head' = NoHead, UNCHANGED <<policy, target, remaining, spent, chunks, contacts>>,
           hops' \in Nat, hops <= hops', hops' <= policy.max_redirects,
           o = "too_many_redirects" => hops = policy.max_redirects
    PROVE  ProbeInv'
PROOF
<1> USE DEF ProbeInv, ProbeWithinPolicy
<1>1. hstep' = "finished" /\ result' \in ProbeAnswers /\ result'.outcome = o
  BY DEF Finished
<1>2. policy.max_redirects \in Nat /\ hops \in Nat
  BY PolicyTyped DEF ProbeTypeOK
<1>3. Len(contacts) = hops + 1 /\ contacts \in Seq(RawUrl)
  BY DEF DialsCounted, Connected, ProbeTypeOK
<1>4. NoHead \in [status : Status \cup {NoStatus}, location : Location]
  BY DEF NoHead, Location
<1>5. ProbeTypeOK'
  BY <1>1, <1>2, <1>4, AnswersTyped DEF ProbeTypeOK
<1>6. ProbeWithinPolicy'
  BY <1>1, <1>2, <1>3, <1>5 DEF DialsCounted
<1>7. TargetAccepted' /\ HeadRead'
  BY <1>1 DEF TargetAccepted, HeadRead, Connected
<1>8. DialsCounted'
  <2> HIDE DEF ProbeInv, ProbeWithinPolicy
  <2>1. Len(contacts') = hops + 1
    BY <1>3
  <2>2. hops \in Nat /\ hops' \in Nat /\ hops <= hops'
    BY <1>2
  <2>3. Len(contacts') <= hops' + 1
    BY <2>1, <2>2, OneMore, Zenon
  <2> QED BY <1>1, <2>3 DEF DialsCounted, Connected
<1> QED
  BY <1>6, <1>7, <1>8

LEMMA Responds ==
    ASSUME ProbeInv, Respond
    PROVE  ProbeInv'
PROOF
<1>1. /\ hstep = "response" /\ head' = NoHead
      /\ UNCHANGED <<policy, remaining, spent, chunks, contacts>>
  BY DEF Respond
<1>2. ProbeTypeOK /\ head.status \in Status /\ hops <= policy.max_redirects
  BY <1>1 DEF ProbeInv, ProbeWithinPolicy, HeadRead, DialsCounted
<1>3. policy.max_redirects \in Nat /\ hops \in Nat
  BY <1>2, PolicyTyped DEF ProbeTypeOK
<1>4. CASE /\ IsRedirect(head.status) /\ hops >= policy.max_redirects
           /\ Finished("too_many_redirects", head.status)
           /\ UNCHANGED <<target, hops>>
  <2>1. [outcome |-> "too_many_redirects", status |-> head.status] \in ProbeAnswers
    BY <1>4, AnswersListed DEF IsRedirect
  <2>2. hops = policy.max_redirects
    BY <1>2, <1>3, <1>4
  <2> QED BY <1>1, <1>2, <1>3, <1>4, <2>1, <2>2, EndsAnswered
<1>5. CASE /\ ~IsRedirect(head.status)
           /\ Finished(HttpStatusOutcome(head.status), head.status)
           /\ UNCHANGED <<target, hops>>
  <2>1. head.status \in {200, 304, 404, 500}
    BY <1>2, <1>5 DEF Status, IsRedirect
  <2>2. /\ [outcome |-> HttpStatusOutcome(head.status), status |-> head.status]
              \in ProbeAnswers
        /\ HttpStatusOutcome(head.status) # "too_many_redirects"
    BY <2>1, AnswersListed DEF HttpStatusOutcome
  <2> QED BY <1>1, <1>2, <1>3, <1>5, <2>2, EndsAnswered
<1>6. CASE /\ IsRedirect(head.status) /\ hops < policy.max_redirects
           /\ hops' = hops + 1
           /\ Redirected(head.location)
  <2>1. hops' \in Nat /\ hops' <= policy.max_redirects
    BY <1>3, <1>6
  <2>2. CASE \E o \in {"malformed_response", "redirect_to_external_blocked"} :
               Finished(o, head.status) /\ UNCHANGED target
    <3>1. PICK o \in {"malformed_response", "redirect_to_external_blocked"} :
            Finished(o, head.status) /\ UNCHANGED target
      BY <2>2
    <3>2. [outcome |-> o, status |-> head.status] \in ProbeAnswers
      BY <1>6, AnswersListed DEF IsRedirect
    <3> QED BY <1>1, <1>3, <1>6, <2>1, <3>1, <3>2, EndsAnswered
  <2>3. CASE /\ head.location.kind # "none"
             /\ Accepts(ResolveRedirect(target, head.location), policy)
             /\ target' = Validated(ResolveRedirect(target, head.location))
             /\ hstep' = "attempt" /\ UNCHANGED result
    <3>1. target \in RawUrl /\ head.location \in Location
      BY <1>2 DEF ProbeTypeOK
    <3>2. target' \in RawUrl /\ Accepts(target', policy)
      BY <2>3, <3>1, RedirectTyped, ValidatedAccepted
    <3>3. NoHead \in [status : Status \cup {NoStatus}, location : Location]
      BY DEF NoHead, Location
    <3>4. ProbeTypeOK'
      BY <1>1, <1>2, <2>1, <2>3, <3>2, <3>3 DEF ProbeTypeOK
    <3>5. Len(contacts) = hops + 1
      BY <1>1 DEF ProbeInv, DialsCounted, Connected
    <3>6. ProbeWithinPolicy'
      BY <1>1, <1>2, <1>3, <1>6, <2>3, <3>4, <3>5 DEF ProbeInv, ProbeWithinPolicy
    <3>7. TargetAccepted' /\ HeadRead' /\ DialsCounted'
      BY <1>1, <1>3, <1>6, <2>1, <2>3, <3>2, <3>5
         DEF TargetAccepted, HeadRead, DialsCounted, Connected
    <3> QED BY <3>6, <3>7 DEF ProbeInv
  <2> QED BY <1>6, <2>2, <2>3 DEF Redirected
<1> QED
  BY <1>4, <1>5, <1>6 DEF Respond

\* The caller takes the result, and the probe is idle again.
LEMMA TakenIdle == ProbeTaken => ProbeInv'
PROOF
<1>1. ProbeIdle => ProbeInv
  BY IdleProbe
<1>2. ProbeIdle' => ProbeInv'
  BY <1>1, PTL
<1>3. ProbeTaken => ProbeIdle'
  BY DEF ProbeTaken, ProbeIdle
<1> QED
  BY <1>2, <1>3

\* Whatever chain of redirects the peers build, every address that is dialled
\* satisfies the policy, no probe dials more than max_redirects + 1 times or
\* after its deadline, and it ends in one of the answers its callers expect
\* (probe_url, validate_url).
THEOREM ProbeStaysWithinPolicy == ProbeSpec => []ProbeWithinPolicy
PROOF
<1>1. ProbeIdle => ProbeInv
  BY IdleProbe
<1>2. ProbeInv /\ [ProbeNext]_probeVars => ProbeInv'
  <2> SUFFICES ASSUME ProbeInv, [ProbeNext]_probeVars PROVE ProbeInv'
    OBVIOUS
  <2>1. CASE StartProbe
    BY <2>1, ProbeStarts
  <2>2. CASE ProbeTaken
    BY <2>2, TakenIdle
  <2>3. CASE Attempt
    BY <2>3, AttemptBegins
  <2>4. CASE Dial
    BY <2>4, Dials
  <2>5. CASE Handshake \/ Send
    BY <2>5, Handshakes
  <2>6. CASE ReadHead
    BY <2>6, HeadReads
  <2>7. CASE ReadBody
    BY <2>7, BodyReads
  <2>8. CASE Respond
    BY <2>8, Responds
  <2>9. CASE UNCHANGED probeVars
    BY <2>9 DEF probeVars, ProbeInv, ProbeWithinPolicy, ProbeTypeOK, TargetAccepted,
       DialsCounted, HeadRead
  <2> QED
    BY <2>1, <2>2, <2>3, <2>4, <2>5, <2>6, <2>7, <2>8, <2>9 DEF ProbeNext
<1>3. ProbeInv => ProbeWithinPolicy
  BY DEF ProbeInv
<1> QED
  BY <1>1, <1>2, <1>3, PTL DEF ProbeSpec

-----------------------------------------------------------------------------
(* TrendSampler.  The schedule fits the window, because the number of      *)
(* samples is cut to what does (WindowResolved); a sample is taken when    *)
(* its time has come (SampleDue) and is later than all before it           *)
(* (InOrder); a sample that is missing is accounted for while the loop     *)
(* still runs (Counted); and every sample so far has its start, the latest *)
(* of which the clock is no further from than a measurement takes          *)
(* (Followed).                                                             *)

WindowResolved ==
    /\ params.window \in 1 .. Larger(MaxWindow, TrendMin)
    /\ params.interval \in 1 .. params.window
    /\ params.samples \in Nat /\ params.samples >= 2
    /\ (params.samples - 1) * params.interval <= params.window

SampleDue ==
    sstep # "idle" =>
        WindowResolved /\ index < params.samples /\ clock >= Target(index)
            /\ metric \in {"port", "level"}

InOrder ==
    \A i \in DOMAIN points :
        /\ points[i].at <= clock
        /\ points[i].sample <= index
        /\ sstep = "begin" => points[i].sample < index

Counted ==
    /\ sstep = "begin" => Len(points) <= index
                            /\ (Len(points) < index => "no value" \in remarks)
    /\ sstep = "measured" => Len(points) <= index + 1
                               /\ (Len(points) < index + 1 => "no value" \in remarks)
                               /\ clock <= params.window + MaxOversleep + MaxMeasure
    /\ sstep = "begin" => clock <= params.window + MaxOversleep
    /\ sstep = "idle" => points = <<>> /\ index = 0 /\ clock = 0

Followed ==
    /\ sstep = "idle" => starts = <<>>
    /\ sstep = "begin" =>
         /\ Len(starts) = index
         /\ index > 0 => clock <= Larger(Target(index) + MaxOversleep,
                                        starts[index] + MaxMeasure)
    /\ sstep = "measured" =>
         Len(starts) = index + 1 /\ clock <= starts[index + 1] + MaxMeasure

TrendInv == TrendHonest /\ SampleDue /\ InOrder /\ Counted /\ Followed

LEMMA Divided ==
    ASSUME NEW w \in Nat, NEW k \in Nat \ {0}, k <= w
    PROVE  w \div k \in Nat /\ w \div k >= 1 /\ (w \div k) * k <= w
  OBVIOUS

LEMMA FewerTimes ==
    ASSUME NEW i \in Nat, NEW n \in Nat, NEW k \in Nat, NEW w \in Nat, i <= n, n * k <= w
    PROVE  i * k \in Nat /\ i * k <= w
  OBVIOUS

LEMMA Shifts ==
    ASSUME NEW n \in Nat, NEW k \in Nat
    PROVE  /\ n <= k => n + 1 <= k + 1
           /\ n + 1 < k + 1 => n < k
  OBVIOUS

LEMMA TrendNumbers ==
    /\ MaxWindow \in Nat /\ MaxSamples \in Nat /\ MaxMeasure \in Nat /\ MaxOversleep \in Nat
    /\ Larger(MaxWindow, TrendMin) \in Nat /\ Larger(MaxWindow, TrendMin) >= 1
  BY WindowAssumption, SamplesAssumption, MeasureAssumption DEF Larger, TrendMin

\* What the arguments are resolved to fits the window.
LEMMA ResolveFits ==
    ASSUME NEW args \in TrendArgs
    PROVE  /\ Resolve(args).window \in 1 .. Larger(MaxWindow, TrendMin)
           /\ Resolve(args).interval \in 1 .. Resolve(args).window
           /\ Resolve(args).samples \in Nat /\ Resolve(args).samples >= 2
           /\ (Resolve(args).samples - 1) * Resolve(args).interval <= Resolve(args).window
PROOF
<1> DEFINE w == Clamp(args.window, TrendMin, Larger(MaxWindow, TrendMin))
           k == Clamp(args.interval, TrendMin, w)
           q == w \div k
           fitting == Larger(q, 1) + 1
           n == Smaller(Clamp(args.samples, 2, Larger(MaxSamples, 2)), fitting)
<1>1. args \in [window : Nat, interval : Nat, samples : Nat]
  BY ArgsAssumption
<1>2. w \in Nat /\ w >= 1 /\ w <= Larger(MaxWindow, TrendMin)
  BY <1>1, TrendNumbers DEF Clamp, TrendMin
<1>3. k \in Nat /\ k >= 1 /\ k <= w
  <2> HIDE DEF w
  <2> QED BY <1>1, <1>2 DEF Clamp, TrendMin
<1>4. q \in Nat /\ q >= 1 /\ q * k <= w
  <2> HIDE DEF w, k
  <2>1. k \in Nat \ {0}
    BY <1>3
  <2> QED BY <1>2, <1>3, <2>1, Divided
<1>5. fitting = q + 1
  <2> HIDE DEF q
  <2> QED BY <1>4 DEF Larger
<1>6. n \in Nat /\ n >= 2 /\ n - 1 <= q
  <2> HIDE DEF fitting, q
  <2>1. Clamp(args.samples, 2, Larger(MaxSamples, 2)) \in Nat
        /\ Clamp(args.samples, 2, Larger(MaxSamples, 2)) >= 2
    BY <1>1, TrendNumbers DEF Clamp, Larger
  <2> QED BY <1>4, <1>5, <2>1 DEF Smaller
<1>7. (n - 1) * k <= w
  <2> HIDE DEF n, q, k, w
  <2>1. n - 1 \in Nat
    BY <1>6
  <2> QED BY <1>2, <1>3, <1>4, <1>6, <2>1, FewerTimes
<1>8. Resolve(args) = [window |-> w, interval |-> k, samples |-> n]
  BY DEF Resolve
<1> HIDE DEF n, k, w
<1> QED
  BY <1>2, <1>3, <1>6, <1>7, <1>8, TrendNumbers

\* Every target of the schedule lies in the window.
LEMMA TargetsFit ==
    ASSUME WindowResolved, NEW i \in Nat, i <= params.samples - 1
    PROVE  Target(i) \in Nat /\ Target(i) <= params.window
PROOF
<1>1. /\ params.window \in Nat /\ params.interval \in Nat
      /\ params.samples - 1 \in Nat
      /\ (params.samples - 1) * params.interval <= params.window
  BY TrendNumbers DEF WindowResolved
<1> QED
  BY <1>1, FewerTimes DEF Target

LEMMA ResolvedWindow ==
    ASSUME WindowResolved
    PROVE  /\ params.window \in Nat /\ params.window <= Larger(MaxWindow, TrendMin)
           /\ params.samples \in Nat /\ TargetsInWindow
PROOF
<1>1. /\ params.window \in Nat /\ params.window <= Larger(MaxWindow, TrendMin)
      /\ params.samples \in Nat
  BY TrendNumbers DEF WindowResolved
<1>2. ASSUME NEW i \in 0 .. (params.samples - 1) PROVE Target(i) <= params.window
  BY <1>1, TargetsFit
<1> QED
  BY <1>1, <1>2 DEF TargetsInWindow

LEMMA ResolvedStays == WindowResolved' => TargetsInWindow'
PROOF
<1>1. WindowResolved => TargetsInWindow
  BY ResolvedWindow
<1> QED
  BY <1>1, PTL

\* The classification of a level needs two samples; that of a port, none.
LEMMA Classified ==
    ASSUME points \in Seq([at : Nat, value : TrendValues \cup {0, 1}, sample : Nat]),
           metric \in {"port", "level"}, ConcludeTrend
    PROVE  /\ trend' \in {"sustained", "flat", "noisy", "intermittent", "inconclusive"}
           /\ trend' \in {"sustained", "flat", "noisy"} /\ metric = "level"
                => Len(points) >= 2
           /\ sstep' = "answered"
PROOF
<1> DEFINE values == [i \in DOMAIN points |-> points[i].value]
<1>1. Len(values) = Len(points) /\ Len(points) \in Nat
  <2>1. Len(points) \in Nat /\ DOMAIN points = 1 .. Len(points)
    OBVIOUS
  <2>2. values \in [1 .. Len(points) -> {points[i].value : i \in DOMAIN points}]
    BY <2>1
  <2>3. Seq({points[i].value : i \in DOMAIN points})
          = UNION {[1 .. n -> {points[i].value : i \in DOMAIN points}] : n \in Nat}
    BY SeqDef, Zenon
  <2>4. values \in Seq({points[i].value : i \in DOMAIN points})
    BY <2>1, <2>2, <2>3, Zenon
  <2>5. DOMAIN values = 1 .. Len(points)
    BY <2>1
  <2> HIDE DEF values
  <2> QED BY <2>1, <2>4, <2>5
<1>2. ClassifyPortSeries(values) \in {"sustained", "flat", "intermittent"}
  BY DEF ClassifyPortSeries
<1>3. /\ ClassifyTrend(values) \in {"inconclusive", "sustained", "flat", "noisy"}
      /\ Len(values) < 2 => ClassifyTrend(values) = "inconclusive"
  <2> HIDE DEF values
  <2> QED BY DEF ClassifyTrend
<1>4. /\ trend' = IF metric = "port" THEN ClassifyPortSeries(values)
                  ELSE ClassifyTrend(values)
      /\ sstep' = "answered"
  BY DEF ConcludeTrend
<1> HIDE DEF values
<1> QED
  BY <1>1, <1>2, <1>3, <1>4

LEMMA IdleTrend ==
    ASSUME TrendIdle
    PROVE  TrendInv
PROOF
<1>1. TrendTypeOK
  <2>1. 0 \in 0..(Larger(MaxWindow, TrendMin) + MaxOversleep + MaxMeasure)
    BY TrendNumbers
  <2>2. params \in [window : Nat, interval : Nat, samples : Nat]
    BY DEF TrendIdle, NoParams
  <2> QED BY <2>1, <2>2 DEF TrendIdle, TrendTypeOK
<1> QED
  BY <1>1 DEF TrendIdle, TrendInv, TrendHonest, TargetsInWindow, StartedInTime, OnSchedule,
     GapsReported, SampleDue, InOrder, Counted, Followed

LEMMA TrendStarts ==
    ASSUME TrendInv, StartTrend
    PROVE  TrendInv'
PROOF
<1>1. /\ sstep = "idle" /\ sstep' = "begin" /\ metric' \in {"port", "level"}
      /\ UNCHANGED <<index, clock, starts, points, trend>>
  BY DEF StartTrend
<1>2. points = <<>> /\ index = 0 /\ clock = 0 /\ starts = <<>>
  BY <1>1 DEF TrendInv, Counted, Followed
<1>3. PICK args \in TrendArgs :
        params' = Resolve(args) /\ remarks' \in {{}, {"clamped"}}
  BY DEF StartTrend
<1>4. WindowResolved'
  BY <1>3, ResolveFits DEF WindowResolved
<1>5. params' \in [window : Nat, interval : Nat, samples : Nat]
  <2>1. /\ Resolve(args).window \in Nat /\ Resolve(args).interval \in Nat
        /\ Resolve(args).samples \in Nat
    BY ResolveFits, TrendNumbers
  <2>2. Resolve(args) = [window |-> Resolve(args).window,
                         interval |-> Resolve(args).interval,
                         samples |-> Resolve(args).samples]
    BY DEF Resolve
  <2> QED BY <1>3, <2>1, <2>2
<1>6. TrendTypeOK'
  BY <1>1, <1>3, <1>5 DEF TrendInv, TrendHonest, TrendTypeOK
<1>7. TargetsInWindow'
  BY <1>4, ResolvedStays
<1>8. params'.window \in Nat /\ params'.samples \in Nat /\ params'.samples >= 2
      /\ params'.interval \in Nat
  BY <1>4, <1>5 DEF WindowResolved
<1>9. Target(index)' = 0
  BY <1>1, <1>2, <1>8 DEF Target
<1>10. TrendHonest'
  BY <1>1, <1>2, <1>6, <1>7, <1>8, TrendNumbers
  DEF TrendHonest, StartedInTime, OnSchedule, GapsReported
<1>11. SampleDue'
  BY <1>1, <1>2, <1>4, <1>8, <1>9 DEF SampleDue
<1>12. InOrder' /\ Counted' /\ Followed'
  BY <1>1, <1>2, <1>8, TrendNumbers DEF InOrder, Counted, Followed
<1> QED
  BY <1>10, <1>11, <1>12 DEF TrendInv

\* The loop ends, however it ends.
LEMMA TrendConcludes ==
    ASSUME TrendInv, sstep \in {"begin", "measured"}, ConcludeTrend,
           UNCHANGED <<metric, params, index, clock, starts, points>>,
           remarks' \in {remarks, remarks \cup {"deadline"}},
           index + 1 < params.samples \/ sstep = "begin" => "deadline" \in remarks'
    PROVE  TrendInv'
PROOF
<1>1. /\ TrendTypeOK /\ StartedInTime /\ OnSchedule /\ TargetsInWindow
      /\ metric \in {"port", "level"}
  BY DEF TrendInv, TrendHonest, SampleDue
<1>2. points \in Seq([at : Nat, value : TrendValues \cup {0, 1}, sample : Nat])
  BY <1>1 DEF TrendTypeOK
<1>3. /\ trend' \in {"sustained", "flat", "noisy", "intermittent", "inconclusive"}
      /\ trend' \in {"sustained", "flat", "noisy"} /\ metric = "level"
                => Len(points) >= 2
      /\ sstep' = "answered"
  BY <1>1, <1>2, Classified
<1>4. remarks' \subseteq {"clamped", "deadline", "overrun", "no value"}
      /\ ("no value" \in remarks => "no value" \in remarks')
  BY <1>1 DEF TrendTypeOK
<1>5. TrendTypeOK'
  BY <1>1, <1>3, <1>4 DEF TrendTypeOK
<1>6. StartedInTime' /\ OnSchedule' /\ TargetsInWindow'
  BY <1>1, <1>3 DEF StartedInTime, OnSchedule, TargetsInWindow, Target
<1>7. GapsReported'
  BY <1>3, <1>4 DEF GapsReported, TrendInv, Counted
<1>8. TrendHonest'
  BY <1>3, <1>5, <1>6, <1>7 DEF TrendHonest
<1>9. SampleDue' /\ InOrder' /\ Counted' /\ Followed'
  BY <1>3 DEF TrendInv, SampleDue, InOrder, Counted, Followed, WindowResolved, Target
<1> QED
  BY <1>8, <1>9 DEF TrendInv

\* The loop goes on to the next sample, at or after its target.
LEMMA NextSample ==
    ASSUME TrendInv, sstep = "measured", sstep' = "begin", index' = index + 1,
           index + 1 < params.samples, clock' \in Nat, clock' >= clock,
           clock' >= Target(index + 1), clock' <= params.window + MaxOversleep,
           clock' <= Target(index + 1) + MaxOversleep \/ clock' = clock,
           UNCHANGED <<metric, params, starts, points, trend>>,
           remarks' \in {remarks, remarks \cup {"overrun"}}
    PROVE  TrendInv'
PROOF
<1>1. /\ TrendTypeOK /\ StartedInTime /\ OnSchedule /\ TargetsInWindow
      /\ metric \in {"port", "level"} /\ WindowResolved
  BY DEF TrendInv, TrendHonest, SampleDue
<1>2. /\ index \in Nat /\ clock \in Nat /\ params.window \in Nat
      /\ params.window <= Larger(MaxWindow, TrendMin)
      /\ points \in Seq([at : Nat, value : TrendValues \cup {0, 1}, sample : Nat])
  <2>1. clock \in 0..(Larger(MaxWindow, TrendMin) + MaxOversleep + MaxMeasure)
    BY <1>1 DEF TrendTypeOK
  <2>2. clock \in Nat
    BY <2>1, TrendNumbers
  <2> QED BY <1>1, <2>2, ResolvedWindow DEF TrendTypeOK
<1>3. clock' \in 0..(Larger(MaxWindow, TrendMin) + MaxOversleep + MaxMeasure)
  BY <1>2, TrendNumbers
<1>4. TrendTypeOK'
  <2>1. remarks' \subseteq {"clamped", "deadline", "overrun", "no value"}
    BY <1>1 DEF TrendTypeOK
  <2>2. index' \in Nat
    BY <1>2
  <2> QED BY <1>1, <1>3, <2>1, <2>2 DEF TrendTypeOK
<1>5. TrendHonest'
  BY <1>1, <1>4 DEF TrendHonest, StartedInTime, OnSchedule, TargetsInWindow, GapsReported,
     Target
<1>6. SampleDue'
  BY <1>1 DEF TrendInv, SampleDue, WindowResolved, Target
<1>7. InOrder'
  <2>1. ASSUME NEW i \in DOMAIN points
        PROVE  points[i].at <= clock' /\ points[i].sample <= index' /\ points[i].sample < index'
    <3>1. points[i].at <= clock /\ points[i].sample <= index
      BY <2>1 DEF TrendInv, InOrder
    <3>2. points[i].at \in Nat /\ points[i].sample \in Nat
      <4>1. i \in 1 .. Len(points)
        BY <1>2, <2>1
      <4>2. points[i] \in [at : Nat, value : TrendValues \cup {0, 1}, sample : Nat]
        BY <1>2, <4>1, ElementOfSeq, Zenon
      <4> QED BY <4>2
    <3> QED BY <1>2, <3>1, <3>2
  <2> QED BY <2>1 DEF InOrder
<1>8. Counted'
  BY <1>2 DEF TrendInv, Counted
<1>9. Followed'
  <2>1. Len(starts) = index + 1 /\ clock <= starts[index + 1] + MaxMeasure
    BY DEF TrendInv, Followed
  <2>2. starts[index + 1] \in Nat
    <3>1. starts \in Seq(Nat)
      BY <1>1 DEF TrendTypeOK
    <3>2. index + 1 \in 1 .. Len(starts)
      BY <1>2, <2>1
    <3> QED BY <3>1, <3>2, ElementOfSeq, Zenon
  <2>3. Target(index + 1) \in Nat
    <3>1. index + 1 \in Nat /\ index + 1 <= params.samples - 1
      BY <1>1, <1>2, ResolvedWindow
    <3> QED BY <1>1, <3>1, TargetsFit
  <2>4. Target(index)' = Target(index + 1)
    BY DEF Target
  <2>5. clock' <= Larger(Target(index + 1) + MaxOversleep, starts[index + 1] + MaxMeasure)
    BY <1>2, <2>1, <2>2, <2>3, TrendNumbers DEF Larger
  <2> QED BY <2>1, <2>4, <2>5 DEF Followed
<1> QED
  BY <1>5, <1>6, <1>7, <1>8, <1>9 DEF TrendInv

\* A measurement starts in time: nothing is overdue, and its delay is its own.
LEMMA MeasureStarts ==
    ASSUME TrendInv, Measure, NEW t \in 0..MaxMeasure, clock' = clock + t,
           clock \in Nat, index \in Nat, params.window \in Nat, Target(index) \in Nat,
           clock <= params.window + MaxOversleep,
           UNCHANGED <<params, index>>, sstep' = "measured"
    PROVE  starts' \in Seq(Nat) /\ StartedInTime' /\ Followed'
PROOF
<1>1. /\ sstep = "begin" /\ ~Overdue /\ starts' = Append(starts, clock)
  BY DEF Measure
<1>2. /\ starts \in Seq(Nat) /\ Len(starts) = index /\ StartedInTime
      /\ index > 0 => clock <= Larger(Target(index) + MaxOversleep,
                                     starts[index] + MaxMeasure)
      /\ clock >= Target(index) /\ Target(index) <= params.window
  <2>1. WindowResolved /\ index < params.samples
    BY <1>1 DEF TrendInv, SampleDue
  <2>2. index <= params.samples - 1
    BY <2>1, ResolvedWindow
  <2> QED BY <1>1, <2>1, <2>2, TargetsFit
          DEF TrendInv, TrendHonest, TrendTypeOK, Followed, SampleDue
<1>3. /\ starts' \in Seq(Nat) /\ Len(starts') = index + 1
      /\ DOMAIN starts = 1 .. index /\ DOMAIN starts' = 1 .. index + 1
      /\ \A i \in 1 .. index : starts'[i] = starts[i]
      /\ starts'[index + 1] = clock
  BY <1>1, <1>2
<1>4. ASSUME NEW i \in 1 .. index + 1
      PROVE  /\ starts'[i] >= Target(i - 1)
             /\ starts'[i] < params.window \/ Target(i - 1) = params.window
             /\ starts'[i] <= params.window + MaxOversleep
             /\ i > 1 => starts'[i] <= Larger(Target(i - 1) + MaxOversleep,
                                             starts'[i - 1] + MaxMeasure)
  <2>1. CASE i \in 1 .. index
    <3>1. /\ starts'[i] = starts[i]
          /\ i > 1 => starts'[i - 1] = starts[i - 1]
      BY <1>3, <2>1
    <3> QED BY <1>2, <1>3, <2>1, <3>1 DEF StartedInTime
  <2>2. CASE i = index + 1
    <3>1. i - 1 = index /\ starts'[i] = clock
      BY <1>3, <2>2
    <3>2. i > 1 => index > 0 /\ starts'[i - 1] = starts[index]
      BY <1>3, <2>2, <3>1
    <3>3. clock < params.window \/ Target(index) = params.window
      BY <1>1, <1>2 DEF Overdue
    <3> QED BY <1>2, <3>1, <3>2, <3>3
  <2> QED BY <2>1, <2>2
<1>5. StartedInTime'
  BY <1>3, <1>4 DEF StartedInTime, Target
<1>6. Followed'
  <2>1. clock' <= clock + MaxMeasure
    BY TrendNumbers
  <2> QED BY <1>3, <2>1 DEF Followed
<1> QED
  BY <1>3, <1>5, <1>6

\* A sample is measured, late but in order, or its value is missing.
LEMMA Measures ==
    ASSUME TrendInv, Measure
    PROVE  TrendInv'
PROOF
<1> DEFINE Sample == [at : Nat, value : TrendValues \cup {0, 1}, sample : Nat]
<1>1. /\ sstep = "begin" /\ sstep' = "measured"
      /\ UNCHANGED <<metric, params, index, trend>>
  BY DEF Measure
<1>2. /\ TrendTypeOK /\ OnSchedule /\ TargetsInWindow /\ metric \in {"port", "level"}
      /\ WindowResolved /\ clock <= params.window + MaxOversleep
  BY <1>1 DEF TrendInv, TrendHonest, SampleDue, Counted
<1>3. PICK t \in 0..MaxMeasure : clock' = clock + t
  BY DEF Measure
<1>4. /\ index \in Nat /\ params.window \in Nat
      /\ params.window <= Larger(MaxWindow, TrendMin)
  BY <1>2, ResolvedWindow DEF TrendTypeOK
<1>5. points \in Seq(Sample)
  BY <1>2 DEF TrendTypeOK
<1>6. clock \in Nat /\ clock' \in Nat /\ clock' >= clock
      /\ clock' <= params.window + MaxOversleep + MaxMeasure
      /\ clock' \in 0..(Larger(MaxWindow, TrendMin) + MaxOversleep + MaxMeasure)
  <2>1. clock \in 0..(Larger(MaxWindow, TrendMin) + MaxOversleep + MaxMeasure)
    BY <1>2 DEF TrendTypeOK
  <2>2. clock \in Nat /\ t \in Nat /\ t <= MaxMeasure
    BY <2>1, TrendNumbers
  <2>3. clock <= params.window + MaxOversleep
    BY <1>2
  <2> QED BY <1>3, <1>4, <2>2, <2>3, TrendNumbers
<1>7. Target(index) \in Nat /\ Target(index) <= clock
  <2>1. index \in Nat /\ index <= params.samples - 1
    BY <1>1, <1>4, <1>2, ResolvedWindow DEF TrendInv, SampleDue
  <2> QED BY <1>1, <1>2, <2>1, TargetsFit DEF TrendInv, SampleDue
<1>8. SampleDue'
  <2>1. clock' >= Target(index)
    BY <1>6, <1>7
  <2> QED BY <1>1, <2>1 DEF TrendInv, SampleDue, WindowResolved, Target
<1>12. starts' \in Seq(Nat) /\ StartedInTime' /\ Followed'
  BY <1>1, <1>2, <1>3, <1>4, <1>6, <1>7, MeasureStarts
<1>9. ASSUME NEW i \in DOMAIN points
      PROVE  /\ points[i].at \in Nat /\ points[i].sample \in Nat
             /\ points[i].at <= clock /\ points[i].sample < index
  <2>1. i \in 1 .. Len(points)
    BY <1>5, <1>9
  <2>2. points[i] \in Sample
    <3> HIDE DEF Sample
    <3> QED BY <1>5, <2>1, ElementOfSeq, Zenon
  <2> QED BY <1>1, <1>9, <2>2 DEF TrendInv, InOrder
<1>10. CASE remarks' = remarks \cup {"no value"} /\ UNCHANGED points
  <2>1. TrendTypeOK'
    <3>1. remarks' \subseteq {"clamped", "deadline", "overrun", "no value"}
      BY <1>2, <1>10 DEF TrendTypeOK
    <3> QED BY <1>1, <1>2, <1>6, <1>10, <1>12, <3>1 DEF TrendTypeOK
  <2>2. TrendHonest'
    BY <1>1, <1>2, <1>10, <1>12, <2>1 DEF TrendHonest, OnSchedule, TargetsInWindow, GapsReported,
       Target
  <2>3. InOrder'
    <3>1. ASSUME NEW i \in DOMAIN points
          PROVE  points[i].at <= clock' /\ points[i].sample <= index
      <4>1. /\ points[i].at \in Nat /\ points[i].sample \in Nat
            /\ points[i].at <= clock /\ points[i].sample < index
        BY <1>9
      <4> QED BY <1>4, <1>6, <4>1
    <3> QED BY <1>1, <1>10, <3>1 DEF InOrder
  <2>4. Counted'
    <3>1. Len(points) \in Nat /\ Len(points) <= index
      <4>1. Len(points) <= index
        BY <1>1 DEF TrendInv, Counted
      <4> QED BY <1>5, <4>1
    <3>2. Len(points) <= index + 1
      BY <1>4, <3>1
    <3> QED BY <1>1, <1>6, <1>10, <3>2 DEF Counted
  <2> QED BY <1>8, <1>12, <2>2, <2>3, <2>4 DEF TrendInv
<1>11. ASSUME NEW v \in Readings, UNCHANGED remarks,
              points' = Append(points, [at |-> clock', value |-> v, sample |-> index])
       PROVE  TrendInv'
  <2> DEFINE x == [at |-> clock', value |-> v, sample |-> index]
  <2>1. x \in Sample
    BY <1>4, <1>6 DEF Readings
  <2>2. /\ x.at = clock' /\ x.sample = index
    OBVIOUS
  <2>3. points' = Append(points, x)
    BY <1>11
  <2> HIDE DEF x, Sample
  <2>4. /\ points' \in Seq(Sample) /\ Len(points) \in Nat
        /\ Len(points') = Len(points) + 1
        /\ DOMAIN points = 1 .. Len(points) /\ DOMAIN points' = 1 .. Len(points) + 1
        /\ \A i \in 1 .. Len(points) : points'[i] = points[i]
        /\ points'[Len(points) + 1] = x
    BY <1>5, <2>1, <2>3
  <2>5. TrendTypeOK'
    BY <1>1, <1>2, <1>6, <1>11, <1>12, <2>4 DEF TrendTypeOK, Sample
  <2>6. OnSchedule'
    <3>1. ASSUME NEW i \in 1 .. Len(points) + 1
          PROVE  /\ points'[i].at >= Target(points'[i].sample)
                 /\ i > 1 => points'[i - 1].at <= points'[i].at
                               /\ points'[i - 1].sample < points'[i].sample
      <4>1. CASE i \in 1 .. Len(points)
        <5>1. /\ points'[i] = points[i]
              /\ i > 1 => points'[i - 1] = points[i - 1]
          BY <2>4, <4>1
        <5> QED BY <1>2, <2>4, <4>1, <5>1 DEF OnSchedule
      <4>2. CASE i = Len(points) + 1
        <5>1. points'[i].at = clock' /\ points'[i].sample = index
          BY <2>2, <2>4, <4>2
        <5>2. ASSUME i > 1
              PROVE  points'[i - 1].at <= clock' /\ points'[i - 1].sample < index
          <6>1. i - 1 \in DOMAIN points /\ points'[i - 1] = points[i - 1]
            BY <2>4, <4>2, <5>2
          <6>2. /\ points[i - 1].at \in Nat
                /\ points[i - 1].at <= clock /\ points[i - 1].sample < index
            BY <1>9, <6>1
          <6> QED BY <1>6, <6>1, <6>2
        <5>3. clock' >= Target(index)
          BY <1>6, <1>7
        <5> QED BY <5>1, <5>2, <5>3
      <4> QED BY <2>4, <3>1, <4>1, <4>2
    <3>2. params' = params
      BY <1>1
    <3> QED BY <2>4, <3>1, <3>2 DEF OnSchedule, Target
  <2>7. TrendHonest'
    BY <1>1, <1>2, <1>12, <2>5, <2>6 DEF TrendHonest, TargetsInWindow, GapsReported, Target
  <2>8. InOrder'
    <3>1. ASSUME NEW i \in 1 .. Len(points) + 1
          PROVE  points'[i].at <= clock' /\ points'[i].sample <= index
      <4>1. CASE i \in 1 .. Len(points)
        <5>1. /\ points'[i] = points[i] /\ points[i].at \in Nat /\ points[i].sample \in Nat
              /\ points[i].at <= clock /\ points[i].sample < index
          BY <1>9, <2>4, <4>1
        <5> QED BY <1>4, <1>6, <5>1
      <4>2. CASE i = Len(points) + 1
        <5>1. points'[i].at = clock' /\ points'[i].sample = index
          BY <2>2, <2>4, <4>2
        <5> QED BY <1>4, <1>6, <5>1
      <4> QED BY <2>4, <3>1, <4>1, <4>2
    <3> QED BY <1>1, <2>4, <3>1 DEF InOrder
  <2>9. Counted'
    <3>1. Len(points) <= index /\ (Len(points) < index => "no value" \in remarks)
      BY <1>1 DEF TrendInv, Counted
    <3>2. /\ Len(points) + 1 <= index + 1
          /\ Len(points) + 1 < index + 1 => Len(points) < index
      <4>1. index \in Nat /\ Len(points) \in Nat
        BY <1>4, <2>4
      <4> QED BY <3>1, <4>1, Shifts
    <3>3. params' = params /\ index' = index /\ remarks' = remarks
      BY <1>1, <1>11
    <3> QED BY <1>1, <1>6, <2>4, <3>1, <3>2, <3>3 DEF Counted
  <2> QED BY <1>8, <1>12, <2>7, <2>8, <2>9 DEF TrendInv
<1> QED
  BY <1>10, <1>11 DEF Measure

LEMMA TakenTrend == TrendTaken => TrendInv'
PROOF
<1>1. TrendIdle => TrendInv
  BY IdleTrend
<1>2. TrendIdle' => TrendInv'
  BY <1>1, PTL
<1>3. TrendTaken => TrendIdle'
  BY DEF TrendTaken, TrendIdle
<1> QED
  BY <1>2, <1>3

LEMMA TrendMoves ==
    ASSUME TrendInv, LeftBehind \/ AllTaken \/ TimeIsUp \/ Overrun \/ SleepToTarget
    PROVE  TrendInv'
PROOF
<1>1. TrendTypeOK /\ index \in Nat /\ clock \in Nat
  <2>1. TrendTypeOK
    BY DEF TrendInv, TrendHonest
  <2>2. clock \in 0..(Larger(MaxWindow, TrendMin) + MaxOversleep + MaxMeasure)
    BY <2>1 DEF TrendTypeOK
  <2>3. clock \in Nat
    BY <2>2, TrendNumbers
  <2> QED BY <2>1, <2>3 DEF TrendTypeOK
<1>2. CASE LeftBehind
  BY <1>2, TrendConcludes DEF LeftBehind, CutOff
<1>3. CASE AllTaken
  <2>1. WindowResolved /\ params.samples \in Nat
    BY <1>3, ResolvedWindow DEF AllTaken, TrendInv, SampleDue
  <2>2. ~(index + 1 < params.samples)
    BY <1>1, <1>3, <2>1 DEF AllTaken
  <2> QED BY <1>3, <2>2, TrendConcludes DEF AllTaken
<1>4. CASE TimeIsUp
  BY <1>4, TrendConcludes DEF TimeIsUp, CutOff
<1>5. CASE Overrun
  <2>1. /\ sstep = "measured" /\ index + 1 < params.samples /\ clock < params.window
        /\ clock >= Target(index + 1) /\ remarks' = remarks \cup {"overrun"}
        /\ index' = index + 1 /\ sstep' = "begin" /\ clock' = clock
        /\ UNCHANGED <<metric, params, starts, points, trend>>
    BY <1>5 DEF Overrun
  <2>2. params.window \in Nat
    BY <2>1, ResolvedWindow DEF TrendInv, SampleDue
  <2>3. clock' >= clock /\ clock' <= params.window + MaxOversleep /\ clock' \in Nat
    BY <1>1, <2>1, <2>2, TrendNumbers
  <2> QED BY <2>1, <2>3, NextSample
<1>6. CASE SleepToTarget
  <2>1. /\ sstep = "measured" /\ index + 1 < params.samples
        /\ clock < Target(index + 1) /\ remarks' = remarks
        /\ index' = index + 1 /\ sstep' = "begin"
        /\ UNCHANGED <<metric, params, starts, points, trend>>
    BY <1>6 DEF SleepToTarget
  <2>2. PICK late \in 0..MaxOversleep : clock' = Target(index + 1) + late
    BY <1>6 DEF SleepToTarget
  <2>3. WindowResolved /\ params.window \in Nat /\ params.samples \in Nat
    BY <2>1, ResolvedWindow DEF TrendInv, SampleDue
  <2>4. Target(index + 1) \in Nat /\ Target(index + 1) <= params.window
    <3>1. index + 1 \in Nat /\ index + 1 <= params.samples - 1
      BY <1>1, <2>1, <2>3
    <3> QED BY <2>3, <3>1, TargetsFit
  <2>5. late \in Nat /\ late <= MaxOversleep
    BY TrendNumbers
  <2>6. /\ clock' \in Nat /\ clock' >= clock /\ clock' >= Target(index + 1)
        /\ clock' <= params.window + MaxOversleep
        /\ clock' <= Target(index + 1) + MaxOversleep
    BY <1>1, <2>1, <2>2, <2>3, <2>4, <2>5, TrendNumbers
  <2> QED BY <2>1, <2>6, NextSample
<1> QED
  BY <1>2, <1>3, <1>4, <1>5, <1>6

\* Whatever the measurements take and however late the sleeps end, measurements
\* start on the absolute schedule or as late as the one before made them, none
\* starts at or after the end of the window but the one due there, and every gap
\* in the series is a limitation of the answer (collect_trend_samples,
\* resolve_trend_params).
THEOREM TrendIsHonest == TrendSpec => []TrendHonest
PROOF
<1>1. TrendIdle => TrendInv
  BY IdleTrend
<1>2. TrendInv /\ [TrendNext]_trendVars => TrendInv'
  <2> SUFFICES ASSUME TrendInv, [TrendNext]_trendVars PROVE TrendInv'
    OBVIOUS
  <2>1. CASE StartTrend
    BY <2>1, TrendStarts
  <2>2. CASE Measure
    BY <2>2, Measures
  <2>3. CASE LeftBehind \/ AllTaken \/ TimeIsUp \/ Overrun \/ SleepToTarget
    BY <2>3, TrendMoves
  <2>4. CASE TrendTaken
    BY <2>4, TakenTrend
  <2>5. CASE UNCHANGED trendVars
    <3>1. UNCHANGED <<metric, params, index, clock, starts, points, remarks, sstep, trend>>
      BY <2>5 DEF trendVars
    <3>2. TrendTypeOK'
      BY <3>1 DEF TrendInv, TrendHonest, TrendTypeOK
    <3>3. TargetsInWindow' /\ StartedInTime' /\ OnSchedule' /\ GapsReported'
      BY <3>1 DEF TrendInv, TrendHonest, TargetsInWindow, StartedInTime, OnSchedule,
         GapsReported, Target
    <3>4. TrendHonest'
      BY <3>1, <3>2, <3>3 DEF TrendInv, TrendHonest
    <3>5. SampleDue' /\ InOrder' /\ Counted' /\ Followed'
      BY <3>1 DEF TrendInv, SampleDue, InOrder, Counted, Followed, WindowResolved, Target
    <3> QED BY <3>4, <3>5 DEF TrendInv
  <2> QED
    BY <2>1, <2>2, <2>3, <2>4, <2>5 DEF TrendNext
<1>3. TrendInv => TrendHonest
  BY DEF TrendInv
<1> QED
  BY <1>1, <1>2, <1>3, PTL DEF TrendSpec

-----------------------------------------------------------------------------
(* NetworkDiagnosis.  An adapter keeps its fields (Shaped); which step a   *)
(* call is at says what is known so far (NetworkSteps, Unprobed); the time *)
(* probed is that of the resolver and of the echoes pinged                   *)
(* (EchoesWaitedFor); and what is concluded rests on a gateway that was    *)
(* probed with every echo, or is listed as unavailable (Concluding).       *)

AdapterFields == {"name", "up", "gateway", "wifi", "signal", "speed", "loss", "latency"}
Shaped ==
    /\ DOMAIN adapters \subseteq Nat
    /\ \A i \in DOMAIN adapters : DOMAIN adapters[i] = AdapterFields

NetworkSteps ==
    /\ nettool = "none" <=> netstep = "idle"
    /\ netstep \in {"resolve", "open", "ping"} =>
          nettool = "network_diagnose" /\ ProbeTargets(adapters) # {}
    /\ netstep \in {"connections", "ports"} => nettool = "network_snapshot"
    /\ netstep # "answered" => netsaid = NotSaid
    /\ netstep \in {"idle", "interfaces"} => unavailable = {}
    /\ icmp <=> netstep = "ping"

\* What is not known of the gateway before its probe.
Unprobed ==
    /\ netstep \in {"idle", "interfaces", "connections", "ports", "radio", "resolve"} =>
          resolution = "not_probed" /\ echoes = <<>> /\ probed = 0
    /\ netstep = "open" => resolution # "not_probed" /\ echoes = <<>>
    /\ netstep = "ping" => resolution # "not_probed"
    /\ netstep \notin {"conclude", "answered"} =>
          \A i \in DOMAIN adapters : adapters[i].loss = {}

EchoesWaitedFor ==
    /\ echoes \in Seq(RoundTrips \cup {Lost})
    /\ Len(echoes) <= Pings
    /\ probed \in Nat
    /\ probed <= ResolveTimeout + Len(echoes) * PingTimeout

\* What a diagnosis is drawn from: a gateway that was resolved around and probed with
\* every echo, or is listed as unavailable; or no gateway, and nothing pinged.
Concluding ==
    netstep = "conclude" /\ nettool = "network_diagnose" =>
        IF ProbeTargets(adapters) = {} THEN resolution = "not_probed" /\ echoes = <<>>
        ELSE /\ resolution # "not_probed"
             /\ Len(echoes) = Pings \/ "gateway" \in unavailable

NetworkInv ==
    /\ NetworkSound
    /\ Shaped
    /\ NetworkSteps
    /\ Unprobed
    /\ EchoesWaitedFor
    /\ Concluding

\* A set of natural numbers that is not empty has a least one, and Min is in it.
LEMMA LeastNatural ==
    ASSUME NEW T, T \subseteq Nat, T # {}
    PROVE  \E x \in T : \A y \in T : x <= y
PROOF
<1> DEFINE R == {ss \in Nat \X Nat : ss[1] < ss[2]}
<1>1. IsWellFoundedOn(R, Nat)
  BY NatLessThanWellFounded, Zenon DEF OpToRel
<1>2. \A x, y \in Nat : y < x => <<y, x>> \in R
  OBVIOUS
<1> HIDE DEF R
<1>3. PICK x \in T : \A y \in T : ~ (<<y, x>> \in R)
  BY <1>1, WFMin
<1>4. \A y \in T : ~ (y < x)
  BY <1>2, <1>3
<1> QED
  BY <1>4

LEMMA MinIsIn ==
    ASSUME NEW T, T \subseteq Nat, T # {}
    PROVE  Min(T) \in T /\ \A y \in T : Min(T) <= y
  BY LeastNatural DEF Min

LEMMA NetworkNumbers ==
    /\ Pings \in 1..5 /\ Pings \in Nat /\ PingTimeout \in Nat /\ ResolveTimeout \in Nat
    /\ ResolveTimeout + Pings * PingTimeout <= NetworkBudget /\ NetworkBudget \in Nat
  BY NetworkAssumption

\* One echo that is lost is a fifth of all at least; all that are lost are no more than all.
LEMMA Share ==
    ASSUME NEW n \in 1..5, NEW k \in 0..n
    PROVE  /\ ((n - k) * 100) \div n \in 0..100
           /\ k < n => ((n - k) * 100) \div n >= 20
PROOF
<1>1. CASE n = 1
  BY <1>1
<1>2. CASE n = 2
  BY <1>2
<1>3. CASE n = 3
  BY <1>3
<1>4. CASE n = 4
  BY <1>4
<1>5. CASE n = 5
  BY <1>5
<1> QED
  BY <1>1, <1>2, <1>3, <1>4, <1>5

LEMMA LossOfEchoes ==
    ASSUME NEW pinged \in Seq(RoundTrips \cup {Lost}), Len(pinged) \in 1..5
    PROVE  /\ LossPercent(pinged) \in 0..100
           /\ Lost \in Range(pinged) => LossPercent(pinged) >= 20
PROOF
<1> DEFINE all == DOMAIN pinged
<1>1. all = 1..Len(pinged) /\ IsFiniteSet(all) /\ Cardinality(all) = Len(pinged)
  <2>1. all = 1..Len(pinged)
    OBVIOUS
  <2>2. IsFiniteSet(1..Len(pinged))
        /\ Cardinality(1..Len(pinged)) = IF 1 > Len(pinged) THEN 0 ELSE Len(pinged) - 1 + 1
    BY FS_Interval, 1 \in Int, Len(pinged) \in Int, Zenon
  <2> QED
    BY <2>1, <2>2
<1>2. Answered(pinged) \subseteq all
  BY DEF Answered
<1>3. IsFiniteSet(Answered(pinged)) /\ Cardinality(Answered(pinged)) <= Len(pinged)
  BY <1>1, <1>2, FS_Subset, Zenon
<1>4. Cardinality(Answered(pinged)) \in 0..Len(pinged)
  BY <1>3, FS_CardinalityType
<1>5. Lost \in Range(pinged) => Cardinality(Answered(pinged)) < Len(pinged)
  <2>1. SUFFICES ASSUME Lost \in Range(pinged)
                 PROVE  Cardinality(Answered(pinged)) < Len(pinged)
    OBVIOUS
  <2>2. PICK i \in all : pinged[i] = Lost
    BY <2>1 DEF Range
  <2>3. Answered(pinged) # all
    BY <2>2 DEF Answered
  <2>4. Cardinality(Answered(pinged)) # Cardinality(all)
    BY <1>1, <1>2, <2>3, FS_Subset, Zenon
  <2> QED
    BY <1>1, <1>4, <2>4
<1>6. LossPercent(pinged) = ((Len(pinged) - Cardinality(Answered(pinged))) * 100) \div Len(pinged)
  BY DEF LossPercent
<1> QED
  BY <1>4, <1>5, <1>6, Share

\* A step that says nothing cannot make what was said untrue.
LEMMA NothingSaidOfNetwork ==
    ASSUME netsaid'.kind = "none"
    PROVE  OutageIsConfirmed' /\ OutageIsTold' /\ FullMeansRead'
  BY DEF OutageIsConfirmed, OutageIsTold, FullMeansRead, DiagnosisSaid

\* A sequence that is no longer than n is one of those SeqOf enumerates.
LEMMA ShortSequence ==
    ASSUME NEW S, NEW n \in Nat, NEW s \in Seq(S), Len(s) <= n
    PROVE  s \in SeqOf(S, n)
PROOF
<1>1. Len(s) \in 0..n /\ s \in [1..Len(s) -> S]
  OBVIOUS
<1>2. [1..Len(s) -> S] \in {[1..m -> S] : m \in 0..n}
  BY <1>1
<1> QED
  BY <1>1, <1>2 DEF SeqOf

LEMMA NetworkStart == NetworkIdle => NetworkInv
PROOF
<1> SUFFICES ASSUME NetworkIdle PROVE NetworkInv
  OBVIOUS
<1>1. /\ nettool = "none" /\ netstep = "idle" /\ adapters = <<>> /\ unavailable = {}
      /\ resolution = "not_probed" /\ echoes = <<>> /\ icmp = FALSE /\ probed = 0
      /\ netsaid = NotSaid
  BY DEF NetworkIdle
<1>2. DOMAIN adapters = {} /\ Len(echoes) = 0 /\ echoes \in Seq(RoundTrips \cup {Lost})
  BY <1>1
<1>3. echoes \in SeqOf(RoundTrips \cup {Lost}, Pings)
  BY <1>2, ShortSequence, NetworkNumbers, Len(echoes) <= Pings
<1>4. NetworkTypeOK
  BY <1>1, <1>2, <1>3 DEF NetworkTypeOK, NetworkReads
<1>5. OutageIsConfirmed /\ OutageIsTold /\ FullMeansRead
  BY <1>1 DEF OutageIsConfirmed, OutageIsTold, FullMeansRead, DiagnosisSaid, NotSaid
<1>6. ReadingsAreItsOwn
  BY <1>2 DEF ReadingsAreItsOwn, Range
<1>7. ProbesWithinBudget
  BY <1>1, NetworkNumbers DEF ProbesWithinBudget
<1>8. Shaped /\ NetworkSteps /\ Unprobed
  BY <1>1, <1>2 DEF Shaped, NetworkSteps, Unprobed
<1>9. EchoesWaitedFor
  <2>1. ResolveTimeout + 0 * PingTimeout \in Nat
    BY NetworkNumbers
  <2> QED
    BY <1>1, <1>2, <2>1, NetworkNumbers DEF EchoesWaitedFor
<1>10. Concluding
  BY <1>1 DEF Concluding
<1> QED
  BY <1>4, <1>5, <1>6, <1>7, <1>8, <1>9, <1>10 DEF NetworkInv, NetworkSound

\* As many echoes as there may be, waited for as long as may be, fit the budget.
LEMMA TimeFits ==
    ASSUME NEW p \in Nat, NEW n \in Nat, n <= Pings, p <= ResolveTimeout + n * PingTimeout
    PROVE  p <= NetworkBudget
PROOF
<1>1. n * PingTimeout <= Pings * PingTimeout
  BY NetworkNumbers
<1>2. n * PingTimeout \in Nat /\ Pings * PingTimeout \in Nat
  BY NetworkNumbers
<1> QED
  BY <1>1, <1>2, NetworkNumbers

\* A step that says nothing and leaves no adapter measured keeps what is about answers.
LEMMA Quietly ==
    ASSUME netsaid' = NotSaid, netstep' # "answered",
           \A i \in DOMAIN adapters' : adapters'[i].loss = {},
           Shaped', NetworkSteps', Unprobed', EchoesWaitedFor', Concluding',
           nettool' \in {"none", "network_diagnose", "network_snapshot"},
           netstep' \in {"idle", "interfaces", "connections", "ports", "radio", "resolve",
                          "open", "ping", "conclude", "answered"},
           unavailable' \subseteq NetworkReads,
           resolution' \in {"not_probed", "ok", "failed", "unconfirmed"}, icmp' \in BOOLEAN
    PROVE  NetworkInv'
PROOF
<1>1. echoes' \in Seq(RoundTrips \cup {Lost}) /\ Len(echoes') <= Pings /\ probed' \in Nat
      /\ probed' <= ResolveTimeout + Len(echoes') * PingTimeout
  BY DEF EchoesWaitedFor
<1>2. echoes' \in SeqOf(RoundTrips \cup {Lost}, Pings)
  BY <1>1, ShortSequence, NetworkNumbers
<1>3. probed' <= NetworkBudget
  BY <1>1, TimeFits, Len(echoes') \in Nat
<1>4. NetworkTypeOK'
  BY <1>1, <1>2 DEF NetworkTypeOK
<1>5. OutageIsConfirmed' /\ OutageIsTold' /\ FullMeansRead'
  BY NothingSaidOfNetwork DEF NotSaid
<1>6. ReadingsAreItsOwn'
  BY DEF ReadingsAreItsOwn, Range
<1>7. ProbesWithinBudget'
  BY <1>3 DEF ProbesWithinBudget
<1> QED
  BY <1>4, <1>5, <1>6, <1>7 DEF NetworkInv, NetworkSound

LEMMA NetworkStarts == NetworkInv /\ StartNetwork => NetworkInv'
PROOF
<1> SUFFICES ASSUME NetworkInv, StartNetwork PROVE NetworkInv'
  OBVIOUS
<1>1. /\ netstep = "idle" /\ netstep' = "interfaces"
      /\ nettool' \in {"network_diagnose", "network_snapshot"}
      /\ UNCHANGED <<adapters, unavailable, resolution, echoes, icmp, probed, netsaid>>
  BY DEF StartNetwork
<1>2. NetworkTypeOK /\ Shaped /\ NetworkSteps /\ Unprobed /\ EchoesWaitedFor
  BY DEF NetworkInv, NetworkSound
<1>3. netsaid' = NotSaid /\ \A i \in DOMAIN adapters' : adapters'[i].loss = {}
  BY <1>1, <1>2 DEF NetworkSteps, Unprobed
<1>4. Shaped' /\ Unprobed' /\ EchoesWaitedFor' /\ Concluding'
  BY <1>1, <1>2 DEF Shaped, Unprobed, EchoesWaitedFor, Concluding
<1>5. NetworkSteps'
  BY <1>1, <1>2 DEF NetworkSteps
<1> QED
  BY <1>1, <1>2, <1>3, <1>4, <1>5, Quietly DEF NetworkTypeOK

LEMMA InterfacesRead == NetworkInv /\ ReadInterfaces => NetworkInv'
PROOF
<1> SUFFICES ASSUME NetworkInv, ReadInterfaces PROVE NetworkInv'
  OBVIOUS
<1>1. /\ netstep = "interfaces"
      /\ netstep' = IF nettool = "network_diagnose" THEN "radio" ELSE "connections"
      /\ UNCHANGED <<nettool, unavailable, resolution, echoes, icmp, probed, netsaid>>
  BY DEF ReadInterfaces
<1>2. NetworkTypeOK /\ Shaped /\ NetworkSteps /\ Unprobed /\ EchoesWaitedFor
  BY DEF NetworkInv, NetworkSound
<1>3. PICK list \in AdapterLists :
        adapters' = [i \in {j \in DOMAIN list : ~list[j].loopback} |-> Unmeasured(list[i])]
  BY DEF ReadInterfaces
<1>4. \A i \in DOMAIN adapters' : adapters'[i] = Unmeasured(list[i])
  BY <1>3
<1>5. \A a : Unmeasured(a).loss = {} /\ DOMAIN Unmeasured(a) = AdapterFields
  BY DEF Unmeasured, AdapterFields
<1>6. DOMAIN adapters' \subseteq Nat
  BY <1>3, NetworkAssumption
<1>7. netsaid' = NotSaid /\ \A i \in DOMAIN adapters' : adapters'[i].loss = {}
  BY <1>1, <1>2, <1>4, <1>5 DEF NetworkSteps
<1>8. Shaped'
  BY <1>4, <1>5, <1>6 DEF Shaped
<1>9. Unprobed' /\ EchoesWaitedFor' /\ Concluding'
  BY <1>1, <1>2, <1>7 DEF Unprobed, EchoesWaitedFor, Concluding
<1>10. NetworkSteps'
  BY <1>1, <1>2 DEF NetworkSteps, NetworkTypeOK
<1> QED
  BY <1>1, <1>2, <1>7, <1>8, <1>9, <1>10, Quietly DEF NetworkTypeOK

LEMMA InterfacesFail == NetworkInv /\ ReadInterfacesFails => NetworkInv'
PROOF
<1> SUFFICES ASSUME NetworkInv, ReadInterfacesFails PROVE NetworkInv'
  OBVIOUS
<1>1. /\ netstep = "interfaces" /\ unavailable' = {"interfaces"}
      /\ UNCHANGED <<nettool, adapters, resolution, echoes, icmp, probed>>
  BY DEF ReadInterfacesFails
<1>2. NetworkTypeOK /\ Shaped /\ NetworkSteps /\ Unprobed /\ EchoesWaitedFor
      /\ ProbesWithinBudget
  BY DEF NetworkInv, NetworkSound
<1>3. Shaped' /\ EchoesWaitedFor'
  BY <1>1, <1>2 DEF Shaped, EchoesWaitedFor
<1>4. \A i \in DOMAIN adapters' : adapters'[i].loss = {}
  BY <1>1, <1>2 DEF Unprobed
<1>5. CASE nettool = "network_snapshot"
  <2>1. netstep' = "connections" /\ UNCHANGED netsaid
    BY <1>5 DEF ReadInterfacesFails
  <2>2. Unprobed' /\ Concluding' /\ NetworkSteps'
    BY <1>1, <1>2, <1>5, <2>1 DEF Unprobed, Concluding, NetworkSteps
  <2>3. netsaid' = NotSaid
    BY <1>1, <1>2, <2>1 DEF NetworkSteps
  <2>4. unavailable' \subseteq NetworkReads
    BY <1>1 DEF NetworkReads
  <2> QED
    BY <1>1, <1>2, <1>3, <1>4, <2>1, <2>2, <2>3, <2>4, Quietly DEF NetworkTypeOK
<1>6. CASE nettool # "network_snapshot"
  <2>1. /\ netstep' = "answered"
        /\ netsaid' = [kind |-> "diagnosis", status |-> "unavailable", findings |-> {},
                       completeness |-> "limited", external |-> "not_probed"]
    BY <1>6 DEF ReadInterfacesFails
  <2>2. /\ netsaid'.kind = "diagnosis" /\ netsaid'.status = "unavailable"
        /\ netsaid'.findings = {} /\ netsaid'.completeness = "limited"
    BY <2>1
  <2>3. OutageIsConfirmed' /\ OutageIsTold' /\ FullMeansRead'
    BY <2>2 DEF OutageIsConfirmed, OutageIsTold, FullMeansRead, Ids
  <2>4. Unprobed' /\ Concluding' /\ NetworkSteps'
    BY <1>1, <1>2, <2>1 DEF Unprobed, Concluding, NetworkSteps
  <2>5. NetworkTypeOK'
    BY <1>1, <1>2, <2>1 DEF NetworkTypeOK, NetworkReads
  <2>6. ReadingsAreItsOwn'
    BY <1>4 DEF ReadingsAreItsOwn, Range
  <2>7. ProbesWithinBudget'
    BY <1>1, <1>2 DEF ProbesWithinBudget, NetworkSteps
  <2> QED
    BY <1>3, <2>3, <2>4, <2>5, <2>6, <2>7 DEF NetworkInv, NetworkSound
<1> QED
  BY <1>5, <1>6

LEMMA TablesRead == NetworkInv /\ SnapshotTables => NetworkInv'
PROOF
<1> SUFFICES ASSUME NetworkInv, SnapshotTables PROVE NetworkInv'
  OBVIOUS
<1>1. /\ \/ netstep = "connections" /\ netstep' = "ports"
         \/ netstep = "ports" /\ netstep' = "radio"
      /\ unavailable' \subseteq unavailable \cup {"tcp_connections", "listening_ports"}
      /\ UNCHANGED <<nettool, adapters, resolution, echoes, icmp, probed, netsaid>>
  BY DEF SnapshotTables, ReadTable
<1>2. NetworkTypeOK /\ Shaped /\ NetworkSteps /\ Unprobed /\ EchoesWaitedFor
  BY DEF NetworkInv, NetworkSound
<1>3. netsaid' = NotSaid /\ \A i \in DOMAIN adapters' : adapters'[i].loss = {}
  BY <1>1, <1>2 DEF NetworkSteps, Unprobed
<1>4. Shaped' /\ Unprobed' /\ EchoesWaitedFor' /\ Concluding'
  BY <1>1, <1>2 DEF Shaped, Unprobed, EchoesWaitedFor, Concluding
<1>5. NetworkSteps'
  BY <1>1, <1>2 DEF NetworkSteps
<1>6. unavailable' \subseteq NetworkReads
  BY <1>1, <1>2 DEF NetworkTypeOK, NetworkReads
<1> QED
  BY <1>1, <1>2, <1>3, <1>4, <1>5, <1>6, Quietly DEF NetworkTypeOK

\* What the Wi-Fi service says of an adapter leaves everything else of it as it is.
LEMMA AttachedStays ==
    ASSUME NEW a, DOMAIN a = AdapterFields, NEW radio
    PROVE  /\ DOMAIN AttachWifi(a, radio) = AdapterFields
           /\ AttachWifi(a, radio).loss = a.loss
           /\ AttachWifi(a, radio).up = a.up
           /\ AttachWifi(a, radio).gateway = a.gateway
  BY DEF AttachWifi, AdapterFields

\* The adapters that may be probed are the same as long as none goes up or down and none
\* gets another gateway.
LEMMA SameTargets ==
    ASSUME NEW old, NEW new, DOMAIN new = DOMAIN old,
           \A i \in DOMAIN old : new[i].up = old[i].up /\ new[i].gateway = old[i].gateway
    PROVE  ProbeTargets(new) = ProbeTargets(old)
  BY DEF ProbeTargets

LEMMA RadioRead == NetworkInv /\ ReadRadio => NetworkInv'
PROOF
<1> SUFFICES ASSUME NetworkInv, ReadRadio PROVE NetworkInv'
  OBVIOUS
<1>1. /\ netstep = "radio"
      /\ netstep' = IF nettool = "network_diagnose" /\ ProbeTargets(adapters) # {}
                    THEN "resolve" ELSE "conclude"
      /\ UNCHANGED <<nettool, unavailable, resolution, echoes, icmp, probed, netsaid>>
  BY DEF ReadRadio
<1>2. NetworkTypeOK /\ Shaped /\ NetworkSteps /\ Unprobed /\ EchoesWaitedFor
  BY DEF NetworkInv, NetworkSound
<1>3. PICK radio :
        adapters' = IF nettool = "network_snapshot" THEN adapters
                    ELSE [i \in DOMAIN adapters |-> AttachWifi(adapters[i], radio)]
  BY DEF ReadRadio
<1>4. /\ DOMAIN adapters' = DOMAIN adapters
      /\ \A i \in DOMAIN adapters :
           /\ DOMAIN adapters'[i] = AdapterFields
           /\ adapters'[i].loss = {}
           /\ adapters'[i].up = adapters[i].up
           /\ adapters'[i].gateway = adapters[i].gateway
  <2>1. \A i \in DOMAIN adapters :
           /\ DOMAIN adapters[i] = AdapterFields
           /\ adapters[i].loss = {}
    BY <1>1, <1>2 DEF Shaped, Unprobed
  <2>2. CASE nettool = "network_snapshot"
    BY <1>3, <2>1, <2>2
  <2>3. CASE nettool # "network_snapshot"
    <3>1. \A i \in DOMAIN adapters : adapters'[i] = AttachWifi(adapters[i], radio)
      BY <1>3, <2>3
    <3>2. DOMAIN adapters' = DOMAIN adapters
      BY <1>3, <2>3
    <3> QED
      BY <2>1, <3>1, <3>2, AttachedStays
  <2> QED
    BY <2>2, <2>3
<1>5. ProbeTargets(adapters') = ProbeTargets(adapters)
  BY <1>4, SameTargets
<1>6. netsaid' = NotSaid /\ \A i \in DOMAIN adapters' : adapters'[i].loss = {}
  BY <1>1, <1>2, <1>4 DEF NetworkSteps
<1>7. Shaped'
  BY <1>2, <1>4 DEF Shaped
<1>8. Unprobed' /\ EchoesWaitedFor'
  BY <1>1, <1>2, <1>6 DEF Unprobed, EchoesWaitedFor
<1>9. ProbeTargets(adapters)' = ProbeTargets(adapters')
  OBVIOUS
<1>10. NetworkSteps' /\ Concluding'
  BY <1>1, <1>2, <1>5, <1>9 DEF NetworkSteps, Concluding, NetworkTypeOK, Unprobed
<1> QED
  BY <1>1, <1>2, <1>6, <1>7, <1>8, <1>10, Quietly DEF NetworkTypeOK

LEMMA Resolving == NetworkInv /\ ExternalConnectivity => NetworkInv'
PROOF
<1> SUFFICES ASSUME NetworkInv, ExternalConnectivity PROVE NetworkInv'
  OBVIOUS
<1>1. PICK outcome \in {"ok", "failed", "unconfirmed"} :
        \E t \in {0, ResolveTimeout} : resolution' = outcome /\ probed' = probed + t
  BY DEF ExternalConnectivity
<1>2. PICK t \in {0, ResolveTimeout} : probed' = probed + t
  BY <1>1
<1>3. /\ netstep = "resolve" /\ netstep' = "open"
      /\ UNCHANGED <<nettool, adapters, unavailable, echoes, icmp, netsaid>>
  BY DEF ExternalConnectivity
<1>4. NetworkTypeOK /\ Shaped /\ NetworkSteps /\ Unprobed /\ EchoesWaitedFor
  BY DEF NetworkInv, NetworkSound
<1>5. netsaid' = NotSaid /\ \A i \in DOMAIN adapters' : adapters'[i].loss = {}
  BY <1>3, <1>4 DEF NetworkSteps, Unprobed
<1>6. EchoesWaitedFor'
  <2>1. probed = 0 /\ echoes = <<>> /\ Len(echoes) = 0
    BY <1>3, <1>4 DEF Unprobed
  <2>2. probed' \in Nat /\ probed' <= ResolveTimeout
    BY <1>2, <2>1, NetworkNumbers
  <2>3. ResolveTimeout + 0 * PingTimeout = ResolveTimeout
    BY NetworkNumbers
  <2> QED
    BY <1>3, <1>4, <2>1, <2>2, <2>3 DEF EchoesWaitedFor
<1>7. ProbeTargets(adapters)' = ProbeTargets(adapters)
  BY <1>3
<1>8. Shaped' /\ Unprobed' /\ Concluding' /\ NetworkSteps'
  BY <1>1, <1>3, <1>4, <1>5, <1>7 DEF Shaped, Unprobed, Concluding, NetworkSteps
<1> QED
  BY <1>1, <1>3, <1>4, <1>5, <1>6, <1>8, Quietly DEF NetworkTypeOK

LEMMA IcmpOpens == NetworkInv /\ OpenIcmp => NetworkInv'
PROOF
<1> SUFFICES ASSUME NetworkInv, OpenIcmp PROVE NetworkInv'
  OBVIOUS
<1>1. /\ netstep = "open" /\ netstep' = "ping" /\ icmp'
      /\ UNCHANGED <<nettool, adapters, unavailable, resolution, echoes, probed, netsaid>>
  BY DEF OpenIcmp
<1>2. NetworkTypeOK /\ Shaped /\ NetworkSteps /\ Unprobed /\ EchoesWaitedFor
  BY DEF NetworkInv, NetworkSound
<1>3. netsaid' = NotSaid /\ \A i \in DOMAIN adapters' : adapters'[i].loss = {}
  BY <1>1, <1>2 DEF NetworkSteps, Unprobed
<1>4. ProbeTargets(adapters)' = ProbeTargets(adapters)
  BY <1>1
<1>5. Shaped' /\ Unprobed' /\ EchoesWaitedFor' /\ Concluding'
  BY <1>1, <1>2, <1>3 DEF Shaped, Unprobed, EchoesWaitedFor, Concluding
<1>6. NetworkSteps'
  BY <1>1, <1>2, <1>4 DEF NetworkSteps
<1>7. icmp' \in BOOLEAN
  BY DEF OpenIcmp
<1> QED
  BY <1>1, <1>2, <1>3, <1>5, <1>6, <1>7, Quietly DEF NetworkTypeOK

LEMMA IcmpFails == NetworkInv /\ OpenIcmpFails => NetworkInv'
PROOF
<1> SUFFICES ASSUME NetworkInv, OpenIcmpFails PROVE NetworkInv'
  OBVIOUS
<1>1. /\ netstep = "open" /\ netstep' = "conclude"
      /\ unavailable' = unavailable \cup {"gateway"}
      /\ UNCHANGED <<nettool, adapters, resolution, echoes, icmp, probed, netsaid>>
  BY DEF OpenIcmpFails
<1>2. NetworkTypeOK /\ Shaped /\ NetworkSteps /\ Unprobed /\ EchoesWaitedFor
  BY DEF NetworkInv, NetworkSound
<1>3. netsaid' = NotSaid /\ \A i \in DOMAIN adapters' : adapters'[i].loss = {}
  BY <1>1, <1>2 DEF NetworkSteps, Unprobed
<1>4. ProbeTargets(adapters)' = ProbeTargets(adapters)
  BY <1>1
<1>5. Shaped' /\ Unprobed' /\ EchoesWaitedFor'
  BY <1>1, <1>2, <1>3 DEF Shaped, Unprobed, EchoesWaitedFor
<1>6. NetworkSteps' /\ Concluding'
  BY <1>1, <1>2, <1>4 DEF NetworkSteps, Concluding, Unprobed
<1>7. unavailable' \subseteq NetworkReads
  BY <1>1, <1>2 DEF NetworkTypeOK, NetworkReads
<1> QED
  BY <1>1, <1>2, <1>3, <1>5, <1>6, <1>7, Quietly DEF NetworkTypeOK

\* One more echo, waited for no longer than an echo is.
LEMMA OneMoreEcho ==
    ASSUME NEW p \in Nat, NEW n \in Nat, NEW t \in {0, PingTimeout},
           p <= ResolveTimeout + n * PingTimeout
    PROVE  p + t \in Nat /\ p + t <= ResolveTimeout + (n + 1) * PingTimeout
PROOF
<1>1. (n + 1) * PingTimeout = n * PingTimeout + PingTimeout /\ n * PingTimeout \in Nat
  BY NetworkNumbers
<1> QED
  BY <1>1, NetworkNumbers

LEMMA Pinging == NetworkInv /\ Ping => NetworkInv'
PROOF
<1> SUFFICES ASSUME NetworkInv, Ping PROVE NetworkInv'
  OBVIOUS
<1>1. PICK rtt \in RoundTrips \cup {Lost} :
        \E t \in {0, PingTimeout} : echoes' = Append(echoes, rtt) /\ probed' = probed + t
  BY DEF Ping
<1>2. PICK t \in {0, PingTimeout} : probed' = probed + t
  BY <1>1
<1>3. /\ netstep = "ping" /\ Len(echoes) < Pings
      /\ UNCHANGED <<nettool, netstep, adapters, unavailable, resolution, icmp, netsaid>>
  BY DEF Ping
<1>4. NetworkTypeOK /\ Shaped /\ NetworkSteps /\ Unprobed /\ EchoesWaitedFor
  BY DEF NetworkInv, NetworkSound
<1>5. netsaid' = NotSaid /\ \A i \in DOMAIN adapters' : adapters'[i].loss = {}
  BY <1>3, <1>4 DEF NetworkSteps, Unprobed
<1>6. EchoesWaitedFor'
  <2>1. echoes \in Seq(RoundTrips \cup {Lost}) /\ Len(echoes) \in Nat
        /\ probed \in Nat /\ probed <= ResolveTimeout + Len(echoes) * PingTimeout
    BY <1>4 DEF EchoesWaitedFor
  <2>2. echoes' \in Seq(RoundTrips \cup {Lost}) /\ Len(echoes') = Len(echoes) + 1
    BY <1>1, <2>1
  <2>3. probed' \in Nat /\ probed' <= ResolveTimeout + (Len(echoes) + 1) * PingTimeout
    BY <1>2, <2>1, OneMoreEcho
  <2>4. Len(echoes') <= Pings
    BY <1>3, <2>1, <2>2, NetworkNumbers
  <2> QED
    BY <2>2, <2>3, <2>4 DEF EchoesWaitedFor
<1>7. ProbeTargets(adapters)' = ProbeTargets(adapters)
  BY <1>3
<1>8. Shaped' /\ Unprobed' /\ Concluding' /\ NetworkSteps'
  BY <1>3, <1>4, <1>5, <1>7 DEF Shaped, Unprobed, Concluding, NetworkSteps
<1> QED
  BY <1>3, <1>4, <1>5, <1>6, <1>8, Quietly DEF NetworkTypeOK

\* What is measured of an adapter leaves the rest of it as it is.
LEMMA MeasuredStays ==
    ASSUME NEW a, DOMAIN a = AdapterFields, NEW pinged
    PROVE  /\ DOMAIN Measured(a, pinged) = AdapterFields
           /\ Measured(a, pinged).loss = {LossPercent(pinged)}
           /\ Measured(a, pinged).up = a.up
           /\ Measured(a, pinged).gateway = a.gateway
  BY DEF Measured, AdapterFields

\* The loss and the latency are put down at an adapter with the gateway that was probed.
LEMMA IcmpCloses == NetworkInv /\ CloseIcmp => NetworkInv'
PROOF
<1> SUFFICES ASSUME NetworkInv, CloseIcmp PROVE NetworkInv'
  OBVIOUS
<1> DEFINE gateway == ProbeTarget(adapters).gateway
<1> DEFINE same == {i \in DOMAIN adapters : adapters[i].gateway = gateway}
<1>1. /\ netstep = "ping" /\ netstep' = "conclude" /\ Len(echoes) = Pings /\ ~icmp'
      /\ UNCHANGED <<nettool, unavailable, resolution, echoes, probed, netsaid>>
  BY DEF CloseIcmp
<1>2. icmp' \in BOOLEAN
  BY DEF CloseIcmp
<1>3. NetworkTypeOK /\ Shaped /\ NetworkSteps /\ Unprobed /\ EchoesWaitedFor
      /\ ProbesWithinBudget
  BY DEF NetworkInv, NetworkSound
<1>4. adapters' = IF Answered(echoes) = {} THEN adapters
                  ELSE [i \in DOMAIN adapters |->
                          IF i = Min(same) THEN Measured(adapters[i], echoes)
                          ELSE adapters[i]]
  BY DEF CloseIcmp
<1>5. \A i \in DOMAIN adapters : DOMAIN adapters[i] = AdapterFields /\ adapters[i].loss = {}
  BY <1>1, <1>3 DEF Shaped, Unprobed
<1>6. DOMAIN adapters \subseteq Nat /\ ProbeTargets(adapters) # {}
      /\ ProbeTargets(adapters) \subseteq DOMAIN adapters
  BY <1>1, <1>3 DEF Shaped, NetworkSteps, ProbeTargets
<1>7. Min(ProbeTargets(adapters)) \in DOMAIN adapters
  BY <1>6, MinIsIn
<1>8. Min(same) \in same
  <2>1. Min(ProbeTargets(adapters)) \in same
    BY <1>7 DEF ProbeTarget
  <2>2. same \subseteq Nat /\ same # {}
    BY <2>1, <1>6
  <2> HIDE DEF same
  <2> QED
    BY <2>2, MinIsIn
<1>9. \A i \in same : adapters[i].gateway = gateway
  OBVIOUS
<1> HIDE DEF same, gateway
<1>10. LossPercent(echoes) \in 0..100
  BY <1>1, <1>3, NetworkNumbers, LossOfEchoes DEF EchoesWaitedFor
<1>11. /\ DOMAIN adapters' = DOMAIN adapters
       /\ \A i \in DOMAIN adapters :
            /\ DOMAIN adapters'[i] = AdapterFields
            /\ adapters'[i].up = adapters[i].up
            /\ adapters'[i].gateway = adapters[i].gateway
            /\ adapters'[i].loss \subseteq {LossPercent(echoes)}
            /\ adapters'[i].loss # {} =>
                 /\ adapters'[i].gateway = gateway
                 /\ adapters'[i].loss = {LossPercent(echoes)}
                 /\ Answered(echoes) # {}
  <2>1. CASE Answered(echoes) = {}
    BY <1>4, <1>5, <2>1
  <2>2. CASE Answered(echoes) # {}
    <3>1. DOMAIN adapters' = DOMAIN adapters
      BY <1>4, <2>2
    <3>2. \A i \in DOMAIN adapters : i # Min(same) => adapters'[i] = adapters[i]
      BY <1>4, <2>2
    <3>3. \A i \in DOMAIN adapters :
             i = Min(same) => /\ adapters'[i] = Measured(adapters[i], echoes)
                              /\ adapters[i].gateway = gateway
      BY <1>4, <1>8, <1>9, <2>2
    <3>4. ASSUME NEW i \in DOMAIN adapters, i = Min(same)
          PROVE  /\ DOMAIN adapters'[i] = AdapterFields
                 /\ adapters'[i].up = adapters[i].up
                 /\ adapters'[i].gateway = adapters[i].gateway
                 /\ adapters'[i].gateway = gateway
                 /\ adapters'[i].loss = {LossPercent(echoes)}
      BY <3>3, <3>4, <1>5, MeasuredStays
    <3>5. ASSUME NEW i \in DOMAIN adapters, i # Min(same)
          PROVE  /\ DOMAIN adapters'[i] = AdapterFields
                 /\ adapters'[i].up = adapters[i].up
                 /\ adapters'[i].gateway = adapters[i].gateway
                 /\ adapters'[i].loss = {}
      BY <3>2, <3>5, <1>5
    <3> QED
      BY <2>2, <3>1, <3>4, <3>5
  <2> QED
    BY <2>1, <2>2
<1>12. ProbeTargets(adapters') = ProbeTargets(adapters)
  BY <1>11, SameTargets
<1>13. ProbeTarget(adapters').gateway = gateway
  BY <1>7, <1>11, <1>12 DEF ProbeTarget, gateway
<1>14. /\ ProbeTargets(adapters)' = ProbeTargets(adapters')
       /\ ProbeTarget(adapters)' = ProbeTarget(adapters')
  OBVIOUS
<1>15. NetworkTypeOK'
  BY <1>1, <1>2, <1>3, <1>10, <1>11 DEF NetworkTypeOK
<1>16. ReadingsAreItsOwn'
  BY <1>1, <1>11, <1>13, <1>14 DEF ReadingsAreItsOwn, Range
<1>17. netsaid' = NotSaid
  BY <1>1, <1>3 DEF NetworkSteps
<1>18. OutageIsConfirmed' /\ OutageIsTold' /\ FullMeansRead'
  BY <1>17, NothingSaidOfNetwork DEF NotSaid
<1>19. ProbesWithinBudget'
  BY <1>1, <1>3 DEF ProbesWithinBudget
<1>20. Shaped' /\ EchoesWaitedFor' /\ Unprobed'
  BY <1>1, <1>3, <1>11 DEF Shaped, EchoesWaitedFor, Unprobed
<1>21. NetworkSteps' /\ Concluding'
  BY <1>1, <1>3, <1>12, <1>14, <1>17 DEF NetworkSteps, Concluding, Unprobed
<1> QED
  BY <1>15, <1>16, <1>18, <1>19, <1>20, <1>21 DEF NetworkInv, NetworkSound

\* The findings about radios and adapters have ids of their own.
OtherIds == {"wifi-weak-signal", "wifi-low-link-speed", "no-gateway", "interface-down"}

LEMMA OtherFindings ==
    ASSUME NEW list, NEW f \in WirelessFindings(list) \cup InterfaceFindings(list)
    PROVE  f.id \in OtherIds
PROOF
<1>1. CASE f \in WirelessFindings(list)
  BY <1>1 DEF WirelessFindings, NetFinding, OtherIds
<1>2. CASE f \in InterfaceFindings(list)
  BY <1>2 DEF InterfaceFindings, NetFinding, OtherIds
<1> QED
  BY <1>1, <1>2

\* What is found of the gateway depends on the resolver: with echoes lost, an outage only
\* if it failed, and no issue if it works; a resolver that failed is always an issue.
LEMMA GatewayWeighed ==
    ASSUME NEW gateway, NEW pinged \in Seq(RoundTrips \cup {Lost}), Len(pinged) = Pings,
           NEW external \in {"ok", "failed", "unconfirmed"},
           NEW f, f = GatewayFinding(gateway, pinged, external)
    PROVE  /\ f.id = "no-external-connectivity" => external = "failed"
           /\ f.id = "gateway-drops-icmp" => external = "ok"
           /\ f.id = "gateway-packet-loss" => external = "unconfirmed"
           /\ external = "failed" => f.id # "none" /\ f.severity \in {"high", "medium"}
           /\ Lost \in Range(pinged) =>
                 \/ f.id = "gateway-drops-icmp"
                 \/ f.id # "none" /\ f.severity \in {"high", "medium"}
PROOF
<1> DEFINE loss == LossPercent(pinged)
<1>1. Len(pinged) \in 1..5
  BY NetworkNumbers
<1>2. loss \in 0..100 /\ (Lost \in Range(pinged) => loss >= 20)
  BY <1>1, LossOfEchoes
<1> HIDE DEF loss
<1>3. CASE loss >= LossWarningPercent
  <2>1. f = CASE external = "ok"     -> NetFinding("gateway-drops-icmp", gateway, "info")
              [] external = "failed" ->
                     NetFinding("no-external-connectivity", gateway, "high")
              [] OTHER               -> NetFinding("gateway-packet-loss", gateway,
                                            IF loss >= 20 THEN "medium" ELSE "low")
    BY <1>3 DEF GatewayFinding, loss
  <2>2. CASE external = "ok"
    BY <2>1, <2>2 DEF NetFinding
  <2>3. CASE external = "failed"
    BY <2>1, <2>3 DEF NetFinding
  <2>4. CASE external = "unconfirmed"
    BY <2>1, <2>4, <1>2 DEF NetFinding
  <2> QED
    BY <2>2, <2>3, <2>4
<1>4. CASE ~(loss >= LossWarningPercent)
  <2>1. Lost \notin Range(pinged)
    BY <1>2, <1>4 DEF LossWarningPercent
  <2>2. f = IF \E rtt \in AverageRtt(pinged) : rtt >= SlowRoundTrip
            THEN NetFinding("gateway-high-latency", gateway, "medium")
            ELSE IF external = "failed"
                 THEN NetFinding("no-external-connectivity", gateway, "high")
            ELSE NetFinding("none", gateway, "none")
    BY <1>4 DEF GatewayFinding, loss
  <2>3. CASE \E rtt \in AverageRtt(pinged) : rtt >= SlowRoundTrip
    BY <2>1, <2>2, <2>3 DEF NetFinding
  <2>4. CASE ~ \E rtt \in AverageRtt(pinged) : rtt >= SlowRoundTrip
    BY <2>1, <2>2, <2>4 DEF NetFinding
  <2> QED
    BY <2>3, <2>4
<1> QED
  BY <1>3, <1>4

\* What the findings of a diagnosis are, together: those of the gateway, if it was probed
\* with every echo, and others whose ids are no gateway's.
LEMMA FindingsWeighed ==
    ASSUME NEW list, NEW pinged \in Seq(RoundTrips \cup {Lost}), Len(pinged) = Pings,
           NEW external \in {"ok", "failed", "unconfirmed"}, NEW missing,
           NEW said, said = Diagnosis(list, pinged, external, missing)
    PROVE  /\ \A f \in said.findings :
                 /\ f.id = "no-external-connectivity" => external = "failed"
                 /\ f.id = "gateway-drops-icmp" => external = "ok"
                 /\ f.id = "gateway-packet-loss" => external = "unconfirmed"
           /\ said.status = "ok" =>
                 /\ external # "failed"
                 /\ Lost \in Range(pinged) =>
                       \E f \in said.findings : f.id = "gateway-drops-icmp"
PROOF
<1> DEFINE gf == GatewayFinding(ProbeTarget(list).gateway, pinged, external)
<1>1. /\ gf.id = "no-external-connectivity" => external = "failed"
      /\ gf.id = "gateway-drops-icmp" => external = "ok"
      /\ gf.id = "gateway-packet-loss" => external = "unconfirmed"
      /\ external = "failed" => gf.id # "none" /\ gf.severity \in {"high", "medium"}
      /\ Lost \in Range(pinged) =>
            \/ gf.id = "gateway-drops-icmp"
            \/ gf.id # "none" /\ gf.severity \in {"high", "medium"}
  BY GatewayWeighed
<1>2. GatewayFindings(list, pinged, external) = {f \in {gf} : f.id # "none"}
  BY NetworkNumbers DEF GatewayFindings
<1> HIDE DEF gf
<1>3. /\ said.findings = GatewayFindings(list, pinged, external) \cup WirelessFindings(list)
                            \cup InterfaceFindings(list)
      /\ said.status = IF Issues(said.findings) # {} THEN "issues_detected"
                       ELSE IF missing = {} THEN "ok" ELSE "limited"
  BY DEF Diagnosis
<1>4. \A f \in said.findings :
         /\ f.id = "no-external-connectivity" => external = "failed"
         /\ f.id = "gateway-drops-icmp" => external = "ok"
         /\ f.id = "gateway-packet-loss" => external = "unconfirmed"
  <2>1. TAKE f \in said.findings
  <2>2. CASE f \in GatewayFindings(list, pinged, external)
    BY <1>1, <1>2, <2>2
  <2>3. CASE f \in WirelessFindings(list) \cup InterfaceFindings(list)
    <3>1. f.id \in OtherIds
      BY <2>3, OtherFindings
    <3> QED
      BY <3>1 DEF OtherIds
  <2> QED
    BY <1>3, <2>2, <2>3
<1>5. ASSUME said.status = "ok"
      PROVE  ~(gf.id # "none" /\ gf.severity \in {"high", "medium"})
  <2>1. Issues(said.findings) = {}
    BY <1>3, <1>5
  <2>2. \A f \in said.findings : f.severity \notin {"high", "medium"}
    BY <2>1 DEF Issues
  <2>3. gf.id # "none" => gf \in said.findings
    BY <1>2, <1>3
  <2> QED
    BY <2>2, <2>3
<1>6. gf.id = "gateway-drops-icmp" => gf \in said.findings
  BY <1>2, <1>3
<1> QED
  BY <1>1, <1>4, <1>5, <1>6

\* Without a probe of the gateway nothing is claimed of it.
LEMMA FindingsUnweighed ==
    ASSUME NEW list, NEW pinged, NEW external, NEW missing, Len(pinged) < Pings,
           NEW said, said = Diagnosis(list, pinged, external, missing)
    PROVE  \A f \in said.findings :
              f.id \notin {"no-external-connectivity", "gateway-drops-icmp",
                          "gateway-packet-loss"}
PROOF
<1>1. said.findings = {} \cup WirelessFindings(list) \cup InterfaceFindings(list)
  BY DEF Diagnosis, GatewayFindings
<1>2. TAKE f \in said.findings
<1>3. f.id \in OtherIds
  BY <1>1, OtherFindings
<1> QED
  BY <1>3 DEF OtherIds

LEMMA NetworkConcludes == NetworkInv /\ ConcludeNetwork => NetworkInv'
PROOF
<1> SUFFICES ASSUME NetworkInv, ConcludeNetwork PROVE NetworkInv'
  OBVIOUS
<1>1. /\ nettool = "network_diagnose" /\ netstep = "conclude" /\ netstep' = "answered"
      /\ unavailable' = unavailable \cup {"signal" : a \in SilentRadios(adapters)}
      /\ UNCHANGED <<nettool, adapters, resolution, echoes, icmp, probed>>
  BY DEF ConcludeNetwork
<1>2. netsaid' = Diagnosis(adapters, echoes, resolution, unavailable')
  BY DEF ConcludeNetwork
<1>3. NetworkTypeOK /\ Shaped /\ NetworkSteps /\ Unprobed /\ EchoesWaitedFor
      /\ Concluding /\ ReadingsAreItsOwn /\ ProbesWithinBudget
  BY DEF NetworkInv, NetworkSound
<1>4. /\ netsaid'.kind = "diagnosis"
      /\ netsaid'.status = "ok" => unavailable' = {}
      /\ netsaid'.completeness = "full" => unavailable' = {}
  BY <1>2 DEF Diagnosis
<1>5. echoes \in Seq(RoundTrips \cup {Lost}) /\ Len(echoes) <= Pings /\ Len(echoes) \in Nat
  BY <1>3 DEF EchoesWaitedFor
<1>6. resolution \in {"not_probed", "ok", "failed", "unconfirmed"}
  BY <1>3 DEF NetworkTypeOK
<1>7. IF ProbeTargets(adapters) = {} THEN resolution = "not_probed" /\ echoes = <<>>
      ELSE /\ resolution # "not_probed"
           /\ Len(echoes) = Pings \/ "gateway" \in unavailable
  BY <1>1, <1>3 DEF Concluding
<1>8. Ids' = {f.id : f \in netsaid'.findings}
  BY DEF Ids
<1>9. OutageIsConfirmed' /\ OutageIsTold'
  <2>1. CASE Len(echoes) = Pings
    <3>1. resolution \in {"ok", "failed", "unconfirmed"}
      BY <1>6, <1>7, <2>1, NetworkNumbers
    <3>2. /\ \A f \in netsaid'.findings :
                /\ f.id = "no-external-connectivity" => resolution = "failed"
                /\ f.id = "gateway-drops-icmp" => resolution = "ok"
                /\ f.id = "gateway-packet-loss" => resolution = "unconfirmed"
          /\ netsaid'.status = "ok" =>
                /\ resolution # "failed"
                /\ Lost \in Range(echoes) =>
                      \E f \in netsaid'.findings : f.id = "gateway-drops-icmp"
      BY <1>2, <1>5, <2>1, <3>1, FindingsWeighed
    <3>3. Range(echoes)' = Range(echoes)
      BY <1>1
    <3> QED
      BY <1>1, <1>8, <3>2, <3>3 DEF OutageIsConfirmed, OutageIsTold
  <2>2. CASE Len(echoes) # Pings
    <3>1. \A f \in netsaid'.findings :
             f.id \notin {"no-external-connectivity", "gateway-drops-icmp",
                         "gateway-packet-loss"}
      BY <1>2, <1>5, <2>2, FindingsUnweighed, NetworkNumbers
    <3>2. netsaid'.status = "ok" => resolution = "not_probed" /\ echoes = <<>>
      BY <1>1, <1>4, <1>7, <2>2
    <3>3. echoes = <<>> => Lost \notin Range(echoes)
      BY DEF Range
    <3>4. Range(echoes)' = Range(echoes)
      BY <1>1
    <3> QED
      BY <1>1, <1>8, <3>1, <3>2, <3>3, <3>4 DEF OutageIsConfirmed, OutageIsTold
  <2> QED
    BY <2>1, <2>2
<1>10. FullMeansRead'
  <2>1. SUFFICES ASSUME unavailable' = {}
                 PROVE  /\ ProbeTargets(adapters) # {} =>
                              Len(echoes) = Pings /\ resolution # "not_probed"
                        /\ \A a \in Range(adapters) : a.wifi /\ a.up => a.signal # {}
    <3>1. /\ ProbeTargets(adapters)' = ProbeTargets(adapters)
          /\ Range(adapters)' = Range(adapters)
      BY <1>1
    <3> QED
      BY <1>1, <1>4, <3>1 DEF FullMeansRead
  <2>2. SilentRadios(adapters) = {} /\ "gateway" \notin unavailable
    BY <1>1, <2>1
  <2> QED
    BY <1>7, <2>2 DEF SilentRadios
<1>11. NetworkTypeOK'
  <2>1. unavailable' \subseteq NetworkReads
    BY <1>1, <1>3 DEF NetworkTypeOK, NetworkReads
  <2> QED
    BY <1>1, <1>3, <2>1 DEF NetworkTypeOK
<1>12. ReadingsAreItsOwn'
  BY <1>1, <1>3 DEF ReadingsAreItsOwn
<1>13. ProbesWithinBudget'
  BY <1>1, <1>3 DEF ProbesWithinBudget, NetworkSteps
<1>14. Shaped' /\ EchoesWaitedFor' /\ Unprobed' /\ NetworkSteps' /\ Concluding'
  BY <1>1, <1>3 DEF Shaped, EchoesWaitedFor, Unprobed, NetworkSteps, Concluding
<1> QED
  BY <1>9, <1>10, <1>11, <1>12, <1>13, <1>14 DEF NetworkInv, NetworkSound

LEMMA SnapshotConcludes == NetworkInv /\ ConcludeSnapshot => NetworkInv'
PROOF
<1> SUFFICES ASSUME NetworkInv, ConcludeSnapshot PROVE NetworkInv'
  OBVIOUS
<1>1. /\ nettool = "network_snapshot" /\ netstep = "conclude" /\ netstep' = "answered"
      /\ UNCHANGED <<nettool, adapters, unavailable, resolution, echoes, icmp, probed>>
  BY DEF ConcludeSnapshot
<1>2. netsaid'.kind = "snapshot" /\ (netsaid'.completeness = "full" => unavailable' = {})
  BY <1>1 DEF ConcludeSnapshot
<1>3. NetworkTypeOK /\ Shaped /\ NetworkSteps /\ Unprobed /\ EchoesWaitedFor
      /\ ReadingsAreItsOwn /\ ProbesWithinBudget
  BY DEF NetworkInv, NetworkSound
<1>4. OutageIsConfirmed' /\ OutageIsTold' /\ FullMeansRead'
  BY <1>1, <1>2 DEF OutageIsConfirmed, OutageIsTold, FullMeansRead, DiagnosisSaid
<1>5. NetworkTypeOK' /\ ReadingsAreItsOwn' /\ ProbesWithinBudget'
  BY <1>1, <1>3 DEF NetworkTypeOK, ReadingsAreItsOwn, ProbesWithinBudget, NetworkSteps
<1>6. Shaped' /\ EchoesWaitedFor' /\ Unprobed' /\ NetworkSteps' /\ Concluding'
  BY <1>1, <1>3 DEF Shaped, EchoesWaitedFor, Unprobed, NetworkSteps, Concluding
<1> QED
  BY <1>4, <1>5, <1>6 DEF NetworkInv, NetworkSound

LEMMA NetworkReturned == NetworkReturns => NetworkInv'
PROOF
<1>1. NetworkReturns => NetworkIdle'
  BY DEF NetworkReturns, NetworkIdle
<1>2. NetworkIdle' => NetworkInv'
  <2>1. NetworkIdle => NetworkInv
    BY NetworkStart
  <2> QED
    BY <2>1, PTL
<1> QED
  BY <1>1, <1>2

LEMMA NetworkStutters == NetworkInv /\ UNCHANGED netVars => NetworkInv'
PROOF
<1> SUFFICES ASSUME NetworkInv, UNCHANGED netVars PROVE NetworkInv'
  OBVIOUS
<1>1. UNCHANGED <<nettool, netstep, adapters, unavailable, resolution, echoes, icmp, probed,
                  netsaid>>
  BY DEF netVars
<1>2. NetworkTypeOK' /\ ReadingsAreItsOwn' /\ ProbesWithinBudget'
  BY <1>1 DEF NetworkInv, NetworkSound, NetworkTypeOK, ReadingsAreItsOwn, ProbesWithinBudget
<1>3. OutageIsConfirmed' /\ OutageIsTold' /\ FullMeansRead'
  BY <1>1 DEF NetworkInv, NetworkSound, OutageIsConfirmed, OutageIsTold, FullMeansRead,
              DiagnosisSaid, Ids
<1>4. Shaped' /\ EchoesWaitedFor' /\ Unprobed' /\ NetworkSteps' /\ Concluding'
  BY <1>1 DEF NetworkInv, Shaped, EchoesWaitedFor, Unprobed, NetworkSteps, Concluding
<1> QED
  BY <1>2, <1>3, <1>4 DEF NetworkInv, NetworkSound

\* network_diagnose weighs the resolver against the echoes for any adapters, readings,
\* round trips and waits that fit the budget together.
THEOREM NetworkIsSound == NetworkSpec => []NetworkSound
PROOF
<1>1. NetworkIdle => NetworkInv
  BY NetworkStart
<1>2. NetworkInv /\ [NetworkNext]_netVars => NetworkInv'
  BY NetworkStarts, InterfacesRead, InterfacesFail, TablesRead, RadioRead, Resolving,
     IcmpOpens, IcmpFails, Pinging, IcmpCloses, NetworkConcludes, SnapshotConcludes,
     NetworkReturned, NetworkStutters DEF NetworkNext
<1>3. NetworkInv => NetworkSound
  BY DEF NetworkInv
<1> QED
  BY <1>1, <1>2, <1>3, PTL DEF NetworkSpec

-----------------------------------------------------------------------------
(* VersionProbe.  What was written to a pipe is what its thread has read   *)
(* and what is still in it, and what is left of a wait and what has passed *)
(* add up; so a wait that did not run out has all of the output.           *)

\* The variables have a value for each pipe, and the reply its three fields.
PipesShaped ==
    /\ \A f \in {pipes, held, taken, written} : DOMAIN f = Pipes
    /\ DOMAIN dev = {"found", "version", "reason"}

\* The child is there while it is polled, has ended before a wait for a pipe begins, and
\* was killed exactly when the probe gave up on it.
ChildFollowsSteps ==
    /\ vstep \in {"idle", "spawn"} => child = "none"
    /\ vstep \in {"poll", "stuck"} => child \notin {"none", "killed"}
    /\ vstep \in {"stdout", "stderr", "judge"} => child \notin {"none", "running"}
    /\ vstep = "answered" => child # "running"
    /\ child = "killed" => expired
    /\ expired => child \in {"killed", "terminated"} \/ vstep = "stuck"

\* What is left of a wait and what has passed add up to the waits that were begun.
WaitsAddUp ==
    /\ vstep \in {"idle", "spawn"} => elapsed = 0
    /\ vstep = "poll" => elapsed + wait = ProbeTimeout
    /\ vstep = "stuck" => elapsed <= ProbeTimeout
    /\ vstep = "stdout" => /\ WaitBudget <= elapsed + wait
                           /\ elapsed + wait <= ProbeTimeout + WaitBudget
    /\ vstep = "stderr" => /\ WaitBudget <= elapsed + wait
                           /\ elapsed + wait <= MostElapsed
    /\ elapsed <= MostElapsed

\* What was written is what was read and what is still in the pipe; a thread that is done
\* has read all of it or its fill.
NothingLost ==
    \A p \in Pipes :
      /\ written[p] = held[p] \o pipes[p]
      /\ Len(held[p]) <= OutputCap
      /\ p \in sent => Len(held[p]) = OutputCap \/ pipes[p] = <<>>

\* The probe is past its wait for the pipe.
Past(p) ==
    /\ vstep \in IF p = "stdout" THEN {"stderr", "judge", "answered"} ELSE {"judge", "answered"}
    /\ child # "none"

\* A wait that did not run out has got what the thread read.
TakenIsRead ==
    \A p \in Pipes : Past(p) /\ elapsed < WaitBudget => p \in sent /\ taken[p] = held[p]

\* The version is that of a child which succeeded, and comes from what was taken.
VersionOfTaken ==
    /\ vstep # "answered" => dev.version = "none"
    /\ vstep = "answered" /\ child # "none" =>
         dev.version = IF child = "0" THEN Version ELSE "none"

\* What holds of a probe at every step, and does not depend on where the file is found.
VersionSteady ==
    /\ VersionTypeOK /\ PipesShaped /\ ChildFollowsSteps /\ WaitsAddUp
    /\ NothingLost /\ TakenIsRead /\ VersionOfTaken

dataVars == <<pipes, held, sent, taken, written>>

\* A read moves the first chunk of the pipe behind what was read before.
LEMMA ReadFromPipe ==
    ASSUME NEW S, NEW h \in Seq(S), NEW q \in Seq(S), q # <<>>
    PROVE  /\ Append(h, Head(q)) \in Seq(S) /\ Tail(q) \in Seq(S)
           /\ Len(Append(h, Head(q))) = Len(h) + 1
           /\ Append(h, Head(q)) \o Tail(q) = h \o q
PROOF
<1>1. Head(q) \in S /\ Tail(q) \in Seq(S)
  BY HeadTailProperties, Zenon
<1>2. PICK first : first = <<Head(q)>>
  OBVIOUS
<1>3. Append(h, Head(q)) \in Seq(S) /\ Len(Append(h, Head(q))) = Len(h) + 1
  BY <1>1, AppendProperties, Zenon
<1>4. Append(h, Head(q)) = h \o first
  BY <1>1, <1>2, AppendIsConcat, Zenon
<1>5. first \o Tail(q) = q /\ first \in Seq(S)
  BY <1>1, <1>2
<1>6. (h \o first) \o Tail(q) = h \o (first \o Tail(q))
  <2>1. PICK left : left = Tail(q)
    OBVIOUS
  <2>2. first \in Seq(S) /\ left \in Seq(S)
    BY <1>1, <1>5, <2>1
  <2>3. (h \o first) \o left = h \o (first \o left)
    BY <2>2, ConcatAssociative
  <2> QED
    BY <2>1, <2>3
<1> QED
  BY <1>1, <1>3, <1>4, <1>5, <1>6

\* What was read is what was written up to the cap.
LEMMA ReadUpToCap ==
    ASSUME NEW S, NEW h \in Seq(S), NEW q \in Seq(S), NEW n \in Nat \ {0},
           Len(h) <= n, Len(h) = n \/ q = <<>>
    PROVE  SubSeq(h \o q, 1, IF Len(h \o q) < n THEN Len(h \o q) ELSE n) = h
PROOF
<1>1. /\ h \o q \in Seq(S) /\ Len(h \o q) = Len(h) + Len(q)
      /\ Len(h) \in Nat /\ Len(q) \in Nat
  BY ConcatProperties
<1>2. CASE q = <<>>
  <2>1. h \o q = h
    BY <1>2, ConcatEmptySeq, Zenon
  <2>2. (IF Len(h) < n THEN Len(h) ELSE n) = Len(h)
    BY <1>1
  <2> QED
    BY <2>1, <2>2, SubSeqFull, Zenon
<1>3. CASE Len(h) = n
  <2>1. 1 \in 1..Len(h) /\ Len(h) \in 1..Len(h)
    BY <1>1, <1>3
  <2>2. (IF Len(h \o q) < n THEN Len(h \o q) ELSE n) = Len(h)
    BY <1>1, <1>3
  <2>3. SubSeq(h \o q, 1, Len(h)) = SubSeq(h, 1, Len(h))
    BY <2>1, SubSeqOfConcat1, Zenon
  <2> QED
    BY <2>2, <2>3, SubSeqFull, Zenon
<1> QED
  BY <1>2, <1>3

\* The names that are tried make a sequence, whose last part are the fallbacks.
LEMMA TripleIsSequence ==
    ASSUME NEW S, NEW a \in S, NEW b \in S, NEW c \in S
    PROVE  <<a, b, c>> \in Seq(S) /\ Len(<<a, b, c>>) = 3
  OBVIOUS

\* What the second part of a sequence has is found behind the first.
LEMMA BothParts ==
    ASSUME NEW S, NEW f \in Seq(S), NEW u \in Seq(S)
    PROVE  /\ f \o u \in Seq(S) /\ Len(f \o u) = Len(f) + Len(u)
           /\ \A j \in 1..Len(f) : (f \o u)[j] = f[j]
           /\ \A j \in 1..Len(u) : (f \o u)[Len(f) + j] = u[j]
PROOF
<1>1. Len(f) \in Nat /\ Len(u) \in Nat
  OBVIOUS
<1>2. f \o u \in Seq(S) /\ Len(f \o u) = Len(f) + Len(u)
  BY ConcatProperties, Zenon
<1>3. \A i \in 1..(Len(f) + Len(u)) :
        (f \o u)[i] = IF i <= Len(f) THEN f[i] ELSE u[i - Len(f)]
  BY ConcatProperties, Zenon
<1>4. ASSUME NEW j \in 1..Len(f)
      PROVE  (f \o u)[j] = f[j]
  <2>1. j \in 1..(Len(f) + Len(u)) /\ j <= Len(f)
    BY <1>1
  <2> QED
    BY <1>3, <2>1, Zenon
<1>5. ASSUME NEW j \in 1..Len(u)
      PROVE  (f \o u)[Len(f) + j] = u[j]
  <2>1. /\ Len(f) + j \in 1..(Len(f) + Len(u)) /\ ~(Len(f) + j <= Len(f))
        /\ (Len(f) + j) - Len(f) = j
    BY <1>1
  <2>2. (f \o u)[Len(f) + j] = u[(Len(f) + j) - Len(f)]
    BY <1>3, <2>1, Zenon
  <2> QED
    BY <2>1, <2>2
<1> QED
  BY <1>2, <1>4, <1>5

\* What may follow a name without an extension, place by place.
LEMMA Candidates ==
    ASSUME NEW tool, tool.ext = Bare
    PROVE  LET exts == CandidateNames(tool)
           IN  /\ DOMAIN exts = 1..(1 + Len(PathExt) + Len(Fallbacks)) /\ exts[1] = Bare
               /\ \A j \in 1..Len(PathExt) : exts[1 + j] = PathExt[j]
               /\ \A j \in 1..Len(Fallbacks) : exts[1 + Len(PathExt) + j] = Fallbacks[j]
               /\ DOMAIN PathExt = 1..Len(PathExt) /\ Len(PathExt) \in Nat
               /\ DOMAIN Fallbacks = 1..Len(Fallbacks) /\ Len(Fallbacks) \in Nat
PROOF
<1> DEFINE S == STRING \cup {Bare, "exe", "cmd", "bat"}
<1>1. PathExt \in Seq(S)
  BY ProbeNames
<1>2. Fallbacks \in Seq(S)
  BY TripleIsSequence, Zenon DEF Fallbacks
<1>3. Bare \in S
  OBVIOUS
<1> HIDE DEF S
<1>4. PICK u : u = Fallbacks
  OBVIOUS
<1>5. PICK a : a = Bare
  OBVIOUS
<1>6. PICK t : t = PathExt \o u
  OBVIOUS
<1>7. PICK all : all = <<a>> \o t
  OBVIOUS
<1>8. u \in Seq(S) /\ a \in S
  BY <1>2, <1>3, <1>4, <1>5
<1>9. /\ t \in Seq(S) /\ Len(t) = Len(PathExt) + Len(u)
      /\ \A j \in 1..Len(PathExt) : t[j] = PathExt[j]
      /\ \A j \in 1..Len(u) : t[Len(PathExt) + j] = u[j]
  BY <1>1, <1>6, <1>8, BothParts
<1>10. /\ DOMAIN all = 1..(1 + Len(t)) /\ all[1] = a
       /\ \A j \in 1..Len(t) : all[1 + j] = t[j]
  BY <1>7, <1>8, <1>9
<1>11. Len(u) \in Nat /\ Len(PathExt) \in Nat /\ DOMAIN u = 1..Len(u)
       /\ DOMAIN PathExt = 1..Len(PathExt)
  BY <1>1, <1>8
<1>12. /\ DOMAIN all = 1..(1 + Len(PathExt) + Len(u))
       /\ \A j \in 1..Len(PathExt) : all[1 + j] = PathExt[j]
       /\ \A j \in 1..Len(u) : all[1 + Len(PathExt) + j] = u[j]
  <2>1. ASSUME NEW j \in 1..Len(PathExt)
        PROVE  all[1 + j] = PathExt[j]
    <3>1. j \in 1..Len(t)
      BY <1>9, <1>11
    <3> QED
      BY <1>9, <1>10, <3>1
  <2>2. ASSUME NEW j \in 1..Len(u)
        PROVE  all[1 + Len(PathExt) + j] = u[j]
    <3>1. Len(PathExt) + j \in 1..Len(t) /\ 1 + (Len(PathExt) + j) = 1 + Len(PathExt) + j
      BY <1>9, <1>11
    <3> QED
      BY <1>9, <1>10, <3>1
  <2>3. DOMAIN all = 1..(1 + Len(PathExt) + Len(u))
    BY <1>9, <1>10, <1>11
  <2> QED
    BY <2>1, <2>2, <2>3
<1>13. CandidateNames(tool) = all
  BY <1>4, <1>5, <1>6, <1>7, Zenon DEF CandidateNames
<1> QED
  BY <1>4, <1>5, <1>10, <1>11, <1>12, <1>13, Zenon

\* The extensions a name is tried with are those of the files that go by it.
LEMMA TriedNames ==
    ASSUME NEW tool
    PROVE  /\ DOMAIN CandidateNames(tool) \subseteq Nat \ {0}
           /\ \A k \in DOMAIN CandidateNames(tool) :
                \/ CandidateNames(tool)[k] = tool.ext
                \/ tool.ext = Bare
                     /\ CandidateNames(tool)[k] \in Range(PathExt) \cup Range(Fallbacks)
           /\ \A x : x = tool.ext \/ (tool.ext = Bare /\ x \in Range(PathExt) \cup Range(Fallbacks))
                => \E k \in DOMAIN CandidateNames(tool) : CandidateNames(tool)[k] = x
PROOF
<1>1. CASE tool.ext = Bare
  <2>1. PICK exts : exts = CandidateNames(tool)
    OBVIOUS
  <2>2. /\ DOMAIN exts = 1..(1 + Len(PathExt) + Len(Fallbacks)) /\ exts[1] = Bare
        /\ \A j \in 1..Len(PathExt) : exts[1 + j] = PathExt[j]
        /\ \A j \in 1..Len(Fallbacks) : exts[1 + Len(PathExt) + j] = Fallbacks[j]
        /\ DOMAIN PathExt = 1..Len(PathExt) /\ Len(PathExt) \in Nat
        /\ DOMAIN Fallbacks = 1..Len(Fallbacks) /\ Len(Fallbacks) \in Nat
    BY <1>1, <2>1, Candidates, Zenon
  <2>3. ASSUME NEW k \in DOMAIN exts
        PROVE  exts[k] = Bare \/ exts[k] \in Range(PathExt) \cup Range(Fallbacks)
    <3> DEFINE p == Len(PathExt)
               q == Len(Fallbacks)
    <3>4. p \in Nat /\ q \in Nat /\ k \in 1..(1 + p + q)
      BY <2>2
    <3>1. CASE k = 1
      BY <2>2, <3>1
    <3>2. CASE k \in 2..(1 + Len(PathExt))
      <4>1. k - 1 \in 1..Len(PathExt) /\ 1 + (k - 1) = k
        BY <2>2, <3>2
      <4> QED
        BY <2>2, <4>1 DEF Range
    <3>3. CASE k > 1 + Len(PathExt)
      <4>1. k - 1 - p \in 1..q /\ 1 + p + (k - 1 - p) = k
        <5> HIDE DEF p, q
        <5> QED
          BY <3>3, <3>4 DEF p
      <4> QED
        BY <2>2, <4>1 DEF Range
    <3> QED
      BY <3>1, <3>2, <3>3, <3>4
  <2>4. ASSUME NEW x, x = Bare \/ x \in Range(PathExt) \cup Range(Fallbacks)
        PROVE  \E k \in DOMAIN exts : exts[k] = x
    <3>1. CASE x = Bare
      BY <2>2, <3>1
    <3>2. CASE x \in Range(PathExt)
      <4>1. PICK j \in 1..Len(PathExt) : PathExt[j] = x
        BY <2>2, <3>2 DEF Range
      <4>2. 1 + j \in DOMAIN exts
        BY <2>2
      <4> QED
        BY <2>2, <4>1, <4>2
    <3>3. CASE x \in Range(Fallbacks)
      <4>1. PICK j \in 1..Len(Fallbacks) : Fallbacks[j] = x
        BY <2>2, <3>3 DEF Range
      <4>2. 1 + Len(PathExt) + j \in DOMAIN exts
        BY <2>2
      <4> QED
        BY <2>2, <4>1, <4>2
    <3> QED
      BY <2>4, <3>1, <3>2, <3>3
  <2>5. DOMAIN exts \subseteq Nat \ {0}
    BY <2>2
  <2> QED
    BY <1>1, <2>1, <2>3, <2>4, <2>5, Zenon
<1>2. CASE tool.ext # Bare
  BY <1>2 DEF CandidateNames
<1> QED
  BY <1>1, <1>2

\* The first extension a name is tried with that a file has is preferred to that of any
\* other file.
LEMMA FirstIsPreferred ==
    ASSUME NEW tool, tool.ext = Bare,
           NEW k \in DOMAIN CandidateNames(tool), CandidateNames(tool)[k] # Bare,
           NEW y, \A j \in DOMAIN CandidateNames(tool) : CandidateNames(tool)[j] = y /\ y # Bare => k < j,
           y = Bare \/ y \in Range(PathExt) \cup Range(Fallbacks)
    PROVE  GoesBefore(CandidateNames(tool)[k], y)
PROOF
<1>1. PICK exts, x : exts = CandidateNames(tool) /\ x = exts[k]
  OBVIOUS
<1>2. /\ DOMAIN exts = 1..(1 + Len(PathExt) + Len(Fallbacks)) /\ exts[1] = Bare
      /\ \A j \in 1..Len(PathExt) : exts[1 + j] = PathExt[j]
      /\ \A j \in 1..Len(Fallbacks) : exts[1 + Len(PathExt) + j] = Fallbacks[j]
      /\ DOMAIN PathExt = 1..Len(PathExt) /\ Len(PathExt) \in Nat
      /\ DOMAIN Fallbacks = 1..Len(Fallbacks) /\ Len(Fallbacks) \in Nat
  BY <1>1, Candidates, Zenon
<1>3. k \in DOMAIN exts /\ x # Bare /\ \A j \in DOMAIN exts : exts[j] = y /\ y # Bare => k < j
  BY <1>1
<1> SUFFICES ASSUME y # Bare
             PROVE  \/ Sooner(x, y, PathExt)
                    \/ Sooner(x, y, Fallbacks) /\ y \notin Range(PathExt)
  BY <1>1, <1>3 DEF GoesBefore
<1> DEFINE p == Len(PathExt)
           q == Len(Fallbacks)
<1>6. p \in Nat /\ q \in Nat /\ k \in 1..(1 + p + q) /\ k # 1
  BY <1>1, <1>2, <1>3
<1>4. CASE k \in 2..(1 + p)
  <2>1. k - 1 \in 1..Len(PathExt) /\ PathExt[k - 1] = x
    <3>1. k - 1 \in 1..Len(PathExt) /\ 1 + (k - 1) = k
      BY <1>2, <1>4
    <3> QED
      BY <1>1, <1>2, <3>1
  <2>2. ASSUME NEW j \in 1..(k - 1)
        PROVE  PathExt[j] # y
    <3>1. j \in 1..Len(PathExt) /\ 1 + j \in DOMAIN exts /\ ~(k < 1 + j)
      BY <1>2, <1>4
    <3> QED
      BY <1>2, <1>3, <3>1
  <2> QED
    <3>1. k - 1 \in DOMAIN PathExt
      BY <1>2, <2>1
    <3>2. Sooner(x, y, PathExt)
      BY <2>1, <2>2, <3>1 DEF Sooner
    <3> QED
      BY <3>2, Zenon
<1>5. CASE k > 1 + p
  <2> DEFINE m == k - 1 - p
  <2>1. m \in 1..Len(Fallbacks) /\ Fallbacks[m] = x
    <3>1. m \in 1..q /\ 1 + p + m = k
      <4> HIDE DEF p, q
      <4> QED
        BY <1>5, <1>6
    <3> QED
      BY <1>1, <1>2, <3>1
  <2>2. ASSUME NEW j \in 1..m
        PROVE  Fallbacks[j] # y
    <3>1. j \in 1..q /\ 1 + p + j \in 1..(1 + p + q) /\ ~(k < 1 + p + j)
      <4>1. m \in 1..q
        BY <2>1
      <4> HIDE DEF p, q
      <4> QED
        BY <1>5, <1>6, <4>1
    <3> QED
      BY <1>2, <1>3, <3>1
  <2>3. ASSUME NEW j \in DOMAIN PathExt
        PROVE  PathExt[j] # y
    <3>1. j \in 1..p /\ 1 + j \in 1..(1 + p + q) /\ ~(k < 1 + j)
      <4>1. j \in 1..p
        BY <1>2
      <4> HIDE DEF p, q
      <4> QED
        BY <1>5, <1>6, <4>1
    <3> QED
      BY <1>2, <1>3, <3>1
  <2> QED
    BY <1>2, <2>1, <2>2, <2>3 DEF Sooner, Range
<1> QED
  <2>1. k \in 2..(1 + p) \/ k > 1 + p
    <3> HIDE DEF p, q
    <3> QED
      BY <1>6
  <2> QED
    BY <1>4, <1>5, <2>1

\* The search depends on nothing but its arguments: what it finds is in the first directory
\* that has a file of the tool's name, and is preferred to all that is beside it.
LEMMA ShimIsFound == ShimFound
PROOF
<1> SUFFICES ASSUME NEW tool \in ToolNames, NEW path \in SearchPaths
             PROVE  LET found == FindInPath(tool, path)
                        there(i) == {f \in path[i] : GoesBy(f, tool)}
                    IN  IF found = NotOnPath
                        THEN \A i \in DOMAIN path : there(i) = {}
                        ELSE /\ found.dir \in DOMAIN path /\ found.file \in there(found.dir)
                             /\ \A i \in 1..(found.dir - 1) : there(i) = {}
                             /\ \A f \in there(found.dir) \ {found.file} :
                                  GoesBefore(found.file.ext, f.ext)
  BY DEF ShimFound
<1> DEFINE exts == CandidateNames(tool)
           candidate(k) == [stem |-> tool.stem, ext |-> exts[k]]
           has(n) == {k \in DOMAIN exts : candidate(k) \in path[n]}
           dirs == {n \in DOMAIN path : has(n) # {}}
           proper == {k \in has(Min(dirs)) : exts[k] # Bare}
           tried == IF proper # {} THEN proper ELSE has(Min(dirs))
           found == FindInPath(tool, path)
           there(i) == {f \in path[i] : GoesBy(f, tool)}
<1>1. found = IF dirs = {} THEN NotOnPath
              ELSE [dir |-> Min(dirs), file |-> candidate(Min(tried))]
  BY Zenon DEF FindInPath
<1>2. DOMAIN exts \subseteq Nat
  BY TriedNames
<1>3. DOMAIN path = 1..Len(path) /\ Len(path) \in Nat
      /\ \A i \in DOMAIN path : path[i] \subseteq FileName
  BY ProbeNames
<1>4. dirs \subseteq Nat
  BY <1>3
<1>5. ASSUME dirs # {}
      PROVE  /\ Min(dirs) \in dirs /\ \A n \in dirs : Min(dirs) <= n
             /\ Min(tried) \in tried /\ tried \subseteq has(Min(dirs))
             /\ \A k \in tried : Min(tried) <= k
             /\ found.dir = Min(dirs) /\ found.file = candidate(Min(tried))
  <2>1. Min(dirs) \in dirs /\ \A n \in dirs : Min(dirs) <= n
    BY <1>4, <1>5, MinIsIn, Zenon
  <2>2. tried # {} /\ tried \subseteq has(Min(dirs))
    BY <2>1, Zenon
  <2>3. tried \subseteq Nat
    BY <2>2, <1>2
  <2>4. Min(tried) \in tried /\ \A k \in tried : Min(tried) <= k
    BY <2>2, <2>3, MinIsIn, Zenon
  <2> HIDE DEF dirs, tried
  <2> QED
    BY <1>1, <1>5, <2>1, <2>2, <2>4
<1>6. ASSUME NEW i \in DOMAIN path, NEW f \in there(i)
      PROVE  \E k \in has(i) : f = candidate(k) /\ exts[k] = f.ext
  <2>1. f.stem = tool.stem /\ f = [stem |-> f.stem, ext |-> f.ext]
    BY <1>3 DEF GoesBy, FileName
  <2>2. \/ f.ext = tool.ext
        \/ tool.ext = Bare /\ f.ext \in Range(PathExt) \cup Range(Fallbacks)
    BY DEF GoesBy
  <2>3. \A x : x = tool.ext \/ (tool.ext = Bare /\ x \in Range(PathExt) \cup Range(Fallbacks))
          => \E k \in DOMAIN exts : exts[k] = x
    BY TriedNames, Zenon
  <2>4. PICK k \in DOMAIN exts : exts[k] = f.ext
    <3> HIDE DEF exts
    <3> QED
      BY <2>2, <2>3
  <2> QED
    BY <2>1, <2>4
<1>7. ASSUME NEW i \in DOMAIN path, NEW k \in has(i)
      PROVE  candidate(k) \in there(i)
  <2>1. k \in DOMAIN exts /\ candidate(k) \in path[i]
    OBVIOUS
  <2>2. \/ exts[k] = tool.ext
        \/ tool.ext = Bare /\ exts[k] \in Range(PathExt) \cup Range(Fallbacks)
    BY <2>1, TriedNames
  <2> QED
    BY <2>1, <2>2 DEF GoesBy
<1>8. CASE dirs = {}
  <2>1. \A i \in DOMAIN path : there(i) = {}
    BY <1>6, <1>8
  <2>2. found = NotOnPath
    BY <1>1, <1>8, Zenon
  <2> QED
    BY <2>1, <2>2, Zenon
<1>9. CASE dirs # {}
  <2>1. PICK d : d = Min(dirs)
    OBVIOUS
  <2>2. PICK t : t = Min(tried)
    OBVIOUS
  <2>3. /\ d \in dirs /\ \A n \in dirs : d <= n
        /\ t \in tried /\ tried \subseteq has(d) /\ \A k \in tried : t <= k
        /\ found.dir = d /\ found.file = candidate(t)
    BY <1>5, <1>9, <2>1, <2>2, Zenon
  <2>4. d \in DOMAIN path /\ t \in has(d)
    BY <2>3
  <2>5. found # NotOnPath
    <3>1. found.dir # 0
      BY <1>3, <2>3, <2>4
    <3> HIDE DEF found
    <3> QED
      BY <3>1 DEF NotOnPath
  <2>6. found.file \in there(d)
    BY <1>7, <2>3, <2>4
  <2>7. ASSUME NEW i \in 1..(d - 1)
        PROVE  there(i) = {}
    <3>1. i \in DOMAIN path /\ i \notin dirs
      <4> HIDE DEF dirs
      <4> QED
        BY <1>3, <2>3, <2>4
    <3> QED
      BY <1>6, <3>1
  <2>8. ASSUME NEW f \in there(d), f # found.file
        PROVE  GoesBefore(found.file.ext, f.ext)
    <3>1. PICK k \in has(d) : f = candidate(k) /\ exts[k] = f.ext
      BY <1>6, <2>4
    <3>2. exts[k] # exts[t]
      BY <2>3, <2>8, <3>1
    <3>3. tool.ext = Bare
      BY <2>4, <3>1, <3>2 DEF CandidateNames
    <3>4. exts[t] # Bare
      <4>1. CASE proper = {}
        <5>1. k \in tried /\ t \in tried
          BY <2>1, <2>3, <3>1, <4>1
        <5>2. exts[k] = Bare /\ exts[t] = Bare
          BY <2>1, <2>4, <3>1, <4>1
        <5> QED
          BY <3>2, <5>2
      <4>2. CASE proper # {}
        BY <2>1, <2>3, <4>2
      <4> QED
        BY <4>1, <4>2
    <3>5. ASSUME NEW j \in DOMAIN exts, exts[j] = f.ext, f.ext # Bare
          PROVE  t < j
      <4>1. candidate(j) = f /\ f \in path[d]
        BY <3>1, <3>5
      <4>2. j \in has(d)
        BY <3>5, <4>1
      <4>3. j \in proper
        BY <2>1, <3>5, <4>2
      <4>4. j \in tried
        BY <4>3
      <4>5. j \in Nat /\ t \in Nat /\ t <= j
        BY <1>2, <2>3, <2>4, <4>4
      <4>6. t # j
        BY <3>1, <3>2, <3>5
      <4> QED
        BY <4>5, <4>6
    <3>6. f.ext = Bare \/ f.ext \in Range(PathExt) \cup Range(Fallbacks)
      BY <3>3 DEF GoesBy
    <3>7. t \in DOMAIN exts
      BY <2>4
    <3>8. GoesBefore(exts[t], f.ext)
      BY <3>3, <3>4, <3>5, <3>6, <3>7, FirstIsPreferred, Zenon
    <3>9. found.file.ext = exts[t]
      <4> HIDE DEF exts, found
      <4> QED
        BY <2>3
    <3> QED
      BY <3>8, <3>9, Zenon
  <2>9. \A i \in 1..(found.dir - 1) : there(i) = {}
    BY <2>3, <2>7
  <2>10. \A f \in there(found.dir) \ {found.file} : GoesBefore(found.file.ext, f.ext)
    BY <2>3, <2>8
  <2>11. found.dir \in DOMAIN path /\ found.file \in there(found.dir)
    BY <2>3, <2>4, <2>6
  <2> QED
    BY <2>5, <2>9, <2>10, <2>11, Zenon
<1> QED
  BY <1>8, <1>9

\* An action that leaves the pipes and what was read of them alone keeps their parts.
LEMMA DataKept ==
    ASSUME VersionSteady, UNCHANGED dataVars
    PROVE  /\ PipesShaped' <=> DOMAIN dev' = {"found", "version", "reason"}
           /\ \A f \in {pipes', held', taken', written'} :
                \A p \in Pipes : f[p] \in Seq(Chunks(p))
           /\ sent' \subseteq Pipes
           /\ NothingLost'
           /\ Version' = Version
PROOF
<1> USE DEF VersionSteady, dataVars
<1>1. PipesShaped' <=> DOMAIN dev' = {"found", "version", "reason"}
  BY DEF PipesShaped
<1>2. \A f \in {pipes', held', taken', written'} :
        \A p \in Pipes : f[p] \in Seq(Chunks(p))
  BY DEF VersionTypeOK
<1>3. sent' \subseteq Pipes
  BY DEF VersionTypeOK
<1>4. NothingLost'
  BY DEF NothingLost
<1>5. Version' = Version
  BY Zenon DEF Version
<1> QED
  BY <1>1, <1>2, <1>3, <1>4, <1>5

LEMMA VersionFind ==
    ASSUME VersionSteady, FindTool
    PROVE  VersionSteady'
PROOF
<1> USE DEF VersionSteady
<1>1. UNCHANGED dataVars /\ UNCHANGED <<child, keeps, expired, wait, elapsed>>
  BY DEF FindTool, childVars, dataVars
<1>2. /\ vstep = "idle" /\ vstep' \in {"answered", "spawn"}
      /\ dev' = dev \/ dev' = [dev EXCEPT !.found = TRUE]
  BY DEF FindTool
<1>3. /\ DOMAIN dev' = {"found", "version", "reason"}
      /\ dev'.found \in BOOLEAN /\ dev'.version = "none"
  BY <1>2 DEF PipesShaped, VersionTypeOK, VersionOfTaken
<1>4. VersionTypeOK' /\ PipesShaped' /\ NothingLost'
  BY <1>1, <1>2, <1>3, DataKept DEF VersionTypeOK
<1>5. ChildFollowsSteps' /\ WaitsAddUp'
  BY <1>1, <1>2 DEF ChildFollowsSteps, WaitsAddUp
<1>6. TakenIsRead' /\ VersionOfTaken'
  BY <1>1, <1>2, <1>3 DEF TakenIsRead, Past, VersionOfTaken, ChildFollowsSteps
<1> QED
  BY <1>4, <1>5, <1>6

LEMMA VersionSpawn ==
    ASSUME VersionSteady, SpawnChild
    PROVE  VersionSteady'
PROOF
<1> USE DEF VersionSteady
<1>1. UNCHANGED dataVars /\ UNCHANGED <<keeps, expired, elapsed>>
  BY DEF SpawnChild, dataVars
<1>2. \/ /\ vstep = "spawn" /\ vstep' = "poll" /\ child' = "running"
         /\ wait' = ProbeTimeout /\ dev' = dev
      \/ /\ vstep = "spawn" /\ vstep' = "answered" /\ UNCHANGED <<child, wait>>
         /\ dev' = [dev EXCEPT !.reason = "could not start"]
  BY DEF SpawnChild
<1>3. /\ DOMAIN dev' = {"found", "version", "reason"}
      /\ dev'.found \in BOOLEAN /\ dev'.version = "none"
  BY <1>2 DEF PipesShaped, VersionTypeOK, VersionOfTaken
<1>4. vstep' \in {"poll", "answered"} /\ child' \in {"none", "running"}
  BY <1>2 DEF ChildFollowsSteps
<1>5. wait' \in 0..WaitBudget /\ elapsed' = 0
  <2>1. elapsed = 0 /\ elapsed' = elapsed
    BY <1>1, <1>2 DEF WaitsAddUp
  <2>2. wait' = ProbeTimeout \/ wait' = wait
    BY <1>2
  <2>3. ProbeTimeout \in 0..WaitBudget
    BY ProbeTimes DEF WaitBudget
  <2> QED
    BY <2>1, <2>2, <2>3 DEF VersionTypeOK
<1>6. VersionTypeOK' /\ PipesShaped' /\ NothingLost'
  BY <1>1, <1>3, <1>4, <1>5, DataKept DEF VersionTypeOK
<1>7. ChildFollowsSteps'
  BY <1>1, <1>2 DEF ChildFollowsSteps
<1>8. WaitsAddUp'
  <2>1. vstep' = "poll" => wait' = ProbeTimeout
    BY <1>2
  <2>2. 0 <= MostElapsed
    BY ProbeTimes DEF MostElapsed, WaitBudget
  <2> QED
    BY <1>4, <1>5, <2>1, <2>2, ProbeTimes DEF WaitsAddUp
<1>9. TakenIsRead' /\ VersionOfTaken'
  BY <1>1, <1>2, <1>3 DEF TakenIsRead, Past, VersionOfTaken, ChildFollowsSteps
<1> QED
  BY <1>6, <1>7, <1>8, <1>9

LEMMA VersionExits ==
    ASSUME VersionSteady, ChildExits \/ KeeperExits
    PROVE  VersionSteady'
PROOF
<1> USE DEF VersionSteady
<1>1. UNCHANGED dataVars /\ UNCHANGED <<vstep, expired, wait, elapsed, dev>>
  BY DEF ChildExits, KeeperExits, dataVars
<1>2. /\ keeps' \subseteq Pipes
      /\ \/ child' = child
         \/ child = "running" /\ child' \in {"0", "1", "terminated"}
  BY DEF ChildExits, KeeperExits
<1>3. /\ DOMAIN dev' = {"found", "version", "reason"}
      /\ dev'.found \in BOOLEAN
  BY <1>1 DEF PipesShaped, VersionTypeOK
<1>4. VersionTypeOK' /\ PipesShaped' /\ NothingLost'
  BY <1>1, <1>2, <1>3, DataKept DEF VersionTypeOK
<1>5. ChildFollowsSteps' /\ WaitsAddUp'
  BY <1>1, <1>2 DEF ChildFollowsSteps, WaitsAddUp
<1>6. TakenIsRead'
  BY <1>1, <1>2 DEF TakenIsRead, Past, dataVars
<1>7. VersionOfTaken'
  BY <1>1, <1>2, DataKept DEF VersionOfTaken, ChildFollowsSteps
<1> QED
  BY <1>4, <1>5, <1>6, <1>7

LEMMA VersionPolls ==
    ASSUME VersionSteady, EndPoll \/ PollFails \/ Unstick
    PROVE  VersionSteady'
PROOF
<1> USE DEF VersionSteady
<1>1. UNCHANGED dataVars /\ UNCHANGED <<elapsed, dev>>
  BY DEF EndPoll, PollFails, Unstick, childVars, dataVars
<1>2. /\ keeps' \subseteq Pipes
      /\ vstep \in {"poll", "stuck"}
      /\ \/ vstep = "poll" /\ vstep' = "stuck" /\ UNCHANGED <<child, expired, wait>>
         \/ vstep = "poll" /\ vstep' = "stdout" /\ wait' = WaitBudget /\ child # "running"
              /\ UNCHANGED <<child, expired>>
         \/ vstep' = "stdout" /\ wait' = WaitBudget /\ child # "running"
              /\ child' = "terminated" /\ expired' = expired
         \/ vstep' = "stdout" /\ wait' = WaitBudget /\ child' = "killed" /\ expired' = TRUE
         \/ vstep = "poll" /\ vstep' = "stuck" /\ expired' = TRUE /\ UNCHANGED <<child, wait>>
  BY DEF EndPoll, CanEndPoll, PollFails, Unstick, CanUnstick, childVars, VersionTypeOK
<1>3. /\ DOMAIN dev' = {"found", "version", "reason"}
      /\ dev'.found \in BOOLEAN /\ dev'.version = "none"
  BY <1>1, <1>2 DEF PipesShaped, VersionTypeOK, VersionOfTaken
<1>4. WaitBudget \in 0..WaitBudget /\ WaitBudget \in Nat
  BY ProbeTimes DEF WaitBudget
<1>5. VersionTypeOK' /\ PipesShaped' /\ NothingLost'
  BY <1>1, <1>2, <1>3, <1>4, DataKept DEF VersionTypeOK
<1>6. ChildFollowsSteps'
  BY <1>1, <1>2 DEF ChildFollowsSteps
<1>7. WaitsAddUp'
  BY <1>1, <1>2, <1>4, ProbeTimes DEF WaitsAddUp, VersionTypeOK
<1>8. TakenIsRead' /\ VersionOfTaken'
  BY <1>1, <1>2, <1>3 DEF TakenIsRead, Past, VersionOfTaken
<1> QED
  BY <1>5, <1>6, <1>7, <1>8

\* A chunk is added to a pipe whose thread is not done, behind what was read.
LEMMA VersionWrites ==
    ASSUME VersionSteady, WriteChunk
    PROVE  VersionSteady'
PROOF
<1> USE DEF VersionSteady
<1>1. PICK p \in Pipes : /\ p \notin sent
                       /\ \E c \in Chunks(p) :
                            /\ pipes' = [pipes EXCEPT ![p] = Append(@, c)]
                            /\ written' = [written EXCEPT ![p] = Append(@, c)]
                       /\ UNCHANGED <<vstep, child, keeps, held, sent, taken, expired,
                                      wait, elapsed, dev>>
  BY DEF WriteChunk
<1>2. PICK c \in Chunks(p) : /\ pipes' = [pipes EXCEPT ![p] = Append(@, c)]
                           /\ written' = [written EXCEPT ![p] = Append(@, c)]
  BY <1>1
<1>3. UNCHANGED <<vstep, child, keeps, held, sent, taken, expired, wait, elapsed, dev>>
  BY <1>1
<1>4. /\ pipes'[p] = Append(pipes[p], c) /\ written'[p] = Append(written[p], c)
      /\ \A q \in Pipes \ {p} : pipes'[q] = pipes[q] /\ written'[q] = written[q]
      /\ DOMAIN pipes' = Pipes /\ DOMAIN written' = Pipes
  BY <1>2 DEF PipesShaped
<1>5. PipesShaped'
  BY <1>3, <1>4 DEF PipesShaped
<1>6. /\ pipes[p] \in Seq(Chunks(p)) /\ held[p] \in Seq(Chunks(p))
      /\ written[p] = held[p] \o pipes[p] /\ written[p] \in Seq(Chunks(p))
  BY DEF VersionTypeOK, NothingLost
<1>7. Append(pipes[p], c) \in Seq(Chunks(p)) /\ Append(written[p], c) \in Seq(Chunks(p))
  BY <1>6
<1>8. \A f \in {pipes', held', taken', written'} :
        \A q \in Pipes : f[q] \in Seq(Chunks(q))
  BY <1>3, <1>4, <1>7 DEF VersionTypeOK
<1>9. VersionTypeOK'
  BY <1>3, <1>8 DEF VersionTypeOK
<1>10. NothingLost'
  <2>1. PICK h, q, w, S :
          h = held[p] /\ q = pipes[p] /\ w = written[p] /\ S = Chunks(p)
    OBVIOUS
  <2>2. h \in Seq(S) /\ q \in Seq(S) /\ c \in S /\ w = h \o q
    BY <1>6, <2>1
  <2>3. PICK last : last = <<c>>
    OBVIOUS
  <2>4. last \in Seq(S)
    BY <2>2, <2>3
  <2>5. w \in Seq(S)
    BY <2>2, ConcatProperties
  <2>6. Append(w, c) = w \o last /\ Append(q, c) = q \o last
    BY <2>2, <2>3, <2>5, AppendIsConcat, Zenon
  <2>7. w \o last = h \o (q \o last)
    BY <2>2, <2>4, ConcatAssociative
  <2>8. written'[p] = held[p] \o Append(pipes[p], c)
    BY <1>4, <2>1, <2>6, <2>7, Zenon
  <2> QED
    BY <1>1, <1>3, <1>4, <2>8 DEF NothingLost
<1>11. ChildFollowsSteps' /\ WaitsAddUp'
  BY <1>3 DEF ChildFollowsSteps, WaitsAddUp
<1>12. TakenIsRead'
  BY <1>3 DEF TakenIsRead, Past
<1>13. Version' = Version
  BY <1>3, Zenon DEF Version
<1>14. VersionOfTaken'
  BY <1>3, <1>13 DEF VersionOfTaken
<1> QED
  BY <1>5, <1>9, <1>10, <1>11, <1>12, <1>14

\* A thread takes the first chunk, or is done: with the end of the output, or its fill.
LEMMA VersionDrains ==
    ASSUME VersionSteady, NEW p \in Pipes, DrainPipe(p)
    PROVE  VersionSteady'
PROOF
<1> USE DEF VersionSteady
<1>1. /\ p \notin sent
      /\ UNCHANGED <<vstep, child, keeps, taken, expired, wait, elapsed, written, dev>>
  BY DEF DrainPipe, CanRead
<1>2. ChildFollowsSteps' /\ WaitsAddUp'
  BY <1>1 DEF ChildFollowsSteps, WaitsAddUp
<1>3. Version' = Version
  BY <1>1, Zenon DEF Version
<1>4. VersionOfTaken'
  BY <1>1, <1>3 DEF VersionOfTaken
<1>5. CASE pipes[p] = <<>> \/ Len(held[p]) = OutputCap
  <2>1. sent' = sent \cup {p} /\ UNCHANGED <<pipes, held>>
    BY <1>5 DEF DrainPipe
  <2>2. VersionTypeOK' /\ PipesShaped'
    BY <1>1, <2>1 DEF VersionTypeOK, PipesShaped
  <2>3. NothingLost'
    BY <1>1, <1>5, <2>1 DEF NothingLost
  <2>4. TakenIsRead'
    BY <1>1, <2>1 DEF TakenIsRead, Past
  <2> QED
    BY <1>2, <1>4, <2>2, <2>3, <2>4
<1>6. CASE ~ (pipes[p] = <<>> \/ Len(held[p]) = OutputCap)
  <2>1. /\ held' = [held EXCEPT ![p] = Append(@, Head(pipes[p]))]
        /\ pipes' = [pipes EXCEPT ![p] = Tail(@)]
        /\ sent' = sent
    BY <1>6 DEF DrainPipe
  <2>2. /\ held'[p] = Append(held[p], Head(pipes[p])) /\ pipes'[p] = Tail(pipes[p])
        /\ \A q \in Pipes \ {p} : held'[q] = held[q] /\ pipes'[q] = pipes[q]
        /\ DOMAIN held' = Pipes /\ DOMAIN pipes' = Pipes
    BY <2>1 DEF PipesShaped
  <2>3. PipesShaped'
    BY <1>1, <2>2 DEF PipesShaped
  <2>4. pipes[p] \in Seq(Chunks(p)) /\ held[p] \in Seq(Chunks(p))
    BY DEF VersionTypeOK
  <2>5. /\ held'[p] \in Seq(Chunks(p)) /\ pipes'[p] \in Seq(Chunks(p))
        /\ Len(held'[p]) = Len(held[p]) + 1
        /\ held'[p] \o pipes'[p] = held[p] \o pipes[p]
    <3>1. PICK h, q, S : h = held[p] /\ q = pipes[p] /\ S = Chunks(p)
      OBVIOUS
    <3>2. h \in Seq(S) /\ q \in Seq(S) /\ q # <<>>
      BY <1>6, <2>4, <3>1
    <3>3. /\ Append(h, Head(q)) \in Seq(S) /\ Tail(q) \in Seq(S)
          /\ Len(Append(h, Head(q))) = Len(h) + 1
          /\ Append(h, Head(q)) \o Tail(q) = h \o q
      BY <3>2, ReadFromPipe, Zenon
    <3>4. held'[p] = Append(h, Head(q)) /\ pipes'[p] = Tail(q)
      BY <2>2, <3>1
    <3> QED
      BY <3>1, <3>3, <3>4, Zenon
  <2>6. \A f \in {pipes', held', taken', written'} :
          \A q \in Pipes : f[q] \in Seq(Chunks(q))
    BY <1>1, <2>2, <2>5 DEF VersionTypeOK
  <2>7. VersionTypeOK'
    BY <1>1, <2>1, <2>6 DEF VersionTypeOK
  <2>8. Len(held'[p]) <= OutputCap
    <3>1. Len(held[p]) \in Nat
      BY <2>4
    <3>2. Len(held[p]) <= OutputCap /\ Len(held[p]) # OutputCap
      BY <1>6 DEF NothingLost
    <3>3. PICK n : n = Len(held[p])
      OBVIOUS
    <3>4. n + 1 <= OutputCap
      BY <3>1, <3>2, <3>3, ProbeSizes
    <3> QED
      BY <2>5, <3>3, <3>4
  <2>9. NothingLost'
    BY <1>1, <2>1, <2>2, <2>5, <2>8 DEF NothingLost
  <2>10. TakenIsRead'
    BY <1>1, <2>1, <2>2 DEF TakenIsRead, Past
  <2> QED
    BY <1>2, <1>4, <2>3, <2>7, <2>9, <2>10
<1> QED
  BY <1>5, <1>6

\* A wait that is over without its thread has taken its whole budget.
LEMMA VersionReceives ==
    ASSUME VersionSteady, NEW p \in Pipes, Receive(p)
    PROVE  VersionSteady'
PROOF
<1> USE DEF VersionSteady
<1>1. /\ vstep = p /\ (p \in sent \/ wait = 0)
      /\ taken' = [taken EXCEPT ![p] = IF p \in sent THEN held[p] ELSE <<>>]
      /\ UNCHANGED <<child, keeps, pipes, written, held, sent, expired, elapsed, dev>>
  BY DEF Receive, CanReceive, childVars
<1>2. \/ /\ p = "stdout" /\ vstep = "stdout" /\ vstep' = "stderr" /\ wait' = WaitBudget
      \/ /\ p = "stderr" /\ vstep = "stderr" /\ vstep' = "judge" /\ wait' = wait
  BY <1>1 DEF Receive, Pipes
<1>3. /\ taken'[p] = IF p \in sent THEN held[p] ELSE <<>>
      /\ \A q \in Pipes \ {p} : taken'[q] = taken[q]
      /\ DOMAIN taken' = Pipes
  BY <1>1 DEF PipesShaped
<1>4. PipesShaped'
  BY <1>1, <1>3 DEF PipesShaped
<1>5. taken'[p] \in Seq(Chunks(p))
  BY <1>3 DEF VersionTypeOK
<1>6. \A f \in {pipes', held', taken', written'} :
        \A q \in Pipes : f[q] \in Seq(Chunks(q))
  BY <1>1, <1>3, <1>5 DEF VersionTypeOK
<1>7. WaitBudget \in Nat /\ WaitBudget \in 0..WaitBudget
  BY ProbeTimes DEF WaitBudget
<1>8. VersionTypeOK'
  BY <1>1, <1>2, <1>6, <1>7 DEF VersionTypeOK
<1>9. ChildFollowsSteps'
  BY <1>1, <1>2 DEF ChildFollowsSteps
<1>10. WaitsAddUp'
  <2>1. elapsed \in Nat /\ wait \in Nat /\ elapsed' = elapsed
    BY <1>1 DEF VersionTypeOK
  <2>2. CASE vstep' = "stderr" /\ vstep = "stdout" /\ wait' = WaitBudget
    <3>1. elapsed <= ProbeTimeout + WaitBudget
      BY <2>1, <2>2, <1>7, ProbeTimes DEF WaitsAddUp
    <3>2. elapsed + WaitBudget <= MostElapsed /\ WaitBudget <= elapsed + WaitBudget
      BY <2>1, <3>1, <1>7, ProbeTimes DEF MostElapsed
    <3> QED
      BY <2>1, <2>2, <3>2 DEF WaitsAddUp
  <2>3. CASE vstep' = "judge" /\ vstep = "stderr"
    BY <2>1, <2>3 DEF WaitsAddUp
  <2> QED
    BY <1>2, <2>2, <2>3
<1>11. NothingLost'
  BY <1>1 DEF NothingLost
<1>12. TakenIsRead'
  <2>1. ASSUME p \notin sent
        PROVE  ~ (elapsed < WaitBudget)
    BY <1>1, <1>2, <2>1, <1>7, ProbeTimes DEF WaitsAddUp, VersionTypeOK
  <2>2. elapsed < WaitBudget => p \in sent /\ taken'[p] = held[p]
    BY <2>1, <1>3
  <2>3. \A q \in Pipes : q # p /\ Past(q)' => Past(q)
    BY <1>1, <1>2 DEF Past, Pipes
  <2> QED
    BY <1>1, <1>3, <2>2, <2>3 DEF TakenIsRead
<1>13. VersionOfTaken'
  BY <1>1, <1>2 DEF VersionOfTaken
<1> QED
  BY <1>4, <1>8, <1>9, <1>10, <1>11, <1>12, <1>13

LEMMA VersionJudged ==
    ASSUME VersionSteady, Judge
    PROVE  VersionSteady'
PROOF
<1> USE DEF VersionSteady
<1>1. /\ vstep = "judge" /\ vstep' = "answered"
      /\ UNCHANGED <<child, keeps, expired, wait, elapsed>> /\ UNCHANGED dataVars
  BY DEF Judge, CanJudge, childVars, dataVars
<1>2. expired => child # "0"
  BY <1>1 DEF ChildFollowsSteps
<1>3. /\ DOMAIN dev' = {"found", "version", "reason"}
      /\ dev'.found = dev.found
      /\ dev'.version = IF ~expired /\ child = "0" THEN Version ELSE "none"
  BY DEF Judge, PipesShaped
<1>4. VersionTypeOK' /\ PipesShaped' /\ NothingLost'
  BY <1>1, <1>3, DataKept DEF VersionTypeOK
<1>5. ChildFollowsSteps' /\ WaitsAddUp'
  BY <1>1 DEF ChildFollowsSteps, WaitsAddUp
<1>6. TakenIsRead'
  BY <1>1 DEF TakenIsRead, Past, dataVars
<1>7. dev'.version = IF child = "0" THEN Version ELSE "none"
  BY <1>2, <1>3
<1>8. VersionOfTaken'
  BY <1>1, <1>7, DataKept DEF VersionOfTaken
<1> QED
  BY <1>4, <1>5, <1>6, <1>8

\* Time passes only while something is left of the wait.
LEMMA VersionTicks ==
    ASSUME VersionSteady, VersionTick
    PROVE  VersionSteady'
PROOF
<1> USE DEF VersionSteady
<1>1. /\ UNCHANGED <<vstep, child, keeps, expired, dev>> /\ UNCHANGED dataVars
      /\ vstep \in {"poll", "stdout", "stderr"}
      /\ elapsed' = elapsed + 1
      /\ wait' = IF wait > 0 THEN wait - 1 ELSE 0
  BY DEF VersionTick, childVars, dataVars
<1>2. wait # 0
  <2>1. CASE vstep = "poll"
    BY <2>1 DEF VersionTick, CanEndPoll
  <2>2. CASE vstep \in Pipes
    BY <2>2 DEF VersionTick, CanReceive
  <2> QED
    BY <1>1, <2>1, <2>2 DEF Pipes
<1>3. /\ wait \in Nat /\ elapsed \in Nat /\ WaitBudget \in Nat
      /\ wait' \in Nat /\ wait' = wait - 1
      /\ elapsed' + wait' = elapsed + wait
  BY <1>1, <1>2, ProbeTimes DEF VersionTypeOK, WaitBudget
<1>4. wait' \in 0..WaitBudget /\ elapsed' \in Nat
  BY <1>1, <1>3, ProbeTimes DEF VersionTypeOK
<1>5. VersionTypeOK' /\ PipesShaped' /\ NothingLost'
  <2>1. DOMAIN dev' = {"found", "version", "reason"} /\ dev'.found \in BOOLEAN
    BY <1>1 DEF PipesShaped, VersionTypeOK
  <2> QED
    BY <1>1, <1>4, <2>1, DataKept DEF VersionTypeOK
<1>6. ChildFollowsSteps'
  BY <1>1 DEF ChildFollowsSteps
<1>7. WaitsAddUp'
  <2>1. elapsed + wait <= MostElapsed
    BY <1>1, <1>3, ProbeTimes DEF WaitsAddUp, MostElapsed
  <2>2. elapsed' <= MostElapsed
    <3>1. MostElapsed \in Nat
      BY <1>3, ProbeTimes DEF MostElapsed
    <3>2. PICK a, b : a = elapsed' /\ b = wait'
      OBVIOUS
    <3>3. a \in Nat /\ b \in Nat /\ a + b <= MostElapsed
      BY <1>3, <1>4, <2>1, <3>2
    <3> HIDE DEF MostElapsed
    <3>4. a <= MostElapsed
      BY <3>1, <3>3
    <3> QED
      BY <3>2, <3>4
  <2> QED
    BY <1>1, <1>3, <2>2 DEF WaitsAddUp
<1>8. TakenIsRead'
  BY <1>1, <1>3, <1>4 DEF TakenIsRead, Past, dataVars
<1>9. VersionOfTaken'
  BY <1>1, DataKept DEF VersionOfTaken
<1> QED
  BY <1>5, <1>6, <1>7, <1>8, <1>9

LEMMA VersionStarts == VersionIdle => VersionSteady
PROOF
<1> SUFFICES ASSUME VersionIdle
             PROVE  VersionSteady
  OBVIOUS
<1>1. /\ \A p \in Pipes : NothingWritten[p] = <<>> /\ <<>> \in Seq(Chunks(p))
      /\ DOMAIN NothingWritten = Pipes
      /\ <<>> = <<>> \o <<>> /\ Len(<<>>) = 0
  BY DEF NothingWritten
<1>2. 0 \in 0..WaitBudget /\ 0 <= MostElapsed
  BY ProbeTimes DEF WaitBudget, MostElapsed
<1>3. VersionTypeOK /\ PipesShaped
  BY <1>1, <1>2 DEF VersionIdle, VersionTypeOK, PipesShaped, NoTool
<1>4. ChildFollowsSteps /\ WaitsAddUp
  BY <1>2 DEF VersionIdle, ChildFollowsSteps, WaitsAddUp
<1>5. NothingLost
  <2>1. \A p \in Pipes : /\ held[p] = <<>> /\ pipes[p] = <<>> /\ written[p] = <<>>
                        /\ p \notin sent
    BY <1>1 DEF VersionIdle
  <2>2. \A p \in Pipes : written[p] = held[p] \o pipes[p] /\ Len(held[p]) = 0
    BY <1>1, <2>1, Zenon
  <2>3. 0 <= OutputCap
    BY ProbeSizes
  <2> QED
    BY <2>1, <2>2, <2>3 DEF NothingLost
<1>6. TakenIsRead /\ VersionOfTaken
  BY DEF VersionIdle, TakenIsRead, Past, VersionOfTaken, NoTool
<1> QED
  BY <1>3, <1>4, <1>5, <1>6 DEF VersionSteady

LEMMA VersionRestarts == VersionIdle' => VersionSteady'
  BY VersionStarts, PTL

LEMMA VersionStep == VersionSteady /\ [VersionNext]_versionVars => VersionSteady'
PROOF
<1> SUFFICES ASSUME VersionSteady, [VersionNext]_versionVars
             PROVE  VersionSteady'
  OBVIOUS
<1>1. CASE FindTool
  BY <1>1, VersionFind
<1>2. CASE SpawnChild
  BY <1>2, VersionSpawn
<1>3. CASE ChildExits \/ KeeperExits
  BY <1>3, VersionExits
<1>4. CASE EndPoll \/ PollFails \/ Unstick
  BY <1>4, VersionPolls
<1>5. CASE WriteChunk
  BY <1>5, VersionWrites
<1>6. CASE \E p \in Pipes : DrainPipe(p)
  BY <1>6, VersionDrains
<1>7. CASE \E p \in Pipes : Receive(p)
  BY <1>7, VersionReceives
<1>8. CASE Judge
  BY <1>8, VersionJudged
<1>9. CASE VersionTick
  BY <1>9, VersionTicks
<1>10. CASE VersionReplied
  BY <1>10, VersionRestarts DEF VersionReplied, VersionIdle
<1>11. CASE UNCHANGED versionVars
  <2>1. UNCHANGED dataVars /\ UNCHANGED <<vstep, child, keeps, expired, wait, elapsed, dev>>
    BY <1>11 DEF versionVars, dataVars
  <2>2. VersionTypeOK' /\ PipesShaped' /\ ChildFollowsSteps' /\ WaitsAddUp' /\ NothingLost'
    BY <2>1 DEF VersionSteady, dataVars, VersionTypeOK, PipesShaped, ChildFollowsSteps,
       WaitsAddUp, NothingLost
  <2>3. TakenIsRead'
    BY <2>1 DEF VersionSteady, dataVars, TakenIsRead, Past
  <2>4. VersionOfTaken'
    BY <2>1, DataKept DEF VersionSteady, VersionOfTaken
  <2> QED
    BY <2>2, <2>3, <2>4 DEF VersionSteady
<1> QED
  BY <1>1, <1>2, <1>3, <1>4, <1>5, <1>6, <1>7, <1>8, <1>9, <1>10, <1>11
     DEF VersionNext, VersionProgress

\* What the waits have got is the output up to the cap, if none of them ran out.
LEMMA VersionIsHonest == VersionSteady => AnswersInTime /\ VersionHonest
PROOF
<1> SUFFICES ASSUME VersionSteady
             PROVE  AnswersInTime /\ VersionHonest
  OBVIOUS
<1> USE DEF VersionSteady
<1>1. AnswersInTime
  BY DEF AnswersInTime, WaitsAddUp, ChildFollowsSteps
<1>2. ASSUME vstep = "answered", child # "none"
      PROVE  dev.version = IF child = "0" THEN Version ELSE "none"
  BY <1>2 DEF VersionOfTaken
<1>3. ASSUME vstep = "answered", child # "none", elapsed < WaitBudget, NEW p \in Pipes
      PROVE  SubSeq(written[p], 1, IF Len(written[p]) < OutputCap THEN Len(written[p])
                                   ELSE OutputCap) = taken[p]
  <2>1. p \in sent /\ taken[p] = held[p]
    BY <1>3 DEF TakenIsRead, Past, Pipes
  <2>2. PICK h, q, S : h = held[p] /\ q = pipes[p] /\ S = Chunks(p)
    OBVIOUS
  <2>3. h \in Seq(S) /\ q \in Seq(S)
    BY <2>2 DEF VersionTypeOK
  <2>4. Len(h) <= OutputCap /\ (Len(h) = OutputCap \/ q = <<>>) /\ written[p] = h \o q
    BY <2>1, <2>2 DEF NothingLost
  <2>5. SubSeq(h \o q, 1, IF Len(h \o q) < OutputCap THEN Len(h \o q) ELSE OutputCap) = h
    BY <2>3, <2>4, ReadUpToCap, ProbeSizes
  <2> QED
    BY <2>1, <2>2, <2>4, <2>5
<1>4. VersionHonest
  <2> SUFFICES ASSUME vstep = "answered", child # "none"
               PROVE  LET shown(p) == FirstLine(SubSeq(written[p], 1,
                                         IF Len(written[p]) < OutputCap THEN Len(written[p])
                                         ELSE OutputCap))
                      IN  /\ dev.version # "none" => child = "0"
                          /\ child = "0" /\ elapsed < WaitBudget =>
                               dev.version = IF shown("stdout") # "none" THEN shown("stdout")
                                             ELSE shown("stderr")
    BY DEF VersionHonest
  <2> DEFINE cut(p) == SubSeq(written[p], 1,
                         IF Len(written[p]) < OutputCap THEN Len(written[p]) ELSE OutputCap)
  <2>1. dev.version = IF child = "0" THEN Version ELSE "none"
    BY <1>2
  <2>2. "stdout" \in Pipes /\ "stderr" \in Pipes
    BY DEF Pipes
  <2>3. elapsed < WaitBudget => cut("stdout") = taken["stdout"] /\ cut("stderr") = taken["stderr"]
    BY <1>3, <2>2
  <2> HIDE DEF cut
  <2>4. elapsed < WaitBudget =>
          Version = IF FirstLine(cut("stdout")) # "none" THEN FirstLine(cut("stdout"))
                    ELSE FirstLine(cut("stderr"))
    BY <2>3, Zenon DEF Version
  <2>5. /\ dev.version # "none" => child = "0"
        /\ child = "0" /\ elapsed < WaitBudget =>
             dev.version = IF FirstLine(cut("stdout")) # "none" THEN FirstLine(cut("stdout"))
                           ELSE FirstLine(cut("stderr"))
    BY <2>1, <2>4
  <2> QED
    BY <2>5, Zenon DEF cut
<1> QED
  BY <1>1, <1>4

\* The version probe runs the file that the order of PATH and of the extensions puts first,
\* keeps to its waits, leaves no child of its own running, and tells the first line of what a child that succeeded wrote,
\* whatever is on PATH and whoever is the slowest (`find_in_path_for`, `run_probe`).
THEOREM VersionIsSound == VersionSpec => []VersionSound
PROOF
<1>1. VersionIdle => VersionSteady
  BY VersionStarts
<1>2. VersionSteady /\ [VersionNext]_versionVars => VersionSteady'
  BY VersionStep
<1>3. VersionSteady => VersionSound
  BY VersionIsHonest, ShimIsFound DEF VersionSteady, VersionSound
<1> QED
  BY <1>1, <1>2, <1>3, PTL DEF VersionSpec

-----------------------------------------------------------------------------
(* The event logs *)

\* The places of the events the open query can return and that can be rendered.
Returnable == {i \in Matching(NextQuery, contents) : contents[i].parsable}

\* What holds at each stage of a call: a query's own handle is open only while it is
\* fetched, and only histories log.
EventStages ==
    /\ contents \in EventLogs \cup {<<>>}
    /\ full \subseteq 1..asked
    /\ estep = "idle" => /\ asked = 0 /\ handles = 0 /\ logged = {} /\ full = {}
                         /\ ~missed /\ ecall = NoEventCall
    /\ estep # "idle" => ecall \in EventCalls
    /\ estep \in {"idle", "ask"} => events = {}
    /\ estep # "render" => batch = {}
    /\ estep \notin {"fetch", "render"} => ahead = {}
    /\ queryOpen <=> estep \in {"fetch", "render"}
    /\ estep \in {"fetch", "render", "collect"} => QueriesLeft
    /\ IsHistory(ecall.tool) => asked <= Len(EventSorts(ecall.tool))
    /\ ~IsHistory(ecall.tool) =>
         logged = {} /\ full = {} /\ (estep # "answered" \/ ereply.kind = "events" => asked = 0)
    /\ ereply.kind = "none" <=> estep # "answered"

\* The events of a query are found, in the batch or still ahead, one of each, and below
\* max_results none that can be rendered is lost.
QueryFlow ==
    estep \in {"fetch", "render", "collect"} \/ ereply.kind = "events" =>
      /\ batch \cup ahead \subseteq Matching(NextQuery, contents)
      /\ events \subseteq Returnable
      /\ events \cap (batch \cup ahead) = {} /\ batch \cap ahead = {}
      /\ Cardinality(events) <= ecall.max
      /\ Cardinality(events) < ecall.max /\ ~missed =>
           Returnable \subseteq events \cup batch \cup ahead

\* The handles that are open, by the queries that met their limit.
HandlesCounted ==
    /\ estep # "render" =>
         handles <= BatchSize * (Cardinality(full) + IF AtLimit THEN 1 ELSE 0)
    /\ estep = "render" =>
         /\ ~AtLimit
         /\ Cardinality(batch) <= BatchSize
         /\ Cardinality(batch) <= handles
         /\ handles <= BatchSize * Cardinality(full) + Cardinality(batch)

\* What is logged was asked for, and a query that neither failed nor was cut off logged
\* all it asked for.
EntriesKept ==
    /\ \A x \in logged : Event(x).parsable /\ Selects(HistoryQuery(x.query), Event(x))
    /\ ~missed =>
         \A k \in 1..asked, i \in DOMAIN contents :
           k \notin full /\ contents[i].parsable /\ Selects(HistoryQuery(k), contents[i])
             => [query |-> k, at |-> i] \in logged

\* The entries of a shutdown that are not after the newest boot.
ShutdownsInTime ==
    LET boot == Latest(Times("boot"))
    IN  {x \in Retained :
           /\ IsShutdownCategory(Category(x))
           /\ \/ Event(x).time = NoEventTime \/ boot = NoEventTime
              \/ Event(x).time <= boot}

\* The answer, in the terms of what was found.
EventsTold ==
    /\ ereply.kind = "history" =>
         /\ IsHistory(ecall.tool) /\ asked = Len(EventSorts(ecall.tool))
         /\ ereply.entries = {EntryOf(x) : x \in Retained}
         /\ ereply.truncated = (full # {})
         /\ ShutdownsInTime = {} => ereply.last = "none"
         /\ ShutdownsInTime # {} =>
              \E x \in ShutdownsInTime :
                /\ ereply.last = Category(x)
                /\ \A y \in ShutdownsInTime : ~SortsBefore(y, x)
    /\ ereply.kind = "events" =>
         /\ ~IsHistory(ecall.tool)
         /\ ereply.events \subseteq events
         /\ ereply.skipped = Cardinality(events) - Cardinality(ereply.events)
         /\ ereply.truncated => Cardinality(ereply.events) = ecall.max

\* The inductive invariant of the event tools.
EventsInvariant ==
    /\ EventsTypeOK /\ EventStages /\ QueryFlow /\ HandlesCounted
    /\ EntriesKept /\ EventsTold


-----------------------------------------------------------------------------
\* A finite set has a first element in any strict order: the one with the fewest
\* before it.
LEMMA FirstInOrder ==
    ASSUME NEW S, IsFiniteSet(S), S # {}, NEW R,
           \A x \in S : <<x, x>> \notin R,
           \A x, y, z \in S : <<x, y>> \in R /\ <<y, z>> \in R => <<x, z>> \in R
    PROVE  \E x \in S : \A y \in S : <<y, x>> \notin R
PROOF
<1> DEFINE Before(x) == {y \in S : <<y, x>> \in R}
           N == {Cardinality(Before(x)) : x \in S}
           L == {ss \in Nat \X Nat : ss[1] < ss[2]}
<1>1. \A x \in S : Before(x) \in SUBSET S
  OBVIOUS
<1>2. \A x \in S : IsFiniteSet(Before(x)) /\ Cardinality(Before(x)) \in Nat
  BY <1>1, FS_Subset, FS_CardinalityType
<1>3. N \subseteq Nat /\ N # {}
  <2> HIDE DEF Before
  <2> QED
    BY <1>2
<1>4. IsWellFoundedOn(L, Nat)
  BY NatLessThanWellFounded, Zenon DEF OpToRel
<1>5. \A m, n \in Nat : m < n => <<m, n>> \in L
  OBVIOUS
<1> HIDE DEF N, L
<1>6. PICK n \in N : \A m \in N : <<m, n>> \notin L
  BY <1>3, <1>4, WFMin
<1>7. PICK x \in S : n = Cardinality(Before(x))
  BY <1>6 DEF N
<1>8. ASSUME NEW y \in S, <<y, x>> \in R PROVE FALSE
  <2>1. Before(y) \in SUBSET Before(x)
    BY <1>8
  <2>2. y \in Before(x) /\ y \notin Before(y)
    BY <1>8
  <2>3. Cardinality(Before(y)) <= Cardinality(Before(x))
          /\ Cardinality(Before(y)) # Cardinality(Before(x))
    <3>1. Before(x) # Before(y)
      BY <2>2
    <3> HIDE DEF Before
    <3> QED
      BY <1>2, <2>1, <3>1, FS_Subset
  <2>4. Cardinality(Before(y)) \in N
    BY DEF N
  <2> HIDE DEF Before
  <2>5. Cardinality(Before(y)) < n
    BY <1>2, <1>7, <2>3
  <2> QED
    BY <1>3, <1>5, <1>6, <2>4, <2>5
<1> QED
  BY <1>8

\* A batch is no greater than what EvtNext fills at once, and not empty.
LEMMA BatchIsBounded ==
    ASSUME NEW k \in Nat, NEW S \in SUBSET (1..k), NEW n \in Nat
    PROVE  /\ Newest(n, S) \subseteq S /\ IsFiniteSet(Newest(n, S))
           /\ Cardinality(Newest(n, S)) \in Nat /\ Cardinality(Newest(n, S)) <= n
PROOF
<1> DEFINE Below(i) == {j \in S : j < i}
           T == Newest(n, S)
           f == [i \in T |-> Cardinality(Below(i))]
<1>a. \A i \in S : i \in Int
  OBVIOUS
<1>b. IsFiniteSet(1..k)
  BY FS_Interval
<1>c. IsFiniteSet(S)
  BY <1>b, FS_Subset
<1>1. IsFiniteSet(S) /\ \A i \in S : Below(i) \in SUBSET S
  BY <1>c
<1>2. \A i \in S : IsFiniteSet(Below(i)) /\ Cardinality(Below(i)) \in Nat
  BY <1>1, FS_Subset, FS_CardinalityType
<1>3. T \subseteq S /\ \A i \in T : Cardinality(Below(i)) < n
  BY DEF Newest
<1>4. ASSUME NEW i \in S, NEW j \in S, i < j
      PROVE  Cardinality(Below(i)) # Cardinality(Below(j))
  <2>0. \A m \in S : m < i => m < j
    BY <1>a, <1>4
  <2>1. Below(i) \in SUBSET Below(j)
    BY <2>0
  <2>2. i \in Below(j) /\ i \notin Below(i)
    BY <1>4
  <2>3. Below(i) # Below(j)
    BY <2>2
  <2> HIDE DEF Below
  <2> QED
    BY <1>2, <2>1, <2>3, FS_Subset
<1> HIDE DEF T, Below
<1>5. f \in [T -> 0..(n - 1)]
  BY <1>2, <1>3
<1>6. \A i, j \in T : f[i] = f[j] => i = j
  <2>1. \A i \in T : i \in S /\ i \in Int
    BY <1>3
  <2>2. \A i, j \in T : i < j \/ j < i \/ i = j
    BY <2>1
  <2> QED
    BY <1>3, <1>4, <2>2
<1> HIDE DEF f
<1>7. f \in Injection(T, 0..(n - 1))
  BY <1>5, <1>6 DEF Injection, IsInjective
<1>8. IsFiniteSet(0..(n - 1)) /\ Cardinality(0..(n - 1)) = n
  BY FS_Interval
<1>9. IsFiniteSet(T) /\ Cardinality(T) <= n
  BY <1>7, <1>8, FS_Injection
<1>10. Cardinality(T) \in Nat
  BY <1>9, FS_CardinalityType
<1> QED
  BY <1>3, <1>9, <1>10 DEF T

\* Any places in a log are finitely many.
LEMMA PlacesAreFinite ==
    ASSUME NEW log \in Seq(WindowsEvent), NEW S \in SUBSET DOMAIN log
    PROVE  IsFiniteSet(S) /\ Cardinality(S) \in Nat
PROOF
<1>1. IsFiniteSet(1..Len(log)) /\ S \in SUBSET (1..Len(log))
  BY FS_Interval
<1> QED
  BY <1>1, FS_Subset, FS_CardinalityType

\* Every query of a history asks for an event that no other of its queries asks for.
LEMMA CrashQueries ==
    /\ DOMAIN CRASH_QUERIES = 1..9 /\ Len(CRASH_QUERIES) = 9
    /\ \A k \in 1..9 : CRASH_QUERIES[k].provider # Anything /\ CRASH_QUERIES[k].id # 0
    /\ \A j, k \in 1..9 : /\ CRASH_QUERIES[j].provider = CRASH_QUERIES[k].provider
                          /\ CRASH_QUERIES[j].id = CRASH_QUERIES[k].id
                          => j = k
PROOF
<1> DEFINE Q == CRASH_QUERIES
<1>1. DOMAIN Q = 1..9 /\ Len(Q) = 9
  BY DEF CRASH_QUERIES
<1>2. /\ Q[1].id = 1001 /\ Q[2].id = 41 /\ Q[3].id = 18 /\ Q[4].id = 19 /\ Q[5].id = 20
      /\ Q[6].id = 1000 /\ Q[7].id = 1002 /\ Q[8].id = 1026 /\ Q[9].id = 1001
  BY DEF CRASH_QUERIES, EventSort
<1>3. /\ Q[1].provider = "WER-SystemErrorReporting" /\ Q[2].provider = "Kernel-Power"
      /\ Q[3].provider = "WHEA-Logger" /\ Q[4].provider = "WHEA-Logger"
      /\ Q[5].provider = "WHEA-Logger" /\ Q[6].provider = "Application Error"
      /\ Q[7].provider = "Application Error" /\ Q[8].provider = ".NET Runtime"
      /\ Q[9].provider = "Windows Error Reporting"
  BY DEF CRASH_QUERIES, EventSort, KernelPower, Whea
<1> HIDE DEF Q
<1>4. \A k \in 1..9 : k \in {1, 2, 3, 4, 5, 6, 7, 8, 9}
  OBVIOUS
<1>p. Q[1].provider # Q[9].provider
  BY <1>3, Zenon
<1>q. /\ Q[1].provider # Anything /\ Q[2].provider # Anything /\ Q[3].provider # Anything
      /\ Q[4].provider # Anything /\ Q[5].provider # Anything /\ Q[6].provider # Anything
      /\ Q[7].provider # Anything /\ Q[8].provider # Anything /\ Q[9].provider # Anything
  BY <1>3, Zenon DEF Anything
<1>5. \A k \in 1..9 : Q[k].provider # Anything /\ Q[k].id # 0
  BY <1>2, <1>4, <1>q
<1>6. \A j, k \in 1..9 : Q[j].provider = Q[k].provider /\ Q[j].id = Q[k].id => j = k
  BY <1>2, <1>4, <1>p
<1> QED
  BY <1>1, <1>5, <1>6 DEF Q

\* The same of the shutdown queries, which read the System log only.
LEMMA ShutdownQueries ==
    /\ DOMAIN SHUTDOWN_QUERIES = 1..10 /\ Len(SHUTDOWN_QUERIES) = 10
    /\ \A k \in 1..10 : /\ SHUTDOWN_QUERIES[k].provider # Anything
                        /\ SHUTDOWN_QUERIES[k].id # 0 /\ SHUTDOWN_QUERIES[k].log = "System"
    /\ \A j, k \in 1..10 : SHUTDOWN_QUERIES[j].id = SHUTDOWN_QUERIES[k].id => j = k
PROOF
<1> DEFINE Q == SHUTDOWN_QUERIES
<1>1. DOMAIN Q = 1..10 /\ Len(Q) = 10
  BY DEF SHUTDOWN_QUERIES
<1>2. /\ Q[1].id = 6005 /\ Q[2].id = 12 /\ Q[3].id = 6006 /\ Q[4].id = 13
      /\ Q[5].id = 6008 /\ Q[6].id = 1074 /\ Q[7].id = 41 /\ Q[8].id = 42
      /\ Q[9].id = 107 /\ Q[10].id = 6013
  BY DEF SHUTDOWN_QUERIES, EventSort
<1>3. /\ Q[1].provider = "EventLog" /\ Q[2].provider = "Kernel-General"
      /\ Q[3].provider = "EventLog" /\ Q[4].provider = "Kernel-General"
      /\ Q[5].provider = "EventLog" /\ Q[6].provider = "User32"
      /\ Q[7].provider = "Kernel-Power" /\ Q[8].provider = "Kernel-Power"
      /\ Q[9].provider = "Kernel-Power" /\ Q[10].provider = "EventLog"
  BY DEF SHUTDOWN_QUERIES, EventSort, KernelPower, KernelGeneral
<1>4. /\ Q[1].log = "System" /\ Q[2].log = "System" /\ Q[3].log = "System"
      /\ Q[4].log = "System" /\ Q[5].log = "System" /\ Q[6].log = "System"
      /\ Q[7].log = "System" /\ Q[8].log = "System" /\ Q[9].log = "System"
      /\ Q[10].log = "System"
  BY DEF SHUTDOWN_QUERIES, EventSort
<1> HIDE DEF Q
<1>5. \A k \in 1..10 : k \in {1, 2, 3, 4, 5, 6, 7, 8, 9, 10}
  OBVIOUS
<1>6. \A k \in 1..10 : Q[k].provider # Anything /\ Q[k].id # 0 /\ Q[k].log = "System"
  BY <1>2, <1>3, <1>4, <1>5 DEF Anything
<1>7. \A j, k \in 1..10 : Q[j].id = Q[k].id => j = k
  BY <1>2, <1>5
<1> QED
  BY <1>1, <1>6, <1>7 DEF Q

\* Both at once.
LEMMA SortsOfHistory ==
    ASSUME NEW tool
    PROVE  LET Q == EventSorts(tool)
           IN  /\ Len(Q) \in Nat /\ DOMAIN Q = 1..Len(Q)
               /\ \A k \in 1..Len(Q) : Q[k].provider # Anything /\ Q[k].id # 0
               /\ \A j, k \in 1..Len(Q) :
                    Q[j].provider = Q[k].provider /\ Q[j].id = Q[k].id => j = k
               /\ tool # "crash_history" => \A k \in 1..Len(Q) : Q[k].log = "System"
PROOF
<1>1. CASE tool = "crash_history"
  <2>1. EventSorts(tool) = CRASH_QUERIES
    BY <1>1 DEF EventSorts
  <2>2. 9 \in Nat
    OBVIOUS
  <2> HIDE DEF CRASH_QUERIES
  <2>3. ~(tool # "crash_history")
    BY <1>1
  <2> QED
    BY <2>1, <2>2, <2>3, CrashQueries, Zenon
<1>2. CASE tool # "crash_history"
  <2>1. EventSorts(tool) = SHUTDOWN_QUERIES
    BY <1>2 DEF EventSorts
  <2>2. 10 \in Nat
    OBVIOUS
  <2> QED
    BY <2>1, <2>2, ShutdownQueries, Zenon
<1> QED
  BY <1>1, <1>2

-----------------------------------------------------------------------------
\* What the state says before any step.
LEMMA EventFacts ==
    ASSUME EventsInvariant
    PROVE  /\ ecall.max \in Nat /\ ecall.skip \in BOOLEAN
           /\ IsFiniteSet(events) /\ Cardinality(events) \in Nat
           /\ IsFiniteSet(batch) /\ Cardinality(batch) \in Nat
           /\ IsFiniteSet(full) /\ Cardinality(full) \in Nat
           /\ BatchSize \in Nat \ {0}
PROOF
<1>1. ecall \in EventCalls \cup {NoEventCall} /\ contents \in Seq(WindowsEvent)
        /\ ahead \cup batch \cup events \subseteq DOMAIN contents /\ asked \in Nat
        /\ full \subseteq 1..asked
  BY DEF EventsInvariant, EventsTypeOK, EventStages
<1>2. ecall.max \in Nat /\ ecall.skip \in BOOLEAN
  <2>1. CASE ecall \in EventCalls
    BY <2>1, EventCallsAssumption
  <2>2. CASE ecall = NoEventCall
    BY <2>2 DEF NoEventCall
  <2> QED
    BY <1>1, <2>1, <2>2
<1>3. IsFiniteSet(events) /\ Cardinality(events) \in Nat
      /\ IsFiniteSet(batch) /\ Cardinality(batch) \in Nat
  <2>1. events \in SUBSET DOMAIN contents /\ batch \in SUBSET DOMAIN contents
    BY <1>1
  <2> QED
    BY <1>1, <2>1, PlacesAreFinite
<1>4. IsFiniteSet(full) /\ Cardinality(full) \in Nat
  <2>1. IsFiniteSet(1..asked) /\ full \in SUBSET (1..asked)
    BY <1>1, FS_Interval
  <2> QED
    BY <2>1, FS_Subset, FS_CardinalityType
<1> QED
  BY <1>2, <1>3, <1>4, BatchAssumption

\* A step that leaves the call, the logs and the number of queries asked keeps what
\* the query asks.
LEMMA QueryFrame ==
    ASSUME UNCHANGED <<ecall, contents, asked>>
    PROVE  /\ NextQuery' = NextQuery /\ Returnable' = Returnable
           /\ Matching(NextQuery, contents)' = Matching(NextQuery, contents)
           /\ QueriesLeft' = QueriesLeft
           /\ IsHistory(ecall.tool)' = IsHistory(ecall.tool)
           /\ EventSorts(ecall.tool)' = EventSorts(ecall.tool)
PROOF
<1>1. /\ NextQuery' = NextQuery /\ IsHistory(ecall.tool)' = IsHistory(ecall.tool)
      /\ EventSorts(ecall.tool)' = EventSorts(ecall.tool)
      /\ QueriesLeft' = QueriesLeft
  BY DEF NextQuery, HistoryQuery, IsHistory, EventSorts, QueriesLeft
<1>2. Matching(NextQuery, contents)' = Matching(NextQuery, contents)
  BY <1>1 DEF Matching
<1>3. Returnable' = Returnable
  BY <1>2 DEF Returnable
<1> QED
  BY <1>1, <1>2, <1>3

\* What has been collected stays true of the logs while neither changes.
LEMMA EntriesFrame ==
    ASSUME EventsInvariant, UNCHANGED <<ecall, contents, asked, logged, full>>,
           missed' = missed \/ missed'
    PROVE  EntriesKept'
PROOF
<1>1. \A k : HistoryQuery(k)' = HistoryQuery(k)
  BY DEF HistoryQuery
<1>2. \A x : Event(x)' = Event(x)
  BY DEF Event
<1>3. EntriesKept
  BY DEF EventsInvariant
<1> QED
  BY <1>1, <1>2, <1>3 DEF EntriesKept

\* The invariant at the start, and over each step.
LEMMA EventsStart == EventsIdle => EventsInvariant
PROOF
<1> SUFFICES ASSUME EventsIdle PROVE EventsInvariant
  OBVIOUS
<1> USE DEF EventsIdle
<1>0. <<>> \in Seq(WindowsEvent) /\ DOMAIN <<>> = {}
  OBVIOUS
<1>1. EventsTypeOK
  <2>1. ereply.kind = "none"
    BY DEF NoEventReply
  <2>2. contents \in Seq(WindowsEvent) /\ ahead \cup batch \cup events \subseteq DOMAIN contents
    BY <1>0
  <2>3. logged \subseteq [query : 1..asked, at : DOMAIN contents]
    OBVIOUS
  <2>a. /\ asked = 0 /\ handles = 0 /\ warnings = 0 /\ mishaps = 0
        /\ queryOpen = FALSE /\ missed = FALSE
    OBVIOUS
  <2>4. {asked, handles, warnings, mishaps} \subseteq Nat
    BY <2>a
  <2>7. {queryOpen, missed} \subseteq BOOLEAN
    BY <2>a, Zenon
  <2>5. ecall \in EventCalls \cup {NoEventCall}
    OBVIOUS
  <2>6. estep = "idle"
    OBVIOUS
  <2> HIDE DEF EventsIdle
  <2> QED
    BY <2>1, <2>2, <2>3, <2>4, <2>5, <2>6, <2>7 DEF EventsTypeOK
<1>2. ~IsHistory(ecall.tool)
  BY DEF NoEventCall, IsHistory
<1>3. EventStages
  BY <1>2 DEF EventStages, NoEventReply
<1>4. QueryFlow
  BY DEF QueryFlow, NoEventReply
<1>5. ~AtLimit
  BY FS_EmptySet DEF AtLimit, NoEventCall
<1>6. HandlesCounted
  BY <1>5, FS_EmptySet, BatchAssumption DEF HandlesCounted
<1>7. EntriesKept
  BY DEF EntriesKept
<1>8. EventsTold
  BY DEF EventsTold, NoEventReply
<1> QED
  BY <1>1, <1>3, <1>4, <1>6, <1>7, <1>8 DEF EventsInvariant

LEMMA AcceptEventCallKeeps ==
    ASSUME EventsInvariant, AcceptEventCall PROVE EventsInvariant'
PROOF
<1> USE DEF AcceptEventCall
<1>0. EventsTypeOK /\ EventStages /\ estep = "idle"
  BY DEF EventsInvariant
<1>1. /\ asked = 0 /\ handles = 0 /\ logged = {} /\ full = {} /\ ~missed
      /\ events = {} /\ batch = {} /\ ahead = {} /\ ~queryOpen /\ ereply.kind = "none"
  BY <1>0 DEF EventStages
<1>2. contents' \in Seq(WindowsEvent)
  BY EventLogsAssumption
<1>3. EventsTypeOK'
  BY <1>0, <1>1, <1>2 DEF EventsTypeOK
<1>4. IsHistory(ecall.tool)' => asked' <= Len(EventSorts(ecall.tool)')
  BY <1>1, SortsOfHistory
<1>5. EventStages'
  BY <1>0, <1>1, <1>4 DEF EventStages
<1>6. QueryFlow'
  BY <1>1 DEF QueryFlow
<1>7. HandlesCounted'
  <2>1. handles' = 0 /\ full' = {} /\ estep' # "render"
    BY <1>1
  <2> QED
    BY <2>1, FS_EmptySet, BatchAssumption DEF HandlesCounted
<1>8. EntriesKept'
  BY <1>1 DEF EntriesKept
<1>9. EventsTold'
  BY <1>1 DEF EventsTold
<1> QED
  BY <1>3, <1>5, <1>6, <1>7, <1>8, <1>9 DEF EventsInvariant

LEMMA OpenQueryKeeps ==
    ASSUME EventsInvariant, OpenQuery PROVE EventsInvariant'
PROOF
<1> USE DEF OpenQuery
<1>0. EventsTypeOK /\ EventStages /\ HandlesCounted /\ estep = "ask" /\ estep' = "fetch"
  BY DEF EventsInvariant
<1>1. /\ events = {} /\ batch = {} /\ ahead = {} /\ ereply.kind = "none"
  BY <1>0 DEF EventStages
<1>f. /\ NextQuery' = NextQuery /\ Returnable' = Returnable
      /\ Matching(NextQuery, contents)' = Matching(NextQuery, contents)
      /\ QueriesLeft' = QueriesLeft
      /\ IsHistory(ecall.tool)' = IsHistory(ecall.tool)
      /\ EventSorts(ecall.tool)' = EventSorts(ecall.tool)
  BY QueryFrame
<1>2. ahead' \subseteq DOMAIN contents
  BY DEF Matching
<1>3. EventsTypeOK'
  BY <1>0, <1>2 DEF EventsTypeOK
<1>4. EventStages'
  BY <1>0, <1>1, <1>f DEF EventStages
<1>5. Returnable \subseteq Matching(NextQuery, contents)
  BY DEF Returnable
<1>6. QueryFlow'
  <2>1. Cardinality(events) = 0 /\ ecall.max \in Nat
    BY <1>1, FS_EmptySet, EventFacts
  <2>2. ahead' = Matching(NextQuery, contents) /\ events' = {} /\ batch' = {}
          /\ ecall' = ecall
    BY <1>1
  <2> QED
    BY <1>1, <1>5, <1>f, <2>1, <2>2 DEF QueryFlow
<1>7. HandlesCounted'
  BY <1>0 DEF HandlesCounted, AtLimit
<1>8. EntriesKept'
  BY EntriesFrame
<1>9. EventsTold'
  BY <1>1 DEF EventsTold
<1> QED
  BY <1>3, <1>4, <1>6, <1>7, <1>8, <1>9 DEF EventsInvariant

LEMMA OpenFailsKeeps ==
    ASSUME EventsInvariant, OpenFails PROVE EventsInvariant'
PROOF
<1> USE DEF OpenFails, EventMishap
<1>0. EventsTypeOK /\ EventStages /\ HandlesCounted /\ EntriesKept /\ estep = "ask"
        /\ QueriesLeft /\ missed'
  BY DEF EventsInvariant
<1>1. /\ events = {} /\ batch = {} /\ ahead = {} /\ ereply.kind = "none"
      /\ ~queryOpen /\ asked \in Nat
  BY <1>0 DEF EventStages, EventsTypeOK
<1>f. IsHistory(ecall.tool)' = IsHistory(ecall.tool)
        /\ EventSorts(ecall.tool)' = EventSorts(ecall.tool)
  BY DEF IsHistory, EventSorts
<1>2. asked' = asked + 1 /\ 1..asked \subseteq 1..asked'
  BY <1>1
<1>3. \/ IsHistory(ecall.tool) /\ estep' = "ask" /\ ereply' = ereply
      \/ ~IsHistory(ecall.tool) /\ estep' = "answered" /\ ereply'.kind = "error"
  <2>1. CASE IsHistory(ecall.tool)
    BY <1>0, <2>1
  <2>2. CASE ~IsHistory(ecall.tool)
    BY <1>0, <2>2
  <2> QED
    BY <2>1, <2>2
<1>4. EventsTypeOK'
  <2>1. {asked, handles, warnings, mishaps}' \subseteq Nat
    BY <1>0, <1>1 DEF EventsTypeOK
  <2>2. logged' \subseteq [query : 1..asked', at : DOMAIN contents']
    BY <1>0, <1>2 DEF EventsTypeOK
  <2>3. ereply'.kind \in {"none", "error", "events", "history"}
    BY <1>1, <1>3
  <2>4. estep' \in {"idle", "ask", "fetch", "render", "collect", "answered"}
    BY <1>3
  <2> QED
    BY <1>0, <2>1, <2>2, <2>3, <2>4 DEF EventsTypeOK
<1>5. EventStages'
  <2>1. IsHistory(ecall.tool) => asked' <= Len(EventSorts(ecall.tool))
    BY <1>0, <1>1, <1>2, SortsOfHistory DEF QueriesLeft
  <2>2. full' \subseteq 1..asked'
    BY <1>0, <1>2 DEF EventStages
  <2> QED
    BY <1>0, <1>1, <1>3, <1>f, <2>1, <2>2 DEF EventStages
<1>6. QueryFlow'
  BY <1>1, <1>3 DEF QueryFlow
<1>7. HandlesCounted'
  BY <1>0, <1>3 DEF HandlesCounted, AtLimit
<1>8. EntriesKept'
  <2>1. \A k : HistoryQuery(k)' = HistoryQuery(k)
    BY DEF HistoryQuery
  <2>2. \A x : Event(x)' = Event(x)
    BY DEF Event
  <2> QED
    BY <1>0, <2>1, <2>2 DEF EntriesKept
<1>9. EventsTold'
  BY <1>1, <1>3 DEF EventsTold
<1> QED
  BY <1>4, <1>5, <1>6, <1>7, <1>8, <1>9 DEF EventsInvariant

LEMMA FetchBatchKeeps ==
    ASSUME EventsInvariant, FetchBatch PROVE EventsInvariant'
PROOF
<1> USE DEF FetchBatch
<1>0. EventsTypeOK /\ EventStages /\ HandlesCounted /\ QueryFlow /\ estep = "fetch"
        /\ estep' = "render"
  BY DEF EventsInvariant
<1>1. batch = {} /\ ereply.kind = "none" /\ QueriesLeft
      /\ contents \in Seq(WindowsEvent) /\ ahead \subseteq DOMAIN contents
      /\ handles \in Nat
  BY <1>0 DEF EventStages, EventsTypeOK
<1>f. /\ NextQuery' = NextQuery /\ Returnable' = Returnable
      /\ Matching(NextQuery, contents)' = Matching(NextQuery, contents)
      /\ QueriesLeft' = QueriesLeft
      /\ IsHistory(ecall.tool)' = IsHistory(ecall.tool)
      /\ EventSorts(ecall.tool)' = EventSorts(ecall.tool)
  BY QueryFrame
<1>2. /\ batch' \subseteq ahead /\ ahead' = ahead \ batch'
      /\ Cardinality(batch') \in Nat /\ Cardinality(batch') <= BatchSize
  <2>1. Len(contents) \in Nat /\ ahead \in SUBSET (1..Len(contents)) /\ BatchSize \in Nat
    BY <1>1, BatchAssumption
  <2> QED
    BY <2>1, BatchIsBounded
<1>h. handles' = handles + Cardinality(batch')
  OBVIOUS
<1>g. /\ UNCHANGED <<ecall, contents, asked, queryOpen, events, logged, full,
                     warnings, missed, mishaps, ereply>>
  OBVIOUS
<1>n. ~AtLimit
  OBVIOUS
<1> HIDE DEF FetchBatch
<1>3. EventsTypeOK'
  <2>1. handles' \in Nat
    BY <1>1, <1>2, <1>h
  <2>2. ahead' \cup batch' \cup events' \subseteq DOMAIN contents'
    BY <1>0, <1>2, <1>g DEF EventsTypeOK
  <2> QED
    BY <1>0, <1>g, <2>1, <2>2 DEF EventsTypeOK
<1>4. EventStages'
  BY <1>0, <1>1, <1>f, <1>g DEF EventStages
<1>6. QueryFlow'
  BY <1>0, <1>1, <1>2, <1>f, <1>g DEF QueryFlow
<1>7. HandlesCounted'
  <2>1. handles <= BatchSize * (Cardinality(full) + 0)
    BY <1>0, <1>n DEF HandlesCounted
  <2>2. AtLimit' = AtLimit
    BY <1>g DEF AtLimit
  <2>3. /\ Cardinality(full) \in Nat /\ BatchSize \in Nat /\ full' = full
    BY EventFacts, <1>g
  <2>4. handles <= BatchSize * Cardinality(full)
    BY <2>1, <2>3
  <2>5. BatchSize * Cardinality(full) \in Nat
    BY <2>3
  <2>6. Cardinality(batch') <= handles'
          /\ handles' <= BatchSize * Cardinality(full) + Cardinality(batch')
    BY <1>1, <1>2, <1>h, <2>4, <2>5
  <2> QED
    BY <1>0, <1>2, <1>n, <2>2, <2>3, <2>6 DEF HandlesCounted
<1>8. EntriesKept'
  BY <1>g, EntriesFrame
<1>9. EventsTold'
  BY <1>1, <1>g DEF EventsTold
<1> QED
  BY <1>3, <1>4, <1>6, <1>7, <1>8, <1>9 DEF EventsInvariant

LEMMA FetchEndsKeeps ==
    ASSUME EventsInvariant, FetchEnds PROVE EventsInvariant'
PROOF
<1>0. EventsTypeOK /\ EventStages /\ HandlesCounted /\ QueryFlow /\ estep = "fetch"
        /\ estep' = "collect"
  BY DEF EventsInvariant, FetchEnds
<1>1. batch = {} /\ ereply.kind = "none" /\ QueriesLeft
  BY <1>0 DEF EventStages
<1>f. /\ NextQuery' = NextQuery /\ Returnable' = Returnable
      /\ Matching(NextQuery, contents)' = Matching(NextQuery, contents)
      /\ QueriesLeft' = QueriesLeft
      /\ IsHistory(ecall.tool)' = IsHistory(ecall.tool)
      /\ EventSorts(ecall.tool)' = EventSorts(ecall.tool)
  BY QueryFrame DEF FetchEnds
<1>g. /\ UNCHANGED <<ecall, contents, asked, batch, handles, events, logged, full,
                     warnings, ereply>>
      /\ queryOpen' = FALSE /\ ahead' = {}
  BY DEF FetchEnds
<1>2. \/ AtLimit /\ missed' = missed /\ mishaps' = mishaps
      \/ ahead = {} /\ missed' = missed /\ mishaps' = mishaps
      \/ missed' /\ missed' \in BOOLEAN /\ mishaps' = mishaps + 1
  <2>1. CASE /\ AtLimit \/ ahead = {}
             /\ UNCHANGED <<mishaps, missed>>
    BY <2>1
  <2>2. CASE EventMishap
    BY <2>2 DEF EventMishap
  <2> QED
    BY <2>1, <2>2 DEF FetchEnds
<1>3. EventsTypeOK'
  <2>1. mishaps' \in Nat /\ missed' \in BOOLEAN
    BY <1>0, <1>2 DEF EventsTypeOK
  <2> QED
    BY <1>0, <1>g, <2>1 DEF EventsTypeOK
<1>4. EventStages'
  BY <1>0, <1>1, <1>f, <1>g DEF EventStages
<1>6. QueryFlow'
  <2>1. /\ events \subseteq Returnable /\ Cardinality(events) <= ecall.max
        /\ Cardinality(events) < ecall.max /\ ~missed => Returnable \subseteq events \cup ahead
    BY <1>0, <1>1 DEF QueryFlow
  <2>2. AtLimit => ~(Cardinality(events) < ecall.max)
    BY EventFacts DEF AtLimit
  <2>3. Cardinality(events) < ecall.max /\ ~missed' => Returnable \subseteq events
    BY <1>2, <2>1, <2>2
  <2> QED
    BY <1>0, <1>1, <1>f, <1>g, <2>1, <2>3 DEF QueryFlow
<1>7. HandlesCounted'
  BY <1>0, <1>g DEF HandlesCounted, AtLimit
<1>8. EntriesKept'
  <2>1. missed' = missed \/ missed'
    BY <1>2
  <2> QED
    BY <1>g, <2>1, EntriesFrame
<1>9. EventsTold'
  BY <1>1, <1>g DEF EventsTold
<1> QED
  BY <1>3, <1>4, <1>6, <1>7, <1>8, <1>9 DEF EventsInvariant

LEMMA RenderEventKeeps ==
    ASSUME EventsInvariant, RenderEvent PROVE EventsInvariant'
PROOF
<1> DEFINE i == Min(batch)
           last == contents[i].parsable /\ Cardinality(events) + 1 >= ecall.max
<1>0. EventsTypeOK /\ EventStages /\ HandlesCounted /\ QueryFlow /\ estep = "render"
        /\ batch # {}
  BY DEF EventsInvariant, RenderEvent
<1>1. /\ ereply.kind = "none" /\ QueriesLeft /\ contents \in Seq(WindowsEvent)
      /\ batch \subseteq DOMAIN contents /\ handles \in Nat /\ queryOpen
  BY <1>0 DEF EventStages, EventsTypeOK
<1>2. i \in batch
  <2>1. batch \subseteq Nat
    BY <1>1
  <2> QED
    BY <1>0, <2>1, MinIsIn
<1>f. /\ NextQuery' = NextQuery /\ Returnable' = Returnable
      /\ Matching(NextQuery, contents)' = Matching(NextQuery, contents)
      /\ QueriesLeft' = QueriesLeft
      /\ IsHistory(ecall.tool)' = IsHistory(ecall.tool)
      /\ EventSorts(ecall.tool)' = EventSorts(ecall.tool)
  BY QueryFrame DEF RenderEvent
<1>g. /\ UNCHANGED <<ecall, contents, asked, ahead, queryOpen, logged, full,
                     warnings, missed, mishaps, ereply>>
      /\ events' = IF contents[i].parsable THEN events \cup {i} ELSE events
      /\ batch' = IF last THEN {} ELSE batch \ {i}
      /\ handles' = IF last THEN handles ELSE handles - 1
      /\ estep' = IF batch' = {} THEN "fetch" ELSE "render"
  BY DEF RenderEvent
<1>3. /\ batch \cup ahead \subseteq Matching(NextQuery, contents)
      /\ events \subseteq Returnable
      /\ events \cap (batch \cup ahead) = {} /\ batch \cap ahead = {}
      /\ Cardinality(events) <= ecall.max
      /\ Cardinality(events) < ecall.max /\ ~missed =>
           Returnable \subseteq events \cup batch \cup ahead
  BY <1>0 DEF QueryFlow
<1>4. /\ Cardinality(batch) <= BatchSize /\ Cardinality(batch) <= handles
      /\ handles <= BatchSize * Cardinality(full) + Cardinality(batch)
      /\ Cardinality(events) < ecall.max
  BY <1>0, EventFacts DEF HandlesCounted, AtLimit
<1> HIDE DEF i
<1>5. i \in DOMAIN contents /\ i \notin events /\ i \in Matching(NextQuery, contents)
  BY <1>1, <1>2, <1>3
<1>6. Cardinality(events') = IF contents[i].parsable THEN Cardinality(events) + 1
                             ELSE Cardinality(events)
  BY <1>5, <1>g, EventFacts, FS_AddElement
<1>7. Cardinality(batch \ {i}) = Cardinality(batch) - 1
  BY <1>2, EventFacts, FS_RemoveElement
<1>8. /\ Cardinality(events) \in Nat /\ ecall.max \in Nat /\ Cardinality(full) \in Nat
      /\ Cardinality(batch) \in Nat /\ BatchSize \in Nat
  BY EventFacts
<1>9. Cardinality(batch) >= 1
  BY <1>0, <1>8, EventFacts, FS_EmptySet
<1>b. contents[i].parsable \in BOOLEAN
  <2>1. contents[i] \in WindowsEvent
    BY <1>1, <1>5
  <2> QED
    BY <2>1 DEF WindowsEvent
<1>10. EventsTypeOK'
  <2>1. handles' \in Nat
    BY <1>1, <1>4, <1>8, <1>9, <1>g
  <2>2. ahead' \cup batch' \cup events' \subseteq DOMAIN contents'
    BY <1>0, <1>5, <1>g DEF EventsTypeOK
  <2>3. estep' \in {"fetch", "render"}
    BY <1>g
  <2> QED
    BY <1>0, <1>g, <2>1, <2>2, <2>3 DEF EventsTypeOK
<1>11. EventStages'
  <2>1. \/ estep' = "fetch" /\ batch' = {}
        \/ estep' = "render" /\ batch' # {}
    BY <1>g
  <2> QED
    BY <1>0, <1>1, <1>f, <1>g, <2>1 DEF EventStages
<1>12. QueryFlow'
  <2>1. /\ batch' \subseteq batch /\ events' \subseteq events \cup {i} /\ i \notin batch'
        /\ i \notin ahead
    BY <1>2, <1>3, <1>g
  <2>2. events' \subseteq Returnable
    BY <1>3, <1>5, <1>g DEF Returnable
  <2>3. Cardinality(events') <= ecall.max
    BY <1>4, <1>6, <1>8
  <2>4. ASSUME Cardinality(events') < ecall.max, ~missed
        PROVE  Returnable \subseteq events' \cup batch' \cup ahead
    <3>1. ~last
      BY <1>6, <1>8, <2>4
    <3>2. batch' = batch \ {i}
      BY <3>1, <1>g
    <3>3. i \in Returnable => i \in events'
      BY <1>g DEF Returnable
    <3>4. events \subseteq events'
      BY <1>g
    <3> QED
      BY <1>3, <1>4, <2>4, <3>2, <3>3, <3>4
  <2>5. events' \cap (batch' \cup ahead) = {} /\ batch' \cap ahead = {}
    BY <1>3, <2>1
  <2>6. batch' \cup ahead \subseteq Matching(NextQuery, contents)
    BY <1>3, <2>1
  <2> QED
    BY <1>f, <1>g, <2>2, <2>3, <2>4, <2>5, <2>6 DEF QueryFlow
<1>13. HandlesCounted'
  <2>1. BatchSize * Cardinality(full) \in Nat
    BY <1>8
  <2>2. AtLimit' = (Cardinality(events') >= ecall.max) /\ full' = full
    BY <1>g DEF AtLimit
  <2>3. CASE last
    <3>1. AtLimit' /\ estep' = "fetch" /\ handles' = handles
      BY <1>6, <1>g, <2>2, <2>3
    <3>2. BatchSize * (Cardinality(full) + 1) = BatchSize * Cardinality(full) + BatchSize
      BY <1>8
    <3>3. handles' <= BatchSize * (Cardinality(full) + 1)
      BY <1>1, <1>4, <1>8, <2>1, <3>1, <3>2
    <3> QED
      BY <2>2, <3>1, <3>3 DEF HandlesCounted
  <2>4. CASE ~last
    <3>1. ~AtLimit'
      <4>1. CASE contents[i].parsable
        <5>1. ~(Cardinality(events) + 1 >= ecall.max)
          BY <2>4, <4>1
        <5> QED
          BY <1>6, <1>8, <2>2, <4>1, <5>1
      <4>2. CASE ~contents[i].parsable
        <5>1. events' = events
          BY <1>g, <4>2
        <5>2. ~(Cardinality(events) >= ecall.max)
          BY <1>4, <1>8
        <5> QED
          BY <2>2, <5>1, <5>2
      <4> QED
        BY <4>1, <4>2
    <3>2. /\ batch' = batch \ {i} /\ handles' = handles - 1
          /\ Cardinality(batch') = Cardinality(batch) - 1
      BY <1>7, <1>g, <2>4
    <3>3. /\ Cardinality(batch') <= BatchSize /\ Cardinality(batch') <= handles'
          /\ handles' <= BatchSize * Cardinality(full) + Cardinality(batch')
      BY <1>1, <1>4, <1>8, <2>1, <3>2
    <3>4. estep' # "render" => Cardinality(batch') = 0
      BY <1>g, FS_EmptySet
    <3>5. estep' # "render" => handles' <= BatchSize * (Cardinality(full) + 0)
      BY <1>8, <2>1, <3>3, <3>4
    <3> QED
      BY <2>2, <3>1, <3>3, <3>5 DEF HandlesCounted
  <2> QED
    BY <2>3, <2>4
<1>14. EntriesKept'
  BY <1>g, EntriesFrame
<1>15. EventsTold'
  BY <1>1, <1>g DEF EventsTold
<1> QED
  BY <1>10, <1>11, <1>12, <1>13, <1>14, <1>15 DEF EventsInvariant

LEMMA AnswerQueryKeeps ==
    ASSUME EventsInvariant, AnswerQuery PROVE EventsInvariant'
PROOF
<1> DEFINE told == IF ecall.skip THEN {i \in events : contents[i].message} ELSE events
<1>0. EventsTypeOK /\ EventStages /\ HandlesCounted /\ QueryFlow /\ estep = "collect"
        /\ estep' = "answered" /\ ~IsHistory(ecall.tool)
  BY DEF EventsInvariant, AnswerQuery
<1>1. asked = 0 /\ ereply.kind = "none" /\ batch = {} /\ ahead = {}
  BY <1>0 DEF EventStages
<1>f. /\ NextQuery' = NextQuery /\ Returnable' = Returnable
      /\ Matching(NextQuery, contents)' = Matching(NextQuery, contents)
      /\ IsHistory(ecall.tool)' = IsHistory(ecall.tool)
      /\ EventSorts(ecall.tool)' = EventSorts(ecall.tool)
  BY QueryFrame DEF AnswerQuery
<1>g. /\ UNCHANGED <<ecall, contents, asked, ahead, batch, handles, queryOpen,
                     events, logged, full, warnings, missed, mishaps>>
      /\ ereply' = [kind |-> "events", events |-> told,
                    truncated |-> Cardinality(told) = ecall.max,
                    skipped |-> Cardinality(events) - Cardinality(told)]
  BY DEF AnswerQuery
<1>2. told \subseteq events
  OBVIOUS
<1> HIDE DEF told
<1>3. /\ ereply'.kind = "events" /\ ereply'.events = told
      /\ ereply'.truncated = (Cardinality(told) = ecall.max)
      /\ ereply'.skipped = Cardinality(events) - Cardinality(told)
  BY <1>g
<1>4. EventsTypeOK'
  BY <1>0, <1>3, <1>g DEF EventsTypeOK
<1>5. EventStages'
  BY <1>0, <1>1, <1>3, <1>f, <1>g DEF EventStages
<1>6. QueryFlow'
  BY <1>0, <1>f, <1>g DEF QueryFlow
<1>7. HandlesCounted'
  BY <1>0, <1>g DEF HandlesCounted, AtLimit
<1>8. EntriesKept'
  BY <1>g, EntriesFrame
<1>9. EventsTold'
  <2>1. ereply'.truncated => Cardinality(ereply'.events) = ecall'.max
    BY <1>3, <1>g
  <2> QED
    BY <1>0, <1>2, <1>3, <1>f, <1>g, <2>1 DEF EventsTold
<1> QED
  BY <1>4, <1>5, <1>6, <1>7, <1>8, <1>9 DEF EventsInvariant

LEMMA CollectEntriesKeeps ==
    ASSUME EventsInvariant, CollectEntries PROVE EventsInvariant'
PROOF
<1>0. EventsTypeOK /\ EventStages /\ HandlesCounted /\ QueryFlow /\ EntriesKept
        /\ estep = "collect" /\ estep' = "ask" /\ IsHistory(ecall.tool)
  BY DEF EventsInvariant, CollectEntries
<1>1. /\ asked \in Nat /\ ereply.kind = "none" /\ batch = {} /\ ahead = {} /\ QueriesLeft
      /\ full \subseteq 1..asked /\ logged \subseteq [query : 1..asked, at : DOMAIN contents]
      /\ events \subseteq DOMAIN contents /\ handles \in Nat /\ ~queryOpen
  BY <1>0 DEF EventStages, EventsTypeOK
<1>g. /\ UNCHANGED <<ecall, contents, ahead, batch, handles, queryOpen, warnings,
                     missed, mishaps, ereply>>
      /\ logged' = logged \cup [query : {asked + 1}, at : events]
      /\ full' = IF Cardinality(events) = ecall.max THEN full \cup {asked + 1} ELSE full
      /\ events' = {} /\ asked' = asked + 1
  BY DEF CollectEntries
<1>f. IsHistory(ecall.tool)' = IsHistory(ecall.tool)
        /\ EventSorts(ecall.tool)' = EventSorts(ecall.tool)
  BY <1>g DEF IsHistory, EventSorts
<1>2. 1..asked \subseteq 1..asked' /\ asked + 1 \in 1..asked' /\ asked + 1 \notin full
  BY <1>1, <1>g
<1>k. ASSUME NEW k \in 1..asked' PROVE k \in 1..asked \/ k = asked + 1
  BY <1>1, <1>g
<1>3. full' \subseteq 1..asked' /\ full \subseteq full'
  BY <1>1, <1>2, <1>g
<1>4. NextQuery = HistoryQuery(asked + 1)
  BY <1>0 DEF NextQuery
<1>5. \A k : HistoryQuery(k)' = HistoryQuery(k)
  BY <1>g DEF HistoryQuery
<1>6. \A x : Event(x)' = Event(x)
  BY <1>g DEF Event
<1>7. /\ events \subseteq Returnable /\ Cardinality(events) <= ecall.max
      /\ Cardinality(events) < ecall.max /\ ~missed => Returnable \subseteq events
  BY <1>0, <1>1 DEF QueryFlow
<1>8. EventsTypeOK'
  <2>1. logged' \subseteq [query : 1..asked', at : DOMAIN contents']
    <3>1. [query : {asked + 1}, at : events] \subseteq [query : 1..asked', at : DOMAIN contents']
      BY <1>1, <1>2, <1>g
    <3>2. [query : 1..asked, at : DOMAIN contents] \subseteq [query : 1..asked', at : DOMAIN contents']
      BY <1>2, <1>g
    <3> QED
      BY <1>1, <1>g, <3>1, <3>2
  <2>2. asked' \in Nat
    BY <1>1, <1>g
  <2> QED
    BY <1>0, <1>g, <2>1, <2>2 DEF EventsTypeOK
<1>9. EventStages'
  <2>1. asked' <= Len(EventSorts(ecall.tool))
    BY <1>0, <1>1, <1>g, SortsOfHistory DEF QueriesLeft
  <2> QED
    BY <1>0, <1>1, <1>3, <1>f, <1>g, <2>1 DEF EventStages
<1>10. QueryFlow'
  BY <1>0, <1>1, <1>g DEF QueryFlow
<1>11. HandlesCounted'
  <2>1. /\ Cardinality(full) \in Nat /\ BatchSize \in Nat /\ IsFiniteSet(full)
        /\ Cardinality(events) \in Nat /\ ecall.max \in Nat
    BY EventFacts
  <2>2. handles <= BatchSize * (Cardinality(full) + IF AtLimit THEN 1 ELSE 0)
    BY <1>0 DEF HandlesCounted
  <2>3. CASE Cardinality(events) = ecall.max
    <3>1. AtLimit
      BY <2>1, <2>3 DEF AtLimit
    <3>2. full' = full \cup {asked + 1}
      BY <1>g, <2>3
    <3>3. Cardinality(full') = Cardinality(full) + 1
      BY <1>2, <2>1, <3>2, FS_AddElement
    <3>4. handles <= BatchSize * Cardinality(full')
      BY <2>1, <2>2, <3>1, <3>3
    <3>5. Cardinality(full') \in Nat
      BY <2>1, <3>3
    <3>6. handles <= BatchSize * (Cardinality(full') + 0)
      BY <3>4, <3>5
    <3>7. BatchSize * (Cardinality(full') + 1) = BatchSize * Cardinality(full') + BatchSize
      BY <2>1, <3>5
    <3>8. BatchSize * Cardinality(full') \in Nat
      BY <2>1, <3>5
    <3>9. handles <= BatchSize * (Cardinality(full') + 1)
      BY <1>1, <2>1, <3>4, <3>7, <3>8
    <3> QED
      BY <1>0, <1>g, <3>6, <3>9 DEF HandlesCounted
  <2>4. CASE Cardinality(events) # ecall.max
    <3>1. ~AtLimit
      BY <1>7, <2>1, <2>4 DEF AtLimit
    <3>2. full' = full
      BY <1>g, <2>4
    <3>3. handles <= BatchSize * (Cardinality(full) + 0)
      BY <2>2, <3>1
    <3>7. BatchSize * (Cardinality(full) + 1) = BatchSize * Cardinality(full) + BatchSize
      BY <2>1
    <3>8. BatchSize * Cardinality(full) \in Nat
      BY <2>1
    <3>4. handles <= BatchSize * (Cardinality(full) + 1)
      BY <1>1, <2>1, <3>3, <3>7, <3>8
    <3> QED
      BY <1>0, <1>g, <3>2, <3>3, <3>4 DEF HandlesCounted
  <2> QED
    BY <2>3, <2>4
<1>12. EntriesKept'
  <2>1. ASSUME NEW x \in logged'
        PROVE  Event(x).parsable /\ Selects(HistoryQuery(x.query), Event(x))
    <3>1. CASE x \in logged
      BY <1>0, <3>1 DEF EntriesKept
    <3>2. CASE x \in [query : {asked + 1}, at : events]
      <4>1. x.query = asked + 1 /\ x.at \in Returnable
        BY <1>7, <3>2
      <4> QED
        BY <1>4, <4>1 DEF Returnable, Matching, Event
    <3> QED
      BY <1>g, <2>1, <3>1, <3>2
  <2>2. ASSUME ~missed, NEW k \in 1..asked', NEW i \in DOMAIN contents,
               k \notin full', contents[i].parsable, Selects(HistoryQuery(k), contents[i])
        PROVE  [query |-> k, at |-> i] \in logged'
    <3>1. CASE k \in 1..asked
      BY <1>0, <1>3, <1>g, <2>2, <3>1 DEF EntriesKept
    <3>2. CASE k = asked + 1
      <4>1. Cardinality(events) # ecall.max
        BY <1>g, <2>2, <3>2
      <4>2. Cardinality(events) < ecall.max
        BY <1>7, <4>1, EventFacts
      <4>3. i \in Returnable
        BY <1>4, <2>2, <3>2 DEF Returnable, Matching
      <4>4. i \in events
        BY <1>7, <2>2, <4>2, <4>3
      <4> QED
        BY <1>g, <3>2, <4>4
    <3> QED
      BY <1>k, <3>1, <3>2
  <2>3. (\A x \in logged' : Event(x)'.parsable /\ Selects(HistoryQuery(x.query)', Event(x)'))
    BY <1>5, <1>6, <2>1
  <2>4. ~missed' =>
          \A k \in 1..asked', i \in DOMAIN contents' :
           k \notin full' /\ contents'[i].parsable /\ Selects(HistoryQuery(k)', contents'[i])
             => [query |-> k, at |-> i] \in logged'
    BY <1>5, <1>g, <2>2
  <2> QED
    BY <2>3, <2>4 DEF EntriesKept, Selects
<1>13. EventsTold'
  BY <1>1, <1>g DEF EventsTold
<1> QED
  BY <1>8, <1>9, <1>10, <1>11, <1>12, <1>13 DEF EventsInvariant

\* What is logged is finite, and of the entries that compete for the last shutdown one
\* sorts first.
LEMMA LoggedIsFinite ==
    ASSUME EventsInvariant
    PROVE  /\ IsFiniteSet(logged) /\ Retained \subseteq logged
           /\ \A x \in logged : /\ x.query \in 1..asked /\ x.at \in DOMAIN contents
                               /\ x.query \in Int /\ x.at \in Int
                               /\ Event(x) \in WindowsEvent /\ Event(x).time \in Nat
PROOF
<1>1. /\ logged \subseteq [query : 1..asked, at : DOMAIN contents] /\ asked \in Nat
      /\ contents \in Seq(WindowsEvent)
  BY DEF EventsInvariant, EventsTypeOK
<1> DEFINE f == [x \in logged |-> <<x.query, x.at>>]
           n == Len(contents)
           P == (1..asked) \X (1..n)
<1>2. n \in Nat /\ DOMAIN contents = 1..n
  BY <1>1
<1> HIDE DEF n
<1>3. IsFiniteSet(1..asked) /\ IsFiniteSet(1..n)
  BY <1>1, <1>2, FS_Interval
<1>4. IsFiniteSet(P)
  BY <1>3, FS_Product
<1>5. f \in [logged -> P]
  BY <1>1, <1>2
<1>6. \A x, y \in logged : f[x] = f[y] => x = y
  <2>1. \A x \in logged : x = [query |-> x.query, at |-> x.at]
    BY <1>1
  <2> QED
    BY <2>1
<1> HIDE DEF f, P
<1>7. f \in Injection(logged, P)
  BY <1>5, <1>6 DEF Injection, IsInjective
<1>8. IsFiniteSet(logged)
  BY <1>4, <1>7, FS_Injection
<1>9. ASSUME NEW x \in logged
      PROVE  /\ x.query \in 1..asked /\ x.at \in DOMAIN contents
             /\ x.query \in Int /\ x.at \in Int
             /\ Event(x) \in WindowsEvent /\ Event(x).time \in Nat
  <2>1. x.query \in 1..asked /\ x.at \in DOMAIN contents
    BY <1>1
  <2>2. x.query \in Int /\ x.at \in Int
    BY <1>1, <1>2, <2>1
  <2>3. Event(x) \in WindowsEvent
    BY <1>1, <2>1 DEF Event
  <2>4. Event(x).time \in Nat
    BY <2>3 DEF WindowsEvent
  <2> QED
    BY <2>1, <2>2, <2>3, <2>4
<1> QED
  BY <1>8, <1>9 DEF Retained

LEMMA FirstShutdown ==
    ASSUME EventsInvariant, ShutdownsInTime # {}
    PROVE  \E x \in ShutdownsInTime : \A y \in ShutdownsInTime : ~SortsBefore(y, x)
PROOF
<1> DEFINE S == ShutdownsInTime
           R == {ss \in S \X S : SortsBefore(ss[1], ss[2])}
<1>1. S \subseteq logged
  BY LoggedIsFinite DEF ShutdownsInTime
<1>2. IsFiniteSet(S)
  BY <1>1, LoggedIsFinite, FS_Subset
<1>3. \A x \in S : x.query \in Int /\ x.at \in Int /\ Event(x).time \in Int
  BY <1>1, LoggedIsFinite
<1> HIDE DEF S
<1>4. \A x, y \in S : <<x, y>> \in R <=> SortsBefore(x, y)
  OBVIOUS
<1>5. \A x \in S : ~SortsBefore(x, x)
  BY <1>3 DEF SortsBefore, Earlier
<1>6. \A x, y, z \in S : SortsBefore(x, y) /\ SortsBefore(y, z) => SortsBefore(x, z)
  BY <1>3 DEF SortsBefore, Earlier
<1> HIDE DEF R
<1>7. S # {}
  BY DEF S
<1>8. \E x \in S : \A y \in S : <<y, x>> \notin R
  BY <1>2, <1>4, <1>5, <1>6, <1>7, FirstInOrder
<1> QED
  BY <1>4, <1>8 DEF S

LEMMA AnswerHistoryKeeps ==
    ASSUME EventsInvariant, AnswerHistory PROVE EventsInvariant'
PROOF
<1> DEFINE boot == Latest(Times("boot"))
<1>0. EventsTypeOK /\ EventStages /\ HandlesCounted /\ estep = "ask"
        /\ estep' = "answered" /\ IsHistory(ecall.tool) /\ ~QueriesLeft
  BY DEF EventsInvariant, AnswerHistory
<1>1. /\ events = {} /\ batch = {} /\ ahead = {} /\ ~queryOpen /\ asked \in Nat
      /\ mishaps \in Nat /\ warnings \in Nat
  BY <1>0 DEF EventStages, EventsTypeOK
<1>2. asked = Len(EventSorts(ecall.tool))
  BY <1>0, <1>1, SortsOfHistory DEF QueriesLeft, EventStages
<1>g. /\ UNCHANGED <<ecall, contents, asked, ahead, batch, handles, queryOpen,
                     events, logged, full, missed>>
      /\ ereply' = [kind |-> "history", entries |-> {EntryOf(x) : x \in Retained},
                    truncated |-> full # {}, boot |-> boot,
                    last |-> LastShutdownKind(boot)]
  BY DEF AnswerHistory
<1>3. mishaps' \in Nat /\ warnings' \in Nat
  BY <1>1 DEF AnswerHistory
<1>f. /\ IsHistory(ecall.tool)' = IsHistory(ecall.tool)
      /\ EventSorts(ecall.tool)' = EventSorts(ecall.tool)
  BY <1>g DEF IsHistory, EventSorts
<1>4. /\ ereply'.kind = "history" /\ ereply'.entries = {EntryOf(x) : x \in Retained}
      /\ ereply'.truncated = (full # {}) /\ ereply'.last = LastShutdownKind(boot)
  BY <1>g
<1>5. EventsTypeOK'
  BY <1>0, <1>3, <1>4, <1>g DEF EventsTypeOK
<1>6. EventStages'
  BY <1>0, <1>1, <1>4, <1>f, <1>g DEF EventStages
<1>7. QueryFlow'
  BY <1>0, <1>4 DEF QueryFlow
<1>8. HandlesCounted'
  BY <1>0, <1>g DEF HandlesCounted, AtLimit
<1>9. EntriesKept'
  BY <1>g, EntriesFrame
<1>10. EventsTold'
  <2>1. {EntryOf(x) : x \in Retained}' = {EntryOf(x) : x \in Retained}
    BY <1>g DEF EntryOf, Category, Event, Retained, EventSorts
  <2>4. Retained' = Retained /\ \A x : Event(x)' = Event(x) /\ Category(x)' = Category(x)
    BY <1>g DEF Category, Event, Retained, EventSorts
  <2>5. Times("boot")' = Times("boot")
    BY <2>4 DEF Times
  <2>6. Latest(Times("boot"))' = boot
    BY <2>5
  <2>7. ShutdownsInTime' = ShutdownsInTime
    BY <2>4, <2>6 DEF ShutdownsInTime
  <2>8. \A x, y : SortsBefore(x, y)' = SortsBefore(x, y)
    BY <2>4 DEF SortsBefore
  <2>9. ereply'.last = KindOfFirst(ShutdownsInTime)
    BY <1>4 DEF LastShutdownKind, ShutdownsInTime
  <2>10. ShutdownsInTime' = {} => ereply'.last = "none"
    BY <2>7, <2>9 DEF KindOfFirst
  <2>11. ShutdownsInTime' # {} =>
           \E x \in ShutdownsInTime' :
             /\ ereply'.last = Category(x)'
             /\ \A y \in ShutdownsInTime' : ~SortsBefore(y, x)'
    <3> SUFFICES ASSUME ShutdownsInTime # {}
                 PROVE  \E x \in ShutdownsInTime :
                          /\ ereply'.last = Category(x)
                          /\ \A y \in ShutdownsInTime : ~SortsBefore(y, x)
      BY <2>4, <2>7, <2>8
    <3>1. \E x \in ShutdownsInTime : \A y \in ShutdownsInTime : ~SortsBefore(y, x)
      BY FirstShutdown
    <3> QED
      BY <2>9, <3>1 DEF KindOfFirst
  <2>3. (full # {})' = (full # {})
    BY <1>g
  <2> QED
    BY <1>0, <1>2, <1>4, <1>f, <1>g, <2>1, <2>3, <2>10, <2>11 DEF EventsTold
<1> QED
  BY <1>5, <1>6, <1>7, <1>8, <1>9, <1>10 DEF EventsInvariant

LEMMA EventsRepliedKeeps ==
    ASSUME EventsInvariant, EventsReplied PROVE EventsInvariant'
PROOF
<1>1. EventsIdle'
  BY DEF EventsReplied, EventsIdle
<1> QED
  BY <1>1, EventsStart, PTL

-----------------------------------------------------------------------------
\* The handles that stay open are those of the batches in which a query met its limit.
LEMMA HandlesAreBounded == EventsInvariant => HandlesBounded
PROOF
<1> SUFFICES ASSUME EventsInvariant PROVE HandlesBounded
  OBVIOUS
<1>1. HandlesCounted /\ EventStages
  BY DEF EventsInvariant
<1>2. estep \in {"ask", "collect", "answered"} => ~queryOpen /\ batch = {}
  BY <1>1 DEF EventStages
<1>3. estep \in {"ask", "fetch", "collect", "answered"} =>
        handles <= BatchSize * (Cardinality(full) + IF AtLimit THEN 1 ELSE 0)
  BY <1>1 DEF HandlesCounted
<1> QED
  BY <1>2, <1>3 DEF HandlesBounded

LEMMA QueryIsComplete == EventsInvariant => QueryComplete
PROOF
<1> SUFFICES ASSUME EventsInvariant, ereply.kind = "events" PROVE QueryComplete
  BY DEF QueryComplete
<1>1. EventStages /\ EventsTold /\ QueryFlow
  BY DEF EventsInvariant
<1>2. estep = "answered" /\ batch = {} /\ ahead = {}
  BY <1>1 DEF EventStages
<1>3. /\ events \subseteq Returnable /\ Cardinality(events) <= ecall.max
      /\ Cardinality(events) < ecall.max /\ ~missed => Returnable \subseteq events
  BY <1>1, <1>2 DEF QueryFlow
<1>4. /\ ereply.events \subseteq events
      /\ ereply.skipped = Cardinality(events) - Cardinality(ereply.events)
      /\ ereply.truncated => Cardinality(ereply.events) = ecall.max
  BY <1>1 DEF EventsTold
<1>5. /\ Cardinality(events) \in Nat /\ IsFiniteSet(events) /\ ecall.max \in Nat
  BY EventFacts
<1>6. Cardinality(ereply.events) \in Nat /\ Cardinality(ereply.events) <= Cardinality(events)
  BY <1>4, <1>5, FS_Subset, FS_CardinalityType
<1>7. Cardinality(ereply.events) + ereply.skipped = Cardinality(events)
  BY <1>4, <1>5, <1>6
<1>8. Cardinality(events) < ecall.max /\ ~missed => events = Returnable
  BY <1>3
<1>9. ereply.truncated => Cardinality(events) = ecall.max
  BY <1>3, <1>4, <1>5, <1>6
<1>10. {i \in Matching(NextQuery, contents) : contents[i].parsable} = Returnable
  BY DEF Returnable
<1> QED
  BY <1>3, <1>4, <1>7, <1>8, <1>9, <1>10 DEF QueryComplete

\* Everything a history tells is one of the events its queries ask for.
LEMMA EntriesAreDue ==
    ASSUME EventsInvariant, ereply.kind = "history"
    PROVE  ereply.entries \subseteq {x \in Due : IsDue(x)}
PROOF
<1>1. /\ ereply.entries = {EntryOf(x) : x \in Retained} /\ asked = Len(EventSorts(ecall.tool))
  BY DEF EventsInvariant, EventsTold
<1>2. ASSUME NEW x \in Retained PROVE EntryOf(x) \in Due /\ IsDue(EntryOf(x))
  <2> DEFINE k == EventSorts(ecall.tool)[x.query]
  <2>1. x \in logged /\ x.query \in 1..asked /\ x.at \in DOMAIN contents
    BY <1>2, LoggedIsFinite
  <2>2. x.query \in DOMAIN EventSorts(ecall.tool)
    BY <1>1, <2>1, SortsOfHistory
  <2>3. k \in Range(EventSorts(ecall.tool)) /\ Event(x) \in Range(contents)
    BY <2>1, <2>2 DEF Range, Event
  <2>4. Event(x).parsable /\ Selects(HistoryQuery(x.query), Event(x))
    BY <2>1 DEF EventsInvariant, EntriesKept
  <2>5. Selects(EventQuery(k.log, 5, ecall.since, k.provider, k.id, ecall.max), Event(x))
    BY <2>4 DEF HistoryQuery
  <2>6. EntryOf(x).category = k.category /\ EntryOf(x).event = Event(x)
        /\ EntryOf(x) = [category |-> k.category, event |-> Event(x)]
    BY DEF EntryOf, Category
  <2> HIDE DEF k
  <2>7. EntryOf(x) \in Due
    BY <2>3, <2>6 DEF Due
  <2>8. IsDue(EntryOf(x))
    BY <2>3, <2>4, <2>5, <2>6 DEF IsDue
  <2> QED
    BY <2>7, <2>8
<1> QED
  BY <1>1, <1>2

\* Each event that a query of a whole history asks for is logged.
LEMMA EntryIsLogged ==
    ASSUME EventsInvariant, WholeHistory, NEW x \in Due, IsDue(x)
    PROVE  \E z \in logged : EntryOf(z) = x
PROOF
<1>1. /\ asked = Len(EventSorts(ecall.tool)) /\ full = {} /\ ~missed
      /\ IsHistory(ecall.tool)
  BY DEF EventsInvariant, EventsTold, WholeHistory
<1>2. PICK e \in Range(contents) : \E c : x = [category |-> c, event |-> e]
  BY DEF Due
<1>3. PICK i \in DOMAIN contents : contents[i] = e
  BY DEF Range
<1>4. PICK k \in Range(EventSorts(ecall.tool)) :
        /\ k.category = x.category
        /\ Selects(EventQuery(k.log, 5, ecall.since, k.provider, k.id, ecall.max), x.event)
  BY DEF IsDue
<1>5. PICK j \in DOMAIN EventSorts(ecall.tool) : EventSorts(ecall.tool)[j] = k
  BY DEF Range
<1>6. j \in 1..asked
  BY <1>1, SortsOfHistory
<1>7. x.event = contents[i] /\ x = [category |-> x.category, event |-> contents[i]]
  BY <1>2, <1>3
<1>8. contents[i].parsable /\ Selects(HistoryQuery(j), contents[i])
  BY <1>4, <1>5, <1>7 DEF HistoryQuery, IsDue
<1>9. [query |-> j, at |-> i] \in logged
  BY <1>1, <1>6, <1>8 DEF EventsInvariant, EntriesKept
<1>10. EntryOf([query |-> j, at |-> i]) = x
  BY <1>4, <1>5, <1>7 DEF EntryOf, Category, Event
<1> QED
  BY <1>9, <1>10

\* An entry is dropped only by crash_history, and for one of the other log with the
\* same record id: two queries never find the same event.
LEMMA DroppedForAnother ==
    ASSUME EventsInvariant, IsHistory(ecall.tool), NEW z \in logged, z \notin Retained
    PROVE  /\ ecall.tool = "crash_history"
           /\ \E y \in Retained : /\ Event(y).record = Event(z).record
                                  /\ Event(y).log # Event(z).log
PROOF
<1> DEFINE S == {y \in logged : Event(y).record = Event(z).record}
           R == {ss \in S \X S : Earlier(ss[1], ss[2])}
<1>1. IsFiniteSet(S) /\ z \in S
  <2>1. S \subseteq logged
    OBVIOUS
  <2>2. z \in S
    OBVIOUS
  <2> HIDE DEF S
  <2> QED
    BY <2>1, <2>2, LoggedIsFinite, FS_Subset
<1>2. \A x \in S : x \in logged /\ x.query \in Int /\ x.at \in Int
                   /\ Event(x).record = Event(z).record
  BY LoggedIsFinite
<1>3. \A x \in logged : Event(x).record = Event(z).record => x \in S
  OBVIOUS
<1> HIDE DEF S
<1>4. \A x, y \in S : <<x, y>> \in R <=> Earlier(x, y)
  OBVIOUS
<1>5. \A x \in S : ~Earlier(x, x)
  BY <1>2 DEF Earlier
<1>6. \A x, y, w \in S : Earlier(x, y) /\ Earlier(y, w) => Earlier(x, w)
  BY <1>2 DEF Earlier
<1> HIDE DEF R
<1>7. PICK y \in S : \A x \in S : <<x, y>> \notin R
  BY <1>1, <1>4, <1>5, <1>6, FirstInOrder
<1>8. y \in Retained
  BY <1>2, <1>3, <1>4, <1>7 DEF Retained
<1>9. Event(z).record # NoRecord
  BY DEF Retained
<1>10. /\ Selects(HistoryQuery(y.query), Event(y)) /\ Selects(HistoryQuery(z.query), Event(z))
       /\ asked <= Len(EventSorts(ecall.tool))
       /\ asked \in Nat /\ y.query \in 1..asked /\ z.query \in 1..asked
       /\ y.at \in DOMAIN contents /\ z.at \in DOMAIN contents
  BY <1>2, LoggedIsFinite DEF EventsInvariant, EventStages, EntriesKept, EventsTypeOK
<1> DEFINE Q == EventSorts(ecall.tool)
<1>11. y.query \in 1..Len(Q) /\ z.query \in 1..Len(Q)
  BY <1>10, SortsOfHistory
<1>12. /\ Q[y.query].provider # Anything /\ Q[y.query].id # 0
       /\ Q[z.query].provider # Anything /\ Q[z.query].id # 0
  BY <1>11, SortsOfHistory
<1>13. /\ Event(y).provider = Q[y.query].provider /\ Event(y).id = Q[y.query].id
       /\ Event(y).log = Q[y.query].log
       /\ Event(z).provider = Q[z.query].provider /\ Event(z).id = Q[z.query].id
       /\ Event(z).log = Q[z.query].log
  BY <1>10, <1>12 DEF Selects, HistoryQuery, EventQuery
<1>14. Event(y).log # Event(z).log
  <2> SUFFICES ASSUME Event(y).log = Event(z).log PROVE FALSE
    OBVIOUS
  <2>1. contents \in EventLogs
    BY <1>10 DEF EventsInvariant, EventStages
  <2>2. y.at = z.at
    BY <1>2, <1>9, <1>10, <2>1, EventLogsAssumption DEF Event
  <2>3. Event(y) = Event(z)
    BY <2>2 DEF Event
  <2>4. y.query = z.query
    BY <1>11, <1>13, <2>3, SortsOfHistory
  <2>5. y = z
    BY <1>2, <2>2, <2>4 DEF EventsInvariant, EventsTypeOK
  <2> QED
    BY <1>8, <2>5
<1>15. ecall.tool = "crash_history"
  <2>1. CASE ecall.tool # "crash_history"
    <3>1. Q[y.query].log = "System" /\ Q[z.query].log = "System"
      BY <1>11, <2>1, SortsOfHistory
    <3> QED
      BY <1>13, <1>14, <3>1
  <2> QED
    BY <2>1
<1> QED
  BY <1>2, <1>8, <1>14, <1>15

LEMMA HistoryIsComplete == EventsInvariant => HistoryComplete
PROOF
<1> SUFFICES ASSUME EventsInvariant, ereply.kind = "history" PROVE HistoryComplete
  BY DEF HistoryComplete
<1>1. ereply.entries \subseteq {x \in Due : IsDue(x)}
  BY EntriesAreDue
<1>2. ereply.entries = {EntryOf(x) : x \in Retained} /\ IsHistory(ecall.tool)
  BY DEF EventsInvariant, EventsTold
<1>3. ASSUME WholeHistory, NEW x \in Due, IsDue(x), x \notin ereply.entries
      PROVE  /\ ecall.tool = "crash_history"
             /\ \E y \in ereply.entries : /\ y.event.record = x.event.record
                                          /\ y.event.log # x.event.log
  <2>1. PICK z \in logged : EntryOf(z) = x
    BY <1>3, EntryIsLogged
  <2>2. z \notin Retained
    BY <1>2, <1>3, <2>1
  <2>3. PICK y \in Retained : /\ Event(y).record = Event(z).record
                              /\ Event(y).log # Event(z).log
    BY <1>2, <2>2, DroppedForAnother
  <2>4. x.event = Event(z) /\ EntryOf(y).event = Event(y) /\ EntryOf(y) \in ereply.entries
    BY <1>2, <2>1 DEF EntryOf
  <2>5. ecall.tool = "crash_history"
    BY <1>2, <2>2, DroppedForAnother
  <2> QED
    BY <2>3, <2>4, <2>5
<1> QED
  BY <1>1, <1>3 DEF HistoryComplete

\* Where the log tells a time, the latest is the latest.
LEMMA LatestIsLatest ==
    ASSUME NEW T, IsFiniteSet(T), T # {}, T \subseteq Nat
    PROVE  Latest(T) \in T /\ \A u \in T : u <= Latest(T)
PROOF
<1> DEFINE R == {ss \in T \X T : ss[1] > ss[2]}
<1>1. \A x, y \in T : <<x, y>> \in R <=> x > y
  OBVIOUS
<1>2. \A x \in T : x \in Int
  OBVIOUS
<1> HIDE DEF R
<1>3. \A x \in T : <<x, x>> \notin R
  BY <1>1, <1>2
<1>4. \A x, y, z \in T : <<x, y>> \in R /\ <<y, z>> \in R => <<x, z>> \in R
  BY <1>1, <1>2
<1>5. PICK x \in T : \A y \in T : <<y, x>> \notin R
  BY <1>3, <1>4, FirstInOrder
<1>6. \A u \in T : u <= x
  <2>1. \A u \in T : ~(u > x)
    BY <1>1, <1>5
  <2>2. x \in Int
    BY <1>2
  <2> QED
    BY <1>2, <2>1, <2>2
<1> QED
  BY <1>6 DEF Latest

LEMMA TimesAreFinite ==
    ASSUME EventsInvariant, NEW category
    PROVE  IsFiniteSet(Times(category)) /\ Times(category) \subseteq Nat
PROOF
<1> DEFINE f == [x \in logged |-> Event(x).time]
           T == {f[x] : x \in logged}
<1>1. \A x \in logged : f[x] = Event(x).time
  OBVIOUS
<1>2. Times(category) \subseteq T
  BY LoggedIsFinite DEF Times
<1>3. T \subseteq Nat
  BY <1>1, LoggedIsFinite
<1> HIDE DEF f
<1>4. f \in Surjection(logged, T)
  <2>1. f \in [logged -> T]
    BY DEF f
  <2>2. \A t \in T : \E x \in logged : f[x] = t
    OBVIOUS
  <2> QED
    BY <2>1, <2>2 DEF Surjection
<1> HIDE DEF T
<1>5. IsFiniteSet(T)
  BY <1>4, LoggedIsFinite, FS_Surjection
<1>6. IsFiniteSet(Times(category))
  BY <1>2, <1>5, FS_Subset
<1> QED
  BY <1>2, <1>3, <1>6

LEMMA LastShutdownIsNewest == EventsInvariant => LastShutdownNewest
PROOF
<1> DEFINE due == {x \in Due : IsDue(x)}
           boots == {x.event.time : x \in {y \in due : y.category = "boot"}}
           timely == {x \in due :
                        /\ IsShutdownCategory(x.category)
                        /\ \/ boots \subseteq {NoEventTime}
                           \/ \E t \in boots : x.event.time <= t}
           boot == Latest(Times("boot"))
<1> SUFFICES ASSUME EventsInvariant, WholeHistory, ecall.tool = "shutdown_analysis"
             PROVE  IF timely = {} THEN ereply.last = "none"
                    ELSE \E x \in timely :
                           /\ x.category = ereply.last
                           /\ \A y \in timely : y.event.time <= x.event.time
  BY DEF LastShutdownNewest
<1>1. /\ ereply.kind = "history" /\ ereply.entries = {EntryOf(x) : x \in Retained}
      /\ ShutdownsInTime = {} => ereply.last = "none"
      /\ ShutdownsInTime # {} =>
           \E x \in ShutdownsInTime :
             /\ ereply.last = Category(x)
             /\ \A y \in ShutdownsInTime : ~SortsBefore(y, x)
  BY DEF EventsInvariant, EventsTold, WholeHistory
<1>2. due = {EntryOf(x) : x \in Retained}
  <2>1. HistoryComplete /\ ecall.tool # "crash_history"
    BY HistoryIsComplete
  <2>2. ereply.entries \subseteq due /\ \A x \in due : x \in ereply.entries
    BY <1>1, <2>1 DEF HistoryComplete
  <2> QED
    BY <1>1, <2>2
<1>3. \A x : EntryOf(x).category = Category(x) /\ EntryOf(x).event = Event(x)
  BY DEF EntryOf
<1>4. \A x \in Retained : Event(x).time \in Nat
  BY LoggedIsFinite
<1> HIDE DEF due
<1>5. boots = {Event(x).time : x \in {y \in Retained : Category(y) = "boot"}}
  BY <1>2, <1>3
<1>6. Times("boot") = boots \ {NoEventTime} /\ boots \subseteq Nat
  BY <1>4, <1>5 DEF Times
<1> HIDE DEF boots
<1>7. ASSUME NEW t \in Nat
      PROVE  (t = NoEventTime \/ boot = NoEventTime \/ t <= boot)
               <=> (boots \subseteq {NoEventTime} \/ \E b \in boots : t <= b)
  <2>1. CASE Times("boot") = {}
    <3>1. boot = NoEventTime
      BY <2>1 DEF Latest
    <3>2. boots \subseteq {NoEventTime}
      BY <1>6, <2>1
    <3> QED
      BY <3>1, <3>2
  <2>2. CASE Times("boot") # {}
    <3>1. boot \in Times("boot") /\ \A u \in Times("boot") : u <= boot
      BY <2>2, TimesAreFinite, LatestIsLatest
    <3>2. boot \in boots /\ boot \in Nat /\ boot # NoEventTime
      BY <1>6, <3>1
    <3> HIDE DEF boot
    <3>3. ASSUME t = NoEventTime \/ t <= boot PROVE t <= boot
      BY <3>2, <3>3 DEF NoEventTime
    <3>4. ASSUME NEW b \in boots, t <= b PROVE t = NoEventTime \/ t <= boot
      <4>1. CASE b = NoEventTime
        BY <3>4, <4>1 DEF NoEventTime
      <4>2. CASE b # NoEventTime
        <5>1. b <= boot /\ b \in Nat
          BY <1>6, <3>1, <4>2
        <5> QED
          BY <3>2, <3>4, <5>1
      <4> QED
        BY <4>1, <4>2
    <3> QED
      BY <3>2, <3>3, <3>4
  <2> QED
    BY <2>1, <2>2
<1>8. timely = {EntryOf(x) : x \in ShutdownsInTime}
  <2>1. ASSUME NEW x \in Retained
        PROVE  EntryOf(x) \in timely <=> x \in ShutdownsInTime
    <3>1. EntryOf(x) \in due /\ Event(x).time \in Nat
      BY <1>2, <1>4
    <3>2. EntryOf(x) \in timely <=>
            /\ IsShutdownCategory(Category(x))
            /\ boots \subseteq {NoEventTime} \/ \E t \in boots : Event(x).time <= t
      BY <1>3, <3>1
    <3>3. x \in ShutdownsInTime <=>
            /\ IsShutdownCategory(Category(x))
            /\ Event(x).time = NoEventTime \/ boot = NoEventTime \/ Event(x).time <= boot
      BY DEF ShutdownsInTime
    <3>4. (Event(x).time = NoEventTime \/ boot = NoEventTime \/ Event(x).time <= boot)
            <=> (boots \subseteq {NoEventTime} \/ \E t \in boots : Event(x).time <= t)
      BY <1>7, <3>1
    <3> QED
      BY <3>2, <3>3, <3>4
  <2>2. timely \subseteq due
    OBVIOUS
  <2>3. ShutdownsInTime \subseteq Retained
    BY DEF ShutdownsInTime
  <2> HIDE DEF timely
  <2> QED
    BY <1>2, <2>1, <2>2, <2>3
<1> HIDE DEF timely
<1>9. CASE ShutdownsInTime = {}
  BY <1>1, <1>8, <1>9
<1>10. CASE ShutdownsInTime # {}
  <2>1. PICK x \in ShutdownsInTime : /\ ereply.last = Category(x)
                                     /\ \A y \in ShutdownsInTime : ~SortsBefore(y, x)
    BY <1>1, <1>10
  <2>2. EntryOf(x) \in timely /\ EntryOf(x).category = ereply.last
    BY <1>3, <1>8, <2>1
  <2>3. \A y \in ShutdownsInTime : Event(y).time <= Event(x).time
    BY <1>4, <2>1 DEF SortsBefore, ShutdownsInTime
  <2>4. \A w \in timely : w.event.time <= EntryOf(x).event.time
    BY <1>3, <1>8, <2>3
  <2>5. timely # {}
    BY <2>2
  <2> QED
    BY <2>2, <2>4, <2>5
<1> QED
  BY <1>9, <1>10

LEMMA EventsInvariantIsSound == EventsInvariant => HistorySound
  BY HandlesAreBounded, QueryIsComplete, HistoryIsComplete, LastShutdownIsNewest
     DEF HistorySound, EventsInvariant

LEMMA EventsStepKeeps ==
    ASSUME EventsInvariant, [EventsNext]_eventVars PROVE EventsInvariant'
PROOF
<1>1. CASE UNCHANGED eventVars
  <2>1. UNCHANGED <<ecall, contents, asked>>
    BY <1>1 DEF eventVars
  <2>2. /\ NextQuery' = NextQuery /\ Returnable' = Returnable
        /\ Matching(NextQuery, contents)' = Matching(NextQuery, contents)
        /\ QueriesLeft' = QueriesLeft
        /\ IsHistory(ecall.tool)' = IsHistory(ecall.tool)
        /\ EventSorts(ecall.tool)' = EventSorts(ecall.tool)
    BY <2>1, QueryFrame
  <2>3. EventsTypeOK' /\ EventStages' /\ QueryFlow' /\ HandlesCounted'
    BY <1>1, <2>2 DEF EventsInvariant, EventsTypeOK, EventStages, QueryFlow, HandlesCounted,
                      AtLimit, eventVars
  <2>4. EntriesKept'
    BY <1>1, EntriesFrame DEF eventVars
  <2>5. EventsTold'
    <3>1. Retained' = Retained /\ \A x : /\ Event(x)' = Event(x) /\ Category(x)' = Category(x)
                                         /\ EntryOf(x)' = EntryOf(x)
      BY <1>1 DEF Category, Event, EntryOf, Retained, EventSorts, eventVars
    <3>2. Times("boot")' = Times("boot")
      BY <3>1 DEF Times
    <3>3. Latest(Times("boot"))' = Latest(Times("boot"))
      BY <3>2
    <3>4. ShutdownsInTime' = ShutdownsInTime
      BY <3>1, <3>3 DEF ShutdownsInTime
    <3>5. \A x, y : SortsBefore(x, y)' = SortsBefore(x, y)
      BY <3>1 DEF SortsBefore
    <3>6. EventsTold
      BY DEF EventsInvariant
    <3>7. UNCHANGED <<ecall, asked, full, events, ereply>>
      BY <1>1 DEF eventVars
    <3>8. {EntryOf(x) : x \in Retained}' = {EntryOf(x) : x \in Retained}
      BY <3>1
    <3> QED
      BY <2>2, <3>1, <3>4, <3>5, <3>6, <3>7, <3>8 DEF EventsTold
  <2> QED
    BY <2>3, <2>4, <2>5 DEF EventsInvariant
<1>2. CASE EventsNext
  BY <1>2, AcceptEventCallKeeps, EventsRepliedKeeps, OpenQueryKeeps, OpenFailsKeeps,
     FetchBatchKeeps, FetchEndsKeeps, RenderEventKeeps, AnswerQueryKeeps,
     CollectEntriesKeeps, AnswerHistoryKeeps
     DEF EventsNext
<1> QED
  BY <1>1, <1>2

\* Whatever the logs hold and whatever fails, the event tools answer what the logs hold
\* up to the limits they admit: an incomplete query says so and leaves no more handles
\* than a batch, a history loses only entries that share a record id across the two
\* logs, and the last shutdown is the newest before the boot.
THEOREM HistoryIsSound == EventsSpec => []HistorySound
PROOF
<1>1. EventsSpec => []EventsInvariant
  BY EventsStart, EventsStepKeeps, PTL DEF EventsSpec
<1> QED
  BY <1>1, EventsInvariantIsSound, PTL

-----------------------------------------------------------------------------
(* ProcessListing.  A listing is sorted by ranking its places, and a tree  *)
(* is built by a stack of tasks that stands for the recursion.             *)

\* The ranking of a finite set has each of its members once, in the order.
LEMMA RankedIsInOrder ==
    ASSUME NEW S, IsFiniteSet(S), NEW B,
           \A x \in S : <<x, x>> \notin B,
           \A x, y, z \in S : <<x, y>> \in B /\ <<y, z>> \in B => <<x, z>> \in B,
           \A x, y \in S : x = y \/ <<x, y>> \in B \/ <<y, x>> \in B
    PROVE  /\ Cardinality(S) \in Nat
           /\ Ranked(S, B) \in [1..Cardinality(S) -> S]
           /\ \A x \in S : \E i \in 1..Cardinality(S) : Ranked(S, B)[i] = x
           /\ \A i, j \in 1..Cardinality(S) :
                i < j => <<Ranked(S, B)[i], Ranked(S, B)[j]>> \in B
PROOF
<1> DEFINE Ahead(x) == {y \in S : <<y, x>> \in B}
           n == Cardinality(S)
           f == [x \in S |-> Cardinality(Ahead(x))]
           r == Ranked(S, B)
<1>1. n \in Nat
  BY FS_CardinalityType
<1>2. \A x \in S : Ahead(x) \in SUBSET S /\ x \notin Ahead(x)
  OBVIOUS
<1>3. \A x \in S : IsFiniteSet(Ahead(x)) /\ Cardinality(Ahead(x)) \in Nat
                   /\ Cardinality(Ahead(x)) < n
  <2> SUFFICES ASSUME NEW x \in S
               PROVE  IsFiniteSet(Ahead(x)) /\ Cardinality(Ahead(x)) \in Nat
                      /\ Cardinality(Ahead(x)) < n
    OBVIOUS
  <2>1. Ahead(x) \in SUBSET S /\ Ahead(x) # S
    BY <1>2
  <2> HIDE DEF Ahead
  <2>2. IsFiniteSet(Ahead(x)) /\ Cardinality(Ahead(x)) <= n /\ Cardinality(Ahead(x)) # n
    BY <2>1, FS_Subset
  <2> QED
    BY <1>1, <2>2, FS_CardinalityType
<1>4. ASSUME NEW x \in S, NEW y \in S, <<x, y>> \in B
      PROVE  Cardinality(Ahead(x)) < Cardinality(Ahead(y))
  <2>1. Ahead(x) \in SUBSET Ahead(y)
    BY <1>4
  <2>2. x \in Ahead(y) /\ x \notin Ahead(x)
    BY <1>4
  <2>3. Ahead(x) # Ahead(y)
    BY <2>2
  <2> HIDE DEF Ahead
  <2>4. Cardinality(Ahead(x)) <= Cardinality(Ahead(y))
          /\ Cardinality(Ahead(x)) # Cardinality(Ahead(y))
    BY <1>3, <2>1, <2>3, FS_Subset
  <2> QED
    BY <1>3, <2>4
<1>d. r = [k \in 1..n |-> CHOOSE x \in S : Cardinality(Ahead(x)) = k - 1]
  BY DEF Ranked
<1> HIDE DEF Ahead, n, r
<1>5. f \in [S -> 0..(n - 1)]
  BY <1>1, <1>3
<1>6. \A x, y \in S : f[x] = f[y] => x = y
  <2> SUFFICES ASSUME NEW x \in S, NEW y \in S, f[x] = f[y], x # y PROVE FALSE
    OBVIOUS
  <2>1. CASE <<x, y>> \in B
    BY <1>3, <1>4, <2>1
  <2>2. CASE <<y, x>> \in B
    BY <1>3, <1>4, <2>2
  <2> QED
    BY <2>1, <2>2
<1>f. \A x \in S : f[x] = Cardinality(Ahead(x))
  OBVIOUS
<1> HIDE DEF f
<1>7. f \in Injection(S, 0..(n - 1))
  BY <1>5, <1>6 DEF Injection, IsInjective
<1>8. IsFiniteSet(0..(n - 1)) /\ Cardinality(0..(n - 1)) = n
  BY <1>1, FS_Interval
<1>9. f \in Surjection(S, 0..(n - 1))
  BY <1>7, <1>8, FS_Injection DEF n
<1>10. \A k \in 0..(n - 1) : \E x \in S : Cardinality(Ahead(x)) = k
  BY <1>9, <1>f DEF Surjection
<1>11. \A k \in 1..n : r[k] \in S /\ Cardinality(Ahead(r[k])) = k - 1
  <2> SUFFICES ASSUME NEW k \in 1..n
               PROVE  r[k] \in S /\ Cardinality(Ahead(r[k])) = k - 1
    OBVIOUS
  <2>1. k - 1 \in 0..(n - 1)
    BY <1>1
  <2>2. \E x \in S : Cardinality(Ahead(x)) = k - 1
    BY <1>10, <2>1
  <2> QED
    BY <1>d, <2>2
<1>12. r \in [1..n -> S]
  BY <1>d, <1>11
<1>13. \A x \in S : \E i \in 1..n : r[i] = x
  <2> SUFFICES ASSUME NEW x \in S PROVE \E i \in 1..n : r[i] = x
    OBVIOUS
  <2>1. f[x] + 1 \in 1..n /\ f[x] \in Int
    BY <1>1, <1>5
  <2>2. f[r[f[x] + 1]] = f[x] /\ r[f[x] + 1] \in S
    BY <1>11, <1>f, <2>1
  <2> QED
    BY <1>6, <2>1, <2>2
<1>14. \A i, j \in 1..n : i < j => <<r[i], r[j]>> \in B
  <2> SUFFICES ASSUME NEW i \in 1..n, NEW j \in 1..n, i < j, <<r[i], r[j]>> \notin B
               PROVE  FALSE
    OBVIOUS
  <2>1. r[i] \in S /\ r[j] \in S
    BY <1>12
  <2>2. CASE r[i] = r[j]
    BY <1>1, <1>11, <2>2
  <2>3. CASE <<r[j], r[i]>> \in B
    BY <1>1, <1>4, <1>11, <2>1, <2>3
  <2> QED
    BY <2>1, <2>2, <2>3
<1> QED
  BY <1>1, <1>12, <1>13, <1>14 DEF n, r

LEMMA AscendingIsInOrder ==
    ASSUME NEW S \in SUBSET Int, IsFiniteSet(S)
    PROVE  /\ Cardinality(S) \in Nat
           /\ Ascending(S) \in [1..Cardinality(S) -> S]
           /\ \A x \in S : \E i \in 1..Cardinality(S) : Ascending(S)[i] = x
           /\ \A i, j \in 1..Cardinality(S) : i < j => Ascending(S)[i] < Ascending(S)[j]
PROOF
<1> DEFINE B == {ss \in S \X S : ss[1] < ss[2]}
<1>1. \A x, y \in S : <<x, y>> \in B <=> x < y
  OBVIOUS
<1>2. \A x \in S : x \in Int
  OBVIOUS
<1> HIDE DEF B
<1>3. \A x \in S : <<x, x>> \notin B
  BY <1>1, <1>2
<1>4. \A x, y, z \in S : <<x, y>> \in B /\ <<y, z>> \in B => <<x, z>> \in B
  BY <1>1, <1>2
<1>5. \A x, y \in S : x = y \/ <<x, y>> \in B \/ <<y, x>> \in B
  <2> SUFFICES ASSUME NEW x \in S, NEW y \in S
               PROVE  x = y \/ <<x, y>> \in B \/ <<y, x>> \in B
    OBVIOUS
  <2>1. x < y \/ y < x \/ x = y
    BY <1>2
  <2> QED
    BY <1>1, <2>1
<1>6. Ascending(S) = Ranked(S, B)
  BY DEF Ascending, B
<1>7. /\ Cardinality(S) \in Nat
      /\ Ranked(S, B) \in [1..Cardinality(S) -> S]
      /\ \A x \in S : \E i \in 1..Cardinality(S) : Ranked(S, B)[i] = x
      /\ \A i, j \in 1..Cardinality(S) : i < j => <<Ranked(S, B)[i], Ranked(S, B)[j]>> \in B
  BY <1>3, <1>4, <1>5, RankedIsInOrder
<1> QED
  BY <1>1, <1>6, <1>7

\* What is picked of a sequence is what it has at those places, each once.
LEMMA PickedIsPicked ==
    ASSUME NEW T, NEW s \in Seq(T), NEW I \in SUBSET DOMAIN s
    PROVE  /\ Picked(s, I) \in Seq(T) /\ DOMAIN Picked(s, I) = 1..Len(Picked(s, I))
           /\ \A m \in DOMAIN Picked(s, I) : \E i \in I : Picked(s, I)[m] = s[i]
           /\ \A i \in I : \E m \in DOMAIN Picked(s, I) : Picked(s, I)[m] = s[i]
           /\ \A m, k \in DOMAIN Picked(s, I) : m # k =>
                \E i, j \in I : i # j /\ Picked(s, I)[m] = s[i] /\ Picked(s, I)[k] = s[j]
PROOF
<1> DEFINE n == Cardinality(I)
           a == Ascending(I)
           p == Picked(s, I)
<1>1. IsFiniteSet(I) /\ I \in SUBSET Int
  <2>1. IsFiniteSet(1..Len(s)) /\ I \in SUBSET (1..Len(s))
    BY FS_Interval
  <2>2. I \in SUBSET Int
    BY <2>1
  <2> QED
    BY <2>1, <2>2, FS_Subset
<1>2. /\ n \in Nat /\ a \in [1..n -> I]
      /\ \A x \in I : \E i \in 1..n : a[i] = x
      /\ \A i, j \in 1..n : i < j => a[i] < a[j]
  BY <1>1, AscendingIsInOrder
<1>3. p = [m \in 1..n |-> s[a[m]]]
  BY <1>2 DEF Picked
<1> HIDE DEF n, a, p
<1>4. \A m \in 1..n : a[m] \in I /\ a[m] \in Int /\ s[a[m]] \in T
  BY <1>1, <1>2
<1>5. p \in Seq(T) /\ Len(p) = n /\ DOMAIN p = 1..n
  BY <1>2, <1>3, <1>4
<1>6. \A m, k \in 1..n : m # k => a[m] # a[k]
  <2>1. \A m, k \in 1..n : m < k \/ k < m \/ m = k
    BY <1>2
  <2> QED
    BY <1>2, <1>4, <2>1
<1>7. \A m \in 1..n : p[m] = s[a[m]]
  BY <1>3
<1>8. \A m \in DOMAIN p : \E i \in I : p[m] = s[i]
  BY <1>4, <1>5, <1>7
<1>9. \A i \in I : \E m \in DOMAIN p : p[m] = s[i]
  <2> SUFFICES ASSUME NEW i \in I
               PROVE  \E m \in DOMAIN p : p[m] = s[i]
    OBVIOUS
  <2>1. PICK m \in 1..n : a[m] = i
    BY <1>2
  <2>2. m \in DOMAIN p /\ p[m] = s[i]
    BY <1>5, <1>7, <2>1
  <2> QED
    BY <2>2
<1>10. \A m, k \in DOMAIN p : m # k => \E i, j \in I : i # j /\ p[m] = s[i] /\ p[k] = s[j]
  BY <1>4, <1>5, <1>6, <1>7
<1> QED
  BY <1>5, <1>8, <1>9, <1>10 DEF p

\* Sorting moves each row to one place, and no row is before one of a greater key.
LEMMA SortedByIsSorted ==
    ASSUME NEW T, NEW s \in Seq(T), NEW key \in [DOMAIN s -> Int]
    PROVE  LET r == Ranked(DOMAIN s, ByKey(key))
           IN  /\ SortedBy(s, key) \in Seq(T) /\ Len(SortedBy(s, key)) = Len(s)
               /\ r \in [1..Len(s) -> 1..Len(s)]
               /\ \A i \in 1..Len(s) : \E m \in 1..Len(s) : r[m] = i
               /\ \A m, k \in 1..Len(s) : m # k => r[m] # r[k]
               /\ \A m \in 1..Len(s) : SortedBy(s, key)[m] = s[r[m]]
               /\ \A m, k \in 1..Len(s) : m < k => key[r[m]] >= key[r[k]]
PROOF
<1> DEFINE D == DOMAIN s
           B == ByKey(key)
           n == Len(s)
           r == Ranked(D, B)
<1>0. n \in Nat /\ D = 1..n
  OBVIOUS
<1>1. IsFiniteSet(D) /\ Cardinality(D) = n
  <2> HIDE DEF D, n
  <2>1. IsFiniteSet(1..n)
          /\ Cardinality(1..n) = IF 1 > n THEN 0 ELSE n - 1 + 1
    BY <1>0, FS_Interval
  <2> QED
    BY <1>0, <2>1
<1>2. \A i \in D : i \in Int /\ key[i] \in Int
  OBVIOUS
<1>3. \A i, j \in D : <<i, j>> \in B <=>
         \/ key[i] > key[j]
         \/ key[i] = key[j] /\ i < j
  BY DEF ByKey
<1> HIDE DEF B
<1>4. \A x \in D : <<x, x>> \notin B
  BY <1>2, <1>3
<1>5. \A x, y, z \in D : <<x, y>> \in B /\ <<y, z>> \in B => <<x, z>> \in B
  BY <1>2, <1>3
<1>6. \A x, y \in D : x = y \/ <<x, y>> \in B \/ <<y, x>> \in B
  <2> SUFFICES ASSUME NEW x \in D, NEW y \in D
               PROVE  x = y \/ <<x, y>> \in B \/ <<y, x>> \in B
    OBVIOUS
  <2> HIDE DEF D
  <2>1. \/ key[x] > key[y]
        \/ key[y] > key[x]
        \/ key[x] = key[y] /\ (x < y \/ y < x \/ x = y)
    BY <1>2
  <2>2. (key[x] > key[y] \/ (key[x] = key[y] /\ x < y)) => <<x, y>> \in B
    BY <1>3
  <2>3. (key[y] > key[x] \/ (key[y] = key[x] /\ y < x)) => <<y, x>> \in B
    BY <1>3
  <2> QED
    BY <2>1, <2>2, <2>3
<1>7. /\ r \in [1..n -> D]
      /\ \A x \in D : \E i \in 1..n : r[i] = x
      /\ \A i, j \in 1..n : i < j => <<r[i], r[j]>> \in B
  <2> HIDE DEF D, n
  <2> QED
    BY <1>1, <1>4, <1>5, <1>6, RankedIsInOrder
<1>8. SortedBy(s, key) = [m \in 1..n |-> s[r[m]]]
  BY <1>0 DEF SortedBy, B
<1> HIDE DEF r
<1>9. \A m \in 1..n : r[m] \in D /\ s[r[m]] \in T
  BY <1>0, <1>7
<1>10. SortedBy(s, key) \in Seq(T) /\ Len(SortedBy(s, key)) = n
  BY <1>0, <1>8, <1>9
<1>11. \A m, k \in 1..n : m < k => r[m] # r[k] /\ key[r[m]] >= key[r[k]]
  <2> SUFFICES ASSUME NEW m \in 1..n, NEW k \in 1..n, m < k
               PROVE  r[m] # r[k] /\ key[r[m]] >= key[r[k]]
    OBVIOUS
  <2>1. <<r[m], r[k]>> \in B /\ r[m] \in D /\ r[k] \in D
    BY <1>7, <1>9
  <2> HIDE DEF D
  <2>2. r[m] # r[k]
    BY <1>4, <2>1
  <2>3. key[r[m]] > key[r[k]] \/ key[r[m]] = key[r[k]]
    BY <1>3, <2>1
  <2> QED
    BY <1>2, <2>1, <2>2, <2>3
<1>12. \A m, k \in 1..n : m # k => r[m] # r[k]
  <2>1. \A m, k \in 1..n : m < k \/ k < m \/ m = k
    BY <1>0
  <2> QED
    BY <1>11, <2>1
<1> QED
  BY <1>0, <1>7, <1>8, <1>10, <1>11, <1>12 DEF r, B

-----------------------------------------------------------------------------
(* The invariant *)

ListEntry == [pid : Pids, name : Nat, parent : Pids \cup {NoPid}]
ListRow == [pid : Pids, name : Nat, parent : Pids \cup {NoPid}, memory : Nat \cup {Hidden},
            cpu : Nat \cup {Hidden}, born : Nat \cup {-1}, depth : Nat]
TreeTask == [pid : Pids, depth : Nat, todo : {"children", "figures"}]

OnePidEach(s) == \A i, j \in DOMAIN s : i # j => s[i].pid # s[j].pid

\* What is collected before there is an answer.
Collected ==
    /\ entries \in Seq(ListEntry) /\ OnePidEach(entries)
    /\ rows \in Seq(ListRow)
    /\ lstep # "idle" => lcall \in ProcessCalls
    /\ lstep # "answered" => lreply.kind = "none"
    /\ lstep \in {"idle", "snapshot"} =>
         rest = <<>> /\ rows = <<>> /\ pinned = {}
    /\ lstep \in {"idle", "snapshot", "open"} => rows = <<>> /\ sampled = <<>>

\* A listing meets each process once.
EachOnce ==
    lstep = "enrich" =>
      /\ rest \in Seq(ListEntry \cup [pid : Pids])
      /\ entries # <<>> => rest \in Seq(ListEntry)
      /\ OnePidEach(rest) /\ OnePidEach(rows)
      /\ \A i \in DOMAIN rest, j \in DOMAIN rows : rest[i].pid # rows[j].pid

\* The handle that is kept open keeps the process that was read first.
HandleKeeps ==
    lstep = "sample" =>
      /\ pinned = {lcall.pid} /\ Len(rows) = 1
      /\ rows[1].born = alive[lcall.pid].born
      /\ sampled \in Seq(Int)
      /\ \A i \in DOMAIN sampled : sampled[i] = rows[1].born

\* Places in the tree that have a node by now, and those that may still get one.
Expanded == {<<r.pid, r.depth>> : r \in Range(rows)}
              \cup {<<t.pid, t.depth>> : t \in {x \in Range(rest) : x.todo = "figures"}}
Pending == {<<t.pid, t.depth>> : t \in {x \in Range(rest) : x.todo = "children"}}

\* The recursion of build_node as a stack of tasks: below the tasks of a depth is the
\* node they are the children of.
Follows(x, y) == \/ y.todo = "children" /\ y.depth = x.depth
                 \/ y.todo = "figures" /\ y.depth = x.depth - 1
ProperStack(s) ==
    \A i \in 1..Len(s) :
      /\ i = Len(s) => s[i].depth = 0
      /\ i < Len(s) => Follows(s[i], s[i + 1])
Stacked ==
    lstep = "visit" =>
      /\ rest \in Seq(TreeTask) /\ ProperStack(rest)
      /\ \A t \in Range(rest) : Known(t.pid) # {}

\* The nodes whose children are being built.
Opened == IF rest = <<>> THEN 0
          ELSE IF rest[1].todo = "children" THEN rest[1].depth ELSE rest[1].depth + 1

\* Every node is one of the limit.
Budgeted == lstep = "visit" => Len(rows) + Opened + budget = lcall.limit

\* The root is visited first, when there is budget left.
RootFirst ==
    lstep = "visit" =>
      /\ \A p \in Pids : <<p, 0>> \in Expanded \cup Pending => p = lcall.pid
      /\ \/ rest = <<Task(lcall.pid, 0, "children")>> /\ budget = lcall.limit
         \/ <<lcall.pid, 0>> \in Expanded /\ \A p \in Pids : <<p, 0>> \notin Pending

\* A place below the root has a parent with a node, and a node has places for its
\* children as long as there is budget left.
Descended ==
    lstep = "visit" =>
      /\ \A p \in Pids, d \in Nat : <<p, d>> \in Expanded \cup Pending =>
           /\ d <= lcall.depth
           /\ d > 0 => \E e \in Range(entries) : e.pid = p /\ <<e.parent, d - 1>> \in Expanded
      /\ budget > 0 =>
           \A e \in Range(entries), d \in Nat :
             d < lcall.depth /\ <<e.parent, d>> \in Expanded =>
               <<e.pid, d + 1>> \in Expanded \cup Pending

ProcessesInv ==
    /\ ProcessesTypeOK /\ Collected
    /\ EachOnce /\ HandleKeeps
    /\ Stacked /\ Budgeted /\ RootFirst /\ Descended
    /\ ListingComplete /\ HeaviestTold /\ FiguresOfOneProcess /\ TreeComplete

-----------------------------------------------------------------------------
(* What the operators return *)

LEMMA PidsAreNumbers ==
    IsFiniteSet(Pids) /\ \A p \in Pids : p \in Nat /\ p > 0
PROOF
<1>1. Pids \in SUBSET (Nat \ {0}) /\ IsFiniteSet(Pids)
  BY PidsAssumption, Zenon
<1>2. \A p \in Pids : p \in Nat \ {0}
  BY <1>1
<1> QED
  BY <1>1, <1>2

LEMMA TakenIsPrefix ==
    ASSUME NEW T, NEW s \in Seq(T), NEW n \in Nat
    PROVE  /\ Take(s, n) \in Seq(T)
           /\ Len(Take(s, n)) = IF n < Len(s) THEN n ELSE Len(s)
           /\ \A i \in 1..Len(Take(s, n)) : Take(s, n)[i] = s[i]
PROOF
<1> DEFINE m == IF n < Len(s) THEN n ELSE Len(s)
<1>1. Len(s) \in Nat /\ m \in 0..Len(s)
  OBVIOUS
<1>2. Take(s, n) = SubSeq(s, 1, m)
  BY DEF Take
<1> HIDE DEF m
<1>3. SubSeq(s, 1, m) = [i \in 1..m |-> s[i]]
  BY <1>1
<1>4. SubSeq(s, 1, m) \in Seq(T) /\ Len(SubSeq(s, 1, m)) = m
  BY <1>1, <1>3
<1> QED
  BY <1>2, <1>3, <1>4 DEF m

LEMMA KeysAreIntegers ==
    ASSUME NEW s \in Seq(ListRow),
           NEW sort \in {"none", "name", "pid", "cpu_time", "memory"}
    PROVE  /\ ListingKeys(s) \in [DOMAIN s -> Int]
           /\ SortKeys(s, sort) \in [DOMAIN s -> Int]
PROOF
<1>1. \A i \in DOMAIN s : s[i] \in ListRow
  OBVIOUS
<1>2. ASSUME NEW r \in ListRow
      PROVE  ListingKey(r) \in Int /\ SortKey(r, sort) \in Int
  <2>1. /\ r.memory \in Int /\ r.cpu \in Int /\ r.name \in Int /\ r.pid \in Int
    BY PidsAreNumbers DEF ListRow, Hidden
  <2>2. ListingKey(r) \in Int
    BY <2>1 DEF ListingKey
  <2>3. SortKey(r, sort) \in Int
    BY <2>1 DEF SortKey
  <2> QED
    BY <2>2, <2>3
<1> QED
  BY <1>1, <1>2 DEF ListingKeys, SortKeys

LEMMA RunningArePids ==
    /\ RunningPids \in Seq(Pids)
    /\ \A i \in DOMAIN RunningPids : alive[RunningPids[i]] # Absent
    /\ \A i, j \in DOMAIN RunningPids : i # j => RunningPids[i] # RunningPids[j]
PROOF
<1> DEFINE S == {p \in Pids : alive[p] # Absent}
           n == Cardinality(S)
<1>1. S \in SUBSET Pids /\ \A p \in S : alive[p] # Absent
  OBVIOUS
<1>2. S \in SUBSET Int /\ IsFiniteSet(S)
  <2>1. S \in SUBSET Int
    BY PidsAreNumbers
  <2> HIDE DEF S
  <2>2. IsFiniteSet(S)
    BY <1>1, PidsAreNumbers, FS_Subset
  <2> QED
    BY <2>1, <2>2
<1>3. RunningPids = Ascending(S)
  BY DEF RunningPids
<1> HIDE DEF S
<1>4. /\ n \in Nat /\ RunningPids \in [1..n -> S]
      /\ \A i, j \in 1..n : i < j => RunningPids[i] < RunningPids[j]
  BY <1>2, <1>3, AscendingIsInOrder
<1> HIDE DEF n
<1>5. \A i \in 1..n : RunningPids[i] \in S /\ RunningPids[i] \in Int
  BY <1>2, <1>4
<1>6. RunningPids \in Seq(Pids) /\ DOMAIN RunningPids = 1..n
  BY <1>1, <1>4
<1>7. \A i, j \in 1..n : i # j => RunningPids[i] # RunningPids[j]
  <2>1. \A i, j \in 1..n : i < j \/ j < i \/ i = j
    BY <1>4
  <2> QED
    BY <1>4, <1>5, <2>1
<1> QED
  BY <1>1, <1>5, <1>6, <1>7

LEMMA SnapshotLists ==
    ASSUME alive \in [Pids -> Process \cup {Absent}], NEW s \in Snapshots
    PROVE  s \in Seq(ListEntry) /\ OnePidEach(s)
PROOF
<1>1. CASE s = <<>>
  BY <1>1 DEF OnePidEach
<1>2. CASE s = [i \in DOMAIN RunningPids |-> Entry(RunningPids[i])]
  <2>1. \A i \in DOMAIN RunningPids :
          RunningPids[i] \in Pids /\ alive[RunningPids[i]] \in Process
    BY RunningArePids
  <2>2. \A i \in DOMAIN RunningPids :
          Entry(RunningPids[i]) \in ListEntry /\ Entry(RunningPids[i]).pid = RunningPids[i]
    BY <2>1 DEF Entry, ListEntry, Process
  <2>3. \A i \in DOMAIN s : s[i].pid = RunningPids[i] /\ i \in DOMAIN RunningPids
    BY <1>2, <2>2
  <2>4. s \in Seq(ListEntry)
    BY <1>2, <2>2, RunningArePids
  <2> QED
    BY <2>3, <2>4, RunningArePids DEF OnePidEach
<1> QED
  BY <1>1, <1>2 DEF Snapshots

LEMMA RowsAreRows ==
    ASSUME alive \in [Pids -> Process \cup {Absent}]
    PROVE  /\ \A e \in ListEntry :
                /\ EnrichEntry(e) \in ListRow /\ EnrichEntry(e).pid = e.pid
                /\ alive[e.pid].opens => EnrichEntry(e).born = alive[e.pid].born
                /\ Row(e, e.pid) \in ListRow
           /\ \A p \in Pids : PidOnlyInfo(p) \in ListRow /\ PidOnlyInfo(p).pid = p
PROOF
<1>1. ASSUME NEW e \in ListEntry
      PROVE  /\ EnrichEntry(e) \in ListRow /\ EnrichEntry(e).pid = e.pid
             /\ alive[e.pid].opens => EnrichEntry(e).born = alive[e.pid].born
             /\ Row(e, e.pid) \in ListRow
  <2>1. e.pid \in Pids /\ e.name \in Nat /\ e.parent \in Pids \cup {NoPid}
    BY DEF ListEntry
  <2>2. Row(e, e.pid) \in ListRow /\ Row(e, e.pid).pid = e.pid
    BY <2>1 DEF Row, ListRow
  <2>3. CASE ~alive[e.pid].opens
    BY <2>2, <2>3 DEF EnrichEntry
  <2>4. CASE alive[e.pid].opens
    <3>1. alive[e.pid] # Absent
      BY <2>4 DEF Absent
    <3>2. alive[e.pid] \in Process
      BY <2>1, <3>1
    <3>3. /\ alive[e.pid].memory \in Nat /\ alive[e.pid].cpu \in Nat
          /\ alive[e.pid].born \in Nat
      BY <3>2 DEF Process
    <3>4. EnrichEntry(e) = [Row(e, e.pid) EXCEPT !.memory = alive[e.pid].memory,
                              !.cpu = alive[e.pid].cpu, !.born = alive[e.pid].born]
      BY <2>4 DEF EnrichEntry
    <3>5. EnrichEntry(e) = [pid |-> e.pid, name |-> e.name, parent |-> e.parent,
                            memory |-> alive[e.pid].memory, cpu |-> alive[e.pid].cpu,
                            born |-> alive[e.pid].born, depth |-> 0]
      BY <3>4 DEF Row
    <3> QED
      BY <2>1, <2>2, <3>3, <3>5 DEF ListRow
  <2> QED
    BY <2>3, <2>4
<1>2. ASSUME NEW p \in Pids
      PROVE  PidOnlyInfo(p) \in ListRow /\ PidOnlyInfo(p).pid = p
  BY DEF PidOnlyInfo, Row, ListRow
<1> QED
  BY <1>1, <1>2

\* The entry of a PID that the snapshot has.
LEMMA EntryIsFound ==
    ASSUME entries \in Seq(ListEntry), NEW p, Known(p) # {}
    PROVE  EntryFor(p) \in ListEntry /\ EntryFor(p) \in Range(entries) /\ EntryFor(p).pid = p
PROOF
<1>1. EntryFor(p) \in Known(p)
  BY DEF EntryFor
<1>2. Known(p) \in SUBSET ListEntry /\ \A e \in Known(p) : e \in Range(entries) /\ e.pid = p
  BY DEF Known, Range
<1> QED
  BY <1>1, <1>2

-----------------------------------------------------------------------------
(* The answer of a listing *)

LEMMA OnePidEachCounts ==
    ASSUME NEW s \in Seq(ListRow), OnePidEach(s)
    PROVE  Cardinality(PidsOf(s)) = Len(s)
PROOF
<1> DEFINE f == [i \in 1..Len(s) |-> s[i].pid]
<1>1. Len(s) \in Nat /\ DOMAIN s = 1..Len(s)
  OBVIOUS
<1>2. PidsOf(s) = {s[i].pid : i \in 1..Len(s)}
  BY <1>1 DEF PidsOf
<1>3. f \in [1..Len(s) -> PidsOf(s)] /\ \A i \in 1..Len(s) : f[i] = s[i].pid
  BY <1>2
<1>4. \A p \in PidsOf(s) : \E i \in 1..Len(s) : f[i] = p
  BY <1>2, <1>3
<1>5. \A i, j \in 1..Len(s) : f[i] = f[j] => i = j
  BY <1>1, <1>3 DEF OnePidEach
<1> HIDE DEF f
<1>6. f \in Bijection(1..Len(s), PidsOf(s))
  BY <1>3, <1>4, <1>5 DEF Bijection, Injection, Surjection, IsInjective
<1>7. ExistsBijection(1..Len(s), PidsOf(s))
  BY <1>6 DEF ExistsBijection
<1> QED
  BY <1>1, <1>7, FS_CountingElements

LEMMA ListingIsTold ==
    ASSUME rows \in Seq(ListRow), OnePidEach(rows), lcall \in ProcessCalls, AnswerListing
    PROVE  ListingComplete' /\ HeaviestTold'
PROOF
<1> DEFINE n == Len(rows)
           k1 == ListingKeys(rows)
           r1 == Ranked(DOMAIN rows, ByKey(k1))
           s1 == SortedBy(rows, k1)
           listed == Take(s1, lcall.limit)
           L == Len(listed)
           k2 == SortKeys(listed, lcall.sort)
           r2 == Ranked(DOMAIN listed, ByKey(k2))
           s2 == SortedBy(listed, k2)
           told == IF lcall.top = NoTop THEN s2 ELSE Take(s2, lcall.top)
           t == Len(told)
<1>1. /\ lcall.limit \in Nat /\ lcall.limit > 0 /\ lcall.top \in Nat
      /\ lcall.sort \in {"none", "name", "pid", "cpu_time", "memory"}
  BY ProcessCallsAssumption
<1>2. /\ lreply' = [kind |-> "rows", rows |-> told, truncated |-> t = lcall.limit]
      /\ lcall' = lcall /\ rows' = rows
  BY DEF AnswerListing
<1>3. /\ s1 \in Seq(ListRow) /\ Len(s1) = n
      /\ r1 \in [1..n -> 1..n]
      /\ \A i \in 1..n : \E m \in 1..n : r1[m] = i
      /\ \A m, k \in 1..n : m # k => r1[m] # r1[k]
      /\ \A m \in 1..n : s1[m] = rows[r1[m]]
      /\ \A m, k \in 1..n : m < k => k1[r1[m]] >= k1[r1[k]]
  <2>1. k1 \in [DOMAIN rows -> Int]
    BY KeysAreIntegers
  <2> HIDE DEF k1
  <2> QED
    BY <2>1, SortedByIsSorted
<1> HIDE DEF s1, r1
<1>4. /\ listed \in Seq(ListRow) /\ L = (IF lcall.limit < n THEN lcall.limit ELSE n)
      /\ \A i \in 1..L : listed[i] = s1[i]
  BY <1>1, <1>3, TakenIsPrefix
<1> HIDE DEF listed
<1>5. /\ s2 \in Seq(ListRow) /\ Len(s2) = L
      /\ r2 \in [1..L -> 1..L]
      /\ \A i \in 1..L : \E m \in 1..L : r2[m] = i
      /\ \A m, k \in 1..L : m # k => r2[m] # r2[k]
      /\ \A m \in 1..L : s2[m] = listed[r2[m]]
      /\ \A m, k \in 1..L : m < k => k2[r2[m]] >= k2[r2[k]]
  <2>1. k2 \in [DOMAIN listed -> Int]
    BY <1>1, <1>4, KeysAreIntegers
  <2> HIDE DEF k2
  <2> QED
    BY <1>4, <2>1, SortedByIsSorted
<1> HIDE DEF s2, r2
<1>6. /\ told \in Seq(ListRow) /\ t \in Nat /\ t <= L
      /\ \A m \in 1..t : told[m] = s2[m]
      /\ lcall.top = NoTop => t = L
  <2>1. CASE lcall.top = NoTop
    BY <1>5, <2>1
  <2>2. CASE lcall.top # NoTop
    BY <1>1, <1>5, <2>2, TakenIsPrefix
  <2> QED
    BY <2>1, <2>2
<1> HIDE DEF told
<1>7. n \in Nat /\ L \in Nat /\ L <= n /\ DOMAIN rows = 1..n /\ DOMAIN listed = 1..L
        /\ DOMAIN told = 1..t
  BY <1>1, <1>4, <1>6
<1> HIDE DEF n, L, t, k1, k2
<1>8. \A m \in 1..t : /\ r2[m] \in 1..L /\ r2[m] \in 1..n
                      /\ r1[r2[m]] \in 1..n /\ told[m] = rows[r1[r2[m]]]
  <2> SUFFICES ASSUME NEW m \in 1..t
               PROVE  /\ r2[m] \in 1..L /\ r2[m] \in 1..n
                      /\ r1[r2[m]] \in 1..n /\ told[m] = rows[r1[r2[m]]]
    OBVIOUS
  <2>1. m \in 1..L
    BY <1>6, <1>7
  <2>2. r2[m] \in 1..L
    BY <1>5, <2>1
  <2>3. r2[m] \in 1..n
    BY <1>7, <2>2
  <2>4. r1[r2[m]] \in 1..n
    BY <1>3, <2>3
  <2>5. told[m] = listed[r2[m]]
    BY <1>5, <1>6, <2>1
  <2>6. listed[r2[m]] = s1[r2[m]]
    BY <1>4, <2>2
  <2> QED
    BY <1>3, <2>2, <2>3, <2>4, <2>5, <2>6
<1>9. PidsOf(told) \subseteq PidsOf(rows)
  BY <1>7, <1>8 DEF PidsOf
<1>10. OnePidEach(told)
  <2> SUFFICES ASSUME NEW m \in 1..t, NEW k \in 1..t, m # k
               PROVE  told[m].pid # told[k].pid
    BY <1>7 DEF OnePidEach
  <2>1. m \in 1..L /\ k \in 1..L
    BY <1>6, <1>7
  <2>2. r2[m] # r2[k]
    BY <1>5, <2>1
  <2>3. r1[r2[m]] # r1[r2[k]]
    BY <1>3, <1>8, <2>2
  <2> QED
    BY <1>7, <1>8, <2>3 DEF OnePidEach
<1>11. \A i \in DOMAIN rows :
         \E k \in 1..n : r1[k] = i /\ (k <= L => \E m \in 1..L : r2[m] = k)
  <2> SUFFICES ASSUME NEW i \in 1..n
               PROVE \E k \in 1..n : r1[k] = i /\ (k <= L => \E m \in 1..L : r2[m] = k)
    BY <1>7
  <2>1. PICK k \in 1..n : r1[k] = i
    BY <1>3
  <2>2. k <= L => k \in 1..L
    BY <1>7
  <2> QED
    BY <1>5, <2>1, <2>2
<1>12. ListingComplete'
  <2>1. Cardinality(PidsOf(told)) = Len(told)
    BY <1>6, <1>10, OnePidEachCounts
  <2>2. ASSUME t # lcall.limit, lcall.top = NoTop
        PROVE  PidsOf(told) = PidsOf(rows)
    <3>1. t = L /\ L = n
      BY <1>1, <1>4, <1>6, <1>7, <2>2 DEF L, n
    <3>2. \A i \in DOMAIN rows : \E m \in 1..t : r1[r2[m]] = i
      BY <1>7, <1>11, <3>1
    <3>3. \A i \in DOMAIN rows : \E m \in DOMAIN told : told[m].pid = rows[i].pid
      BY <1>7, <1>8, <3>2
    <3>4. PidsOf(rows) \subseteq PidsOf(told)
      BY <3>3 DEF PidsOf
    <3> QED
      BY <1>9, <3>4
  <2>3. lreply'.rows = told /\ (lreply'.truncated <=> t = lcall.limit)
    BY <1>2
  <2>4. /\ Cardinality(PidsOf(lreply'.rows)) = Len(lreply'.rows)
        /\ PidsOf(lreply'.rows) \subseteq PidsOf(rows')
        /\ ~lreply'.truncated /\ lcall'.top = NoTop => PidsOf(lreply'.rows) = PidsOf(rows')
    BY <1>2, <1>9, <2>1, <2>2, <2>3
  <2>5. PidsOf(rows)' = PidsOf(rows') /\ PidsOf(lreply.rows)' = PidsOf(lreply'.rows)
    BY DEF PidsOf
  <2> QED
    BY <2>4, <2>5 DEF ListingComplete
<1>13. ASSUME NEW i \in DOMAIN rows, NEW j \in DOMAIN told, rows[i].pid \notin PidsOf(told)
       PROVE  /\ lcall.top = NoTop => rows[i].memory <= told[j].memory
              /\ n <= lcall.limit /\ lcall.sort # "none" =>
                   SortKey(rows[i], lcall.sort) <= SortKey(told[j], lcall.sort)
  <2>1. PICK k \in 1..n : r1[k] = i /\ (k <= L => \E m \in 1..L : r2[m] = k)
    BY <1>11
  <2>2. \A m \in 1..t : r1[r2[m]] # i
    BY <1>7, <1>8, <1>13 DEF PidsOf
  <2>3. j \in 1..t /\ j \in 1..L
    BY <1>6, <1>7
  <2>4. ASSUME lcall.top = NoTop
        PROVE  rows[i].memory <= told[j].memory
    <3>1. t = L
      BY <1>6, <2>4
    <3>2. ~(k <= L)
      BY <2>1, <2>2, <3>1
    <3>3. r2[j] \in 1..n /\ r2[j] < k
      BY <1>7, <1>8, <2>3, <3>2
    <3>4. k1[r1[r2[j]]] >= k1[r1[k]]
      BY <1>3, <3>3
    <3>5. ListingKey(told[j]) >= ListingKey(rows[i])
      BY <1>7, <1>8, <2>1, <2>3, <3>4 DEF k1, ListingKeys
    <3>6. /\ told[j].memory \in Nat \cup {-1} /\ rows[i].memory \in Nat \cup {-1}
          /\ told[j].pid \in Nat /\ told[j].pid > 0
      <4>1. told[j] \in ListRow /\ rows[i] \in ListRow
        BY <1>6
      <4> QED
        BY <4>1, PidsAreNumbers DEF ListRow, Hidden
    <3> QED
      BY <3>5, <3>6 DEF ListingKey, Hidden
  <2>5. ASSUME n <= lcall.limit
        PROVE  SortKey(rows[i], lcall.sort) <= SortKey(told[j], lcall.sort)
    <3>1. L = n
      BY <1>1, <1>4, <1>7, <2>5 DEF L, n
    <3>2. PICK m \in 1..L : r2[m] = k
      BY <1>7, <2>1, <3>1
    <3>3. m \notin 1..t
      BY <2>1, <2>2, <3>2
    <3>4. j < m
      BY <1>6, <1>7, <2>3, <3>3
    <3>5. k2[r2[j]] >= k2[k]
      BY <1>5, <2>3, <3>2, <3>4
    <3>6. listed[r2[j]] = told[j]
      BY <1>5, <1>6, <2>3
    <3>7. listed[k] = rows[i] /\ k \in 1..L
      BY <1>3, <1>4, <2>1, <3>1
    <3>8. k2[k] = SortKey(rows[i], lcall.sort) /\ k2[r2[j]] = SortKey(told[j], lcall.sort)
      BY <1>7, <1>8, <2>3, <3>6, <3>7 DEF k2, SortKeys
    <3>9. k2[k] \in Int /\ k2[r2[j]] \in Int
      <4>1. k2 \in [DOMAIN listed -> Int]
        BY <1>1, <1>4, KeysAreIntegers DEF k2
      <4> QED
        BY <1>7, <1>8, <2>3, <3>7, <4>1
    <3> QED
      BY <3>5, <3>8, <3>9
  <2> QED
    BY <2>4, <2>5
<1>14. HeaviestTold'
  BY <1>2, <1>13 DEF HeaviestTold, n, PidsOf
<1> QED
  BY <1>12, <1>14

-----------------------------------------------------------------------------
(* The steps but those of a tree *)

LEMMA NothingToldYet ==
    ASSUME lreply'.kind \notin {"rows", "process", "tree"}
    PROVE  ListingComplete' /\ HeaviestTold' /\ FiguresOfOneProcess' /\ TreeComplete'
PROOF
  BY DEF ListingComplete, HeaviestTold, FiguresOfOneProcess, TreeComplete

LEMMA AnswersFrame ==
    ASSUME UNCHANGED <<lcall, entries, rows, sampled, lreply>>,
           ListingComplete /\ HeaviestTold /\ FiguresOfOneProcess /\ TreeComplete
    PROVE  ListingComplete' /\ HeaviestTold' /\ FiguresOfOneProcess' /\ TreeComplete'
PROOF
<1>1. ListingComplete'
  <2>1. lreply' = lreply /\ lcall' = lcall
    OBVIOUS
  <2>2. PidsOf(rows)' = PidsOf(rows) /\ PidsOf(lreply.rows)' = PidsOf(lreply.rows)
    BY DEF PidsOf
  <2> QED
    BY <2>1, <2>2, Zenon DEF ListingComplete
<1>2. HeaviestTold'
  BY DEF HeaviestTold, PidsOf
<1>3. FiguresOfOneProcess'
  BY DEF FiguresOfOneProcess
<1>4. TreeComplete'
  BY DEF TreeComplete, Offspring
<1> QED
  BY <1>1, <1>2, <1>3, <1>4

TreeInv == Stacked /\ Budgeted /\ RootFirst /\ Descended

LEMMA NoTreeNow ==
    ASSUME lstep' # "visit" PROVE TreeInv'
PROOF
  BY DEF TreeInv, Stacked, Budgeted, RootFirst, Descended

LEMMA TreeFrame ==
    ASSUME UNCHANGED <<lstep, lcall, entries, rest, rows, budget>>, TreeInv
    PROVE  TreeInv'
PROOF
<1>1. Stacked'
  BY DEF TreeInv, Stacked, Known, ProperStack
<1>2. Budgeted'
  BY DEF TreeInv, Budgeted, Opened
<1>3. Expanded' = Expanded /\ Pending' = Pending
  BY DEF Expanded, Pending
<1>4. RootFirst'
  BY <1>3 DEF TreeInv, RootFirst
<1>5. Descended'
  BY <1>3 DEF TreeInv, Descended
<1> QED
  BY <1>1, <1>2, <1>4, <1>5 DEF TreeInv

LEMMA ProcessesStart ==
    ASSUME ProcessesIdle PROVE ProcessesInv
PROOF
<1> USE DEF ProcessesIdle
<1>1. ProcessesTypeOK
  BY TablesAssumption DEF ProcessesTypeOK, NobodyAlive, NoProcessAnswer
<1>2. Collected
  BY DEF Collected, OnePidEach, NoProcessAnswer
<1>3. EachOnce /\ HandleKeeps
  BY DEF EachOnce, HandleKeeps
<1>4. Stacked /\ Budgeted /\ RootFirst /\ Descended
  BY DEF Stacked, Budgeted, RootFirst, Descended
<1>5. ListingComplete /\ HeaviestTold /\ FiguresOfOneProcess /\ TreeComplete
  BY DEF ListingComplete, HeaviestTold, FiguresOfOneProcess, TreeComplete, NoProcessAnswer
<1> QED
  BY <1>1, <1>2, <1>3, <1>4, <1>5 DEF ProcessesInv

LEMMA AcceptProcessCallSteps ==
    ASSUME ProcessesInv, AcceptProcessCall PROVE ProcessesInv'
PROOF
<1>1. lstep = "idle" /\ lstep' = "snapshot" /\ lreply' = lreply /\ lcall' \in ProcessCalls
  BY DEF AcceptProcessCall
<1>2. ProcessesTypeOK'
  <2>1. alive' \in [Pids -> Process \cup {Absent}]
    BY TablesAssumption DEF AcceptProcessCall
  <2> QED
    BY <1>1, <2>1 DEF AcceptProcessCall, ProcessesInv, ProcessesTypeOK
<1>3. Collected'
  BY <1>1 DEF AcceptProcessCall, ProcessesInv, Collected, OnePidEach
<1>4. EachOnce' /\ HandleKeeps'
  BY <1>1 DEF EachOnce, HandleKeeps
<1>5. TreeInv'
  BY <1>1, NoTreeNow
<1>6. lreply'.kind = "none"
  BY <1>1 DEF ProcessesInv, Collected
<1> QED
  BY <1>2, <1>3, <1>4, <1>5, <1>6, NothingToldYet DEF ProcessesInv, TreeInv

LEMMA ProcessesRepliedSteps ==
    ASSUME ProcessesReplied PROVE ProcessesInv'
PROOF
<1> USE DEF ProcessesReplied
<1>1. ProcessesTypeOK'
  BY TablesAssumption DEF ProcessesTypeOK, NobodyAlive, NoProcessAnswer
<1>2. Collected'
  BY DEF Collected, OnePidEach, NoProcessAnswer
<1>3. EachOnce' /\ HandleKeeps'
  BY DEF EachOnce, HandleKeeps
<1>4. TreeInv'
  BY NoTreeNow
<1>5. lreply'.kind = "none"
  BY DEF NoProcessAnswer
<1> QED
  BY <1>1, <1>2, <1>3, <1>4, <1>5, NothingToldYet DEF ProcessesInv, TreeInv

LEMMA ProcessesChangeSteps ==
    ASSUME ProcessesInv, ProcessesChange PROVE ProcessesInv'
PROOF
<1>1. /\ UNCHANGED <<lcall, lstep, pinned, entries, rest, rows, budget, sampled, lreply>>
      /\ changes < MaxChanges /\ changes' = changes + 1
  BY DEF ProcessesChange
<1>2. PICK p \in Pids \ pinned, q \in NewProcesses \cup {Absent} :
        alive' = [alive EXCEPT ![p] =
                    IF q = Absent THEN Absent ELSE [q EXCEPT !.born = changes + 1]]
  BY DEF ProcessesChange
<1>3. alive \in [Pids -> Process \cup {Absent}] /\ changes \in Nat /\ MaxChanges \in Nat
        /\ changes' \in 0..MaxChanges
  BY <1>1, TablesAssumption DEF ProcessesInv, ProcessesTypeOK
<1>4. (IF q = Absent THEN Absent ELSE [q EXCEPT !.born = changes + 1])
        \in Process \cup {Absent}
  <2>1. CASE q = Absent
    BY <2>1
  <2>2. CASE q # Absent
    <3>1. q \in Process
      BY <2>2, TablesAssumption
    <3>2. [q EXCEPT !.born = changes + 1] \in Process
      BY <1>3, <3>1 DEF Process
    <3> QED
      BY <2>2, <3>2
  <2> QED
    BY <2>1, <2>2
<1>5. ProcessesTypeOK'
  <2>1. alive' \in [Pids -> Process \cup {Absent}]
    BY <1>2, <1>3, <1>4
  <2> QED
    BY <1>1, <1>3, <2>1 DEF ProcessesInv, ProcessesTypeOK
<1>6. Collected'
  BY <1>1 DEF ProcessesInv, Collected, OnePidEach
<1>7. EachOnce'
  BY <1>1 DEF ProcessesInv, EachOnce, OnePidEach
<1>8. HandleKeeps'
  <2> SUFFICES ASSUME lstep = "sample" PROVE HandleKeeps'
    BY <1>1 DEF HandleKeeps
  <2>1. p # lcall.pid
    BY <1>2 DEF ProcessesInv, HandleKeeps
  <2>2. alive'[lcall.pid] = alive[lcall.pid]
    BY <1>2, <1>3, <2>1
  <2> QED
    BY <1>1, <2>2 DEF ProcessesInv, HandleKeeps
<1>9. TreeInv'
  BY <1>1, TreeFrame DEF ProcessesInv, TreeInv
<1> QED
  BY <1>1, <1>5, <1>6, <1>7, <1>8, <1>9, AnswersFrame DEF ProcessesInv, TreeInv

LEMMA EnrichNextSteps ==
    ASSUME ProcessesInv, EnrichNext PROVE ProcessesInv'
PROOF
<1>1. /\ UNCHANGED <<lcall, lstep, alive, changes, pinned, entries, budget, sampled, lreply>>
      /\ lstep = "enrich" /\ rest # <<>> /\ rest' = Tail(rest)
  BY DEF EnrichNext
<1> DEFINE T == ListEntry \cup [pid : Pids]
           new == IF entries = <<>> THEN PidOnlyInfo(Head(rest).pid)
                  ELSE EnrichEntry(Head(rest))
<1>2. /\ rest \in Seq(T) /\ (entries # <<>> => rest \in Seq(ListEntry))
      /\ OnePidEach(rest) /\ OnePidEach(rows) /\ rows \in Seq(ListRow)
      /\ \A i \in DOMAIN rest, j \in DOMAIN rows : rest[i].pid # rows[j].pid
      /\ alive \in [Pids -> Process \cup {Absent}]
  BY <1>1 DEF ProcessesInv, EachOnce, Collected, ProcessesTypeOK
<1>3. rows' = Append(rows, new)
  BY DEF EnrichNext
<1>4. Head(rest) \in T /\ Head(rest) = rest[1] /\ Len(rest) > 0 /\ Len(rest) \in Nat
        /\ (entries # <<>> => Head(rest) \in ListEntry)
  BY <1>1, <1>2
<1>5. new \in ListRow /\ new.pid = rest[1].pid
  <2>1. CASE entries = <<>>
    <3>1. Head(rest).pid \in Pids
      BY <1>4 DEF ListEntry
    <3> QED
      BY <1>2, <1>4, <2>1, <3>1, RowsAreRows
  <2>2. CASE entries # <<>>
    BY <1>2, <1>4, <2>2, RowsAreRows
  <2> QED
    BY <2>1, <2>2
<1> HIDE DEF new
<1>6. /\ rows' \in Seq(ListRow) /\ Len(rows') = Len(rows) + 1
      /\ DOMAIN rows' = 1..(Len(rows) + 1) /\ DOMAIN rows = 1..Len(rows) /\ Len(rows) \in Nat
      /\ \A i \in 1..Len(rows) : rows'[i] = rows[i]
      /\ rows'[Len(rows) + 1] = new
  BY <1>2, <1>3, <1>5
<1>7. /\ rest' \in Seq(T) /\ (entries # <<>> => rest' \in Seq(ListEntry))
      /\ DOMAIN rest' = 1..(Len(rest) - 1) /\ DOMAIN rest = 1..Len(rest)
      /\ \A i \in DOMAIN rest' : i + 1 \in DOMAIN rest /\ rest'[i] = rest[i + 1] /\ i + 1 # 1
  BY <1>1, <1>2, <1>4
<1> HIDE DEF T
<1>8. OnePidEach(rest')
  BY <1>2, <1>7 DEF OnePidEach
<1>9. \A i \in DOMAIN rows : rows[i].pid # new.pid
  BY <1>2, <1>4, <1>5, <1>7
<1>10. OnePidEach(rows')
  <2> SUFFICES ASSUME NEW i \in DOMAIN rows', NEW j \in DOMAIN rows', i # j
               PROVE  rows'[i].pid # rows'[j].pid
    BY DEF OnePidEach
  <2>1. CASE i \in DOMAIN rows /\ j \in DOMAIN rows
    BY <1>2, <1>6, <2>1 DEF OnePidEach
  <2>2. CASE i = Len(rows) + 1 /\ j \in DOMAIN rows
    BY <1>6, <1>9, <2>2
  <2>3. CASE i \in DOMAIN rows /\ j = Len(rows) + 1
    BY <1>6, <1>9, <2>3
  <2> QED
    BY <1>6, <2>1, <2>2, <2>3
<1>11. \A i \in DOMAIN rest', j \in DOMAIN rows' : rest'[i].pid # rows'[j].pid
  <2> SUFFICES ASSUME NEW i \in DOMAIN rest', NEW j \in DOMAIN rows'
               PROVE  rest'[i].pid # rows'[j].pid
    OBVIOUS
  <2>1. CASE j \in DOMAIN rows
    BY <1>2, <1>6, <1>7, <2>1
  <2>2. CASE j = Len(rows) + 1
    <3>1. rest[i + 1].pid # rest[1].pid
      BY <1>2, <1>4, <1>7 DEF OnePidEach
    <3> QED
      BY <1>5, <1>6, <1>7, <2>2, <3>1
  <2> QED
    BY <1>6, <2>1, <2>2
<1>12. ProcessesTypeOK'
  BY <1>1 DEF ProcessesInv, ProcessesTypeOK
<1>13. Collected'
  BY <1>1, <1>6 DEF ProcessesInv, Collected, OnePidEach
<1>14. EachOnce'
  <2>1. OnePidEach(rest)' /\ OnePidEach(rows)'
    BY <1>8, <1>10 DEF OnePidEach
  <2> QED
    BY <1>1, <1>7, <1>11, <2>1 DEF EachOnce, T
<1>15. HandleKeeps' /\ TreeInv'
  BY <1>1, NoTreeNow DEF HandleKeeps
<1>16. lreply'.kind = "none"
  BY <1>1 DEF ProcessesInv, Collected
<1> QED
  BY <1>12, <1>13, <1>14, <1>15, <1>16, NothingToldYet DEF ProcessesInv, TreeInv

\* What list_processes and find_process go through next.
LEMMA ToEnrich ==
    ASSUME NEW s \in Seq(ListEntry), OnePidEach(s), NEW name, NEW r,
           NEW q \in Seq(Pids), \A i, j \in DOMAIN q : i # j => q[i] # q[j],
           \/ r = s
           \/ s = <<>> /\ r = [i \in DOMAIN q |-> [pid |-> q[i]]]
           \/ r = Picked(s, {i \in DOMAIN s : s[i].name = name})
    PROVE  /\ r \in Seq(ListEntry \cup [pid : Pids]) /\ OnePidEach(r)
           /\ s # <<>> => r \in Seq(ListEntry)
PROOF
<1>1. CASE r = s
  BY <1>1
<1>2. CASE s = <<>> /\ r = [i \in DOMAIN q |-> [pid |-> q[i]]]
  <2>1. \A i \in 1..Len(q) : [pid |-> q[i]] \in [pid : Pids]
    OBVIOUS
  <2>2. r = [i \in 1..Len(q) |-> [pid |-> q[i]]] /\ Len(q) \in Nat
    BY <1>2
  <2>3. r \in Seq([pid : Pids])
    <3> DEFINE R == [pid : Pids]
               m == Len(q)
    <3>1. r \in [1..m -> R] /\ m \in Nat
      BY <2>1, <2>2
    <3> HIDE DEF R, m
    <3>2. r \in Seq(R)
      BY <3>1
    <3> QED
      BY <3>2 DEF R
  <2>4. DOMAIN r = DOMAIN q /\ \A i \in DOMAIN r : r[i].pid = q[i]
    BY <2>2
  <2>5. OnePidEach(r)
    BY <2>4 DEF OnePidEach
  <2> QED
    BY <1>2, <2>3, <2>5
<1>3. CASE r = Picked(s, {i \in DOMAIN s : s[i].name = name})
  <2> DEFINE I == {i \in DOMAIN s : s[i].name = name}
  <2>1. I \in SUBSET DOMAIN s
    OBVIOUS
  <2> HIDE DEF I
  <2>2. /\ Picked(s, I) \in Seq(ListEntry)
        /\ \A m, k \in DOMAIN Picked(s, I) : m # k =>
             \E i, j \in I : i # j /\ Picked(s, I)[m] = s[i] /\ Picked(s, I)[k] = s[j]
    BY <2>1, PickedIsPicked
  <2>3. r = Picked(s, I)
    BY <1>3 DEF I
  <2> HIDE DEF OnePidEach
  <2>4. ASSUME NEW m \in DOMAIN r, NEW k \in DOMAIN r, m # k
        PROVE  r[m].pid # r[k].pid
    <3>1. PICK i, j \in I : i # j /\ r[m] = s[i] /\ r[k] = s[j]
      BY <2>2, <2>3, <2>4
    <3>2. i \in DOMAIN s /\ j \in DOMAIN s
      BY <2>1, <3>1
    <3> QED
      BY <3>1, <3>2 DEF OnePidEach
  <2>5. OnePidEach(r)
    BY <2>4 DEF OnePidEach
  <2> QED
    BY <2>2, <2>3, <2>5
<1> QED
  BY <1>1, <1>2, <1>3

LEMMA TakeSnapshotSteps ==
    ASSUME ProcessesInv, TakeSnapshot PROVE ProcessesInv'
PROOF
<1>1. /\ UNCHANGED <<lcall, alive, changes, pinned, rows, sampled>>
      /\ lstep = "snapshot" /\ entries' \in Snapshots
  BY DEF TakeSnapshot
<1>2. /\ alive \in [Pids -> Process \cup {Absent}] /\ lcall \in ProcessCalls
      /\ rows = <<>> /\ rest = <<>> /\ sampled = <<>> /\ lreply.kind = "none" /\ budget \in Nat
  BY <1>1 DEF ProcessesInv, ProcessesTypeOK, Collected
<1>3. entries' \in Seq(ListEntry) /\ OnePidEach(entries)'
  BY <1>1, <1>2, SnapshotLists DEF OnePidEach
<1>4. /\ lcall.pid \in Pids /\ lcall.limit \in Nat /\ lcall.limit > 0 /\ lcall.depth \in Nat
  BY <1>2, ProcessCallsAssumption
<1>5. ASSUME lstep' \in {"enrich", "open", "visit", "answered"}, budget' \in Nat,
             lreply'.kind \in {"none", "error"}, lstep' # "answered" => lreply'.kind = "none"
      PROVE  /\ ProcessesTypeOK' /\ Collected' /\ HandleKeeps'
             /\ ListingComplete' /\ HeaviestTold' /\ FiguresOfOneProcess' /\ TreeComplete'
  <2>1. \A i \in DOMAIN entries' : entries'[i].pid \in Pids
    <3>1. \A i \in DOMAIN entries' : entries'[i] \in ListEntry
      BY <1>3
    <3> QED
      BY <3>1 DEF ListEntry
  <2>2. ProcessesTypeOK'
    BY <1>1, <1>5, <2>1 DEF ProcessesInv, ProcessesTypeOK
  <2>3. Collected'
    BY <1>1, <1>2, <1>3, <1>5 DEF ProcessesInv, Collected
  <2>4. HandleKeeps'
    BY <1>5 DEF HandleKeeps
  <2> QED
    BY <1>5, <2>2, <2>3, <2>4, NothingToldYet
<1>6. CASE /\ lstep' = "enrich"
           /\ UNCHANGED <<budget, lreply>>
           /\ \/ rest' = entries'
              \/ /\ entries' = <<>>
                 /\ rest' = [i \in DOMAIN RunningPids |-> [pid |-> RunningPids[i]]]
              \/ rest' = Picked(entries', {i \in DOMAIN entries' :
                                             entries'[i].name = lcall.name})
  <2>1. RunningPids' = RunningPids /\ lcall' = lcall
    BY <1>1 DEF RunningPids
  <2>2. /\ rest' \in Seq(ListEntry \cup [pid : Pids]) /\ OnePidEach(rest)'
        /\ entries' # <<>> => rest' \in Seq(ListEntry)
    <3>1. OnePidEach(entries') /\ entries' \in Seq(ListEntry)
      BY <1>3 DEF OnePidEach
    <3>2. OnePidEach(rest') /\ rest' \in Seq(ListEntry \cup [pid : Pids])
            /\ (entries' # <<>> => rest' \in Seq(ListEntry))
      BY <1>6, <3>1, RunningArePids, ToEnrich
    <3> QED
      BY <3>2 DEF OnePidEach
  <2>3. EachOnce'
    BY <1>1, <1>2, <2>2 DEF EachOnce, OnePidEach
  <2>4. TreeInv'
    BY <1>6, NoTreeNow
  <2> QED
    BY <1>2, <1>5, <1>6, <2>3, <2>4 DEF ProcessesInv, TreeInv
<1>7. CASE /\ lstep' \in {"open", "answered"} /\ UNCHANGED budget
           /\ lreply'.kind \in {"none", "error"}
           /\ lstep' # "answered" => lreply'.kind = "none"
  <2>1. EachOnce' /\ TreeInv'
    BY <1>7, NoTreeNow DEF EachOnce
  <2> QED
    BY <1>2, <1>5, <1>7, <2>1 DEF ProcessesInv, TreeInv
<1>8. CASE /\ \E e \in Range(entries') : e.pid = lcall.pid
           /\ rest' = <<Task(lcall.pid, 0, "children")>>
           /\ budget' = lcall.limit
           /\ lstep' = "visit"
           /\ UNCHANGED lreply
  <2> DEFINE k == Task(lcall.pid, 0, "children")
  <2>1. /\ Len(rest') = 1 /\ rest'[1] = k /\ Range(rest') = {k}
        /\ k.pid = lcall.pid /\ k.depth = 0 /\ k.todo = "children" /\ k \in TreeTask
    BY <1>4, <1>8 DEF Range, Task, TreeTask
  <2>2. rest' \in Seq(TreeTask) /\ rest' # <<>>
    BY <1>8, <2>1
  <2>k. rest' = <<Task(lcall.pid, 0, "children")>> /\ budget' = lcall.limit
    BY <1>8
  <2> HIDE DEF k
  <2>3. Stacked'
    <3>1. Known(lcall.pid)' # {}
      BY <1>1, <1>8 DEF Known
    <3> QED
      BY <1>1, <1>8, <2>1, <2>2, <3>1 DEF Stacked, Known, ProperStack
  <2>4. Expanded' = {} /\ Pending' = {<<lcall.pid, 0>>}
    BY <1>1, <1>2, <2>1 DEF Expanded, Pending, Range
  <2>5. Budgeted'
    BY <1>1, <1>2, <1>4, <2>1, <2>2, <2>k DEF Budgeted, Opened
  <2>6. RootFirst'
    BY <1>1, <2>4, <2>k DEF RootFirst
  <2>7. Descended'
    BY <1>1, <1>4, <2>4 DEF Descended
  <2>8. EachOnce'
    BY <1>8 DEF EachOnce
  <2> QED
    BY <1>2, <1>4, <1>5, <1>8, <2>3, <2>5, <2>6, <2>7, <2>8 DEF ProcessesInv
<1> QED
  BY <1>1, <1>2, <1>6, <1>7, <1>8 DEF TakeSnapshot

LEMMA AnswerListingSteps ==
    ASSUME ProcessesInv, AnswerListing PROVE ProcessesInv'
PROOF
<1>1. /\ UNCHANGED <<lcall, alive, changes, pinned, entries, rest, rows, budget, sampled>>
      /\ lstep = "enrich" /\ lstep' = "answered" /\ lreply'.kind = "rows"
  BY DEF AnswerListing
<1>2. ProcessesTypeOK'
  BY <1>1 DEF ProcessesInv, ProcessesTypeOK
<1>3. Collected'
  BY <1>1 DEF ProcessesInv, Collected, OnePidEach
<1>4. EachOnce' /\ HandleKeeps' /\ TreeInv'
  BY <1>1, NoTreeNow DEF EachOnce, HandleKeeps
<1>5. ListingComplete' /\ HeaviestTold'
  BY <1>1, ListingIsTold DEF ProcessesInv, Collected, EachOnce
<1>6. FiguresOfOneProcess' /\ TreeComplete'
  BY <1>1 DEF FiguresOfOneProcess, TreeComplete
<1> QED
  BY <1>2, <1>3, <1>4, <1>5, <1>6 DEF ProcessesInv, TreeInv

LEMMA OpenProcessSteps ==
    ASSUME ProcessesInv, OpenProcess PROVE ProcessesInv'
PROOF
<1> DEFINE p == lcall.pid
           e == IF Known(p) = {} THEN Entry(p) ELSE EntryFor(p)
<1>1. /\ UNCHANGED <<lcall, alive, changes, entries, rest, budget, sampled, lreply>>
      /\ lstep = "open" /\ lstep' = "sample" /\ alive[p].opens
      /\ pinned' = {p} /\ rows' = <<EnrichEntry(e)>>
  BY DEF OpenProcess
<1>2. /\ alive \in [Pids -> Process \cup {Absent}] /\ p \in Pids
      /\ entries \in Seq(ListEntry) /\ sampled = <<>> /\ lreply.kind = "none"
  BY <1>1, ProcessCallsAssumption DEF ProcessesInv, ProcessesTypeOK, Collected
<1>3. e \in ListEntry /\ e.pid = p
  <2>1. CASE Known(p) = {}
    <3>1. alive[p] # Absent
      BY <1>1 DEF Absent
    <3>2. alive[p] \in Process
      BY <1>2, <3>1
    <3>3. Entry(p) \in ListEntry /\ Entry(p).pid = p
      BY <1>2, <3>2 DEF Entry, ListEntry, Process
    <3> QED
      BY <2>1, <3>3
  <2>2. CASE Known(p) # {}
    BY <1>2, <2>2, EntryIsFound
  <2> QED
    BY <2>1, <2>2
<1> HIDE DEF e
<1>4. EnrichEntry(e) \in ListRow /\ EnrichEntry(e).born = alive[p].born
  BY <1>1, <1>2, <1>3, RowsAreRows
<1>5. /\ rows' \in Seq(ListRow) /\ Len(rows') = 1 /\ rows'[1].born = alive[p].born
  BY <1>1, <1>4
<1> HIDE DEF p
<1>6. ProcessesTypeOK'
  BY <1>1, <1>2 DEF ProcessesInv, ProcessesTypeOK
<1>7. Collected'
  BY <1>1, <1>2, <1>5 DEF ProcessesInv, Collected, OnePidEach
<1>8. HandleKeeps'
  BY <1>1, <1>2, <1>5 DEF HandleKeeps, p
<1>9. EachOnce' /\ TreeInv'
  BY <1>1, NoTreeNow DEF EachOnce
<1>10. lreply'.kind = "none"
  BY <1>1, <1>2
<1> QED
  BY <1>6, <1>7, <1>8, <1>9, <1>10, NothingToldYet DEF ProcessesInv, TreeInv

LEMMA OpenDeniedSteps ==
    ASSUME ProcessesInv, OpenDenied PROVE ProcessesInv'
PROOF
<1>1. /\ UNCHANGED <<lcall, alive, changes, pinned, entries, rest, budget, sampled>>
      /\ lstep = "open" /\ lstep' = "answered"
      /\ \/ rows' = <<>> /\ lreply'.kind = "error"
         \/ /\ Known(lcall.pid) # {}
            /\ rows' = <<Row(EntryFor(lcall.pid), lcall.pid)>>
            /\ lreply'.kind = "process"
  BY DEF OpenDenied
<1>2. /\ alive \in [Pids -> Process \cup {Absent}]
      /\ entries \in Seq(ListEntry) /\ sampled = <<>>
  BY <1>1 DEF ProcessesInv, ProcessesTypeOK, Collected
<1>3. rows' \in Seq(ListRow) /\ lreply'.kind \in {"error", "process"}
  <2>1. CASE rows' = <<>> /\ lreply'.kind = "error"
    BY <2>1
  <2>2. CASE /\ Known(lcall.pid) # {} /\ rows' = <<Row(EntryFor(lcall.pid), lcall.pid)>>
             /\ lreply'.kind = "process"
    <3>1. Row(EntryFor(lcall.pid), lcall.pid) \in ListRow
      BY <1>2, <2>2, EntryIsFound, RowsAreRows
    <3> QED
      BY <2>2, <3>1
  <2> QED
    BY <1>1, <2>1, <2>2
<1>4. ProcessesTypeOK'
  BY <1>1, <1>3 DEF ProcessesInv, ProcessesTypeOK
<1>5. Collected'
  BY <1>1, <1>2, <1>3 DEF ProcessesInv, Collected, OnePidEach
<1>6. EachOnce' /\ HandleKeeps' /\ TreeInv'
  BY <1>1, NoTreeNow DEF EachOnce, HandleKeeps
<1>7. ListingComplete' /\ HeaviestTold' /\ FiguresOfOneProcess' /\ TreeComplete'
  BY <1>1, <1>2, <1>3 DEF ListingComplete, HeaviestTold, FiguresOfOneProcess, TreeComplete
<1> QED
  BY <1>4, <1>5, <1>6, <1>7 DEF ProcessesInv, TreeInv

LEMMA SampleCpuSteps ==
    ASSUME ProcessesInv, SampleCpu PROVE ProcessesInv'
PROOF
<1>1. /\ UNCHANGED <<lcall, alive, changes, entries, rest, rows, budget>>
      /\ lstep = "sample" /\ sampled' = Append(sampled, alive[lcall.pid].born)
      /\ \/ lstep' = "answered" /\ pinned' = {} /\ lreply'.kind = "process"
         \/ UNCHANGED <<lstep, pinned, lreply>>
  BY DEF SampleCpu
<1>2. /\ pinned = {lcall.pid} /\ Len(rows) = 1 /\ rows[1].born = alive[lcall.pid].born
      /\ sampled \in Seq(Int) /\ \A i \in DOMAIN sampled : sampled[i] = rows[1].born
      /\ rows \in Seq(ListRow) /\ lreply.kind = "none"
  BY <1>1 DEF ProcessesInv, HandleKeeps, Collected
<1>3. rows[1].born \in Int
  <2>1. 1 \in 1..Len(rows) /\ rows \in Seq(ListRow)
    BY <1>2
  <2>2. rows[1] \in ListRow
    BY <2>1, ElementOfSeq
  <2> QED
    BY <2>2 DEF ListRow
<1>4. sampled' \in Seq(Int) /\ \A i \in DOMAIN sampled' : sampled'[i] = rows[1].born
  BY <1>1, <1>2, <1>3
<1>5. lstep' \in {"sample", "answered"} /\ lreply'.kind \in {"none", "process"}
        /\ (lstep' = "sample" => lreply'.kind = "none" /\ pinned' = pinned)
  BY <1>1, <1>2
<1>6. ProcessesTypeOK'
  BY <1>1, <1>5 DEF ProcessesInv, ProcessesTypeOK
<1>7. Collected'
  BY <1>1, <1>5 DEF ProcessesInv, Collected, OnePidEach
<1>8. HandleKeeps'
  BY <1>1, <1>2, <1>4, <1>5 DEF HandleKeeps
<1>9. EachOnce' /\ TreeInv'
  BY <1>5, NoTreeNow DEF EachOnce
<1>10. ListingComplete' /\ HeaviestTold' /\ TreeComplete'
  BY <1>5 DEF ListingComplete, HeaviestTold, TreeComplete
<1>11. FiguresOfOneProcess'
  BY <1>1, <1>4 DEF FiguresOfOneProcess
<1> QED
  BY <1>6, <1>7, <1>8, <1>9, <1>10, <1>11 DEF ProcessesInv, TreeInv

-----------------------------------------------------------------------------
(* The steps of a tree *)

LEMMA StackGrows ==
    ASSUME NEW x \in TreeTask, NEW s \in Seq(TreeTask), NEW k \in Seq(TreeTask),
           ProperStack(<<x>> \o s), NEW f \in TreeTask,
           f.todo = "figures" /\ f.depth = x.depth,
           \A i \in DOMAIN k : k[i].todo = "children" /\ k[i].depth = x.depth + 1
    PROVE  ProperStack(k \o (<<f>> \o s))
PROOF
<1> DEFINE old == <<x>> \o s
           mid == <<f>> \o s
           new == k \o mid
<1>1. /\ Len(s) \in Nat /\ Len(k) \in Nat
      /\ Len(old) = Len(s) + 1 /\ Len(mid) = Len(s) + 1 /\ mid \in Seq(TreeTask)
      /\ old[1] = x /\ mid[1] = f
      /\ \A i \in 2..(Len(s) + 1) : old[i] = s[i - 1] /\ mid[i] = s[i - 1]
  OBVIOUS
<1>0. ProperStack(old)
  OBVIOUS
<1> HIDE DEF old, mid
<1>2. \A i \in 1..Len(old) : /\ i = Len(old) => old[i].depth = 0
                             /\ i < Len(old) => Follows(old[i], old[i + 1])
  BY <1>0 DEF ProperStack
<1>3. Len(mid) = Len(old) /\ \A i \in 2..Len(mid) : mid[i] = old[i]
  BY <1>1
<1>4. \A y : Follows(f, y) <=> Follows(x, y)
  BY DEF Follows
<1>5. \A i \in 1..Len(mid) : /\ i = Len(mid) => mid[i].depth = 0
                             /\ i < Len(mid) => Follows(mid[i], mid[i + 1])
  <2> SUFFICES ASSUME NEW i \in 1..Len(mid)
               PROVE  /\ i = Len(mid) => mid[i].depth = 0
                      /\ i < Len(mid) => Follows(mid[i], mid[i + 1])
    OBVIOUS
  <2>1. CASE i = 1
    <3>1. i < Len(mid) => mid[i + 1] = old[i + 1] /\ i + 1 = 2
      BY <1>1, <1>3, <2>1
    <3>2. i < Len(mid) => Follows(x, old[2])
      BY <1>1, <1>2, <2>1
    <3>3. i = Len(mid) => x.depth = 0
      BY <1>1, <1>2, <2>1
    <3> QED
      BY <1>1, <1>4, <2>1, <3>1, <3>2, <3>3
  <2>2. CASE i # 1
    <3>1. i \in 2..Len(mid) /\ i \in 1..Len(old) /\ (i < Len(mid) => i + 1 \in 2..Len(mid))
      BY <1>1, <2>2
    <3> QED
      BY <1>2, <1>3, <3>1
  <2> QED
    BY <2>1, <2>2
<1>6. /\ Len(new) = Len(k) + Len(mid)
      /\ \A i \in 1..Len(k) : new[i] = k[i]
      /\ \A i \in (Len(k) + 1)..(Len(k) + Len(mid)) : new[i] = mid[i - Len(k)]
  <2>1. mid \in Seq(TreeTask)
    BY <1>1
  <2>2. \A i \in 1..(Len(k) + Len(mid)) :
          new[i] = IF i <= Len(k) THEN k[i] ELSE mid[i - Len(k)]
    BY <2>1, ConcatProperties, Zenon DEF new
  <2>3. Len(mid) \in Nat /\ Len(new) = Len(k) + Len(mid)
    BY <2>1
  <2> HIDE DEF new
  <2> QED
    BY <1>1, <2>2, <2>3
<1> HIDE DEF new
<1>7. ASSUME NEW i \in 1..Len(new)
      PROVE  /\ i = Len(new) => new[i].depth = 0
             /\ i < Len(new) => Follows(new[i], new[i + 1])
  <2>1. CASE i < Len(k)
    <3>1. i \in 1..Len(k) /\ i + 1 \in 1..Len(k) /\ i < Len(new)
      BY <1>1, <1>6, <2>1
    <3>2. new[i] = k[i] /\ new[i + 1] = k[i + 1]
      BY <1>6, <3>1
    <3>3. i \in DOMAIN k /\ i + 1 \in DOMAIN k
      BY <3>1
    <3> QED
      BY <3>1, <3>2, <3>3 DEF Follows
  <2>2. CASE i = Len(k)
    <3>1. /\ i \in 1..Len(k) /\ i + 1 \in (Len(k) + 1)..(Len(k) + Len(mid))
          /\ i < Len(new) /\ i + 1 - Len(k) = 1 /\ i \in DOMAIN k
      BY <1>1, <1>6, <2>2
    <3>2. new[i] = k[i] /\ new[i + 1] = f
      BY <1>1, <1>6, <3>1
    <3>3. f.depth = k[i].depth - 1
      <4>1. k[i].depth = f.depth + 1
        BY <3>1
      <4>2. f.depth \in Nat
        BY DEF TreeTask
      <4> QED
        BY <4>1, <4>2
    <3> QED
      BY <3>1, <3>2, <3>3 DEF Follows
  <2>3. CASE i > Len(k)
    <3>1. i - Len(k) \in 1..Len(mid) /\ i \in (Len(k) + 1)..(Len(k) + Len(mid))
            /\ (i < Len(new) <=> i - Len(k) < Len(mid))
            /\ (i = Len(new) <=> i - Len(k) = Len(mid))
      BY <1>1, <1>6, <2>3
    <3>2. new[i] = mid[i - Len(k)]
      BY <1>6, <3>1
    <3>3. i < Len(new) => new[i + 1] = mid[i - Len(k) + 1]
      <4>1. i < Len(new) => i + 1 \in (Len(k) + 1)..(Len(k) + Len(mid))
                             /\ i + 1 - Len(k) = i - Len(k) + 1
        BY <1>1, <1>6, <3>1
      <4> QED
        BY <1>6, <4>1
    <3> QED
      BY <1>5, <3>1, <3>2, <3>3
  <2> QED
    BY <1>1, <2>1, <2>2, <2>3
<1> QED
  BY <1>7 DEF ProperStack, new, mid

LEMMA StackShrinks ==
    ASSUME NEW s \in Seq(TreeTask), s # <<>>, ProperStack(s)
    PROVE  /\ ProperStack(Tail(s)) /\ Tail(s) \in Seq(TreeTask)
           /\ s = <<Head(s)>> \o Tail(s) /\ Head(s) = s[1] /\ Head(s) \in TreeTask
           /\ Range(s) = {Head(s)} \cup Range(Tail(s))
           /\ IF Tail(s) = <<>> THEN s[1].depth = 0 ELSE Follows(s[1], Tail(s)[1])
PROOF
<1> DEFINE n == Len(s)
           t == Tail(s)
<1>1. /\ n \in Nat /\ n > 0 /\ DOMAIN s = 1..n /\ Head(s) = s[1] /\ s[1] \in TreeTask
      /\ t \in Seq(TreeTask) /\ Len(t) = n - 1 /\ DOMAIN t = 1..(n - 1)
      /\ \A i \in 1..(n - 1) : t[i] = s[i + 1]
  OBVIOUS
<1>2. s = <<Head(s)>> \o t
  OBVIOUS
<1>4. t = <<>> <=> n = 1
  BY <1>1
<1> HIDE DEF t
<1>3. \A i \in 1..n : /\ i = n => s[i].depth = 0
                      /\ i < n => Follows(s[i], s[i + 1])
  BY Zenon DEF ProperStack, n
<1> HIDE DEF n
<1>5. ProperStack(t)
  <2> SUFFICES ASSUME NEW i \in 1..Len(t)
               PROVE  /\ i = Len(t) => t[i].depth = 0
                      /\ i < Len(t) => Follows(t[i], t[i + 1])
    BY DEF ProperStack
  <2>1. i + 1 \in 1..n /\ t[i] = s[i + 1] /\ (i < Len(t) => t[i + 1] = s[i + 1 + 1])
          /\ (i < Len(t) <=> i + 1 < n) /\ (i = Len(t) <=> i + 1 = n)
    BY <1>1
  <2> QED
    BY <1>3, <2>1
<1>6. Range(s) = {s[1]} \cup Range(t)
  <2>1. \A i \in 1..n : i = 1 \/ (i - 1 \in 1..(n - 1) /\ t[i - 1] = s[i])
    BY <1>1
  <2>2. \A i \in 1..(n - 1) : i + 1 \in 1..n
    BY <1>1
  <2>3. Range(s) \subseteq {s[1]} \cup Range(t)
    <3> SUFFICES ASSUME NEW i \in 1..n PROVE s[i] = s[1] \/ \E j \in 1..(n - 1) : t[j] = s[i]
      <4>1. DOMAIN s = 1..n /\ DOMAIN t = 1..(n - 1)
        BY <1>1
      <4> QED
        BY <4>1, Zenon DEF Range
    <3> QED
      BY <2>1
  <2>4. {s[1]} \cup Range(t) \subseteq Range(s)
    BY <1>1, <2>2 DEF Range
  <2> QED
    BY <2>3, <2>4
<1>7. IF t = <<>> THEN s[1].depth = 0 ELSE Follows(s[1], t[1])
  BY <1>1, <1>3, <1>4
<1> QED
  BY <1>1, <1>2, <1>5, <1>6, <1>7 DEF t

LEMMA RangesJoin ==
    ASSUME NEW T, NEW a \in Seq(T), NEW b \in Seq(T)
    PROVE  Range(a \o b) = Range(a) \cup Range(b)
PROOF
<1> DEFINE c == a \o b
<1>1. /\ Len(a) \in Nat /\ Len(b) \in Nat /\ DOMAIN a = 1..Len(a) /\ DOMAIN b = 1..Len(b)
      /\ DOMAIN c = 1..(Len(a) + Len(b))
      /\ \A i \in 1..Len(a) : c[i] = a[i] /\ i \in DOMAIN c
      /\ \A i \in DOMAIN c : i > Len(a) => c[i] = b[i - Len(a)] /\ i - Len(a) \in DOMAIN b
  OBVIOUS
<1>2. \A j \in DOMAIN b : j + Len(a) \in DOMAIN c /\ c[j + Len(a)] = b[j]
  BY <1>1
<1> HIDE DEF c
<1>3. Range(c) \subseteq Range(a) \cup Range(b)
  <2> SUFFICES ASSUME NEW i \in DOMAIN c PROVE c[i] \in Range(a) \cup Range(b)
    BY DEF Range
  <2>1. CASE i <= Len(a)
    BY <1>1, <2>1 DEF Range
  <2>2. CASE i > Len(a)
    BY <1>1, <2>2 DEF Range
  <2> QED
    BY <1>1, <2>1, <2>2
<1>4. Range(a) \cup Range(b) \subseteq Range(c)
  BY <1>1, <1>2 DEF Range
<1> QED
  BY <1>3, <1>4 DEF c

LEMMA NextIsOpened ==
    ASSUME rest \in Seq(TreeTask), rest # <<>>, ProperStack(rest), rest' = Tail(rest)
    PROVE  Opened' = rest[1].depth
PROOF
<1>1. /\ rest' \in Seq(TreeTask) /\ rest[1] \in TreeTask
      /\ IF rest' = <<>> THEN rest[1].depth = 0 ELSE Follows(rest[1], rest'[1])
  BY StackShrinks
<1>2. rest[1].depth \in Nat
  BY <1>1 DEF TreeTask
<1>3. CASE rest' = <<>>
  BY <1>1, <1>3 DEF Opened
<1>4. CASE rest' # <<>>
  <2>1. CASE rest'[1].todo = "children" /\ rest'[1].depth = rest[1].depth
    BY <1>4, <2>1 DEF Opened
  <2>2. CASE rest'[1].todo = "figures" /\ rest'[1].depth = rest[1].depth - 1
    BY <1>2, <1>4, <2>2 DEF Opened
  <2> QED
    BY <1>1, <1>4, <2>1, <2>2 DEF Follows
<1> QED
  BY <1>3, <1>4

\* The places of some tasks or rows in the tree.
Spots(S) == {<<t.pid, t.depth>> : t \in S}

LEMMA ChildrenAreListed ==
    ASSUME entries \in Seq(ListEntry), NEW p \in Pids, NEW d \in Nat,
           NEW k, k = [i \in DOMAIN Children(p) |-> Task(Children(p)[i].pid, d, "children")]
    PROVE  /\ k \in Seq(TreeTask)
           /\ \A i \in DOMAIN k : k[i].todo = "children" /\ k[i].depth = d
           /\ \A t \in Range(k) : /\ t.depth = d /\ t.todo = "children" /\ t.pid \in Pids
                                  /\ \E e \in Range(entries) : e.pid = t.pid /\ e.parent = p
           /\ \A e \in Range(entries) : e.parent = p => <<e.pid, d>> \in Spots(Range(k))
PROOF
<1> DEFINE I == {i \in DOMAIN entries : entries[i].parent = p}
           c == Children(p)
<1>1. I \in SUBSET DOMAIN entries /\ \A i \in I : entries[i].parent = p
  OBVIOUS
<1>2. \A i \in DOMAIN entries : entries[i].parent = p => i \in I
  OBVIOUS
<1>3. c = Picked(entries, I)
  BY DEF Children
<1> HIDE DEF I
<1>4. /\ c \in Seq(ListEntry) /\ DOMAIN c = 1..Len(c)
      /\ \A m \in DOMAIN c : \E i \in I : c[m] = entries[i]
      /\ \A i \in I : \E m \in DOMAIN c : c[m] = entries[i]
  BY <1>1, <1>3, PickedIsPicked
<1> HIDE DEF c
<1>5. k = [i \in 1..Len(c) |-> Task(c[i].pid, d, "children")] /\ Len(c) \in Nat
  BY <1>4 DEF c
<1>6. \A i \in 1..Len(c) : c[i] \in ListEntry /\ c[i].pid \in Pids
  <2>1. \A i \in 1..Len(c) : c[i] \in ListEntry
    BY <1>4
  <2> QED
    BY <2>1 DEF ListEntry
<1>7. \A i \in 1..Len(c) : /\ k[i] \in TreeTask /\ k[i].pid = c[i].pid
                           /\ k[i].depth = d /\ k[i].todo = "children"
  BY <1>5, <1>6 DEF Task, TreeTask
<1>8. k \in Seq(TreeTask) /\ DOMAIN k = 1..Len(c)
  BY <1>5, <1>7
<1>9. ASSUME NEW i \in 1..Len(c)
      PROVE  \E e \in Range(entries) : e.pid = k[i].pid /\ e.parent = p
  <2>1. PICK j \in I : c[i] = entries[j]
    BY <1>4
  <2>2. entries[j] \in Range(entries) /\ entries[j].parent = p
    BY <1>1 DEF Range
  <2> QED
    BY <1>7, <2>1, <2>2
<1>10. ASSUME NEW e \in Range(entries), e.parent = p
       PROVE  <<e.pid, d>> \in Spots(Range(k))
  <2>1. PICK j \in DOMAIN entries : entries[j] = e
    BY DEF Range
  <2>2. j \in I
    BY <1>2, <1>10, <2>1
  <2>3. PICK m \in 1..Len(c) : c[m] = e
    BY <1>4, <2>1, <2>2
  <2>4. k[m] \in Range(k) /\ <<e.pid, d>> = <<k[m].pid, k[m].depth>>
    BY <1>7, <1>8, <2>3 DEF Range
  <2> QED
    BY <2>4 DEF Spots
<1>11. \A t \in Range(k) : \E i \in 1..Len(c) : t = k[i]
  BY <1>8 DEF Range
<1>12. ASSUME NEW t \in Range(k)
       PROVE  /\ t.depth = d /\ t.todo = "children" /\ t.pid \in Pids
              /\ \E e \in Range(entries) : e.pid = t.pid /\ e.parent = p
  <2>1. PICK i \in 1..Len(c) : t = k[i]
    BY <1>11
  <2> QED
    BY <1>6, <1>7, <1>9, <2>1
<1>13. \A i \in DOMAIN k : k[i].todo = "children" /\ k[i].depth = d
  BY <1>7, <1>8
<1> QED
  BY <1>8, <1>10, <1>12, <1>13

\* What a tree holds before a task is taken.
LEMMA TreeHolds ==
    ASSUME ProcessesInv, lstep = "visit", rest # <<>>
    PROVE  /\ rest \in Seq(TreeTask) /\ ProperStack(rest)
           /\ \A t \in Range(rest) : Known(t.pid) # {}
           /\ rows \in Seq(ListRow) /\ entries \in Seq(ListEntry) /\ lcall \in ProcessCalls
           /\ alive \in [Pids -> Process \cup {Absent}] /\ lreply.kind = "none"
           /\ budget \in Nat /\ lcall.limit \in Nat /\ lcall.limit > 0 /\ lcall.depth \in Nat
           /\ Len(rows) + Opened + budget = lcall.limit /\ Len(rows) \in Nat
           /\ Head(rest) = rest[1] /\ rest[1] \in TreeTask
           /\ rest[1].pid \in Pids /\ rest[1].depth \in Nat /\ Known(rest[1].pid) # {}
PROOF
<1>1. /\ rest \in Seq(TreeTask) /\ ProperStack(rest)
      /\ \A t \in Range(rest) : Known(t.pid) # {}
      /\ rows \in Seq(ListRow) /\ entries \in Seq(ListEntry) /\ lcall \in ProcessCalls
      /\ alive \in [Pids -> Process \cup {Absent}] /\ lreply.kind = "none"
      /\ budget \in Nat /\ Len(rows) + Opened + budget = lcall.limit
  BY DEF ProcessesInv, ProcessesTypeOK, Collected, Stacked, Budgeted
<1>2. lcall.limit \in Nat /\ lcall.limit > 0 /\ lcall.depth \in Nat
  BY <1>1, ProcessCallsAssumption
<1>3. Head(rest) = rest[1] /\ rest[1] \in TreeTask /\ rest[1] \in Range(rest)
  BY <1>1 DEF Range
<1>4. rest[1].pid \in Pids /\ rest[1].depth \in Nat
  BY <1>3 DEF TreeTask
<1>5. Len(rows) \in Nat
  BY <1>1
<1> QED
  BY <1>1, <1>2, <1>3, <1>4, <1>5

\* A step within a tree keeps what is not about its tasks.
LEMMA TreeStepKeeps ==
    ASSUME ProcessesInv, lstep = "visit", rows' \in Seq(ListRow), budget' \in Nat,
           UNCHANGED <<lcall, lstep, alive, changes, pinned, entries, sampled, lreply>>
    PROVE  /\ ProcessesTypeOK' /\ Collected' /\ EachOnce' /\ HandleKeeps'
           /\ ListingComplete' /\ HeaviestTold' /\ FiguresOfOneProcess' /\ TreeComplete'
PROOF
<1>1. ProcessesTypeOK'
  BY DEF ProcessesInv, ProcessesTypeOK
<1>2. Collected'
  BY DEF ProcessesInv, Collected, OnePidEach
<1>3. EachOnce' /\ HandleKeeps'
  BY DEF EachOnce, HandleKeeps
<1>4. lreply'.kind = "none"
  BY DEF ProcessesInv, Collected
<1> QED
  BY <1>1, <1>2, <1>3, <1>4, NothingToldYet

LEMMA SpotsOfStack ==
    /\ Expanded = Spots(Range(rows)) \cup Spots({x \in Range(rest) : x.todo = "figures"})
    /\ Pending = Spots({x \in Range(rest) : x.todo = "children"})
PROOF
  BY DEF Expanded, Pending, Spots

LEMMA VisitNodeSteps ==
    ASSUME ProcessesInv, VisitNode PROVE ProcessesInv'
PROOF
<1> DEFINE n == rest[1]
           tail == Tail(rest)
           place == <<n.pid, n.depth>>
           fig == Task(n.pid, n.depth, "figures")
           kids == IF n.depth < lcall.depth
                   THEN [i \in DOMAIN Children(n.pid) |->
                           Task(Children(n.pid)[i].pid, n.depth + 1, "children")]
                   ELSE <<>>
           KidSpots == Spots(Range(kids))
           TailSpots == Spots({x \in Range(tail) : x.todo = "children"})
<1>0. /\ lstep = "visit" /\ rest # <<>> /\ Head(rest).todo = "children"
      /\ UNCHANGED <<lcall, lstep, alive, changes, pinned, entries, rows, sampled, lreply>>
  BY DEF VisitNode
<1>1. /\ rest \in Seq(TreeTask) /\ ProperStack(rest)
      /\ \A t \in Range(rest) : Known(t.pid) # {}
      /\ rows \in Seq(ListRow) /\ entries \in Seq(ListEntry) /\ lcall \in ProcessCalls
      /\ budget \in Nat /\ lcall.limit \in Nat /\ lcall.limit > 0 /\ lcall.depth \in Nat
      /\ Len(rows) + Opened + budget = lcall.limit /\ Len(rows) \in Nat
      /\ Head(rest) = n /\ n \in TreeTask
      /\ n.pid \in Pids /\ n.depth \in Nat /\ Known(n.pid) # {}
  BY <1>0, TreeHolds
<1>2. /\ ProperStack(tail) /\ tail \in Seq(TreeTask)
      /\ rest = <<n>> \o tail /\ Range(rest) = {n} \cup Range(tail)
  BY <1>0, <1>1, StackShrinks
<1>3. \/ budget = 0 /\ rest' = tail /\ budget' = budget
      \/ budget > 0 /\ rest' = kids \o (<<fig>> \o tail) /\ budget' = budget - 1
  BY <1>0, <1>1 DEF VisitNode
<1>4. Opened = n.depth /\ n.todo = "children"
  BY <1>0, <1>1 DEF Opened
<1>5. /\ fig \in TreeTask /\ fig.todo = "figures" /\ fig.depth = n.depth /\ fig.pid = n.pid
  BY <1>1 DEF Task, TreeTask
<1>6. /\ kids \in Seq(TreeTask)
      /\ \A i \in DOMAIN kids : kids[i].todo = "children" /\ kids[i].depth = n.depth + 1
      /\ \A t \in Range(kids) :
           /\ t.depth = n.depth + 1 /\ t.depth <= lcall.depth /\ t.todo = "children"
           /\ t.pid \in Pids
           /\ \E e \in Range(entries) : e.pid = t.pid /\ e.parent = n.pid
      /\ n.depth < lcall.depth =>
           \A e \in Range(entries) : e.parent = n.pid => <<e.pid, n.depth + 1>> \in KidSpots
  <2>1. CASE n.depth < lcall.depth
    <3> DEFINE d == n.depth + 1
               k == [i \in DOMAIN Children(n.pid) |->
                       Task(Children(n.pid)[i].pid, d, "children")]
    <3>1. d \in Nat /\ d <= lcall.depth /\ kids = k
      BY <1>1, <2>1
    <3> HIDE DEF d
    <3>2. /\ k \in Seq(TreeTask)
          /\ \A i \in DOMAIN k : k[i].todo = "children" /\ k[i].depth = d
          /\ \A t \in Range(k) : /\ t.depth = d /\ t.todo = "children" /\ t.pid \in Pids
                                 /\ \E e \in Range(entries) : e.pid = t.pid /\ e.parent = n.pid
          /\ \A e \in Range(entries) : e.parent = n.pid => <<e.pid, d>> \in Spots(Range(k))
      <4> HIDE DEF n
      <4> QED
        BY <1>1, <3>1, ChildrenAreListed
    <3> HIDE DEF k, kids
    <3> QED
      BY <3>1, <3>2 DEF d
  <2>2. CASE ~(n.depth < lcall.depth)
    <3>1. kids = <<>>
      BY <2>2
    <3> HIDE DEF kids
    <3>2. DOMAIN kids = {}
      BY <3>1
    <3>3. Range(kids) = {}
      BY <3>2 DEF Range
    <3> QED
      BY <2>2, <3>1, <3>2, <3>3
  <2> QED
    BY <2>1, <2>2
<1> HIDE DEF kids
<1>7. \A p, d : <<p, d>> \in KidSpots =>
        /\ d = n.depth + 1 /\ d <= lcall.depth /\ p \in Pids
        /\ \E e \in Range(entries) : e.pid = p /\ e.parent = n.pid
  <2> SUFFICES ASSUME NEW p, NEW d, NEW t \in Range(kids), <<p, d>> = <<t.pid, t.depth>>
               PROVE  /\ d = n.depth + 1 /\ d <= lcall.depth /\ p \in Pids
                      /\ \E e \in Range(entries) : e.pid = p /\ e.parent = n.pid
    BY DEF Spots
  <2>1. p = t.pid /\ d = t.depth
    OBVIOUS
  <2> QED
    BY <1>6, <2>1
<1>8. Pending = {place} \cup TailSpots
  BY <1>2, <1>4 DEF Pending, Spots
<1>9. CASE budget = 0 /\ rest' = tail /\ budget' = budget
  <2>1. Expanded' = Expanded /\ Pending' = TailSpots
    BY <1>0, <1>2, <1>4, <1>9 DEF Expanded, Pending, Spots
  <2>2. Stacked'
    <3>1. ProperStack(rest') /\ rest' \in Seq(TreeTask)
            /\ \A t \in Range(rest') : Known(t.pid) # {}
      BY <1>1, <1>2, <1>9
    <3> QED
      BY <1>0, <3>1 DEF Stacked, ProperStack, Known
  <2>3. Budgeted'
    <3>1. Opened' = n.depth
      BY <1>0, <1>1, <1>9, NextIsOpened
    <3> QED
      BY <1>0, <1>1, <1>4, <1>9, <3>1 DEF Budgeted
  <2> HIDE DEF n, tail, place, TailSpots
  <2>4. RootFirst'
    BY <1>0, <1>1, <1>8, <1>9, <2>1 DEF ProcessesInv, RootFirst
  <2>5. Descended'
    <3>1. \A p \in Pids, d \in Nat : <<p, d>> \in Expanded' \cup Pending' =>
            /\ d <= lcall.depth
            /\ d > 0 => \E e \in Range(entries) :
                           e.pid = p /\ <<e.parent, d - 1>> \in Expanded'
      BY <1>0, <1>8, <2>1 DEF ProcessesInv, Descended
    <3>2. ~(budget' > 0)
      BY <1>9
    <3> QED
      BY <1>0, <3>1, <3>2 DEF Descended
  <2>6. /\ ProcessesTypeOK' /\ Collected' /\ EachOnce' /\ HandleKeeps'
        /\ ListingComplete' /\ HeaviestTold' /\ FiguresOfOneProcess' /\ TreeComplete'
    BY <1>0, <1>1, <1>9, TreeStepKeeps
  <2> QED
    BY <2>2, <2>3, <2>4, <2>5, <2>6 DEF ProcessesInv
<1>10. CASE budget > 0 /\ rest' = kids \o (<<fig>> \o tail) /\ budget' = budget - 1
  <2> DEFINE mid == <<fig>> \o tail
  <2>1. mid \in Seq(TreeTask) /\ Range(mid) = {fig} \cup Range(tail) /\ mid[1] = fig
          /\ Len(mid) > 0
    <3>1. <<fig>> \in Seq(TreeTask) /\ Range(<<fig>>) = {fig}
      BY <1>5 DEF Range
    <3>2. Range(mid) = Range(<<fig>>) \cup Range(tail)
      <4> DEFINE one == <<fig>>
      <4>1. one \in Seq(TreeTask) /\ tail \in Seq(TreeTask)
        BY <1>2, <3>1
      <4> HIDE DEF one, tail
      <4>2. Range(one \o tail) = Range(one) \cup Range(tail)
        BY <4>1, RangesJoin
      <4> QED
        BY <4>2 DEF one
    <3> QED
      BY <1>2, <1>5, <3>1, <3>2
  <2>2. ProperStack(kids \o (<<fig>> \o tail))
    <3> HIDE DEF n, fig, tail
    <3> QED
      BY <1>1, <1>2, <1>5, <1>6, StackGrows
  <2>3. ProperStack(rest')
    BY <1>10, <2>2
  <2> HIDE DEF mid
  <2>4. rest' = kids \o mid
    BY <1>10 DEF mid
  <2>5. rest' \in Seq(TreeTask) /\ Range(rest') = Range(kids) \cup {fig} \cup Range(tail)
    <3>1. Range(rest') = Range(kids) \cup Range(mid)
      BY <1>6, <2>1, <2>4, RangesJoin
    <3> QED
      BY <1>6, <2>1, <2>4, <3>1
  <2>6. Expanded' = Expanded \cup {place}
    <3>1. {x \in Range(rest') : x.todo = "figures"}
             = {fig} \cup {x \in Range(tail) : x.todo = "figures"}
      BY <1>5, <1>6, <2>5
    <3>2. {x \in Range(rest) : x.todo = "figures"} = {x \in Range(tail) : x.todo = "figures"}
      BY <1>2, <1>4
    <3>3. Expanded' = {<<r.pid, r.depth>> : r \in Range(rows)}
             \cup {<<t.pid, t.depth>> : t \in {x \in Range(rest') : x.todo = "figures"}}
      BY <1>0 DEF Expanded
    <3> DEFINE F == {x \in Range(tail) : x.todo = "figures"}
    <3>4. {<<t.pid, t.depth>> : t \in {fig} \cup F} = {<<t.pid, t.depth>> : t \in F} \cup {place}
      <4> HIDE DEF F, fig
      <4>1. <<fig.pid, fig.depth>> = place
        BY <1>5
      <4> QED
        BY <4>1
    <3> QED
      BY <3>1, <3>2, <3>3, <3>4 DEF Expanded
  <2>7. Pending' = KidSpots \cup TailSpots
    <3>1. {x \in Range(rest') : x.todo = "children"}
             = Range(kids) \cup {x \in Range(tail) : x.todo = "children"}
      BY <1>5, <1>6, <2>5
    <3> QED
      BY <3>1 DEF Pending, Spots
  <2>8. Stacked'
    <3>1. \A t \in Range(kids) : Known(t.pid) # {}
      BY <1>6 DEF Known
    <3>2. \A t \in Range(rest') : Known(t.pid) # {}
      BY <1>1, <1>2, <1>5, <2>5, <3>1
    <3> QED
      BY <1>0, <2>3, <2>5, <3>2 DEF Stacked, ProperStack, Known
  <2>l. Opened' = n.depth + 1 => Budgeted'
    <3> DEFINE o == Opened
               o2 == Opened'
    <3>1. /\ Len(rows) + o + budget = lcall.limit /\ o = n.depth
          /\ lcall' = lcall /\ rows' = rows /\ budget' = budget - 1
          /\ budget \in Nat /\ n.depth \in Nat /\ Len(rows) \in Nat
      BY <1>0, <1>1, <1>4, <1>10
    <3> HIDE DEF n, o, o2
    <3>2. ASSUME o2 = n.depth + 1
          PROVE  Len(rows') + o2 + budget' = lcall'.limit
      BY <3>1, <3>2
    <3> QED
      BY <3>2 DEF Budgeted, o2
  <2>9. Budgeted'
    <3>1. CASE kids = <<>>
      <4>1. rest' = mid
        BY <1>10, <2>1, <3>1, ConcatEmptySeq DEF mid
      <4>2. Opened' = n.depth + 1
        BY <1>5, <2>1, <4>1 DEF Opened
      <4> QED
        BY <2>l, <4>2
    <3>2. CASE kids # <<>>
      <4>1. Len(kids) > 0 /\ Len(kids) \in Nat /\ 1 \in DOMAIN kids
        BY <1>6, <3>2
      <4>2. rest' # <<>> /\ rest'[1] = kids[1]
        BY <1>6, <2>1, <2>4, <4>1
      <4>3. kids[1].todo = "children" /\ kids[1].depth = n.depth + 1
        BY <1>6, <4>1
      <4>4. Opened' = n.depth + 1
        BY <4>2, <4>3 DEF Opened
      <4> QED
        BY <2>l, <4>4
    <3> QED
      BY <3>1, <3>2
  <2> DEFINE a == n.pid
             b == n.depth
  <2>a. place = <<a, b>> /\ a \in Pids /\ b \in Nat /\ place \in Pending
    BY <1>1, <1>8
  <2>b. \A p, d : <<p, d>> \in KidSpots =>
          /\ d = b + 1 /\ d <= lcall.depth /\ p \in Pids
          /\ \E e \in Range(entries) : e.pid = p /\ e.parent = a
    BY <1>7
  <2>c. b < lcall.depth =>
           \A e \in Range(entries) : e.parent = a => <<e.pid, b + 1>> \in KidSpots
    BY <1>6
  <2>t. rest = <<Task(lcall.pid, 0, "children")>> => a = lcall.pid /\ b = 0 /\ TailSpots = {}
    <3>1. ASSUME rest = <<Task(lcall.pid, 0, "children")>>
          PROVE  a = lcall.pid /\ b = 0 /\ TailSpots = {}
      <4>1. n = Task(lcall.pid, 0, "children") /\ Tail(rest) = <<>>
        BY <3>1
      <4>2. Range(tail) = {}
        BY <4>1 DEF Range
      <4> QED
        BY <4>1, <4>2 DEF Task, Spots
    <3> QED
      BY <3>1
  <2> HIDE DEF n, tail, place, TailSpots, KidSpots, a, b, fig
  <2>10. RootFirst'
    <3>1. \A p \in Pids : <<p, 0>> \in Expanded' \cup Pending' => p = lcall.pid
      <4> SUFFICES ASSUME NEW p \in Pids, <<p, 0>> \in Expanded' \cup Pending'
                   PROVE  p = lcall.pid
        OBVIOUS
      <4>1. <<p, 0>> \notin KidSpots
        BY <2>a, <2>b
      <4>2. <<p, 0>> \in Expanded \cup Pending
        BY <1>8, <2>6, <2>7, <2>a, <4>1
      <4> QED
        BY <1>0, <4>2 DEF ProcessesInv, RootFirst
    <3>2. <<lcall.pid, 0>> \in Expanded' /\ \A p \in Pids : <<p, 0>> \notin Pending'
      <4>1. \A p \in Pids : <<p, 0>> \notin KidSpots
        BY <2>a, <2>b
      <4>2. CASE rest = <<Task(lcall.pid, 0, "children")>>
        BY <2>6, <2>7, <2>a, <2>t, <4>1, <4>2
      <4>3. CASE <<lcall.pid, 0>> \in Expanded /\ \A p \in Pids : <<p, 0>> \notin Pending
        BY <1>8, <2>6, <2>7, <4>1, <4>3
      <4> QED
        BY <1>0, <4>2, <4>3 DEF ProcessesInv, RootFirst
    <3> QED
      BY <1>0, <3>1, <3>2 DEF RootFirst
  <2>11. Descended'
    <3>1. ASSUME NEW p \in Pids, NEW d \in Nat, <<p, d>> \in Expanded' \cup Pending'
          PROVE  /\ d <= lcall.depth
                 /\ d > 0 => \E e \in Range(entries) :
                                e.pid = p /\ <<e.parent, d - 1>> \in Expanded'
      <4>1. CASE <<p, d>> \in KidSpots
        <5>1. PICK e \in Range(entries) : e.pid = p /\ e.parent = a
          BY <2>b, <4>1
        <5>2. d = b + 1 /\ d <= lcall.depth /\ d - 1 = b
          BY <2>a, <2>b, <4>1
        <5>3. <<e.parent, d - 1>> \in Expanded'
          BY <2>6, <2>a, <5>1, <5>2
        <5> QED
          BY <5>1, <5>2, <5>3
      <4>2. CASE <<p, d>> \notin KidSpots
        <5>1. <<p, d>> \in Expanded \cup Pending
          BY <1>8, <2>6, <2>7, <2>a, <3>1, <4>2
        <5> QED
          BY <1>0, <2>6, <5>1 DEF ProcessesInv, Descended
      <4> QED
        BY <4>1, <4>2
    <3>2. ASSUME NEW e \in Range(entries), NEW d \in Nat, budget' > 0, d < lcall.depth,
                 <<e.parent, d>> \in Expanded'
          PROVE  <<e.pid, d + 1>> \in Expanded' \cup Pending'
      <4>1. CASE <<e.parent, d>> = place
        <5>1. e.parent = a /\ d = b
          BY <2>a, <4>1
        <5> QED
          BY <2>7, <2>c, <3>2, <5>1
      <4>2. CASE <<e.parent, d>> \in Expanded
        <5>1. <<e.pid, d + 1>> \in Expanded \cup Pending
          BY <1>0, <1>10, <3>2, <4>2 DEF ProcessesInv, Descended
        <5> QED
          BY <1>8, <2>6, <2>7, <5>1
      <4> QED
        BY <2>6, <3>2, <4>1, <4>2
    <3> QED
      BY <1>0, <3>1, <3>2 DEF Descended
  <2>12. /\ ProcessesTypeOK' /\ Collected' /\ EachOnce' /\ HandleKeeps'
         /\ ListingComplete' /\ HeaviestTold' /\ FiguresOfOneProcess' /\ TreeComplete'
    <3>1. budget' \in Nat
      BY <1>1, <1>10
    <3> QED
      BY <1>0, <1>1, <3>1, TreeStepKeeps
  <2> QED
    BY <2>8, <2>9, <2>10, <2>11, <2>12 DEF ProcessesInv
<1> QED
  BY <1>3, <1>9, <1>10

LEMMA ReadFiguresSteps ==
    ASSUME ProcessesInv, ReadFigures PROVE ProcessesInv'
PROOF
<1> DEFINE n == rest[1]
           tail == Tail(rest)
           row == [EnrichEntry(EntryFor(n.pid)) EXCEPT !.depth = n.depth]
<1>0. /\ lstep = "visit" /\ rest # <<>> /\ Head(rest).todo = "figures" /\ rest' = tail
      /\ UNCHANGED <<lcall, lstep, alive, changes, pinned, entries, budget, sampled, lreply>>
  BY DEF ReadFigures
<1>1. /\ rest \in Seq(TreeTask) /\ ProperStack(rest)
      /\ \A t \in Range(rest) : Known(t.pid) # {}
      /\ rows \in Seq(ListRow) /\ entries \in Seq(ListEntry) /\ lcall \in ProcessCalls
      /\ alive \in [Pids -> Process \cup {Absent}]
      /\ budget \in Nat /\ lcall.limit \in Nat /\ lcall.limit > 0 /\ lcall.depth \in Nat
      /\ Len(rows) + Opened + budget = lcall.limit /\ Len(rows) \in Nat
      /\ Head(rest) = n /\ n \in TreeTask
      /\ n.pid \in Pids /\ n.depth \in Nat /\ Known(n.pid) # {}
  BY <1>0, TreeHolds
<1>2. /\ ProperStack(tail) /\ tail \in Seq(TreeTask) /\ Range(rest) = {n} \cup Range(tail)
  BY <1>0, <1>1, StackShrinks
<1>3. rows' = Append(rows, row)
  BY <1>1 DEF ReadFigures
<1>4. Opened = n.depth + 1 /\ n.todo = "figures"
  BY <1>0, <1>1 DEF Opened
<1>5. row \in ListRow /\ row.pid = n.pid /\ row.depth = n.depth
  <2>1. EntryFor(n.pid) \in ListEntry /\ EntryFor(n.pid).pid = n.pid
    BY <1>1, EntryIsFound
  <2> DEFINE e == EnrichEntry(EntryFor(n.pid))
  <2>2. e \in ListRow /\ e.pid = n.pid
    BY <1>1, <2>1, RowsAreRows
  <2>3. row = [e EXCEPT !.depth = n.depth]
    OBVIOUS
  <2> HIDE DEF e, row, n
  <2> QED
    BY <1>1, <2>2, <2>3 DEF ListRow
<1> HIDE DEF row
<1>6. /\ rows' \in Seq(ListRow) /\ Len(rows') = Len(rows) + 1
      /\ Range(rows') = Range(rows) \cup {row}
  <2> HIDE DEF n
  <2>1. <<row>> \in Seq(ListRow) /\ Range(<<row>>) = {row}
    BY <1>5 DEF Range
  <2>2. rows' = rows \o <<row>>
    BY <1>1, <1>3, <1>5
  <2> DEFINE one == <<row>>
  <2>3. one \in Seq(ListRow)
    BY <2>1
  <2> HIDE DEF one
  <2>4. Range(rows \o one) = Range(rows) \cup Range(one)
    BY <1>1, <2>3, RangesJoin
  <2>5. Range(rows') = Range(rows) \cup {row}
    BY <2>1, <2>2, <2>4 DEF one
  <2> QED
    BY <1>1, <1>3, <1>5, <2>5
<1>7. Pending' = Pending
  BY <1>0, <1>2, <1>4 DEF Pending
<1>8. Expanded' = Expanded
  <2> DEFINE F == {x \in Range(tail) : x.todo = "figures"}
  <2>1. {x \in Range(rest) : x.todo = "figures"} = {n} \cup F
    BY <1>2, <1>4
  <2>2. {x \in Range(rest') : x.todo = "figures"} = F
    BY <1>0
  <2>3. <<row.pid, row.depth>> = <<n.pid, n.depth>>
    BY <1>5
  <2> HIDE DEF F, n
  <2>4. Expanded = {<<r.pid, r.depth>> : r \in Range(rows)}
                     \cup {<<t.pid, t.depth>> : t \in {n} \cup F}
    BY <2>1 DEF Expanded
  <2>5. Expanded' = {<<r.pid, r.depth>> : r \in Range(rows) \cup {row}}
                      \cup {<<t.pid, t.depth>> : t \in F}
    BY <1>6, <2>2 DEF Expanded
  <2>6. {<<r.pid, r.depth>> : r \in Range(rows) \cup {row}}
           = {<<r.pid, r.depth>> : r \in Range(rows)} \cup {<<n.pid, n.depth>>}
    BY <2>3
  <2>7. {<<t.pid, t.depth>> : t \in {n} \cup F}
           = {<<t.pid, t.depth>> : t \in F} \cup {<<n.pid, n.depth>>}
    OBVIOUS
  <2> QED
    BY <2>4, <2>5, <2>6, <2>7
<1>9. Stacked'
  <2>1. ProperStack(rest') /\ rest' \in Seq(TreeTask)
          /\ \A t \in Range(rest') : Known(t.pid) # {}
    BY <1>0, <1>1, <1>2
  <2> QED
    BY <1>0, <2>1 DEF Stacked, ProperStack, Known
<1>10. Budgeted'
  <2> DEFINE o == Opened
             o2 == Opened'
  <2>1. o2 = n.depth
    BY <1>0, <1>1, NextIsOpened
  <2>2. /\ Len(rows) + o + budget = lcall.limit /\ o = n.depth + 1
        /\ lcall' = lcall /\ Len(rows') = Len(rows) + 1 /\ budget' = budget
        /\ budget \in Nat /\ n.depth \in Nat /\ Len(rows) \in Nat
    BY <1>0, <1>1, <1>4, <1>6
  <2> HIDE DEF n, o, o2
  <2>3. Len(rows') + o2 + budget' = lcall'.limit
    BY <2>1, <2>2
  <2> QED
    BY <2>3 DEF Budgeted, o2
<1>11. RootFirst'
  <2>1. rest # <<Task(lcall.pid, 0, "children")>>
    <3>1. ASSUME rest = <<Task(lcall.pid, 0, "children")>> PROVE FALSE
      <4>1. n = Task(lcall.pid, 0, "children")
        BY <3>1
      <4> QED
        BY <1>4, <4>1 DEF Task
    <3> QED
      BY <3>1
  <2> HIDE DEF n, tail
  <2> QED
    BY <1>0, <1>7, <1>8, <2>1 DEF ProcessesInv, RootFirst
<1>12. Descended'
  <2> HIDE DEF n, tail
  <2> QED
    BY <1>0, <1>7, <1>8 DEF ProcessesInv, Descended
<1>13. /\ ProcessesTypeOK' /\ Collected' /\ EachOnce' /\ HandleKeeps'
       /\ ListingComplete' /\ HeaviestTold' /\ FiguresOfOneProcess' /\ TreeComplete'
  BY <1>0, <1>1, <1>6, TreeStepKeeps
<1> QED
  BY <1>9, <1>10, <1>11, <1>12, <1>13 DEF ProcessesInv

\* A tree that is answered has its places filled.
LEMMA TreeIsTold ==
    ASSUME ProcessesInv, AnswerTree PROVE TreeComplete'
PROOF
<1>0. /\ lstep = "visit" /\ rest = <<>>
      /\ UNCHANGED <<lcall, entries, rest, rows, budget>>
      /\ lreply' = [kind |-> "tree", nodes |-> rows]
  BY DEF AnswerTree
<1> DEFINE at(n) == {r.pid : r \in {x \in Range(rows) : x.depth = n}}
<1>1. /\ rows \in Seq(ListRow) /\ budget \in Nat
      /\ lcall \in ProcessCalls /\ Len(rows) + Opened + budget = lcall.limit
  BY <1>0 DEF ProcessesInv, ProcessesTypeOK, Collected, Budgeted
<1>2. lcall.limit \in Nat /\ lcall.depth \in Nat /\ Len(rows) \in Nat /\ Opened = 0
        /\ lcall.pid \in Pids
  BY <1>0, <1>1, ProcessCallsAssumption DEF Opened
<1>3. Len(rows) + budget = lcall.limit
  BY <1>1, <1>2
<1>4. Range(rest) = {}
  BY <1>0 DEF Range
<1>5. Pending = {} /\ Expanded = {<<r.pid, r.depth>> : r \in Range(rows)}
  BY <1>4 DEF Pending, Expanded
<1>6. \A r \in Range(rows) : r.pid \in Pids /\ r.depth \in Nat
  <2>1. \A r \in Range(rows) : r \in ListRow
    BY <1>1 DEF Range
  <2> QED
    BY <2>1 DEF ListRow
<1>7. \A p, n : p \in at(n) <=> <<p, n>> \in Expanded
  BY <1>5
<1>8. \A n : at(n) \subseteq Pids
  BY <1>6
<1>9. /\ \A p \in Pids : <<p, 0>> \in Expanded => p = lcall.pid
      /\ <<lcall.pid, 0>> \in Expanded
  <2>1. rest # <<Task(lcall.pid, 0, "children")>>
    BY <1>0
  <2> QED
    BY <1>0, <2>1 DEF ProcessesInv, RootFirst
<1>10. /\ \A p \in Pids, d \in Nat : <<p, d>> \in Expanded =>
            /\ d <= lcall.depth
            /\ d > 0 => \E e \in Range(entries) : e.pid = p /\ <<e.parent, d - 1>> \in Expanded
       /\ budget > 0 =>
            \A e \in Range(entries), d \in Nat :
              d < lcall.depth /\ <<e.parent, d>> \in Expanded => <<e.pid, d + 1>> \in Expanded
  BY <1>0, <1>5 DEF ProcessesInv, Descended
<1>11. Len(rows) \in 1..lcall.limit
  <2>1. \E r \in Range(rows) : TRUE
    BY <1>5, <1>9
  <2>2. Len(rows) # 0
    BY <1>1, <2>1 DEF Range
  <2> QED
    BY <1>1, <1>2, <1>3, <2>2
<1>12. \A r \in Range(rows) : r.depth \in 0..lcall.depth
  <2> SUFFICES ASSUME NEW r \in Range(rows) PROVE r.depth \in 0..lcall.depth
    OBVIOUS
  <2>1. <<r.pid, r.depth>> \in Expanded
    BY <1>5
  <2> QED
    BY <1>2, <1>6, <1>10, <2>1
<1>13. at(0) = {lcall.pid}
  <2> HIDE DEF at
  <2> QED
    BY <1>7, <1>8, <1>9
<1>14. ASSUME NEW n \in 1..lcall.depth
       PROVE  /\ at(n) \subseteq Offspring(at(n - 1))
              /\ Len(rows) < lcall.limit => at(n) = Offspring(at(n - 1))
  <2> HIDE DEF at
  <2>1. \A p : p \in Offspring(at(n - 1)) <=>
          \E e \in Range(entries) : e.pid = p /\ <<e.parent, n - 1>> \in Expanded
    BY <1>7 DEF Offspring
  <2>2. n \in Nat /\ n > 0 /\ n - 1 \in Nat /\ n - 1 < lcall.depth /\ n - 1 + 1 = n
    BY <1>2
  <2>3. at(n) \subseteq Offspring(at(n - 1))
    BY <1>7, <1>8, <1>10, <2>1, <2>2
  <2>4. ASSUME Len(rows) < lcall.limit PROVE Offspring(at(n - 1)) \subseteq at(n)
    <3>1. budget > 0
      BY <1>1, <1>2, <1>3, <2>4
    <3>2. \A e \in Range(entries) :
            <<e.parent, n - 1>> \in Expanded => <<e.pid, n - 1 + 1>> \in Expanded
      BY <1>10, <2>2, <3>1
    <3> QED
      BY <1>7, <2>1, <2>2, <3>2
  <2> QED
    BY <2>3, <2>4
<1>15. \A S : Offspring(S)' = Offspring(S)
  BY <1>0 DEF Offspring
<1> QED
  BY <1>0, <1>11, <1>12, <1>13, <1>14 DEF TreeComplete, Offspring

LEMMA AnswerTreeSteps ==
    ASSUME ProcessesInv, AnswerTree PROVE ProcessesInv'
PROOF
<1>1. /\ UNCHANGED <<lcall, alive, changes, pinned, entries, rest, rows, budget, sampled>>
      /\ lstep = "visit" /\ lstep' = "answered" /\ lreply'.kind = "tree"
  BY DEF AnswerTree
<1>2. ProcessesTypeOK'
  BY <1>1 DEF ProcessesInv, ProcessesTypeOK
<1>3. Collected'
  BY <1>1 DEF ProcessesInv, Collected, OnePidEach
<1>4. EachOnce' /\ HandleKeeps' /\ TreeInv'
  BY <1>1, NoTreeNow DEF EachOnce, HandleKeeps
<1>5. ListingComplete' /\ HeaviestTold' /\ FiguresOfOneProcess'
  BY <1>1 DEF ListingComplete, HeaviestTold, FiguresOfOneProcess
<1>6. TreeComplete'
  BY TreeIsTold
<1> QED
  BY <1>2, <1>3, <1>4, <1>5, <1>6 DEF ProcessesInv, TreeInv

LEMMA ProcessesStutter ==
    ASSUME ProcessesInv, UNCHANGED processVars PROVE ProcessesInv'
PROOF
<1>1. UNCHANGED <<lcall, lstep, alive, changes, pinned, entries, rest, rows, budget, sampled,
                  lreply>>
  BY DEF processVars
<1>2. ProcessesTypeOK' /\ Collected'
  BY <1>1 DEF ProcessesInv, ProcessesTypeOK, Collected, OnePidEach
<1>3. EachOnce' /\ HandleKeeps'
  BY <1>1 DEF ProcessesInv, EachOnce, HandleKeeps, OnePidEach
<1>4. TreeInv'
  BY <1>1, TreeFrame DEF ProcessesInv, TreeInv
<1> QED
  BY <1>1, <1>2, <1>3, <1>4, AnswersFrame DEF ProcessesInv, TreeInv

LEMMA ProcessesStep ==
    ASSUME ProcessesInv, [ProcessesNext]_processVars PROVE ProcessesInv'
PROOF
  BY AcceptProcessCallSteps, ProcessesRepliedSteps, ProcessesChangeSteps, TakeSnapshotSteps,
     EnrichNextSteps, AnswerListingSteps, OpenProcessSteps, OpenDeniedSteps, SampleCpuSteps,
     VisitNodeSteps, ReadFiguresSteps, AnswerTreeSteps, ProcessesStutter
  DEF ProcessesNext

\* However processes come and go while a process tool works (`list_processes`,
\* `get_process`, `process_tree`, platform/windows/processes.rs), a listing leaves out
\* only what it says it cuts and never the heaviest, the figures of a process are one
\* process's, and a tree has every descendant down to its depth unless it ran out of nodes.
THEOREM ProcessesAreSound == ProcessesSpec => []ProcessesSound
PROOF
<1>1. ProcessesIdle => ProcessesInv
  BY ProcessesStart
<1>2. ProcessesInv /\ [ProcessesNext]_processVars => ProcessesInv'
  BY ProcessesStep
<1>3. ProcessesInv => ProcessesSound
  BY DEF ProcessesInv, ProcessesSound
<1> QED
  BY <1>1, <1>2, <1>3, PTL DEF ProcessesSpec

=============================================================================
