---------------------------- MODULE EventHistory ----------------------------
(***************************************************************************)
(* The tools that read the Windows event logs: the plain queries, and      *)
(* crash_history and shutdown_analysis, which ask one bounded query for    *)
(* each kind of event they know and put the answers together.              *)
(*                                                                         *)
(* A query takes handles to events in batches from the log, newest first,  *)
(* and renders them one by one.  An event is named by its place in the     *)
(* logs, where the newest has the first.  The text of events is left out;  *)
(* a time is a number, as the strings of the log sort like the times they  *)
(* tell.                                                                   *)
(***************************************************************************)
EXTENDS Integers, Sequences, FiniteSets, FiniteSetsExt, Functions

CONSTANTS
    EventLogs,  \* the contents of the logs, each newest first
    EventCalls, \* the calls that are made
    BatchSize,  \* the handles EvtNext fills at once
    MaxMishaps  \* bound: failures of Windows while one call is served

NoEventTime == 0
NoRecord == 0
Anything == "any"

\* An event: its log, its record id there (or NoRecord), provider and event id,
\* level, time (or NoEventTime), and whether it can be rendered and has a message.
WindowsEvent ==
    [log : {"System", "Application"}, record : Nat, provider : STRING, id : Nat,
     level : 0..5, time : Nat, parsable : BOOLEAN, message : BOOLEAN]

\* A log gives each of its events a record id of its own.
ASSUME EventLogsAssumption ==
    \A l \in EventLogs :
      /\ l \in Seq(WindowsEvent)
      /\ \A i, j \in DOMAIN l :
           /\ l[i].record = l[j].record /\ l[i].record # NoRecord
           /\ l[i].log = l[j].log
           => i = j
ASSUME EventCallsAssumption ==
    \A c \in EventCalls : c.max \in Nat /\ c.skip \in BOOLEAN
ASSUME BatchAssumption == BatchSize \in Nat \ {0} /\ MaxMishaps \in Nat

\* EventQuery: no level means all of them, id 0 any; max_results is what
\* clamp_limit made of the one asked for.
EventQuery(log, level, since, provider, id, max) ==
    [log |-> log, level |-> level, since |-> since, provider |-> provider,
     id |-> id, max |-> max]

\* build_xpath
Selects(q, e) ==
    /\ e.log = q.log
    /\ e.level <= q.level
    /\ q.id # 0 => e.id = q.id
    /\ q.provider # Anything => e.provider = q.provider
    /\ q.since # NoEventTime => e.time >= q.since

Matching(q, log) == {i \in DOMAIN log : Selects(q, log[i])}

-----------------------------------------------------------------------------
(* The fixed queries of the two histories *)

KernelPower == "Kernel-Power"
KernelGeneral == "Kernel-General"
Whea == "WHEA-Logger"

EventSort(log, provider, id, category) ==
    [log |-> log, provider |-> provider, id |-> id, category |-> category]

CRASH_QUERIES ==
    <<EventSort("System", "WER-SystemErrorReporting", 1001, "bugcheck"),
      EventSort("System", KernelPower, 41, "unclean_shutdown"),
      EventSort("System", Whea, 18, "hardware_error"),
      EventSort("System", Whea, 19, "hardware_error"),
      EventSort("System", Whea, 20, "hardware_error"),
      EventSort("Application", "Application Error", 1000, "app_crash"),
      EventSort("Application", "Application Error", 1002, "app_crash"),
      EventSort("Application", ".NET Runtime", 1026, "app_crash"),
      EventSort("Application", "Windows Error Reporting", 1001, "wer_report")>>

SHUTDOWN_QUERIES ==
    <<EventSort("System", "EventLog", 6005, "boot"),
      EventSort("System", KernelGeneral, 12, "boot"),
      EventSort("System", "EventLog", 6006, "clean_shutdown"),
      EventSort("System", KernelGeneral, 13, "clean_shutdown"),
      EventSort("System", "EventLog", 6008, "unexpected_shutdown"),
      EventSort("System", "User32", 1074, "user_shutdown"),
      EventSort("System", KernelPower, 41, "power_loss"),
      EventSort("System", KernelPower, 42, "sleep"),
      EventSort("System", KernelPower, 107, "hibernate"),
      EventSort("System", "EventLog", 6013, "uptime")>>

IsHistory(tool) == tool \in {"crash_history", "shutdown_analysis"}

EventSorts(tool) ==
    IF tool = "crash_history" THEN CRASH_QUERIES ELSE SHUTDOWN_QUERIES

-----------------------------------------------------------------------------

VARIABLES
    ecall,     \* the call that is served
    estep,     \* the next step
    contents,  \* history: what the logs hold while it is served
    asked,     \* the queries asked so far
    ahead,     \* the places of the events the open query has not returned yet
    batch,     \* those of the last batch whose handles are still to be rendered
    handles,   \* the event handles that are open
    queryOpen, \* whether the query's own handle is
    events,    \* the places of what the current query has found
    logged,    \* what the queries before it found, each with its query's number
    full,      \* the queries of a history that reached max_results
    warnings,  \* queries that failed, and system_info
    missed,    \* history: a query failed or stopped before its end
    mishaps,   \* failures of Windows so far
    ereply     \* what the caller gets

eventVars ==
    <<ecall, estep, contents, asked, ahead, batch, handles, queryOpen, events,
      logged, full, warnings, missed, mishaps, ereply>>

NoEventCall ==
    [tool |-> "none", log |-> "Application", level |-> 5, since |-> NoEventTime,
     provider |-> Anything, id |-> 0, max |-> 1, skip |-> FALSE]
NoEventReply == [kind |-> "none"]

EventsIdle ==
    /\ ecall = NoEventCall
    /\ estep = "idle"
    /\ contents = <<>> /\ ahead = {} /\ batch = {} /\ events = {}
    /\ logged = {}
    /\ asked = 0 /\ handles = 0 /\ warnings = 0 /\ mishaps = 0
    /\ queryOpen = FALSE /\ missed = FALSE
    /\ full = {}
    /\ ereply = NoEventReply

AcceptEventCall ==
    /\ estep = "idle"
    /\ ecall' \in EventCalls
    /\ contents' \in EventLogs
    /\ estep' = "ask"
    /\ UNCHANGED <<asked, ahead, batch, handles, queryOpen, events, logged,
                   full, warnings, missed, mishaps, ereply>>

EventsReplied ==
    /\ estep = "answered"
    /\ ecall' = NoEventCall
    /\ estep' = "idle"
    /\ contents' = <<>> /\ ahead' = {} /\ batch' = {} /\ events' = {}
    /\ logged' = {}
    /\ asked' = 0 /\ handles' = 0 /\ warnings' = 0 /\ mishaps' = 0
    /\ queryOpen' = FALSE /\ missed' = FALSE
    /\ full' = {}
    /\ ereply' = NoEventReply

\* The queries of a history, and the one that comes next.
HistoryQuery(k) ==
    LET sort == EventSorts(ecall.tool)[k]
    IN  EventQuery(sort.log, 5, ecall.since, sort.provider, sort.id, ecall.max)

NextQuery ==
    IF IsHistory(ecall.tool) THEN HistoryQuery(asked + 1)
    ELSE EventQuery(ecall.log, ecall.level, ecall.since, ecall.provider,
                    ecall.id, ecall.max)

QueriesLeft ==
    IF IsHistory(ecall.tool) THEN asked < Len(EventSorts(ecall.tool)) ELSE asked = 0

EventMishap == mishaps < MaxMishaps /\ mishaps' = mishaps + 1 /\ missed' = TRUE

-----------------------------------------------------------------------------
(* get_recent_events of the platform *)

OpenQuery ==
    /\ estep = "ask"
    /\ QueriesLeft
    /\ ahead' = Matching(NextQuery, contents)
    /\ queryOpen' = TRUE
    /\ estep' = "fetch"
    /\ UNCHANGED <<ecall, contents, asked, batch, handles, events, logged, full,
                   warnings, missed, mishaps, ereply>>

\* A history goes on with its next query; a plain query is an error.
OpenFails ==
    /\ estep = "ask"
    /\ QueriesLeft
    /\ EventMishap
    /\ asked' = asked + 1
    /\ IF IsHistory(ecall.tool)
       THEN warnings' = warnings + 1 /\ UNCHANGED <<estep, ereply>>
       ELSE /\ estep' = "answered"
            /\ ereply' = [kind |-> "error"]
            /\ UNCHANGED warnings
    /\ UNCHANGED <<ecall, contents, ahead, batch, handles, queryOpen, events,
                   logged, full>>

AtLimit == Cardinality(events) >= ecall.max

\* The first n of some places.
Newest(n, places) == {i \in places : Cardinality({j \in places : j < i}) < n}

\* EvtNext; an error of it, a timeout included, ends the query quietly.
FetchBatch ==
    /\ estep = "fetch"
    /\ ~AtLimit
    /\ ahead # {}
    /\ batch' = Newest(BatchSize, ahead)
    /\ ahead' = ahead \ batch'
    /\ handles' = handles + Cardinality(batch')
    /\ estep' = "render"
    /\ UNCHANGED <<ecall, contents, asked, queryOpen, events, logged, full,
                   warnings, missed, mishaps, ereply>>

FetchEnds ==
    /\ estep = "fetch"
    /\ \/ /\ AtLimit \/ ahead = {}
          /\ UNCHANGED <<mishaps, missed>>
       \/ ~AtLimit /\ EventMishap
    /\ queryOpen' = FALSE
    /\ ahead' = {}
    /\ estep' = "collect"
    /\ UNCHANGED <<ecall, contents, asked, batch, handles, events, logged, full,
                   warnings, ereply>>

\* The event that reaches the limit leaves the loop before its handle, and those
\* behind it in the batch, are closed.
RenderEvent ==
    /\ estep = "render"
    /\ batch # {}
    /\ LET i == Min(batch)
           last == contents[i].parsable /\ Cardinality(events) + 1 >= ecall.max
       IN  /\ events' = IF contents[i].parsable THEN events \cup {i} ELSE events
           /\ batch' = IF last THEN {} ELSE batch \ {i}
           /\ handles' = IF last THEN handles ELSE handles - 1
           /\ estep' = IF batch' = {} THEN "fetch" ELSE "render"
    /\ UNCHANGED <<ecall, contents, asked, ahead, queryOpen, logged, full,
                   warnings, missed, mishaps, ereply>>

-----------------------------------------------------------------------------
(* What the tools make of a query's events *)

\* run_event_query: skip_null_messages applies after the query was cut off, and
\* truncated is judged by what is left.
AnswerQuery ==
    /\ estep = "collect"
    /\ ~IsHistory(ecall.tool)
    /\ LET told == IF ecall.skip THEN {i \in events : contents[i].message}
                   ELSE events
       IN  ereply' = [kind |-> "events", events |-> told,
                      truncated |-> Cardinality(told) = ecall.max,
                      skipped |-> Cardinality(events) - Cardinality(told)]
    /\ estep' = "answered"
    /\ UNCHANGED <<ecall, contents, asked, ahead, batch, handles, queryOpen,
                   events, logged, full, warnings, missed, mishaps>>

CollectEntries ==
    /\ estep = "collect"
    /\ IsHistory(ecall.tool)
    /\ logged' = logged \cup [query : {asked + 1}, at : events]
    /\ full' = IF Cardinality(events) = ecall.max THEN full \cup {asked + 1} ELSE full
    /\ events' = {}
    /\ asked' = asked + 1
    /\ estep' = "ask"
    /\ UNCHANGED <<ecall, contents, ahead, batch, handles, queryOpen, warnings,
                   missed, mishaps, ereply>>

Event(x) == contents[x.at]
Category(x) == EventSorts(ecall.tool)[x.query].category
EntryOf(x) == [category |-> Category(x), event |-> Event(x)]

\* The order of the entries before they are sorted by time.
Earlier(x, y) == x.query < y.query \/ (x.query = y.query /\ x.at < y.at)

\* An entry whose record id was seen before is dropped, whichever log it is of.
Retained ==
    {x \in logged :
        \/ Event(x).record = NoRecord
        \/ \A y \in logged : Earlier(y, x) => Event(y).record # Event(x).record}

Times(category) ==
    {Event(x).time : x \in {y \in Retained : Category(y) = category}} \ {NoEventTime}

Latest(times) == IF times = {} THEN NoEventTime
                 ELSE CHOOSE t \in times : \A u \in times : u <= t

IsShutdownCategory(category) ==
    category \in {"clean_shutdown", "unexpected_shutdown", "user_shutdown",
                  "power_loss"}

\* Sorted by time, the newest first; a missing time sorts last, and of two entries of
\* one time the one that was found earlier stays before the other.
SortsBefore(x, y) ==
    \/ Event(x).time > Event(y).time
    \/ Event(x).time = Event(y).time /\ Earlier(x, y)

KindOfFirst(candidates) ==
    IF candidates = {} THEN "none"
    ELSE Category(CHOOSE x \in candidates : \A y \in candidates : ~SortsBefore(y, x))

\* Mutant: the newest event of a shutdown, be it after the newest boot.
LastShutdownKindAnyTime(boot) ==
    KindOfFirst({x \in Retained : IsShutdownCategory(Category(x))})

\* last_shutdown_kind: the newest event of a shutdown that is not after the
\* newest boot.  Where a time is missing, nothing is after anything.
LastShutdownKind(boot) ==
    KindOfFirst({x \in Retained :
                   /\ IsShutdownCategory(Category(x))
                   /\ \/ Event(x).time = NoEventTime \/ boot = NoEventTime
                      \/ Event(x).time <= boot})

AnswerHistory ==
    /\ estep = "ask"
    /\ ~QueriesLeft
    /\ IsHistory(ecall.tool)
    /\ LET boot == Latest(Times("boot"))
       IN  ereply' = [kind |-> "history", entries |-> {EntryOf(x) : x \in Retained},
                      truncated |-> full # {}, boot |-> boot,
                      last |-> LastShutdownKind(boot)]
    /\ \/ UNCHANGED <<warnings, mishaps>>
       \/ /\ ecall.tool = "shutdown_analysis"
          /\ mishaps < MaxMishaps
          /\ mishaps' = mishaps + 1
          /\ warnings' = warnings + 1
    /\ estep' = "answered"
    /\ UNCHANGED <<ecall, contents, asked, ahead, batch, handles, queryOpen,
                   events, logged, full, missed>>

EventsNext ==
    AcceptEventCall \/ EventsReplied \/ OpenQuery \/ OpenFails \/ FetchBatch
        \/ FetchEnds \/ RenderEvent \/ AnswerQuery \/ CollectEntries
        \/ AnswerHistory

-----------------------------------------------------------------------------

EventsTypeOK ==
    /\ ecall \in EventCalls \cup {NoEventCall}
    /\ estep \in {"idle", "ask", "fetch", "render", "collect", "answered"}
    /\ contents \in Seq(WindowsEvent)
    /\ ahead \cup batch \cup events \subseteq DOMAIN contents
    /\ logged \subseteq [query : 1..asked, at : DOMAIN contents]
    /\ {asked, handles, warnings, mishaps} \subseteq Nat
    /\ {queryOpen, missed} \subseteq BOOLEAN
    /\ ereply.kind \in {"none", "error", "events", "history"}

\* No query is left open, and the event handles that are still open after one are
\* the rest of a batch in which a query met its limit, at most a batch of each.
HandlesBounded ==
    /\ estep \in {"ask", "collect", "answered"} => ~queryOpen /\ batch = {}
    /\ estep \in {"ask", "fetch", "collect", "answered"} =>
         handles <= BatchSize * (Cardinality(full) + IF AtLimit THEN 1 ELSE 0)

\* A plain query that shows and skips fewer events than it was allowed has shown
\* or skipped every one that matches and can be rendered, unless Windows failed in
\* the middle, which the answer does not tell.
QueryComplete ==
    ereply.kind = "events" =>
      LET readable == {i \in Matching(NextQuery, contents) : contents[i].parsable}
          counted == Cardinality(ereply.events) + ereply.skipped
      IN  /\ ereply.events \subseteq readable
          /\ counted <= ecall.max
          /\ counted < ecall.max /\ ~missed => counted = Cardinality(readable)
          /\ ereply.truncated => counted = ecall.max

\* The entries the fixed queries would make of everything the logs hold.
Due ==
    {[category |-> k.category, event |-> e] :
        k \in Range(EventSorts(ecall.tool)), e \in Range(contents)}

IsDue(x) ==
    /\ x.event.parsable
    /\ \E k \in Range(EventSorts(ecall.tool)) :
         /\ k.category = x.category
         /\ Selects(EventQuery(k.log, 5, ecall.since, k.provider, k.id, ecall.max),
                    x.event)

WholeHistory == ereply.kind = "history" /\ ~ereply.truncated /\ ~missed

\* A history tells only events of its kinds; one that is not truncated, and of which
\* no query failed or stopped before its end, tells each of them, but for an event
\* that another log's has the record id of.  shutdown_analysis reads one log and
\* tells all.
HistoryComplete ==
    ereply.kind = "history" =>
      LET due == {x \in Due : IsDue(x)}
      IN  /\ ereply.entries \subseteq due
          /\ WholeHistory =>
               \A x \in due \ ereply.entries :
                 /\ ecall.tool = "crash_history"
                 /\ \E y \in ereply.entries :
                      /\ y.event.record = x.event.record
                      /\ y.event.log # x.event.log

\* Of a whole history the last shutdown is the newest the log has of those that
\* are not after the newest boot in it, and none is told only when there is none.
LastShutdownNewest ==
    WholeHistory /\ ecall.tool = "shutdown_analysis" =>
      LET due == {x \in Due : IsDue(x)}
          boots == {x.event.time : x \in {y \in due : y.category = "boot"}}
          timely == {x \in due :
                       /\ IsShutdownCategory(x.category)
                       /\ \/ boots \subseteq {NoEventTime}
                          \/ \E t \in boots : x.event.time <= t}
      IN  IF timely = {} THEN ereply.last = "none"
          ELSE \E x \in timely :
                 /\ x.category = ereply.last
                 /\ \A y \in timely : y.event.time <= x.event.time

\* While Windows answers, what the event tools tell is what the logs hold, up to the
\* limits they admit: a query that stops at max_results leaves no event out in silence;
\* crash_history joins its queries without losing an entry, but to one with the same
\* record id (`crash_history_handler`); and the last shutdown is the newest before the
\* boot (`last_shutdown_kind`).  However a query ends, it tells nothing that is not
\* there and leaves no more handles open than a batch (`get_recent_events`).  A query
\* that Windows breaks off does lose events in silence, and no warning tells of it,
\* though docs/diagnostics.md:221-222 says that failures of a query surface as one.
HistorySound ==
    /\ EventsTypeOK
    /\ HandlesBounded /\ QueryComplete /\ HistoryComplete /\ LastShutdownNewest

=============================================================================
