---------------------------- MODULE SystemTables ----------------------------
(***************************************************************************)
(* The tables WinKit copies from Windows: TCP connections, UDP bindings,   *)
(* adapters and services; the tools that list them, look one row up, count *)
(* them, or wait for one to appear.                                        *)
(*                                                                         *)
(* A table is copied in two calls, one that tells its size and one that    *)
(* fills a buffer of that size; names and settings are read after that,    *)
(* row by row.  Rows come and go, PIDs change hands and settings change    *)
(* meanwhile.  Addresses and the wording of states are left out; when a    *)
(* wait gives up is WaitCondition's subject.                               *)
(***************************************************************************)
EXTENDS Integers, Sequences, FiniteSets, SequencesExt

CONSTANTS
    TableRows,    \* the rows there may be: [table, key, listens, pid]
    FirstTables,  \* the sets of rows that a call may find
    TableQueries, \* the calls that are made
    MostChanges   \* bound: what changes while a call is served

NoOwner == 0
NoRow == -1
TableTools ==
    {"list_listening_ports", "list_connections", "connection_count", "find_process_on_port",
     "list_network_interfaces", "list_services", "service_summary", "get_service",
     "wait_for_port", "wait_for_http", "wait_for_process"}

\* Limits are positive (ToolArguments); only a wait for a port may name the owner it
\* wants, and a wait for a process is here the one that names a PID.
ASSUME RowsAssumption ==
    /\ IsFiniteSet(TableRows)
    /\ TableRows \subseteq [table : {"tcp", "udp", "adapter", "service"}, key : Nat,
                            listens : BOOLEAN, pid : Nat]
    /\ FirstTables \subseteq SUBSET TableRows
    /\ TableQueries \subseteq [tool : TableTools, limit : Nat \ {0}, key : Nat, owner : Nat]
    /\ \A q \in TableQueries : /\ q.tool = "wait_for_http" => q.owner = NoOwner
                               /\ q.tool = "wait_for_process" => q.owner # NoOwner
    /\ MostChanges \in Nat

Owners == {r.pid : r \in TableRows} \ {NoOwner}
Services == {r.key : r \in {s \in TableRows : s.table = "service"}}

VARIABLES
    query,      \* the call that is served
    qstep,      \* the next step of its handler
    present,    \* the rows that are there
    holders,    \* [Owners -> how often the PID has changed hands]
    settings,   \* [Services -> how often its settings have changed]
    altered,    \* changes so far
    toCopy,     \* the tables still to copy, the current one first
    sized,      \* the number of rows its buffer has room for
    copied,     \* the rows copied so far
    resolved,   \* what was read of the first of them
    glimpsed,   \* history: the rows that were there since the check began
    lasting,    \* history: those that were there all the time
    callFailed, \* history: a call of Windows failed by itself
    treply      \* what the caller gets

tableVars == <<query, qstep, present, holders, settings, altered, toCopy, sized,
               copied, resolved, glimpsed, lasting, callFailed, treply>>
world == <<present, holders, settings, altered, glimpsed, lasting>>

NoQuery == [tool |-> "none", limit |-> 1, key |-> 0, owner |-> NoOwner]
NoTableReply == [kind |-> "none"]
Untouched(S) == [s \in S |-> 0]

------------------------------------------------------------------------------
\* The rows of a table that a tool is about.  A UDP binding is a listener; a port
\* is looked up among both.
Wanted(q, r) ==
    CASE q.tool = "list_listening_ports" -> r.table = "udp" \/ r.listens
      [] q.tool \in {"find_process_on_port", "wait_for_port"} ->
           (r.table = "udp" \/ r.listens) /\ r.key = q.key
      [] OTHER -> TRUE
RowsOf(table, rows) == {r \in rows : r.table = table}

TablesOf(tool) ==
    CASE tool \in {"list_listening_ports", "find_process_on_port", "wait_for_port"} ->
           <<"tcp", "udp">>
      [] tool \in {"list_connections", "connection_count"} -> <<"tcp">>
      [] tool = "list_network_interfaces" -> <<"adapter">>
      [] tool \in {"list_services", "service_summary"} -> <<"service">>
      [] OTHER -> <<>>

\* The tools that stop copying at their limit; the others take every row.
FirstRows(q) == q.tool \in {"list_listening_ports", "list_connections", "list_services"}

\* What is told of each row is read afterwards: the process of a socket, the
\* three registry values of a service.
FieldsOf(q) ==
    CASE q.tool \in {"list_listening_ports", "list_connections",
                     "find_process_on_port", "wait_for_port"} -> <<"name">>
      [] q.tool \in {"list_services", "service_summary"} ->
           <<"Start", "ImagePath", "ObjectName">>
      [] OTHER -> <<>>

\* The first candidate is a TCP listener when there is one.
Rows(q) == IF q.tool \in {"find_process_on_port", "wait_for_port"} /\ copied # <<>>
           THEN <<Head(copied)>> ELSE copied

TablesIdle ==
    /\ query = NoQuery /\ qstep = "idle" /\ present = {} /\ altered = 0
    /\ holders = Untouched(Owners) /\ settings = Untouched(Services)
    /\ toCopy = <<>> /\ sized = 0 /\ copied = <<>> /\ resolved = <<>>
    /\ glimpsed = {} /\ lasting = {} /\ callFailed = FALSE /\ treply = NoTableReply

\* Where a check of the tool begins.
FirstTableStep(tool) ==
    CASE tool = "get_service" -> "open"
      [] tool \in {"wait_for_process", "wait_for_http"} -> "look"
      [] OTHER -> "size"

AskTable ==
    /\ qstep = "idle"
    /\ \E q \in TableQueries, rows \in FirstTables :
         /\ query' = q /\ toCopy' = TablesOf(q.tool) /\ qstep' = FirstTableStep(q.tool)
         /\ present' = rows /\ glimpsed' = rows /\ lasting' = rows
    /\ UNCHANGED <<holders, settings, altered, sized, copied, resolved, callFailed, treply>>

\* A failure is the tool's error; a count takes it for nothing, a wait for a
\* check that did not succeed.
GiveError ==
    IF query.tool \in {"connection_count", "service_summary"}
    THEN treply' = [kind |-> "count", count |-> 0] /\ qstep' = "answered"
    ELSE IF query.tool = "wait_for_port"
    THEN qstep' = "missed" /\ UNCHANGED treply
    ELSE treply' = [kind |-> "error"] /\ qstep' = "answered"

\* The call that tells the size.
SizeTable ==
    /\ qstep = "size"
    /\ sized' = Cardinality(RowsOf(Head(toCopy), present)) /\ qstep' = "fetch"
    /\ UNCHANGED <<query, world, toCopy, copied, resolved, callFailed, treply>>

SizeTableFails ==
    /\ qstep = "size" /\ callFailed' = TRUE /\ GiveError
    /\ UNCHANGED <<query, world, toCopy, sized, copied, resolved>>

\* Mutant: UDP bindings are copied only when no TCP listener was found.
FetchFirstTable ==
    /\ qstep = "fetch"
    /\ Cardinality(RowsOf(Head(toCopy), present)) <= sized
    /\ LET rows == SetToSeq({r \in RowsOf(Head(toCopy), present) : Wanted(query, r)})
           room == IF FirstRows(query) THEN query.limit - Len(copied) ELSE Len(rows)
           all == copied \o SubSeq(rows, 1, IF room < Len(rows) THEN room ELSE Len(rows))
       IN  /\ copied' = all
           /\ IF Len(toCopy) > 1 /\ all = <<>>
              THEN toCopy' = Tail(toCopy) /\ qstep' = "size"
              ELSE toCopy' = <<>> /\ qstep' = "resolve"
    /\ UNCHANGED <<query, world, sized, resolved, callFailed, treply>>

\* The call that copies it, which fails when the table has outgrown the buffer.
\* The rows the tool is about are taken up to its limit; the second table is
\* copied only if there is room left.
FetchTable ==
    /\ qstep = "fetch"
    /\ Cardinality(RowsOf(Head(toCopy), present)) <= sized
    /\ LET rows == SetToSeq({r \in RowsOf(Head(toCopy), present) : Wanted(query, r)})
           room == IF FirstRows(query) THEN query.limit - Len(copied) ELSE Len(rows)
           all == copied \o SubSeq(rows, 1, IF room < Len(rows) THEN room ELSE Len(rows))
       IN  /\ copied' = all
           /\ IF Len(toCopy) > 1 /\ (FirstRows(query) => Len(all) < query.limit)
              THEN toCopy' = Tail(toCopy) /\ qstep' = "size"
              ELSE toCopy' = <<>> /\ qstep' = "resolve"
    /\ UNCHANGED <<query, world, sized, resolved, callFailed, treply>>

TableOutgrown ==
    /\ qstep = "fetch"
    /\ Cardinality(RowsOf(Head(toCopy), present)) > sized
    /\ GiveError
    /\ UNCHANGED <<query, world, toCopy, sized, copied, resolved, callFailed>>

------------------------------------------------------------------------------
(***************************************************************************)
(* Names and settings.                                                     *)
(***************************************************************************)
\* pid_to_name, and registry_service_config with its three values: what there is
\* now, or nothing when the process or the key cannot be opened.  A string is
\* sized and then read, so that one that grows in between is nothing too.
FieldReadings(field, r) ==
    IF field = "name"
    THEN IF r.pid = NoOwner THEN {NoRow} ELSE {holders[r.pid], NoRow}
    ELSE {settings[r.key], NoRow}

ResolveNext ==
    /\ qstep = "resolve"
    /\ Len(resolved) < Len(Rows(query)) * Len(FieldsOf(query))
    /\ LET fields == FieldsOf(query)
           i == Len(resolved) \div Len(fields) + 1
           field == fields[(Len(resolved) % Len(fields)) + 1]
       IN  \E value \in FieldReadings(field, Rows(query)[i]) :
               resolved' = Append(resolved, value)
    /\ UNCHANGED <<query, qstep, world, toCopy, sized, copied, callFailed, treply>>

\* list_envelope marks a list that fills its limit; the adapters' limit is their
\* number, and no adapters are no full list.  process_on_port tells its first candidate or that there is none.
AnswerTable ==
    /\ qstep = "resolve"
    /\ Len(resolved) = Len(Rows(query)) * Len(FieldsOf(query))
    /\ IF query.tool = "wait_for_port"
       THEN IF copied # <<>> /\ query.owner \in {NoOwner, Head(copied).pid}
            THEN /\ treply' = [kind |-> "completed", row |-> Head(copied)]
                 /\ qstep' = "answered"
            ELSE UNCHANGED treply /\ qstep' = "missed"
       ELSE /\ qstep' = "answered"
            /\ treply' =
                 CASE query.tool = "find_process_on_port" ->
                        [kind |-> "owner", rows |-> Rows(query)]
                   [] query.tool \in {"connection_count", "service_summary"} ->
                        [kind |-> "count", count |-> Len(copied)]
                   [] OTHER ->
                        [kind |-> "list", rows |-> copied,
                         truncated |-> IF FirstRows(query) THEN Len(copied) >= query.limit
                                       ELSE copied # <<>>]
    /\ UNCHANGED <<query, world, toCopy, sized, copied, resolved, callFailed>>

------------------------------------------------------------------------------
(***************************************************************************)
(* get_service.                                                            *)
(***************************************************************************)
ServiceRow == {r \in RowsOf("service", present) : r.key = query.key}

\* The manager cannot be opened, or the service: whatever makes OpenServiceW fail
\* (failed, when it is not that there is none), no service is found.
OpenService ==
    /\ qstep = "open"
    /\ \/ ServiceRow # {} /\ qstep' = "status" /\ UNCHANGED <<callFailed, treply>>
       \/ /\ callFailed' = (ServiceRow # {}) /\ qstep' = "answered"
          /\ treply' = [kind |-> "not found"]
       \/ callFailed' = TRUE /\ GiveError
    /\ UNCHANGED <<query, world, toCopy, sized, copied, resolved>>

\* QueryServiceStatusEx; an open service outlives its deletion.  Where the call fails
\* the state is told as unknown; states are left out here.
ReadStatus ==
    /\ qstep = "status"
    /\ copied' = SetToSeq({r \in TableRows : r.table = "service" /\ r.key = query.key})
    /\ qstep' = "config size"
    /\ UNCHANGED <<query, world, toCopy, sized, resolved, callFailed, treply>>

\* QueryServiceConfigW tells its size, and then fills the buffer with the three
\* values at once.  When either call fails, as the second does when they have grown,
\* they are left out.
SizeSettings ==
    /\ qstep = "config size"
    /\ sized' = settings[query.key] /\ qstep' = "config"
    /\ UNCHANGED <<query, world, toCopy, copied, resolved, callFailed, treply>>

ReadSettings ==
    /\ qstep = "config"
    /\ \E value \in {settings[query.key], NoRow} :
         /\ callFailed' = (value = NoRow /\ settings[query.key] = sized)
         /\ resolved' = <<value, value, value>>
    /\ treply' = [kind |-> "service", rows |-> copied] /\ qstep' = "answered"
    /\ UNCHANGED <<query, world, toCopy, sized, copied>>

------------------------------------------------------------------------------
(***************************************************************************)
(* Waiting.                                                                *)
(***************************************************************************)
\* wait_for_process looks for the PID when there is one, and wait_for_http for
\* anything that answers on the port; either look is one call.
LookOnce ==
    /\ qstep = "look"
    /\ LET hits == IF query.tool = "wait_for_http"
                   THEN {r \in RowsOf("tcp", present) : r.listens /\ r.key = query.key}
                   ELSE {r \in present : r.pid # NoOwner /\ r.pid = query.owner}
       IN  IF hits = {} THEN UNCHANGED treply /\ qstep' = "missed"
           ELSE \E r \in hits : /\ treply' = [kind |-> "completed", row |-> r]
                                /\ qstep' = "answered"
    /\ UNCHANGED <<query, world, toCopy, sized, copied, resolved, callFailed>>

\* A check that did not succeed is followed by another one, or is the last.
CheckOnceMore ==
    /\ qstep = "missed"
    /\ qstep' = FirstTableStep(query.tool) /\ toCopy' = TablesOf(query.tool)
    /\ sized' = 0 /\ copied' = <<>> /\ resolved' = <<>>
    /\ glimpsed' = present /\ lasting' = present
    /\ UNCHANGED <<query, present, holders, settings, altered, callFailed, treply>>

WaitEnds ==
    /\ qstep = "missed"
    /\ treply' = [kind |-> "gave up"] /\ qstep' = "answered"
    /\ UNCHANGED <<query, world, toCopy, sized, copied, resolved, callFailed>>

------------------------------------------------------------------------------
\* A row comes or goes, a PID is given to another process, settings are changed.
Alter ==
    /\ qstep \notin {"idle", "answered"} /\ altered < MostChanges
    /\ altered' = altered + 1
    /\ \/ \E r \in TableRows :
            /\ present' = IF r \in present THEN present \ {r} ELSE present \cup {r}
            /\ UNCHANGED <<holders, settings>>
       \/ \E p \in Owners : /\ holders' = [holders EXCEPT ![p] = @ + 1]
                            /\ UNCHANGED <<present, settings>>
       \/ \E s \in Services : /\ settings' = [settings EXCEPT ![s] = @ + 1]
                              /\ UNCHANGED <<present, holders>>
    /\ glimpsed' = glimpsed \cup present' /\ lasting' = lasting \cap present'
    /\ UNCHANGED <<query, qstep, toCopy, sized, copied, resolved, callFailed, treply>>

EndQuery ==
    /\ qstep = "answered" /\ qstep' = "idle"
    /\ query' = NoQuery /\ present' = {} /\ altered' = 0
    /\ holders' = Untouched(Owners) /\ settings' = Untouched(Services)
    /\ toCopy' = <<>> /\ sized' = 0 /\ copied' = <<>> /\ resolved' = <<>>
    /\ glimpsed' = {} /\ lasting' = {} /\ callFailed' = FALSE /\ treply' = NoTableReply

TablesNext ==
    \/ AskTable \/ SizeTable \/ SizeTableFails \/ FetchTable \/ TableOutgrown
    \/ ResolveNext \/ AnswerTable \/ OpenService \/ ReadStatus \/ SizeSettings
    \/ ReadSettings \/ LookOnce \/ CheckOnceMore \/ WaitEnds \/ Alter \/ EndQuery

------------------------------------------------------------------------------
TablesTypeOK ==
    /\ present \subseteq TableRows /\ lasting \subseteq glimpsed
    /\ altered \in 0..MostChanges /\ Range(copied) \subseteq TableRows
    /\ Len(resolved) <= 3 * Len(copied)

\* A list has only rows that were there while it was made, each once, and a list
\* that is not marked as truncated has every row that was there all the time: in
\* neither of the two tables of list_listening_ports is one missed.
ListHonest ==
    treply.kind = "list" =>
        /\ Range(treply.rows) \subseteq {r \in glimpsed : Wanted(query, r)}
        /\ Cardinality(Range(treply.rows)) = Len(treply.rows)
        /\ FirstRows(query) => Len(treply.rows) <= query.limit
        /\ ~treply.truncated =>
             \A r \in lasting : Wanted(query, r) /\ r.table \in Range(TablesOf(query.tool))
                                  => r \in Range(treply.rows)

\* process_on_port says nobody only if no socket had the port all the time, and
\* names a UDP binding only if no TCP listener had.
OwnerHonest ==
    /\ treply.kind = "owner" =>
         LET had == {r \in lasting : r.table \in {"tcp", "udp"} /\ Wanted(query, r)}
         IN  /\ treply.rows = <<>> => had = {}
             /\ treply.rows # <<>> =>
                  /\ Head(treply.rows) \in glimpsed /\ Head(treply.rows).key = query.key
                  /\ Head(treply.rows).table = "udp" => RowsOf("tcp", had) = {}
    /\ treply.kind = "count" /\ treply.count > 0 =>
         /\ treply.count >= Cardinality({r \in lasting :
                                           r.table = Head(TablesOf(query.tool))})
         /\ treply.count <= Cardinality(RowsOf(Head(TablesOf(query.tool)), glimpsed))

\* A call fails, and a count is nothing, only when Windows failed or a table grew
\* between its two calls; neither happens on a machine that stands still.
FailsForAReason ==
    treply.kind = "error" \/ (treply.kind = "count" /\ treply.count = 0) =>
        callFailed \/ glimpsed # lasting
        \/ RowsOf(Head(TablesOf(query.tool)), present) = {}

\* What is told of a row is nothing or what was so during the call, and the values
\* that get_service tells of a service are of one moment; a name is the owner's
\* unless its PID changed hands during the call.
ToldAsItWas ==
    /\ \A i \in 1..Len(resolved) : resolved[i] # NoRow =>
         LET n == IF query.tool = "get_service" THEN 1
                  ELSE (i - 1) \div Len(FieldsOf(query)) + 1
             r == copied[n]
         IN  IF r.table = "service" THEN resolved[i] \in 0..settings[r.key]
             ELSE resolved[i] \in 0..holders[r.pid]
    /\ treply.kind = "not found" /\ ~callFailed => ServiceRow = {} \/ glimpsed # lasting
    /\ treply.kind = "service" => /\ Cardinality(Range(resolved)) = 1
                                  /\ altered = 0 /\ ~callFailed => resolved[1] # NoRow

\* A wait completes with what was asked for, and it was there during the check;
\* a wait for a port whose listener was there all through the last check does not
\* give up, unless Windows failed, a table outgrew its buffer, or another socket
\* of the port came first.
WaitHonest ==
    /\ treply.kind = "completed" =>
         /\ treply.row \in glimpsed
         /\ query.owner # NoOwner => treply.row.pid = query.owner
         /\ query.tool # "wait_for_process" => treply.row.key = query.key
    /\ treply.kind = "gave up" /\ ~callFailed /\ glimpsed = lasting =>
         LET there == {r \in lasting :
                         IF query.tool = "wait_for_process" THEN r.pid = query.owner
                         ELSE /\ r.table = "tcp" /\ r.listens /\ r.key = query.key
                              /\ query.owner \in {NoOwner, r.pid}}
         IN  /\ query.tool # "wait_for_port" => there = {}
             /\ there # {} => \E r \in lasting : /\ r.table = "tcp" /\ r.listens
                                                 /\ r.key = query.key
                                                 /\ r.pid # query.owner

\* Although a table is sized, fetched and joined with names in calls between which it
\* changes, what the tools tell of the tables was so while they looked, what a list or
\* a lookup leaves out was not there all the time, a call fails only for a reason, and
\* a wait completes only with what was asked for (`list_listening_ports`,
\* `find_process_on_port`, `list_services`, `get_service`, the wait_for handlers).
TablesSound ==
    /\ TablesTypeOK /\ ListHonest /\ OwnerHonest /\ FailsForAReason
    /\ ToldAsItWas /\ WaitHonest

=============================================================================
