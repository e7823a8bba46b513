--------------------------- MODULE ProcessListing ---------------------------
(***************************************************************************)
(* list_processes, find_process, get_process and get_process_tree.  A      *)
(* snapshot tells names and parents; memory and CPU time are read later,   *)
(* process by process, through a handle opened by PID, while processes     *)
(* exit and their PIDs are given to new ones.                              *)
(*                                                                         *)
(* A name is a number, ordered as the names are.                           *)
(***************************************************************************)
EXTENDS Rankings, Functions

CONSTANTS
    Pids,          \* the PIDs
    Tables,        \* the process tables a call may find
    NewProcesses,  \* what may be started while a call is served
    ProcessCalls,  \* the calls that are made, limits already clamped
    MaxChanges     \* bound: processes that exit or start during a call

Hidden == -1
NoTop == 0
NoPid == 0

Absent == [born |-> -1, name |-> 0, parent |-> NoPid, memory |-> Hidden,
           cpu |-> Hidden, opens |-> FALSE]

\* A process; born tells it from others with its PID.
Process == [born : Nat, name : Nat, parent : Pids \cup {NoPid}, memory : Nat,
            cpu : Nat, opens : BOOLEAN]

ASSUME PidsAssumption == Pids \subseteq Nat \ {0} /\ IsFiniteSet(Pids)
ASSUME TablesAssumption ==
    /\ \A t \in Tables : t \in [Pids -> Process \cup {Absent}]
    /\ NewProcesses \subseteq Process
    /\ MaxChanges \in Nat
ASSUME ProcessCallsAssumption ==
    \A c \in ProcessCalls :
      /\ c.tool \in {"list_processes", "find_process", "get_process", "get_process_tree"}
      /\ c.pid \in Pids /\ c.limit \in Nat \ {0} /\ c.top \in Nat /\ c.depth \in Nat
      /\ c.sort \in {"none", "name", "pid", "cpu_time", "memory"}

VARIABLES
    lcall,     \* the call that is served
    lstep,     \* where it is
    alive,     \* the process table
    changes,   \* changes of it so far
    pinned,    \* the PIDs a handle is open on
    entries,   \* the snapshot, in the order of the PIDs
    rest,      \* what is still to be enriched, or visited
    rows,      \* the rows so far, or the nodes of the tree
    budget,    \* the nodes the tree may still get
    sampled,   \* the two processes whose CPU time was read
    lreply     \* what the caller gets

processVars == <<lcall, lstep, alive, changes, pinned, entries, rest, rows,
                 budget, sampled, lreply>>

NoProcessCall ==
    [tool |-> "none", pid |-> 1, limit |-> 1, sort |-> "none", top |-> NoTop,
     depth |-> 0, name |-> 0]
NoProcessAnswer == [kind |-> "none"]
NobodyAlive == [p \in Pids |-> Absent]

ProcessesIdle ==
    /\ lcall = NoProcessCall /\ lstep = "idle" /\ alive = NobodyAlive /\ changes = 0
    /\ pinned = {} /\ entries = <<>> /\ rest = <<>> /\ rows = <<>> /\ budget = 0
    /\ sampled = <<>> /\ lreply = NoProcessAnswer

AcceptProcessCall ==
    /\ lstep = "idle"
    /\ lcall' \in ProcessCalls
    /\ alive' \in Tables
    /\ lstep' = "snapshot"
    /\ UNCHANGED <<changes, pinned, entries, rest, rows, budget, sampled, lreply>>

ProcessesReplied ==
    /\ lstep = "answered"
    /\ lcall' = NoProcessCall /\ lstep' = "idle" /\ alive' = NobodyAlive /\ changes' = 0
    /\ pinned' = {} /\ entries' = <<>> /\ rest' = <<>> /\ rows' = <<>>
    /\ budget' = 0 /\ sampled' = <<>> /\ lreply' = NoProcessAnswer

\* A process exits, and another may get its PID at once; a PID with an open handle
\* keeps its process.
ProcessesChange ==
    /\ lstep \notin {"idle", "answered"}
    /\ changes < MaxChanges
    /\ changes' = changes + 1
    /\ \E p \in Pids \ pinned, q \in NewProcesses \cup {Absent} :
         /\ alive[p] # Absent
         /\ alive' = [alive EXCEPT ![p] =
              IF q = Absent THEN Absent ELSE [q EXCEPT !.born = changes + 1]]
    /\ UNCHANGED <<lcall, lstep, pinned, entries, rest, rows, budget, sampled,
                   lreply>>

-----------------------------------------------------------------------------
(* snapshot_processes, enum_pids and the rows made of them *)

\* What s has at some of its places, in its order.
Picked(s, places) == [n \in DOMAIN Ascending(places) |-> s[Ascending(places)[n]]]

RunningPids == Ascending({p \in Pids : alive[p] # Absent})

Entry(p) == [pid |-> p, name |-> alive[p].name, parent |-> alive[p].parent]

\* snapshot_processes; a snapshot that Windows refuses is empty.
Snapshots == {[i \in DOMAIN RunningPids |-> Entry(RunningPids[i])], <<>>}

Row(entry, p) ==
    [pid |-> p, name |-> entry.name, parent |-> entry.parent,
     memory |-> Hidden, cpu |-> Hidden, born |-> -1, depth |-> 0]

\* pid_only_info
PidOnlyInfo(p) == Row([name |-> 0, parent |-> NoPid], p)

\* enrich_entry, with the process that has the PID by now
EnrichEntry(entry) ==
    LET now == alive[entry.pid]
    IN  IF ~now.opens THEN Row(entry, entry.pid)
        ELSE [Row(entry, entry.pid) EXCEPT
                !.memory = now.memory, !.cpu = now.cpu, !.born = now.born]

\* order_process_listing: by memory; those with none follow in order of PID.
ListingKey(row) == IF row.memory = Hidden THEN -row.pid ELSE row.memory

\* sort_key of list_processes, greatest first; names go the other way
SortKey(row, sort) ==
    CASE sort = "none" -> 0
      [] sort = "name" -> -row.name
      [] sort = "pid" -> row.pid
      [] sort = "cpu_time" -> IF row.cpu = Hidden THEN 0 ELSE row.cpu
      [] sort = "memory" -> IF row.memory = Hidden THEN 0 ELSE row.memory

\* The rows of s with a greater key first, and equals as they were.
ByKey(key) ==
    {ss \in (DOMAIN key) \X (DOMAIN key) :
        \/ key[ss[1]] > key[ss[2]]
        \/ key[ss[1]] = key[ss[2]] /\ ss[1] < ss[2]}
SortedBy(s, key) == [n \in DOMAIN s |-> s[Ranked(DOMAIN s, ByKey(key))[n]]]

ListingKeys(s) == [i \in DOMAIN s |-> ListingKey(s[i])]
SortKeys(s, sort) == [i \in DOMAIN s |-> SortKey(s[i], sort)]

Take(s, n) == SubSeq(s, 1, IF n < Len(s) THEN n ELSE Len(s))

\* What a task of build_node is about: a node whose children are still to be built,
\* or one whose own figures are still to be read.
Task(p, d, todo) == [pid |-> p, depth |-> d, todo |-> todo]

TakeSnapshot ==
    /\ lstep = "snapshot"
    /\ entries' \in Snapshots
    /\ \/ /\ lcall.tool = "list_processes"
          /\ rest' = IF entries' # <<>> THEN entries'
                     ELSE [i \in DOMAIN RunningPids |-> [pid |-> RunningPids[i]]]
          /\ lstep' = "enrich"
          /\ UNCHANGED <<budget, lreply>>
       \/ /\ lcall.tool = "find_process"
          /\ rest' = Picked(entries', {i \in DOMAIN entries' : entries'[i].name = lcall.name})
          /\ lstep' = "enrich"
          /\ UNCHANGED <<budget, lreply>>
       \/ /\ lcall.tool = "get_process"
          /\ lstep' = "open"
          /\ UNCHANGED <<rest, budget, lreply>>
       \/ /\ lcall.tool = "get_process_tree"
          /\ \E e \in Range(entries') : e.pid = lcall.pid
          /\ rest' = <<Task(lcall.pid, 0, "children")>>
          /\ budget' = lcall.limit
          /\ lstep' = "visit"
          /\ UNCHANGED lreply
       \/ /\ lcall.tool = "get_process_tree"
          /\ \A e \in Range(entries') : e.pid # lcall.pid
          /\ lstep' = "answered"
          /\ lreply' = [kind |-> "error"]
          /\ UNCHANGED <<rest, budget>>
    /\ UNCHANGED <<lcall, alive, changes, pinned, rows, sampled>>

\* list_processes_impl and find_process; without a snapshot the PIDs alone are told.
EnrichNext ==
    /\ lstep = "enrich"
    /\ rest # <<>>
    /\ rows' = Append(rows, IF entries = <<>> THEN PidOnlyInfo(Head(rest).pid)
                            ELSE EnrichEntry(Head(rest)))
    /\ rest' = Tail(rest)
    /\ UNCHANGED <<lcall, lstep, alive, changes, pinned, entries, budget, sampled,
                   lreply>>

\* The listing is cut to the limit before it is sorted as asked.
AnswerListing ==
    /\ lstep = "enrich"
    /\ rest = <<>>
    /\ LET listed == Take(SortedBy(rows, ListingKeys(rows)), lcall.limit)
           sorted == SortedBy(listed, SortKeys(listed, lcall.sort))
           told == IF lcall.top = NoTop THEN sorted ELSE Take(sorted, lcall.top)
       IN  lreply' = [kind |-> "rows", rows |-> told,
                      truncated |-> Len(told) = lcall.limit]
    /\ lstep' = "answered"
    /\ UNCHANGED <<lcall, alive, changes, pinned, entries, rest, rows, budget,
                   sampled>>

-----------------------------------------------------------------------------
(* get_process *)

\* The entry of the snapshot with a PID, when it has one.
Known(p) == {e \in Range(entries) : e.pid = p}
EntryFor(p) == CHOOSE e \in Known(p) : TRUE

\* Mutant: the handle is closed before the CPU time is sampled.
OpenProcessBriefly ==
    /\ lstep = "open"
    /\ alive[lcall.pid].opens
    /\ rows' = <<EnrichEntry(IF Known(lcall.pid) = {} THEN Entry(lcall.pid)
                             ELSE EntryFor(lcall.pid))>>
    /\ lstep' = "sample"
    /\ UNCHANGED <<lcall, alive, changes, pinned, entries, rest, budget, sampled, lreply>>

\* The handle stays open while the CPU time is sampled.
OpenProcess ==
    /\ lstep = "open"
    /\ alive[lcall.pid].opens
    /\ pinned' = {lcall.pid}
    /\ rows' = <<EnrichEntry(IF Known(lcall.pid) = {} THEN Entry(lcall.pid)
                             ELSE EntryFor(lcall.pid))>>
    /\ lstep' = "sample"
    /\ UNCHANGED <<lcall, alive, changes, entries, rest, budget, sampled, lreply>>

\* Without a handle the snapshot's entry is the answer.
OpenDenied ==
    /\ lstep = "open"
    /\ ~alive[lcall.pid].opens
    /\ \/ Known(lcall.pid) = {} /\ rows' = <<>> /\ lreply' = [kind |-> "error"]
       \/ /\ Known(lcall.pid) # {}
          /\ rows' = <<Row(EntryFor(lcall.pid), lcall.pid)>>
          /\ lreply' = [kind |-> "process"]
    /\ lstep' = "answered"
    /\ UNCHANGED <<lcall, alive, changes, pinned, entries, rest, budget, sampled>>

\* sample_cpu_percent: two times cpu_time_pair, which opens the PID again.
SampleCpu ==
    /\ lstep = "sample"
    /\ sampled' = Append(sampled, alive[lcall.pid].born)
    /\ IF Len(sampled') = 2
       THEN /\ lstep' = "answered"
            /\ pinned' = {}
            /\ lreply' = [kind |-> "process"]
       ELSE UNCHANGED <<lstep, pinned, lreply>>
    /\ UNCHANGED <<lcall, alive, changes, entries, rest, rows, budget>>

-----------------------------------------------------------------------------
(* process_tree and build_node *)

Children(p) == Picked(entries, {i \in DOMAIN entries : entries[i].parent = p})

\* build_node goes down before it goes on: the children of a node are put before
\* what is left, and the node's own figures are read after them.
VisitNode ==
    /\ lstep = "visit"
    /\ rest # <<>>
    /\ Head(rest).todo = "children"
    /\ LET n == Head(rest)
           kids == IF n.depth < lcall.depth
                   THEN [i \in DOMAIN Children(n.pid) |->
                           Task(Children(n.pid)[i].pid, n.depth + 1, "children")]
                   ELSE <<>>
       IN  \/ /\ budget = 0
              /\ rest' = Tail(rest)
              /\ UNCHANGED budget
           \/ /\ budget > 0
              /\ rest' = kids \o (<<Task(n.pid, n.depth, "figures")>> \o Tail(rest))
              /\ budget' = budget - 1
    /\ UNCHANGED <<lcall, lstep, alive, changes, pinned, entries, rows, sampled, lreply>>

ReadFigures ==
    /\ lstep = "visit"
    /\ rest # <<>>
    /\ Head(rest).todo = "figures"
    /\ rows' = Append(rows, [EnrichEntry(EntryFor(Head(rest).pid))
                               EXCEPT !.depth = Head(rest).depth])
    /\ rest' = Tail(rest)
    /\ UNCHANGED <<lcall, lstep, alive, changes, pinned, entries, budget, sampled, lreply>>

AnswerTree ==
    /\ lstep = "visit"
    /\ rest = <<>>
    /\ lreply' = [kind |-> "tree", nodes |-> rows]
    /\ lstep' = "answered"
    /\ UNCHANGED <<lcall, alive, changes, pinned, entries, rest, rows, budget,
                   sampled>>

ProcessesNext ==
    AcceptProcessCall \/ ProcessesReplied \/ ProcessesChange \/ TakeSnapshot
        \/ EnrichNext \/ AnswerListing \/ OpenProcess \/ OpenDenied \/ SampleCpu
        \/ VisitNode \/ ReadFigures \/ AnswerTree

-----------------------------------------------------------------------------

ProcessesTypeOK ==
    /\ lcall \in ProcessCalls \cup {NoProcessCall}
    /\ lstep \in {"idle", "snapshot", "enrich", "open", "sample", "visit",
                  "answered"}
    /\ alive \in [Pids -> Process \cup {Absent}]
    /\ changes \in 0..MaxChanges
    /\ pinned \subseteq Pids
    /\ \A i \in DOMAIN entries : entries[i].pid \in Pids
    /\ budget \in Nat
    /\ lreply.kind \in {"none", "error", "rows", "process", "tree"}

PidsOf(s) == {s[i].pid : i \in DOMAIN s}

\* A listing that has no top and does not call itself truncated tells every process
\* of the snapshot that was asked for, and each process once.
ListingComplete ==
    lreply.kind = "rows" =>
      /\ Cardinality(PidsOf(lreply.rows)) = Len(lreply.rows)
      /\ PidsOf(lreply.rows) \subseteq PidsOf(rows)
      /\ ~lreply.truncated /\ lcall.top = NoTop =>
           PidsOf(lreply.rows) = PidsOf(rows)

\* Nothing that is left out uses more memory than what is told, or, of a listing
\* with fewer processes than the limit, more of what it is sorted by.
HeaviestTold ==
    lreply.kind = "rows" =>
      \A i \in DOMAIN rows, j \in DOMAIN lreply.rows :
        rows[i].pid \notin PidsOf(lreply.rows) =>
          /\ lcall.top = NoTop => rows[i].memory <= lreply.rows[j].memory
          /\ Len(rows) <= lcall.limit /\ lcall.sort # "none" =>
               SortKey(rows[i], lcall.sort) <= SortKey(lreply.rows[j], lcall.sort)

\* The CPU percentage of get_process and its other figures are those of one
\* process, although its PID is opened three times; its name may be an older one's.
FiguresOfOneProcess ==
    lreply.kind = "process" /\ sampled # <<>> =>
      \A i \in DOMAIN sampled : sampled[i] = rows[1].born

\* The children of some processes in the snapshot, whose cycles a PID that was given
\* away may close.
Offspring(pids) == {e.pid : e \in {x \in Range(entries) : x.parent \in pids}}

\* A tree stays within its depth and its nodes, and goes down from its root by children
\* of the snapshot; one with nodes to spare has all of them at every depth.
TreeComplete ==
    lreply.kind = "tree" =>
      LET at(n) == {r.pid : r \in {x \in Range(lreply.nodes) : x.depth = n}}
      IN  /\ Len(lreply.nodes) \in 1..lcall.limit
          /\ \A r \in Range(lreply.nodes) : r.depth \in 0..lcall.depth
          /\ at(0) = {lcall.pid}
          /\ \A n \in 1..lcall.depth :
               /\ at(n) \subseteq Offspring(at(n - 1))
               /\ Len(lreply.nodes) < lcall.limit => at(n) = Offspring(at(n - 1))

\* While processes exit and their PIDs are given to others, the process tools tell
\* what they found: a listing leaves out only what it says it cuts and never the
\* heaviest (`list_processes`), the figures of get_process are of one process although
\* its PID is opened three times (`get_process`), and a tree has every descendant down
\* to its depth unless it ran out of nodes, even when a reused PID closes a cycle
\* (`process_tree`, `build_node`, platform/windows/processes.rs).
ProcessesSound ==
    /\ ProcessesTypeOK
    /\ ListingComplete /\ HeaviestTold /\ FiguresOfOneProcess /\ TreeComplete

=============================================================================
