-------------------------- MODULE ApplicationGroups --------------------------
(***************************************************************************)
(* application_groups: the processes grouped by their executable, each     *)
(* group with the whole tree of processes below its members, its memory,   *)
(* and the CPU time its tree used between two samples, while processes     *)
(* run, end, and leave their PIDs to others.  Behind system_health,        *)
(* system_diagnose and the trends.                                         *)
(*                                                                         *)
(* An executable is a number, ordered as the names are; display names are  *)
(* left out.                                                               *)
(***************************************************************************)
EXTENDS Rankings, FiniteSetsExt, SequencesExt

CONSTANTS
    GroupPids,   \* the PIDs, ordered
    GroupTables, \* the process tables a call may find
    GroupLimits, \* [limit, cap]: the groups asked for, and process_cap for it
    MostWork     \* bound: what happens on the machine during a call

Unknown == -1
\* A process; opens tells whether its times may be read, and came tells it from
\* others with its PID.
NoProcess == [stem |-> 0, parent |-> 0, memory |-> 0, cpu |-> 0,
              opens |-> FALSE, came |-> 0]

GroupProcess == [stem : Nat, parent : Nat, memory : Nat \cup {Unknown}, cpu : Nat,
                 opens : BOOLEAN, came : Nat]

ASSUME GroupTablesAssumption ==
    /\ GroupPids \subseteq Nat \ {0} /\ IsFiniteSet(GroupPids)
    /\ \A t \in GroupTables : t \in [GroupPids -> GroupProcess]
    /\ GroupLimits \subseteq [limit : Nat \ {0}, cap : Nat]
    /\ MostWork \in Nat

VARIABLES
    gstep,       \* the next step
    wanted,      \* the limits of the call
    running,     \* the process table
    listed,      \* the processes as they were listed
    stems,       \* the executables that are still to be grouped
    seenPids,    \* visited, for the group that is built
    toWalk,      \* the processes whose children are still to be looked at
    visits,      \* history: how often a process was looked at, for that group
    groups,      \* the groups so far
    toSample,    \* the PIDs whose time is still to be read
    first,       \* the first readings
    second,      \* the second readings
    systemClock, \* the CPU time of the whole system
    sysFirst,    \* the system's time at the first reading
    sysSecond,   \* and at the second one
    work,        \* what happened so far
    timesSpent,  \* history: [GroupPids -> time used on it since it was listed]
    moved,       \* history: the PIDs that changed hands
    greply       \* what the caller gets

groupVars == <<gstep, wanted, running, listed, stems, seenPids, toWalk, visits, groups,
               toSample, first, second, systemClock, sysFirst, sysSecond, work, timesSpent,
               moved, greply>>
building == <<stems, seenPids, toWalk, visits, groups>>
readings == <<toSample, first, second, sysFirst, sysSecond>>
machine == <<running, systemClock, work, timesSpent, moved>>

Nobody == [p \in GroupPids |-> NoProcess]
Unread == [p \in GroupPids |-> Unknown]
NoGroups == [kind |-> "none", groups |-> <<>>]

------------------------------------------------------------------------------
Listed == {p \in GroupPids : listed[p].came # 0}
Members(stem) == {p \in Listed : listed[p].stem = stem}
ChildrenOf(p) == {k \in Listed : listed[k].parent = p}

\* The amounts of the PIDs in S together, as the number of their units.
SumOf(amount, S) == Cardinality(UNION {{p} \X (1..amount[p]) : p \in S})

MemoryOf(S) == SumOf([p \in GroupPids |-> IF listed[p].memory = Unknown THEN 0
                                          ELSE listed[p].memory], S)

\* list_processes_minimal keeps the processes that use most memory.
KeptProcesses(table, cap) ==
    LET there == {p \in GroupPids : table[p].came # 0}
        before(p, q) == table[p].memory > table[q].memory
                          \/ (table[p].memory = table[q].memory /\ p < q)
    IN  {p \in there : Cardinality({q \in there : before(q, p)}) < cap}

\* Sorted by the memory of the tree, then by name, and cut at the limit.
Largest(gs, limit) ==
    LET before(g, h) == \/ g.total > h.total
                        \/ g.total = h.total /\ g.stem < h.stem
        sorted == Ranked(gs, {gh \in gs \X gs : before(gh[1], gh[2])})
    IN  SubSeq(sorted, 1, IF Len(sorted) < limit THEN Len(sorted) ELSE limit)

\* saturating_sub.
Minus(m, n) == IF n < m THEN m - n ELSE 0

------------------------------------------------------------------------------
GroupsIdle ==
    /\ gstep = "idle" /\ wanted = [limit |-> 1, cap |-> 0]
    /\ running = Nobody /\ listed = Nobody
    /\ stems = {} /\ seenPids = {} /\ toWalk = <<>> /\ visits = 0 /\ groups = {}
    /\ toSample = {} /\ first = Unread /\ second = Unread
    /\ systemClock = 0 /\ sysFirst = 0 /\ sysSecond = 0
    /\ work = 0 /\ timesSpent = [p \in GroupPids |-> 0] /\ moved = {} /\ greply = NoGroups

AskGroups ==
    /\ gstep = "idle"
    /\ \E t \in GroupTables, l \in GroupLimits :
         /\ running' = t /\ wanted' = l
         /\ listed' = [p \in GroupPids |-> IF p \in KeptProcesses(t, l.cap) THEN t[p]
                                           ELSE NoProcess]
         /\ stems' = {t[p].stem : p \in KeptProcesses(t, l.cap)}
    /\ gstep' = "group"
    /\ UNCHANGED <<seenPids, toWalk, visits, groups, readings, systemClock, work, timesSpent,
                   moved, greply>>

\* aggregate_groups: the executables in the order of their names, the members of
\* each first.
NextGroup ==
    /\ gstep = "group" /\ stems # {}
    /\ LET members == Members(Min(stems))
       IN  seenPids' = members /\ toWalk' = Ascending(members)
    /\ visits' = 0 /\ gstep' = "walk"
    /\ UNCHANGED <<wanted, listed, stems, groups, readings, machine, greply>>

\* Mutant: a child is walked down to again each time it is met.
WalkDownAgain ==
    /\ gstep = "walk" /\ toWalk # <<>>
    /\ LET fresh == ChildrenOf(Last(toWalk))
       IN  /\ seenPids' = seenPids \cup fresh
           /\ toWalk' = Front(toWalk) \o Ascending(fresh)
    /\ visits' = visits + 1
    /\ UNCHANGED <<gstep, wanted, listed, stems, groups, readings, machine, greply>>

\* Its children that were not visited yet are, each once.
WalkDown ==
    /\ gstep = "walk" /\ toWalk # <<>>
    /\ LET fresh == ChildrenOf(Last(toWalk)) \ seenPids
       IN  /\ seenPids' = seenPids \cup fresh
           /\ toWalk' = Front(toWalk) \o Ascending(fresh)
    /\ visits' = visits + 1
    /\ UNCHANGED <<gstep, wanted, listed, stems, groups, readings, machine, greply>>

CloseGroup ==
    /\ gstep = "walk" /\ toWalk = <<>>
    /\ groups' = groups \cup
          {[stem |-> Min(stems), members |-> Members(Min(stems)), tree |-> seenPids,
            own |-> MemoryOf(Members(Min(stems))), total |-> MemoryOf(seenPids),
            cpu |-> Unknown]}
    /\ stems' = stems \ {Min(stems)} /\ gstep' = "group"
    /\ UNCHANGED <<wanted, listed, seenPids, toWalk, visits, readings, machine, greply>>

\* Only the trees of the groups that are kept are sampled; no group, no sample.
KeepLargest ==
    /\ gstep = "group" /\ stems = {}
    /\ LET kept == Largest(groups, wanted.limit)
       IN  /\ greply' = [kind |-> "groups", groups |-> kept]
           /\ toSample' = UNION {kept[i].tree : i \in DOMAIN kept}
           /\ gstep' = IF kept = <<>> THEN "answered" ELSE "first"
    /\ UNCHANGED <<wanted, listed, building, first, second, sysFirst, sysSecond, machine>>

\* cpu_time_pair, for one PID after the other: nothing when it cannot be opened.
Reading(p) == IF running[p].opens THEN running[p].cpu ELSE Unknown

ReadFirst ==
    /\ gstep = "first" /\ toSample # {}
    /\ first' = [first EXCEPT ![Min(toSample)] = Reading(Min(toSample))]
    /\ toSample' = toSample \ {Min(toSample)}
    /\ UNCHANGED <<gstep, wanted, listed, building, second, sysFirst, sysSecond,
                   machine, greply>>

\* The system's time is read after the first readings, and before the second.
ReadSystemFirst ==
    /\ gstep = "first" /\ toSample = {}
    /\ sysFirst' = systemClock /\ gstep' = "sleep"
    /\ UNCHANGED <<wanted, listed, building, toSample, first, second, sysSecond,
                   machine, greply>>

ReadSystemSecond ==
    /\ gstep = "sleep"
    /\ sysSecond' = systemClock /\ gstep' = "second"
    /\ toSample' = UNION {greply.groups[i].tree : i \in DOMAIN greply.groups}
    /\ UNCHANGED <<wanted, listed, building, first, second, sysFirst, machine, greply>>

ReadSecond ==
    /\ gstep = "second" /\ toSample # {}
    /\ second' = [second EXCEPT ![Min(toSample)] = Reading(Min(toSample))]
    /\ toSample' = toSample \ {Min(toSample)}
    /\ UNCHANGED <<gstep, wanted, listed, building, first, sysFirst, sysSecond,
                   machine, greply>>

\* A process that was not read twice counts for nothing; no system time, no share.
DeltaOf(p) == IF Unknown \in {first[p], second[p]} THEN 0 ELSE Minus(second[p], first[p])
AnswerGroups ==
    /\ gstep = "second" /\ toSample = {}
    /\ greply' = [greply EXCEPT !.groups =
          [i \in DOMAIN @ |->
             [@[i] EXCEPT !.cpu = IF Minus(sysSecond, sysFirst) = 0 THEN Unknown
                                  ELSE SumOf([p \in GroupPids |-> DeltaOf(p)],
                                             greply.groups[i].tree)]]]
    /\ gstep' = "answered"
    /\ UNCHANGED <<wanted, listed, building, readings, machine>>

------------------------------------------------------------------------------
\* A process runs for a while, ends, or leaves its PID to one that has used some
\* time already; the clock of the system goes on with every one of them.
Sampling == gstep \in {"first", "sleep", "second"}

Run ==
    /\ Sampling /\ work < MostWork
    /\ \E p \in GroupPids :
         /\ running[p].came # 0
         /\ running' = [running EXCEPT ![p].cpu = @ + 1]
         /\ timesSpent' = [timesSpent EXCEPT ![p] = @ + 1]
    /\ systemClock' = systemClock + 1 /\ work' = work + 1
    /\ UNCHANGED <<gstep, wanted, listed, building, readings, moved, greply>>

EndOrReplace ==
    /\ Sampling /\ work < MostWork
    /\ \E p \in GroupPids, cpu \in {0, 3} :
         /\ running[p].came # 0
         /\ \E next \in {NoProcess, [running[p] EXCEPT !.cpu = cpu, !.came = @ + 1,
                                                      !.opens = TRUE]} :
              running' = [running EXCEPT ![p] = next]
         /\ moved' = moved \cup {p}
    /\ systemClock' = systemClock + 1 /\ work' = work + 1
    /\ UNCHANGED <<gstep, wanted, listed, building, readings, timesSpent, greply>>

EndGroups ==
    /\ gstep = "answered" /\ gstep' = "idle"
    /\ wanted' = [limit |-> 1, cap |-> 0] /\ running' = Nobody /\ listed' = Nobody
    /\ stems' = {} /\ seenPids' = {} /\ toWalk' = <<>> /\ visits' = 0 /\ groups' = {}
    /\ toSample' = {} /\ first' = Unread /\ second' = Unread
    /\ systemClock' = 0 /\ sysFirst' = 0 /\ sysSecond' = 0
    /\ work' = 0 /\ timesSpent' = [p \in GroupPids |-> 0] /\ moved' = {}
    /\ greply' = NoGroups

GroupsNext ==
    \/ AskGroups \/ NextGroup \/ WalkDown \/ CloseGroup \/ KeepLargest
    \/ ReadFirst \/ ReadSystemFirst \/ ReadSystemSecond \/ ReadSecond \/ AnswerGroups
    \/ Run \/ EndOrReplace \/ EndGroups

------------------------------------------------------------------------------
GroupsTypeOK ==
    /\ seenPids \subseteq GroupPids /\ Range(toWalk) \subseteq seenPids
    /\ toSample \subseteq GroupPids /\ work \in 0..MostWork

\* What is in the tree of a group: what a chain of parents leads from to a member.
BelowInTree(members) ==
    {p \in Listed : \E n \in 1..Cardinality(Listed) : \E chain \in [1..n -> Listed] :
        /\ chain[1] \in members /\ chain[n] = p
        /\ \A i \in 1..(n - 1) : listed[chain[i + 1]].parent = chain[i]}

\* aggregate_groups: the walk looks at no process twice, also when parents form a
\* cycle, so that it ends; a tree is what is below its members and no more, counted
\* once; every process that was listed is in its own group, and what the limit cuts
\* is no larger than what is kept.
TreesClosed ==
    /\ visits <= Cardinality(seenPids)
    /\ greply.kind = "groups" =>
         /\ Len(greply.groups) <= wanted.limit
         /\ \A p \in Listed : \E g \in groups : p \in g.members
         /\ \A i \in DOMAIN greply.groups :
              LET g == greply.groups[i]
              IN  /\ g.members \subseteq g.tree /\ g.own <= g.total
                  /\ g.tree = BelowInTree(g.members)
                  /\ g.total = MemoryOf(g.tree)
         /\ \A g \in groups :
              \/ \E i \in DOMAIN greply.groups : greply.groups[i].stem = g.stem
              \/ \A i \in DOMAIN greply.groups : greply.groups[i].total >= g.total

\* application_groups: a group is charged with no more time than was used on its
\* PIDs since they were listed, unless one of them changed hands; a group whose
\* processes did nothing is charged with nothing, and none is without system time.
ChargedFairly ==
    gstep = "answered" =>
        \A i \in DOMAIN greply.groups :
            LET g == greply.groups[i]
            IN  /\ g.cpu = Unknown <=> sysSecond = sysFirst
                /\ g.tree \cap moved = {} =>
                     g.cpu <= SumOf(timesSpent, g.tree)

\* The groups an application_groups call answers add up, in three ways that each
\* need the whole call: a tree is complete and counted once although parents may
\* form cycles (`aggregate_groups`), the limit cuts only groups that are no larger,
\* and between the two samples of a CPU time a group is charged only with what its
\* processes did, unless a PID changed hands (platform/windows/health.rs).
GroupsSound == GroupsTypeOK /\ TreesClosed /\ ChargedFairly

=============================================================================
