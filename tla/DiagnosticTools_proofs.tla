----------------------- MODULE DiagnosticTools_proofs -----------------------
(***************************************************************************)
(* The groups of applications, with the lemmas of Probes_proofs on         *)
(* rankings and least numbers; and then all the components together.       *)
(*                                                                         *)
(* What is proved of a component by itself holds of it among the others:   *)
(* whichever component is served, a step of the tools is a step of the     *)
(* component or leaves it alone, so its calls never meet what the calls of *)
(* another tool left behind.                                               *)
(***************************************************************************)
EXTENDS DiagnosticTools, Probes_proofs, Reports_proofs, Calls_proofs, TLAPS

-----------------------------------------------------------------------------
(* ApplicationGroups: the walk down from the members of an application, the *)
(* groups it leaves, and the time used between the two samples.             *)

GroupsSpec == GroupsIdle /\ [][GroupsNext]_groupVars

GroupSteps == {"idle", "group", "walk", "first", "sleep", "second", "answered"}

GroupsTyped ==
    /\ gstep \in GroupSteps /\ wanted \in [limit : Nat \ {0}, cap : Nat]
    /\ running \in [GroupPids -> GroupProcess] /\ listed \in [GroupPids -> GroupProcess]
    /\ stems \subseteq Nat
    /\ seenPids \subseteq Listed /\ toWalk \in Seq(seenPids) /\ visits \in Nat
    /\ IsFiniteSet(groups) /\ toSample \subseteq GroupPids
    /\ first \in [GroupPids -> Int] /\ second \in [GroupPids -> Int]
    /\ systemClock \in Nat /\ sysFirst \in Nat /\ sysSecond \in Nat /\ work \in 0..MostWork
    /\ timesSpent \in [GroupPids -> Nat] /\ moved \subseteq GroupPids

\* A chain of n processes, each the parent of the next, from a member to p.
LedTo(members, n, p) ==
    \E chain \in [1..n -> Listed] :
        /\ chain[1] \in members /\ chain[n] = p
        /\ \A i \in 1..(n - 1) : listed[chain[i + 1]].parent = chain[i]

\* What was seen is below the members, and only the children of what is still to be
\* walked can be missing.
WalkedDown ==
    /\ visits + Len(toWalk) <= Cardinality(seenPids)
    /\ gstep = "walk" =>
         /\ stems # {} /\ Members(Min(stems)) \subseteq seenPids
         /\ \A p \in seenPids \ Range(toWalk) : ChildrenOf(p) \subseteq seenPids
         /\ \A p \in seenPids : \E n \in 1..Cardinality(seenPids) :
              LedTo(Members(Min(stems)), n, p)

\* The group of an application, but for the time it used.
GroupOf(stem, cpu) ==
    [stem |-> stem, members |-> Members(stem), tree |-> BelowInTree(Members(stem)),
     own |-> MemoryOf(Members(stem)), total |-> MemoryOf(BelowInTree(Members(stem))),
     cpu |-> cpu]

\* Every process listed has a group, or its application is still to be grouped.
GroupsBuilt ==
    /\ \A g \in groups : g.stem \in Nat /\ g = GroupOf(g.stem, Unknown)
    /\ \A p \in Listed : listed[p].stem \in stems \/ \E g \in groups : g.stem = listed[p].stem

\* What was kept are groups, and what was cut is no larger.
KeptWell(kept) ==
    /\ DOMAIN kept = 1..Len(kept) /\ Len(kept) \in 0..wanted.limit
    /\ \A i \in DOMAIN kept :
         /\ kept[i].stem \in Nat /\ kept[i] = GroupOf(kept[i].stem, kept[i].cpu)
         /\ \E g \in groups : g.stem = kept[i].stem
    /\ \A g \in groups :
         \/ \E i \in DOMAIN kept : kept[i].stem = g.stem
         \/ \A i \in DOMAIN kept : kept[i].total >= g.total

GroupsKept ==
    /\ gstep \in {"idle", "group", "walk"} => greply = NoGroups
    /\ gstep \in {"first", "sleep", "second", "answered"} =>
         /\ greply = [kind |-> "groups", groups |-> greply.groups]
         /\ stems = {} /\ KeptWell(greply.groups)

\* As long as a PID keeps its process, its time is what was listed and what was spent.
TimesTold ==
    /\ \A p \in Listed \ moved :
         /\ running[p].cpu = listed[p].cpu + timesSpent[p]
         /\ first[p] = Unknown \/ first[p] >= listed[p].cpu
         /\ second[p] = Unknown \/ second[p] <= running[p].cpu
    /\ sysFirst <= systemClock
    /\ gstep = "second" => sysFirst <= sysSecond

GroupsInvariant ==
    /\ GroupsTyped
    /\ gstep = "idle" => GroupsIdle
    /\ WalkedDown /\ GroupsBuilt /\ GroupsKept /\ TimesTold /\ ChargedFairly

\* A sum of amounts that are numbers is one.
LEMMA SumOfIsNumber ==
    ASSUME NEW S, IsFiniteSet(S), NEW amount, \A p \in S : amount[p] \in Nat
    PROVE  /\ IsFiniteSet(UNION {{p} \X (1..amount[p]) : p \in S})
           /\ SumOf(amount, S) \in Nat
PROOF
<1> DEFINE Units(p) == {p} \X (1..amount[p])
           f == [p \in S |-> Units(p)]
           F == {f[p] : p \in S}
<1>1. \A p \in S : IsFiniteSet(Units(p))
  <2> SUFFICES ASSUME NEW p \in S
               PROVE  IsFiniteSet(Units(p))
    OBVIOUS
  <2>1. IsFiniteSet(1..amount[p])
    BY FS_Interval
  <2>2. IsFiniteSet({p})
    BY FS_Singleton, Zenon
  <2> QED
    BY <2>1, <2>2, FS_Product
<1>2. \A p \in S : f[p] = Units(p)
  OBVIOUS
<1>3. UNION {{p} \X (1..amount[p]) : p \in S} = UNION F
  BY <1>2
<1>4. f \in Surjection(S, F)
  <2>1. f \in [S -> F]
    OBVIOUS
  <2> HIDE DEF f
  <2>2. \A t \in F : \E p \in S : f[p] = t
    OBVIOUS
  <2> QED
    BY <2>1, <2>2 DEF Surjection
<1>5. \A t \in F : IsFiniteSet(t)
  BY <1>1, <1>2
<1> HIDE DEF f, F
<1>6. IsFiniteSet(F)
  BY <1>4, FS_Surjection
<1>7. IsFiniteSet(UNION F)
  BY <1>5, <1>6, FS_UNION
<1> QED
  BY <1>3, <1>7, FS_CardinalityType DEF SumOf

\* More members, and more of each, make a larger sum.
LEMMA SumOfGrows ==
    ASSUME NEW T, IsFiniteSet(T), NEW S \in SUBSET T, NEW less, NEW more,
           \A p \in T : more[p] \in Nat,
           \A p \in S : less[p] \in Nat /\ less[p] <= more[p]
    PROVE  SumOf(less, S) <= SumOf(more, T)
PROOF
<1> DEFINE A == UNION {{p} \X (1..less[p]) : p \in S}
           B == UNION {{p} \X (1..more[p]) : p \in T}
<1>1. \A p \in S : 1..less[p] \subseteq 1..more[p]
  OBVIOUS
<1>2. A \in SUBSET B
  BY <1>1
<1>3. IsFiniteSet(B)
  BY SumOfIsNumber
<1>4. SumOf(less, S) = Cardinality(A) /\ SumOf(more, T) = Cardinality(B)
  BY DEF SumOf
<1> HIDE DEF A, B
<1> QED
  BY <1>2, <1>3, <1>4, FS_Subset

LEMMA GroupPidsAreNumbers ==
    GroupPids \subseteq Nat /\ GroupPids \subseteq Int /\ IsFiniteSet(GroupPids)
<1>1. GroupPids \subseteq Nat \ {0} /\ IsFiniteSet(GroupPids)
  BY GroupTablesAssumption, Zenon
<1> QED
  BY <1>1

LEMMA SomePids ==
    ASSUME NEW S \in SUBSET GroupPids
    PROVE  /\ S \in SUBSET Nat /\ S \in SUBSET Int /\ IsFiniteSet(S)
           /\ Cardinality(S) \in Nat
PROOF
<1>1. S \in SUBSET Nat /\ S \in SUBSET Int
  BY GroupPidsAreNumbers
<1>2. IsFiniteSet(S)
  BY GroupPidsAreNumbers, FS_Subset
<1> QED
  BY <1>1, <1>2, FS_CardinalityType

\* In the order of their PIDs, processes are each there once.
LEMMA PidsInOrder ==
    ASSUME NEW S \in SUBSET GroupPids
    PROVE  /\ Ascending(S) \in Seq(S) /\ Len(Ascending(S)) = Cardinality(S)
           /\ Range(Ascending(S)) = S
PROOF
<1> DEFINE n == Cardinality(S)
           a == Ascending(S)
<1>1. IsFiniteSet(S) /\ S \in SUBSET Int
  BY SomePids
<1>2. n \in Nat /\ a \in [1..n -> S] /\ \A x \in S : \E i \in 1..n : a[i] = x
  BY <1>1, AscendingIsInOrder
<1> HIDE DEF n, a
<1>3. a \in Seq(S) /\ Len(a) = n
  BY <1>2
<1>4. DOMAIN a = 1..n
  BY <1>2
<1>5. Range(a) = S
  BY <1>2, <1>4 DEF Range
<1> QED
  BY <1>3, <1>5 DEF n, a

LEMMA MinOfNumbers ==
    ASSUME NEW S \in SUBSET Nat, S # {}
    PROVE  Min(S) \in S
  BY MinIsIn

LEMMA ListedAreSome == Listed \in SUBSET GroupPids
  BY DEF Listed

\* A member leads to itself.
LEMMA MembersLead ==
    ASSUME NEW S \in SUBSET Listed, NEW p \in S
    PROVE  LedTo(S, 1, p)
PROOF
<1> DEFINE chain == [i \in 1..1 |-> p]
<1>1. chain \in [1..1 -> Listed] /\ chain[1] = p
  OBVIOUS
<1>2. \A i \in 1..(1 - 1) : listed[chain[i + 1]].parent = chain[i]
  OBVIOUS
<1> QED
  BY <1>1, <1>2 DEF LedTo

\* What leads to a process leads to its children.
LEMMA ChildrenLed ==
    ASSUME NEW S, NEW n \in Nat \ {0}, NEW p, LedTo(S, n, p), NEW k \in ChildrenOf(p)
    PROVE  LedTo(S, n + 1, k)
PROOF
<1>1. PICK chain \in [1..n -> Listed] :
        /\ chain[1] \in S /\ chain[n] = p
        /\ \A i \in 1..(n - 1) : listed[chain[i + 1]].parent = chain[i]
  BY DEF LedTo
<1>2. k \in Listed /\ listed[k].parent = p
  BY DEF ChildrenOf
<1> DEFINE longer == [i \in 1..(n + 1) |-> IF i = n + 1 THEN k ELSE chain[i]]
<1>3. longer \in [1..(n + 1) -> Listed]
  BY <1>2
<1>4. \A i \in 1..n : longer[i] = chain[i]
  OBVIOUS
<1>5. longer[n + 1] = k
  OBVIOUS
<1> HIDE DEF longer
<1>6. longer[1] \in S
  BY <1>1, <1>4
<1>7. \A i \in 1..((n + 1) - 1) : listed[longer[i + 1]].parent = longer[i]
  <2> SUFFICES ASSUME NEW i \in 1..n
               PROVE  listed[longer[i + 1]].parent = longer[i]
    OBVIOUS
  <2>1. CASE i = n
    BY <1>1, <1>2, <1>4, <1>5, <2>1
  <2>2. CASE i # n
    <3>1. i \in 1..(n - 1) /\ i + 1 \in 1..n
      BY <2>2
    <3> QED
      BY <1>1, <1>4, <3>1
  <2> QED
    BY <2>1, <2>2
<1> QED
  BY <1>3, <1>5, <1>6, <1>7 DEF LedTo

\* A set that holds the children of all its processes, each led to from a member, is
\* the tree below the members.
LEMMA ClosedIsTree ==
    ASSUME NEW S, NEW T \in SUBSET Listed, S \subseteq T,
           \A p \in T : ChildrenOf(p) \subseteq T,
           \A p \in T : \E n \in 1..Cardinality(T) : LedTo(S, n, p)
    PROVE  T = BelowInTree(S)
PROOF
<1>1. IsFiniteSet(Listed) /\ Cardinality(Listed) \in Nat
  BY ListedAreSome, SomePids
<1>2. Cardinality(T) \in Nat /\ Cardinality(T) <= Cardinality(Listed)
  <2>1. T \in SUBSET GroupPids
    BY ListedAreSome
  <2> QED
    BY <1>1, <2>1, SomePids, FS_Subset
<1>3. ASSUME NEW p \in T
      PROVE  p \in BelowInTree(S)
  <2>1. PICK n \in 1..Cardinality(T) : LedTo(S, n, p)
    OBVIOUS
  <2>2. n \in 1..Cardinality(Listed)
    BY <1>1, <1>2
  <2> QED
    BY <2>1, <2>2 DEF LedTo, BelowInTree
<1>4. ASSUME NEW p \in BelowInTree(S)
      PROVE  p \in T
  <2>1. PICK n \in 1..Cardinality(Listed) : LedTo(S, n, p)
    BY DEF BelowInTree, LedTo
  <2>2. PICK chain \in [1..n -> Listed] :
          /\ chain[1] \in S /\ chain[n] = p
          /\ \A i \in 1..(n - 1) : listed[chain[i + 1]].parent = chain[i]
    BY <2>1 DEF LedTo
  <2> DEFINE Off == {i \in 1..n : chain[i] \notin T}
  <2>3. CASE Off = {}
    BY <1>1, <2>2, <2>3
  <2>4. CASE Off # {}
    <3>1. Off \subseteq Nat
      BY <1>1
    <3>2. PICK i \in Off : \A j \in Off : i <= j
      <4> HIDE DEF Off
      <4> QED
        BY <2>4, <3>1, LeastNatural
    <3>3. i \in 1..n /\ chain[i] \notin T /\ i # 1
      BY <2>2, <3>2
    <3>4. i - 1 \in 1..(n - 1) /\ i - 1 \in 1..n /\ (i - 1) + 1 = i /\ ~(i <= i - 1)
      BY <1>1, <3>3
    <3>5. chain[i - 1] \in T
      <4>1. i - 1 \notin Off
        <5> HIDE DEF Off
        <5> QED
          BY <3>2, <3>4
      <4> QED
        BY <3>4, <4>1
    <3>6. listed[chain[i]].parent = chain[i - 1]
      BY <2>2, <3>4
    <3>7. chain[i] \in ChildrenOf(chain[i - 1])
      BY <2>2, <3>3, <3>6 DEF ChildrenOf
    <3> QED
      BY <3>3, <3>5, <3>7
  <2> QED
    BY <2>3, <2>4
<1> QED
  BY <1>3, <1>4

\* A tree holds its members, and no fewer of the processes.
LEMMA TreeOfMembers ==
    ASSUME NEW S \in SUBSET Listed
    PROVE  S \subseteq BelowInTree(S) /\ BelowInTree(S) \in SUBSET Listed
PROOF
<1>1. ASSUME NEW p \in S
      PROVE  p \in BelowInTree(S)
  <2>1. LedTo(S, 1, p)
    BY MembersLead
  <2>2. Cardinality(Listed) \in Nat /\ IsFiniteSet(Listed)
    BY ListedAreSome, SomePids
  <2>3. Listed # {}
    OBVIOUS
  <2>4. Cardinality(Listed) # 0
    BY <2>2, <2>3, FS_EmptySet
  <2>5. 1 \in 1..Cardinality(Listed)
    BY <2>2, <2>4
  <2> QED
    BY <2>1, <2>5 DEF LedTo, BelowInTree
<1> QED
  BY <1>1 DEF BelowInTree

LEMMA MembersAreListed ==
    ASSUME NEW s
    PROVE  Members(s) \in SUBSET Listed
  BY DEF Members

\* The memory of listed processes is a number, and the more processes the more of it.
LEMMA MemoryGrows ==
    ASSUME GroupsTyped, NEW T \in SUBSET Listed, NEW S \in SUBSET T
    PROVE  MemoryOf(T) \in Nat /\ MemoryOf(S) \in Nat /\ MemoryOf(S) <= MemoryOf(T)
PROOF
<1> DEFINE amount == [p \in GroupPids |-> IF listed[p].memory = Unknown THEN 0
                                          ELSE listed[p].memory]
<1>1. \A p \in GroupPids : listed[p].memory \in Nat \cup {Unknown}
  BY DEF GroupsTyped, GroupProcess
<1>2. \A p \in GroupPids : amount[p] \in Nat
  BY <1>1
<1>3. T \in SUBSET GroupPids /\ S \in SUBSET GroupPids
  BY ListedAreSome
<1>4. IsFiniteSet(T) /\ IsFiniteSet(S)
  BY <1>3, SomePids
<1>5. MemoryOf(T) = SumOf(amount, T) /\ MemoryOf(S) = SumOf(amount, S)
  BY DEF MemoryOf
<1> HIDE DEF amount
<1>6. \A p \in T : amount[p] \in Nat
  BY <1>2, <1>3
<1>7. \A p \in S : amount[p] \in Nat /\ amount[p] <= amount[p]
  BY <1>6
<1>8. SumOf(amount, T) \in Nat /\ SumOf(amount, S) \in Nat
  BY <1>4, <1>6, <1>7, SumOfIsNumber
<1>9. SumOf(amount, S) <= SumOf(amount, T)
  BY <1>4, <1>6, <1>7, SumOfGrows
<1> QED
  BY <1>5, <1>8, <1>9

LEMMA GroupsStart == GroupsIdle => GroupsInvariant
PROOF
<1> SUFFICES ASSUME GroupsIdle
             PROVE  GroupsInvariant
  OBVIOUS
<1>1. NoProcess \in GroupProcess /\ NoProcess.came = 0
  BY DEF NoProcess, GroupProcess
<1>2. Listed = {}
  BY <1>1 DEF GroupsIdle, Nobody, Listed
<1>3. Cardinality({}) = 0 /\ IsFiniteSet({})
  BY FS_EmptySet
<1>4. MostWork \in Nat
  BY GroupTablesAssumption
<1>5. GroupsTyped
  BY <1>1, <1>3, <1>4 DEF GroupsIdle, GroupsTyped, GroupSteps, Nobody, Unread, Unknown
<1>6. WalkedDown /\ GroupsKept /\ TimesTold /\ ChargedFairly
  BY <1>2, <1>3 DEF GroupsIdle, WalkedDown, GroupsKept, TimesTold, ChargedFairly
<1>7. GroupsBuilt
  BY <1>2 DEF GroupsIdle, GroupsBuilt
<1> QED
  BY <1>5, <1>6, <1>7 DEF GroupsInvariant

\* What a step that leaves the processes listed alone cannot change.
LEMMA TreesSteady ==
    ASSUME listed' = listed
    PROVE  /\ Listed' = Listed
           /\ \A s : Members(s)' = Members(s)
           /\ \A p : ChildrenOf(p)' = ChildrenOf(p)
           /\ \A S, n, p : LedTo(S, n, p)' <=> LedTo(S, n, p)
           /\ \A s, c : GroupOf(s, c)' = GroupOf(s, c)
PROOF
<1>1. /\ Listed' = Listed /\ \A s : Members(s)' = Members(s)
      /\ \A p : ChildrenOf(p)' = ChildrenOf(p)
  BY DEF Listed, Members, ChildrenOf
<1>2. \A S, n, p : LedTo(S, n, p)' <=> LedTo(S, n, p)
  BY DEF LedTo, Listed
<1>3. \A s, c : GroupOf(s, c)' = GroupOf(s, c)
  BY DEF GroupOf, Members, BelowInTree, MemoryOf, Listed
<1> QED
  BY <1>1, <1>2, <1>3

LEMMA WalkSteady ==
    ASSUME WalkedDown, UNCHANGED <<listed, stems, seenPids, toWalk, visits>>,
           gstep' = "walk" => gstep = "walk"
    PROVE  WalkedDown'
  BY DEF WalkedDown, LedTo, Members, ChildrenOf, Listed

LEMMA BuiltSteady ==
    ASSUME GroupsBuilt, UNCHANGED <<listed, stems, groups>>
    PROVE  GroupsBuilt'
  BY TreesSteady DEF GroupsBuilt

LEMMA KeptSteady ==
    ASSUME GroupsKept, UNCHANGED <<wanted, listed, stems, groups, greply>>,
           gstep' \in {"idle", "group", "walk"} => gstep \in {"idle", "group", "walk"},
           gstep' \in {"first", "sleep", "second", "answered"} =>
             gstep \in {"first", "sleep", "second", "answered"}
    PROVE  GroupsKept'
PROOF
<1>1. KeptWell(greply.groups)' <=> KeptWell(greply.groups)
  BY TreesSteady DEF KeptWell
<1> QED
  BY <1>1 DEF GroupsKept, NoGroups

LEMMA TimesSteady ==
    ASSUME TimesTold, listed' = listed, UNCHANGED machine, UNCHANGED <<first, second>>,
           UNCHANGED <<sysFirst, sysSecond>>, gstep' = "second" => gstep = "second"
    PROVE  TimesTold'
  BY DEF TimesTold, Listed, machine

\* The call lists its processes, and nothing is grouped yet.
LEMMA GroupsAsked == GroupsInvariant /\ AskGroups => GroupsInvariant'
PROOF
<1> SUFFICES ASSUME GroupsInvariant, AskGroups
             PROVE  GroupsInvariant'
  OBVIOUS
<1>1. GroupsIdle
  BY DEF GroupsInvariant, AskGroups
<1>2. PICK t \in GroupTables, l \in GroupLimits :
        /\ running' = t /\ wanted' = l
        /\ listed' = [p \in GroupPids |-> IF p \in KeptProcesses(t, l.cap) THEN t[p]
                                          ELSE NoProcess]
        /\ stems' = {t[p].stem : p \in KeptProcesses(t, l.cap)}
  BY DEF AskGroups
<1> DEFINE K == KeptProcesses(t, l.cap)
<1>3. /\ gstep' = "group" /\ seenPids' = {} /\ toWalk' = <<>> /\ visits' = 0 /\ groups' = {}
      /\ toSample' = {} /\ first' = Unread /\ second' = Unread
      /\ systemClock' = 0 /\ sysFirst' = 0 /\ sysSecond' = 0
      /\ work' = 0 /\ timesSpent' = [p \in GroupPids |-> 0] /\ moved' = {}
      /\ greply' = NoGroups
  BY <1>1 DEF AskGroups, GroupsIdle, readings
<1>4. K \subseteq GroupPids
  BY DEF KeptProcesses
<1>5. t \in [GroupPids -> GroupProcess] /\ l \in [limit : Nat \ {0}, cap : Nat]
      /\ MostWork \in Nat
  BY GroupTablesAssumption
<1>6. NoProcess \in GroupProcess /\ NoProcess.came = 0
  BY DEF NoProcess, GroupProcess
<1>7. Cardinality({}) = 0 /\ IsFiniteSet({})
  BY FS_EmptySet
<1> HIDE DEF K
<1>8. listed' \in [GroupPids -> GroupProcess] /\ stems' \subseteq Nat
  <2>1. \A p \in GroupPids : t[p] \in GroupProcess /\ t[p].stem \in Nat
    BY <1>5 DEF GroupProcess
  <2> QED
    BY <1>2, <1>4, <1>6, <2>1 DEF K
<1>9. \A p \in Listed' : p \in K /\ p \in GroupPids /\ listed'[p] = t[p]
  BY <1>2, <1>6 DEF Listed, K
<1>10. GroupsTyped'
  BY <1>2, <1>3, <1>5, <1>7, <1>8 DEF GroupsTyped, GroupSteps, Unread, Unknown
<1>11. GroupsBuilt'
  BY <1>2, <1>3, <1>9 DEF GroupsBuilt, K
<1>12. WalkedDown' /\ GroupsKept' /\ ChargedFairly'
  BY <1>3, <1>7 DEF WalkedDown, GroupsKept, ChargedFairly, NoGroups
<1>13. TimesTold'
  <2>1. \A p \in Listed' : t[p].cpu \in Nat /\ running'[p].cpu = t[p].cpu
                           /\ listed'[p].cpu = t[p].cpu
    BY <1>2, <1>5, <1>9 DEF GroupProcess
  <2>2. \A p \in Listed' : timesSpent'[p] = 0 /\ first'[p] = Unknown /\ second'[p] = Unknown
    BY <1>3, <1>9 DEF Unread
  <2> QED
    BY <1>3, <2>1, <2>2 DEF TimesTold
<1> QED
  BY <1>3, <1>10, <1>11, <1>12, <1>13 DEF GroupsInvariant

\* A step that builds groups leaves the machine and the answer as they were.
LEMMA Building ==
    ASSUME GroupsInvariant, UNCHANGED <<wanted, listed, readings, machine, greply>>,
           gstep \in {"group", "walk"}, gstep' \in {"group", "walk"},
           stems' \subseteq Nat, seenPids' \in SUBSET Listed, toWalk' \in Seq(seenPids'),
           visits' \in Nat, IsFiniteSet(groups'), WalkedDown', GroupsBuilt'
    PROVE  GroupsInvariant'
PROOF
<1>1. Listed' = Listed
  BY DEF Listed
<1>2. GroupsTyped'
  BY <1>1 DEF GroupsInvariant, GroupsTyped, GroupSteps, readings, machine
<1>3. GroupsKept'
  BY DEF GroupsInvariant, GroupsKept, NoGroups
<1>4. TimesTold'
  <2>1. TimesTold /\ gstep' # "second" /\ UNCHANGED <<first, second, sysFirst, sysSecond>>
    BY DEF GroupsInvariant, readings
  <2> QED
    BY <2>1, TimesSteady
<1> QED
  BY <1>2, <1>3, <1>4 DEF GroupsInvariant, ChargedFairly

LEMMA GroupBegun == GroupsInvariant /\ NextGroup => GroupsInvariant'
PROOF
<1> SUFFICES ASSUME GroupsInvariant, NextGroup
             PROVE  GroupsInvariant'
  OBVIOUS
<1>1. /\ gstep = "group" /\ stems # {} /\ gstep' = "walk" /\ visits' = 0
      /\ UNCHANGED <<wanted, listed, stems, groups, readings, machine, greply>>
  BY DEF NextGroup
<1> DEFINE M == Members(Min(stems))
<1>2. seenPids' = M /\ toWalk' = Ascending(M)
  BY DEF NextGroup
<1>3. M \in SUBSET Listed /\ M \in SUBSET GroupPids
  BY ListedAreSome DEF Members
<1>4. M' = M /\ Listed' = Listed
  BY <1>1 DEF Members, Listed
<1>5. /\ toWalk' \in Seq(seenPids') /\ Len(toWalk') = Cardinality(seenPids')
      /\ Range(toWalk') = seenPids'
  <2> HIDE DEF M
  <2> QED
    BY <1>2, <1>3, PidsInOrder
<1>6. Cardinality(seenPids') \in Nat /\ IsFiniteSet(seenPids')
  BY <1>2, <1>3, SomePids
<1>7. ASSUME NEW p \in seenPids'
      PROVE  \E n \in 1..Cardinality(seenPids') : LedTo(M, n, p)'
  <2>1. LedTo(M, 1, p)
    BY <1>2, <1>3, MembersLead
  <2>2. LedTo(M, 1, p)'
    BY <1>1, <1>4, <2>1 DEF LedTo
  <2>3. Cardinality(seenPids') # 0
    BY <1>6, FS_EmptySet
  <2>4. 1 \in 1..Cardinality(seenPids')
    BY <1>6, <2>3
  <2> QED
    BY <2>2, <2>4
<1>8. WalkedDown'
  BY <1>1, <1>2, <1>4, <1>5, <1>6, <1>7 DEF WalkedDown
<1>9. GroupsBuilt'
  BY <1>1, BuiltSteady DEF GroupsInvariant
<1> QED
  BY <1>1, <1>2, <1>3, <1>5, <1>8, <1>9, Building DEF GroupsInvariant, GroupsTyped

LEMMA GroupWalked == GroupsInvariant /\ WalkDown => GroupsInvariant'
PROOF
<1> SUFFICES ASSUME GroupsInvariant, WalkDown
             PROVE  GroupsInvariant'
  OBVIOUS
<1>1. /\ gstep = "walk" /\ toWalk # <<>> /\ visits' = visits + 1
      /\ UNCHANGED <<gstep, wanted, listed, stems, groups, readings, machine, greply>>
  BY DEF WalkDown
<1> DEFINE fresh == ChildrenOf(Last(toWalk)) \ seenPids
           M == Members(Min(stems))
<1>2. seenPids' = seenPids \cup fresh /\ toWalk' = Front(toWalk) \o Ascending(fresh)
  BY DEF WalkDown
<1>3. seenPids \in SUBSET Listed /\ toWalk \in Seq(seenPids) /\ visits \in Nat
  BY DEF GroupsInvariant, GroupsTyped
<1>4. fresh \in SUBSET Listed /\ fresh \in SUBSET GroupPids /\ fresh \cap seenPids = {}
  BY ListedAreSome DEF ChildrenOf
<1>5. M' = M /\ Listed' = Listed /\ \A p : ChildrenOf(p)' = ChildrenOf(p)
  BY <1>1 DEF Members, ChildrenOf, Listed
<1>6. \A n, p : LedTo(M, n, p)' <=> LedTo(M, n, p)
  BY <1>1, <1>5 DEF LedTo
<1>7. /\ M \subseteq seenPids /\ stems # {}
      /\ \A p \in seenPids \ Range(toWalk) : ChildrenOf(p) \subseteq seenPids
      /\ \A p \in seenPids : \E n \in 1..Cardinality(seenPids) : LedTo(M, n, p)
      /\ visits + Len(toWalk) <= Cardinality(seenPids)
  BY <1>1 DEF GroupsInvariant, WalkedDown
<1>8. /\ Ascending(fresh) \in Seq(fresh) /\ Len(Ascending(fresh)) = Cardinality(fresh)
      /\ Range(Ascending(fresh)) = fresh
  <2> HIDE DEF fresh
  <2> QED
    BY <1>4, PidsInOrder
<1> DEFINE front == Front(toWalk)
           last == Last(toWalk)
           after == Ascending(fresh)
<1>9. /\ front \in Seq(seenPids) /\ Len(front) = Len(toWalk) - 1 /\ Len(toWalk) \in Nat
      /\ last \in seenPids
      /\ Range(toWalk) \subseteq Range(front) \cup {last}
  <2>1. Len(toWalk) \in Nat \ {0} /\ DOMAIN toWalk = 1..Len(toWalk)
    BY <1>1, <1>3
  <2>2. front = [i \in 1..(Len(toWalk) - 1) |-> toWalk[i]]
    BY <2>1 DEF Front
  <2>3. last = toWalk[Len(toWalk)]
    BY DEF Last
  <2>4. \A i \in 1..Len(toWalk) : toWalk[i] \in seenPids
    BY <1>3
  <2> HIDE DEF front, last
  <2>5. front \in Seq(seenPids) /\ Len(front) = Len(toWalk) - 1
        /\ DOMAIN front = 1..(Len(toWalk) - 1)
    BY <2>1, <2>2, <2>4
  <2>6. last \in seenPids
    BY <2>1, <2>3, <2>4
  <2>7. ASSUME NEW i \in 1..Len(toWalk)
        PROVE  toWalk[i] \in Range(front) \cup {last}
    <3>1. CASE i = Len(toWalk)
      BY <2>3, <3>1
    <3>2. CASE i # Len(toWalk)
      <4>1. i \in 1..(Len(toWalk) - 1)
        <5> DEFINE n == Len(toWalk)
        <5>1. n \in Nat /\ i \in 1..n /\ i # n
          BY <2>1, <3>2
        <5> HIDE DEF n
        <5>2. i \in 1..(n - 1)
          BY <5>1
        <5> QED
          BY <5>2 DEF n
      <4> QED
        BY <2>2, <2>5, <4>1 DEF Range
    <3> QED
      BY <3>1, <3>2
  <2>8. Range(toWalk) \subseteq Range(front) \cup {last}
    BY <2>1, <2>7 DEF Range
  <2> QED
    BY <2>1, <2>5, <2>6, <2>8
<1>10. fresh = ChildrenOf(last) \ seenPids
  OBVIOUS
<1> HIDE DEF front, last, after
<1>11. /\ toWalk' \in Seq(seenPids') /\ Len(toWalk') = (Len(toWalk) - 1) + Cardinality(fresh)
       /\ Range(front) \subseteq Range(toWalk') /\ fresh \subseteq Range(toWalk')
  <2> DEFINE S == seenPids'
  <2>1. front \in Seq(S) /\ after \in Seq(S)
    <3>1. after \in Seq(fresh) /\ S = seenPids \cup fresh
      BY <1>2, <1>8 DEF after
    <3> HIDE DEF S, fresh
    <3>2. \A i \in 1..Len(front) : front[i] \in S
      BY <1>9, <3>1
    <3>3. \A i \in 1..Len(after) : after[i] \in S
      BY <3>1
    <3>4. front \in Seq(S)
      BY <1>9, <3>2
    <3>5. after \in Seq(S)
      BY <3>1, <3>3
    <3> QED
      BY <3>4, <3>5
  <2>2. toWalk' = front \o after /\ Len(after) = Cardinality(fresh) /\ Range(after) = fresh
    BY <1>2, <1>8 DEF front, after
  <2> HIDE DEF S, fresh
  <2>3. /\ front \o after \in Seq(S) /\ Len(front \o after) = Len(front) + Len(after)
        /\ Len(front) \in Nat /\ Len(after) \in Nat
        /\ DOMAIN front = 1..Len(front) /\ DOMAIN after = 1..Len(after)
        /\ DOMAIN (front \o after) = 1..(Len(front) + Len(after))
    BY <2>1
  <2>4. \A i \in 1..Len(front) : (front \o after)[i] = front[i]
    BY <2>1
  <2>5. \A i \in 1..Len(after) : (front \o after)[Len(front) + i] = after[i]
    BY <2>1
  <2>6. Range(front) \subseteq Range(front \o after)
    <3>1. \A i \in 1..Len(front) : i \in 1..(Len(front) + Len(after))
      BY <2>3
    <3> QED
      BY <2>3, <2>4, <3>1 DEF Range
  <2>7. Range(after) \subseteq Range(front \o after)
    <3>1. \A i \in 1..Len(after) : Len(front) + i \in 1..(Len(front) + Len(after))
      BY <2>3
    <3> QED
      BY <2>3, <2>5, <3>1 DEF Range
  <2> QED
    BY <1>9, <2>2, <2>3, <2>6, <2>7 DEF S
<1>12. /\ Cardinality(seenPids) \in Nat /\ Cardinality(fresh) \in Nat
       /\ Cardinality(seenPids') = Cardinality(seenPids) + Cardinality(fresh)
       /\ IsFiniteSet(seenPids) /\ IsFiniteSet(fresh)
  <2>1. /\ IsFiniteSet(seenPids) /\ IsFiniteSet(fresh)
        /\ Cardinality(seenPids) \in Nat /\ Cardinality(fresh) \in Nat
    BY <1>3, <1>4, ListedAreSome, SomePids
  <2>2. seenPids \cap fresh = {} /\ Cardinality({}) = 0
    BY <1>4, FS_EmptySet
  <2> HIDE DEF fresh
  <2>3. Cardinality(seenPids \cup fresh)
          = Cardinality(seenPids) + Cardinality(fresh) - Cardinality(seenPids \cap fresh)
    BY <2>1, FS_Union
  <2>4. Cardinality(seenPids \cap fresh) = 0
    BY <2>2
  <2>5. Cardinality(seenPids \cup fresh) = Cardinality(seenPids) + Cardinality(fresh)
    BY <2>1, <2>3, <2>4
  <2> QED
    BY <1>2, <2>1, <2>5
<1>13. \A p \in seenPids' \ Range(toWalk') : ChildrenOf(p) \subseteq seenPids'
  <2> SUFFICES ASSUME NEW p \in seenPids' \ Range(toWalk')
               PROVE  ChildrenOf(p) \subseteq seenPids'
    OBVIOUS
  <2>1. p \in seenPids /\ p \notin Range(front)
    BY <1>2, <1>11
  <2>2. CASE p = last
    BY <1>2, <1>10, <2>2
  <2>3. CASE p # last
    <3>1. p \notin Range(toWalk)
      BY <1>9, <2>1, <2>3
    <3> QED
      BY <1>2, <1>7, <2>1, <3>1
  <2> QED
    BY <2>2, <2>3
<1>14. \A p \in seenPids' : \E n \in 1..Cardinality(seenPids') : LedTo(M, n, p)
  <2> SUFFICES ASSUME NEW p \in seenPids'
               PROVE  \E n \in 1..Cardinality(seenPids') : LedTo(M, n, p)
    OBVIOUS
  <2>1. CASE p \in seenPids
    <3>1. PICK n \in 1..Cardinality(seenPids) : LedTo(M, n, p)
      BY <1>7, <2>1
    <3>2. n \in 1..Cardinality(seenPids')
      BY <1>12
    <3> QED
      BY <3>1, <3>2
  <2>2. CASE p \in fresh
    <3>1. PICK n \in 1..Cardinality(seenPids) : LedTo(M, n, last)
      BY <1>7, <1>9
    <3>2. p \in ChildrenOf(last) /\ n \in Nat \ {0}
      BY <1>10, <1>12, <2>2
    <3>3. LedTo(M, n + 1, p)
      <4> HIDE DEF M
      <4> QED
        BY <3>1, <3>2, ChildrenLed
    <3>4. Cardinality(fresh) # 0
      <4> HIDE DEF fresh
      <4> QED
        BY <1>12, <2>2, FS_EmptySet
    <3>5. n + 1 \in 1..Cardinality(seenPids')
      BY <1>12, <3>4
    <3> QED
      BY <3>3, <3>5
  <2> QED
    BY <1>2, <2>1, <2>2
<1>15. visits' + Len(toWalk') <= Cardinality(seenPids')
  <2> HIDE DEF fresh
  <2> QED
    BY <1>1, <1>3, <1>7, <1>9, <1>11, <1>12
<1>16. WalkedDown'
  <2> HIDE DEF fresh
  <2>1. M' \subseteq seenPids' /\ stems' # {}
    BY <1>1, <1>2, <1>5, <1>7
  <2>2. \A p \in seenPids' \ Range(toWalk') : ChildrenOf(p)' \subseteq seenPids'
    BY <1>5, <1>13
  <2>3. \A p \in seenPids' : \E n \in 1..Cardinality(seenPids') : LedTo(M, n, p)'
    BY <1>6, <1>14
  <2> QED
    BY <1>15, <2>1, <2>2, <2>3 DEF WalkedDown
<1>17. GroupsBuilt'
  BY <1>1, BuiltSteady DEF GroupsInvariant
<1>18. seenPids' \in SUBSET Listed /\ visits' \in Nat
  BY <1>1, <1>2, <1>3, <1>4
<1> QED
  BY <1>1, <1>11, <1>16, <1>17, <1>18, Building DEF GroupsInvariant, GroupsTyped

\* What was walked is the tree, once nothing is left to be walked.
LEMMA GroupClosed == GroupsInvariant /\ CloseGroup => GroupsInvariant'
PROOF
<1> SUFFICES ASSUME GroupsInvariant, CloseGroup
             PROVE  GroupsInvariant'
  OBVIOUS
<1> DEFINE m == Min(stems)
           new == [stem |-> m, members |-> Members(m), tree |-> seenPids,
                   own |-> MemoryOf(Members(m)), total |-> MemoryOf(seenPids),
                   cpu |-> Unknown]
<1>1. /\ gstep = "walk" /\ toWalk = <<>> /\ gstep' = "group"
      /\ groups' = groups \cup {new} /\ stems' = stems \ {m}
      /\ UNCHANGED <<wanted, listed, seenPids, toWalk, visits, readings, machine, greply>>
  BY DEF CloseGroup
<1>2. /\ stems \in SUBSET Nat /\ seenPids \in SUBSET Listed /\ toWalk \in Seq(seenPids)
      /\ visits \in Nat /\ IsFiniteSet(groups)
  BY DEF GroupsInvariant, GroupsTyped
<1>3. /\ stems # {} /\ Members(m) \subseteq seenPids
      /\ \A p \in seenPids : ChildrenOf(p) \subseteq seenPids
      /\ \A p \in seenPids : \E n \in 1..Cardinality(seenPids) : LedTo(Members(m), n, p)
  BY <1>1 DEF GroupsInvariant, WalkedDown, Range
<1>4. m \in Nat /\ m \in stems
  BY <1>2, <1>3, MinOfNumbers
<1>5. seenPids = BelowInTree(Members(m))
  <2> HIDE DEF m
  <2> QED
    BY <1>2, <1>3, ClosedIsTree
<1> HIDE DEF m
<1>6. new = GroupOf(m, Unknown) /\ new.stem = m
  BY <1>5 DEF GroupOf
<1> HIDE DEF new
<1>7. IsFiniteSet(groups')
  BY <1>1, <1>2, FS_AddElement
<1>8. WalkedDown'
  BY <1>1 DEF GroupsInvariant, WalkedDown
<1>9. GroupsBuilt'
  <2>1. /\ \A g \in groups : g.stem \in Nat /\ g = GroupOf(g.stem, Unknown)
        /\ \A p \in Listed :
             listed[p].stem \in stems \/ \E g \in groups : g.stem = listed[p].stem
    BY DEF GroupsInvariant, GroupsBuilt
  <2>2. \A g \in groups' : g.stem \in Nat /\ g = GroupOf(g.stem, Unknown)
    BY <1>1, <1>4, <1>6, <2>1
  <2>3. \A p \in Listed :
          listed[p].stem \in stems' \/ \E g \in groups' : g.stem = listed[p].stem
    BY <1>1, <1>6, <2>1
  <2> QED
    BY <1>1, <2>2, <2>3, TreesSteady DEF GroupsBuilt
<1> QED
  BY <1>1, <1>2, <1>7, <1>8, <1>9, Building

\* The groups kept are the first of a ranking: what is cut ranks behind them.
LEMMA LargestAreKept ==
    ASSUME GroupsInvariant, stems = {}
    PROVE  KeptWell(Largest(groups, wanted.limit))
PROOF
<1> DEFINE B == {gh \in groups \X groups :
                   \/ gh[1].total > gh[2].total
                   \/ gh[1].total = gh[2].total /\ gh[1].stem < gh[2].stem}
           n == Cardinality(groups)
           r == Ranked(groups, B)
           limit == wanted.limit
           most == IF n < limit THEN n ELSE limit
           kept == Largest(groups, limit)
<1>1. IsFiniteSet(groups) /\ limit \in Nat \ {0}
  BY DEF GroupsInvariant, GroupsTyped
<1>2. ASSUME NEW g \in groups
      PROVE  /\ g.stem \in Nat /\ g = GroupOf(g.stem, Unknown) /\ g.total \in Nat
             /\ g.cpu = Unknown
  <2>1. g.stem \in Nat /\ g = GroupOf(g.stem, Unknown)
    BY DEF GroupsInvariant, GroupsBuilt
  <2>2. g.total = MemoryOf(BelowInTree(Members(g.stem))) /\ g.cpu = Unknown
    <3> DEFINE s == g.stem
    <3>1. g = GroupOf(s, Unknown)
      BY <2>1
    <3> HIDE DEF s
    <3>2. g.total = MemoryOf(BelowInTree(Members(s))) /\ g.cpu = Unknown
      BY <3>1 DEF GroupOf
    <3> QED
      BY <3>2 DEF s
  <2>3. BelowInTree(Members(g.stem)) \in SUBSET Listed
    BY MembersAreListed, TreeOfMembers
  <2>4. MemoryOf(BelowInTree(Members(g.stem))) \in Nat
    BY <2>3, MemoryGrows DEF GroupsInvariant
  <2> QED
    BY <2>1, <2>2, <2>4
<1>3. \A g, h \in groups : g.stem = h.stem => g = h
  BY <1>2
<1>4. \A g, h \in groups :
        <<g, h>> \in B <=> \/ g.total > h.total
                           \/ g.total = h.total /\ g.stem < h.stem
  OBVIOUS
<1>5. r = Ranked(groups, B) /\ n = Cardinality(groups)
  OBVIOUS
<1>6. kept = SubSeq(r, 1, IF Len(r) < limit THEN Len(r) ELSE limit)
  BY DEF Largest
<1> HIDE DEF B, n, r, kept, limit
<1>7. \A g \in groups : <<g, g>> \notin B
  BY <1>2, <1>4
<1>8. \A g, h, k \in groups : <<g, h>> \in B /\ <<h, k>> \in B => <<g, k>> \in B
  <2> SUFFICES ASSUME NEW g \in groups, NEW h \in groups, NEW k \in groups,
                      <<g, h>> \in B, <<h, k>> \in B
               PROVE  <<g, k>> \in B
    OBVIOUS
  <2>1. /\ g.total \in Nat /\ h.total \in Nat /\ k.total \in Nat
        /\ g.stem \in Nat /\ h.stem \in Nat /\ k.stem \in Nat
    BY <1>2
  <2>2. g.total > h.total \/ (g.total = h.total /\ g.stem < h.stem)
    BY <1>4
  <2>3. h.total > k.total \/ (h.total = k.total /\ h.stem < k.stem)
    BY <1>4
  <2>4. g.total > k.total \/ (g.total = k.total /\ g.stem < k.stem)
    BY <2>1, <2>2, <2>3
  <2> QED
    BY <1>4, <2>4
<1>9. \A g, h \in groups : g = h \/ <<g, h>> \in B \/ <<h, g>> \in B
  <2> SUFFICES ASSUME NEW g \in groups, NEW h \in groups, g # h
               PROVE  <<g, h>> \in B \/ <<h, g>> \in B
    OBVIOUS
  <2>1. /\ g.total \in Nat /\ h.total \in Nat /\ g.stem \in Nat /\ h.stem \in Nat
        /\ g.stem # h.stem
    BY <1>2, <1>3
  <2>2. \/ g.total > h.total \/ (g.total = h.total /\ g.stem < h.stem)
        \/ h.total > g.total \/ (h.total = g.total /\ h.stem < g.stem)
    BY <2>1
  <2> QED
    BY <1>4, <2>2
<1>10. /\ n \in Nat /\ r \in [1..n -> groups]
       /\ \A g \in groups : \E i \in 1..n : r[i] = g
       /\ \A i, j \in 1..n : i < j => <<r[i], r[j]>> \in B
  BY <1>1, <1>5, <1>7, <1>8, <1>9, RankedIsInOrder
<1>11. most \in 0..limit /\ most \in 0..n /\ (most = n \/ most = limit)
  BY <1>1, <1>10
<1>12. kept = [i \in 1..most |-> r[i]] /\ DOMAIN kept = 1..Len(kept) /\ Len(kept) = most
  <2>1. r \in Seq(groups) /\ Len(r) = n
    BY <1>10
  <2>2. kept = SubSeq(r, 1, most)
    BY <1>6, <2>1
  <2> HIDE DEF most
  <2>3. kept \in Seq(groups) /\ Len(kept) = most /\ \A i \in 1..most : kept[i] = r[i]
    BY <1>10, <1>11, <2>1, <2>2
  <2>4. DOMAIN kept = 1..most
    BY <1>11, <2>3
  <2> QED
    BY <2>3, <2>4
<1> HIDE DEF most
<1>13. \A i \in 1..most : kept[i] = r[i] /\ kept[i] \in groups /\ i \in 1..n
  BY <1>10, <1>11, <1>12
<1>14. ASSUME NEW g \in groups, NEW i \in 1..most,
              ~ \E k \in 1..most : kept[k].stem = g.stem
       PROVE  kept[i].total >= g.total
  <2>1. PICK j \in 1..n : r[j] = g
    BY <1>10
  <2>2. ~(j \in 1..most)
    BY <1>13, <1>14, <2>1
  <2>3. i < j /\ i \in 1..n
    BY <1>10, <1>11, <2>2
  <2>4. <<r[i], r[j]>> \in B
    BY <1>10, <2>3
  <2>5. kept[i] \in groups /\ <<kept[i], g>> \in B
    BY <1>13, <2>1, <2>4
  <2>6. kept[i].total > g.total \/ kept[i].total = g.total
    BY <1>4, <2>5
  <2>7. kept[i].total \in Nat /\ g.total \in Nat
    BY <1>2, <2>5
  <2> QED
    BY <2>6, <2>7
<1>15. \A i \in 1..most :
         /\ kept[i].stem \in Nat /\ kept[i] = GroupOf(kept[i].stem, kept[i].cpu)
         /\ \E g \in groups : g.stem = kept[i].stem
  <2> SUFFICES ASSUME NEW i \in 1..most
               PROVE  /\ kept[i].stem \in Nat /\ kept[i] = GroupOf(kept[i].stem, kept[i].cpu)
                      /\ \E g \in groups : g.stem = kept[i].stem
    OBVIOUS
  <2>1. kept[i] \in groups
    BY <1>13
  <2>2. kept[i].stem \in Nat /\ kept[i] = GroupOf(kept[i].stem, Unknown)
        /\ kept[i].cpu = Unknown
    BY <1>2, <2>1
  <2> QED
    BY <2>1, <2>2
<1>16. KeptWell(kept)
  BY <1>11, <1>12, <1>14, <1>15 DEF KeptWell, limit
<1> QED
  BY <1>16 DEF kept, limit

\* The trees of the groups kept are of PIDs.
LEMMA KeptTrees ==
    ASSUME NEW kept, KeptWell(kept)
    PROVE  /\ \A i \in DOMAIN kept : kept[i].tree \in SUBSET Listed
           /\ UNION {kept[i].tree : i \in DOMAIN kept} \in SUBSET GroupPids
PROOF
<1>1. ASSUME NEW i \in DOMAIN kept
      PROVE  kept[i].tree \in SUBSET Listed
  <2>1. kept[i] = GroupOf(kept[i].stem, kept[i].cpu)
    BY DEF KeptWell
  <2> DEFINE s == kept[i].stem
             c == kept[i].cpu
  <2>2. kept[i] = GroupOf(s, c)
    BY <2>1
  <2> HIDE DEF s, c
  <2>3. kept[i].tree = BelowInTree(Members(s))
    BY <2>2 DEF GroupOf
  <2> QED
    BY <2>3, MembersAreListed, TreeOfMembers
<1> QED
  BY <1>1, ListedAreSome

LEMMA GroupsLimited == GroupsInvariant /\ KeepLargest => GroupsInvariant'
PROOF
<1> SUFFICES ASSUME GroupsInvariant, KeepLargest
             PROVE  GroupsInvariant'
  OBVIOUS
<1> DEFINE kept == Largest(groups, wanted.limit)
<1>1. /\ gstep = "group" /\ stems = {}
      /\ greply' = [kind |-> "groups", groups |-> kept]
      /\ toSample' = UNION {kept[i].tree : i \in DOMAIN kept}
      /\ gstep' = IF kept = <<>> THEN "answered" ELSE "first"
      /\ UNCHANGED <<wanted, listed, building, first, second, sysFirst, sysSecond, machine>>
  BY DEF KeepLargest
<1>2. KeptWell(kept)
  BY <1>1, LargestAreKept
<1> HIDE DEF kept
<1>3. toSample' \in SUBSET GroupPids
  BY <1>1, <1>2, KeptTrees
<1>4. UNCHANGED <<wanted, listed, stems, seenPids, toWalk, visits, groups, machine>>
  BY <1>1 DEF building
<1>5. Listed' = Listed
  BY <1>4 DEF Listed
<1>6. gstep' \in {"first", "answered"}
  BY <1>1
<1>7. GroupsTyped'
  BY <1>1, <1>3, <1>4, <1>5, <1>6
  DEF GroupsInvariant, GroupsTyped, GroupSteps, machine
<1>8. WalkedDown' /\ GroupsBuilt'
  BY <1>4, <1>6, WalkSteady, BuiltSteady DEF GroupsInvariant
<1>9. GroupsKept'
  <2>1. greply'.groups = kept /\ greply' = [kind |-> "groups", groups |-> kept]
    BY <1>1
  <2>2. KeptWell(greply.groups)'
    BY <1>2, <1>4, <2>1, TreesSteady DEF KeptWell
  <2> QED
    BY <1>1, <1>4, <1>6, <2>1, <2>2 DEF GroupsKept
<1>10. TimesTold'
  BY <1>1, <1>6, TimesSteady DEF GroupsInvariant
<1>11. ChargedFairly'
  BY <1>1, <1>6 DEF ChargedFairly
<1> QED
  BY <1>6, <1>7, <1>8, <1>9, <1>10, <1>11 DEF GroupsInvariant

\* A step of the sampling leaves the groups and what is kept of them as they were.
LEMMA SamplingOn ==
    ASSUME GroupsInvariant, UNCHANGED <<wanted, listed, building, greply>>,
           gstep \in {"first", "sleep", "second"}, gstep' \in {"first", "sleep", "second"},
           running' \in [GroupPids -> GroupProcess], toSample' \in SUBSET GroupPids,
           first' \in [GroupPids -> Int], second' \in [GroupPids -> Int],
           systemClock' \in Nat, sysFirst' \in Nat, sysSecond' \in Nat,
           work' \in 0..MostWork, timesSpent' \in [GroupPids -> Nat],
           moved' \in SUBSET GroupPids, TimesTold'
    PROVE  GroupsInvariant'
PROOF
<1>1. UNCHANGED <<wanted, listed, stems, seenPids, toWalk, visits, groups, greply>>
  BY DEF building
<1>2. Listed' = Listed
  BY <1>1 DEF Listed
<1>3. GroupsTyped'
  BY <1>1, <1>2 DEF GroupsInvariant, GroupsTyped, GroupSteps
<1>4. WalkedDown' /\ GroupsBuilt'
  BY <1>1, WalkSteady, BuiltSteady DEF GroupsInvariant
<1>5. GroupsKept'
  BY <1>1, KeptSteady DEF GroupsInvariant
<1> QED
  BY <1>3, <1>4, <1>5 DEF GroupsInvariant, ChargedFairly

\* What is read of a process is what it used so far.
LEMMA ReadingIsTold ==
    ASSUME GroupsInvariant, NEW p \in GroupPids
    PROVE  Reading(p) \in Int /\ (Reading(p) = Unknown \/ Reading(p) = running[p].cpu)
PROOF
<1>1. running[p] \in GroupProcess
  BY DEF GroupsInvariant, GroupsTyped
<1>2. running[p].cpu \in Nat
  BY <1>1 DEF GroupProcess
<1>3. Reading(p) = running[p].cpu \/ Reading(p) = Unknown
  BY Zenon DEF Reading
<1> QED
  BY <1>2, <1>3 DEF Unknown

LEMMA TimesAreNumbers ==
    ASSUME GroupsInvariant, NEW p \in GroupPids
    PROVE  /\ running[p].cpu \in Nat /\ listed[p].cpu \in Nat /\ timesSpent[p] \in Nat
           /\ first[p] \in Int /\ second[p] \in Int
PROOF
<1>1. running[p] \in GroupProcess /\ listed[p] \in GroupProcess
  BY DEF GroupsInvariant, GroupsTyped
<1> QED
  BY <1>1 DEF GroupProcess, GroupsInvariant, GroupsTyped

LEMMA FirstRead == GroupsInvariant /\ ReadFirst => GroupsInvariant'
PROOF
<1> SUFFICES ASSUME GroupsInvariant, ReadFirst
             PROVE  GroupsInvariant'
  OBVIOUS
<1> DEFINE m == Min(toSample)
<1>1. /\ gstep = "first" /\ toSample # {} /\ first' = [first EXCEPT ![m] = Reading(m)]
      /\ toSample' = toSample \ {m}
      /\ UNCHANGED <<gstep, wanted, listed, building, second, sysFirst, sysSecond,
                     machine, greply>>
  BY DEF ReadFirst
<1>2. toSample \in SUBSET GroupPids /\ toSample \in SUBSET Nat
  BY GroupPidsAreNumbers DEF GroupsInvariant, GroupsTyped
<1>3. m \in GroupPids
  BY <1>1, <1>2, MinOfNumbers
<1> HIDE DEF m
<1>4. Reading(m) \in Int /\ (Reading(m) = Unknown \/ Reading(m) = running[m].cpu)
  BY <1>3, ReadingIsTold
<1>5. first' \in [GroupPids -> Int]
  BY <1>1, <1>4 DEF GroupsInvariant, GroupsTyped
<1>6. TimesTold'
  <2>1. /\ UNCHANGED <<gstep, second, listed, running, timesSpent, moved, sysFirst,
                       sysSecond, systemClock>>
        /\ Listed' = Listed
    BY <1>1 DEF machine, Listed
  <2>2. ASSUME NEW p \in Listed \ moved
        PROVE  /\ running[p].cpu = listed[p].cpu + timesSpent[p]
               /\ first'[p] = Unknown \/ first'[p] >= listed[p].cpu
               /\ second[p] = Unknown \/ second[p] <= running[p].cpu
    <3>1. /\ running[p].cpu = listed[p].cpu + timesSpent[p]
          /\ first[p] = Unknown \/ first[p] >= listed[p].cpu
          /\ second[p] = Unknown \/ second[p] <= running[p].cpu
      BY DEF GroupsInvariant, TimesTold
    <3>2. p \in GroupPids
      BY DEF Listed
    <3>3. first'[p] = IF p = m THEN Reading(m) ELSE first[p]
      BY <1>1, <3>2 DEF GroupsInvariant, GroupsTyped
    <3>4. running[p].cpu \in Nat /\ listed[p].cpu \in Nat /\ timesSpent[p] \in Nat
      BY <3>2, TimesAreNumbers
    <3>5. CASE p = m
      BY <1>4, <3>1, <3>3, <3>4, <3>5
    <3>6. CASE p # m
      BY <3>1, <3>3, <3>6
    <3> QED
      BY <3>1, <3>5, <3>6
  <2>3. sysFirst <= systemClock /\ (gstep = "second" => sysFirst <= sysSecond)
    BY DEF GroupsInvariant, TimesTold
  <2> QED
    BY <2>1, <2>2, <2>3 DEF TimesTold
<1>7. GroupsTyped /\ toSample' \in SUBSET GroupPids /\ gstep' \in {"first", "sleep", "second"}
  BY <1>1, <1>2 DEF GroupsInvariant
<1> QED
  BY <1>1, <1>5, <1>6, <1>7, SamplingOn DEF GroupsTyped, machine

LEMMA SecondRead == GroupsInvariant /\ ReadSecond => GroupsInvariant'
PROOF
<1> SUFFICES ASSUME GroupsInvariant, ReadSecond
             PROVE  GroupsInvariant'
  OBVIOUS
<1> DEFINE m == Min(toSample)
<1>1. /\ gstep = "second" /\ toSample # {} /\ second' = [second EXCEPT ![m] = Reading(m)]
      /\ toSample' = toSample \ {m}
      /\ UNCHANGED <<gstep, wanted, listed, building, first, sysFirst, sysSecond,
                     machine, greply>>
  BY DEF ReadSecond
<1>2. toSample \in SUBSET GroupPids /\ toSample \in SUBSET Nat
  BY GroupPidsAreNumbers DEF GroupsInvariant, GroupsTyped
<1>3. m \in GroupPids
  BY <1>1, <1>2, MinOfNumbers
<1> HIDE DEF m
<1>4. Reading(m) \in Int /\ (Reading(m) = Unknown \/ Reading(m) = running[m].cpu)
  BY <1>3, ReadingIsTold
<1>5. second' \in [GroupPids -> Int]
  BY <1>1, <1>4 DEF GroupsInvariant, GroupsTyped
<1>6. TimesTold'
  <2>1. /\ UNCHANGED <<gstep, first, listed, running, timesSpent, moved, sysFirst,
                       sysSecond, systemClock>>
        /\ Listed' = Listed
    BY <1>1 DEF machine, Listed
  <2>2. ASSUME NEW p \in Listed \ moved
        PROVE  /\ running[p].cpu = listed[p].cpu + timesSpent[p]
               /\ first[p] = Unknown \/ first[p] >= listed[p].cpu
               /\ second'[p] = Unknown \/ second'[p] <= running[p].cpu
    <3>1. /\ running[p].cpu = listed[p].cpu + timesSpent[p]
          /\ first[p] = Unknown \/ first[p] >= listed[p].cpu
          /\ second[p] = Unknown \/ second[p] <= running[p].cpu
      BY DEF GroupsInvariant, TimesTold
    <3>2. p \in GroupPids
      BY DEF Listed
    <3>3. second'[p] = IF p = m THEN Reading(m) ELSE second[p]
      BY <1>1, <3>2 DEF GroupsInvariant, GroupsTyped
    <3>4. running[p].cpu \in Nat
      BY <3>2, TimesAreNumbers
    <3>5. CASE p = m
      BY <1>4, <3>1, <3>3, <3>4, <3>5
    <3>6. CASE p # m
      BY <3>1, <3>3, <3>6
    <3> QED
      BY <3>1, <3>5, <3>6
  <2>3. sysFirst <= systemClock /\ (gstep = "second" => sysFirst <= sysSecond)
    BY DEF GroupsInvariant, TimesTold
  <2> QED
    BY <2>1, <2>2, <2>3 DEF TimesTold
<1>7. GroupsTyped /\ toSample' \in SUBSET GroupPids /\ gstep' \in {"first", "sleep", "second"}
  BY <1>1, <1>2 DEF GroupsInvariant
<1> QED
  BY <1>1, <1>5, <1>6, <1>7, SamplingOn DEF GroupsTyped, machine

\* The clock of the system does not go back between its two readings.
LEMMA SystemRead ==
    GroupsInvariant /\ (ReadSystemFirst \/ ReadSystemSecond) => GroupsInvariant'
PROOF
<1> SUFFICES ASSUME GroupsInvariant, ReadSystemFirst \/ ReadSystemSecond
             PROVE  GroupsInvariant'
  OBVIOUS
<1>1. /\ UNCHANGED <<wanted, listed, building, first, second, machine, greply>>
      /\ gstep \in {"first", "sleep"} /\ gstep' \in {"sleep", "second"}
      /\ sysFirst' \in {sysFirst, systemClock} /\ sysSecond' \in {sysSecond, systemClock}
      /\ gstep' = "second" => sysFirst' = sysFirst /\ sysSecond' = systemClock
  BY DEF ReadSystemFirst, ReadSystemSecond
<1>2. toSample' \in SUBSET GroupPids
  <2>1. CASE ReadSystemFirst
    BY <2>1 DEF ReadSystemFirst, GroupsInvariant, GroupsTyped
  <2>2. CASE ReadSystemSecond
    <3>1. KeptWell(greply.groups)
      BY <2>2 DEF ReadSystemSecond, GroupsInvariant, GroupsKept
    <3>2. toSample' = UNION {greply.groups[i].tree : i \in DOMAIN greply.groups}
      BY <2>2 DEF ReadSystemSecond
    <3> DEFINE kept == greply.groups
    <3>3. KeptWell(kept) /\ toSample' = UNION {kept[i].tree : i \in DOMAIN kept}
      BY <3>1, <3>2
    <3> HIDE DEF kept
    <3> QED
      BY <3>3, KeptTrees
  <2> QED
    BY <2>1, <2>2
<1>3. /\ systemClock \in Nat /\ sysFirst \in Nat /\ sysSecond \in Nat
      /\ sysFirst <= systemClock
  BY DEF GroupsInvariant, GroupsTyped, TimesTold
<1>4. TimesTold'
  <2>1. \A p \in Listed \ moved :
          /\ running[p].cpu = listed[p].cpu + timesSpent[p]
          /\ first[p] = Unknown \/ first[p] >= listed[p].cpu
          /\ second[p] = Unknown \/ second[p] <= running[p].cpu
    BY DEF GroupsInvariant, TimesTold
  <2>2. /\ UNCHANGED <<first, second, listed, running, timesSpent, moved, systemClock>>
        /\ Listed' = Listed
    BY <1>1 DEF machine, Listed
  <2>3. sysFirst' <= systemClock' /\ (gstep' = "second" => sysFirst' <= sysSecond')
    BY <1>1, <1>3, <2>2
  <2> QED
    BY <2>1, <2>2, <2>3 DEF TimesTold
<1>5. GroupsTyped
  BY DEF GroupsInvariant
<1>6. sysFirst' \in Nat /\ sysSecond' \in Nat
  BY <1>1, <1>3
<1>7. gstep \in {"first", "sleep", "second"} /\ gstep' \in {"first", "sleep", "second"}
  BY <1>1
<1> QED
  BY <1>1, <1>2, <1>4, <1>5, <1>6, <1>7, SamplingOn DEF GroupsTyped, machine

\* What a group is charged with is no more than its processes used, if they are still
\* the ones that were listed.
LEMMA ChargeIsFair ==
    ASSUME GroupsInvariant, NEW T \in SUBSET Listed
    PROVE  LET charge == SumOf([p \in GroupPids |-> DeltaOf(p)], T)
           IN  charge \in Nat /\ (T \cap moved = {} => charge <= SumOf(timesSpent, T))
PROOF
<1> DEFINE delta == [p \in GroupPids |-> DeltaOf(p)]
<1>1. T \in SUBSET GroupPids /\ IsFiniteSet(T)
  BY ListedAreSome, SomePids
<1>2. \A p \in GroupPids : DeltaOf(p) \in Nat
  <2> SUFFICES ASSUME NEW p \in GroupPids
               PROVE  DeltaOf(p) \in Nat
    OBVIOUS
  <2>1. first[p] \in Int /\ second[p] \in Int
    BY TimesAreNumbers
  <2>2. Minus(second[p], first[p]) \in Nat
    BY <2>1 DEF Minus
  <2> QED
    BY <2>2 DEF DeltaOf
<1>3. \A p \in T : delta[p] = DeltaOf(p) /\ delta[p] \in Nat
  BY <1>1, <1>2
<1>4. \A p \in T : timesSpent[p] \in Nat
  BY <1>1, TimesAreNumbers
<1> HIDE DEF delta
<1>5. SumOf(delta, T) \in Nat
  BY <1>1, <1>3, SumOfIsNumber
<1>6. ASSUME T \cap moved = {}
      PROVE  SumOf(delta, T) <= SumOf(timesSpent, T)
  <2>1. ASSUME NEW p \in T
        PROVE  delta[p] <= timesSpent[p]
    <3>1. p \in Listed \ moved /\ p \in GroupPids
      BY <1>1, <1>6
    <3>2. /\ running[p].cpu = listed[p].cpu + timesSpent[p]
          /\ first[p] = Unknown \/ first[p] >= listed[p].cpu
          /\ second[p] = Unknown \/ second[p] <= running[p].cpu
      BY <3>1 DEF GroupsInvariant, TimesTold
    <3>3. /\ running[p].cpu \in Nat /\ listed[p].cpu \in Nat /\ timesSpent[p] \in Nat
          /\ first[p] \in Int /\ second[p] \in Int
      BY <3>1, TimesAreNumbers
    <3>4. CASE first[p] = Unknown \/ second[p] = Unknown
      <4>1. DeltaOf(p) = 0
        BY <3>4 DEF DeltaOf
      <4> QED
        BY <1>3, <3>3, <4>1
    <3>5. CASE first[p] # Unknown /\ second[p] # Unknown
      <4>1. DeltaOf(p) = Minus(second[p], first[p])
        BY <3>5 DEF DeltaOf
      <4>2. Minus(second[p], first[p]) <= timesSpent[p]
        BY <3>2, <3>3, <3>5 DEF Minus
      <4> QED
        BY <1>3, <4>1, <4>2
    <3> QED
      BY <3>4, <3>5
  <2>2. T \in SUBSET T
    OBVIOUS
  <2> QED
    BY <1>1, <1>3, <1>4, <2>1, <2>2, SumOfGrows
<1> QED
  BY <1>5, <1>6 DEF delta

LEMMA GroupsCharged == GroupsInvariant /\ AnswerGroups => GroupsInvariant'
PROOF
<1> SUFFICES ASSUME GroupsInvariant, AnswerGroups
             PROVE  GroupsInvariant'
  OBVIOUS
<1> DEFINE kept == greply.groups
           charge(i) == IF Minus(sysSecond, sysFirst) = 0 THEN Unknown
                        ELSE SumOf([p \in GroupPids |-> DeltaOf(p)], kept[i].tree)
           charged == [i \in DOMAIN kept |-> [kept[i] EXCEPT !.cpu = charge(i)]]
<1>1. /\ gstep = "second" /\ gstep' = "answered"
      /\ UNCHANGED <<wanted, listed, building, readings, machine>>
  BY DEF AnswerGroups
<1>2. greply = [kind |-> "groups", groups |-> kept] /\ stems = {} /\ KeptWell(kept)
  BY <1>1 DEF GroupsInvariant, GroupsKept
<1>3. greply' = [kind |-> "groups", groups |-> charged]
  <2>1. greply' = [greply EXCEPT !.groups = charged]
    BY DEF AnswerGroups
  <2> HIDE DEF charged
  <2> QED
    BY <1>2, <2>1
<1>4. /\ UNCHANGED <<wanted, listed, stems, seenPids, toWalk, visits, groups, machine>>
      /\ UNCHANGED <<toSample, first, second, sysFirst, sysSecond>> /\ Listed' = Listed
  BY <1>1 DEF building, readings, Listed
<1>5. GroupsTyped'
  BY <1>1, <1>4 DEF GroupsInvariant, GroupsTyped, GroupSteps, machine
<1>6. WalkedDown' /\ GroupsBuilt'
  BY <1>1, <1>4, WalkSteady, BuiltSteady DEF GroupsInvariant
<1>7. TimesTold'
  BY <1>1, <1>4, TimesSteady DEF GroupsInvariant
<1>8. \A i \in DOMAIN kept : charged[i] = [kept[i] EXCEPT !.cpu = charge(i)]
  OBVIOUS
<1>9. DOMAIN charged = DOMAIN kept
  OBVIOUS
<1>10. ASSUME NEW i \in DOMAIN kept
       PROVE  /\ kept[i].stem \in Nat /\ charged[i].stem = kept[i].stem
              /\ charged[i].total = kept[i].total /\ charged[i].tree = kept[i].tree
              /\ charged[i].cpu = charge(i)
              /\ charged[i] = GroupOf(charged[i].stem, charged[i].cpu)
              /\ kept[i].tree \in SUBSET Listed
              /\ \E g \in groups : g.stem = kept[i].stem
  <2> DEFINE s == kept[i].stem
             c == kept[i].cpu
             d == charge(i)
  <2>1. s \in Nat /\ kept[i] = GroupOf(s, c) /\ \E g \in groups : g.stem = s
    BY <1>2 DEF KeptWell
  <2>2. charged[i] = [kept[i] EXCEPT !.cpu = d]
    BY <1>8
  <2> HIDE DEF charged, charge, d, c
  <2>3. charged[i] = GroupOf(s, d)
    <3> HIDE DEF s
    <3> QED
      BY <2>1, <2>2 DEF GroupOf
  <2>4. /\ kept[i].stem = s /\ kept[i].total = MemoryOf(BelowInTree(Members(s)))
        /\ kept[i].tree = BelowInTree(Members(s))
    <3>1. kept[i].stem = s
      OBVIOUS
    <3> HIDE DEF s
    <3> QED
      BY <2>1, <3>1 DEF GroupOf
  <2>5. /\ charged[i].stem = s /\ charged[i].total = MemoryOf(BelowInTree(Members(s)))
        /\ charged[i].tree = BelowInTree(Members(s)) /\ charged[i].cpu = d
    <3> HIDE DEF s
    <3> QED
      BY <2>3 DEF GroupOf
  <2>6. kept[i].tree \in SUBSET Listed
    BY <1>2, KeptTrees
  <2> QED
    BY <2>1, <2>3, <2>4, <2>5, <2>6 DEF d
<1>11. KeptWell(charged)
  <2>1. /\ DOMAIN kept = 1..Len(kept) /\ Len(kept) \in 0..wanted.limit
        /\ \A g \in groups :
             \/ \E i \in DOMAIN kept : kept[i].stem = g.stem
             \/ \A i \in DOMAIN kept : kept[i].total >= g.total
    BY <1>2 DEF KeptWell
  <2> HIDE DEF charge
  <2>2. Len(charged) = Len(kept)
    BY <2>1, wanted.limit \in Nat DEF GroupsInvariant, GroupsTyped
  <2> HIDE DEF charged, kept
  <2>3. DOMAIN charged = 1..Len(charged) /\ Len(charged) \in 0..wanted.limit
    BY <1>9, <2>1, <2>2
  <2>4. \A i \in DOMAIN charged :
          /\ charged[i].stem \in Nat /\ charged[i] = GroupOf(charged[i].stem, charged[i].cpu)
          /\ \E g \in groups : g.stem = charged[i].stem
    BY <1>9, <1>10
  <2>5. \A g \in groups :
          \/ \E i \in DOMAIN charged : charged[i].stem = g.stem
          \/ \A i \in DOMAIN charged : charged[i].total >= g.total
    BY <1>9, <1>10, <2>1
  <2> QED
    BY <2>3, <2>4, <2>5 DEF KeptWell
<1>12. greply'.groups = charged
  BY <1>3
<1>13. GroupsKept'
  <2> HIDE DEF charged
  <2>1. KeptWell(greply.groups)'
    BY <1>4, <1>11, <1>12, TreesSteady DEF KeptWell
  <2> QED
    BY <1>1, <1>2, <1>3, <1>4, <1>12, <2>1 DEF GroupsKept
<1>14. ChargedFairly'
  <2>1. sysFirst \in Nat /\ sysSecond \in Nat /\ sysFirst <= sysSecond
    BY <1>1 DEF GroupsInvariant, GroupsTyped, TimesTold
  <2>2. Minus(sysSecond, sysFirst) = 0 <=> sysSecond = sysFirst
    BY <2>1 DEF Minus
  <2>3. ASSUME NEW i \in DOMAIN kept
        PROVE  /\ charge(i) = Unknown <=> sysSecond = sysFirst
               /\ kept[i].tree \cap moved = {} =>
                    charge(i) <= SumOf(timesSpent, kept[i].tree)
    <3> DEFINE T == kept[i].tree
               sum == SumOf([p \in GroupPids |-> DeltaOf(p)], T)
    <3>1. T \in SUBSET Listed
      BY <1>10
    <3>2. sum \in Nat /\ (T \cap moved = {} => sum <= SumOf(timesSpent, T))
      <4> HIDE DEF T
      <4> QED
        BY <3>1, ChargeIsFair
    <3>3. SumOf(timesSpent, T) \in Nat
      <4>1. T \in SUBSET GroupPids
        BY <3>1, ListedAreSome
      <4>2. IsFiniteSet(T) /\ \A p \in T : timesSpent[p] \in Nat
        <5> HIDE DEF T
        <5> QED
          BY <4>1, SomePids, TimesAreNumbers
      <4> HIDE DEF T
      <4> QED
        BY <4>2, SumOfIsNumber
    <3>4. charge(i) = IF Minus(sysSecond, sysFirst) = 0 THEN Unknown ELSE sum
      OBVIOUS
    <3> HIDE DEF sum, charge
    <3> QED
      BY <2>2, <3>2, <3>3, <3>4 DEF Unknown
  <2> HIDE DEF charged, charge, kept
  <2> SUFFICES ASSUME NEW i \in DOMAIN charged
               PROVE  /\ charged[i].cpu = Unknown <=> sysSecond' = sysFirst'
                      /\ charged[i].tree \cap moved' = {} =>
                           charged[i].cpu <= SumOf(timesSpent', charged[i].tree)
    BY <1>12 DEF ChargedFairly, SumOf
  <2>4. moved' = moved /\ timesSpent' = timesSpent
    BY <1>4 DEF machine
  <2> QED
    BY <1>4, <1>9, <1>10, <2>3, <2>4
<1> QED
  BY <1>1, <1>5, <1>6, <1>7, <1>13, <1>14 DEF GroupsInvariant

\* What a process uses is counted, as long as its PID is its own.
LEMMA ProcessRan == GroupsInvariant /\ Run => GroupsInvariant'
PROOF
<1> SUFFICES ASSUME GroupsInvariant, Run
             PROVE  GroupsInvariant'
  OBVIOUS
<1>1. /\ gstep \in {"first", "sleep", "second"} /\ work < MostWork
      /\ systemClock' = systemClock + 1 /\ work' = work + 1
      /\ UNCHANGED <<gstep, wanted, listed, building, readings, moved, greply>>
  BY DEF Run, Sampling
<1>2. PICK p \in GroupPids :
        /\ running' = [running EXCEPT ![p].cpu = @ + 1]
        /\ timesSpent' = [timesSpent EXCEPT ![p] = @ + 1]
  BY DEF Run
<1>3. /\ GroupsTyped /\ MostWork \in Nat
  BY GroupTablesAssumption DEF GroupsInvariant
<1>4. /\ running' = [running EXCEPT ![p] = [running[p] EXCEPT !.cpu = running[p].cpu + 1]]
      /\ running[p] \in GroupProcess /\ running[p].cpu \in Nat
      /\ timesSpent[p] \in Nat
  <2>1. running[p] \in GroupProcess /\ timesSpent[p] \in Nat
    BY <1>3 DEF GroupsTyped
  <2> QED
    BY <1>2, <2>1 DEF GroupProcess
<1>5. [running[p] EXCEPT !.cpu = running[p].cpu + 1] \in GroupProcess
  BY <1>4 DEF GroupProcess
<1>6. running' \in [GroupPids -> GroupProcess] /\ timesSpent' \in [GroupPids -> Nat]
  BY <1>2, <1>3, <1>4, <1>5 DEF GroupsTyped
<1>7. \A q \in GroupPids :
        /\ running'[q].cpu = IF q = p THEN running[p].cpu + 1 ELSE running[q].cpu
        /\ timesSpent'[q] = IF q = p THEN timesSpent[p] + 1 ELSE timesSpent[q]
  <2>1. \A q \in GroupPids :
          running'[q] = IF q = p THEN [running[p] EXCEPT !.cpu = running[p].cpu + 1]
                        ELSE running[q]
    BY <1>3, <1>4 DEF GroupsTyped
  <2>2. [running[p] EXCEPT !.cpu = running[p].cpu + 1].cpu = running[p].cpu + 1
    BY <1>4 DEF GroupProcess
  <2>3. \A q \in GroupPids :
          timesSpent'[q] = IF q = p THEN timesSpent[p] + 1 ELSE timesSpent[q]
    BY <1>2, <1>3 DEF GroupsTyped
  <2>4. \A q \in GroupPids :
          running'[q].cpu = IF q = p THEN running[p].cpu + 1 ELSE running[q].cpu
    BY <2>1, <2>2
  <2> QED
    BY <2>3, <2>4
<1>8. TimesTold'
  <2>1. /\ UNCHANGED <<first, second, listed, moved, sysFirst, sysSecond>>
        /\ Listed' = Listed
    BY <1>1 DEF readings, Listed
  <2>2. ASSUME NEW q \in Listed \ moved
        PROVE  /\ running'[q].cpu = listed[q].cpu + timesSpent'[q]
               /\ first[q] = Unknown \/ first[q] >= listed[q].cpu
               /\ second[q] = Unknown \/ second[q] <= running'[q].cpu
    <3>1. /\ running[q].cpu = listed[q].cpu + timesSpent[q]
          /\ first[q] = Unknown \/ first[q] >= listed[q].cpu
          /\ second[q] = Unknown \/ second[q] <= running[q].cpu
      BY DEF GroupsInvariant, TimesTold
    <3>2. q \in GroupPids
      BY DEF Listed
    <3>3. /\ running[q].cpu \in Nat /\ listed[q].cpu \in Nat /\ timesSpent[q] \in Nat
          /\ first[q] \in Int /\ second[q] \in Int
      BY <3>2, TimesAreNumbers
    <3>4. CASE q = p
      <4>1. running'[q].cpu = running[q].cpu + 1 /\ timesSpent'[q] = timesSpent[q] + 1
        BY <1>7, <3>2, <3>4
      <4>2. running'[q].cpu = listed[q].cpu + timesSpent'[q]
        BY <3>1, <3>3, <4>1
      <4>3. second[q] = Unknown \/ second[q] <= running'[q].cpu
        BY <3>1, <3>3, <4>1
      <4> QED
        BY <3>1, <4>2, <4>3
    <3>5. CASE q # p
      BY <1>7, <3>1, <3>2, <3>5
    <3> QED
      BY <3>4, <3>5
  <2>3. sysFirst <= systemClock' /\ (gstep = "second" => sysFirst <= sysSecond)
    BY <1>1, <1>3 DEF GroupsInvariant, TimesTold, GroupsTyped
  <2> QED
    BY <1>1, <2>1, <2>2, <2>3 DEF TimesTold
<1>9. systemClock' \in Nat /\ work' \in 0..MostWork
  BY <1>1, <1>3 DEF GroupsTyped
<1>10. /\ toSample' \in SUBSET GroupPids /\ first' \in [GroupPids -> Int]
       /\ second' \in [GroupPids -> Int] /\ sysFirst' \in Nat /\ sysSecond' \in Nat
       /\ moved' \in SUBSET GroupPids
  BY <1>1, <1>3 DEF GroupsTyped, readings
<1>11. /\ gstep' \in {"first", "sleep", "second"}
       /\ UNCHANGED <<wanted, listed, building, greply>>
  BY <1>1
<1> QED
  BY <1>1, <1>6, <1>8, <1>9, <1>10, <1>11, SamplingOn

\* Nothing is said of a PID that changed hands.
LEMMA ProcessReplaced == GroupsInvariant /\ EndOrReplace => GroupsInvariant'
PROOF
<1> SUFFICES ASSUME GroupsInvariant, EndOrReplace
             PROVE  GroupsInvariant'
  OBVIOUS
<1>1. /\ gstep \in {"first", "sleep", "second"} /\ work < MostWork
      /\ systemClock' = systemClock + 1 /\ work' = work + 1
      /\ UNCHANGED <<gstep, wanted, listed, building, readings, timesSpent, greply>>
  BY DEF EndOrReplace, Sampling
<1>2. PICK p \in GroupPids : \E cpu \in {0, 3} :
        /\ \E next \in {NoProcess, [running[p] EXCEPT !.cpu = cpu, !.came = @ + 1,
                                                     !.opens = TRUE]} :
             running' = [running EXCEPT ![p] = next]
        /\ moved' = moved \cup {p}
  BY DEF EndOrReplace
<1>3. /\ GroupsTyped /\ MostWork \in Nat
  BY GroupTablesAssumption DEF GroupsInvariant
<1>4. \E q \in GroupProcess : running' = [running EXCEPT ![p] = q]
  <2>1. NoProcess \in GroupProcess
    BY DEF NoProcess, GroupProcess
  <2>2. ASSUME NEW o \in GroupProcess, NEW c \in Nat
        PROVE  [o EXCEPT !.cpu = c, !.came = @ + 1, !.opens = TRUE] \in GroupProcess
    <3> DEFINE came == o.came + 1
               ran == [o EXCEPT !.cpu = c]
               began == [ran EXCEPT !.came = came]
    <3>1. came \in Nat
      BY DEF GroupProcess
    <3>2. ran \in GroupProcess
      BY DEF GroupProcess
    <3> HIDE DEF came, ran
    <3>3. began \in GroupProcess
      BY <3>1, <3>2 DEF GroupProcess
    <3> HIDE DEF began
    <3>4. [began EXCEPT !.opens = TRUE] \in GroupProcess
      BY <3>3 DEF GroupProcess
    <3> QED
      BY <3>4, Zenon DEF began, ran, came
  <2>3. PICK cpu \in {0, 3} :
          \E next \in {NoProcess, [running[p] EXCEPT !.cpu = cpu, !.came = @ + 1,
                                                    !.opens = TRUE]} :
            running' = [running EXCEPT ![p] = next]
    BY <1>2
  <2>4. running[p] \in GroupProcess /\ cpu \in Nat
    BY <1>3 DEF GroupsTyped
  <2> DEFINE another == [running[p] EXCEPT !.cpu = cpu, !.came = @ + 1, !.opens = TRUE]
  <2>5. another \in GroupProcess
    BY <2>2, <2>4
  <2>6. \E next \in {NoProcess, another} : running' = [running EXCEPT ![p] = next]
    BY <2>3
  <2> HIDE DEF another
  <2> QED
    BY <2>1, <2>5, <2>6
<1>5. PICK q \in GroupProcess : running' = [running EXCEPT ![p] = q]
  BY <1>4
<1>6. /\ running' \in [GroupPids -> GroupProcess] /\ moved' \in SUBSET GroupPids
      /\ \A r \in GroupPids : r # p => running'[r] = running[r]
      /\ moved' = moved \cup {p}
  BY <1>2, <1>3, <1>5 DEF GroupsTyped
<1>7. TimesTold'
  <2>1. /\ UNCHANGED <<first, second, listed, timesSpent, sysFirst, sysSecond>>
        /\ Listed' = Listed
    BY <1>1 DEF readings, Listed
  <2>2. ASSUME NEW r \in Listed \ moved'
        PROVE  /\ running'[r].cpu = listed[r].cpu + timesSpent[r]
               /\ first[r] = Unknown \/ first[r] >= listed[r].cpu
               /\ second[r] = Unknown \/ second[r] <= running'[r].cpu
    <3>1. r \in Listed \ moved /\ r # p /\ r \in GroupPids
      BY <1>6 DEF Listed
    <3>2. running'[r] = running[r]
      BY <1>6, <3>1
    <3> QED
      BY <3>1, <3>2 DEF GroupsInvariant, TimesTold
  <2>3. sysFirst <= systemClock' /\ (gstep = "second" => sysFirst <= sysSecond)
    BY <1>1, <1>3 DEF GroupsInvariant, TimesTold, GroupsTyped
  <2> QED
    BY <1>1, <2>1, <2>2, <2>3 DEF TimesTold
<1>8. systemClock' \in Nat /\ work' \in 0..MostWork
  BY <1>1, <1>3 DEF GroupsTyped
<1>9. /\ toSample' \in SUBSET GroupPids /\ first' \in [GroupPids -> Int]
      /\ second' \in [GroupPids -> Int] /\ sysFirst' \in Nat /\ sysSecond' \in Nat
      /\ timesSpent' \in [GroupPids -> Nat]
  BY <1>1, <1>3 DEF GroupsTyped, readings
<1>10. /\ gstep' \in {"first", "sleep", "second"}
       /\ UNCHANGED <<wanted, listed, building, greply>>
  BY <1>1
<1> QED
  BY <1>1, <1>6, <1>7, <1>8, <1>9, <1>10, SamplingOn

LEMMA GroupsStep == GroupsInvariant /\ [GroupsNext]_groupVars => GroupsInvariant'
PROOF
<1> SUFFICES ASSUME GroupsInvariant, [GroupsNext]_groupVars
             PROVE  GroupsInvariant'
  OBVIOUS
<1>1. CASE EndGroups
  <2>1. GroupsIdle'
    BY <1>1 DEF EndGroups, GroupsIdle, Nobody, Unread, NoGroups
  <2>2. (GroupsIdle => GroupsInvariant)'
    BY GroupsStart, PTL
  <2> QED
    BY <2>1, <2>2
<1>2. CASE UNCHANGED groupVars
  <2>1. /\ UNCHANGED <<gstep, wanted, listed, stems, seenPids, toWalk, visits, groups>>
        /\ UNCHANGED <<machine, first, second, sysFirst, sysSecond, toSample, greply>>
        /\ Listed' = Listed
    BY <1>2 DEF groupVars, machine, Listed
  <2>2. GroupsTyped'
    BY <2>1 DEF GroupsInvariant, GroupsTyped, machine
  <2>3. WalkedDown' /\ GroupsBuilt' /\ GroupsKept' /\ TimesTold'
    BY <2>1, WalkSteady, BuiltSteady, KeptSteady, TimesSteady DEF GroupsInvariant
  <2>4. (gstep = "idle" => GroupsIdle)' /\ ChargedFairly'
    <3>1. UNCHANGED <<gstep, wanted, running, listed, stems, seenPids, toWalk, visits, groups,
                      toSample, first, second, systemClock, sysFirst, sysSecond, work,
                      timesSpent, moved, greply>>
      BY <1>2 DEF groupVars
    <3>2. (gstep = "idle" => GroupsIdle)'
      BY <3>1 DEF GroupsInvariant, GroupsIdle
    <3>3. ChargedFairly'
      BY <3>1 DEF GroupsInvariant, ChargedFairly, SumOf
    <3> QED
      BY <3>2, <3>3
  <2> QED
    BY <2>2, <2>3, <2>4 DEF GroupsInvariant
<1> QED
  BY <1>1, <1>2, GroupsAsked, GroupBegun, GroupWalked, GroupClosed, GroupsLimited, FirstRead,
     SecondRead, SystemRead, GroupsCharged, ProcessRan, ProcessReplaced DEF GroupsNext

LEMMA GroupsHold == GroupsInvariant => GroupsSound
PROOF
<1> SUFFICES ASSUME GroupsInvariant
             PROVE  GroupsSound
  OBVIOUS
<1>1. GroupsTypeOK
  <2>1. seenPids \in SUBSET GroupPids /\ toWalk \in Seq(seenPids)
    BY ListedAreSome DEF GroupsInvariant, GroupsTyped
  <2>2. Range(toWalk) \subseteq seenPids
    BY <2>1 DEF Range
  <2> QED
    BY <2>1, <2>2 DEF GroupsInvariant, GroupsTyped, GroupsTypeOK
<1>2. visits <= Cardinality(seenPids)
  <2>1. seenPids \in SUBSET GroupPids /\ toWalk \in Seq(seenPids) /\ visits \in Nat
    BY ListedAreSome DEF GroupsInvariant, GroupsTyped
  <2>2. Len(toWalk) \in Nat
    BY <2>1
  <2>3. Cardinality(seenPids) \in Nat
    BY <2>1, SomePids
  <2> QED
    BY <2>1, <2>2, <2>3 DEF GroupsInvariant, WalkedDown
<1>3. ASSUME greply.kind = "groups"
      PROVE  /\ Len(greply.groups) <= wanted.limit
             /\ \A p \in Listed : \E g \in groups : p \in g.members
             /\ \A i \in DOMAIN greply.groups :
                  LET g == greply.groups[i]
                  IN  /\ g.members \subseteq g.tree /\ g.own <= g.total
                      /\ g.tree = BelowInTree(g.members)
                      /\ g.total = MemoryOf(g.tree)
             /\ \A g \in groups :
                  \/ \E i \in DOMAIN greply.groups : greply.groups[i].stem = g.stem
                  \/ \A i \in DOMAIN greply.groups : greply.groups[i].total >= g.total
  <2>1. stems = {} /\ KeptWell(greply.groups)
    BY <1>3 DEF GroupsInvariant, GroupsKept, GroupsTyped, GroupSteps, NoGroups
  <2>2. ASSUME NEW g, g = GroupOf(g.stem, g.cpu)
        PROVE  /\ g.members = Members(g.stem) /\ g.members \subseteq g.tree
               /\ g.own <= g.total /\ g.tree = BelowInTree(g.members)
               /\ g.total = MemoryOf(g.tree)
    <3> DEFINE s == g.stem
               c == g.cpu
    <3>1. g = GroupOf(s, c)
      BY <2>2
    <3> HIDE DEF s, c
    <3>2. /\ g.members = Members(s) /\ g.tree = BelowInTree(Members(s))
          /\ g.own = MemoryOf(Members(s)) /\ g.total = MemoryOf(BelowInTree(Members(s)))
      BY <3>1 DEF GroupOf
    <3>3. Members(s) \in SUBSET BelowInTree(Members(s))
          /\ BelowInTree(Members(s)) \in SUBSET Listed
      BY MembersAreListed, TreeOfMembers
    <3>4. MemoryOf(Members(s)) <= MemoryOf(BelowInTree(Members(s)))
      BY <3>3, MemoryGrows DEF GroupsInvariant
    <3> QED
      BY <3>2, <3>3, <3>4 DEF s
  <2>3. ASSUME NEW p \in Listed
        PROVE  \E g \in groups : p \in g.members
    <3>1. PICK g \in groups : g.stem = listed[p].stem
      BY <2>1 DEF GroupsInvariant, GroupsBuilt
    <3>2. g = GroupOf(g.stem, Unknown)
      BY DEF GroupsInvariant, GroupsBuilt
    <3>3. g.members = Members(listed[p].stem)
      <4> DEFINE s == listed[p].stem
      <4>1. g = GroupOf(s, Unknown)
        BY <3>1, <3>2
      <4> HIDE DEF s
      <4>2. g.members = Members(s)
        BY <4>1 DEF GroupOf
      <4> QED
        BY <4>2 DEF s
    <3> QED
      BY <3>3 DEF Members
  <2>4. ASSUME NEW i \in DOMAIN greply.groups
        PROVE  LET g == greply.groups[i]
               IN  /\ g.members \subseteq g.tree /\ g.own <= g.total
                   /\ g.tree = BelowInTree(g.members)
                   /\ g.total = MemoryOf(g.tree)
    <3> DEFINE g == greply.groups[i]
    <3>1. g = GroupOf(g.stem, g.cpu)
      BY <2>1 DEF KeptWell
    <3> HIDE DEF g
    <3>2. /\ g.members \subseteq g.tree /\ g.own <= g.total
          /\ g.tree = BelowInTree(g.members) /\ g.total = MemoryOf(g.tree)
      BY <2>2, <3>1
    <3> QED
      BY <3>2 DEF g
  <2>5. Len(greply.groups) <= wanted.limit
    BY <2>1 DEF KeptWell, GroupsInvariant, GroupsTyped
  <2> QED
    BY <2>1, <2>3, <2>4, <2>5 DEF KeptWell
<1> QED
  BY <1>1, <1>2, <1>3 DEF GroupsInvariant, GroupsSound, TreesClosed

\* Whatever processes there are, whoever their parents, and whatever they do between the
\* two samples, the groups of applications that are answered are complete trees counted
\* once, the limit cuts only the smaller ones, and a group is charged with no more than
\* its processes used unless a PID changed hands (`application_groups`).
THEOREM GroupsAreSound == GroupsSpec => []GroupsSound
PROOF
<1>1. GroupsSpec => []GroupsInvariant
  BY GroupsStart, GroupsStep, PTL DEF GroupsSpec
<1> QED
  BY <1>1, GroupsHold, PTL

-----------------------------------------------------------------------------
(* The components among one another.                                        *)

\* What a component starts with, in every composition of the calls.
LEMMA ComponentsStartIdle ==
    Init => /\ ProbeIdle /\ TrendIdle /\ VersionIdle
            /\ NetworkIdle /\ ArgumentsIdle /\ DevicesIdle /\ TablesIdle /\ ConfigIdle
            /\ EventsIdle /\ ProcessesIdle /\ DiagnosisIdle /\ GroupsIdle
            /\ ReportIdle /\ FilesIdle
  BY DEF Init, WebIdle, SampledIdle, HostIdle, ListIdle, MachineIdle

\* A call of one tool leaves the HTTP probe as it was, or is a step of it.
LEMMA ProbeStep == [Next]_toolVars => [ProbeNext]_probeVars
  BY DEF Next, toolVars, WebNext, SampledNext, HostNext, ListNext, MachineNext, webVars

LEMMA TrendStep == [Next]_toolVars => [TrendNext]_trendVars
  BY DEF Next, toolVars, WebNext, SampledNext, HostNext, ListNext, MachineNext, sampledVars

LEMMA VersionProbeStep == [Next]_toolVars => [VersionNext]_versionVars
  BY DEF Next, toolVars, WebNext, SampledNext, HostNext, ListNext, MachineNext, hostVars

LEMMA NetworkStep == [Next]_toolVars => [NetworkNext]_netVars
  BY DEF Next, toolVars, WebNext, SampledNext, HostNext, ListNext, MachineNext, machineVars

LEMMA ArgumentsStep == [Next]_toolVars => [ArgumentsNext]_argumentVars
  BY DEF Next, toolVars, WebNext, SampledNext, HostNext, ListNext, MachineNext, listVars

LEMMA TablesStepAmongAll == [Next]_toolVars => [TablesNext]_tableVars
  BY DEF Next, toolVars, WebNext, SampledNext, HostNext, ListNext, MachineNext, listVars

LEMMA DevicesStep == [Next]_toolVars => [DevicesNext]_deviceVars
  BY DEF Next, toolVars, WebNext, SampledNext, HostNext, ListNext, MachineNext, machineVars

LEMMA ConfigurationStep == [Next]_toolVars => [ConfigNext]_cfgVars
  BY DEF Next, toolVars, WebNext, SampledNext, HostNext, ListNext, MachineNext, machineVars

LEMMA EventsStep == [Next]_toolVars => [EventsNext]_eventVars
  BY DEF Next, toolVars, WebNext, SampledNext, HostNext, ListNext, MachineNext, hostVars

LEMMA ProcessesStepAmongAll == [Next]_toolVars => [ProcessesNext]_processVars
  BY DEF Next, toolVars, WebNext, SampledNext, HostNext, ListNext, MachineNext, listVars

LEMMA DiagnosisStepAmongAll == [Next]_toolVars => [DiagnosisNext]_diagnosisVars
  BY DEF Next, toolVars, WebNext, SampledNext, HostNext, ListNext, MachineNext, sampledVars

LEMMA GroupsStepAmongAll == [Next]_toolVars => [GroupsNext]_groupVars
  BY DEF Next, toolVars, WebNext, SampledNext, HostNext, ListNext, MachineNext, sampledVars

LEMMA FilesStepAmongAll == [Next]_toolVars => [FilesNext]_fileVars
  BY DEF Next, toolVars, WebNext, SampledNext, HostNext, ListNext, MachineNext, hostVars

LEMMA ReportsStepAmongAll == [Next]_toolVars => [ReportNext]_reportVars
  BY DEF Next, toolVars, WebNext, SampledNext, HostNext, ListNext, MachineNext, webVars

\* Among all the tools, no HTTP probe is sent to a URL the policy refuses: not the one it
\* was called with, not one a redirect names, and not more of them than the policy
\* allows (`probe_url`).
THEOREM ToolsProbeWithinPolicy == Spec => []ProbeWithinPolicy
  BY ComponentsStartIdle, ProbeStep, ProbeStaysWithinPolicy, PTL DEF Spec, ProbeSpec

\* Among all the tools, a trend says what its samples say, and samples it never took are
\* told (`watch_trend`).
THEOREM ToolsTrendIsHonest == Spec => []TrendHonest
  BY ComponentsStartIdle, TrendStep, TrendIsHonest, PTL DEF Spec, TrendSpec

\* Among all the tools, a version is told of the file a shell would run and of what it
\* wrote, within the waits of a probe (`dev_environment`).
THEOREM ToolsVersionIsSound == Spec => []VersionSound
  BY ComponentsStartIdle, VersionProbeStep, VersionIsSound, PTL DEF Spec, VersionSpec

\* Among all the tools, a diagnosis of the network weighs the resolver against the echoes
\* and ends within its budget (`network_diagnose`).
THEOREM ToolsNetworkIsSound == Spec => []NetworkSound
  BY ComponentsStartIdle, NetworkStep, NetworkIsSound, PTL DEF Spec, NetworkSpec

\* Among all the tools, a call does with its arguments what its schema says, or is
\* refused (`registry::validate`, the tools' readers of arguments).
THEOREM ToolsArgumentsAreSound == Spec => []ArgumentsSound
  BY ComponentsStartIdle, ArgumentsStep, ArgumentsAreSound, PTL DEF Spec, ArgumentsSpec

\* Among all the tools, what is said of disks and of the battery is what was read of
\* them (`disk_health`, `battery_health`, `power_status`).
THEOREM ToolsDevicesAreSound == Spec => []DevicesSound
  BY ComponentsStartIdle, DevicesStep, DevicesAreSound, PTL DEF Spec, DevicesSpec

\* Among all the tools, what is told of connections, listeners, adapters and services
\* was so while the tool looked, and a wait completes only with what was asked for
\* (`list_listening_ports`, `get_service`, the wait_for handlers).
THEOREM ToolsTablesAreSound == Spec => []TablesSound
  BY ComponentsStartIdle, TablesStepAmongAll, TablesAreSound, PTL DEF Spec, TablesSpec

\* Among the tools' calls, a command on the configuration keeps the user's text, writes
\* what it announced and nothing else, and doctor, the summary and the server agree on
\* what the file means (`configure_run`, `write_config_file`, `doctor_run`).
THEOREM ToolsConfigurationIsSound == Spec => []ConfigurationSound
  BY ComponentsStartIdle, ConfigurationStep, ConfigurationIsSound, PTL DEF Spec, ConfigSpec

\* Among all the tools, an answer about events is what the logs hold, up to the limits it
\* admits, and the last shutdown it names is the newest before the boot
\* (`get_recent_events`, `crash_history_handler`, `last_shutdown_kind`).
THEOREM ToolsHistoryIsSound == Spec => []HistorySound
  BY ComponentsStartIdle, EventsStep, HistoryIsSound, PTL DEF Spec, EventsSpec

\* Among all the tools, a process listing leaves out only what it says it cuts and never
\* the heaviest, the figures of a process are one process's, and a tree has every
\* descendant it has nodes for (`list_processes`, `get_process`, `process_tree`).
THEOREM ToolsProcessesAreSound == Spec => []ProcessesSound
  BY ComponentsStartIdle, ProcessesStepAmongAll, ProcessesAreSound, PTL DEF Spec, ProcessesSpec

\* Among all the tools, a diagnosis of the machine rests on what was read of it alone, and
\* agrees with the health report on what both judge (`analyze_system`,
\* `build_health_report`).
THEOREM ToolsDiagnosisIsSound == Spec => []DiagnosisSound
  BY ComponentsStartIdle, DiagnosisStepAmongAll, DiagnosisIsSound, PTL DEF Spec, DiagnosisSpec

\* Among all the tools, an application is answered with its whole tree, counted once, and
\* charged with what its processes used (`application_groups`).
THEOREM ToolsGroupsAreSound == Spec => []GroupsSound
  BY ComponentsStartIdle, GroupsStepAmongAll, GroupsAreSound, PTL DEF Spec, GroupsSpec

\* Among all the tools, a report says no better than what its reads allow, cites what it
\* holds, keeps the worst of its findings and names an unreachable port once
\* (`diagnose_workspace_handler`, `diagnose_local_webapp_handler`,
\* `correlate_recent_failures_handler`).
THEOREM ToolsReportsAreSound == Spec => []ReportSound
  BY ComponentsStartIdle, ReportsStepAmongAll, ReportsAreSound, PTL DEF Spec, ReportsSpec

\* Among all the tools, what a file tool reads lies inside the root it was given, and what
\* its budget makes it leave out is said in its answer (`walk_files`,
\* `directory_overview`, `scan_workspace`, `read_text_slice`).
THEOREM ToolsFilesAreSound == Spec => []FilesSound
  BY ComponentsStartIdle, FilesStepAmongAll, FilesAreSound, PTL DEF Spec, FilesSpec

=============================================================================
