---------------------------- MODULE BoundedFiles ----------------------------
(***************************************************************************)
(* The tools that read the file system: find_files, directory_overview,    *)
(* read_text_file, and the workspace scan behind the workspace tools.      *)
(* Each resolves its path against the configured roots and then walks with *)
(* a budget, never through a link, and says in its answer what the budget  *)
(* made it leave out.                                                      *)
(*                                                                         *)
(* The tree is a constant.  Contents, sizes of entries, time stamps and    *)
(* the parsing of manifests are left out; a file that is read has a length *)
(* and line ends, and it may grow or shrink while it is read.              *)
(***************************************************************************)
EXTENDS Naturals, Sequences, FiniteSets, Functions

CONSTANTS
    Tree,              \* Tree[n]: what node n of the file system is
    DriveRoot,         \* the node that is the root of the drive
    FileCalls,         \* the calls that are made
    MaxDirWalkEntries, \* MAX_DIR_WALK_ENTRIES
    LeastShare,        \* the 2 000 entries that every child has at least
    MaxExcluded,       \* MAX_EXCLUDED_REPORTED
    MaxLength          \* bound: the length of a file while it is read

Node == DOMAIN Tree

\* Directories that are read, that cannot be, and that are in SKIP_DIRS, of which
\* .git and .hg are two; an entry whose metadata cannot be read; a link; files by what
\* becomes of them.
NodeKind ==
    {"dir", "unreadable", "output", "git", "hg", "gone", "link", "file", "binary",
     "secret", "manifest"}

Kind(n) == Tree[n].kind
Kids(n) == Range(Tree[n].kids)

\* is_dir of an entry, which is not followed when it is a link.
Skipped(n) == Kind(n) \in {"output", "git", "hg"}
Readable(n) == Kind(n) = "dir" \/ Skipped(n)
IsDir(n) == Readable(n) \/ Kind(n) = "unreadable"
IsFile(n) == Kind(n) \in {"file", "binary", "secret", "manifest"}

\* The kids of a directory are in the order of their names, and a level below it:
\* one more name in their paths.  Nothing but a directory has kids, nothing is in two
\* directories, and no name has a star in it.  A link resolves to its target.
ASSUME TreeAssumption ==
    /\ \A n \in Node :
          /\ Tree[n].kind \in NodeKind
          /\ Tree[n].kids \in Seq(Node)
          /\ Tree[n].level \in 0..Cardinality(Node)
          /\ Tree[n].name \in Seq(Range(Tree[n].name) \ {"*"})
          /\ Tree[n].kind = "link" => Tree[n].target \in Node
          /\ IsFile(n) => Tree[n].length \in Nat /\ Tree[n].ends \subseteq Nat
          /\ Kids(n) # {} => IsDir(n)
          /\ \A k \in Kids(n) :
                /\ Tree[k].level = Tree[n].level + 1
                /\ \A m \in Node : k \in Kids(m) => m = n
    /\ DriveRoot \in Node /\ IsFiniteSet(Node)
ASSUME FileCallsAssumption ==
    \A c \in FileCalls :
       /\ c.tool \in {"find_files", "directory_overview", "workspace_scan",
                      "read_text_file"}
       /\ c.depth \in Nat /\ c.limit \in Nat \ {0}
       /\ c.pattern \in Seq(Range(c.pattern))
ASSUME BudgetsAssumption ==
    /\ MaxDirWalkEntries \in Nat \ {0} /\ LeastShare \in Nat \ {0}
    /\ MaxExcluded \in Nat /\ MaxLength \in Nat

\* n and what is below it.
Under[n \in Node] == {n} \cup UNION {Under[k] : k \in Kids(n)}

VARIABLES
    fcall,    \* the call that is served
    fstep,    \* the next step of its handler
    pending,  \* the nodes to visit, with their depth, the next one first
    left,     \* the entries still to look at: of the directory that is scanned,
              \* or of the one that is overviewed
    depth,    \* the depth of the directory that is scanned
    subdir,   \* the child that is measured
    used,     \* entries used: of the scan, of the child that is measured
    spentAll, \* entries used by all children measured so far
    share,    \* per_child_budget
    got,      \* the nodes collected, measured, or looked at
    entered,  \* history: the directories that were read
    opened,   \* history: the files that were opened
    cut,      \* what was not looked at: of a walk the unreadable directories, of
              \* an overview the children measured in part, of a scan its root
    freply    \* what the caller gets

fileVars ==
    <<fcall, fstep, pending, left, depth, subdir, used, spentAll, share, got,
      entered, opened, cut, freply>>

NoFileCall ==
    [tool |-> "none", path |-> "empty", allow |-> {}, deny |-> {},
     depth |-> 0, limit |-> 1, pattern |-> <<>>, mode |-> "head",
     manifests |-> FALSE, git |-> FALSE]
NoReply == [kind |-> "none"]

FilesIdle ==
    /\ fcall = NoFileCall
    /\ fstep = "idle"
    /\ pending = <<>>
    /\ left = {}
    /\ depth = 0
    /\ subdir = DriveRoot
    /\ used = 0
    /\ spentAll = 0
    /\ share = 0
    /\ got = {}
    /\ entered = {}
    /\ opened = {}
    /\ cut = {}
    /\ freply = NoReply

-----------------------------------------------------------------------------
(* Paths *)

\* canonicalize: the node a path resolves to, if it is absolute and exists.
Resolved(path) ==
    IF path \notin Node THEN {}
    ELSE IF Kind(path) = "link" THEN {Tree[path].target}
    ELSE IF Kind(path) = "gone" THEN {}
    ELSE {path}

Within(n, roots) == \E r \in roots : \E c \in Resolved(r) : n \in Under[c]

AllowedBy(n, c) ==
    /\ c.allow # {} => Within(n, c.allow)
    /\ ~Within(n, c.deny)

\* canonicalize_workspace refuses everything in the same way.
WorkspaceRoot(c) ==
    {n \in Resolved(c.path) :
        /\ IsDir(n)
        /\ n = DriveRoot => \E r \in c.allow : n \in Resolved(r)
        /\ AllowedBy(n, c)}

\* canonicalize_file tells a missing file and a directory from a refused path.
FileError(c) ==
    IF c.path \in {"empty", "relative"} THEN "path_rejected"
    ELSE IF Resolved(c.path) = {} THEN "not_found"
    ELSE IF \A n \in Resolved(c.path) : ~IsFile(n) THEN "invalid_argument"
    ELSE IF \A n \in Resolved(c.path) : ~AllowedBy(n, c) THEN "path_rejected"
    ELSE "none"

\* Where the loop of wildcard_match can be: before name[ni] and pattern[pi], with the
\* last star at pattern[star] (0: none) covering name[..mark - 1].
GlobPlaces(name, pattern) ==
    {at \in [ni : 1..(Len(name) + 1), pi : 1..(Len(pattern) + 1),
            star : 0..Len(pattern), mark : 1..(Len(name) + 1)] :
        at.star < at.pi /\ at.mark <= at.ni}

\* One turn of it, unless it gives up.
GlobTurns(name, pattern, at) ==
    IF at.pi <= Len(pattern) /\ pattern[at.pi] \in {"?", name[at.ni]}
    THEN {[ni |-> at.ni + 1, pi |-> at.pi + 1, star |-> at.star, mark |-> at.mark]}
    ELSE IF at.pi <= Len(pattern) /\ pattern[at.pi] = "*"
    THEN {[ni |-> at.ni, pi |-> at.pi + 1, star |-> at.pi, mark |-> at.ni]}
    ELSE IF at.star # 0
    THEN {[ni |-> at.mark + 1, pi |-> at.star + 1, star |-> at.star, mark |-> at.mark + 1]}
    ELSE {}

\* What the loop returns from each place.
GlobLoop(name, pattern) ==
    LET go[at \in GlobPlaces(name, pattern)] ==
          IF at.ni > Len(name) THEN \A i \in at.pi..Len(pattern) : pattern[i] = "*"
          ELSE \E next \in GlobTurns(name, pattern, at) : go[next]
    IN  go

WildcardMatch(name, pattern) ==
    GlobLoop(name, pattern)[[ni |-> 1, pi |-> 1, star |-> 0, mark |-> 1]]

-----------------------------------------------------------------------------
(* Calls *)

AcceptFileCall ==
    /\ fstep = "idle"
    /\ fcall' \in FileCalls
    /\ fstep' = "resolve"
    /\ UNCHANGED <<pending, left, depth, subdir, used, spentAll, share, got, entered,
                   opened, cut, freply>>

FileReplied ==
    /\ fstep = "answered"
    /\ fcall' = NoFileCall
    /\ fstep' = "idle"
    /\ pending' = <<>>
    /\ left' = {}
    /\ depth' = 0
    /\ subdir' = DriveRoot
    /\ used' = 0
    /\ spentAll' = 0
    /\ share' = 0
    /\ got' = {}
    /\ entered' = {}
    /\ opened' = {}
    /\ cut' = {}
    /\ freply' = NoReply

Replies(reply) == fstep' = "answered" /\ freply' = reply

RefuseFileCall ==
    /\ fstep = "resolve"
    /\ \/ /\ fcall.tool = "read_text_file"
          /\ FileError(fcall) # "none"
          /\ Replies([kind |-> "error", error |-> FileError(fcall)])
       \/ /\ fcall.tool # "read_text_file"
          /\ WorkspaceRoot(fcall) = {}
          /\ Replies([kind |-> "error", error |-> "path_rejected"])
    /\ UNCHANGED <<fcall, pending, left, depth, subdir, used, spentAll, share, got,
                   entered, opened, cut>>

Visit(n, d) == [node |-> n, depth |-> d]

\* The visits of the kids of n, in their order.
Visits(n, d) == [i \in DOMAIN Tree[n].kids |-> Visit(Tree[n].kids[i], d)]

\* The root of a walk or of a scan is the first to be visited.
StartWalk ==
    /\ fstep = "resolve"
    /\ fcall.tool \in {"find_files", "workspace_scan"}
    /\ \E n \in WorkspaceRoot(fcall) : pending' = <<Visit(n, 0)>>
    /\ fstep' = IF fcall.tool = "find_files" THEN "walk" ELSE "pop"
    /\ UNCHANGED <<fcall, left, depth, subdir, used, spentAll, share, got, entered,
                   opened, cut, freply>>

-----------------------------------------------------------------------------
(* walk_files: one entry of the sorted walk at a time.  The results go up to   *)
(* the limit; at the limit the walk stops, also when nothing is left of it.    *)

FilesFound(truncated) ==
    Replies([kind |-> "files", files |-> got', truncated |-> truncated,
             unreadable |-> cut'])

WalkEntry ==
    /\ fstep = "walk"
    /\ pending # <<>>
    /\ UNCHANGED <<fcall, left, depth, subdir, used, spentAll, share, opened>>
    /\ LET v == Head(pending)
           collected == ~IsDir(v.node) /\ Kind(v.node) # "gone"
                          /\ WildcardMatch(Tree[v.node].name, fcall.pattern)
       IN  \/ /\ IsDir(v.node) /\ v.depth > fcall.depth
              /\ pending' = Tail(pending)
              /\ UNCHANGED <<fstep, got, entered, cut, freply>>
           \/ /\ Kind(v.node) = "unreadable" /\ v.depth <= fcall.depth
              /\ pending' = Tail(pending)
              /\ cut' = cut \cup {v.node}
              /\ UNCHANGED <<fstep, got, entered, freply>>
           \/ /\ Readable(v.node) /\ v.depth <= fcall.depth
              /\ pending' = Visits(v.node, v.depth + 1) \o Tail(pending)
              /\ entered' = entered \cup {v.node}
              /\ UNCHANGED <<fstep, got, cut, freply>>
           \/ /\ ~IsDir(v.node) /\ ~collected
              /\ pending' = Tail(pending)
              /\ UNCHANGED <<fstep, got, entered, cut, freply>>
           \/ /\ collected
              /\ pending' = Tail(pending)
              /\ got' = got \cup {v.node}
              /\ UNCHANGED <<entered, cut>>
              /\ IF Cardinality(got') >= fcall.limit
                 THEN FilesFound(TRUE)
                 ELSE UNCHANGED <<fstep, freply>>

WalkDone ==
    /\ fstep = "walk"
    /\ pending = <<>>
    /\ UNCHANGED <<got, cut>>
    /\ FilesFound(FALSE)
    /\ UNCHANGED <<fcall, pending, left, depth, subdir, used, spentAll, share,
                   entered, opened>>

-----------------------------------------------------------------------------
(* directory_overview *)

\* The entries whose metadata can be read.  A directory that cannot be read has
\* none.
StartOverview ==
    /\ fstep = "resolve"
    /\ fcall.tool = "directory_overview"
    /\ \E n \in WorkspaceRoot(fcall) :
          /\ left' = IF Readable(n) THEN {k \in Kids(n) : Kind(k) # "gone"}
                     ELSE {}
          /\ entered' = {m \in {n} : Readable(m)}
    /\ share' = LET each == MaxDirWalkEntries \div
                              (IF left' = {} THEN 1 ELSE Cardinality(left'))
                IN  IF each > LeastShare THEN each ELSE LeastShare
    /\ fstep' = "child"
    /\ UNCHANGED <<fcall, pending, depth, subdir, used, spentAll, got, opened, cut,
                   freply>>

\* What a child may use: the share, less what all children before it used.
ChildBudget == IF spentAll < share THEN share - spentAll ELSE 0

\* The next entry, in the order in which the directory is read.
NextChild ==
    /\ fstep = "child"
    /\ \E k \in left :
          /\ left' = left \ {k}
          /\ IF IsDir(k)
             THEN /\ pending' = <<Visit(k, 0)>>
                  /\ subdir' = k
                  /\ fstep' = "measure"
                  /\ UNCHANGED got
             ELSE /\ got' = got \cup {k}
                  /\ UNCHANGED <<pending, subdir, fstep>>
    /\ UNCHANGED <<fcall, depth, used, spentAll, share, entered, opened, cut,
                   freply>>

\* measure_tree, one entry at a time.
MeasureEntry ==
    /\ fstep = "measure"
    /\ pending # <<>>
    /\ used < ChildBudget
    /\ LET n == Head(pending).node
       IN  \/ /\ Readable(n)
              /\ pending' = Visits(n, 0) \o Tail(pending)
              /\ entered' = entered \cup {n}
              /\ used' = used + 1
              /\ got' = got \cup {n}
              /\ UNCHANGED cut
           \/ /\ Kind(n) = "unreadable"
              /\ cut' = cut \cup {subdir}
              /\ pending' = Tail(pending)
              /\ UNCHANGED <<entered, used, got>>
           \/ /\ Kind(n) = "gone"
              /\ pending' = Tail(pending)
              /\ UNCHANGED <<entered, used, got, cut>>
           \/ /\ IsFile(n) \/ Kind(n) = "link"
              /\ pending' = Tail(pending)
              /\ used' = used + 1
              /\ got' = got \cup {n}
              /\ UNCHANGED <<entered, cut>>
    /\ UNCHANGED <<fcall, fstep, left, depth, subdir, spentAll, share, opened,
                   freply>>

\* Mutant: a child whose budget ran out is not marked as measured in part.
ChildMeasuredQuietly ==
    /\ fstep = "measure"
    /\ \/ pending = <<>>
       \/ pending # <<>> /\ used >= ChildBudget
    /\ UNCHANGED cut
    /\ spentAll' = spentAll + used
    /\ used' = 0
    /\ pending' = <<>>
    /\ subdir' = DriveRoot
    /\ fstep' = "child"
    /\ UNCHANGED <<fcall, left, depth, share, got, entered, opened, freply>>

\* The budget is used up, or the child is measured.
ChildMeasured ==
    /\ fstep = "measure"
    /\ \/ pending = <<>> /\ UNCHANGED cut
       \/ pending # <<>> /\ used >= ChildBudget /\ cut' = cut \cup {subdir}
    /\ spentAll' = spentAll + used
    /\ used' = 0
    /\ pending' = <<>>
    /\ subdir' = DriveRoot
    /\ fstep' = "child"
    /\ UNCHANGED <<fcall, left, depth, share, got, entered, opened, freply>>

\* The children beyond max_children are dropped after they were counted.
OverviewDone ==
    /\ fstep = "child"
    /\ left = {}
    /\ LET children == UNION {Kids(n) : n \in WorkspaceRoot(fcall) \cap entered}
           listed == {k \in children : Kind(k) # "gone"}
       IN  Replies([kind |-> "overview", measured |-> got,
                    truncated |-> cut # {} \/ Cardinality(listed) > fcall.limit])
    /\ UNCHANGED <<fcall, pending, left, depth, subdir, used, spentAll, share, got,
                   entered, opened, cut>>

-----------------------------------------------------------------------------
(* scan_workspace: the directory found last is scanned first, its entries in   *)
(* the order in which they are read.  `cut` has the root once the scan is      *)
(* truncated, `used` counts entries_scanned, `left` has the entries to come.   *)

ScanCut == cut' = WorkspaceRoot(fcall)

ScanNextDir ==
    /\ fstep = "pop"
    /\ pending # <<>>
    /\ UNCHANGED <<fcall, subdir, used, spentAll, share, got, opened, freply>>
    /\ LET v == Head(pending)
       IN  \/ /\ v.depth > fcall.depth
              /\ pending' = Tail(pending)
              /\ ScanCut
              /\ UNCHANGED <<fstep, left, depth, entered>>
           \/ /\ v.depth <= fcall.depth /\ used >= fcall.limit
              /\ pending' = <<>>
              /\ ScanCut
              /\ UNCHANGED <<fstep, left, depth, entered>>
           \/ /\ v.depth <= fcall.depth /\ used < fcall.limit
              /\ pending' = Tail(pending)
              /\ UNCHANGED cut
              /\ IF Readable(v.node)
                 THEN /\ left' = Kids(v.node)
                      /\ depth' = v.depth
                      /\ entered' = entered \cup {v.node}
                      /\ fstep' = "scan"
                 ELSE UNCHANGED <<fstep, left, depth, entered>>

\* A manifest is opened for its name, every other file is judged by its name.
ScanEntry ==
    /\ fstep = "scan"
    /\ left # {}
    /\ used < fcall.limit
    /\ \E k \in left :
          /\ left' = left \ {k}
          /\ got' = got \cup {k}
          /\ pending' = IF IsDir(k) /\ ~Skipped(k)
                        THEN <<Visit(k, depth + 1)>> \o pending
                        ELSE pending
          /\ opened' = opened \cup {m \in {k} : fcall.manifests
                                                    /\ Kind(m) = "manifest"}
    /\ used' = used + 1
    /\ UNCHANGED <<fcall, fstep, depth, subdir, spentAll, share, entered, cut,
                   freply>>

ScanDirDone ==
    /\ fstep = "scan"
    /\ \/ left = {} /\ UNCHANGED cut
       \/ left # {} /\ used >= fcall.limit /\ ScanCut
    /\ left' = {}
    /\ depth' = 0
    /\ fstep' = "pop"
    /\ UNCHANGED <<fcall, pending, subdir, used, spentAll, share, got, entered,
                   opened, freply>>

\* detect_repo_root: the nearest directory at or above the root of the scan that has
\* a .git or a .hg, and what read_git_metadata opens in its .git, if it has one: HEAD
\* and config, as the plain files there.
RepoDirs(n) == {k \in UNION {Kids(m) : m \in {a \in Node : n \in Under[a]}} :
                   Kind(k) \in {"git", "hg"}}
Nearest(repos) ==
    {g \in repos : \A h \in repos :
        \A a \in Node : g \in Kids(a) => \E b \in Node : h \in Kids(b) /\ a \in Under[b]}
GitFiles(n) ==
    {k \in UNION {Kids(g) : g \in {h \in Nearest(RepoDirs(n)) : Kind(h) = "git"}} :
        Kind(k) = "file"}

\* The scripts of the root's own manifest, which is opened also when the scan
\* stopped before it; then the metadata of the repository.
ScanDone ==
    /\ fstep = "pop"
    /\ pending = <<>>
    /\ \E n \in WorkspaceRoot(fcall) :
          opened' = opened
                      \cup {k \in Kids(n) : fcall.manifests /\ Readable(n)
                                                /\ Kind(k) = "manifest"}
                      \cup (IF fcall.git THEN GitFiles(n) ELSE {})
    /\ LET secrets == {k \in got : Kind(k) = "secret"}
       IN  Replies([kind |-> "scan", entries |-> used, truncated |-> cut # {},
                    excluded |-> IF Cardinality(secrets) < MaxExcluded
                                 THEN Cardinality(secrets) ELSE MaxExcluded])
    /\ UNCHANGED <<fcall, pending, left, depth, subdir, used, spentAll, share, got,
                   entered, cut>>

-----------------------------------------------------------------------------
(* read_text_file: bytes from..to of the file.  `total` is its length when it  *)
(* was opened, `now` its length when it is read.                               *)

Fewer(a, b) == IF a < b THEN a ELSE b

\* read_text_slice, once the content is known to be text.
TextSlice(mode, want, total, now, lineEnds) ==
    LET start == IF mode = "tail" /\ total > want THEN total - want ELSE 0
        filled == IF now > start THEN Fewer(want, now - start) ELSE 0
        ends == {e \in lineEnds : start < e /\ e <= start + filled}
        first == IF mode = "tail" /\ start > 0 /\ ends # {}
                 THEN CHOOSE e \in ends : \A f \in ends : e <= f
                 ELSE start
    IN  [kind |-> "text", from |-> first, to |-> start + filled,
         total |-> total, returned |-> filled,
         truncated |-> (IF mode = "tail" THEN start > 0 ELSE total > want)
                         \/ total > filled,
         whole |-> start = 0 /\ filled >= total]

\* A file that is there and may be read can still refuse to be opened: it is gone
\* or held by another process by then.
ReadText ==
    /\ fstep = "resolve"
    /\ fcall.tool = "read_text_file"
    /\ FileError(fcall) = "none"
    /\ \E n \in Resolved(fcall.path) :
          \/ Replies([kind |-> "error", error |-> "not_found"]) /\ UNCHANGED opened
          \/ /\ opened' = opened \cup {n}
             /\ IF Kind(n) = "binary"
                THEN Replies([kind |-> "error", error |-> "invalid_argument"])
                ELSE \E now \in 0..MaxLength :
                       Replies(TextSlice(fcall.mode, fcall.limit, Tree[n].length,
                                         now, Tree[n].ends))
    /\ UNCHANGED <<fcall, pending, left, depth, subdir, used, spentAll, share, got,
                   entered, cut>>

FilesNext ==
    AcceptFileCall \/ FileReplied \/ RefuseFileCall \/ StartWalk \/ WalkEntry
        \/ WalkDone \/ StartOverview \/ NextChild \/ MeasureEntry \/ ChildMeasured
        \/ OverviewDone \/ ScanNextDir \/ ScanEntry \/ ScanDirDone \/ ScanDone
        \/ ReadText

-----------------------------------------------------------------------------

FilesTypeOK ==
    /\ fstep \in {"idle", "resolve", "walk", "child", "measure", "pop", "scan",
                  "answered"}
    /\ fcall \in FileCalls \cup {NoFileCall}
    /\ \A i \in DOMAIN pending : pending[i] \in [node : Node, depth : Nat]
    /\ left \subseteq Node /\ got \subseteq Node /\ entered \subseteq Node
    /\ opened \subseteq Node /\ cut \subseteq Node /\ subdir \in Node
    /\ {depth, used, spentAll, share} \subseteq Nat
    /\ freply.kind \in {"none", "error", "files", "overview", "scan", "text"}

\* What a glob pattern means: the name falls into one piece for each character of
\* it, any run for a star, one character for any other.
Matches(name, pattern) ==
    \E at \in [1..(Len(pattern) + 1) -> 1..(Len(name) + 1)] :
        /\ at[1] = 1 /\ at[Len(pattern) + 1] = Len(name) + 1
        /\ \A i \in 1..Len(pattern) :
              IF pattern[i] = "*" THEN at[i] <= at[i + 1]
              ELSE at[i + 1] = at[i] + 1 /\ pattern[i] \in {"?", name[at[i]]}

\* n is below root, in directories that are all among dirs.
Reached(root, n, dirs) ==
    /\ n \in Under[root] \ {root}
    /\ \A m \in Under[root] : n \in Under[m] /\ m # n => m \in dirs

\* Everything that is read lies under the root of the call, and under an allowed
\* root when there are any; the files of the repository around it excepted.
Confined ==
    \A n \in entered \cup opened :
        \/ /\ \E root \in Resolved(fcall.path) : n \in Under[root]
           /\ fcall.allow # {} => Within(n, fcall.allow)
        \/ fcall.git /\ \E root \in Resolved(fcall.path) : n \in GitFiles(root)

\* find_files: all of what was asked for, or as many as the limit says and the
\* mark that there may be more; every directory that could not be read is told.
\* What lies deeper than max_depth is not asked for, and nothing says that it is
\* there, though the comments of the walk say that it is (filesys.rs:47, 166-168).
WalkComplete ==
    freply.kind = "files" =>
      \A root \in WorkspaceRoot(fcall) :
        LET listed == {m \in Node : /\ Readable(m)
                                    /\ Tree[m].level <= Tree[root].level + fcall.depth}
            asked == {n \in Node : /\ ~IsDir(n) /\ Kind(n) # "gone"
                                   /\ Reached(root, n, listed)
                                   /\ Matches(Tree[n].name, fcall.pattern)}
        IN  /\ freply.files \subseteq asked
            /\ IF freply.truncated THEN Cardinality(freply.files) = fcall.limit
               ELSE /\ freply.files = asked
                    /\ freply.unreadable =
                         {n \in Node :
                           /\ Kind(n) = "unreadable"
                           /\ Tree[n].level <= Tree[root].level + fcall.depth
                           /\ n = root \/ Reached(root, n, listed)}

\* directory_overview: the measures together stay within one share, and an
\* overview that is not marked has measured everything below its directory, if it
\* could read that directory: of one it cannot read it gives an empty overview
\* without a mark.
OverviewComplete ==
    /\ fcall.tool = "directory_overview" => spentAll + used <= share
    /\ freply.kind = "overview" /\ ~freply.truncated =>
         \A root \in WorkspaceRoot(fcall) \cap entered :
            freply.measured = {n \in Under[root] \ {root} : Kind(n) # "gone"}

\* scan_workspace: never more entries than the budget, no secret opened, and a
\* scan that is not marked has looked at everything in the directories it could
\* read, the skipped ones excepted.  A directory it cannot read is passed over
\* without a mark, with whatever lies below it.
ScanComplete ==
    /\ fcall.tool = "workspace_scan" =>
         used <= fcall.limit /\ \A n \in opened : Kind(n) # "secret"
    /\ freply.kind = "scan" =>
         \A root \in WorkspaceRoot(fcall) :
            ~freply.truncated =>
               got = {n \in Node :
                        Reached(root, n, {m \in Node :
                                            Kind(m) = "dir" \/ (m = root /\ Readable(m))})}

\* read_text_file: a slice marked as the whole file has at least what the file
\* had when it was opened, every other slice is marked as truncated, and a tail
\* that is cut begins after the first line end of its window, when it has one.
SliceHonest ==
    freply.kind = "text" =>
        /\ freply.whole <=> ~freply.truncated
        /\ freply.whole => freply.from = 0 /\ freply.to >= freply.total
        /\ freply.from <= freply.to /\ freply.to - freply.from <= fcall.limit
        /\ fcall.mode = "tail" /\ freply.total > fcall.limit =>
             \A n \in opened : \A e \in Tree[n].ends :
                freply.total - fcall.limit < e /\ e <= freply.to =>
                  freply.from \in Tree[n].ends /\ freply.from <= e

\* What a budget makes a file tool leave out of its answer is marked there, and what
\* the tool reads stays inside the root it was given (utils/filesys.rs,
\* utils/workspace.rs, tools/files.rs).  Two omissions are not marked: what lies
\* below the depth of a find_files, and what lies in a directory that a scan, or an
\* overview asked for that very directory, could not read.
FilesSound ==
    /\ FilesTypeOK
    /\ Confined /\ WalkComplete /\ OverviewComplete /\ ScanComplete /\ SliceHonest

\* "Walks share an entry budget so one huge tree cannot starve the rest"
\* (docs/tools.md): a child that its share is enough for is measured in full,
\* whatever its siblings hold.
HugeTreeStarvesNobody ==
    freply.kind = "overview" =>
      \A k \in cut :
         \/ Cardinality({n \in Under[k] : Kind(n) # "gone"}) > share
         \/ \E n \in Under[k] : Kind(n) = "unreadable"

=============================================================================
