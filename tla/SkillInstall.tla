---------------------------- MODULE SkillInstall ----------------------------
(***************************************************************************)
(* The second phase of `winkit install` (cli.rs): the companion skill is   *)
(* copied into a skills directory, in place of the version found there.    *)
(*                                                                         *)
(* One destination is modelled, and the targets that install into it: the  *)
(* universal ~/.agents one is shared by most of them and visited once for  *)
(* each.  A directory is copied, and removed, file by file; a command may  *)
(* be killed, and a step may fail, after any of them.  Two commands may    *)
(* run at once, and the user may edit the skill.                           *)
(*                                                                         *)
(* Backups are named by a time stamp in milliseconds, so two of them may   *)
(* have the same name and end up in the same directory.                    *)
(***************************************************************************)
EXTENDS Naturals, FiniteSets, FiniteSetsExt

CONSTANTS
    Commands, \* the commands that may run at once
    Files,    \* the files a skills directory may hold
    Shipped,  \* those of this release's skill
    Skill,    \* SKILL.md, one of them
    Targets,  \* the targets that share the destination
    Stamps,   \* the time stamps a backup may get
    UserDirs, \* what the user may make of the destination
    MaxVisits, \* bound: how many targets all runs serve together
    MaxSaves  \* bound: how often the user edits the skill

Absent == [there |-> FALSE, files |-> [f \in Files |-> "none"]]

\* What a file holds: the skill of this release, an older one, the user's
\* words, or the beginning of any of them.  A link is skipped by every copy.
Content == {"new", "old", "mine", "cut"}

Entry == Content \cup {"link", "none"}

Dir == {Absent} \cup [there : {TRUE}, files : [Files -> Entry]]

ASSUME SkillAssumption ==
    Skill \in Shipped /\ Shipped \subseteq Files /\ IsFiniteSet(Files)
ASSUME TargetsAssumption == IsFiniteSet(Targets)
ASSUME UserDirsAssumption == UserDirs \subseteq Dir
ASSUME BoundsAssumption == MaxVisits \in Nat /\ MaxSaves \in Nat
ASSUME StampsAssumption == Stamps # {} /\ "none" \notin Stamps

\* The skill next to the binary.
Source ==
    [there |-> TRUE, files |-> [f \in Files |-> IF f \in Shipped THEN "new" ELSE "none"]]

-----------------------------------------------------------------------------
(* Directories. *)

RegularFiles(dir) == {f \in Files : dir.files[f] \in Content}

Made(dir) == [there |-> TRUE, files |-> dir.files]

With(dir, f, content) ==
    [there |-> TRUE, files |-> [dir.files EXCEPT ![f] = content]]

Without(dir, f) == [dir EXCEPT !.files[f] = "none"]

\* copy_dir_recursive, for one file.
Copied(from, to, f) ==
    IF f \in RegularFiles(from) THEN With(to, f, from.files[f]) ELSE to

\* Lengths that a check may not tell apart.
Length(content) == CASE content = "cut" -> 0 [] content = "new" -> 2 [] OTHER -> 1

dir_stats(dir) ==
    <<Cardinality(RegularFiles(dir)),
      MapThenSumSet(LAMBDA f : Length(dir.files[f]), RegularFiles(dir))>>

\* dirs_are_identical, against the source.
Identical(dir) == dir.there /\ \A f \in Files : dir.files[f] = Source.files[f]

-----------------------------------------------------------------------------

VARIABLES
    dest,      \* the destination
    backups,   \* the directory of each backup name
    pc,        \* where each command is
    todo,      \* how many targets it has yet to serve
    stamp,     \* the name of the backup it made, "none" if it made none
    left,      \* the files of the current copy or removal it has not handled
    status,    \* how its last target ended
    visits,    \* targets the runs so far were to serve
    saves,     \* edits of the user
    saved,     \* history: the directory as the user last left it
    raced,     \* history: the user edited it while a command replaced it
    shared,    \* history: two backups got the same name
    base,      \* history: the directory as each command found it,
               \* forgotten once disturbed
    disturbed  \* history: somebody else has changed it since

vars == <<dest, backups, pc, todo, stamp, left, status, visits, saves, saved,
          raced, shared, base, disturbed>>

user == <<saves, saved, raced>>

Phase == {"idle", "looking", "checking", "backing_up", "verifying", "clearing",
          "making", "copying", "wiping", "restoring"}

Status == {"none", "AlreadyPresent", "Installed", "Error", "killed"}

\* What a command must have at hand where it is.
Placed(c) ==
    /\ pc[c] \in {"backing_up", "verifying", "clearing", "wiping", "restoring"} =>
         stamp[c] # "none"
    /\ pc[c] = "verifying" => left[c] = {}
    /\ pc[c] # "idle" => todo[c] > 0

TypeOK ==
    /\ dest \in Dir
    /\ backups \in [Stamps -> Dir]
    /\ pc \in [Commands -> Phase]
    /\ todo \in [Commands -> 0 .. MaxVisits]
    /\ stamp \in [Commands -> Stamps \cup {"none"}]
    /\ left \in [Commands -> SUBSET Files]
    /\ status \in [Commands -> Status]
    /\ visits \in 0 .. MaxVisits
    /\ saves \in 0 .. MaxSaves
    /\ saved \in Dir
    /\ raced \in BOOLEAN
    /\ shared \in BOOLEAN
    /\ base \in [Commands -> Dir]
    /\ disturbed \in [Commands -> BOOLEAN]
    /\ \A c \in Commands : Placed(c)

Init ==
    /\ dest \in UserDirs
    /\ backups = [s \in Stamps |-> Absent]
    /\ pc = [c \in Commands |-> "idle"]
    /\ todo = [c \in Commands |-> 0]
    /\ stamp = [c \in Commands |-> "none"]
    /\ left = [c \in Commands |-> {}]
    /\ status = [c \in Commands |-> "none"]
    /\ visits = 0
    /\ saves = 0
    /\ saved = dest
    /\ raced = FALSE
    /\ shared = FALSE
    /\ base = [c \in Commands |-> Absent]
    /\ disturbed = [c \in Commands |-> FALSE]

-----------------------------------------------------------------------------
(* Steps of a command. *)

Goto(c, phase, files) ==
    /\ pc' = [pc EXCEPT ![c] = phase]
    /\ left' = [left EXCEPT ![c] = files]
    /\ UNCHANGED <<todo, status, stamp>>

\* Mutant: off by one, a target more than there are.
ReportOneMore(c, how) ==
    /\ status' = [status EXCEPT ![c] = how]
    /\ todo' = [todo EXCEPT ![c] = todo[c] - 1]
    /\ pc' = [pc EXCEPT ![c] = IF todo[c] > 0 THEN "looking" ELSE "idle"]
    /\ left' = [left EXCEPT ![c] = {}]
    /\ stamp' = [stamp EXCEPT ![c] = "none"]

\* The target at hand is served; the command goes on to the next.
Report(c, how) ==
    /\ status' = [status EXCEPT ![c] = how]
    /\ todo' = [todo EXCEPT ![c] = todo[c] - 1]
    /\ pc' = [pc EXCEPT ![c] = IF todo[c] > 1 THEN "looking" ELSE "idle"]
    /\ left' = [left EXCEPT ![c] = {}]
    /\ stamp' = [stamp EXCEPT ![c] = "none"]

Change(c, dir) ==
    /\ dest' = dir
    /\ disturbed' = [d \in Commands |-> IF d = c THEN disturbed[d] ELSE TRUE]
    /\ base' = [d \in Commands |-> IF d = c THEN base[d] ELSE Absent]

Untouched == UNCHANGED <<dest, disturbed, base>>

\* The MCP phase has an outcome for each target; the skill of a target whose
\* step was declined or failed is skipped, except under --yes.
Served(yes, mcp) ==
    {t \in Targets : yes \/ mcp[t] \notin {"Declined", "Error"}}

Start(c) ==
    /\ pc[c] = "idle"
    /\ \E yes \in BOOLEAN,
          mcp \in [Targets -> {"Installed", "Skipped", "Declined", "Error"}] :
          LET n == Cardinality(Served(yes, mcp)) IN
          /\ n > 0
          /\ visits + n <= MaxVisits
          /\ visits' = visits + n
          /\ todo' = [todo EXCEPT ![c] = n]
    /\ pc' = [pc EXCEPT ![c] = "looking"]
    /\ status' = [status EXCEPT ![c] = "none"]
    /\ UNCHANGED <<dest, backups, stamp, left, shared, base, disturbed, user>>

\* Mutant: any directory with a SKILL.md counts as the skill.
LookCarelessly(c) ==
    /\ pc[c] = "looking"
    /\ base' = [base EXCEPT ![c] = dest]
    /\ disturbed' = [disturbed EXCEPT ![c] = FALSE]
    /\ IF dest.there /\ dest.files[Skill] = "new"
       THEN Report(c, "AlreadyPresent")
       ELSE /\ pc' = [pc EXCEPT ![c] = "checking"]
            /\ status' = [status EXCEPT ![c] = "none"]
            /\ UNCHANGED <<left, todo, stamp>>
    /\ UNCHANGED <<dest, backups, visits, shared, user>>

\* install_skill_for_target: nothing to do for a skill that is there.
Look(c) ==
    /\ pc[c] = "looking"
    /\ base' = [base EXCEPT ![c] = dest]
    /\ disturbed' = [disturbed EXCEPT ![c] = FALSE]
    /\ IF Identical(dest)
       THEN Report(c, "AlreadyPresent")
       ELSE /\ pc' = [pc EXCEPT ![c] = "checking"]
            /\ status' = [status EXCEPT ![c] = "none"]
            /\ UNCHANGED <<left, todo, stamp>>
    /\ UNCHANGED <<dest, backups, visits, shared, user>>

\* install_skill_dir looks again, and makes the directory for the backup if
\* there is anything to back up.
Check(c) ==
    /\ pc[c] = "checking"
    /\ \/ /\ Identical(dest)
          /\ Report(c, "Installed")
          /\ Untouched
          /\ UNCHANGED <<backups, shared>>
       \/ /\ dest.there /\ ~Identical(dest)
          /\ pc' = [pc EXCEPT ![c] = "backing_up"]
          /\ left' = [left EXCEPT ![c] = Files]
          /\ UNCHANGED <<todo, status>>
          /\ \E s \in Stamps :
              /\ stamp' = [stamp EXCEPT ![c] = s]
              /\ shared' = (shared \/ backups[s].there)
              /\ backups' = [backups EXCEPT ![s] = Made(backups[s])]
          /\ Untouched
       \/ /\ ~dest.there
          /\ Goto(c, "making", {})
          /\ Untouched
          /\ UNCHANGED <<backups, shared>>
       \/ /\ ~Identical(dest)
          /\ Report(c, "Error")
          /\ Untouched
          /\ UNCHANGED <<backups, shared>>
    /\ UNCHANGED <<visits, user>>

BackUpFile(c) ==
    /\ pc[c] = "backing_up"
    /\ \E f \in left[c] :
        /\ backups' = [backups EXCEPT ![stamp[c]] = Copied(dest, backups[stamp[c]], f)]
        /\ Goto(c, IF left[c] = {f} THEN "verifying" ELSE "backing_up", left[c] \ {f})
    /\ Untouched
    /\ UNCHANGED <<visits, shared, user>>

\* The original is removed only if its backup has as many files and bytes.
Verify(c) ==
    /\ pc[c] = "verifying"
    /\ dest.there
    /\ \/ /\ dir_stats(dest) = dir_stats(backups[stamp[c]])
          /\ Goto(c, "clearing", Files)
          /\ UNCHANGED backups
       \/ /\ dir_stats(dest) # dir_stats(backups[stamp[c]])
          /\ Report(c, "Error")
          /\ backups' = [backups EXCEPT ![stamp[c]] = Absent]
    /\ Untouched
    /\ UNCHANGED <<visits, shared, user>>

\* remove_dir_all, file by file.
ClearFile(c) ==
    /\ pc[c] = "clearing"
    /\ \E f \in left[c] :
        /\ Change(c, Without(dest, f))
        /\ Goto(c, "clearing", left[c] \ {f})
    /\ UNCHANGED <<backups, visits, shared, user>>

\* The emptied directory goes.
Cleared(c) ==
    /\ pc[c] = "clearing"
    /\ left[c] = {}
    /\ \A f \in Files : dest.files[f] = "none"
    /\ Change(c, Absent)
    /\ Goto(c, "making", {})
    /\ UNCHANGED <<backups, visits, shared, user>>

MakeDir(c) ==
    /\ pc[c] = "making"
    /\ Change(c, Made(dest))
    /\ Goto(c, "copying", Files)
    /\ UNCHANGED <<backups, visits, shared, user>>

CopyFile(c) ==
    /\ pc[c] = "copying"
    /\ \E f \in left[c] :
        /\ Change(c, Copied(Source, dest, f))
        /\ Goto(c, "copying", left[c] \ {f})
    /\ UNCHANGED <<backups, visits, shared, user>>

\* Mutant: a backup that has done its service is removed.
FinishTidily(c) ==
    /\ pc[c] = "copying"
    /\ left[c] = {}
    /\ Report(c, IF dest.files[Skill] = "none" THEN "Error" ELSE "Installed")
    /\ backups' = [s \in Stamps |-> IF s = stamp[c] THEN Absent ELSE backups[s]]
    /\ Untouched
    /\ UNCHANGED <<visits, shared, user>>

Finish(c) ==
    /\ pc[c] = "copying"
    /\ left[c] = {}
    /\ Report(c, IF dest.files[Skill] = "none" THEN "Error" ELSE "Installed")
    /\ Untouched
    /\ UNCHANGED <<backups, visits, shared, user>>

\* The copy fails: what there is of it is removed, and the backup copied back.
CopyFails(c) ==
    /\ pc[c] \in {"making", "copying"}
    /\ \/ Untouched
       \/ \E f \in left[c] : Change(c, With(dest, f, "cut"))
    /\ IF stamp[c] = "none" THEN Report(c, "Error") ELSE Goto(c, "wiping", Files)
    /\ UNCHANGED <<backups, visits, shared, user>>

WipeFile(c) ==
    /\ pc[c] = "wiping"
    /\ \E f \in left[c] :
        /\ Change(c, Without(dest, f))
        /\ Goto(c, "wiping", left[c] \ {f})
    /\ UNCHANGED <<backups, visits, shared, user>>

\* However far the removal came: its failure is ignored.
Wiped(c) ==
    /\ pc[c] = "wiping"
    /\ Change(c, Made(dest))
    /\ Goto(c, "restoring", Files)
    /\ UNCHANGED <<backups, visits, shared, user>>

RestoreFile(c) ==
    /\ pc[c] = "restoring"
    /\ \E f \in left[c] :
        /\ Change(c, Copied(backups[stamp[c]], dest, f))
        /\ Goto(c, "restoring", left[c] \ {f})
    /\ UNCHANGED <<backups, visits, shared, user>>

\* Mutant: a backup that has been restored is removed.
RestoredTidily(c) ==
    /\ pc[c] = "restoring"
    /\ left[c] = {}
    /\ Report(c, "Error")
    /\ backups' = [backups EXCEPT ![stamp[c]] = Absent]
    /\ Untouched
    /\ UNCHANGED <<visits, shared, user>>

Restored(c) ==
    /\ pc[c] = "restoring"
    /\ left[c] = {}
    /\ Report(c, "Error")
    /\ Untouched
    /\ UNCHANGED <<backups, visits, shared, user>>

\* A step fails with no way back: nothing is undone.
Fails(c) ==
    /\ \/ /\ pc[c] \in {"verifying", "clearing"}
          /\ Untouched
          /\ UNCHANGED backups
       \/ /\ pc[c] = "restoring"
          /\ Untouched \/ \E f \in left[c] : Change(c, With(dest, f, "cut"))
          /\ UNCHANGED backups
       \/ /\ pc[c] = "backing_up"
          /\ \/ UNCHANGED backups
             \/ \E f \in left[c] :
                 backups' = [backups EXCEPT ![stamp[c]] = With(backups[stamp[c]], f, "cut")]
          /\ Untouched
    /\ Report(c, "Error")
    /\ UNCHANGED <<visits, shared, user>>

-----------------------------------------------------------------------------
(* The world. *)

\* The command is killed; the file it was copying is cut off.
Kill(c) ==
    /\ pc[c] # "idle"
    /\ \/ /\ Untouched
          /\ UNCHANGED backups
       \/ /\ pc[c] \in {"copying", "restoring"}
          /\ \E f \in left[c] : Change(c, With(dest, f, "cut"))
          /\ UNCHANGED backups
       \/ /\ pc[c] = "backing_up"
          /\ \E f \in left[c] :
              backups' = [backups EXCEPT ![stamp[c]] = With(backups[stamp[c]], f, "cut")]
          /\ Untouched
    /\ pc' = [pc EXCEPT ![c] = "idle"]
    /\ todo' = [todo EXCEPT ![c] = 0]
    /\ left' = [left EXCEPT ![c] = {}]
    /\ status' = [status EXCEPT ![c] = "killed"]
    /\ stamp' = [stamp EXCEPT ![c] = "none"]
    /\ UNCHANGED <<visits, shared, user>>

\* The user edits the skill, or removes it.
Save ==
    /\ saves < MaxSaves
    /\ saves' = saves + 1
    /\ \E dir \in UserDirs :
        /\ dir # dest
        /\ dest' = dir
        /\ saved' = dir
    /\ raced' = (\E c \in Commands : pc[c] \notin {"idle", "looking", "checking"})
    /\ disturbed' = [c \in Commands |-> TRUE]
    /\ base' = [c \in Commands |-> Absent]
    /\ UNCHANGED <<backups, pc, todo, stamp, left, status, visits, shared>>

Command(c) ==
    \/ Start(c) \/ Look(c) \/ Check(c)
    \/ BackUpFile(c) \/ Verify(c)
    \/ ClearFile(c) \/ Cleared(c)
    \/ MakeDir(c) \/ CopyFile(c) \/ Finish(c) \/ CopyFails(c)
    \/ WipeFile(c) \/ Wiped(c) \/ RestoreFile(c) \/ Restored(c)
    \/ Fails(c)

Next == (\E c \in Commands : Command(c) \/ Kill(c)) \/ Save

Spec == Init /\ [][Next]_vars

-----------------------------------------------------------------------------
(* What the installation of a skill promises. *)

\* Dir holds every regular file of `original`, verbatim.
Holds(dir, original) ==
    \A f \in RegularFiles(original) : dir.files[f] = original.files[f]

Kept(original) == \E s \in Stamps : Holds(backups[s], original)

\* The skill as the user last left it is in the destination or in a backup,
\* file for file, through every kill, failed step, rerun and concurrent
\* command, unless the user edited it under a command's hands or two backups
\* got the same name (cli.rs:1720-1738).
Recoverable == raced \/ shared \/ Holds(dest, saved) \/ Kept(saved)

\* A target that nobody else disturbed ends with the whole skill in place
\* where it says so, and nothing of another version beside it; where it ends
\* with an error or a kill, what was found is there or in a backup
\* (cli.rs:1712-1764, 1785-1812).
ReportedAsLeft ==
    \A c \in Commands :
        pc[c] \in {"idle", "looking"} /\ ~disturbed[c] =>
            /\ status[c] \in {"AlreadyPresent", "Installed"} => dest = Source
            /\ status[c] \in {"Error", "killed"} =>
                 shared \/ Holds(dest, base[c]) \/ Kept(base[c])

=============================================================================
