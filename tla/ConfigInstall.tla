---------------------------- MODULE ConfigInstall ----------------------------
(***************************************************************************)
(* One configuration file of a coding agent, as `winkit install` and       *)
(* `winkit init --write` (cli.rs) edit it: read, merge, ask, back up,      *)
(* overwrite, restore if the write fails.                                  *)
(*                                                                         *)
(* Meanwhile the user, or the agent whose file it is, may save it; the     *)
(* command may be killed between any two of its steps, and run again; two  *)
(* of them may run at once.  fs::write truncates the file before it writes *)
(* it, so a killed or failed write leaves it empty or cut off.             *)
(*                                                                         *)
(* A file's text is abstracted to whether it parses, the entries it holds, *)
(* and whether its layout (comments, spacing) is the user's or the one the *)
(* serializer prints.                                                      *)
(***************************************************************************)
EXTENDS Naturals

CONSTANTS
    Installers, \* the commands that may run at once
    Others,     \* the entries of the user
    UserTexts,  \* what the user may save, a subset of Text below
    MaxRuns,    \* bound: how often a command is started
    MaxSaves    \* bound: how often the user saves the file

Winkit == "winkit"

ASSUME OthersAssumption == Winkit \notin Others
ASSUME BoundsAssumption == MaxRuns \in Nat /\ MaxSaves \in Nat

-----------------------------------------------------------------------------
(* The file's text, or its absence. *)

Bare(kind) == [kind |-> kind, entries |-> {}, layout |-> "none"]

Absent == Bare("absent")
Empty  == Bare("empty")
Broken == Bare("broken")  \* does not parse
Misfit == Bare("misfit")  \* parses, but its servers section is no object

Config(entries, layout) ==
    [kind |-> "config", entries |-> entries, layout |-> layout]

Text ==
    {Absent, Empty, Broken, Misfit} \cup
    [kind : {"config"}, entries : SUBSET (Others \cup {Winkit}),
     layout : {"users", "printed"}]

ASSUME UserTextsAssumption == UserTexts \subseteq Text

Unmergeable == {Broken, Misfit}

Template == Config({Winkit}, "printed")

\* parse_and_merge, for a text that parses and is not registered yet.
Merged(text) == Config(text.entries \cup {Winkit}, "printed")

\* What a write or a copy of a text leaves when it is cut off: nothing, something that
\* does not parse, or, as in TOML, the first of its entries.
CutOffText(text) ==
    {Empty, Broken} \cup {Config(first, text.layout) : first \in
                            (SUBSET text.entries) \ {text.entries}}

-----------------------------------------------------------------------------

VARIABLES
    dest,      \* the file
    backups,   \* the contents of its .bak siblings
    pc,        \* where each command is
    mode,      \* what it was asked to do
    merged,    \* the text it is about to write
    bak,       \* the content of the backup it made, Absent if none
    result,    \* how its last run ended
    runs,      \* runs started
    saves,     \* saves of the user
    saved,     \* history: the last text the user saved
    raced,     \* history: saved between some command's backup and its write
    base,      \* history: the file as each command found it
    disturbed  \* history: somebody else has changed the file since

vars == <<dest, backups, pc, mode, merged, bak, result, runs, saves, saved,
          raced, base, disturbed>>

user == <<saves, saved, raced>>

\* What a command is asked to do; "list" stands for every run that only
\* reports.  An init that finds no file goes on as "fresh", --force or not.
Request == {"list", "install", "install_yes", "init", "force"}
Mode == Request \cup {"fresh"}

\* write_with_restore puts the backup back when the write fails;
\* write_init_file does not.
Restores == {"install", "install_yes", "init"}

Phase == {"idle", "found", "creating", "asking", "confirmed", "backed_up",
          "writing", "failed"}

\* From the backup until the file is whole again.
Window == {"backed_up", "writing", "failed"}

Result == {"none", "listed", "unreadable", "skipped", "registered", "declined",
           "refused", "no_backup", "installed", "restored", "not_restored",
           "write_failed", "killed"}

TypeOK ==
    /\ dest \in Text
    /\ backups \subseteq Text \ {Absent}
    /\ pc \in [Installers -> Phase]
    /\ mode \in [Installers -> Mode]
    /\ merged \in [Installers -> Text]
    /\ bak \in [Installers -> Text]
    /\ result \in [Installers -> Result]
    /\ runs \in 0 .. MaxRuns
    /\ saves \in 0 .. MaxSaves
    /\ saved \in Text
    /\ raced \in BOOLEAN
    /\ base \in [Installers -> Text]
    /\ disturbed \in [Installers -> BOOLEAN]
    /\ \A p \in Installers :
         pc[p] \in Window \cup {"creating", "asking", "confirmed"} =>
            merged[p].kind = "config" /\ Winkit \in merged[p].entries

Init ==
    /\ dest \in UserTexts
    /\ backups = {}
    /\ pc = [p \in Installers |-> "idle"]
    /\ mode = [p \in Installers |-> "list"]
    /\ merged = [p \in Installers |-> Absent]
    /\ bak = [p \in Installers |-> Absent]
    /\ result = [p \in Installers |-> "none"]
    /\ runs = 0
    /\ saves = 0
    /\ saved = dest
    /\ raced = FALSE
    /\ base = [p \in Installers |-> dest]
    /\ disturbed = [p \in Installers |-> FALSE]

-----------------------------------------------------------------------------
(* Steps of a command. *)

Goto(p, phase) ==
    /\ pc' = [pc EXCEPT ![p] = phase]
    /\ UNCHANGED result

End(p, how) ==
    /\ pc' = [pc EXCEPT ![p] = "idle"]
    /\ result' = [result EXCEPT ![p] = how]

\* Command p leaves `text` in the file.
Overwrite(p, text) ==
    /\ dest' = text
    /\ disturbed' = [q \in Installers |-> IF q = p THEN disturbed[q] ELSE TRUE]

Untouched == UNCHANGED <<dest, disturbed>>

Start(p) ==
    /\ pc[p] = "idle"
    /\ runs < MaxRuns
    /\ runs' = runs + 1
    /\ \E m \in Request : mode' = [mode EXCEPT ![p] = m]
    /\ merged' = [merged EXCEPT ![p] = Absent]
    /\ bak' = [bak EXCEPT ![p] = Absent]
    /\ base' = [base EXCEPT ![p] = dest]
    /\ disturbed' = [disturbed EXCEPT ![p] = FALSE]
    /\ pc' = [pc EXCEPT ![p] = "found"]
    /\ result' = [result EXCEPT ![p] = "none"]
    /\ UNCHANGED <<dest, backups, user>>

List(p) ==
    /\ pc[p] = "found"
    /\ mode[p] = "list"
    /\ End(p, "listed")
    /\ UNCHANGED <<backups, mode, merged, bak, runs, base, user>>
    /\ Untouched

\* init without a file to merge into, and init --force: the template.
TakeTemplate(p) ==
    /\ pc[p] = "found"
    /\ mode[p] = "force" \/ (mode[p] = "init" /\ dest = Absent)
    /\ merged' = [merged EXCEPT ![p] = Template]
    /\ IF dest = Absent
       THEN /\ mode' = [mode EXCEPT ![p] = "fresh"]
            /\ Goto(p, "creating")
       ELSE /\ UNCHANGED mode
            /\ Goto(p, "confirmed")
    /\ UNCHANGED <<backups, bak, runs, base, user>>
    /\ Untouched

\* Mutant: a file that does not parse is taken for an empty one.
ReadAndMergeLeniently(p) ==
    /\ pc[p] = "found"
    /\ mode[p] \in {"install", "install_yes"} \/ (mode[p] = "init" /\ dest # Absent)
    /\ Winkit \notin dest.entries
    /\ merged' = [merged EXCEPT ![p] = Merged(dest)]
    /\ Goto(p, IF mode[p] = "install" THEN "asking" ELSE "confirmed")
    /\ UNCHANGED <<backups, mode, bak, runs, base, user>>
    /\ Untouched

\* The file is read and merged; install asks unless it was told --yes.
ReadAndMerge(p) ==
    /\ pc[p] = "found"
    /\ mode[p] \in {"install", "install_yes"} \/ (mode[p] = "init" /\ dest # Absent)
    /\ \/ /\ dest # Absent
          /\ End(p, "unreadable")
          /\ UNCHANGED merged
       \/ /\ dest \in Unmergeable
          /\ End(p, "skipped")
          /\ UNCHANGED merged
       \/ /\ Winkit \in dest.entries
          /\ End(p, "registered")
          /\ UNCHANGED merged
       \/ /\ dest \notin Unmergeable
          /\ Winkit \notin dest.entries
          /\ merged' = [merged EXCEPT ![p] = Merged(dest)]
          /\ Goto(p, IF mode[p] = "install" THEN "asking" ELSE "confirmed")
    /\ UNCHANGED <<backups, mode, bak, runs, base, user>>
    /\ Untouched

\* The user answers, at any time; no answer is a no.
Answer(p) ==
    /\ pc[p] = "asking"
    /\ Goto(p, "confirmed") \/ End(p, "declined")
    /\ UNCHANGED <<backups, mode, merged, bak, runs, base, user>>
    /\ Untouched

\* write_init_file looks again, and refuses a file that has appeared.
CheckAgain(p) ==
    /\ pc[p] = "creating"
    /\ IF dest = Absent THEN Goto(p, "confirmed") ELSE End(p, "refused")
    /\ UNCHANGED <<backups, mode, merged, bak, runs, base, user>>
    /\ Untouched

\* Mutant: the backup has one fixed name, and replaces the one before it.
BackUpReplacing(p) ==
    /\ pc[p] = "confirmed"
    /\ backups' = IF dest = Absent THEN backups ELSE {dest}
    /\ bak' = [bak EXCEPT ![p] = dest]
    /\ Goto(p, "backed_up")
    /\ UNCHANGED <<mode, merged, runs, base, user>>
    /\ Untouched

BackUp(p) ==
    /\ pc[p] = "confirmed"
    /\ backups' = IF dest = Absent THEN backups ELSE backups \cup {dest}
    /\ bak' = [bak EXCEPT ![p] = dest]
    /\ Goto(p, "backed_up")
    /\ UNCHANGED <<mode, merged, runs, base, user>>
    /\ Untouched

\* The directory cannot be made or the copy fails, perhaps half way.
BackUpFails(p) ==
    /\ pc[p] = "confirmed"
    /\ backups' \in {backups} \cup {backups \cup {t} : t \in CutOffText(dest)}
    /\ End(p, "no_backup")
    /\ UNCHANGED <<mode, merged, bak, runs, base, user>>
    /\ Untouched

Truncate(p) ==
    /\ pc[p] = "backed_up"
    /\ Overwrite(p, Empty)
    /\ Goto(p, "writing")
    /\ UNCHANGED <<backups, mode, merged, bak, runs, base, user>>

Write(p) ==
    /\ pc[p] = "writing"
    /\ Overwrite(p, merged[p])
    /\ End(p, "installed")
    /\ UNCHANGED <<backups, mode, merged, bak, runs, base, user>>

\* Mutant: a write cut off half way counts as one.
WriteFailsUnnoticed(p) ==
    /\ pc[p] = "writing"
    /\ \E left \in CutOffText(merged[p]) : Overwrite(p, left)
    /\ End(p, "installed")
    /\ UNCHANGED <<backups, mode, merged, bak, runs, base, user>>

\* The file cannot be opened, or is written half way.
WriteFails(p) ==
    /\ \/ pc[p] = "backed_up" /\ Untouched
       \/ /\ pc[p] = "writing"
          /\ \E left \in CutOffText(merged[p]) : Overwrite(p, left)
    /\ IF mode[p] \in Restores /\ bak[p] # Absent
       THEN Goto(p, "failed")
       ELSE End(p, "write_failed")
    /\ UNCHANGED <<backups, mode, merged, bak, runs, base, user>>

Restore(p) ==
    /\ pc[p] = "failed"
    /\ Overwrite(p, bak[p])
    /\ End(p, "restored")
    /\ UNCHANGED <<backups, mode, merged, bak, runs, base, user>>

RestoreFails(p) ==
    /\ pc[p] = "failed"
    /\ Untouched \/ \E left \in CutOffText(bak[p]) : Overwrite(p, left)
    /\ End(p, "not_restored")
    /\ UNCHANGED <<backups, mode, merged, bak, runs, base, user>>

-----------------------------------------------------------------------------
(* The world. *)

\* The command is killed; a copy or a write it was in is cut off.
Kill(p) ==
    /\ pc[p] # "idle"
    /\ \/ Untouched
       \/ /\ pc[p] = "writing"
          /\ \E left \in CutOffText(merged[p]) : Overwrite(p, left)
       \/ /\ pc[p] = "failed"
          /\ \E left \in CutOffText(bak[p]) : Overwrite(p, left)
    /\ \/ UNCHANGED backups
       \/ /\ pc[p] = "confirmed"
          /\ backups' \in {backups \cup {t} : t \in CutOffText(dest)}
    /\ End(p, "killed")
    /\ UNCHANGED <<mode, merged, bak, runs, base, user>>

\* The user, or the agent itself, saves the file.
Save ==
    /\ saves < MaxSaves
    /\ saves' = saves + 1
    /\ \E t \in UserTexts :
        /\ t # dest
        /\ dest' = t
        /\ saved' = t
    /\ raced' = (\E p \in Installers : pc[p] \in Window)
    /\ disturbed' = [p \in Installers |-> TRUE]
    /\ UNCHANGED <<backups, pc, mode, merged, bak, result, runs, base>>

Command(p) ==
    \/ Start(p) \/ List(p) \/ TakeTemplate(p) \/ ReadAndMerge(p) \/ Answer(p)
    \/ CheckAgain(p) \/ BackUp(p) \/ BackUpFails(p) \/ Truncate(p) \/ Write(p)
    \/ WriteFails(p) \/ Restore(p) \/ RestoreFails(p)

Next == (\E p \in Installers : Command(p) \/ Kill(p)) \/ Save

Spec == Init /\ [][Next]_vars

-----------------------------------------------------------------------------
(* What an edit promises. *)

\* What the user saved last is never lost: it is in the file or, verbatim, in
\* a backup, through every crash, failed write, failed restore and rerun, and
\* whoever else runs.  The one exception is a save between a command's backup
\* and the end of its write (cli.rs:2084-2086).
Recoverable ==
    raced \/ saved \in backups \cup {dest, Absent}

CutOff == {"write_failed", "not_restored", "killed"}

\* A run that nobody disturbed writes all of the merge or leaves the file as
\* it found it; where it can do neither, it says so, and what it found is in
\* a backup (cli.rs:2100-2117, 1183, 868).
AllOrNothing ==
    \A p \in Installers :
        pc[p] = "idle" /\ ~disturbed[p] =>
            /\ result[p] = "installed" => dest = merged[p]
            /\ result[p] \in CutOff => base[p] \in backups \cup {dest, Absent}
            /\ result[p] \notin CutOff \cup {"installed"} => dest = base[p]

\* Except under --force, a file that nobody touched since it was found is
\* overwritten only if it could be merged: never one that does not parse, and
\* never one that is registered already (cli.rs:2041-2044).
OverwritesOnlyMergeable ==
    [][\A p \in Installers :
        pc[p] = "backed_up" /\ pc'[p] = "writing"
          /\ mode[p] # "force" /\ ~disturbed[p] =>
            dest \notin Unmergeable /\ Winkit \notin dest.entries]_vars

=============================================================================
