---------------------------- MODULE Configuration ----------------------------
(***************************************************************************)
(* winkit.toml and the commands that live on it: the server that loads it, *)
(* winkit doctor that judges it and winkit configure that rewrites it.     *)
(*                                                                         *)
(* Of the configuration, one key of each kind that the commands treat      *)
(* differently is kept: a mode that the server refuses when it is wrong, a *)
(* profile that it replaces, a switch and a number.  The order of the keys *)
(* in the file is kept, because a write that is cut off leaves the first   *)
(* of them.  The wording of the reports is left out.                       *)
(***************************************************************************)
EXTENDS Integers, Sequences, FiniteSets, SequencesExt

CONSTANTS
    UserTexts,   \* the texts a user may have left in a configuration file
    ConfigLines, \* the command lines of configure
    Machines,    \* what doctor may find on the machine
    LowestValue, \* the range that --set accepts for the number
    HighestValue

\* PermissionMode::parse and ToolProfile::from_str accept a name in any case, the
\* mode with a dash too; as_str writes the name back in one form.
ModeNames ==
    [w \in {"read_only", "Read-Only", "safe", "root"} |->
        CASE w \in {"read_only", "Read-Only"} -> {"read_only"}
          [] w = "safe"                       -> {"safe"}
          [] w = "root"                       -> {}]
ProfileNames ==
    [w \in {"core", "CORE", "developer", "browser"} |->
        CASE w \in {"core", "CORE"} -> {"core"}
          [] w = "developer"        -> {"developer"}
          [] w = "browser"          -> {}]

Keys == <<"mode", "profile", "external", "low_disk">>
Defaults ==
    [mode |-> "read_only", profile |-> "developer", external |-> FALSE,
     low_disk |-> LowestValue]

Settings ==
    [mode : DOMAIN ModeNames, profile : DOMAIN ProfileNames, external : BOOLEAN,
     low_disk : Nat]

\* The words of a mode and of a profile are among those above, which stand for the
\* names of each kind, spelled right or not.
ASSUME ConfigAssumption ==
    /\ LowestValue \in Nat /\ HighestValue \in Nat /\ LowestValue <= HighestValue
    /\ \A text \in UserTexts :
         text.there /\ text.parses \in BOOLEAN /\ text.config \in Settings
    /\ ConfigLines \subseteq
         Seq([arg : STRING, key : STRING, word : STRING, number : Int])
    /\ \A line \in ConfigLines : \A i \in DOMAIN line :
         /\ line[i].arg = "--profile" => line[i].word \in DOMAIN ProfileNames
         /\ line[i].arg = "--set" =>
              /\ line[i].key = "mode" => line[i].word \in DOMAIN ModeNames
              /\ line[i].key = "profile" => line[i].word \in DOMAIN ProfileNames

\* What a file holds: nothing, a text that is no configuration, or one that is.
\* Whoever wrote it tells two texts apart that parse to the same.
NoText == [there |-> FALSE, parses |-> FALSE, config |-> Defaults, by |-> "nobody"]
Unparsable(by) == [NoText EXCEPT !.there = TRUE, !.by = by]
Parsable(config, by) ==
    [there |-> TRUE, parses |-> TRUE, config |-> config, by |-> by]

\* std::fs::write that was cut off: an empty file and a file that ends after the
\* line of a key are configurations, with the built-in values of the other keys.
CutShort(config) ==
    {Unparsable("winkit")} \cup
    {Parsable([k \in DOMAIN config |->
                 IF \E i \in 1..n : Keys[i] = k THEN config[k] ELSE Defaults[k]],
              "winkit") : n \in 0..Len(Keys)}

\* The file --config names, the one WIN_KIT_CONFIG names, and the two places of
\* the working directory, in the order they are looked at.
WellKnown == <<"winkit.toml", "config/winkit.toml">>
ConfigFile == {"given", "named"} \cup Range(WellKnown)

VARIABLES
    cfgstep,    \* the next step of the command
    command,    \* its request: the tool, its arguments, the environment
    texts,      \* [ConfigFile -> what is in it]
    loaded,     \* what load_for_cli returned
    changed,    \* the configuration with the changes applied
    keptTexts,  \* the backups
    saves,      \* the texts the user saved over while the command ran
    doctorSays, \* what the command said
    before      \* history: the files as the command found them

cfgVars ==
    <<cfgstep, command, texts, loaded, changed, keptTexts, saves, doctorSays, before>>

NoCommand ==
    [tool |-> "none", line |-> <<>>, explicit |-> "none", env |-> "none",
     machine |-> [os |-> "windows", arch |-> "x86_64", exe |-> TRUE,
                  loopback |-> TRUE, free |-> -1, elevated |-> FALSE]]
NoDoctor == [said |-> "nothing", failed |-> {}, config |-> Defaults]

------------------------------------------------------------------------------
(***************************************************************************)
(* Loading.                                                                *)
(***************************************************************************)
resolve_config_path(explicit, env, files) ==
    LET found == {i \in DOMAIN WellKnown : files[WellKnown[i]].there}
    IN  IF explicit # "none" THEN explicit
        ELSE IF env # "none" THEN env
        ELSE IF found # {} THEN WellKnown[Min(found)]
        ELSE "none"

\* loader::load: no file at all is the defaults; a file that is named must be
\* there, and every file that is read must parse.
load(path, files) ==
    IF path = "none" THEN [ok |-> TRUE, config |-> Defaults]
    ELSE [ok |-> files[path].there /\ files[path].parses,
          config |-> files[path].config]

\* load_for_cli: a command goes on with the defaults and keeps the error.
load_for_cli(explicit, env, files) ==
    LET path == resolve_config_path(explicit, env, files)
        result == load(path, files)
    IN  [path |-> path, error |-> ~result.ok,
         config |-> IF result.ok THEN result.config ELSE Defaults]

\* main: the server starts when the file loads and its mode is one; it runs with
\* the default profile when the profile is not one (ToolRegistry::build).
Starts(explicit, env, files) ==
    LET result == load(resolve_config_path(explicit, env, files), files)
    IN  result.ok /\ ModeNames[result.config.mode] # {}
ProfileInEffect(config) ==
    IF ProfileNames[config.profile] = {} THEN "developer"
    ELSE CHOOSE p \in ProfileNames[config.profile] : TRUE

------------------------------------------------------------------------------
(***************************************************************************)
(* winkit doctor.                                                          *)
(***************************************************************************)
Check(holds) == IF holds THEN "pass" ELSE "fail"
check_os(m) == Check(m.os = "windows" /\ m.arch \in {"x86_64", "aarch64"})
check_native_binary(m) == Check(m.exe)
check_elevation(m) == IF m.elevated THEN "pass" ELSE "skip"

\* A file that does not load is judged by check_config, and the built-in values by the
\* other two.
check_config(l) == Check(~l.error)
check_permission_mode(config) == Check(ModeNames[config.mode] # {})
check_tool_profile(config) == Check(ProfileNames[config.profile] # {})

\* Building the server and one initialize: its lifecycle is new, so that
\* initialize succeeds whenever the state can be built (AppState::with_backend).
check_mcp_initialize(config, m) ==
    IF m.os # "windows" THEN "skip" ELSE Check(ModeNames[config.mode] # {})

\* What the machine has left: a loopback port, and more free bytes than the
\* threshold; -1 when they cannot be measured.
check_loopback_port(m) == Check(m.loopback)
check_disk_space(config, m) == Check(m.free > config.low_disk)

doctor_checks(l, m) ==
    [os |-> check_os(m), launcher_version |-> "pass",
     native_binary |-> check_native_binary(m), config |-> check_config(l),
     permission_mode |-> check_permission_mode(l.config),
     tool_profile |-> check_tool_profile(l.config), enabled_providers |-> "pass",
     mcp_initialize |-> check_mcp_initialize(l.config, m),
     loopback_port |-> check_loopback_port(m), disk_space |-> check_disk_space(l.config, m),
     telemetry |-> "pass", elevation |-> check_elevation(m)]

\* is_required_check: the checks of the machine's condition are told, not judged.
RequiredChecks ==
    {"os", "launcher_version", "native_binary", "config", "permission_mode",
     "tool_profile", "mcp_initialize", "telemetry"}
DoctorFailures(checks) == {id \in RequiredChecks : checks[id] = "fail"}

------------------------------------------------------------------------------
(***************************************************************************)
(* winkit configure.                                                       *)
(***************************************************************************)
\* The arguments are read in order, and the first that is wrong or asks for help
\* ends the command.  An argument is a record [arg, key, word, number]; number is
\* -1 when the word is not one.
ArgumentSays(a) ==
    CASE a.arg = "--help" -> "help"
      [] a.arg \in {"--dry-run", "--write", "--set"} -> "run"
      [] a.arg = "--profile" /\ ProfileNames[a.word] # {} -> "run"
      [] OTHER -> "usage"
LineSays(line) ==
    LET stops == {i \in DOMAIN line : ArgumentSays(line[i]) # "run"}
    IN  IF stops = {} THEN "run" ELSE ArgumentSays(line[Min(stops)])
Places(line, arg) == {i \in DOMAIN line : line[i].arg = arg}

parse_on_off(word) ==
    CASE word \in {"on", "true", "1"}   -> {TRUE}
      [] word \in {"off", "false", "0"} -> {FALSE}
      [] OTHER                          -> {}

\* Mutant: a number is taken whatever its size.
set_u64_of_any_size(number) == {number}

\* set_u64 and the like: the number, if it is one in the range of its key.
set_u64(number) == {number} \cap (LowestValue..HighestValue)

\* The value that apply_set gives the key, if it accepts the word.
Accepted(a) ==
    CASE a.key = "mode" -> ModeNames[a.word]
      [] a.key = "profile" -> ProfileNames[a.word]
      [] a.key = "external" -> parse_on_off(a.word)
      [] a.key = "low_disk" -> set_u64(a.number)
      [] OTHER -> {}

TheOne(S) == CHOOSE v \in S : TRUE

\* One --set that is refused refuses the command.
AllAccepted(line) == \A i \in Places(line, "--set") : Accepted(line[i]) # {}

\* The last --profile first, and then one --set after the other: the last of a key
\* counts.
Applied(config, line) ==
    LET named == Places(line, "--profile")
        SetsOf(k) == {i \in Places(line, "--set") : line[i].key = k}
    IN  [k \in DOMAIN config |->
           IF SetsOf(k) # {} THEN TheOne(Accepted(line[Max(SetsOf(k))]))
           ELSE IF k = "profile" /\ named # {}
           THEN TheOne(ProfileNames[line[Max(named)].word])
           ELSE config[k]]

\* configure_summary: the mode as it is parsed, or that it is invalid; the rest as
\* it is configured, though the server replaces a profile that is none.
configure_summary(l) ==
    [l.config EXCEPT !.mode = IF ModeNames[@] = {} THEN "invalid"
                              ELSE TheOne(ModeNames[@])]

------------------------------------------------------------------------------
ConfigIdle ==
    /\ cfgstep = "idle" /\ command = NoCommand
    /\ texts = [f \in ConfigFile |-> NoText]
    /\ loaded = [path |-> "none", error |-> FALSE, config |-> Defaults]
    /\ changed = Defaults /\ keptTexts = {} /\ saves = {}
    /\ doctorSays = NoDoctor /\ before = texts

\* A command is given, in a working directory that holds what it holds.  At most
\* two of the files are there.
Give ==
    /\ cfgstep = "idle"
    /\ \E f, g \in ConfigFile, s, t \in UserTexts \cup {NoText},
          e \in {"none", "given"}, n \in {"none", "named"},
          tool \in {"doctor", "configure"} :
         LET files == [[p \in ConfigFile |-> NoText] EXCEPT ![f] = s, ![g] = t]
         IN  /\ texts' = files /\ before' = files
             /\ \E m \in Machines, line \in ConfigLines :
                  command' = [tool |-> tool, explicit |-> e, env |-> n,
                              line |-> IF tool = "doctor" THEN <<>> ELSE line,
                              machine |-> IF tool = "doctor" THEN m
                                          ELSE NoCommand.machine]
    /\ cfgstep' = "load"
    /\ UNCHANGED <<loaded, changed, keptTexts, saves, doctorSays>>

Say(said) ==
    /\ doctorSays' = [said |-> said, failed |-> {}, config |-> changed']
    /\ cfgstep' = "said"

\* A command line that is not to be run says so before anything is read.
RefuseLine ==
    /\ cfgstep = "load" /\ command.tool = "configure"
    /\ LineSays(command.line) # "run"
    /\ changed' = changed /\ Say(LineSays(command.line))
    /\ UNCHANGED <<command, texts, loaded, keptTexts, saves, before>>

DoctorRun ==
    /\ cfgstep = "load" /\ command.tool = "doctor"
    /\ loaded' = load_for_cli(command.explicit, command.env, texts)
    /\ LET failed == DoctorFailures(doctor_checks(loaded', command.machine))
       IN  doctorSays' = [said |-> IF failed = {} THEN "ok" ELSE "not ok",
                       failed |-> failed, config |-> loaded'.config]
    /\ cfgstep' = "said"
    /\ UNCHANGED <<command, texts, changed, keptTexts, saves, before>>

\* configure_run up to the write: no change is a summary, a refused one refuses
\* all of them, and without --write, or with --dry-run, nothing is written.
ConfigureRun ==
    /\ cfgstep = "load" /\ command.tool = "configure"
    /\ LineSays(command.line) = "run"
    /\ loaded' = load_for_cli(command.explicit, command.env, texts)
    /\ changed' = IF AllAccepted(command.line) THEN Applied(loaded'.config, command.line)
                  ELSE loaded'.config
    /\ LET Given(arg) == Places(command.line, arg) # {}
       IN  IF ~AllAccepted(command.line) THEN Say("refused")
           ELSE IF ~Given("--profile") /\ ~Given("--set")
           THEN /\ doctorSays' = [said |-> "summary", failed |-> {},
                                  config |-> configure_summary(loaded')]
                /\ cfgstep' = "said"
           ELSE IF ~Given("--write") \/ Given("--dry-run") THEN Say("dry run")
           ELSE cfgstep' = "back up" /\ UNCHANGED doctorSays
    /\ UNCHANGED <<command, texts, keptTexts, saves, before>>

Destination == IF loaded.path = "none" THEN "winkit.toml" ELSE loaded.path

\* write_config_file: what is there is copied first.
BackUpConfig ==
    /\ cfgstep = "back up"
    /\ keptTexts' = keptTexts \cup
          (IF texts[Destination].there THEN {texts[Destination]} ELSE {})
    /\ cfgstep' = "truncate"
    /\ UNCHANGED <<command, texts, loaded, changed, saves, doctorSays, before>>

\* The directory cannot be made, or the copy fails.
BackUpConfigFails ==
    /\ cfgstep = "back up"
    /\ changed' = changed /\ Say("failed")
    /\ UNCHANGED <<command, texts, loaded, keptTexts, saves, before>>

\* std::fs::write opens the file, which empties it; it may fail to.
TruncateConfig ==
    /\ cfgstep = "truncate"
    /\ texts' = [texts EXCEPT ![Destination] = Parsable(Defaults, "winkit")]
    /\ cfgstep' = "write"
    /\ UNCHANGED <<command, loaded, changed, keptTexts, saves, doctorSays, before>>

TruncateConfigFails ==
    /\ cfgstep = "truncate"
    /\ changed' = changed /\ Say("failed")
    /\ UNCHANGED <<command, texts, loaded, keptTexts, saves, before>>

WriteConfig ==
    /\ cfgstep = "write"
    /\ texts' = [texts EXCEPT ![Destination] = Parsable(changed, "winkit")]
    /\ changed' = changed /\ Say("wrote")
    /\ UNCHANGED <<command, loaded, keptTexts, saves, before>>

\* The write fails part way: the error is told and nothing is put back.
WriteConfigFails ==
    /\ cfgstep = "write"
    /\ \E cut \in CutShort(changed) : texts' = [texts EXCEPT ![Destination] = cut]
    /\ changed' = changed /\ Say("failed")
    /\ UNCHANGED <<command, loaded, keptTexts, saves, before>>

\* The process is killed; what it was writing is cut off.
KillCommand ==
    /\ cfgstep \in {"load", "back up", "truncate", "write"}
    /\ IF cfgstep = "write"
       THEN \E cut \in CutShort(changed) : texts' = [texts EXCEPT ![Destination] = cut]
       ELSE UNCHANGED texts
    /\ changed' = changed /\ Say("killed")
    /\ UNCHANGED <<command, loaded, keptTexts, saves, before>>

\* The user saves the file in an editor while configure runs, once.
SaveConfig ==
    /\ cfgstep \in {"back up", "truncate", "write"} /\ saves = {}
    /\ saves' = {[text |-> texts[Destination], at |-> cfgstep]}
    /\ texts' = [texts EXCEPT ![Destination] = Parsable([Defaults EXCEPT !.mode = "safe"],
                                                        "editor")]
    /\ UNCHANGED <<cfgstep, command, loaded, changed, keptTexts, doctorSays, before>>

EndCommand ==
    /\ cfgstep = "said"
    /\ cfgstep' = "idle" /\ command' = NoCommand
    /\ texts' = [f \in ConfigFile |-> NoText] /\ before' = texts'
    /\ loaded' = [path |-> "none", error |-> FALSE, config |-> Defaults]
    /\ changed' = Defaults /\ keptTexts' = {} /\ saves' = {} /\ doctorSays' = NoDoctor

ConfigNext ==
    \/ Give \/ RefuseLine \/ DoctorRun \/ ConfigureRun
    \/ BackUpConfig \/ BackUpConfigFails \/ TruncateConfig \/ TruncateConfigFails
    \/ WriteConfig \/ WriteConfigFails \/ KillCommand \/ SaveConfig \/ EndCommand

------------------------------------------------------------------------------
ConfigTypeOK ==
    /\ cfgstep \in {"idle", "load", "back up", "truncate", "write", "said"}
    /\ DOMAIN texts = ConfigFile /\ loaded.path \in ConfigFile \cup {"none"}
    /\ \A s \in saves : s.at \in {"back up", "truncate", "write"}

\* write_config_file: whatever step fails or is killed, the text the command
\* found in the file is still there or is in a backup, unless the user saved over
\* it; so is what the user saved before the backup was made.
OldTextKept ==
    command.tool = "configure" /\ before[Destination].there =>
        /\ \/ before[Destination] \in {texts[Destination]} \cup keptTexts
           \/ \E s \in saves : s.text = before[Destination]
        /\ \A s \in saves : s.at = "back up" /\ doctorSays.said = "wrote" =>
               \E t \in keptTexts : t.by = "editor"

\* configure_run: when it says it wrote, and nobody saved meanwhile, the server
\* that is started the same way loads exactly what was announced; it starts if it
\* started before, and a number that was in range or was set is in range.
WroteWhatWasSaid ==
    doctorSays.said = "wrote" /\ saves = {} =>
        LET now == load_for_cli(command.explicit, command.env, texts)
            was == load_for_cli(command.explicit, command.env, before)
        IN  /\ ~now.error /\ now.config = doctorSays.config
            /\ \A k \in DOMAIN now.config : now.config[k] # was.config[k] =>
                  \E i \in 1..Len(command.line) :
                     command.line[i].key = k \/ command.line[i].arg = "--profile"
            /\ Starts(command.explicit, command.env, before)
                 => Starts(command.explicit, command.env, texts)
            /\ was.config.low_disk \in LowestValue..HighestValue
                 => now.config.low_disk \in LowestValue..HighestValue
            /\ \A f \in ConfigFile \ {now.path} : texts[f] = before[f]

\* configure_run leaves the files as they were unless the whole command line is
\* good and asks for the write: not for help anywhere in it, not when one --set
\* among good ones is refused, not with --dry-run before or after --write.
NothingElseWrites ==
    doctorSays.said \in {"help", "usage", "refused", "summary", "dry run"}
        => texts = before /\ keptTexts = {}

\* doctor says ok on a machine WinKit supports exactly when the server would
\* start on this configuration with the profile it names (doctor_run, main).
DoctorAgrees ==
    command.tool = "doctor" /\ doctorSays.said \in {"ok", "not ok"} =>
        (doctorSays.said = "ok" <=>
            /\ Starts(command.explicit, command.env, texts)
            /\ ProfileInEffect(doctorSays.config)
                 \in ProfileNames[doctorSays.config.profile]
            /\ command.machine.os = "windows" /\ command.machine.exe
            /\ command.machine.arch \in {"x86_64", "aarch64"})

\* configure_summary tells a mode exactly when the server would take one from the
\* file, and then the one it runs in; a file that does not load is told as the
\* defaults, which is the one case where the server does not start.
SummaryTells ==
    doctorSays.said = "summary" =>
        /\ Starts(command.explicit, command.env, texts)
             <=> ~loaded.error /\ doctorSays.config.mode # "invalid"
        /\ Starts(command.explicit, command.env, texts)
             => doctorSays.config.mode
                  \in ModeNames[load(resolve_config_path(command.explicit, command.env,
                                                         texts), texts).config.mode]

\* Whichever step of configure fails or is killed, and whenever an editor saves the
\* file in between, the user's text is in the file or in a backup (`write_config_file`);
\* nothing is written but what was announced (`configure_run`, `apply_set`); and the
\* server, doctor and the summary agree on what the file means (`load`,
\* `doctor_checks`, `configure_summary`).
ConfigurationSound ==
    /\ ConfigTypeOK /\ OldTextKept /\ WroteWhatWasSaid
    /\ NothingElseWrites /\ SummaryTells /\ DoctorAgrees

=============================================================================
