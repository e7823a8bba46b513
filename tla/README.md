# WinKit: a TLA+ verification project

WinKit is an MCP server for Windows, written in Rust. A coding agent starts
`winkit start`, writes JSON-RPC lines to its standard input and reads replies
from its standard output; the tools it calls read processes, ports, services,
event logs, hardware and files. `winkit install` and `winkit init` register the
server in the agents' own configuration files.

This directory models that program in TLA+, checks the models with TLC on small
instances, and proves what matters most of them for every value of the
constants with TLAPS. Paths below are relative to the repository (`src/...` is
its crate source).

Contents: [inventory](#inventory) · [the modules](#the-modules) ·
[what the runs check](#what-the-runs-check) · [fairness](#fairness) ·
[what is proved](#what-is-proved) · [limits of the models](#limits-of-the-models) ·
[where the code and its documents differ](#where-the-code-and-its-documents-differ) ·
[plan](#plan) · [running it](#running-it)

## Inventory

The whole server is one task on a current-thread tokio runtime (`src/main.rs`):
it takes a line, handles it to the end, writes the reply, and takes the next.
What is concurrent with it is the client, the blocking pool, the clock, the
world the tools observe, and, for the CLI, the user and other commands editing
the same files.

| Part | State | Operations | Talks to | What is hard, what makes it correct |
|---|---|---|---|---|
| **Session**: `server/transport.rs`, `protocol.rs`, `lifecycle.rs` | place in the loop, `initialized`, `client_name` | take a line, one arm per method, write a frame | the client by lines; `registry::call_tool` by an awaited call | pipelined lines, a client that closes either pipe. Replies in order, once each, none dropped; the handshake gate; termination |
| **Dispatch**: `server/registry.rs`, `profiles.rs`, `tools/mod.rs`, `permissions/` | none (configuration is fixed at startup) | check of the name, the capability, the disabled list, the profile, the arguments; `tools/list` | session above, handlers below | the checks are in two functions and the listing in a third. Nothing runs that is not both listed and permitted |
| **Tool runtime**: `tools/mod.rs:314`, `utils/blocking.rs`, the handlers | the awaited step, timers, the blocking pool and its queue | offload, probe with a budget, sleep, inline work, timeout, runtime drop | the pool also reads stdin and writes stdout | work outlives the call that started it; a hung driver. Calls end, late results reach nobody, abandoned work is reported, the process exits |
| **Waits**: `utils/wait.rs` under `wait_for_port/http/process` | attempts, deadline | check, sleep, give up | the world; the timeout around the tool | a condition that changes between checks, late timers, clamps and an attempt cap. Never cut short, readiness not missed, bounded overshoot |
| **Configuration edits**: `cli.rs` install, init | the user's file and its backups | read, merge, ask, back up, overwrite, restore | the user and the agent saving the same file; a second command | a kill between any two steps, failed writes and failed restores, reruns. The user's last save is recoverable, each run is all or nothing or says so |
| **Skill installation**: `cli.rs:1568-1816` | a directory and its backups | compare, back up, verify, remove, copy, restore | follows the configuration edits of the same command; several agents share one destination | a kill at any file, two commands at once, reruns over what they left, two backups in one millisecond. The user's version is recoverable, and what is reported is what is left |
| **configure, doctor**: `cli.rs`, `main.rs` | WinKit's own TOML and its backup | load, change, back up, rewrite; verdicts | configuration loader; an editor saving the same file | a cut-off file refuses the next start, or loads with defaults. The old text is in the file or in a backup; what is written is what was announced; server, doctor and summary agree |
| **Configuration**: `config/` | values read once | defaults, bounds, validation | everybody | `max_concurrent_diagnostics` is declared and enforced nowhere |
| **Arguments**: `tools/mod.rs` | none | `validate_args`, `optional_*`, `required_*`, `clamp_limit`, `list_envelope` | every handler | `u64` cut to `u32` before its range check; a check and a reader written apart. Limits hold, what conforms is served, what is unknown, missing or ill-typed is refused |
| **Reports**: `models/evidence.rs` | findings, checked areas, detail level | add, sort, project | workflow tools | a failed query reported as a clean area; the compact level cuts. The status never promises more than the core reads allow, nothing worse is cut than what stays |
| **Workflows**: `tools/workflows.rs` | samples, partial results | trends, web app, failures, workspace | providers, waits, HTTP probe | sampling on absolute times against a deadline; a machine that changes between two reads. Gaps are said, the schedule is kept |
| **Diagnosis**: `diagnostics/` | none (pure) | thresholds, signals, ranking, checked-clean | health providers | boundaries; an unmeasured dimension listed as clean. Evidence behind every verdict; two tools judge alike |
| **History**: `tools/stability.rs`, `events.rs`, `platform/windows/events.rs` | event handles | query, merge, de-duplicate, classify | two event logs | record ids of independent logs; handles of the rest of a batch. Nothing lost in silence, the last shutdown is the newest before the boot |
| **Files and workspace**: `utils/filesys.rs`, `tools/files.rs`, `utils/workspace.rs` | budgets of a walk | walk, read, search | file system | a budget subtracted from shares; four limits at four places. What is left out is said; nothing outside the root is read |
| **URL and HTTP probe**: `utils/url.rs`, `webapp.rs`, `http.rs` | redirects, deadline | check, connect, read, follow | a local server | a deadline per read; the policy at each hop, within the hop limit |
| **Version probe**: `platform/windows/dev.rs` | a child, two reader threads | spawn, poll, kill, collect | dev tools on PATH | a grandchild that keeps the pipes open. The file is the first of the search, the probe ends in time, and its version is the child's |
| **Process tools**: `processes.rs` (tools and platform) | one snapshot, handles by PID | list, find, get, tree | Windows | PIDs change hands between snapshot and handle; parent cycles. One row is of one process; what is cut is said |
| **Tables**: `network.rs`, `services.rs` | one copy of a table | size, fetch, join with names | Windows | a table that grows between sizing and fetch, rows that change hands |
| **Application groups**: `platform/windows/health.rs` | two samples of CPU time | aggregate, pause, charge | system_health, trends | PIDs that change hands during the pause; cycles of parents |
| **Network diagnosis**: `network_diag.rs`, `wifi.rs` | adapters, echoes, a resolver thread | read, ping, resolve, conclude | gateway, resolver | a resolver that answers late, echoes that get lost, reads that fail |
| **Device health**: `storage_health.rs`, `power.rs` | several sources of one reading | query, combine | WMI, drive handles | each source fails alone; the plug moves between two reads |
| **Other providers**: `providers/`, the rest of `platform/windows/` | handles of one call | Win32, WMI, PDH, registry reads | tools | I/O and decoding |
| **Mock provider and evaluation scenarios**: `providers/mock.rs`, `tests/` | fixtures | — | tests | read here as evidence of what is intended |
| **Redaction, time, log helpers**: `utils/` | none | string processing | reports | nothing a state machine adds |
| **npm launcher**: `npm/` | none | pick a binary, pass on the exit code | the user | packaging |

`PROJECT.json` lists the same parts with their status, and every hazard at the
line where it bites.

## The modules

| Module | Models | State | Actions and the code they stand for |
|---|---|---|---|
| `SessionContract` | what a session promises, with no code in mind | `lines`, `consumed`, `replies`, `live` | a line arrives; a line is consumed and, if its outcome is not silence, answered; the session ends |
| `McpSession` | the session | `lines`, the two pipes, `loop`, `taken`, `reply`, `initialized`, `client_name`, `replies` | the client's three; `run` (take, reject, skip, fail, end); one action per arm of `handle_message`; `write_frame` and its failure |
| `ToolDispatch` | dispatch and permissions, as pure operators | — | `Gate` (all checks of a call, in order), `Listed` (tools/list), `Allowed`, `Granted` |
| `ToolRuntime` | how a call runs; extends `ToolDispatch` | `config`, the loop's `phase`, `call`, `tool`, `pc`, `late`, `expired`, `skipped`, the pool (`queue`, `running`, `hung`, `done`), `answers` | `ReceiveCall` is the whole way from stdin to the handler's first wait; `InlineEnds`, `Resume`, `BudgetElapses`, `SleepEnds`, `TimeoutFires` are the ways a handler leaves a step; `FrameWritten`, `StdinCloses`, `Exit` close the loop; `PoolStarts`, `JobEnds`, the two timers and `Hang` are the surroundings |
| `WaitCondition` | one bounded wait | settings, `now`, `wstep`, `since`, `attempts`, the condition and its history, `outcome` | `CheckSucceeds`, `GiveUp`, `Sleep`, `CheckAgain` are the branches of the loop in `wait_for_condition`; `ToolTimesOut` is the tool's; `Flip` and `Tick` are the world |
| `ConfigInstall` | one agent's configuration file under install and init | the file, its backups, per command `pc`, `mode`, `merged`, `bak`, `result`; history variables for the properties | one action per step of `install`, `init`, `write_init_file`, `write_with_restore` and `backup_file`, success and failure; `Kill`, `Save` |
| `SkillInstall` | one skills directory under install, served once per agent that uses it | `dest`, `backups` by name, per command `pc`, `todo`, `stamp`, `left`, `status`; history variables for the properties | `Start` is the gate on the MCP phase; `Look`, `Check` the two comparisons with the source; `BackUpFile`, `Verify`; `ClearFile`, `Cleared`, `MakeDir`, `CopyFile`, `Finish`; `CopyFails`, `WipeFile`, `Wiped`, `RestoreFile`, `Restored`; `Fails`, `Kill`, `Save` |
| `EvidenceReport` | the report envelope, as pure operators | — | `AddFinding`, `SortFindings`, `FinalizeStatus`, `MarkLimited`, `Project` |
| `HttpProbe` | one GET of a local URL | `policy`, `hstep`, `spent`, `remaining`, `contacts`, `result` | the policy, one action per stage of an attempt and per kind of peer, `Redirected` for the next hop |
| `WorkflowReports` | diagnose_workspace, diagnose_local_webapp, correlate_recent_failures, list_dev_servers; extends the two above | the call, its step, `report`, what was `found`, `answer` | one action per provider that a handler asks, success and failure |
| `FindingScores` | the scores of `diagnostics/findings.rs` | — | one operator per score |
| `SystemDiagnosis` | system_health, system_diagnose | `dtool`, its step, `data`, what failed, `verdict` | one action per read, its failure, the second memory sample, the verdict |
| `TrendSampler` | system_health_trend | `clock`, `index`, the targets, `points`, `remarks`, `trend` | resolve, measure, `SleepToTarget`, classify |
| `BoundedFiles` | find_files, directory_overview, read_text_file, the scan of a workspace | the call, what is pending, the budgets, what was entered and opened, the reply | resolve, one action per kind of directory entry, per child of an overview, per file of a scan; a file that grows while it is read |
| `EventHistory` | the event tools | the call, its queries, handles held, entries, the reply | one action per step of a query and per mishap of Windows; joining and classification |
| `VersionProbe` | dev_environment | the path, the child and its grandchild, both pipes, both threads, `elapsed` | look-up, spawn, poll, kill, both `recv_timeout`, and what the child does |
| `Rankings` | the sorts of the listings, as pure operators | — | `Ranked`, `Ascending` |
| `ProcessListing` | list_processes, find_process, get_process, get_process_tree | the table, the snapshot, rows so far, the reply | snapshot, `OpenProcess` or `OpenDenied`, sort and cut, `VisitNode` and `ReadFigures` of `build_node`; processes that exit and start |
| `ToolArguments` | validate_args and the readers of numbers | the schema, the arguments, the reply | check, read, clamp, list |
| `Configuration` | the loader, doctor, configure | the files, the command, what is loaded, its backup | `Give`, `DoctorRun`, `ConfigureRun`, the steps of the write with success and failure, `KillCommand`, `SaveConfig` |
| `SystemTables` | tables of TCP, UDP, adapters and services | the rows, the size, the copy, the reply | size, `FetchTable`, join, answer; rows that come, go and change hands |
| `ApplicationGroups` | application_groups | the table, the samples, the groups, the reply | open, aggregate, cut, sample twice, charge; processes that work, end and start |
| `NetworkDiagnosis` | network_diagnose, network_snapshot | adapters, `echoes`, the resolver, time `probed`, the answer | adapters, ICMP handle, each echo, the resolver's answer or its timeout, conclusions |
| `DeviceHealth` | disk_health, battery_status, power_status | disks, raw power, battery, `plugged`, the answer | one action per source and its failure, and the plug |
| `DiagnosticTools` | all from `WorkflowReports` to here, side by side | `served` | one of the fourteen components goes through its calls |
| `MC*` | the instances of the above for TLC | | |
| `*_proofs` | the theorems | | |

How they compose. `ToolRuntime` is built on `ToolDispatch` and is what stands
behind the one step `BeginCall`/`CallReturns` of `McpSession`: a call returns
one of the results of the dispatcher, and returns at all. `ToolRuntime` says
when it does. `WaitCondition` refines a handler made of checks and sleeps, and
keeps the timeout around the tool as `ToolTimeout`. `McpSession` implements
`SessionContract` through a refinement mapping: `consumed` is `taken`, less the
line whose reply is still owed, and `live` is that the loop has not ended.

The modules from `EvidenceReport` on model what the handlers compute, which
`ToolRuntime` leaves out. `WorkflowReports` takes its probes' answers from
`HttpProbe` (`ProbeAnswers`, which `ProbeWithinPolicy` shows to be all there
are), and `SystemTables` says what the condition of a wait sees, where
`WaitCondition` says when the wait ends. Their calls share no state: every one
reads the machine and answers. `DiagnosticTools` therefore puts them side by
side rather than interleaving them, and picks by `served` which one runs; what
interleaves with a call is the machine, the peer, the child or the user, whose
steps are in the component's own module.

What is abstracted:

- A line is its fate in the transport, its method, its id, and whether its
  params hold what the method looks for. Reply bodies are their code.
- A handler is a sequence of step kinds: inline, offloaded, probed with a budget
  that ends the call or is skipped, sleeping. What it computes is left out.
- Time in `WaitCondition` is in ticks; in `ToolRuntime` a timer is a flag that
  may be raised at any moment.
- A file is whether it parses, the entries it holds, and whose layout it has.
  `fs::write` is a truncation and a write, and can stop after either; what was cut
  off is empty, does not parse, or, as a prefix of TOML may, parses with the first
  of its entries.
- A skills directory is a function from a few files to what each holds: this
  release's text, an older one, the user's, one cut off, a link, or nothing. Each
  file is copied or removed in a step of its own, in any order. The content hash
  is taken as exact; sizes, which the verification of a backup compares, are not.
- A reading that may be missing is a set of at most one element; a name is a
  number where only its order matters; wording and time stamps are left out.
- Findings are compared by id, severity and the evidence they cite.

## What the runs check

Each run is a `.cfg` file of the name `<Module>_<run>.cfg`. States are distinct
states; times are with two workers.

### session (`MCMcpSession`, 111 508 states, 25 s)

Every kind of line, three lines at most, one id, either pipe closed at any
moment.

- `AnsweredInOrder`: no line is answered twice or out of order, whatever arrives
  while a tool runs.
- `HandshakeGate`: a guarded request is refused exactly when no `initialize` or
  `notifications/initialized` was written before it.
- `NoneDropped`: a line that asks for a reply has one with its own id before the
  server moves past it.
- `ContractSpec`: the session implements `SessionContract`.
- `EveryLineConsumed`, `StopsAfterStdinCloses`: every line is reached unless
  the session fails, and closing stdin ends it.

Three lines suffice because the handler remembers one bit: a line before the
handshake, the handshake, and one after it. The theorems hold for any number.

### session_exit (violation)

`ExitEndsSession`: the comment of `transport.rs` says the loop ends at `exit`.
It does not.

### tools_calls (`MCToolRuntime`, 131 901 states, 28 s)

Four tools, one of each shape of handler; four configurations that make every
check of the gate the one that refuses; two calls; two threads in the pool.

- `AbandonedAccounted`: every job left behind is paid for by a reading the
  answer names as missing, or by a timeout. It includes the type invariant.
- `GateBeforeWork`: whatever runs, even long after its call, was listed and
  permitted.
- `NoStaleResult`: a job's result is there only for the handler that awaits
  it, so a late result never reaches the next call.
- `CallsEnd`, `FramesGetOut`, `Drains`: calls end whatever hangs in the pool;
  frames leave unless hung jobs took every thread; the process exits unless a
  job hangs. Each names the exception that the code really has.

Two threads and two calls are the least that let the first call exhaust the pool
and the second meet what is left. The real pool has 512 threads; none of the
properties depends on the number.

### tools_slow (violation)

`SlowCallsKilled`: `docs/security.md` says `operation_timeout_ms` kills slow
calls. A handler that works inline cannot be interrupted.

### wait_polling (`WaitCondition`, 82 201 states, 4 s)

Timeouts and intervals below, inside and above their clamps, a configured bound
below the least timeout, checks of up to two ticks, timers up to one tick late,
a tool timeout that some settings fit and others exceed. The condition may
change at every moment.

- `NeverCutShort`: the cap on attempts never ends a wait before its deadline.
- `ReadinessNotMissed`: a wait gives up only on a condition that failed within
  one check of the deadline or later.
- `OvershootBounded`: it lasts at most one interval, one check and one late
  timer beyond the deadline, and a bare `Timeout` error means that this did not
  fit the tool's own timeout.
- `Returns`: every wait returns.

### wait_deadline (violation)

`AbsoluteDeadline`: the comment of `wait.rs` says a caller never waits longer
than the server's deadline. It can, by the overshoot above.

### config_merge (`MCConfigInstall`, 2 605 734 states, 60 s)

Two commands in every mode, two runs between them, one save by the user, every
initial text. Symmetric in the commands; the run checks safety only, for which
that is sound.

- `Recoverable`: the user's last save is in the file or in a backup. The one
  exception, stated in the property, is a save between a command's backup and the
  end of its write.
- `AllOrNothing`: an undisturbed run writes the whole merge or leaves the file
  as it was, or reports that it did neither with the original in a backup.
- `OverwritesOnlyMergeable`: without `--force`, only a file that parsed and was
  not registered is overwritten.

Three runs exceed five minutes; the theorems cover any number of them.

### skill_race (`MCSkillInstall`, 674 088 states, 40 s)

Two commands, two agents that share the destination, served by one command or by
one each; a skill of two files, two backup names, one edit by the user. Every
step may fail and every command be killed after any file. Symmetric in commands
and names; safety only.

- `Recoverable`: the skill as the user last left it is in the destination or in
  a backup, file for file. The exceptions are stated in the property: an edit
  while a command is replacing the directory, and two backups of one name.
- `ReportedAsLeft`: a command that nobody disturbed leaves exactly this release
  where it reports success, and what it found, there or in a backup, where it
  fails or is killed.

### skill_rerun (`MCSkillInstall`, 340 678 states, 20 s)

One command and a rerun, over a directory that may hold a third file, one the
release does not ship: `TypeOK` and `Recoverable`. It shows that a rerun after a
kill does not take a half-copied directory for the original.

Three files and two commands together have 4.1 million states and take just
under five minutes; the theorems cover any number of both.

### diagnostic_calls (`MCDiagnosticTools`, 275 338 states, 90 s)

Fourteen components, each through a handful of calls chosen so that every branch
of its handlers is taken; one property each, with the parts that its module
names, and the exceptions that it states.

- `ProbeWithinPolicy`: whatever chain of redirects the peers build, every
  address dialled satisfies the policy, at most `max_redirects + 1` of them, none
  after the deadline. Peers may refuse, be silent, send in pieces or redirect
  anywhere; the deadline is one tick, so that a read can use it up.
- `ReportSound`: a report that lost a core read (the listeners, a port, the memory,
  the logs of a correlation) is never "ok"; every finding cites evidence of the full
  report, of which the compact one drops the evidence; that one cuts nothing
  worse than what it keeps; an unreachable port yields one connection finding and
  none of the HTTP outcome. Every provider may fail or contradict another.
- `DiagnosisSound`: nothing is concluded from, or called clean about, what
  was not read; "full" means that the groups and a sample of the memory were;
  system_health and system_diagnose judge the same readings alike.
- `TrendHonest`: each measurement starts on the absolute schedule, or as late as the
  sleep or the measurement before it made it; none starts at or after the end of
  the window but the one due then; and every gap is a limitation of the answer. The
  moment at which each starts is recorded for this.
- `GroupsSound`: a tree is complete and counted once even in a cycle of
  parents, the limit cuts only the smaller groups, and a group is charged only
  with what its processes did, unless a PID changed hands.
- `FilesSound`: nothing outside the root is opened, and what a budget makes a walk,
  an overview, a scan or a slice leave out is said. Not said, and named in the
  property: what is deeper than a walk was asked to go, and what is in a directory
  that a scan, or the root that an overview, cannot read. One small tree with a link
  out of the root, an unreadable directory with something in it, a secret, both
  kinds of repository, a file that vanishes and one that grows or shrinks; calls
  that meet each limit.
- `HistorySound`: a query that Windows does not break off loses no event in
  silence, and none leaves more handles than a batch; the joined history has every
  entry, save one with the record id of another; the last shutdown is the newest
  before the boot.
- `VersionSound`, `ProbeEnds`: the file run is the first by directory of PATH and,
  within one, by extension, the bare name last; the probe ends within its three
  waits, leaves no child, and tells the first line the child wrote, although a
  grandchild may hold the pipes. Pipes of one chunk let a full pipe block the
  child.
- `ProcessesSound`: a listing leaves out only what it says it cuts, never
  the heaviest; the figures of get_process are of one process although its PID is
  opened three times; a tree has every descendant to its depth unless it ran out
  of nodes. One process may exit or start at any moment.
- `TablesSound`: what is told of a table was so at some moment of the
  call, a row that stayed is not left out, a call fails only for a reason, and a
  wait completes only with what it waits for.
- `ArgumentsSound`: no argument takes a handler outside its limits; what conforms to
  the schema is served as asked; what is unknown, missing, ill-typed or outside its
  enum is refused; what is only out of range is moved into it, except that a
  negative integer counts as not passed and a long one as its low word; a cut
  listing says so. A configured limit of zero ends the process where an argument is
  clamped to it, and nowhere else does a call. Words of 4 bits: the numbers reach
  twice around.
- `ConfigurationSound`: killed or failing anywhere, configure leaves the
  old text in the file or a backup and writes nothing but what it announced;
  server, doctor and summary agree on what the file means.
- `NetworkSound`: an outage is claimed only when the resolver failed and
  never hidden, "full" means everything was read, a reading is put down where it
  was measured, and the probes fit the tool's budget with the ICMP handle closed.
- `DevicesSound`: no disk is dropped or called healthy unread, no drive
  handle stays open, a plugged battery does not discharge, and the power source
  agrees with the plug unless the plug moved.

The bounds are small because these hazards need few actors: one process that
exits, one late answer, one failed read. Two of each are given where one could
hide the other, as with PIDs that change hands or adapters that share a gateway.

### overview_budget (violation)

`HugeTreeStarvesNobody`: `docs/tools.md` says that walks share a budget "so one
huge tree cannot starve the rest". What all earlier children used is taken from
the share of each later one, so that after one that used a share up the others
are measured with nothing and reported as cut.

### failed_log (violation)

`CheckedWasRead`: `models/evidence.rs` calls `checked` the dimensions that were
checked and found clean, so a report that is not limited has none there whose read
failed. After a failed event query diagnose_workspace lists the logs there all the
same, and is as good as its other reads. A memory without a reading and an owner
whose lookup failed are listed, too; the correlation lists no signals after logs
that could not be read, but is limited.

Except in the last three runs, deadlock is not checked, because each of these systems may
rightly stop: the session ends, the process exits, a wait returns, and the client, the
commands and the saves are bounded.

## Fairness

- `McpSession`: weak fairness of the server's steps. The one task is polled
  whenever it is ready. The client owes nothing. That calls return is part of
  it, and is what `ToolRuntime` examines.
- `ToolRuntime`: weak fairness of the loop, of both timers, of the start of a
  queued job when a thread is free, and of the end of a job that does not hang.
  None of `Hang`, `ReceiveCall`, `StdinCloses`. tokio's runtime polls ready
  tasks and timers, and its pool is a FIFO queue with threads that block on it.
- `WaitCondition`: weak fairness of `Tick` and of the wait. A check is bounded
  by `MaxCheck`: probes of ports and processes are bounded system calls, the
  HTTP one has its own timeout.
- `ConfigInstall`, `SkillInstall`: none; their properties are safety properties.
- `DiagnosticTools`: weak fairness of `VersionProgress`, the version probe's own
  steps, its reader threads and its clock: the polls and `recv_timeout` are bounded
  by the system clock. None of the child, which may hang. The other components
  have only safety properties.

## What is proved

The theorems hold for every value of the constants under the named assumptions
of the modules (`NoIdAssumption`, `InputAssumption`, `BoundsAssumption`, ...).
They say that bounds are natural numbers, that inputs have the shape their type
in the code gives them, that ids are not the null id, that the lower clamp is at
most the upper one, and, of the network diagnosis, what its constants in the code
satisfy: at most five echoes, and waits that fit the tool's time together. TLC
evaluates them in every run.

**`McpSession_proofs`**: `TypeCorrect`, `RepliesInOrder`, `RepliesComplete`,
`GateHolds` and `Refinement` (`Spec => ContractSpec`). `AnsweredInOrder` and
`NoneDropped` are not inductive: nothing in them says that the pending reply
belongs to the last line taken, or that it is one its line may get. `IInv` adds

- `LoopInv`: what `loop` implies for `taken` and `reply`;
- `FlagInv`: `initialized` is exactly "a handshake line is among the lines
  handled";
- `PendingInv`: the reply about to be written is one `Outcome` allows;
- `WrittenInv`: so is every reply written, for the lines before its own.

`HandshakeGate` then follows from `WrittenInv`, since `Outcome` contains
`NotInitialized` for a guarded request exactly without a handshake; and the
refinement from `PendingInv`, one step per action.

**`ConfigInstall_proofs`**: `TypeCorrect`, `LastSaveRecoverable`,
`RunsAreHonest`, `NothingUnreadOverwritten`. The invariant has one part about
the shared file, `SafeWindow` (while any command is between its backup and its
write, the user's last save is in a backup or was raced), and one part per
command, `Local(p)`: its backup is among the backups, what it read is still
there unless it was disturbed, and what it reports is so. The steps of one
command leave the others' parts intact because overwriting the file marks them
disturbed and backups only grow (`Elsewhere`), which keeps the proof to one
lemma per action rather than one per pair.

**`SkillInstall_proofs`**: `TypeCorrect`, `LastEditRecoverable`,
`ReportsAreTrue`. A backup counts only once it is settled: as long as its own
command fills or verifies it, that command may still remove it. `Secure(dir)`
says that a settled backup holds `dir`, and what is secure stays secure
(`SecureStays`). The invariant says that whoever replaces the destination has
made the user's version secure first (`SafeWindow`), that until then it is in
the destination (`Recovering`), that a backup being filled agrees with it on the
files already copied (`Filling`), and that two commands have two backups unless
names collided (`Apart`). `Local(c)` says the same of what an undisturbed command
found and relates its report to the directory; `Underway` describes the half-made
copy. Most actions are `Ordinary` steps, for which the parts of the other
commands are kept once and for all (`Elsewhere`, `Combine`); each action then has
a lemma for its own part.

**`ToolRuntime_proofs`**: `RuntimeTypes`, `AbandonedIsAccounted`,
`WorkIsGated`, `ResultsAreFresh`. `PoolInv` says that a job is in one place of the
pool only, that it is of a call begun so far, that what is done is what the present
call waits for, and that what hangs was running. From it follows that no answer is
another call's (`NoStaleResult`). `GateInv` says that a tool that runs, or whose
job is queued, running or hung, is listed and allowed under the configuration; the
queue is where it could be lost, since a job may outlive its call. `Accounted`
bounds the jobs a call abandoned by the times it gave one up, which needs the
cardinality lemmas about queues at the head of the module.
For `WaitCondition`: `WaitTypeCorrect`, `CapHarmless`, `ReadinessSeen` and
`OvershootLimited`. The inductive part is `GridInv`: the current check or sleep
began no earlier than `(attempts - 1)` intervals after the start; with the cap
at `timeout \div interval + 2` an exhausted cap is therefore past the deadline.
`ClockInv` bounds `now` by the beginning of the current step, `SeenInv` relates
what the check may have seen to when the condition last failed to hold, and
`OutcomeInv` carries the three to the end.

**`Probes_proofs`**: the components that wait for somebody else or for the clock.

- `ProbeStaysWithinPolicy`: `ProbeInv` ties the addresses dialled to the redirects
  followed, as many before an attempt dials and one more after, and keeps the URL at
  hand one the policy accepts, so that the next one is accepted before it is dialled.
- `TrendIsHonest`: `TrendInv` says that a sample is begun no earlier than its due
  time and no later than the check against the window allows, that points are in
  order of their samples, and that a sample without a point leaves a remark. That
  the due times stay inside the window is arithmetic on `window \div samples`.
- `NetworkIsSound`: `NetworkInv` bounds the time by the waits begun
  (`EchoesWaitedFor`), says at which steps nothing was probed yet (`Unprobed`) and
  what the conclusion rests on (`Concluding`). That the first adapter with a gateway
  exists and is unique is the least-number principle (`LeastNatural`), from the
  well-foundedness of `<`.
- `VersionIsSound`: `VersionSteady` says that what was written to a pipe is what its
  thread has read and what is still in it (`NothingLost`), that a wait that did not
  run out has taken what its thread read (`TakenIsRead`), and that what is left of a
  wait and what has passed add up to the waits begun (`WaitsAddUp`). `ShimFound` is a
  lemma about the search alone: the first candidate that is there is the preferred
  one.
- `HistoryIsSound`: `QueryFlow` says that what a query asks for is found, in the batch
  or still ahead, each once, and that below `max_results` nothing readable is lost;
  `HandlesCounted` weighs the open handles against the queries that met their limit;
  `EntriesKept` says that a query that neither failed nor was cut off logged all it
  asked for. That an entry is dropped only for one of the other log
  (`DroppedForAnother`) rests on no two queries of a history asking for the same
  event (`SortsOfHistory`) and on a finite set having a first element in any strict
  order (`FirstInOrder`), which gives the last shutdown, too.
- `ProcessesAreSound`: a sort is a ranking of places, so that a listing is a selection
  of its rows without repetition (`SortedByIsSorted`), and what it leaves out ranks
  lower (`ListingIsTold`). `HandleKeeps` says that the process whose handle is open is
  the one that was read first. `build_node` is a stack of tasks: `Stacked` says how the
  depths of neighbours in it differ, `Budgeted` that the nodes told, those with
  children being built and the budget left add up to the limit, and `Descended` that
  the children of a node have a place as long as there is budget.

**`Calls_proofs`**: `ArgumentsAreSound`, `DevicesAreSound`, `TablesAreSound`,
`ConfigurationIsSound`, `WildcardMatches` and `FilesAreSound`.
For arguments the work is in the helpers: every reader of every schema gives a value
within its limits, for every integer and not only those TLC tries
(`EffectiveWithinLimits`), and what conforms to a schema is accepted and kept
(`ConformingAccepted`, `ConformingKept`). The limits are any natural numbers, zero included, as the loader
checks none of a file. `ArgumentsInv` adds where a malformed call is stopped.
`DevicesInv` relates each disk and the battery to what its sources said
(`DisksKept`, `BatteryKept`, `PlugKept`), while the plug is pulled in between.
For tables, the rows that stayed (`lasting`) become fewer and those that were
glimpsed become more, and `CopiedWell` keeps the copy between the two for the
tables that are done (`TablesDone`): nothing glimpsed twice, nothing that stayed
left out. `SizedWell` ties a failure to a change, `Missed` a failed check to what
was not there, and `ResolvedWell` each value to its row (`RowPlace`).
For the configuration, `OldTextSecured` and `EditSecured` say at which step the text
that was found and the one an editor saved are still in the file, and from which on
they must be in a backup; `Announced` says that what is to be written is fixed when
the file is read, so that `WrittenIsLoaded` can say what the server finds.
`AppliedKeepsSense` is about any line of arguments: a key changes only if it is
named, a mode stays a mode, and a number in its range stays in it.
For the files, what is below a directory and what a glob matches are recursive, and
they are reasoned about as least fixed points. `TreeAssumption` gives every node a level,
one more than its directory's, as the names in its path do; then `Under` exists and is
the least set that is closed under the entries of its members (`UnderIs`, `UnderLeast`),
by the least level of a node that would be outside. Every "all of it was visited" is an
instance of that. `FilesInv` follows the three walks: the directories that were read hang
together below the root (`Grown`), and every entry come across is still to be visited or
has become what it had to (`WalkKnows`), or that holds unless something was cut
(`OverviewKnows`, `ScanKnows`), so that with nothing left to visit nothing is missing.
`WithinBudgets` adds that the children together stay within one share. `InsideRoot` says
where everything read lies; `Confined` follows, because what is below an allowed root is
within it (`WithinGoesDown`).
`WildcardMatches` is about `wildcard_match` alone, which forgets all stars but the last:
`GlobKept` says what the loop has matched since that star, `StarTurn` and
`LeftAfterStar` that no earlier star need give up more, and the places of the loop go
further with each turn (`Further`, `TurnsGoOn`), so the furthest one with a wrong result
(`FurthestPlace`) would be followed by one that is further.

**`Reports_proofs`**: `ReportsAreSound` and `DiagnosisIsSound`, on top of the rankings of
`Probes_proofs`.
For the reports, `Filled` says that every finding cites evidence the report holds, and
`Continues` is what all but one step of a handler do to a report: it keeps its evidence
and its limits and says nothing new of the connection. It composes (`ContinuesOn`), so a
step is proved by what it adds. `LimitsTold` ties each failed core read to the report and
`ConnectionTold` says where in `diagnose_local_webapp` the one finding of the connection
comes in. A sort moves each finding to one place and none before a worse one
(`SortedIsSorted`), by the ranking of places that the listings use; so a count of ids
outlives it (`SortingKeepsIds`) and a cut keeps the worst (`ProjectionKeepsWorst`).
For the diagnosis, `ReadInTurn` says that what failed or is still to come has no
evidence, and `VerdictOfEvidence` that the answer is about what was collected. The rest
is about the two judgements as functions: every score is one (`FindingsTold`, with the
division of each band), what is clean was read (`AnalysisBacked`), and the two tools say
the same of the same readings (`AnalysisAgrees`). `ReadingsAssumption` is what the types
of the readings say: an optional reading is at most one, a drive is listed once.

**`DiagnosticTools_proofs`**: `GroupsAreSound`, and all fourteen over again for the
composition: a step of the tools is a step of the component or leaves it alone,
whichever is served. For the groups, `WalkedDown` says that what was seen is led to from
a member by a chain of parents no longer than what was seen, and that only the children
of what is still to be walked can be missing; so what is seen at the end is the tree
(`ClosedIsTree`, by the first link of a chain outside of it), in a cycle too, and the
walk looks at each process once. A sum of memory or time is the number of its units
(`SumOf`), which makes it grow with its members without an induction (`SumOfGrows`).
`TimesTold` says that a PID that kept its process has used what was listed and what was
spent since, and that a reading is between the two.

**Only model-checked**: the liveness properties (`EveryLineConsumed`,
`StopsAfterStdinCloses`, `CallsEnd`, `FramesGetOut`, `Drains`, `Returns`, `ProbeEnds`), as
tlapm proves none under fairness and knows no `ENABLED`. Every invariant and every action
property of a passing run is a theorem.

## Limits of the models

- `ToolRuntime`: the client waits for each reply before its next call, so
  stdin's buffer is empty at each read; a frame is one write job; the instance
  gives `system_diagnose` two of its four probes.
- `ToolDispatch`: whether the arguments are valid is a Boolean; `ToolArguments`
  says when they are.
- `McpSession`: protocol versions are left out; nothing branches on them after
  the handshake. The cap on a line's length is applied after the line is
  buffered, which is a matter of memory and not of this state.
- `WaitCondition`: a port or process check runs inline, and only an awaited
  check, the HTTP one, can be cut off by the tool's timeout; `awaited` chooses.
- `ConfigInstall`: backup names are distinct. They carry a time stamp in
  milliseconds, and two backups in one millisecond would share a name, the
  second replacing the first. `SkillInstall` models that collision for
  directories and excepts it from `Recoverable`. One file stands for all agents': the
  command edits them one after another and shares nothing between them. A prefix of
  TOML keeps whole entries; one cut in the middle of a value counts as not parsing.
- `SkillInstall`: one destination; that an agent may have two, served one after
  the other, adds nothing they share. `--plan`, which only reads, is left out, as
  are subdirectories. `Recoverable` is about regular files: a backup skips links,
  so a link in the old skill is in no backup once the directory is replaced.
  A removal that fails half way (`cli.rs:1737`) returns without a restore; the
  original is then in the backup only, which the error does not name.

- `DiagnosticTools`: calls do not interleave with one another. They share nothing
  but the machine, and the loop handles one at a time; work that outlives its call
  is `ToolRuntime`'s.
- `HttpProbe`: TLS, name resolution and the parsing of headers are choices of the
  peer; a body is its number of reads.
- `WorkflowReports`: a probe is one step that ends in one of `ProbeAnswers`.
- `SystemDiagnosis`: scores that the code computes in floating point are whole
  numbers, cut as the cast to `u8` cuts them; the two memory samples are a second
  apart, where the code divides by the milliseconds that passed.
- `BoundedFiles`: the tree stays as it is during a call, but for an entry that is
  gone between its listing and its reading, and for the length of a file that is
  being read. It is a finite tree with levels: a node is in one directory, a level
  above it, and only a link leads elsewhere. No name has a `*`, as Windows has it.
  Contents of manifests are left out.
- `VersionProbe`: the server's own threads run within a tick; the child need not. A
  file name is a stem and an extension, each up to case; an entry of PATHEXT that is
  not a dot and letters is left out.
- `ProcessListing`, `SystemTables`, `ApplicationGroups`: one or two changes of the
  machine per call; an exit whose PID goes to another process at once is one. A
  service's failed status is told as unknown, and states are told apart only where a
  property reads them. A failing `GetSystemTimes` ends application_groups in an error
  that tells nothing, and is left out.
- `Configuration`: one key of each kind that the commands treat differently, and
  one editor's save.
- `NetworkDiagnosis`: time in quarters of a second; two echoes, as in the code. An ICMP
  handle that is invalid but not null, which the code takes for one, loses every echo.

### Not modelled

- **Registry, displays, GPU, sensors, software, updates, windows, environment,
  Wi-Fi scan**: single reads of Windows and the decoding of what they return, with
  no state between two steps. What their handlers read of their arguments is in
  `ToolArguments`.
- **`hardware_snapshot`** joins such reads under budgets; how a budget elapses is
  `ToolRuntime`'s, what is left are formats.
- **Redaction, time and log helpers**: string processing.
- **`--version`, `--help`**: output only.
- **Mock provider, evaluation scenarios, tests**: read as evidence of intent.
- **npm launcher, packaging, prebuilt binaries**: picks a binary and passes its
  exit code on.

## Where the code and its documents differ

The five violation runs above show one divergence each: `session_exit`, `tools_slow`,
`wait_deadline`, `overview_budget` and `failed_log`. Others met while reading,
which no run checks:

- `utils/wait.rs:36` calls a wait completed when the condition held "before the
  deadline"; a check that ends after the deadline also completes it.
- `operation_timeout_ms` of 60 000 or more (the example of `cli.rs:75`) lets a
  wait reach the timeout around its tool and end in a bare error.
- An unknown notification, which has no id, gets an error reply with a null id
  (`protocol.rs:49-50`).
- A line that is not UTF-8 ends the server without a reply.
- A malformed line is answered with -32700; `docs/security.md:50` and
  `docs/architecture.md:63` say -32600.
- `client_name` is overwritten by a later handshake, with nothing if that one
  names no client.
- Oversized lines are "never buffered" (`docs/security.md:51`), but are.
- `docs/installation.md:90` and `docs/mcp-integration.md:149` say the server
  exits when stdin closes; the drop of the runtime waits for jobs that hang.
- `docs/architecture.md:216-217` says handlers run concurrently; the loop
  handles one line at a time.
- `CHANGELOG.md` (0.1.7) says the skill is skipped for an agent whose MCP step
  errors or is declined; with `--yes` it is installed all the same
  (`cli.rs:2366`).
- An empty file left by a kill counts as fresh on the next run (`cli.rs:2052`):
  the user's entries are then in the backup only.

In the tools and providers, where a model has the code's behaviour and its
property states the exception:

- Arguments: a `u64` is cut to `u32` before its range is checked, though the
  comment of `parse_port` says "Strictly parse"; a negative integer silently means
  the default; arguments that are no object count as none.
- A configured limit of 0 is loaded like any other, and `clamp(1, 0)` panics on the
  next call that passes a `limit` (`tools/mod.rs:527`) or a depth
  (`tools/processes.rs:123`), or on any call of an event tool; the release build
  aborts on a panic (`Cargo.toml:90`). `docs/tools.md:14` says "clamped to the domain's
  configured maximum". With a list limit of 0 and no argument the answer is empty and
  says that it was not truncated.
- What `install` merges is printed anew, comments and order lost;
  `docs/installation.md:121-122` says "everything else is left byte-for-byte untouched".
- Listings: `list_processes` cuts by memory before it sorts by `sort_by`;
  get_process_tree has 500 nodes by default and does not say that it was cut;
  `list_network_interfaces` and `list_drives` always say that they were.
- A failed `CreateToolhelp32Snapshot` is tested against null, so it reads as an
  empty snapshot, and find_process then finds nothing.
- Services: any failure to open one is "no service named"; handles are closed with
  `CloseHandle`; connection_count and service_summary answer 0 when they fail; a service
  whose status cannot be queried is listed with an unknown one.
- A table that grows between sizing and fetching fails the call.
- Waits: wait_for_port looks at the first socket of a port only, and a UDP binding
  completes it though the docs say TCP; wait_for_process ignores the name when it
  has a PID.
- Groups: the processes' times are read outside the two readings of the system's,
  so a share can exceed 100 %; `process_cap` drops small processes from trees.
- Events: the handles after `max_results` stay open; `truncated` is judged after
  messages that could not be formatted were dropped; an error of `EvtNext` ends a
  query as if the log were at its end, though `docs/diagnostics.md:221-222` and
  `docs/tools.md:262-264` promise that failures of a query surface as warnings;
  entries of two logs with the same record id are taken for one; last_shutdown is
  said to be "strictly before the newest boot" (`docs/diagnostics.md`), but an
  equal time, a missing time and no boot at all count too.
- Files: a walk that stops at the depth asked for does not set `truncated`
  (`utils/filesys.rs:198`), though lines 47 and 166-168 there say that the depth
  budget sets it; a scan passes over a directory that it cannot read without a
  word (`utils/workspace.rs:351`), though `docs/faq.md:40-41` says that WinKit
  "reports what it could not read"; deny roots are tested at the root of a walk
  only; an unreadable root of an overview gives an empty answer; a walk that found
  exactly `max_files` says it was cut; a file that grows may be called whole;
  `returned_bytes` counts the part of a line that was dropped; the repository root
  may be found above the root.
- Probe: the deadline is per read (`webapp.rs:121-124`); a relative redirect loses
  the port; a name from `dev_hosts` is never resolved; a webapp diagnosis without a
  workspace calls every listener unrelated.
- Reports: the summary quotes the first finding from before the sort; a blocked
  workspace gets no recommended tools; a failed log is listed as checked.
- Diagnosis: only the memory load and the groups make the evidence "limited"
  (`diagnostics/system.rs:107`); after a failed read of the drives, the thermal
  state, the devices, the battery or the Wi-Fi it is "full", though
  `docs/security.md:86-88` and `docs/diagnostics.md:199-201` say that any
  dimension that could not be measured makes it limited (line 72 of the latter has
  only the core ones). A thermal, Wi-Fi or device read that answered without a
  reading counts as measured, so its dimension may be called clean, against
  `docs/diagnostics.md:198`; the compact answer drops the limitations; an unknown
  memory load is "within thresholds"; an empty series of a port is "sustained";
  one failure signal alone is titled as several that co-occur.
- Version probe: `docs/tools.md:423-424` says that the bare name is tried first,
  "the same way `cmd` resolves them"; a file with an extension beside it is run
  instead (`platform/windows/dev.rs:103`), as the comment there wants it. A child
  that cannot be killed is waited for without a limit (`dev.rs:204-205`). Three
  waits of 3, 3.1 and 3.1 s follow one another; when a grandchild keeps stdout,
  the version is lost or a line of stderr told instead.
- configure: cut off while it writes, it leaves an empty file or a prefix, which
  loads with defaults; a save between backup and write is lost; comments are only
  in the backup; an unknown profile is shown as configured though the server runs
  developer; values of a file, unlike those of `--set`, are not range-checked.
- Network: with every adapter down the status is "ok"; loss and latency are put
  down at the first adapter with the gateway, even one that is down, and total loss
  at none; high latency hides the resolver's own finding; `sample_window_ms` only
  raises the reported duration; a failed Wi-Fi service counts as no Wi-Fi.
- Power and disks: a failed battery query makes the source "ac" even off the plug;
  the source comes from a second reading, which may contradict the first; an NVMe
  log that is fine overrules what the storage stack says.
- Without a caller or never produced: `http_get` of `utils/http.rs`, the probe
  outcomes `Redirect`, `RedirectLoop` and `BodyTooLarge`, `body_bytes` other than 0.

## Plan

In order, the most important behaviour first. Done:

1. `SessionContract`, `McpSession`, its proofs.
2. `ToolDispatch`, `ToolRuntime`.
3. `WaitCondition`, its proofs.
4. `ConfigInstall`, its proofs.
5. `SkillInstall`, its proofs.

6. `HttpProbe`, `EvidenceReport`, `WorkflowReports`, `TrendSampler`.
7. `FindingScores`, `SystemDiagnosis`, `ApplicationGroups`, `Rankings`.
8. `BoundedFiles`, `EventHistory`, `VersionProbe`.
9. `ProcessListing`, `SystemTables`, `NetworkDiagnosis`, `DeviceHealth`.
10. `ToolArguments`, `Configuration`.
11. `DiagnosticTools`, which composes 6 to 10.

12. Theorems about `ToolRuntime`, `HttpProbe`, `TrendSampler`, `NetworkDiagnosis`,
    `VersionProbe`, `EventHistory`, `ProcessListing`, `ToolArguments`, `DeviceHealth`,
    `SystemTables`, `Configuration`, `SystemDiagnosis`, `ApplicationGroups` and
    `WorkflowReports`, and their composition.
13. `BoundedFiles`: the tree and the globs, the walks, their budgets and their roots.

For the theorems the modules avoid RECURSIVE operators: recursion is a recursive function.

## Running it

    tlc -workers 2 -config McpSession_session.cfg MCMcpSession
    tlc -workers 2 -config ToolRuntime_calls.cfg MCToolRuntime
    tlc -workers 2 -config WaitCondition_polling.cfg WaitCondition
    tlc -workers 2 -config ConfigInstall_merge.cfg MCConfigInstall
    tlc -workers 2 -config SkillInstall_race.cfg MCSkillInstall
    tlc -workers 2 -config SkillInstall_rerun.cfg MCSkillInstall
    tlc -workers 2 -config DiagnosticTools_calls.cfg MCDiagnosticTools
    tlapm McpSession_proofs.tla
    tlapm ConfigInstall_proofs.tla
    tlapm SkillInstall_proofs.tla
    tlapm ToolRuntime_proofs.tla
    tlapm Probes_proofs.tla
    tlapm Reports_proofs.tla
    tlapm Calls_proofs.tla
    tlapm DiagnosticTools_proofs.tla

Operators whose comment begins with "Mutant:" are no part of a specification.
Each is a plausible mistake in the definition after it; `PROJECT.json` names the
property that finds it out, so that every property checked is known to be one
that a change of the code can break.
