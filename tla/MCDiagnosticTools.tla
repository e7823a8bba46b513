------------------------- MODULE MCDiagnosticTools -------------------------
(***************************************************************************)
(* Instances of the components' constants: few values of each, chosen so   *)
(* that every branch of a handler is taken, and bounds small enough that   *)
(* limits are reached.                                                     *)
(***************************************************************************)
EXTENDS DiagnosticTools

\* HttpProbe: settings that trust development hosts and one redirect, or local TLS
\* and two.
MCPolicies ==
    {[allow_external |-> FALSE, dev_hosts |-> d, local_tls_allowed |-> ~d,
      max_redirects |-> IF d THEN 1 ELSE 2] : d \in BOOLEAN}
HttpUrl(host, port) == [scheme |-> "http", host |-> host, port |-> port]
MCRawUrls ==
    {HttpUrl("localhost", 3000), HttpUrl("external", 0), HttpUrl("dev_name", 0),
     [HttpUrl("loopback", 0) EXCEPT !.scheme = "https"]}

\* WorkflowReports: each tool with few arguments and with many; 3013 is too far from
\* 3000 and 3001 to be a neighbour.
MCPort == {3000, 3001, 3013}
Report(tool, ports, workspace, option, detail) ==
    [tool |-> tool, ports |-> ports, workspace |-> workspace, option |-> option,
     detail |-> detail]
MCCalls ==
    {Report("diagnose_workspace", {}, TRUE, TRUE, "compact"),
     Report("diagnose_workspace", MCPort, TRUE, FALSE, "normal"),
     Report("diagnose_local_webapp", {3000}, TRUE, TRUE, "compact"),
     Report("diagnose_local_webapp", {3001}, FALSE, FALSE, "normal"),
     Report("correlate_recent_failures", {3000}, TRUE, FALSE, "detailed"),
     Report("correlate_recent_failures", {}, FALSE, FALSE, "compact"),
     Report("list_dev_servers", {}, TRUE, TRUE, "normal"),
     Report("list_dev_servers", MCPort, FALSE, FALSE, "normal")}

\* SystemDiagnosis: readings that are missing, unremarkable and bad, and two applications
\* of one display name.
Group(name, cpu, own, tree) == [name |-> name, cpu |-> cpu, own |-> own, tree |-> tree]
MCGroups ==
    {{Group("app", {70}, 8, 8)},
     {Group("app", {}, 2, 8), Group("app", {}, 9, 9), Group("shell", {50}, 0, 3)}}
Drive(root, free, total) == [root |-> root, free |-> free, total |-> total]
MCDrives == {{Drive("C:", {3}, {100}), Drive("D:", {3}, {})}, {Drive("C:", {50}, {100})}}
MCThermal == {[temperature |-> {}, reduced |-> {}], [temperature |-> {90}, reduced |-> {FALSE}],
              [temperature |-> {}, reduced |-> {TRUE}]}
MCDevices == {{[device |-> "disk", status |-> {}, used |-> {}]},
              {[device |-> "disk", status |-> {"warning"}, used |-> {95}]}}
MCBattery == {{}, {40}}
MCWifi == {{}, {[adapter |-> "wlan", signal |-> {20}]}}
Memory(percent, available, total) ==
    [load |-> percent, available |-> available, total |-> total]
MCMemory == {Memory({}, {}, {}), Memory({90}, {3}, {32}), Memory({60}, {12}, {32})}

\* TrendSampler: a window that is not a multiple of its interval, none at all, one that
\* is longer than allowed, and more samples than fit.
Sampled(window, interval, samples) ==
    [window |-> window, interval |-> interval, samples |-> samples]
MCTrendArgs == {Sampled(3, 1, 4), Sampled(0, 5, 1), Sampled(9, 2, 3), Sampled(3, 2, 2)}

\* ApplicationGroups: a cycle of parents, a parent that is not listed, memory that is
\* unknown, a hole in the table.
GroupMember(stem, parent, memory, cpu, opens) ==
    [stem |-> stem, parent |-> parent, memory |-> memory, cpu |-> cpu, opens |-> opens,
     came |-> 1]
MCGroupTables ==
    {<<GroupMember(5, 3, 2, 0, TRUE), GroupMember(6, 1, 1, 2, TRUE), GroupMember(7, 2, 4, 1, TRUE)>>,
     <<GroupMember(5, 9, 2, 0, TRUE), GroupMember(6, 1, 1, 2, TRUE), GroupMember(5, 2, Unknown, 1, FALSE)>>,
     <<GroupMember(5, 1, 3, 0, TRUE), NoProcess, GroupMember(6, 1, 3, 0, TRUE)>>}
MCGroupLimits == {[limit |-> 1, cap |-> 3], [limit |-> 2, cap |-> 2]}

\* BoundedFiles: a workspace beside a directory that a link of it leads to.
Branch(level, kind, kids) ==
    [level |-> level, kind |-> kind, kids |-> kids, name |-> <<"a">>]
Leaf(level, kind, name) ==
    [level |-> level, kind |-> kind, kids |-> <<>>, name |-> name, length |-> 1, ends |-> {},
     target |-> "out"]
MCTree ==
    [n \in {"C:", "work", "out", "repo", "a", "a1", "a2", "b", "b1", "env", "pkg", "git",
            "HEAD", "lnk", "lib", "shut", "kept", "hg", "lost", "log", "blob"} |->
        CASE n = "C:"   -> Branch(0, "dir", <<"out", "work">>)
          [] n = "out"  -> Branch(1, "dir", <<"blob">>)
          [] n = "blob" -> Leaf(2, "binary", <<"b", "b">>)
          [] n = "work" -> Branch(1, "dir", <<"a", "git", "lib", "repo">>)
          [] n = "a"    -> Branch(2, "dir", <<"a1", "a2", "hg">>)
          [] n = "a1"   -> Leaf(3, "file", <<"a", "b">>)
          [] n = "a2"   -> Leaf(3, "file", <<"a", "a", "b">>)
          [] n = "git"  -> Branch(2, "git", <<"HEAD">>)
          [] n = "HEAD" -> Leaf(3, "file", <<"b">>)
          [] n = "lib"  -> Branch(2, "output", <<"lost">>)
          [] n = "lost" -> Leaf(3, "gone", <<"a">>)
          [] n = "repo" -> Branch(2, "dir", <<"b", "env", "lnk", "log", "pkg", "shut">>)
          [] n = "b"    -> Branch(3, "dir", <<"b1">>)
          [] n = "b1"   -> Leaf(4, "file", <<"b", "a">>)
          [] n = "env"  -> Leaf(3, "secret", <<"b", "b", "a">>)
          [] n = "lnk"  -> Leaf(3, "link", <<"a", "b", "b">>)
          [] n = "log"  -> [Leaf(3, "file", <<"b", "a", "b">>) EXCEPT !.length = 5,
                                                                      !.ends = {2, 4}]
          [] n = "pkg"  -> Leaf(3, "manifest", <<"a", "b", "a">>)
          [] n = "hg"   -> Branch(3, "hg", <<>>)
          [] n = "shut" -> Branch(3, "unreadable", <<"kept">>)
          [] n = "kept" -> Leaf(4, "file", <<"a", "b">>)]
FileCall(tool, path) == [NoFileCall EXCEPT !.tool = tool, !.path = path]
Find(path, max_depth, limit, pattern) ==
    [FileCall("find_files", path) EXCEPT !.depth = max_depth, !.limit = limit,
                                         !.pattern = pattern]
Overview(path, limit) == [FileCall("directory_overview", path) EXCEPT !.limit = limit]
Scan(path, max_depth, limit) ==
    [FileCall("workspace_scan", path) EXCEPT !.depth = max_depth, !.limit = limit,
                                             !.manifests = TRUE, !.git = TRUE]
Slice(path, mode, limit) ==
    [FileCall("read_text_file", path) EXCEPT !.mode = mode, !.limit = limit]
MCFileCalls ==
    {Find("work", 2, 9, <<"*", "b", "*">>), Find("work", 1, 2, <<"?", "*", "b">>),
     Find("work", 0, 9, <<"*">>), Find("C:", 3, 3, <<"*">>),
     [Find("C:", 3, 9, <<"*", "a">>) EXCEPT !.allow = {"C:"}],
     [Find("lnk", 3, 3, <<"*">>) EXCEPT !.allow = {"work"}],
     [Find("repo", 3, 9, <<"*", "a", "?">>) EXCEPT !.deny = {"out", "lost"}],
     [Find("a", 3, 9, <<"*">>) EXCEPT !.deny = {"work"}],
     Overview("work", 9), Overview("work", 2), Overview("shut", 5), Overview("a", 5),
     Overview("out", 5),
     Scan("work", 4, 20), Scan("work", 4, 3), Scan("work", 0, 9), Scan("repo", 3, 7),
     [Scan("repo", 3, 7) EXCEPT !.manifests = FALSE, !.git = FALSE], Scan("a", 1, 5),
     Slice("log", "head", 3), Slice("log", "tail", 3), Slice("log", "tail", 2),
     Slice("log", "all", 5), Slice("blob", "all", 5), Slice("relative", "all", 5),
     Slice("nope", "all", 5), Slice("lnk", "all", 5),
     [Slice("log", "all", 5) EXCEPT !.deny = {"repo"}]}

\* EventHistory: a log around a crash, one full of application errors, one of a sleep.
Logged(log, record, provider, id, time) ==
    [log |-> log, record |-> record, provider |-> provider, id |-> id, level |-> 2,
     time |-> time, parsable |-> TRUE, message |-> TRUE]
Mute(event) == [event EXCEPT !.message = FALSE]
Torn(event) == [event EXCEPT !.parsable = FALSE]
AppError(record, time) == Logged("Application", record, "Application Error", 1000, time)
MCEventLogs ==
    {<<Logged("System", 9, "Kernel-General", 12, 9), Logged("System", 8, "EventLog", 6005, 8),
       Logged("System", 7, "Kernel-Power", 41, 8), Logged("System", 6, "User32", 1074, 6),
       Logged("System", 5, "Kernel-General", 13, 5),
       Mute(Logged("System", 4, "EventLog", 6008, 0))>>,
     <<AppError(3, 6), Mute(AppError(2, 5)), Torn(AppError(1, 4)),
       [AppError(0, 4) EXCEPT !.level = 4], AppError(0, 3), AppError(0, 2),
       Logged("System", 3, "WHEA-Logger", 19, 6),
       Logged("System", 2, "WER-SystemErrorReporting", 1001, 3)>>,
     <<Logged("System", 3, "EventLog", 6006, 9), Logged("System", 2, "Kernel-Power", 42, 8),
       Logged("System", 1, "EventLog", 6006, 7), Logged("System", 0, "EventLog", 6005, 6)>>}
EventCall(tool, max) == [NoEventCall EXCEPT !.tool = tool, !.max = max]
MCEventCalls ==
    {EventCall("crash_history", 2), [EventCall("crash_history", 3) EXCEPT !.since = 4],
     EventCall("shutdown_analysis", 1), EventCall("shutdown_analysis", 3),
     EventCall("get_recent_events", 3),
     [EventCall("get_application_errors", 2) EXCEPT !.level = 2, !.skip = TRUE],
     [EventCall("get_application_errors", 9) EXCEPT !.level = 2, !.skip = TRUE],
     [EventCall("get_system_errors", 9) EXCEPT !.log = "System", !.level = 2, !.id = 41]}

\* VersionProbe: scripts and programs, in the first directory and in a later one, and
\* beside each other what PATHEXT names first, what it names later and what it does not.
Npm(ext) == [stem |-> "npm", ext |-> ext]
MCSearchPaths ==
    {<<{Npm(Bare), Npm("cmd")}, {Npm("exe")}>>, <<{}, {Npm(Bare)}, {Npm("cmd")}>>,
     <<{Npm("ps1"), [stem |-> "other", ext |-> Bare]}>>,
     <<{Npm("exe"), Npm("com"), Npm(Bare)}>>, <<{Npm("exe"), Npm("cmd")}, {Npm("com")}>>,
     <<{Npm("bat"), Npm("exe")}>>}
MCToolNames == {Npm(Bare), Npm("exe")}
MCPathExt == <<"com", "cmd">>

\* ProcessListing: a process that cannot be opened, a parent younger than its child,
\* equal figures, and one that starts in a freed place.
TableEntry(name, parent, memory, cpu, opens) ==
    [born |-> 0, name |-> name, parent |-> parent, memory |-> memory, cpu |-> cpu,
     opens |-> opens]
MCPids == 1..4
MCTables ==
    {<<TableEntry(1, 0, 0, 0, FALSE), TableEntry(2, 1, 5, 1, TRUE), TableEntry(2, 2, 7, 3, TRUE),
       TableEntry(3, 2, 5, 9, TRUE)>>,
     <<TableEntry(1, 3, 4, 0, TRUE), Absent, TableEntry(2, 1, 2, 1, TRUE), TableEntry(2, 3, 2, 1, TRUE)>>}
MCNewProcesses == {TableEntry(3, 4, 9, 0, TRUE)}
ProcessCall(tool) == [NoProcessCall EXCEPT !.tool = tool]
ListCall(limit, sort, top) ==
    [ProcessCall("list_processes") EXCEPT !.limit = limit, !.sort = sort, !.top = top]
TreeCall(pid, max_depth, nodes) ==
    [ProcessCall("get_process_tree") EXCEPT !.pid = pid, !.depth = max_depth, !.limit = nodes]
MCProcessCalls ==
    {ListCall(5, "none", NoTop), ListCall(2, "none", NoTop), ListCall(5, "cpu_time", 1),
     ListCall(5, "name", 2), ListCall(3, "pid", 2), ListCall(5, "memory", 1),
     [ProcessCall("find_process") EXCEPT !.name = 2, !.limit = 3],
     [ProcessCall("find_process") EXCEPT !.name = 2, !.limit = 1],
     [ProcessCall("get_process") EXCEPT !.pid = 1], [ProcessCall("get_process") EXCEPT !.pid = 2],
     [ProcessCall("get_process") EXCEPT !.pid = 3],
     TreeCall(1, 2, 9), TreeCall(2, 1, 2), TreeCall(3, 3, 9), TreeCall(1, 3, 3)}

\* SystemTables: two owners of one port, a UDP binding of it, a service that stopped.
TableRow(table, key, listens, pid) ==
    [table |-> table, key |-> key, listens |-> listens, pid |-> pid]
Web1 == TableRow("tcp", 80, TRUE, 1)
Web2 == TableRow("tcp", 80, TRUE, 2)
Peer == TableRow("tcp", 90, FALSE, 1)
Bound == TableRow("udp", 80, FALSE, 2)
Ethernet == TableRow("adapter", 1, FALSE, 0)
Stopped == TableRow("service", 7, FALSE, 0)
Started == TableRow("service", 8, FALSE, 1)
MCTableRows == {Web1, Web2, Peer, Bound, Ethernet, Stopped, Started}
MCFirstTables ==
    {{}, {Web1, Bound, Stopped}, {Web2, Peer, Stopped, Started, Ethernet}, {Bound, Ethernet},
     {Web1, Web2}}
Query(tool) == [NoQuery EXCEPT !.tool = tool]
MCTableQueries ==
    {[Query(t) EXCEPT !.limit = l] : t \in {"list_listening_ports", "list_connections"}, l \in {1, 4}}
    \cup {[Query("list_services") EXCEPT !.limit = l] : l \in {1, 3}}
    \cup {Query(t) : t \in {"service_summary", "connection_count", "list_network_interfaces"}}
    \cup {[Query("get_service") EXCEPT !.key = k] : k \in {7, 9}}
    \cup {[Query(t) EXCEPT !.key = 80] :
             t \in {"find_process_on_port", "wait_for_port", "wait_for_http"}}
    \cup {[Query("wait_for_port") EXCEPT !.key = 80, !.owner = 2],
          [Query("wait_for_process") EXCEPT !.owner = 1]}

\* ToolArguments: usual limits and limits of zero; numbers around each bound and around
\* 2^32.
MCLimits == {[results |-> 4, depth |-> 3], [results |-> 0, depth |-> 0]}
MCNumbers == {-1, 0, 1, 2, 4, 5, 6, 7, 8, 9, 16, 17, 20, 33}

\* Configuration: a file nobody can parse, and values outside what --set accepts; lines
\* that --set refuses late, that name a word in another case, that do not write.
MCUserTexts ==
    {Unparsable("user"), Parsable([Defaults EXCEPT !.mode = "root", !.low_disk = 9], "user"),
     Parsable([Defaults EXCEPT !.mode = "safe", !.profile = "browser"], "user")}
Option(arg) == [arg |-> arg, key |-> "none", word |-> "none", number |-> -1]
Set(key, word, number) == [arg |-> "--set", key |-> key, word |-> word, number |-> number]
Profile(word) == [Option("--profile") EXCEPT !.word = word]
MCConfigLines ==
    {<<>>, <<Option("--help"), Option("--write")>>, <<Option("--write"), Option("--now")>>,
     <<Set("low_disk", "3", 3)>>, <<Option("--write"), Set("low_disk", "9", 9)>>,
     <<Option("--write"), Set("low_disk", "3", 3), Profile("CORE")>>,
     <<Option("--write"), Profile("browser")>>,
     <<Option("--write"), Option("--dry-run"), Set("mode", "safe", -1)>>,
     <<Set("mode", "Read-Only", -1), Option("--write")>>,
     <<Set("external", "on", -1), Set("mode", "root", -1), Option("--write")>>,
     <<Set("external", "on", -1), Set("colour", "red", -1), Option("--write")>>}
Computer(arch, exe, well, elevated) ==
    [os |-> "windows", arch |-> arch, exe |-> exe, loopback |-> well,
     free |-> IF well THEN 9 ELSE -1, elevated |-> elevated]
MCMachines ==
    {Computer("x86_64", TRUE, TRUE, TRUE), Computer("x86", TRUE, TRUE, FALSE),
     Computer("aarch64", FALSE, FALSE, FALSE), Computer("aarch64", TRUE, FALSE, FALSE),
     [Computer("x86_64", TRUE, TRUE, FALSE) EXCEPT !.os = "linux"]}

\* NetworkDiagnosis: a gateway shared with an adapter that is down, none, one that has
\* no IPv4 address.
Adapter(name, loopback, up, gateway, wifi) ==
    [name |-> name, loopback |-> loopback, up |-> up, gateway |-> gateway, wifi |-> wifi]
MCAdapterLists ==
    {<<Adapter("lo", TRUE, TRUE, {}, FALSE), Adapter("eth", FALSE, FALSE, {1}, FALSE),
       Adapter("wlan", FALSE, TRUE, {1}, TRUE)>>,
     <<Adapter("eth", FALSE, TRUE, {}, FALSE), Adapter("wlan", FALSE, FALSE, {}, TRUE)>>,
     <<Adapter("eth", FALSE, TRUE, {0}, FALSE)>>}
MCRadioReadings ==
    {{[adapter |-> "wlan", signal |-> s, speed |-> v]} : s \in {{}, {20}, {30}, {80}},
                                                        v \in {{}, {10}}}

\* DeviceHealth: no disk, one of each kind, one whose number is not known.
Disk(device, nvme, number) == [device |-> device, nvme |-> nvme, number |-> number]
MCDiskLists ==
    {{}, {Disk("disk0", TRUE, {0}), Disk("disk1", FALSE, {1})},
     {Disk("disk0", TRUE, {0}), Disk("disk?", FALSE, {})}}
MCStackReadings ==
    {{[number |-> 0, status |-> s], [number |-> 1, status |-> t]} :
        s \in {{"healthy"}, {"other"}}, t \in {{"healthy"}, {"warning"}, {}}}
MCSmartLogs ==
    {[warnings |-> w, used |-> u, spare |-> 50, threshold |-> 10] :
        w \in {{}, {"spare_capacity_low"}}, u \in {10, 80}}
=============================================================================
