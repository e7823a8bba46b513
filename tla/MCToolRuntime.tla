---------------------------- MODULE MCToolRuntime ----------------------------
(***************************************************************************)
(* The instance of ToolRuntime that TLC checks: one tool of each shape of  *)
(* handler, a pool of two threads, so that two hung jobs exhaust it, and   *)
(* two calls, so that the second one meets what the first left behind.     *)
(***************************************************************************)
EXTENDS ToolRuntime

MCTool ==
    {"list_processes", "read_text_file", "hardware_snapshot", "system_diagnose"}

MCCapability ==
    [t \in MCTool |->
        CASE t = "read_text_file"    -> "filesystem.read"
          [] t = "hardware_snapshot" -> "hardware.read"
          [] OTHER                   -> "process.read"]

MCProfiles ==
    [t \in MCTool |->
        IF t = "list_processes" THEN ToolProfile ELSE {"developer", "full"}]

\* system_diagnose runs four probes; two of them are enough to fill the pool.
MCPlan ==
    [t \in MCTool |->
        CASE t = "list_processes"    -> <<"inline">>
          [] t = "read_text_file"    -> <<"inline", "offload">>
          [] t = "hardware_snapshot" -> <<"probe_or_fail">>
          [] t = "system_diagnose"   ->
               <<"offload", "probe_or_skip", "probe_or_skip", "inline",
                 "sleep", "inline">>]

\* The default configuration, one that hides the disabled tool too, one of the
\* small profile, and one whose mode denies the hardware probes.
MCConfigs ==
    {[mode |-> "read_only", disabled |-> {},                 profile |-> "developer"],
     [mode |-> "approval",  disabled |-> {"read_text_file"}, profile |-> "full"],
     [mode |-> "read_only", disabled |-> {},                 profile |-> "core"],
     [mode |-> "safe",      disabled |-> {},                 profile |-> "developer"]}

=============================================================================
