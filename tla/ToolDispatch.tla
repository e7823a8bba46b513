---------------------------- MODULE ToolDispatch ----------------------------
(***************************************************************************)
(* Which tool calls run, and which tools a client is shown.                *)
(*                                                                         *)
(* registry::call_tool and ToolRegistry::call decide together, in two      *)
(* places, whether a call reaches a tool's handler; ToolRegistry::schemas  *)
(* decides on its own what tools/list shows.  The permission subsystem     *)
(* grants capabilities by mode.                                            *)
(***************************************************************************)
EXTENDS FiniteSets

CONSTANTS
    Tool,       \* the registered tools (ToolRegistry::build)
    Capability, \* Capability[t]: what tool t requires, or NoCapability
    Profiles    \* Profiles[t]: the profiles tool t is visible in

NoCapability == "none"

\* What a client may put in the name of a tools/call.
Name == Tool \cup {"no_such_tool"}

ToolProfile == {"core", "developer", "full"}

PermissionMode == {"safe", "read_only", "approval", "unrestricted"}

-----------------------------------------------------------------------------
(* Capabilities. *)

\* The capabilities granted in every mode, and those the mode decides about.
WindowsReads ==
    {"system.read", "process.read", "network.read", "storage.read",
     "service.read", "event.read", "window.read", "filesystem.read",
     "registry.read"}

V1_READ_CAPABILITIES ==
    WindowsReads \cup
    {"hardware.read", "storage.health.read", "hardware.power.read",
     "network.wifi.read", "network.diagnostics.read"}

ActionCapabilities ==
    {"filesystem.write", "filesystem.delete", "process.terminate",
     "service.modify", "powershell.execute", "registry.write"}

ASSUME CapabilityAssumption ==
    Capability \in [Tool -> V1_READ_CAPABILITIES \cup ActionCapabilities
                              \cup {NoCapability}]
ASSUME ProfilesAssumption == Profiles \in [Tool -> SUBSET ToolProfile]

\* Policy::for_mode.
Granted(mode) == IF mode = "safe" THEN WindowsReads ELSE V1_READ_CAPABILITIES

\* Policy::allows, through ApprovalManager::requirement_for: anything but a
\* granted read is denied, whatever the mode.
Allowed(mode, capability) ==
    capability \in V1_READ_CAPABILITIES /\ capability \in Granted(mode)

-----------------------------------------------------------------------------
(* Dispatch. *)

Config == [mode : PermissionMode, disabled : SUBSET Tool, profile : ToolProfile]

\* Mutant: the profile filters what is listed, not what is called.
GateProfileIgnored(config, name, args) ==
    CASE name \notin Tool                               -> "unknown"
      [] name \in Tool
           /\ Capability[name] # NoCapability
           /\ ~Allowed(config.mode, Capability[name])   -> "denied"
      [] OTHER                                          ->
           IF name \in config.disabled THEN "disabled"
           ELSE IF args THEN "run" ELSE "args"

\* The first check that refuses the call, or "run".  `args` says whether
\* validate_args accepts the arguments.
Gate(config, name, args) ==
    IF name \notin Tool THEN "unknown"
    ELSE IF Capability[name] # NoCapability
              /\ ~Allowed(config.mode, Capability[name]) THEN "denied"
    ELSE IF name \in config.disabled THEN "disabled"
    ELSE IF config.profile \notin Profiles[name] THEN "profile"
    ELSE IF ~args THEN "args"
    ELSE "run"

Refusals == {"unknown", "denied", "disabled", "profile", "args"}

\* The error a refused call ends with.
Refusal(gate) == IF gate = "denied" THEN "PermissionDenied" ELSE "InvalidArgument"

\* What tools/list shows.
Listed(config) ==
    {t \in Tool : config.profile \in Profiles[t] /\ t \notin config.disabled}

=============================================================================
