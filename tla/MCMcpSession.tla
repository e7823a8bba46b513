---------------------------- MODULE MCMcpSession ----------------------------
(***************************************************************************)
(* The instance of McpSession that TLC checks: one request id, and at      *)
(* least one line for every branch of the transport and of the handler.    *)
(* Three lines are enough for what the handler remembers to matter: one    *)
(* before the handshake, the handshake, and one after it, any of them      *)
(* written while a tool is awaited.                                        *)
(***************************************************************************)
EXTENDS McpSession

MCInput ==
    Junk \cup
    {m \in Message :
        \/ m.method \in {"initialize", "ping", "shutdown", "", "other"}
              /\ m.id # NoId /\ m.full
        \/ m.method \in {"notifications/initialized", "exit"}
              /\ m.id = NoId /\ (m.full => m.method = "exit")
        \/ m.method = "tools/call" /\ m.id # NoId
        \/ m.method = "tools/list" /\ m.id = NoId}

=============================================================================
