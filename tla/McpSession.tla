------------------------------ MODULE McpSession ------------------------------
(***************************************************************************)
(* One MCP session over stdio: the transport loop (transport::run) and the *)
(* protocol handler it drives (McpServer::handle_message), with the        *)
(* lifecycle flag they share.                                              *)
(*                                                                         *)
(* The server is one task on a current-thread runtime: it takes a line     *)
(* from stdin, handles it, writes the reply if there is one, and only then *)
(* takes the next line.  While it handles a line, or awaits a tool, the    *)
(* client keeps writing, closes its end of stdin, or stops reading stdout. *)
(*                                                                         *)
(* A line is abstracted to what the code branches on: its fate in the      *)
(* transport (too long, blank, not UTF-8, not JSON, a message), its        *)
(* method, its id, and whether its params hold what the method asks for.   *)
(* What a tool does is left to the module ToolRuntime; here a call returns *)
(* any of the outcomes the dispatcher can return.                          *)
(***************************************************************************)
EXTENDS Naturals, Sequences

CONSTANTS
    Ids,      \* the request ids the client uses
    NoId,     \* the id of a message without one, and the JSON null in a reply
    Input,    \* the lines the client may write, a subset of Line below
    MaxLines  \* bound: how many lines the client writes

ASSUME NoIdAssumption == NoId \notin Ids
ASSUME MaxLinesAssumption == MaxLines \in Nat

-----------------------------------------------------------------------------
(* The lines a client can write. *)

\* Methods whose params the code looks into: "full" params name the client,
\* or name a tool and carry an arguments object.
ParamMethods == {"initialize", "notifications/initialized", "tools/call"}

PlainMethods == {"ping", "tools/list", "shutdown", "exit", "", "other"}

\* Methods refused until the handshake.
Guarded == {"ping", "tools/list", "tools/call"}

Message ==
    [kind : {"message"}, method : ParamMethods, id : Ids \cup {NoId},
     full : BOOLEAN]
    \cup
    [kind : {"message"}, method : PlainMethods, id : Ids \cup {NoId},
     full : {TRUE}]

\* Lines that never reach the method dispatch.
Junk ==
    [kind : {"oversized", "blank", "not_utf8", "malformed"}, method : {""},
     id : {NoId}, full : {TRUE}]

Line == Message \cup Junk

ASSUME InputAssumption == Input \subseteq Line

Initializes(l) ==
    l.kind = "message" /\ l.method \in {"initialize", "notifications/initialized"}

-----------------------------------------------------------------------------
(* The replies. *)

NotInitialized == "-32002"
ParseError     == "-32700"
InvalidRequest == "-32600"
MethodNotFound == "-32601"

\* The JSON-RPC code of a tool error.  "UrlRejected" stands for the kinds of
\* the last arm that no property tells apart.
map_protocol_error(errkind) ==
    CASE errkind = "InvalidArgument"        -> "-32602"
      [] errkind = "ProviderUnavailable"    -> "-32001"
      [] errkind = "ApplicationUnavailable" -> "-32002"
      [] errkind = "FeatureDisabled"        -> "-32003"
      [] errkind = "EndpointUnavailable"    -> "-32004"
      [] OTHER                              -> "-32603"

\* The error kinds a call can end with: no tool of this build raises one of
\* the "unavailable" family.
ToolErrors == {"InvalidArgument", "PermissionDenied", "Timeout", "UrlRejected"}

Codes ==
    {"ok", NotInitialized, ParseError, InvalidRequest, MethodNotFound}
    \cup {map_protocol_error(k) : k \in ToolErrors}

Answers == [id : Ids \cup {NoId}, code : Codes]

NoReply == [id |-> NoId, code |-> "none"]

-----------------------------------------------------------------------------

VARIABLES
    lines,       \* every line the client has written
    stdinOpen,   \* the client has not closed its end of stdin
    stdoutOpen,  \* the client still reads stdout
    loop,        \* where transport::run is
    taken,       \* how many lines it has taken from stdin
    reply,       \* the frame it is about to write
    initialized, \* Lifecycle.initialized
    client_name, \* Lifecycle.client_name is Some
    replies      \* the frames on stdout, each with the line it answers

vars == <<lines, stdinOpen, stdoutOpen, loop, taken, reply, initialized,
          client_name, replies>>

client == <<lines, stdinOpen, stdoutOpen>>
lifecycle == <<initialized, client_name>>

Loop == {"reading", "handling", "calling", "writing", "stopped", "failed"}

TypeOK ==
    /\ lines \in Seq(Input)
    /\ Len(lines) <= MaxLines
    /\ stdinOpen \in BOOLEAN
    /\ stdoutOpen \in BOOLEAN
    /\ loop \in Loop
    /\ taken \in 0 .. Len(lines)
    /\ reply \in Answers \cup {NoReply}
    /\ initialized \in BOOLEAN
    /\ client_name \in BOOLEAN
    /\ replies \in Seq([to : 1 .. MaxLines, answer : Answers])

Init ==
    /\ lines = <<>>
    /\ stdinOpen = TRUE
    /\ stdoutOpen = TRUE
    /\ loop = "reading"
    /\ taken = 0
    /\ reply = NoReply
    /\ initialized = FALSE
    /\ client_name = FALSE
    /\ replies = <<>>

-----------------------------------------------------------------------------
(* The client.  It owes the server nothing: no fairness. *)

WriteLine ==
    /\ stdinOpen
    /\ Len(lines) < MaxLines
    /\ \E l \in Input : lines' = Append(lines, l)
    /\ UNCHANGED <<stdinOpen, stdoutOpen, loop, taken, reply, lifecycle, replies>>

CloseStdin ==
    /\ stdinOpen
    /\ stdinOpen' = FALSE
    /\ UNCHANGED <<lines, stdoutOpen, loop, taken, reply, lifecycle, replies>>

CloseStdout ==
    /\ stdoutOpen
    /\ stdoutOpen' = FALSE
    /\ UNCHANGED <<lines, stdinOpen, loop, taken, reply, lifecycle, replies>>

-----------------------------------------------------------------------------
(* transport::run: taking a line. *)

NextLine == lines[taken + 1]

LineAvailable(kinds) ==
    /\ loop = "reading"
    /\ taken < Len(lines)
    /\ NextLine.kind \in kinds

\* A line over the cap is answered without looking inside it.
RejectOversized ==
    /\ LineAvailable({"oversized"})
    /\ taken' = taken + 1
    /\ reply' = [id |-> NoId, code |-> ParseError]
    /\ loop' = "writing"
    /\ UNCHANGED <<client, lifecycle, replies>>

\* Mutant: a blank line takes the line after it along.
SkipBlankTwice ==
    /\ LineAvailable({"blank"})
    /\ taken' = taken + 2
    /\ UNCHANGED <<client, loop, reply, lifecycle, replies>>

\* Mutant: a blank line is not taken off the input.
SkipBlankForever ==
    /\ LineAvailable({"blank"})
    /\ UNCHANGED vars

SkipBlank ==
    /\ LineAvailable({"blank"})
    /\ taken' = taken + 1
    /\ UNCHANGED <<client, loop, reply, lifecycle, replies>>

TakeMessage ==
    /\ LineAvailable({"malformed", "message"})
    /\ taken' = taken + 1
    /\ loop' = "handling"
    /\ UNCHANGED <<client, reply, lifecycle, replies>>

\* next_line returns Err for a line that is not UTF-8, and run returns it.
ReadFails ==
    /\ LineAvailable({"not_utf8"})
    /\ loop' = "failed"
    /\ UNCHANGED <<client, taken, reply, lifecycle, replies>>

\* Mutant: end of input is taken for a pause of the client.
EndOfInputIgnored ==
    /\ loop = "reading"
    /\ taken = Len(lines)
    /\ ~stdinOpen
    /\ UNCHANGED vars

EndOfInput ==
    /\ loop = "reading"
    /\ taken = Len(lines)
    /\ ~stdinOpen
    /\ loop' = "stopped"
    /\ UNCHANGED <<client, taken, reply, lifecycle, replies>>

-----------------------------------------------------------------------------
(* McpServer::handle_message, one action per arm. *)

Current == lines[taken]

Handling(methods) ==
    /\ loop = "handling"
    /\ Current.kind = "message"
    /\ Current.method \in methods

Answer(code) ==
    /\ reply' = [id |-> Current.id, code |-> code]
    /\ loop' = "writing"

NoAnswer ==
    /\ reply' = NoReply
    /\ loop' = "reading"

\* The client's name is overwritten by whatever the params hold.
mark_initialized ==
    /\ initialized' = TRUE
    /\ client_name' = Current.full

HandleMalformed ==
    /\ loop = "handling"
    /\ Current.kind = "malformed"
    /\ reply' = [id |-> NoId, code |-> ParseError]
    /\ loop' = "writing"
    /\ UNCHANGED <<client, taken, lifecycle, replies>>

HandleInitialize ==
    /\ Handling({"initialize"})
    /\ mark_initialized
    /\ Answer("ok")
    /\ UNCHANGED <<client, taken, replies>>

HandleInitialized ==
    /\ Handling({"notifications/initialized"})
    /\ mark_initialized
    /\ NoAnswer
    /\ UNCHANGED <<client, taken, replies>>

RefuseUninitialized ==
    /\ Handling(Guarded)
    /\ ~initialized
    /\ Answer(NotInitialized)
    /\ UNCHANGED <<client, taken, lifecycle, replies>>

\* Mutant: the guard is forgotten for ping and tools/list.
HandleQueryUnguarded ==
    /\ Handling({"ping", "tools/list"})
    /\ Answer("ok")
    /\ UNCHANGED <<client, taken, lifecycle, replies>>

HandleQuery ==
    /\ Handling({"ping", "tools/list"})
    /\ initialized
    /\ Answer("ok")
    /\ UNCHANGED <<client, taken, lifecycle, replies>>

\* tools/call without a tool name, or with arguments that are no object.
RejectCall ==
    /\ Handling({"tools/call"})
    /\ initialized
    /\ ~Current.full
    /\ Answer(map_protocol_error("InvalidArgument"))
    /\ UNCHANGED <<client, taken, lifecycle, replies>>

\* Mutant: the call is spawned, its result is dropped, and the loop reads on.
BeginCallDetached ==
    /\ Handling({"tools/call"})
    /\ initialized
    /\ Current.full
    /\ NoAnswer
    /\ UNCHANGED <<client, taken, lifecycle, replies>>

\* The handler awaits registry::call_tool; stdin is not read meanwhile.
BeginCall ==
    /\ Handling({"tools/call"})
    /\ initialized
    /\ Current.full
    /\ loop' = "calling"
    /\ UNCHANGED <<client, taken, reply, lifecycle, replies>>

CallReturns ==
    /\ loop = "calling"
    /\ \/ Answer("ok")
       \/ \E k \in ToolErrors : Answer(map_protocol_error(k))
    /\ UNCHANGED <<client, taken, lifecycle, replies>>

HandleShutdown ==
    /\ Handling({"shutdown"})
    /\ Answer("ok")
    /\ UNCHANGED <<client, taken, lifecycle, replies>>

\* `exit` produces no reply; the transport loop goes on to the next line.
HandleExit ==
    /\ Handling({"exit"})
    /\ NoAnswer
    /\ UNCHANGED <<client, taken, lifecycle, replies>>

HandleMissingMethod ==
    /\ Handling({""})
    /\ Answer(InvalidRequest)
    /\ UNCHANGED <<client, taken, lifecycle, replies>>

HandleUnknownMethod ==
    /\ Handling({"other"})
    /\ Answer(MethodNotFound)
    /\ UNCHANGED <<client, taken, lifecycle, replies>>

-----------------------------------------------------------------------------
(* write_frame. *)

\* Mutant: the loop writes the frame and stays where it was.
WriteFrameAgain ==
    /\ loop = "writing"
    /\ stdoutOpen
    /\ Len(replies) < MaxLines
    /\ replies' = Append(replies, [to |-> taken, answer |-> reply])
    /\ loop' \in {"writing", "reading"}
    /\ reply' = IF loop' = "writing" THEN reply ELSE NoReply
    /\ UNCHANGED <<client, taken, lifecycle>>

WriteFrame ==
    /\ loop = "writing"
    /\ stdoutOpen
    /\ replies' = Append(replies, [to |-> taken, answer |-> reply])
    /\ reply' = NoReply
    /\ loop' = "reading"
    /\ UNCHANGED <<client, taken, lifecycle>>

\* Mutant: the write error is ignored and the loop goes on.
WriteFailsIgnored ==
    /\ loop = "writing"
    /\ ~stdoutOpen
    /\ reply' = NoReply
    /\ loop' = "reading"
    /\ UNCHANGED <<client, taken, lifecycle, replies>>

\* A write error ends the session; the frame is lost.
WriteFails ==
    /\ loop = "writing"
    /\ ~stdoutOpen
    /\ loop' = "failed"
    /\ UNCHANGED <<client, taken, reply, lifecycle, replies>>

-----------------------------------------------------------------------------

Client == WriteLine \/ CloseStdin \/ CloseStdout

Take == RejectOversized \/ SkipBlank \/ TakeMessage \/ ReadFails \/ EndOfInput

Handle ==
    \/ HandleMalformed \/ HandleInitialize \/ HandleInitialized
    \/ RefuseUninitialized \/ HandleQuery \/ RejectCall \/ BeginCall
    \/ CallReturns \/ HandleShutdown \/ HandleExit \/ HandleMissingMethod
    \/ HandleUnknownMethod

Write == WriteFrame \/ WriteFails

Server == Take \/ Handle \/ Write

Next == Client \/ Server

Spec == Init /\ [][Next]_vars

\* The runtime keeps polling the one task it has, and every call returns: the
\* part of fairness that is a claim about tools is taken up by ToolRuntime.
FairSpec == Spec /\ WF_vars(Server)

-----------------------------------------------------------------------------
(* What a session promises. *)

Over == loop \in {"stopped", "failed"}

\* Lines the server is done with: the line it is handling, or whose reply it
\* has not written, is not one of them.
consumed ==
    IF loop \in {"handling", "calling"} \/ reply # NoReply
    THEN taken - 1
    ELSE taken

\* What consuming a line may put on stdout, given only whether a handshake
\* line came before it.
Outcome(ready, l) ==
    CASE l.kind \in {"oversized", "malformed"} -> {[id |-> NoId, code |-> ParseError]}
      [] l.kind = "blank"    -> {NoReply}
      [] l.kind = "not_utf8" -> {}
      [] l.kind = "message"  ->
           CASE l.method \in {"notifications/initialized", "exit"} -> {NoReply}
             [] l.method \in {"initialize", "shutdown"} ->
                  {[id |-> l.id, code |-> "ok"]}
             [] l.method = ""      -> {[id |-> l.id, code |-> InvalidRequest]}
             [] l.method = "other" -> {[id |-> l.id, code |-> MethodNotFound]}
             [] l.method \in Guarded /\ ~ready ->
                  {[id |-> l.id, code |-> NotInitialized]}
             [] l.method \in {"ping", "tools/list"} /\ ready ->
                  {[id |-> l.id, code |-> "ok"]}
             [] l.method = "tools/call" /\ ready /\ ~l.full ->
                  {[id |-> l.id, code |-> "-32602"]}
             [] l.method = "tools/call" /\ ready /\ l.full ->
                  {[id |-> l.id, code |-> c] : c \in {"ok", "-32602", "-32603"}}

\* The session implements the abstract one: lines are consumed in order, each
\* is answered at most once and by what Outcome allows, a line that asks for a
\* reply is never passed over, and nothing is written after the end.
Contract ==
    INSTANCE SessionContract WITH
        Line      <- Input,
        Handshake <- {l \in Input : Initializes(l)},
        Outcomes  <- [ready \in BOOLEAN |-> [l \in Input |-> Outcome(ready, l)]],
        Silence   <- NoReply,
        live      <- ~Over

ContractSpec == Contract!Spec

\* Replies leave in the order of the lines they answer, and no line is
\* answered twice, whatever the client writes while a tool runs.
AnsweredInOrder ==
    \A i, j \in DOMAIN replies : i < j => replies[i].to < replies[j].to

\* A guarded request is refused with -32002 exactly when no handshake line
\* was written before it: the flag never runs ahead of, nor behind, the
\* session's history (protocol.rs:83, 94, 105).
HandshakeGate ==
    \A i \in DOMAIN replies :
        LET l == lines[replies[i].to] IN
        l.kind = "message" /\ l.method \in Guarded =>
            (replies[i].answer.code = NotInitialized
             <=> \A h \in 1 .. replies[i].to - 1 : ~Initializes(lines[h]))

\* Every line the server is done with and that asks for a reply has its reply
\* on stdout, carrying the line's own id: none is dropped on the way.
Speaks(l) ==
    \/ l.kind \in {"oversized", "malformed"}
    \/ l.kind = "message" /\ l.method \notin {"notifications/initialized", "exit"}

NoneDropped ==
    \A n \in 1 .. consumed :
        Speaks(lines[n]) =>
            \E i \in DOMAIN replies :
                /\ replies[i].to = n
                /\ replies[i].answer.id = lines[n].id

\* Liveness: every line the client writes is consumed, unless the session
\* fails first; closing stdin ends the session after what was written.
EveryLineConsumed ==
    \A n \in 1 .. MaxLines : Len(lines) >= n ~> (consumed >= n \/ loop = "failed")

StopsAfterStdinCloses == ~stdinOpen ~> Over

-----------------------------------------------------------------------------
(* A claim of the comments that the code does not keep. *)

\* transport.rs:3-4: the loop runs until stdin closes "or the client sends
\* `exit`": no line after an exit would then be answered.
ExitEndsSession ==
    \A i \in DOMAIN replies :
        \A h \in 1 .. replies[i].to - 1 :
            ~(lines[h].kind = "message" /\ lines[h].method = "exit")

=============================================================================
