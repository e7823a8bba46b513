-------------------------- MODULE McpSession_proofs --------------------------
(***************************************************************************)
(* Proofs about McpSession, for any ids, any input alphabet and any number *)
(* of lines: type correctness, the order of the replies, the handshake     *)
(* gate, no dropped reply, and that the session implements SessionContract.*)
(***************************************************************************)
EXTENDS McpSession, TLAPS

\* A handshake line among the first n of ls.
ReadyIn(ls, n) == \E h \in 1 .. n : Initializes(ls[h])

Ready(n) == ReadyIn(lines, n)

\* Lines whose handler has run, as far as the lifecycle flag goes.
handled == IF loop = "handling" THEN taken - 1 ELSE taken

\* Where the loop is tells what it holds: a frame exactly while it writes, or
\* after the write failed, and a line while it handles one.
LoopInv ==
    /\ loop \in {"reading", "handling", "calling", "stopped"} => reply = NoReply
    /\ loop = "writing" => reply # NoReply
    /\ loop \in {"handling", "calling", "writing"} => taken >= 1
    /\ reply # NoReply => taken >= 1
    /\ loop = "handling" => Current.kind \in {"malformed", "message"}
    /\ loop = "calling" =>
         /\ Current.kind = "message"
         /\ Current.method = "tools/call"
         /\ Current.full
         /\ initialized

\* The lifecycle flag is the session's history.
FlagInv == initialized <=> Ready(handled)

\* The frame about to be written is one the line at hand may get.
PendingInv == reply # NoReply => reply \in Outcome(Ready(taken - 1), Current)

\* Every frame written answers a line the server is done with, by an answer
\* that line may get.
WrittenInv ==
    \A i \in DOMAIN replies :
        LET n == replies[i].to IN
        /\ n \in 1 .. consumed
        /\ replies[i].answer \in Outcome(Ready(n - 1), lines[n])

IInv ==
    /\ TypeOK
    /\ LoopInv
    /\ FlagInv
    /\ PendingInv
    /\ WrittenInv
    /\ AnsweredInOrder
    /\ NoneDropped

-----------------------------------------------------------------------------
(* Shapes of lines and replies. *)

LEMMA LineShape ==
    ASSUME NEW l \in Input
    PROVE  /\ l.kind \in {"oversized", "blank", "not_utf8", "malformed", "message"}
           /\ l.method \in ParamMethods \cup PlainMethods
           /\ l.id \in Ids \cup {NoId}
           /\ l.full \in BOOLEAN
  BY InputAssumption DEF Line, Message, Junk, ParamMethods, PlainMethods

LEMMA CodesAre ==
    /\ map_protocol_error("InvalidArgument") = "-32602"
    /\ \A k \in ToolErrors : map_protocol_error(k) \in {"-32602", "-32603"}
    /\ Codes = {"ok", "-32002", "-32700", "-32600", "-32601", "-32602", "-32603"}
<1>1. map_protocol_error("InvalidArgument") = "-32602"
  BY DEF map_protocol_error
<1>2. /\ map_protocol_error("PermissionDenied") = "-32603"
      /\ map_protocol_error("Timeout") = "-32603"
      /\ map_protocol_error("UrlRejected") = "-32603"
  BY DEF map_protocol_error
<1>3. \A k \in ToolErrors : map_protocol_error(k) \in {"-32602", "-32603"}
  BY <1>1, <1>2 DEF ToolErrors
<1>4. Codes = {"ok", "-32002", "-32700", "-32600", "-32601", "-32602", "-32603"}
  BY <1>1, <1>2 DEF Codes, ToolErrors, NotInitialized, ParseError,
       InvalidRequest, MethodNotFound
<1> QED BY <1>1, <1>3, <1>4

\* A frame is never the placeholder for "no frame".
LEMMA AnswersSpeak ==
    /\ NoReply \notin Answers
    /\ \A id \in Ids \cup {NoId}, code \in Codes :
         /\ [id |-> id, code |-> code] \in Answers
         /\ [id |-> id, code |-> code] # NoReply
  BY CodesAre DEF Answers, NoReply

-----------------------------------------------------------------------------
(* Type correctness: whatever the client writes and however calls end, the *)
(* loop's position, its pending frame and what is on stdout stay in range  *)
(* (transport::run, McpServer::handle_message).                            *)

LEMMA InitType == Init => TypeOK
<1> SUFFICES ASSUME Init PROVE TypeOK
  OBVIOUS
<1>1. lines \in Seq(Input) /\ Len(lines) = 0
  BY DEF Init
<1>2. replies \in Seq([to : 1 .. MaxLines, answer : Answers])
  BY DEF Init
<1>3. /\ stdinOpen = TRUE /\ stdoutOpen = TRUE /\ loop = "reading"
      /\ taken = 0 /\ reply = NoReply
      /\ initialized = FALSE /\ client_name = FALSE
  BY DEF Init
<1>4. Len(lines) <= MaxLines
  BY <1>1, MaxLinesAssumption
<1>5. taken \in 0 .. Len(lines)
  BY <1>1, <1>3
<1>6. loop \in Loop
  BY <1>3 DEF Loop
<1>7. reply \in Answers \cup {NoReply}
  BY <1>3
<1> QED BY <1>1, <1>2, <1>3, <1>4, <1>5, <1>6, <1>7 DEF TypeOK

LEMMA ClientType == TypeOK /\ Client => TypeOK'
<1> SUFFICES ASSUME TypeOK, Client PROVE TypeOK'
  OBVIOUS
<1> USE MaxLinesAssumption DEF TypeOK, lifecycle
<1>1. CASE WriteLine
  <2>1. PICK l \in Input : lines' = Append(lines, l)
    BY <1>1 DEF WriteLine
  <2>2. lines' \in Seq(Input) /\ Len(lines') = Len(lines) + 1
    BY <2>1
  <2> QED BY <1>1, <2>2 DEF WriteLine
<1>2. CASE CloseStdin
  BY <1>2 DEF CloseStdin
<1>3. CASE CloseStdout
  BY <1>3 DEF CloseStdout
<1> QED BY <1>1, <1>2, <1>3 DEF Client

LEMMA TakeType == TypeOK /\ Take => TypeOK'
<1> SUFFICES ASSUME TypeOK, Take PROVE TypeOK'
  OBVIOUS
<1> USE MaxLinesAssumption DEF TypeOK, lifecycle, client, LineAvailable, Loop
<1>1. CASE RejectOversized
  <2>1. reply' \in Answers
    BY <1>1, AnswersSpeak DEF RejectOversized, Codes
  <2> QED BY <1>1, <2>1 DEF RejectOversized
<1>2. CASE SkipBlank
  BY <1>2 DEF SkipBlank
<1>3. CASE TakeMessage
  BY <1>3 DEF TakeMessage
<1>4. CASE ReadFails
  BY <1>4 DEF ReadFails
<1>5. CASE EndOfInput
  BY <1>5 DEF EndOfInput
<1> QED BY <1>1, <1>2, <1>3, <1>4, <1>5 DEF Take

\* What a handler answers: the id of the line at hand and a known code.
LEMMA AnswerType ==
    ASSUME TypeOK, loop \in {"handling", "calling"}, taken >= 1,
           NEW code \in Codes, Answer(code)
    PROVE  /\ reply' \in Answers
           /\ reply' # NoReply
           /\ loop' = "writing"
<1>1. Current \in Input
  BY DEF TypeOK, Current
<1>2. Current.id \in Ids \cup {NoId}
  BY <1>1, LineShape
<1> QED BY <1>2, AnswersSpeak DEF Answer

LEMMA HandleType == TypeOK /\ LoopInv /\ Handle => TypeOK'
<1> SUFFICES ASSUME TypeOK, LoopInv, Handle PROVE TypeOK'
  OBVIOUS
<1>1. /\ lines' = lines
      /\ stdinOpen' = stdinOpen
      /\ stdoutOpen' = stdoutOpen
      /\ taken' = taken
      /\ replies' = replies
      /\ loop \in {"handling", "calling"}
  BY DEF Handle, HandleMalformed, HandleInitialize, HandleInitialized,
     RefuseUninitialized, HandleQuery, RejectCall, BeginCall, CallReturns,
     HandleShutdown, HandleExit, HandleMissingMethod, HandleUnknownMethod,
     Handling, client
<1>2. taken >= 1
  BY <1>1 DEF LoopInv
<1>3. Current.full \in BOOLEAN
  <2>1. Current \in Input
    BY <1>2 DEF TypeOK, Current
  <2> QED BY <2>1, LineShape
<1>4. initialized' \in BOOLEAN /\ client_name' \in BOOLEAN
  BY <1>3 DEF Handle, HandleMalformed, HandleInitialize, HandleInitialized,
     RefuseUninitialized, HandleQuery, RejectCall, BeginCall, CallReturns,
     HandleShutdown, HandleExit, HandleMissingMethod, HandleUnknownMethod,
     mark_initialized, lifecycle, TypeOK
<1>5. \/ \E code \in Codes : Answer(code)
      \/ NoAnswer
      \/ BeginCall
      \/ HandleMalformed
  <2>1. CASE CallReturns
    BY <2>1, CodesAre DEF CallReturns
  <2>2. CASE RejectCall
    BY <2>2, CodesAre DEF RejectCall
  <2> QED BY <2>1, <2>2 DEF Handle, HandleInitialize, HandleInitialized,
         RefuseUninitialized, HandleQuery, HandleShutdown, HandleExit,
         HandleMissingMethod, HandleUnknownMethod, Codes
<1>6. reply' \in Answers \cup {NoReply} /\ loop' \in Loop
  <2>1. CASE \E code \in Codes : Answer(code)
    BY <2>1, <1>1, <1>2, AnswerType DEF Loop
  <2>2. CASE NoAnswer
    BY <2>2 DEF NoAnswer, Loop
  <2>3. CASE BeginCall
    BY <2>3 DEF BeginCall, Loop, TypeOK
  <2>4. CASE HandleMalformed
    BY <2>4, AnswersSpeak DEF HandleMalformed, Loop, Codes
  <2> QED BY <1>5, <2>1, <2>2, <2>3, <2>4
<1> QED BY <1>1, <1>4, <1>6 DEF TypeOK

LEMMA WriteType == TypeOK /\ LoopInv /\ Write => TypeOK'
<1> SUFFICES ASSUME TypeOK, LoopInv, Write PROVE TypeOK'
  OBVIOUS
<1>1. CASE WriteFrame
  <2>1. reply \in Answers /\ taken \in 1 .. MaxLines
    BY <1>1, MaxLinesAssumption DEF WriteFrame, LoopInv, TypeOK
  <2>2. [to |-> taken, answer |-> reply] \in [to : 1 .. MaxLines, answer : Answers]
    BY <2>1
  <2>3. replies' \in Seq([to : 1 .. MaxLines, answer : Answers])
    BY <1>1, <2>2 DEF WriteFrame, TypeOK
  <2> QED BY <1>1, <2>3 DEF WriteFrame, TypeOK, Loop, client, lifecycle
<1>2. CASE WriteFails
  BY <1>2 DEF WriteFails, TypeOK, Loop, client, lifecycle
<1> QED BY <1>1, <1>2 DEF Write

-----------------------------------------------------------------------------
(* What a handler does to the session, whichever arm runs. *)

LEMMA CurrentShape ==
    ASSUME TypeOK, taken >= 1
    PROVE  /\ Current \in Input
           /\ Current.kind \in {"oversized", "blank", "not_utf8", "malformed", "message"}
           /\ Current.method \in ParamMethods \cup PlainMethods
           /\ Current.id \in Ids \cup {NoId}
           /\ Current.full \in BOOLEAN
<1>1. Current \in Input
  BY DEF TypeOK, Current
<1> QED BY <1>1, LineShape

LEMMA ReadyStep ==
    ASSUME TypeOK, taken >= 1
    PROVE  Ready(taken) <=> Ready(taken - 1) \/ Initializes(Current)
  BY DEF TypeOK, Ready, ReadyIn, Current

\* The history as seen by the handler: what came before the line at hand.
LEMMA ReadyWhileHandling ==
    ASSUME TypeOK, LoopInv, FlagInv, loop \in {"handling", "calling"}
    PROVE  initialized <=> Ready(taken - 1)
<1>1. CASE loop = "handling"
  BY <1>1 DEF FlagInv, handled
<1>2. CASE loop = "calling"
  <2>1. ~Initializes(Current)
    BY <1>2 DEF LoopInv, Initializes
  <2>2. initialized <=> Ready(taken)
    BY <1>2 DEF FlagInv, handled
  <2> QED BY <1>2, <2>1, <2>2, ReadyStep DEF LoopInv
<1> QED BY <1>1, <1>2

Answered ==
    /\ loop' = "writing"
    /\ reply' # NoReply
    /\ reply' \in Outcome(Ready(taken - 1), Current)

Silent ==
    /\ loop' = "reading"
    /\ reply' = NoReply
    /\ ~Speaks(Current)
    /\ NoReply \in Outcome(Ready(taken - 1), Current)

Calling ==
    /\ loop' = "calling"
    /\ reply' = NoReply
    /\ Current.kind = "message" /\ Current.method = "tools/call" /\ Current.full
    /\ initialized'

LEMMA HandleFrame ==
    ASSUME TypeOK, LoopInv, Handle
    PROVE  /\ lines' = lines
           /\ stdinOpen' = stdinOpen
           /\ stdoutOpen' = stdoutOpen
           /\ taken' = taken
           /\ replies' = replies
           /\ loop \in {"handling", "calling"}
           /\ taken >= 1
           /\ reply = NoReply
  BY DEF Handle, HandleMalformed, HandleInitialize, HandleInitialized,
     RefuseUninitialized, HandleQuery, RejectCall, BeginCall, CallReturns,
     HandleShutdown, HandleExit, HandleMissingMethod, HandleUnknownMethod,
     Handling, client, LoopInv

LEMMA HandleOutcome ==
    ASSUME TypeOK, LoopInv, FlagInv, Handle
    PROVE  /\ Answered \/ Silent \/ Calling
           /\ initialized' <=> Ready(taken)
<1> DEFINE ready == Ready(taken - 1)
<1>0. /\ taken >= 1 /\ reply = NoReply /\ loop \in {"handling", "calling"}
  BY HandleFrame
<1>1. initialized <=> ready
  BY <1>0, ReadyWhileHandling
<1>2. Ready(taken) <=> ready \/ Initializes(Current)
  BY <1>0, ReadyStep
<1>3. /\ Current.kind \in {"oversized", "blank", "not_utf8", "malformed", "message"}
      /\ Current.method \in ParamMethods \cup PlainMethods
      /\ Current.id \in Ids \cup {NoId}
  BY <1>0, CurrentShape
<1>4. ready \in BOOLEAN
  BY DEF Ready, ReadyIn
<1> HIDE DEF ready
\* An arm that answers with a known code, allowed by Outcome, is "Answered".
<1>5. ASSUME NEW code \in Codes, Answer(code),
             [id |-> Current.id, code |-> code] \in Outcome(ready, Current)
      PROVE  Answered
  BY <1>3, <1>5, AnswersSpeak DEF Answer, Answered, ready
<1>6. CASE HandleMalformed
  <2>1. Current.kind = "malformed" /\ lifecycle' = lifecycle
    BY <1>6 DEF HandleMalformed
  <2>2. ~Initializes(Current)
    BY <2>1 DEF Initializes
  <2>3. reply' = [id |-> NoId, code |-> "-32700"] /\ loop' = "writing"
    BY <1>6 DEF HandleMalformed, ParseError
  <2>4. reply' \in Outcome(ready, Current)
    BY <2>1, <2>3 DEF Outcome, ParseError
  <2>5. reply' # NoReply
    BY <2>3 DEF NoReply
  <2> QED BY <1>1, <1>2, <2>1, <2>2, <2>3, <2>4, <2>5 DEF Answered, ready, lifecycle
<1>7. CASE HandleInitialize
  <2>1. Current.kind = "message" /\ Current.method = "initialize"
    BY <1>7 DEF HandleInitialize, Handling
  <2>2. Answer("ok") /\ initialized' = TRUE
    BY <1>7 DEF HandleInitialize, mark_initialized
  <2>3. [id |-> Current.id, code |-> "ok"] \in Outcome(ready, Current)
    BY <2>1 DEF Outcome, Guarded
  <2>4. Answered
    BY <1>5, <2>2, <2>3, CodesAre
  <2> QED BY <1>2, <2>1, <2>2, <2>4 DEF Initializes
<1>8. CASE HandleInitialized
  <2>1. Current.kind = "message" /\ Current.method = "notifications/initialized"
    BY <1>8 DEF HandleInitialized, Handling
  <2>2. NoAnswer /\ initialized' = TRUE
    BY <1>8 DEF HandleInitialized, mark_initialized
  <2>3. NoReply \in Outcome(ready, Current) /\ ~Speaks(Current)
    BY <2>1 DEF Outcome, Speaks, Guarded
  <2> QED BY <1>2, <2>1, <2>2, <2>3 DEF Initializes, NoAnswer, Silent, ready
<1>9. CASE HandleExit
  <2>1. Current.kind = "message" /\ Current.method = "exit"
    BY <1>9 DEF HandleExit, Handling
  <2>2. NoAnswer /\ initialized' = initialized
    BY <1>9 DEF HandleExit, lifecycle
  <2>3. NoReply \in Outcome(ready, Current) /\ ~Speaks(Current)
    BY <2>1 DEF Outcome, Speaks, Guarded
  <2> QED BY <1>1, <1>2, <2>1, <2>2, <2>3 DEF Initializes, NoAnswer, Silent, ready
<1>10. CASE BeginCall
  <2>1. /\ Current.kind = "message" /\ Current.method = "tools/call"
        /\ Current.full /\ initialized /\ initialized' = initialized
        /\ reply' = reply /\ loop' = "calling"
    BY <1>10 DEF BeginCall, Handling, lifecycle
  <2> QED BY <1>0, <1>1, <1>2, <2>1 DEF Initializes, Calling
\* Every other arm answers and leaves the lifecycle alone.
<1>11. ASSUME NEW code \in Codes, Answer(code), lifecycle' = lifecycle,
              Current.kind = "message", ~Initializes(Current),
              [id |-> Current.id, code |-> code] \in Outcome(ready, Current)
       PROVE  /\ Answered
              /\ initialized' <=> Ready(taken)
  BY <1>1, <1>2, <1>5, <1>11 DEF lifecycle
<1>12. CASE RefuseUninitialized
  <2>1. /\ Current.kind = "message" /\ Current.method \in Guarded /\ ~ready
        /\ Answer("-32002") /\ lifecycle' = lifecycle
    BY <1>1, <1>12 DEF RefuseUninitialized, Handling, NotInitialized
  <2>2. ~Initializes(Current)
    BY <2>1 DEF Initializes, Guarded
  <2>3. [id |-> Current.id, code |-> "-32002"] \in Outcome(ready, Current)
    BY <2>1 DEF Outcome, Guarded, NotInitialized
  <2> QED BY <1>11, <2>1, <2>2, <2>3, CodesAre
<1>13. CASE HandleQuery
  <2>1. /\ Current.kind = "message" /\ Current.method \in {"ping", "tools/list"}
        /\ ready /\ Answer("ok") /\ lifecycle' = lifecycle
    BY <1>1, <1>13 DEF HandleQuery, Handling
  <2>2. ~Initializes(Current)
    BY <2>1 DEF Initializes
  <2>3. [id |-> Current.id, code |-> "ok"] \in Outcome(ready, Current)
    BY <2>1 DEF Outcome, Guarded
  <2> QED BY <1>11, <2>1, <2>2, <2>3, CodesAre
<1>14. CASE RejectCall
  <2>1. /\ Current.kind = "message" /\ Current.method = "tools/call"
        /\ ready /\ ~Current.full /\ Answer("-32602") /\ lifecycle' = lifecycle
    BY <1>1, <1>14, CodesAre DEF RejectCall, Handling
  <2>2. ~Initializes(Current)
    BY <2>1 DEF Initializes
  <2>3. [id |-> Current.id, code |-> "-32602"] \in Outcome(ready, Current)
    BY <2>1 DEF Outcome, Guarded
  <2> QED BY <1>11, <2>1, <2>2, <2>3, CodesAre
<1>15. CASE CallReturns
  <2>1. /\ Current.kind = "message" /\ Current.method = "tools/call"
        /\ ready /\ Current.full /\ lifecycle' = lifecycle
    BY <1>1, <1>15 DEF CallReturns, LoopInv
  <2>2. ~Initializes(Current)
    BY <2>1 DEF Initializes
  <2>3. PICK code \in {"ok", "-32602", "-32603"} : Answer(code)
    BY <1>15, CodesAre DEF CallReturns
  <2>4. [id |-> Current.id, code |-> code] \in Outcome(ready, Current)
    BY <2>1 DEF Outcome, Guarded
  <2> QED BY <1>11, <2>1, <2>2, <2>3, <2>4, CodesAre
<1>16. CASE HandleShutdown
  <2>1. /\ Current.kind = "message" /\ Current.method = "shutdown"
        /\ Answer("ok") /\ lifecycle' = lifecycle
    BY <1>16 DEF HandleShutdown, Handling
  <2>2. ~Initializes(Current)
    BY <2>1 DEF Initializes
  <2>3. [id |-> Current.id, code |-> "ok"] \in Outcome(ready, Current)
    BY <2>1 DEF Outcome, Guarded
  <2> QED BY <1>11, <2>1, <2>2, <2>3, CodesAre
<1>17. CASE HandleMissingMethod
  <2>1. /\ Current.kind = "message" /\ Current.method = ""
        /\ Answer("-32600") /\ lifecycle' = lifecycle
    BY <1>17 DEF HandleMissingMethod, Handling, InvalidRequest
  <2>2. ~Initializes(Current)
    BY <2>1 DEF Initializes
  <2>3. [id |-> Current.id, code |-> "-32600"] \in Outcome(ready, Current)
    BY <2>1 DEF Outcome, InvalidRequest, Guarded
  <2> QED BY <1>11, <2>1, <2>2, <2>3, CodesAre
<1>18. CASE HandleUnknownMethod
  <2>1. /\ Current.kind = "message" /\ Current.method = "other"
        /\ Answer("-32601") /\ lifecycle' = lifecycle
    BY <1>18 DEF HandleUnknownMethod, Handling, MethodNotFound
  <2>2. ~Initializes(Current)
    BY <2>1 DEF Initializes
  <2>3. [id |-> Current.id, code |-> "-32601"] \in Outcome(ready, Current)
    BY <2>1 DEF Outcome, MethodNotFound, Guarded
  <2> QED BY <1>11, <2>1, <2>2, <2>3, CodesAre
<1> QED
  BY <1>6, <1>7, <1>8, <1>9, <1>10, <1>12, <1>13, <1>14, <1>15, <1>16, <1>17,
     <1>18 DEF Handle

-----------------------------------------------------------------------------
(* The inductive invariant. *)

LEMMA InitInv == Init => IInv
<1> SUFFICES ASSUME Init PROVE IInv
  OBVIOUS
<1>1. TypeOK
  BY InitType
<1>2. LoopInv /\ FlagInv /\ PendingInv
  BY DEF Init, LoopInv, FlagInv, PendingInv, handled, Ready, ReadyIn
<1>3. WrittenInv /\ AnsweredInOrder
  BY DEF Init, WrittenInv, AnsweredInOrder
<1>4. NoneDropped
  BY DEF Init, NoneDropped, consumed
<1> QED BY <1>1, <1>2, <1>3, <1>4 DEF IInv

\* The past does not change when the client writes.
LEMMA ClientFrame ==
    ASSUME TypeOK, Client
    PROVE  /\ loop' = loop /\ taken' = taken /\ reply' = reply
           /\ initialized' = initialized /\ replies' = replies
           /\ \A n \in 1 .. Len(lines) : lines'[n] = lines[n]
           /\ \A n \in 0 .. Len(lines) : ReadyIn(lines', n) = ReadyIn(lines, n)
<1>1. \A n \in 1 .. Len(lines) : lines'[n] = lines[n]
  <2>1. CASE WriteLine
    <3>1. PICK l \in Input : lines' = Append(lines, l)
      BY <2>1 DEF WriteLine
    <3> QED BY <3>1 DEF TypeOK
  <2>2. CASE CloseStdin \/ CloseStdout
    BY <2>2 DEF CloseStdin, CloseStdout
  <2> QED BY <2>1, <2>2 DEF Client
<1>2. ASSUME NEW n \in 0 .. Len(lines)
      PROVE  ReadyIn(lines', n) = ReadyIn(lines, n)
  <2>1. \A h \in 1 .. n : lines'[h] = lines[h]
    BY <1>1 DEF TypeOK
  <2> QED BY <2>1 DEF ReadyIn
<1> QED BY <1>1, <1>2 DEF Client, WriteLine, CloseStdin, CloseStdout, lifecycle

LEMMA ClientInv == IInv /\ Client => IInv'
<1> SUFFICES ASSUME IInv, Client PROVE IInv'
  OBVIOUS
<1>0. TypeOK /\ TypeOK'
  BY ClientType DEF IInv
<1>1. /\ loop' = loop /\ taken' = taken /\ reply' = reply
      /\ initialized' = initialized /\ replies' = replies
  BY <1>0, ClientFrame
<1>2. \A n \in 1 .. Len(lines) : lines'[n] = lines[n]
  BY <1>0, ClientFrame
<1>3. \A n \in 0 .. Len(lines) : ReadyIn(lines', n) = ReadyIn(lines, n)
  BY <1>0, ClientFrame
<1>4. taken \in 0 .. Len(lines) /\ Len(lines) \in Nat
  BY <1>0 DEF TypeOK
<1>5. LoopInv'
  BY <1>1, <1>2, <1>4 DEF IInv, LoopInv, Current
<1>6. FlagInv'
  BY <1>1, <1>3, <1>4 DEF IInv, LoopInv, FlagInv, handled, Ready
<1>7. PendingInv'
  <2>1. SUFFICES ASSUME reply # NoReply
                 PROVE  reply \in Outcome(ReadyIn(lines', taken - 1), lines'[taken])
    BY <1>1 DEF PendingInv, Current, Ready
  <2>2. taken \in 1 .. Len(lines) /\ taken - 1 \in 0 .. Len(lines)
    BY <1>4, <2>1 DEF IInv, LoopInv
  <2>3. reply \in Outcome(ReadyIn(lines, taken - 1), lines[taken])
    BY <2>1 DEF IInv, PendingInv, Current, Ready
  <2> QED BY <1>2, <1>3, <2>2, <2>3
<1>8. consumed' = consumed /\ consumed \in 0 .. Len(lines)
  BY <1>1, <1>4 DEF IInv, LoopInv, consumed
<1>9. WrittenInv'
  <2>1. SUFFICES ASSUME NEW i \in DOMAIN replies
                 PROVE  LET n == replies[i].to IN
                        /\ n \in 1 .. consumed
                        /\ replies[i].answer
                             \in Outcome(ReadyIn(lines', n - 1), lines'[n])
    BY <1>1, <1>8 DEF WrittenInv, Ready
  <2>2. /\ replies[i].to \in 1 .. consumed
        /\ replies[i].answer
             \in Outcome(ReadyIn(lines, replies[i].to - 1), lines[replies[i].to])
    BY DEF IInv, WrittenInv, Ready
  <2>3. replies[i].to \in 1 .. Len(lines) /\ replies[i].to - 1 \in 0 .. Len(lines)
    BY <1>4, <1>8, <2>2
  <2> QED BY <1>2, <1>3, <2>2, <2>3
<1>10. AnsweredInOrder'
  BY <1>1 DEF IInv, AnsweredInOrder
<1>11. NoneDropped'
  BY <1>1, <1>2, <1>4, <1>8 DEF IInv, NoneDropped
<1> QED BY <1>0, <1>5, <1>6, <1>7, <1>9, <1>10, <1>11 DEF IInv

LEMMA HandleInv == IInv /\ Handle => IInv'
<1> SUFFICES ASSUME IInv, Handle PROVE IInv'
  OBVIOUS
<1>0. TypeOK /\ TypeOK' /\ LoopInv /\ FlagInv
  BY HandleType DEF IInv
<1>1. /\ lines' = lines /\ taken' = taken /\ replies' = replies
      /\ loop \in {"handling", "calling"} /\ taken >= 1 /\ reply = NoReply
  BY <1>0, HandleFrame
<1>2. Answered \/ Silent \/ Calling
  BY <1>0, HandleOutcome
<1>3. initialized' <=> Ready(taken)
  BY <1>0, HandleOutcome
<1>4. taken \in Nat
  BY <1>0 DEF TypeOK
<1>5. LoopInv'
  BY <1>1, <1>2 DEF LoopInv, Answered, Silent, Calling, Current
<1>6. FlagInv'
  BY <1>1, <1>2, <1>3 DEF FlagInv, handled, Ready, Answered, Silent, Calling
<1>7. PendingInv'
  BY <1>1, <1>2 DEF PendingInv, Answered, Silent, Calling, Current, Ready
<1>8. consumed = taken - 1
  BY <1>1 DEF consumed
<1>9. consumed' = consumed \/ (Silent /\ consumed' = taken)
  BY <1>1, <1>2, <1>8 DEF consumed, Answered, Silent, Calling
<1>10. WrittenInv'
  BY <1>1, <1>4, <1>8, <1>9 DEF IInv, WrittenInv, Ready
<1>11. AnsweredInOrder'
  BY <1>1 DEF IInv, AnsweredInOrder
<1>12. NoneDropped'
  BY <1>1, <1>4, <1>8, <1>9 DEF IInv, NoneDropped, Silent, Current
<1> QED BY <1>0, <1>5, <1>6, <1>7, <1>10, <1>11, <1>12 DEF IInv

LEMMA TakeInv == IInv /\ Take => IInv'
<1> SUFFICES ASSUME IInv, Take PROVE IInv'
  OBVIOUS
<1>0. TypeOK /\ TypeOK' /\ LoopInv /\ FlagInv
  BY TakeType DEF IInv
<1>1. /\ lines' = lines /\ replies' = replies /\ initialized' = initialized
      /\ loop = "reading" /\ reply = NoReply
  BY <1>0 DEF Take, RejectOversized, SkipBlank, TakeMessage, ReadFails,
     EndOfInput, LineAvailable, client, lifecycle, LoopInv
<1>2. consumed = taken /\ taken \in Nat /\ (initialized <=> Ready(taken))
  BY <1>0, <1>1 DEF consumed, TypeOK, FlagInv, handled
\* A junk line is no handshake, so the history reads the same after it.
<1>3. ~Initializes(lines[taken + 1]) => (Ready(taken + 1) <=> Ready(taken))
  BY <1>2 DEF Ready, ReadyIn
<1>4. AnsweredInOrder'
  BY <1>1 DEF IInv, AnsweredInOrder
<1>5. ASSUME consumed' \in {taken, taken + 1}
      PROVE  WrittenInv'
  BY <1>1, <1>2, <1>5 DEF IInv, WrittenInv, Ready
<1>6. ASSUME consumed' = taken
      PROVE  NoneDropped'
  BY <1>1, <1>2, <1>6 DEF IInv, NoneDropped
<1>7. CASE RejectOversized
  <2>1. /\ taken' = taken + 1 /\ loop' = "writing"
        /\ reply' = [id |-> NoId, code |-> ParseError]
        /\ lines[taken + 1].kind = "oversized"
    BY <1>7 DEF RejectOversized, LineAvailable, NextLine
  <2>2. reply' # NoReply
    BY <2>1 DEF NoReply, ParseError
  <2>3. reply' \in Outcome(Ready(taken), lines[taken + 1])
    BY <2>1 DEF Outcome
  <2>4. LoopInv'
    BY <1>2, <2>1, <2>2 DEF LoopInv
  <2>5. FlagInv'
    BY <1>1, <1>2, <1>3, <2>1 DEF FlagInv, handled, Initializes, Ready
  <2>6. PendingInv'
    BY <1>1, <1>2, <2>1, <2>3 DEF PendingInv, Current, Ready
  <2>7. consumed' = taken
    BY <1>2, <2>1, <2>2 DEF consumed
  <2> QED BY <1>0, <1>4, <1>5, <1>6, <2>4, <2>5, <2>6, <2>7 DEF IInv
<1>8. CASE SkipBlank
  <2>1. /\ taken' = taken + 1 /\ loop' = loop /\ reply' = reply
        /\ lines[taken + 1].kind = "blank"
    BY <1>8 DEF SkipBlank, LineAvailable, NextLine
  <2>2. LoopInv' /\ PendingInv'
    BY <1>1, <1>2, <2>1 DEF LoopInv, PendingInv
  <2>3. FlagInv'
    BY <1>1, <1>2, <1>3, <2>1 DEF FlagInv, handled, Initializes, Ready
  <2>4. consumed' = taken + 1
    BY <1>1, <2>1 DEF consumed
  <2>5. ~Speaks(lines[taken + 1])
    BY <2>1 DEF Speaks
  <2>6. NoneDropped'
    BY <1>1, <1>2, <2>4, <2>5 DEF IInv, NoneDropped
  <2> QED BY <1>0, <1>4, <1>5, <2>2, <2>3, <2>4, <2>6 DEF IInv
<1>9. CASE TakeMessage
  <2>1. /\ taken' = taken + 1 /\ loop' = "handling" /\ reply' = reply
        /\ lines[taken + 1].kind \in {"malformed", "message"}
    BY <1>9 DEF TakeMessage, LineAvailable, NextLine
  <2>2. LoopInv' /\ PendingInv'
    BY <1>1, <1>2, <2>1 DEF LoopInv, PendingInv, Current
  <2>3. FlagInv'
    BY <1>1, <1>2, <2>1 DEF FlagInv, handled, Ready
  <2>4. consumed' = taken
    BY <1>2, <2>1 DEF consumed
  <2> QED BY <1>0, <1>4, <1>5, <1>6, <2>2, <2>3, <2>4 DEF IInv
<1>10. CASE ReadFails \/ EndOfInput
  <2>1. taken' = taken /\ loop' \in {"stopped", "failed"} /\ reply' = reply
    BY <1>10 DEF ReadFails, EndOfInput
  <2>2. LoopInv' /\ PendingInv'
    BY <1>1, <2>1 DEF LoopInv, PendingInv
  <2>3. FlagInv'
    BY <1>1, <1>2, <2>1 DEF FlagInv, handled, Ready
  <2>4. consumed' = taken
    BY <1>1, <1>2, <2>1 DEF consumed
  <2> QED BY <1>0, <1>4, <1>5, <1>6, <2>2, <2>3, <2>4 DEF IInv
<1> QED BY <1>7, <1>8, <1>9, <1>10 DEF Take

\* A reply carries the id of the line it answers.
LEMMA OutcomeId ==
    ASSUME NEW l \in Input, NEW ready \in BOOLEAN, NEW o \in Outcome(ready, l),
           o # NoReply
    PROVE  o.id = l.id
<1>1. CASE l.kind = "message"
  <2>1. l.method \in {"initialize", "notifications/initialized", "tools/call",
                      "ping", "tools/list", "shutdown", "exit", "", "other"}
    BY LineShape DEF ParamMethods, PlainMethods
  <2>2. l.full \in BOOLEAN
    BY LineShape
  <2>3. CASE l.method \in {"notifications/initialized", "exit"}
    <3>1. Outcome(ready, l) = {NoReply}
      BY <1>1, <2>3 DEF Outcome, Guarded
    <3> QED BY <3>1
  <2>4. CASE l.method \notin {"notifications/initialized", "exit"}
    <3>1. Outcome(ready, l) \subseteq {[id |-> l.id, code |-> c] : c \in Codes}
      <4>1. CASE l.method = "tools/call" /\ ready /\ l.full
        <5>1. Outcome(ready, l) =
                {[id |-> l.id, code |-> c] : c \in {"ok", "-32602", "-32603"}}
          BY <1>1, <4>1 DEF Outcome, Guarded
        <5> QED BY <5>1, CodesAre
      <4>2. CASE ~(l.method = "tools/call" /\ ready /\ l.full)
        <5>1. PICK c \in Codes : Outcome(ready, l) = {[id |-> l.id, code |-> c]}
          BY <1>1, <2>1, <2>2, <2>4, <4>2, CodesAre DEF Outcome, Guarded,
             NotInitialized, InvalidRequest, MethodNotFound
        <5> QED BY <5>1
      <4> QED BY <4>1, <4>2
    <3> QED BY <3>1
  <2> QED BY <2>3, <2>4
<1>2. CASE l.kind # "message"
  <2>1. l.id = NoId /\ l.kind \in {"oversized", "blank", "not_utf8", "malformed"}
    BY <1>2, InputAssumption DEF Line, Message, Junk
  <2>2. CASE l.kind \in {"oversized", "malformed"}
    <3>1. Outcome(ready, l) = {[id |-> NoId, code |-> ParseError]}
      BY <2>2 DEF Outcome
    <3> QED BY <2>1, <3>1
  <2>3. CASE l.kind \in {"blank", "not_utf8"}
    <3>1. Outcome(ready, l) \subseteq {NoReply}
      BY <2>3 DEF Outcome
    <3> QED BY <3>1
  <2> QED BY <2>1, <2>2, <2>3
<1> QED BY <1>1, <1>2

LEMMA WriteInv == IInv /\ Write => IInv'
<1> SUFFICES ASSUME IInv, Write PROVE IInv'
  OBVIOUS
<1>0. TypeOK /\ TypeOK' /\ LoopInv /\ FlagInv
  BY WriteType DEF IInv
<1>1. /\ lines' = lines /\ taken' = taken /\ initialized' = initialized
      /\ loop = "writing" /\ reply # NoReply /\ taken \in 1 .. Len(lines)
  BY <1>0 DEF Write, WriteFrame, WriteFails, client, lifecycle, LoopInv, TypeOK
<1>2. consumed = taken - 1
  BY <1>1 DEF consumed
<1>3. CASE WriteFrame
  <2> DEFINE frame == [to |-> taken, answer |-> reply]
  <2>1. loop' = "reading" /\ reply' = NoReply /\ replies' = Append(replies, frame)
    BY <1>3 DEF WriteFrame
  <2>2. /\ DOMAIN replies' = 1 .. Len(replies) + 1
        /\ replies'[Len(replies) + 1] = frame
        /\ \A i \in 1 .. Len(replies) : replies'[i] = replies[i]
        /\ DOMAIN replies = 1 .. Len(replies)
        /\ Len(replies) \in Nat
    BY <1>0, <2>1 DEF TypeOK
  <2>3. LoopInv' /\ PendingInv'
    BY <2>1 DEF LoopInv, PendingInv
  <2>4. FlagInv'
    BY <1>1, <2>1, <1>0 DEF FlagInv, handled, Ready
  <2>5. consumed' = taken
    BY <1>1, <2>1 DEF consumed
  <2>6. \A i \in DOMAIN replies : replies[i].to \in 1 .. taken - 1
    BY <1>2 DEF IInv, WrittenInv
  <2>7. reply \in Outcome(Ready(taken - 1), lines[taken])
    BY <1>1 DEF IInv, PendingInv, Current
  <2>8. WrittenInv'
    <3>1. SUFFICES ASSUME NEW i \in DOMAIN replies'
                   PROVE  LET n == replies'[i].to IN
                          /\ n \in 1 .. taken
                          /\ replies'[i].answer
                               \in Outcome(ReadyIn(lines, n - 1), lines[n])
      BY <1>1, <2>5 DEF WrittenInv, Ready
    <3>2. CASE i = Len(replies) + 1
      BY <1>1, <2>2, <2>7, <3>2 DEF Ready
    <3>3. CASE i \in DOMAIN replies
      <4>1. /\ replies[i].to \in 1 .. taken - 1
            /\ replies[i].answer
                 \in Outcome(ReadyIn(lines, replies[i].to - 1), lines[replies[i].to])
        BY <1>2, <3>3 DEF IInv, WrittenInv, Ready
      <4>2. replies'[i] = replies[i]
        BY <2>2, <3>3
      <4> QED BY <1>1, <4>1, <4>2
    <3> QED BY <2>2, <3>2, <3>3
  <2>9. AnsweredInOrder'
    BY <1>1, <2>2, <2>6 DEF IInv, AnsweredInOrder
  <2>10. NoneDropped'
    <3>1. SUFFICES ASSUME NEW n \in 1 .. taken, Speaks(lines[n])
                   PROVE  \E i \in DOMAIN replies' :
                            /\ replies'[i].to = n
                            /\ replies'[i].answer.id = lines[n].id
      BY <1>1, <2>5 DEF NoneDropped
    <3>2. CASE n = taken
      <4>1. lines[taken] \in Input /\ Ready(taken - 1) \in BOOLEAN
        BY <1>0, <1>1 DEF TypeOK, Ready, ReadyIn
      <4>2. reply.id = lines[taken].id
        BY <1>1, <2>7, <4>1, OutcomeId
      <4> QED BY <2>2, <3>2, <4>2
    <3>3. CASE n \in 1 .. taken - 1
      <4>1. PICK i \in DOMAIN replies :
              replies[i].to = n /\ replies[i].answer.id = lines[n].id
        BY <1>2, <3>1, <3>3 DEF IInv, NoneDropped
      <4> QED BY <2>2, <4>1
    <3> QED BY <1>1, <3>2, <3>3
  <2> QED BY <1>0, <2>3, <2>4, <2>8, <2>9, <2>10 DEF IInv
<1>4. CASE WriteFails
  <2>1. loop' = "failed" /\ reply' = reply /\ replies' = replies
    BY <1>4 DEF WriteFails
  <2>2. LoopInv'
    BY <1>1, <2>1 DEF LoopInv
  <2>3. FlagInv'
    BY <1>0, <1>1, <2>1 DEF FlagInv, handled, Ready
  <2>4. PendingInv'
    BY <1>1, <2>1 DEF IInv, PendingInv, Current, Ready
  <2>5. consumed' = consumed
    BY <1>1, <2>1 DEF consumed
  <2>6. WrittenInv'
    BY <1>1, <2>1, <2>5 DEF IInv, WrittenInv, Ready
  <2>7. AnsweredInOrder' /\ NoneDropped'
    BY <1>1, <2>1, <2>5 DEF IInv, AnsweredInOrder, NoneDropped
  <2> QED BY <1>0, <2>2, <2>3, <2>4, <2>6, <2>7 DEF IInv
<1> QED BY <1>3, <1>4 DEF Write

LEMMA StutterInv == IInv /\ UNCHANGED vars => IInv'
  BY DEF IInv, TypeOK, LoopInv, FlagInv, PendingInv, WrittenInv,
     AnsweredInOrder, NoneDropped, handled, consumed, Current, Ready, vars

\* The invariant holds of every run, whatever the client writes and whenever
\* it closes its ends of the pipes.
THEOREM Invariance == Spec => []IInv
<1>1. Init => IInv
  BY InitInv
<1>2. IInv /\ [Next]_vars => IInv'
  BY ClientInv, TakeInv, HandleInv, WriteInv, StutterInv DEF Next, Server
<1> QED BY <1>1, <1>2, PTL DEF Spec

-----------------------------------------------------------------------------
(* What follows from the invariant. *)

\* The loop's position, its pending frame and stdout stay in range whatever
\* the client writes and however calls end (transport::run, handle_message).
THEOREM TypeCorrect == Spec => []TypeOK
  BY Invariance, PTL DEF IInv

\* Replies leave in the order of their lines, at most one for each.
THEOREM RepliesInOrder == Spec => []AnsweredInOrder
  BY Invariance, PTL DEF IInv

\* No line the server is done with was left without the reply it asks for.
THEOREM RepliesComplete == Spec => []NoneDropped
  BY Invariance, PTL DEF IInv

\* ping, tools/list and tools/call get -32002 exactly before the handshake.
THEOREM GateHolds == Spec => []HandshakeGate
<1>1. IInv => HandshakeGate
  <2> SUFFICES ASSUME IInv, NEW i \in DOMAIN replies,
                      lines[replies[i].to].kind = "message",
                      lines[replies[i].to].method \in Guarded
               PROVE  replies[i].answer.code = NotInitialized
                        <=> \A h \in 1 .. replies[i].to - 1 : ~Initializes(lines[h])
    BY DEF HandshakeGate
  <2> DEFINE n == replies[i].to
  <2> DEFINE l == lines[replies[i].to]
  <2>1. /\ n \in 1 .. Len(lines)
        /\ replies[i].answer \in Outcome(Ready(n - 1), l)
    BY DEF IInv, WrittenInv, TypeOK, consumed
  <2>2. l.full \in BOOLEAN
    BY <2>1, LineShape DEF IInv, TypeOK
  <2>3. Ready(n - 1) <=> ~ \A h \in 1 .. n - 1 : ~Initializes(lines[h])
    BY DEF Ready, ReadyIn
  <2>4. CASE ~Ready(n - 1)
    <3>1. Outcome(Ready(n - 1), l) = {[id |-> l.id, code |-> NotInitialized]}
      BY <2>4 DEF Outcome, Guarded
    <3> QED BY <2>1, <2>3, <2>4, <3>1
  <2>5. CASE Ready(n - 1)
    <3>1. Outcome(Ready(n - 1), l)
            \subseteq {[id |-> l.id, code |-> c] : c \in {"ok", "-32602", "-32603"}}
      BY <2>2, <2>5 DEF Outcome, Guarded
    <3> QED BY <2>1, <2>3, <2>5, <3>1 DEF NotInitialized
  <2> QED BY <2>4, <2>5
<1> QED BY <1>1, Invariance, PTL

-----------------------------------------------------------------------------
(* The session implements SessionContract. *)

Handshakes == {l \in Input : Initializes(l)}
OutcomeTable == [ready \in BOOLEAN |-> [l \in Input |-> Outcome(ready, l)]]

LEMMA ContractReady ==
    ASSUME TypeOK, NEW n \in 0 .. Len(lines)
    PROVE  Contract!Ready(n) = Ready(n)
<1>1. \A h \in 1 .. n : lines[h] \in Handshakes <=> Initializes(lines[h])
  BY DEF TypeOK, Handshakes
<1> QED BY <1>1 DEF Contract!Ready, Ready, ReadyIn, Handshakes

\* Being done with one more line, silently or with a frame Outcome allows, is
\* a step of the contract.
LEMMA ConsumeStep ==
    ASSUME TypeOK, ~Over, ~Over', lines' = lines,
           consumed \in Nat, consumed < Len(lines), consumed' = consumed + 1,
           NEW o \in Outcome(Ready(consumed), lines[consumed + 1]),
           replies' = IF o = NoReply THEN replies
                      ELSE Append(replies, [to |-> consumed + 1, answer |-> o])
    PROVE  Contract!Consume
<1>1. Contract!Ready(consumed) = Ready(consumed)
  BY ContractReady DEF TypeOK
<1>2. lines[consumed + 1] \in Input /\ Ready(consumed) \in BOOLEAN
  BY DEF TypeOK, Ready, ReadyIn
<1>3. o \in OutcomeTable[Contract!Ready(consumed)][lines[consumed + 1]]
  BY <1>1, <1>2 DEF OutcomeTable
<1>4. UNCHANGED <<lines, ~Over>>
  OBVIOUS
<1>5. consumed + 1 <= Len(lines)
  BY DEF TypeOK
<1>6. \E a \in OutcomeTable[Contract!Ready(consumed)][lines[consumed + 1]] :
        replies' = IF a = NoReply THEN replies
                   ELSE Append(replies, [to |-> consumed + 1, answer |-> a])
  BY <1>3
<1> QED BY <1>4, <1>5, <1>6, Zenon DEF Contract!Consume, OutcomeTable

LEMMA StepRefines == IInv /\ [Next]_vars => [Contract!Next]_(Contract!vars)
<1> SUFFICES ASSUME IInv, [Next]_vars PROVE [Contract!Next]_(Contract!vars)
  OBVIOUS
<1>0. TypeOK /\ LoopInv /\ FlagInv /\ taken \in 0 .. Len(lines) /\ Len(lines) \in Nat
  BY DEF IInv, TypeOK
<1>1. CASE WriteLine
  <2>1. consumed' = consumed /\ Over' = Over /\ replies' = replies
    BY <1>1 DEF WriteLine, consumed, Over
  <2> QED BY <1>1, <2>1 DEF WriteLine, Contract!Next, Contract!WriteLine
<1>2. CASE CloseStdin \/ CloseStdout \/ UNCHANGED vars
  BY <1>2 DEF CloseStdin, CloseStdout, vars, consumed, Over, Contract!vars
<1>3. CASE RejectOversized \/ TakeMessage
  <2>1. /\ loop = "reading" /\ loop' \in {"handling", "writing"}
        /\ taken' = taken + 1 /\ lines' = lines /\ replies' = replies
        /\ loop' = "writing" => reply' # NoReply
    BY <1>3 DEF RejectOversized, TakeMessage, LineAvailable, client, NoReply,
       ParseError
  <2>2. consumed = taken /\ consumed' = taken /\ ~Over /\ ~Over'
    BY <1>0, <2>1 DEF consumed, Over, LoopInv
  <2> QED BY <2>1, <2>2 DEF Contract!vars
<1>4. CASE SkipBlank
  <2>1. /\ loop = "reading" /\ loop' = loop /\ reply' = reply /\ reply = NoReply
        /\ taken' = taken + 1 /\ lines' = lines /\ replies' = replies
        /\ taken < Len(lines) /\ lines[taken + 1].kind = "blank"
    BY <1>0, <1>4 DEF SkipBlank, LineAvailable, client, NextLine, LoopInv
  <2>2. consumed = taken /\ consumed' = taken + 1 /\ ~Over /\ ~Over'
    BY <2>1 DEF consumed, Over
  <2>3. NoReply \in Outcome(Ready(consumed), lines[consumed + 1])
    BY <2>1, <2>2 DEF Outcome
  <2>4. /\ consumed \in Nat /\ consumed < Len(lines) /\ consumed' = consumed + 1
    BY <1>0, <2>1, <2>2
  <2> QED BY <1>0, <2>1, <2>2, <2>3, <2>4, ConsumeStep DEF Contract!Next
<1>5. CASE ReadFails \/ EndOfInput \/ WriteFails
  <2>1. /\ loop \in {"reading", "writing"} /\ loop' \in {"stopped", "failed"}
        /\ taken' = taken /\ reply' = reply /\ lines' = lines /\ replies' = replies
    BY <1>5 DEF ReadFails, EndOfInput, WriteFails, LineAvailable, client
  <2>2. consumed' = consumed /\ ~Over /\ Over'
    BY <2>1 DEF consumed, Over
  <2> QED BY <2>1, <2>2 DEF Contract!Next, Contract!End
<1>6. CASE Handle
  <2>1. /\ lines' = lines /\ taken' = taken /\ replies' = replies
        /\ loop \in {"handling", "calling"} /\ taken >= 1
    BY <1>0, <1>6, HandleFrame
  <2>2. consumed = taken - 1 /\ ~Over
    BY <2>1 DEF consumed, Over
  <2>3. CASE Answered \/ Calling
    <3>1. consumed' = taken - 1 /\ ~Over'
      BY <2>1, <2>3 DEF consumed, Over, Answered, Calling
    <3> QED BY <2>1, <2>2, <3>1 DEF Contract!vars
  <2>4. CASE Silent
    <3>1. consumed' = taken /\ ~Over'
      BY <2>1, <2>4 DEF consumed, Over, Silent
    <3>2. NoReply \in Outcome(Ready(consumed), lines[consumed + 1])
      BY <1>0, <2>1, <2>2, <2>4 DEF Silent, Current
    <3>3. /\ consumed \in Nat /\ consumed < Len(lines) /\ consumed' = consumed + 1
      BY <1>0, <2>1, <2>2, <3>1
    <3> QED BY <1>0, <2>1, <2>2, <3>1, <3>2, <3>3, ConsumeStep DEF Contract!Next
  <2> QED BY <1>0, <1>6, <2>3, <2>4, HandleOutcome
<1>7. CASE WriteFrame
  <2>1. /\ loop = "writing" /\ loop' = "reading" /\ reply' = NoReply
        /\ taken' = taken /\ lines' = lines
        /\ replies' = Append(replies, [to |-> taken, answer |-> reply])
    BY <1>7 DEF WriteFrame, client
  <2>2. reply # NoReply /\ taken >= 1
    BY <1>0, <2>1 DEF LoopInv
  <2>3. /\ consumed = taken - 1 /\ consumed' = taken /\ ~Over /\ ~Over'
    BY <2>1, <2>2 DEF consumed, Over
  <2>4. reply \in Outcome(Ready(consumed), lines[consumed + 1])
    BY <1>0, <2>2, <2>3 DEF IInv, PendingInv, Current
  <2>5. /\ consumed \in Nat /\ consumed < Len(lines) /\ consumed' = consumed + 1
        /\ consumed + 1 = taken
    BY <1>0, <2>2, <2>3
  <2> QED BY <1>0, <2>1, <2>2, <2>3, <2>4, <2>5, ConsumeStep DEF Contract!Next
<1> QED BY <1>1, <1>2, <1>3, <1>4, <1>5, <1>6, <1>7
     DEF Next, Client, Server, Take, Write

\* transport::run with handle_message implements the abstract session: lines
\* in order, each answered at most once by what the history allows.
THEOREM Refinement == Spec => ContractSpec
<1>1. Init => Contract!Init
  BY DEF Init, Contract!Init, consumed, Over
<1>2. IInv /\ [Next]_vars => [Contract!Next]_(Contract!vars)
  BY StepRefines
<1> QED BY <1>1, <1>2, Invariance, PTL DEF Spec, ContractSpec, Contract!Spec

=============================================================================
