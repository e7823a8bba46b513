--------------------------- MODULE SessionContract ---------------------------
(***************************************************************************)
(* What one MCP session over stdio promises its client.                    *)
(*                                                                         *)
(* The client writes a sequence of lines.  The server consumes them one by *)
(* one, in order; consuming a line appends at most one reply, and which    *)
(* reply is possible depends only on the line and on whether a handshake   *)
(* line has been consumed before it: that is all a session remembers       *)
(* between two lines.  A session may end at any time; an ended session     *)
(* answers nothing.                                                        *)
(*                                                                         *)
(* McpSession, the model of the transport loop and of the protocol         *)
(* handler, implements this module (McpSession!Contract).                  *)
(***************************************************************************)
EXTENDS Naturals, Sequences

CONSTANTS
    Line,       \* the lines a client may write
    Handshake,  \* the lines that complete the handshake
    Outcomes,   \* Outcomes[ready][line]: what consuming the line may produce
    Silence     \* the outcome that puts no reply on stdout

VARIABLES
    lines,    \* every line the client has written so far
    consumed, \* how many of them the server is done with
    replies,  \* the replies on stdout, each naming the line it answers
    live      \* FALSE once the session is over

vars == <<lines, consumed, replies, live>>

-----------------------------------------------------------------------------

Init ==
    /\ lines = <<>>
    /\ consumed = 0
    /\ replies = <<>>
    /\ live = TRUE

\* A handshake line among the first n lines makes every later line "ready".
Ready(n) == \E h \in 1 .. n : lines[h] \in Handshake

WriteLine ==
    \E l \in Line :
        /\ lines' = Append(lines, l)
        /\ UNCHANGED <<consumed, replies, live>>

Consume ==
    LET n == consumed + 1 IN
    /\ live
    /\ n <= Len(lines)
    /\ consumed' = n
    /\ \E o \in Outcomes[Ready(consumed)][lines[n]] :
           replies' = IF o = Silence
                      THEN replies
                      ELSE Append(replies, [to |-> n, answer |-> o])
    /\ UNCHANGED <<lines, live>>

End ==
    /\ live
    /\ live' = FALSE
    /\ UNCHANGED <<lines, consumed, replies>>

Next == WriteLine \/ Consume \/ End

Spec == Init /\ [][Next]_vars

=============================================================================
