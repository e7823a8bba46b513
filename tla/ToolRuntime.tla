----------------------------- MODULE ToolRuntime -----------------------------
(***************************************************************************)
(* How tool calls run: the transport loop on a current-thread runtime, the *)
(* two timeouts around a handler, and the blocking pool its work goes to.  *)
(*                                                                         *)
(* A handler is a sequence of steps.  An inline step runs on the loop's    *)
(* own thread and nothing can interrupt it.  An offloaded step is a        *)
(* spawn_blocking job the handler awaits; a probe is one it awaits for no  *)
(* longer than the probe budget; a sleep waits for a timer.  While the     *)
(* handler waits, the timeout around the whole call can fire.  A timeout   *)
(* drops the handle of the job, not the job: it keeps its place in the     *)
(* queue, or its thread, and its result goes nowhere.                      *)
(*                                                                         *)
(* Reading stdin and writing stdout are jobs of the same pool, and leaving *)
(* main drops the runtime, which waits for every running job.              *)
(***************************************************************************)
EXTENDS ToolDispatch, Naturals, Sequences

CONSTANTS
    Plan,     \* Plan[t]: the steps of tool t's handler
    Configs,  \* the configurations a server may be started with
    PoolSize, \* threads of the blocking pool
    MaxCalls  \* bound: how many calls the client makes

StepKinds == {"inline", "offload", "probe_or_fail", "probe_or_skip", "sleep"}

ASSUME PlanAssumption ==
    /\ DOMAIN Plan = Tool
    /\ \A t \in Tool : Plan[t] \in Seq(StepKinds) /\ Plan[t] # <<>>
ASSUME ConfigsAssumption == Configs \subseteq Config
ASSUME PoolSizeAssumption == PoolSize \in Nat \ {0}
ASSUME MaxCallsAssumption == MaxCalls \in Nat

Probes == {"probe_or_fail", "probe_or_skip"}
Offloaded == Probes \cup {"offload"}

-----------------------------------------------------------------------------

VARIABLES
    config,  \* the server's configuration, fixed at startup
    phase,   \* what the loop's thread is doing
    call,    \* how many calls the client has made
    tool,    \* the name the current call asked for
    pc,      \* the current step of its handler
    late,    \* the call's timeout has elapsed
    expired, \* the budget of the current probe, or the sleep, has elapsed
    skipped, \* probes of the current call that were given up
    queue,   \* jobs waiting for a thread
    running, \* jobs holding a thread
    hung,    \* work that will never return
    done,    \* the awaited job's result, not picked up yet
    answers  \* the answer to each call so far

vars == <<config, phase, call, tool, pc, late, expired, skipped, queue,
          running, hung, done, answers>>

handler == <<tool, pc, late, expired, skipped>>
pool == <<queue, running, hung, done>>

\* What no step of a handler touches.
ongoing == <<config, call, tool, late, running, hung>>

\* A job of a handler's step, of a stdin read, of a stdout write; and the
\* inline step, which is no job but may hang like one.
Work(kind, c, t, k) == [kind |-> kind, call |-> c, tool |-> t, step |-> k]
ToolJob(c, t, k) == Work("tool", c, t, k)
StdinJob(c)   == Work("stdin", c, "", 0)
StdoutJob(c)  == Work("stdout", c, "", 0)
InlineWork    == Work("inline", call, tool, pc)

Step == Plan[tool][pc]
Awaited == ToolJob(call, tool, pc)
Awaiting == phase = "running" /\ Step \in Offloaded

Results ==
    {"ok", "failed", "Timeout", "ResourceLimit", "PermissionDenied",
     "InvalidArgument"}

TypeOK ==
    /\ config \in Configs
    /\ phase \in {"reading", "running", "writing", "draining", "exited"}
    /\ call \in 0 .. MaxCalls
    /\ tool \in Name \cup {""}
    /\ pc \in Nat
    /\ late \in BOOLEAN /\ expired \in BOOLEAN
    /\ skipped \in Nat
    /\ \A i \in DOMAIN queue : queue[i] \notin running
    /\ Cardinality(running) <= PoolSize
    /\ hung \subseteq running \cup {InlineWork}
    /\ \A j \in done : j.kind = "tool" /\ j \notin running
    /\ \A i \in DOMAIN answers :
         answers[i].result \in Results /\ answers[i].skipped \in Nat
    /\ phase = "running" => tool \in Tool /\ pc \in DOMAIN Plan[tool]

Init ==
    /\ config \in Configs
    /\ phase = "reading"
    /\ call = 0
    /\ tool = ""
    /\ pc = 0
    /\ late = FALSE
    /\ expired = FALSE
    /\ skipped = 0
    /\ queue = <<StdinJob(1)>>
    /\ running = {}
    /\ hung = {}
    /\ done = {}
    /\ answers = <<>>

-----------------------------------------------------------------------------
(* The loop's thread. *)

\* Mutant: the answer of a call that failed is not written.
FinishUnwritten(result) ==
    /\ phase' = "writing"
    /\ answers' = Append(answers, [result |-> result, skipped |-> skipped'])
    /\ queue' = IF result = "ok" THEN Append(queue, StdoutJob(call')) ELSE queue

\* The answer is ready: the write of its frame is handed to the pool.
Finish(result) ==
    /\ phase' = "writing"
    /\ answers' = Append(answers, [result |-> result, skipped |-> skipped'])
    /\ queue' = Append(queue, StdoutJob(call'))

Enter(k) ==
    /\ phase' = "running"
    /\ pc' = k
    /\ expired' = FALSE
    /\ queue' = IF Plan[tool'][k] \in Offloaded
                THEN Append(queue, ToolJob(call', tool', k))
                ELSE queue
    /\ UNCHANGED answers

\* tools/call taken from stdin: registry::call_tool and ToolRegistry::call up
\* to the handler's first wait.
ReceiveCall ==
    /\ phase = "reading"
    /\ StdinJob(call + 1) \in running
    /\ call < MaxCalls
    /\ call' = call + 1
    /\ running' = running \ {StdinJob(call + 1)}
    /\ skipped' = 0
    /\ \E name \in Name, args \in BOOLEAN :
        /\ tool' = name
        /\ late' = FALSE
        /\ LET gate == Gate(config, name, args) IN
           IF gate = "run"
           THEN Enter(1)
           ELSE /\ Finish(Refusal(gate))
                /\ pc' = 0
                /\ expired' = FALSE
    /\ UNCHANGED <<config, hung, done>>

\* The handler leaves step pc: for the next one, or for good.  A response
\* over max_payload_bytes is an error, after all the work was done.
Advance ==
    IF pc < Len(Plan[tool])
    THEN Enter(pc + 1)
    ELSE /\ \E r \in {"ok", "ResourceLimit"} : Finish(r)
         /\ UNCHANGED <<pc, expired>>

Fail(result) ==
    /\ Finish(result)
    /\ UNCHANGED <<pc, expired>>

InlineEnds ==
    /\ UNCHANGED <<ongoing, done>>
    /\ phase = "running"
    /\ Step = "inline"
    /\ InlineWork \notin hung
    /\ UNCHANGED skipped
    /\ Advance \/ Fail("failed")

\* The awaited job has ended.  tokio polls the handler before the timer, so
\* the result is used however late it is.
Resume ==
    /\ UNCHANGED ongoing
    /\ Awaiting
    /\ Awaited \in done
    /\ done' = {}
    /\ \/ /\ UNCHANGED skipped
          /\ Advance
       \/ /\ Step = "probe_or_skip"
          /\ skipped' = skipped + 1
          /\ Advance
       \/ /\ Step # "probe_or_skip"
          /\ UNCHANGED skipped
          /\ Fail("failed")

\* Mutant: the handler forgets that it gave the probe up.
BudgetElapsesSilently ==
    /\ UNCHANGED <<ongoing, done>>
    /\ Awaiting
    /\ Step \in Probes
    /\ expired
    /\ Awaited \notin done
    /\ UNCHANGED skipped
    /\ IF Step = "probe_or_skip" THEN Advance ELSE Fail("Timeout")

\* run_blocking_with_timeout gives up: the probe's error ends the call, or
\* the handler goes on without the reading.
BudgetElapses ==
    /\ UNCHANGED <<ongoing, done>>
    /\ Awaiting
    /\ Step \in Probes
    /\ expired
    /\ Awaited \notin done
    /\ \/ /\ Step = "probe_or_skip"
          /\ skipped' = skipped + 1
          /\ Advance
       \/ /\ Step = "probe_or_fail"
          /\ UNCHANGED skipped
          /\ Fail("Timeout")

SleepEnds ==
    /\ UNCHANGED <<ongoing, done>>
    /\ phase = "running"
    /\ Step = "sleep"
    /\ expired
    /\ UNCHANGED skipped
    /\ Advance

\* Mutant: a plain offloaded job is awaited outside the timeout.
TimeoutFiresNotOnOffload ==
    /\ UNCHANGED <<ongoing, done>>
    /\ phase = "running"
    /\ late
    /\ Step \in Probes \cup {"sleep"} /\ ~expired
    /\ Awaited \notin done
    /\ UNCHANGED skipped
    /\ Fail("Timeout")

\* Mutant: the timer is polled before the handler.
TimeoutFiresFirst ==
    /\ UNCHANGED <<ongoing, done>>
    /\ phase = "running"
    /\ late
    /\ Awaiting \/ Step = "sleep"
    /\ UNCHANGED skipped
    /\ Fail("Timeout")

\* The timeout around the call fires only while the handler waits and has
\* nothing else to do.
TimeoutFires ==
    /\ UNCHANGED <<ongoing, done>>
    /\ phase = "running"
    /\ late
    /\ \/ Awaiting /\ Awaited \notin done /\ ~(Step \in Probes /\ expired)
       \/ Step = "sleep" /\ ~expired
    /\ UNCHANGED skipped
    /\ Fail("Timeout")

\* The frame is out; the loop asks for the next line.
FrameWritten ==
    /\ phase = "writing"
    /\ StdoutJob(call) \in running
    /\ running' = running \ {StdoutJob(call)}
    /\ queue' = Append(queue, StdinJob(call + 1))
    /\ phase' = "reading"
    /\ UNCHANGED <<config, call, handler, hung, done, answers>>

\* Mutant: the read of stdin that saw the end is never given back.
StdinClosesReadPending ==
    /\ phase = "reading"
    /\ StdinJob(call + 1) \in running
    /\ queue' = <<>>
    /\ phase' = "draining"
    /\ UNCHANGED <<config, call, handler, running, hung, done, answers>>

\* End of input: run returns, and dropping the runtime discards the queue.
StdinCloses ==
    /\ phase = "reading"
    /\ StdinJob(call + 1) \in running
    /\ running' = running \ {StdinJob(call + 1)}
    /\ queue' = <<>>
    /\ phase' = "draining"
    /\ UNCHANGED <<config, call, handler, hung, done, answers>>

Exit ==
    /\ phase = "draining"
    /\ running = {}
    /\ phase' = "exited"
    /\ UNCHANGED <<config, call, handler, pool, answers>>

-----------------------------------------------------------------------------
(* The pool, the clock, and work that never returns. *)

PoolStarts ==
    /\ queue # <<>>
    /\ Cardinality(running) < PoolSize
    /\ running' = running \cup {Head(queue)}
    /\ queue' = Tail(queue)
    /\ UNCHANGED <<config, phase, call, handler, hung, done, answers>>

\* A result nobody awaits any more is dropped.
JobEnds ==
    /\ \E j \in running \ hung :
        /\ j.kind = "tool"
        /\ running' = running \ {j}
        /\ done' = IF Awaiting /\ j = Awaited THEN {j} ELSE done
    /\ UNCHANGED <<config, phase, call, handler, queue, hung, answers>>

CallDeadlinePasses ==
    /\ phase = "running"
    /\ ~late
    /\ late' = TRUE
    /\ UNCHANGED <<config, phase, call, tool, pc, expired, skipped, pool, answers>>

StepTimerPasses ==
    /\ phase = "running"
    /\ Step \in Probes \cup {"sleep"}
    /\ ~expired
    /\ expired' = TRUE
    /\ UNCHANGED <<config, phase, call, tool, pc, late, skipped, pool, answers>>

\* A driver, a disk or a peer stops answering.
Hang ==
    /\ \E w \in {j \in running : j.kind = "tool"}
                \cup {w \in {InlineWork} : phase = "running" /\ Step = "inline"} :
        /\ w \notin hung
        /\ hung' = hung \cup {w}
    /\ UNCHANGED <<config, phase, call, handler, queue, running, done, answers>>

-----------------------------------------------------------------------------

Loop ==
    \/ InlineEnds \/ Resume \/ BudgetElapses \/ SleepEnds \/ TimeoutFires
    \/ FrameWritten \/ Exit

Clock == CallDeadlinePasses \/ StepTimerPasses

Next ==
    \/ Loop \/ Clock \/ PoolStarts \/ JobEnds
    \/ ReceiveCall \/ StdinCloses \/ Hang

Spec == Init /\ [][Next]_vars

\* The runtime polls what is ready, time passes, and the pool works off its
\* queue; nothing forces the client to act, or work to hang.
FairSpec ==
    /\ Spec
    /\ WF_vars(Loop)
    /\ WF_vars(CallDeadlinePasses)
    /\ WF_vars(StepTimerPasses)
    /\ WF_vars(PoolStarts)
    /\ WF_vars(JobEnds)

-----------------------------------------------------------------------------
(* What can be said of the calls, whatever the pool and the clock do. *)

Jobs == {queue[i] : i \in DOMAIN queue} \cup running

\* The jobs of call c that nobody awaits any more.
Abandoned(c) ==
    {j \in Jobs : j.kind = "tool" /\ j.call = c /\ ~(Awaiting /\ j = Awaited)}

\* The readings call c went without, and the timeouts it ended with.
GivenUp(c) ==
    IF c \in DOMAIN answers
    THEN answers[c].skipped + (IF answers[c].result = "Timeout" THEN 1 ELSE 0)
    ELSE skipped

\* Every job left behind in the pool is paid for by a reading its call did
\* without or by the timeout its call ended with: no answer claims success
\* for work that has not ended (blocking.rs:31, mod.rs:315, health.rs:271).
AbandonedAccounted ==
    /\ TypeOK
    /\ \A c \in 1 .. call : Cardinality(Abandoned(c)) <= GivenUp(c)

\* Whatever runs, now or left behind by a call long over, is a tool that the
\* permissions, the disabled list and the profile all let through: the checks
\* of registry.rs:22-26 and mod.rs:296-307 together, in this order.  A tool that
\* declares no capability needs none (registry.rs:24).
GateBeforeWork ==
    \A t \in {j.tool : j \in {k \in Jobs : k.kind = "tool"}}
             \cup {u \in {tool} : phase = "running"} :
        /\ t \in Listed(config)
        /\ Capability[t] # NoCapability => Allowed(config.mode, Capability[t])

\* A job's result is there only for the handler that awaits it: a timeout
\* never discards work that had ended in time (mod.rs:314), and the late
\* result of a call that gave up never reaches the next one.
NoStaleResult == done # {} => Awaiting /\ done = {Awaited}

\* Liveness: a call ends whatever hangs in the pool, even when every thread is
\* taken by a hung job; only an inline step that hangs holds it forever.
CallsEnd == phase = "running" ~> (phase # "running" \/ InlineWork \in hung)

\* Liveness: its answer leaves, unless hung jobs have taken every thread, the
\* one that writes to stdout included.
FramesGetOut ==
    phase = "writing" ~>
        (phase # "writing" \/ Cardinality(hung \cap running) = PoolSize)

\* Liveness: after the end of input the process exits, unless a job hangs.
Drains == phase = "draining" ~> (phase = "exited" \/ hung \cap running # {})

-----------------------------------------------------------------------------
(* A claim of the docs that the code does not keep. *)

\* docs/security.md:82: operation_timeout_ms "kills slow calls".  A handler
\* that does its work inline is never interrupted (processes.rs:32).
SlowCallsKilled == (phase = "running" /\ late) ~> phase # "running"

=============================================================================
