---------------------------- MODULE WaitCondition ----------------------------
(***************************************************************************)
(* utils/wait.rs: the bounded polling behind wait_for_port, wait_for_http, *)
(* wait_for_process and diagnose_local_webapp, inside the timeout that     *)
(* ToolRegistry::call puts around the whole tool.                          *)
(*                                                                         *)
(* Time is counted in ticks from the start of the wait.  A check takes     *)
(* any time up to MaxCheck and observes the condition at some moment of    *)
(* its run; a sleep lasts its interval and up to MaxLag more, which is how *)
(* long a timer, or a thread busy elsewhere, may keep the task waiting.    *)
(***************************************************************************)
EXTENDS Integers

CONSTANTS
    DefaultTimeout, MinTimeout,                \* 10 000 ms, 100 ms
    DefaultInterval, MinInterval, MaxInterval, \* 250 ms, 50 ms, 5 000 ms
    Timeouts, Intervals,  \* what callers ask for
    MaxTimeouts,          \* the configured operation_timeout_ms
    ToolTimeout,          \* the tool's own timeout_ms
    MaxCheck,             \* the longest a check takes
    MaxLag                \* the longest a timer is late

ASSUME BoundsAssumption ==
    /\ {DefaultTimeout, MinTimeout, DefaultInterval, MinInterval, MaxInterval,
        ToolTimeout, MaxCheck, MaxLag} \subseteq Nat
    /\ MinTimeout > 0
    /\ 0 < MinInterval /\ MinInterval <= MaxInterval
    /\ Timeouts \subseteq Nat
    /\ Intervals \subseteq Nat
    /\ MaxTimeouts \subseteq Nat

Larger(m, n) == IF m < n THEN n ELSE m

Clamp(n, low, high) == IF n < low THEN low ELSE IF n > high THEN high ELSE n

\* Mutant: the configured bound is not raised to the least timeout.
BoundedUnraised(timeout, interval, limit) ==
    [timeout  |-> Clamp(timeout, MinTimeout, limit),
     interval |-> Clamp(interval, MinInterval, MaxInterval)]

\* WaitConfig::bounded.
bounded(timeout, interval, limit) ==
    [timeout  |-> Clamp(timeout, MinTimeout, Larger(limit, MinTimeout)),
     interval |-> Clamp(interval, MinInterval, MaxInterval)]

-----------------------------------------------------------------------------

VARIABLES
    max,      \* the configured bound on a wait
    cfg,      \* the wait's timeout and interval
    awaited,  \* the check runs on another thread and is awaited
    now,      \* ticks since the wait started
    wstep,    \* "checking", "sleeping" or "returned"
    since,    \* when the current check, or sleep, began
    attempts, \* checks begun
    ready,    \* whether the condition holds now
    steady,   \* since when it has held (now, if it does not)
    seen,     \* the values it has had since the current check began
    outcome   \* what the wait returned

waitVars == <<max, cfg, awaited, now, wstep, since, attempts, ready, steady, seen,
          outcome>>

settings == <<max, cfg, awaited>>
condition == <<ready, steady>>

NoOutcome == [kind |-> "none", at |-> 0]

Kinds == {"none", "completed", "gave_up", "Timeout"}

WaitTypeOK ==
    /\ max \in MaxTimeouts
    /\ cfg \in [timeout : MinTimeout .. Larger(max, MinTimeout),
               interval : MinInterval .. MaxInterval]
    /\ awaited \in BOOLEAN
    /\ now \in Nat
    /\ wstep \in {"checking", "sleeping", "returned"}
    /\ since \in 0 .. now
    /\ attempts \in Nat \ {0}
    /\ ready \in BOOLEAN
    /\ steady \in 0 .. now
    /\ seen \in SUBSET BOOLEAN
    /\ outcome \in [kind : Kinds, at : Nat]

WaitInit ==
    /\ max \in MaxTimeouts
    /\ \E timeout \in Timeouts \cup {DefaultTimeout},
          interval \in Intervals \cup {DefaultInterval} :
              cfg = bounded(timeout, interval, max)
    /\ awaited \in BOOLEAN
    /\ now = 0
    /\ wstep = "checking"
    /\ since = 0
    /\ attempts = 1
    /\ ready \in BOOLEAN
    /\ steady = 0
    /\ seen = {ready}
    /\ outcome = NoOutcome

-----------------------------------------------------------------------------

\* Mutant: the first check is not counted.
MaxAttemptsOneShort(w) == w.timeout \div w.interval + 1

MaxAttempts(w) == w.timeout \div w.interval + 2

Return(kind) ==
    /\ wstep' = "returned"
    /\ outcome' = [kind |-> kind, at |-> now]
    /\ UNCHANGED <<settings, now, since, attempts, condition, seen>>

\* A check that found the condition true ends the wait, however late it is.
CheckSucceeds ==
    /\ wstep = "checking"
    /\ TRUE \in seen
    /\ Return("completed")

\* Mutant: past its deadline the wait ends with its sleep, unchecked.
GiveUpAfterSleep ==
    /\ \/ wstep = "checking" /\ FALSE \in seen
       \/ wstep = "sleeping" /\ now >= since + cfg.interval
    /\ attempts >= MaxAttempts(cfg) \/ now >= cfg.timeout
    /\ Return("gave_up")

GiveUp ==
    /\ wstep = "checking"
    /\ FALSE \in seen
    /\ attempts >= MaxAttempts(cfg) \/ now >= cfg.timeout
    /\ Return("gave_up")

\* Mutant: the deadline is looked at before the sleep alone.
SleepPastDeadline ==
    /\ wstep = "checking"
    /\ FALSE \in seen
    /\ attempts < MaxAttempts(cfg)
    /\ wstep' = "sleeping"
    /\ since' = now
    /\ UNCHANGED <<settings, now, attempts, condition, seen, outcome>>

Sleep ==
    /\ wstep = "checking"
    /\ FALSE \in seen
    /\ attempts < MaxAttempts(cfg) /\ now < cfg.timeout
    /\ wstep' = "sleeping"
    /\ since' = now
    /\ UNCHANGED <<settings, now, attempts, condition, seen, outcome>>

\* Mutant: the wait goes on only if its timer is on time.
CheckAgainOnTime ==
    /\ wstep = "sleeping"
    /\ now = since + cfg.interval
    /\ wstep' = "checking"
    /\ since' = now
    /\ attempts' = attempts + 1
    /\ seen' = {ready}
    /\ UNCHANGED <<settings, now, condition, outcome>>

CheckAgain ==
    /\ wstep = "sleeping"
    /\ now >= since + cfg.interval
    /\ wstep' = "checking"
    /\ since' = now
    /\ attempts' = attempts + 1
    /\ seen' = {ready}
    /\ UNCHANGED <<settings, now, condition, outcome>>

\* The timeout around the tool: only an await can be cut off.
ToolTimesOut ==
    /\ now >= ToolTimeout
    /\ \/ wstep = "sleeping" /\ now < since + cfg.interval
       \/ wstep = "checking" /\ awaited
    /\ Return("Timeout")

\* The world: a listener appears, a process goes away.
Flip ==
    /\ wstep # "returned"
    /\ ready' = ~ready
    /\ steady' = now
    /\ seen' = IF wstep = "checking" THEN seen \cup {~ready} ELSE seen
    /\ UNCHANGED <<settings, now, wstep, since, attempts, outcome>>

Tick ==
    /\ \/ wstep = "checking" /\ now < since + MaxCheck
       \/ wstep = "sleeping" /\ now < since + cfg.interval + MaxLag
    /\ now' = now + 1
    /\ steady' = IF ready THEN steady ELSE now'
    /\ UNCHANGED <<settings, wstep, since, attempts, ready, seen, outcome>>

Wait == CheckSucceeds \/ GiveUp \/ Sleep \/ CheckAgain \/ ToolTimesOut

WaitNext == Wait \/ Flip \/ Tick

WaitSpec == WaitInit /\ [][WaitNext]_waitVars

\* Time passes, checks return and the runtime polls the wait.
FairWaitSpec == WaitSpec /\ WF_waitVars(Tick) /\ WF_waitVars(Wait)

-----------------------------------------------------------------------------
(* What a wait promises. *)

\* The longest a wait can last: its last sleep begins before the deadline,
\* and one more check follows it.
Longest == cfg.timeout + cfg.interval + MaxLag + MaxCheck

\* A wait that gives up has lasted its whole timeout: the cap on attempts,
\* computed from the interval, never cuts it short (wait.rs:58, 75).
NeverCutShort == outcome.kind = "gave_up" => outcome.at >= cfg.timeout

\* A wait gives up only on a condition that failed to hold within one check
\* of the deadline or later: readiness reached in time, and kept, is not
\* missed, whatever the polling grid (wait.rs:62-84).
ReadinessNotMissed ==
    outcome.kind = "gave_up" => steady >= cfg.timeout - MaxCheck

\* However late its timers and slow its checks, a wait overshoots its deadline
\* by no more than one interval and one check; and where that still fits the
\* tool's timeout, the caller gets the outcome and not a bare timeout error
\* (mod.rs:309-319).
OvershootBounded ==
    /\ now <= Longest
    /\ outcome.kind = "Timeout" => Longest >= ToolTimeout

\* Liveness: every wait returns.
Returns == <>(wstep = "returned")

-----------------------------------------------------------------------------
(* A claim of the comments that the code does not keep. *)

\* wait.rs:20-22: "a caller can never wait longer than the server's own
\* absolute deadline".
AbsoluteDeadline == outcome.at <= Larger(max, MinTimeout)

=============================================================================
