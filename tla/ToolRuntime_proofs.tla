------------------------- MODULE ToolRuntime_proofs -------------------------
(***************************************************************************)
(* What the runtime promises of its calls, for any tools, plans, pools and *)
(* numbers of calls; and what a wait inside a call promises.               *)
(*                                                                         *)
(* A job is in the pool at most once: the queue repeats none and holds     *)
(* none that is running (Distinct), because a new one is always fresh      *)
(* (Fresh).  A result is there only for the step that awaits it, whose job *)
(* has then left the pool (DoneInv).  The number of jobs a call has left   *)
(* behind grows only by the job that is given up at a step, and that step  *)
(* counts it (Accounted).                                                  *)
(***************************************************************************)
EXTENDS ToolRuntime, WaitCondition, FiniteSetTheorems, SequenceTheorems, TLAPS

RangeOf(q) == {q[i] : i \in DOMAIN q}

\* A queue that holds no job twice.
QueueOK(q) ==
    /\ q \in Seq(RangeOf(q))
    /\ \A i, k \in DOMAIN q : q[i] = q[k] => i = k

\* What a job in the pool may be.
ToolJobOK(j) ==
    /\ j = ToolJob(j.call, j.tool, j.step)
    /\ j.call \in 1 .. call
    /\ j.tool \in Tool
    /\ j.step \in Nat
    /\ j.call = call /\ phase = "running" => j.step <= pc

JobOK(j) ==
    \/ ToolJobOK(j)
    \/ phase = "reading" /\ j = StdinJob(call + 1)
    \/ phase = "writing" /\ j = StdoutJob(call)

Fresh == \A j \in Jobs : JobOK(j)

Distinct == QueueOK(queue) /\ RangeOf(queue) \cap running = {}

Types ==
    /\ config \in Configs
    /\ phase \in {"reading", "running", "writing", "draining", "exited"}
    /\ call \in 0 .. MaxCalls
    /\ tool \in Name \cup {""}
    /\ pc \in Nat
    /\ late \in BOOLEAN /\ expired \in BOOLEAN
    /\ skipped \in Nat
    /\ IsFiniteSet(Jobs) /\ Cardinality(running) <= PoolSize
    /\ phase = "running" => tool \in Tool /\ pc \in DOMAIN Plan[tool] /\ call > 0

AnswersInv ==
    /\ answers \in Seq([result : Results, skipped : Nat])
    /\ Len(answers) = IF phase = "running" THEN call - 1 ELSE call

HungInv ==
    /\ hung \subseteq running \cup {InlineWork}
    /\ \A w \in hung \cap running : w.kind = "tool"
    /\ InlineWork \in hung => phase = "running" /\ Step = "inline"

DoneInv == done # {} => Awaiting /\ done = {Awaited} /\ Awaited \notin Jobs

Cleared(t) ==
    /\ t \in Listed(config)
    /\ Capability[t] # NoCapability => Allowed(config.mode, Capability[t])

GateInv ==
    /\ \A j \in Jobs : j.kind = "tool" => Cleared(j.tool)
    /\ phase = "running" => Cleared(tool)

Accounted == \A c \in 1 .. call : Cardinality(Abandoned(c)) <= GivenUp(c)

\* Everything but the count.
PoolInv == Types /\ Fresh /\ Distinct /\ AnswersInv /\ HungInv /\ DoneInv

IInv == PoolInv /\ GateInv /\ Accounted

-----------------------------------------------------------------------------
(* Queues and counts. *)

LEMMA Appended ==
    ASSUME NEW q, NEW x, QueueOK(q), x \notin RangeOf(q)
    PROVE  QueueOK(Append(q, x)) /\ RangeOf(Append(q, x)) = RangeOf(q) \cup {x}
PROOF
<1> DEFINE r == Append(q, x)
<1>1. q \in Seq(RangeOf(q) \cup {x})
  BY DEF QueueOK, RangeOf
<1>2. /\ r \in Seq(RangeOf(q) \cup {x})
      /\ Len(q) \in Nat /\ DOMAIN q = 1 .. Len(q) /\ DOMAIN r = 1 .. Len(q) + 1
      /\ \A i \in 1 .. Len(q) : r[i] = q[i]
      /\ r[Len(q) + 1] = x
  BY <1>1
<1>3. RangeOf(r) = RangeOf(q) \cup {x}
  <2>1. RangeOf(r) \subseteq RangeOf(q) \cup {x}
    BY <1>2 DEF RangeOf
  <2>2. RangeOf(q) \subseteq RangeOf(r)
    BY <1>2 DEF RangeOf
  <2>3. x \in RangeOf(r)
    BY <1>2 DEF RangeOf
  <2> QED BY <2>1, <2>2, <2>3
<1>4. \A i, k \in DOMAIN r : r[i] = r[k] => i = k
  BY <1>2 DEF QueueOK, RangeOf
<1> QED
  BY <1>2, <1>3, <1>4 DEF QueueOK

\* A sequence is one of what it holds.
LEMMA Narrowed ==
    ASSUME NEW S, NEW s \in Seq(S)
    PROVE  s \in Seq(RangeOf(s))
PROOF
<1>1. PICK n \in Nat : s \in [1 .. n -> S]
  <2>1. Seq(S) = UNION {[1 .. n -> S] : n \in Nat}
    BY SeqDef, Zenon
  <2> QED BY <2>1, Zenon
<1>2. s = [i \in 1 .. n |-> s[i]] /\ \A i \in 1 .. n : s[i] \in RangeOf(s)
  BY <1>1 DEF RangeOf
<1>3. s \in [1 .. n -> RangeOf(s)]
  BY <1>2
<1>4. Seq(RangeOf(s)) = UNION {[1 .. m -> RangeOf(s)] : m \in Nat}
  BY SeqDef, Zenon
<1> QED
  BY <1>3, <1>4, Zenon

LEMMA Shifted ==
    ASSUME NEW q, QueueOK(q), q # <<>>
    PROVE  /\ QueueOK(Tail(q))
           /\ Head(q) \in RangeOf(q)
           /\ RangeOf(Tail(q)) = RangeOf(q) \ {Head(q)}
PROOF
<1> DEFINE t == Tail(q)
<1>1. q \in Seq(RangeOf(q))
  BY DEF QueueOK
<1>2. /\ t \in Seq(RangeOf(q)) /\ Len(q) \in Nat \ {0}
      /\ DOMAIN q = 1 .. Len(q) /\ DOMAIN t = 1 .. Len(q) - 1
      /\ \A i \in 1 .. Len(q) - 1 : t[i] = q[i + 1]
      /\ Head(q) = q[1]
  BY <1>1
<1>3. RangeOf(t) = RangeOf(q) \ {Head(q)}
  <2>1. RangeOf(t) \subseteq RangeOf(q) \ {Head(q)}
    BY <1>2 DEF RangeOf, QueueOK
  <2>2. ASSUME NEW i \in DOMAIN q, q[i] # Head(q) PROVE q[i] \in RangeOf(t)
    <3>1. i - 1 \in DOMAIN t /\ t[i - 1] = q[i]
      BY <1>2, <2>2
    <3> QED BY <3>1 DEF RangeOf
  <2> QED BY <2>1, <2>2 DEF RangeOf
<1>4. t \in Seq(RangeOf(t))
  BY <1>2, Narrowed, Zenon
<1>5. \A i, k \in DOMAIN t : t[i] = t[k] => i = k
  BY <1>2 DEF QueueOK
<1>6. QueueOK(t)
  BY <1>4, <1>5 DEF QueueOK
<1>7. Head(q) \in RangeOf(q)
  <2>1. 1 \in DOMAIN q
    BY <1>2
  <2> QED BY <1>2, <2>1 DEF RangeOf
<1> QED
  BY <1>3, <1>6, <1>7

LEMMA Emptied == QueueOK(<<>>) /\ RangeOf(<<>>) = {}
  BY DEF QueueOK, RangeOf

LEMMA Singled ==
    ASSUME NEW x
    PROVE  QueueOK(<<x>>) /\ RangeOf(<<x>>) = {x}
  BY DEF QueueOK, RangeOf

\* One more at most.
LEMMA CountOne ==
    ASSUME NEW S, IsFiniteSet(S), NEW x, NEW T, T \subseteq S \cup {x}
    PROVE  /\ Cardinality(T) \in Nat /\ Cardinality(S) \in Nat
           /\ Cardinality(T) <= Cardinality(S) + 1
PROOF
<1>1. Cardinality(S) \in Nat
  BY FS_CardinalityType
<1>2. IsFiniteSet(S \cup {x})
  BY FS_AddElement, Zenon
<1>3. Cardinality(S \cup {x}) = IF x \in S THEN Cardinality(S) ELSE Cardinality(S) + 1
  BY FS_AddElement, Zenon
<1>4. Cardinality(T) <= Cardinality(S \cup {x}) /\ IsFiniteSet(T)
  BY <1>2, FS_Subset, Zenon
<1>5. Cardinality(T) \in Nat
  BY <1>4, FS_CardinalityType
<1> QED
  BY <1>1, <1>3, <1>4, <1>5

LEMMA CountNone ==
    ASSUME NEW S, IsFiniteSet(S), NEW T, T \subseteq S
    PROVE  /\ Cardinality(T) \in Nat /\ Cardinality(S) \in Nat
           /\ Cardinality(T) <= Cardinality(S)
PROOF
<1>1. IsFiniteSet(T) /\ Cardinality(T) <= Cardinality(S)
  BY FS_Subset, Zenon
<1> QED
  BY <1>1, FS_CardinalityType, Zenon

LEMMA FiniteOne ==
    ASSUME NEW S, IsFiniteSet(S), NEW x, NEW T, T \subseteq S \cup {x}
    PROVE  IsFiniteSet(T)
PROOF
<1>1. IsFiniteSet(S \cup {x})
  BY FS_AddElement, Zenon
<1> QED
  BY <1>1, FS_Subset, Zenon

-----------------------------------------------------------------------------
(* What a step does to the pool, and what it leaves of the invariant. *)

LEMMA JobsAre == Jobs = RangeOf(queue) \cup running
  BY DEF Jobs, RangeOf

\* The steps of a handler are numbered from 1.
LEMMA PlanSteps ==
    ASSUME NEW t \in Tool
    PROVE  /\ Plan[t] \in Seq(StepKinds) /\ Len(Plan[t]) \in Nat \ {0}
           /\ DOMAIN Plan[t] = 1 .. Len(Plan[t])
           /\ 1 \in DOMAIN Plan[t]
PROOF
<1>1. Plan[t] \in Seq(StepKinds) /\ Plan[t] # <<>>
  BY PlanAssumption
<1> QED
  BY <1>1

LEMMA CallsBounded ==
    ASSUME Types
    PROVE  call \in Nat /\ call <= MaxCalls /\ MaxCalls \in Nat
PROOF
<1>1. call \in 0 .. MaxCalls
  BY DEF Types
<1> QED
  BY <1>1, MaxCallsAssumption

\* A job that was not in the pool joins the queue.
LEMMA Joins ==
    ASSUME Distinct, NEW x, x \notin Jobs, queue' = Append(queue, x),
           running' \subseteq running
    PROVE  Distinct' /\ Jobs' = RangeOf(queue) \cup running' \cup {x}
PROOF
<1>1. x \notin RangeOf(queue) /\ x \notin running
  BY JobsAre
<1>2. QueueOK(queue') /\ RangeOf(queue') = RangeOf(queue) \cup {x}
  BY <1>1, Appended DEF Distinct
<1>3. RangeOf(queue') \cap running' = {}
  BY <1>1, <1>2 DEF Distinct
<1>4. Jobs' = RangeOf(queue') \cup running'
  BY DEF Jobs, RangeOf
<1> QED
  BY <1>2, <1>3, <1>4 DEF Distinct

\* A handler enters a step.
LEMMA Entered ==
    ASSUME Distinct, NEW k, Enter(k), running' \subseteq running,
           ToolJob(call', tool', k) \notin Jobs
    PROVE  /\ Distinct'
           /\ \A j \in Jobs' :
                \/ j \in RangeOf(queue) \cup running'
                \/ j = ToolJob(call', tool', k) /\ Awaiting' /\ j = Awaited'
PROOF
<1> DEFINE x == ToolJob(call', tool', k)
<1>1. phase' = "running" /\ pc' = k
  BY DEF Enter
<1>2. CASE Plan[tool'][k] \in Offloaded
  <2>1. queue' = Append(queue, x)
    BY <1>2 DEF Enter
  <2>2. Distinct' /\ Jobs' = RangeOf(queue) \cup running' \cup {x}
    BY <2>1, Joins
  <2>3. Awaiting' /\ x = Awaited'
    BY <1>1, <1>2 DEF Awaiting, Awaited, Step
  <2> QED BY <2>2, <2>3
<1>3. CASE Plan[tool'][k] \notin Offloaded
  <2>1. queue' = queue
    BY <1>3 DEF Enter
  <2>2. Jobs' = RangeOf(queue) \cup running'
    BY <2>1 DEF Jobs, RangeOf
  <2>3. Distinct'
    BY <2>1 DEF Distinct
  <2> QED BY <2>2, <2>3
<1> QED
  BY <1>2, <1>3

\* An answer is handed to the writer.
LEMMA HandedOver ==
    ASSUME Distinct, NEW r, Finish(r), running' \subseteq running,
           StdoutJob(call') \notin Jobs
    PROVE  Distinct' /\ Jobs' = RangeOf(queue) \cup running' \cup {StdoutJob(call')}
  BY Joins DEF Finish

\* Fewer running jobs are still no more than there are threads.
LEMMA ThreadsFreed ==
    ASSUME Types, running' \subseteq running
    PROVE  Cardinality(running') <= PoolSize
PROOF
<1>1. IsFiniteSet(running)
  <2>1. running \subseteq Jobs
    BY DEF Jobs
  <2> QED BY <2>1, FS_Subset, Zenon DEF Types
<1>2. /\ Cardinality(running') \in Nat /\ Cardinality(running) \in Nat
      /\ Cardinality(running') <= Cardinality(running)
  BY <1>1, CountNone
<1>3. Cardinality(running) <= PoolSize /\ PoolSize \in Nat
  BY PoolSizeAssumption DEF Types
<1> QED
  BY <1>2, <1>3

\* The count of a call is a number.
LEMMA GivenUpIsNat ==
    ASSUME Types, AnswersInv, NEW c \in 1 .. call
    PROVE  GivenUp(c) \in Nat
PROOF
<1>1. CASE c \in DOMAIN answers
  <2>1. answers \in Seq([result : Results, skipped : Nat])
    BY DEF AnswersInv
  <2>2. c \in 1 .. Len(answers)
    BY <1>1, <2>1
  <2>3. answers[c] \in [result : Results, skipped : Nat]
    BY <2>1, <2>2, ElementOfSeq, Zenon
  <2> QED BY <1>1, <2>3 DEF GivenUp
<1>2. CASE c \notin DOMAIN answers
  BY <1>2 DEF GivenUp, Types
<1> QED
  BY <1>1, <1>2

\* What is left behind is a finite set of jobs.
LEMMA AbandonedFinite ==
    ASSUME Types, NEW c
    PROVE  IsFiniteSet(Abandoned(c)) /\ Cardinality(Abandoned(c)) \in Nat
PROOF
<1>1. Abandoned(c) \subseteq Jobs
  BY DEF Abandoned
<1>2. IsFiniteSet(Jobs)
  BY DEF Types
<1>3. IsFiniteSet(Abandoned(c))
  BY <1>1, <1>2, FS_Subset, Zenon
<1> QED
  BY <1>3, FS_CardinalityType, Zenon

\* A call whose abandoned jobs do not grow stays accounted for.
LEMMA CountKept ==
    ASSUME Types, AnswersInv, NEW c \in 1 .. call, GivenUp(c)' = GivenUp(c),
           Cardinality(Abandoned(c)) <= GivenUp(c),
           Abandoned(c)' \subseteq Abandoned(c)
    PROVE  Cardinality(Abandoned(c)') <= GivenUp(c)'
PROOF
<1>1. GivenUp(c) \in Nat
  BY GivenUpIsNat
<1>2. IsFiniteSet(Abandoned(c))
  BY AbandonedFinite
<1>3. /\ Cardinality(Abandoned(c)') \in Nat /\ Cardinality(Abandoned(c)) \in Nat
      /\ Cardinality(Abandoned(c)') <= Cardinality(Abandoned(c))
  BY <1>2, CountNone
<1> QED
  BY <1>1, <1>3

\* A step that starts no job of a tool and ends no call.
LEMMA CallsAsBefore ==
    ASSUME IInv, UNCHANGED <<config, call, answers, skipped>>,
           \A j \in Jobs' : j.kind = "tool" => j \in Jobs,
           UNCHANGED <<phase, tool, pc>> \/ (phase # "running" /\ phase' # "running")
    PROVE  GateInv' /\ Accounted'
PROOF
<1>1. GateInv'
  BY DEF IInv, GateInv, Cleared
<1>2. ASSUME NEW c \in 1 .. call PROVE Cardinality(Abandoned(c)') <= GivenUp(c)'
  <2>1. Abandoned(c)' \subseteq Abandoned(c)
    BY DEF Abandoned, Awaiting, Awaited, Step
  <2>2. GivenUp(c)' = GivenUp(c)
    BY DEF GivenUp
  <2>3. Cardinality(Abandoned(c)) <= GivenUp(c)
    BY DEF IInv, Accounted
  <2> QED BY <2>1, <2>2, <2>3, CountKept DEF IInv, PoolInv
<1>3. Accounted'
  BY <1>2 DEF Accounted
<1> QED
  BY <1>1, <1>3

-----------------------------------------------------------------------------
(* A handler leaves a step. *)

\* What the five actions that leave a step have in common.
Leaving ==
    /\ phase = "running"
    /\ UNCHANGED ongoing
    /\ done' = {}
    /\ skipped' \in {skipped, skipped + 1}
    /\ InlineWork \notin hung

\* The awaited job is still in the pool.
Pending == Awaiting /\ Awaited \in Jobs

\* Only the pending job of the step that is left can be left behind.
LEMMA LeftBehind ==
    ASSUME Leaving, NEW c,
           \A j \in Jobs' : j.kind = "tool" =>
                j \in Jobs \/ (Awaiting' /\ j = Awaited')
    PROVE  /\ Abandoned(c)' \subseteq Abandoned(c) \cup {Awaited}
           /\ c # call \/ ~Pending => Abandoned(c)' \subseteq Abandoned(c)
PROOF
<1>1. SUFFICES ASSUME NEW j \in Abandoned(c)'
               PROVE  j \in Abandoned(c) \/ (j = Awaited /\ c = call /\ Pending)
  BY Zenon
<1>2. j \in Jobs' /\ j.kind = "tool" /\ j.call = c /\ ~(Awaiting' /\ j = Awaited')
  BY <1>1 DEF Abandoned
<1>3. j \in Jobs
  BY <1>2
<1>4. CASE Awaiting /\ j = Awaited
  BY <1>2, <1>3, <1>4 DEF Pending, Awaited, ToolJob, Work
<1>5. CASE ~(Awaiting /\ j = Awaited)
  BY <1>2, <1>3, <1>5 DEF Abandoned
<1> QED
  BY <1>4, <1>5

\* The parts of the invariant that do not depend on where the handler goes.
LEMMA LeavesRest ==
    ASSUME IInv, Leaving
    PROVE  /\ HungInv' /\ (Jobs' \subseteq Jobs => GateInv')
           /\ DoneInv' /\ hung \subseteq running
PROOF
<1>1. hung \subseteq running
  BY DEF IInv, PoolInv, HungInv, Leaving
<1>2. \A w \in hung : w.kind = "tool"
  BY <1>1 DEF IInv, PoolInv, HungInv
<1>3. InlineWork' \notin hung'
  BY <1>2 DEF Leaving, ongoing, InlineWork, Work
<1>4. HungInv'
  BY <1>1, <1>2, <1>3 DEF Leaving, ongoing, HungInv
<1>5. DoneInv'
  BY DEF Leaving, DoneInv
<1>6. Jobs' \subseteq Jobs => GateInv'
  BY DEF IInv, GateInv, Cleared, Leaving, ongoing
<1> QED
  BY <1>1, <1>4, <1>5, <1>6

\* It goes on to the next step.
LEMMA LeavesForNext ==
    ASSUME IInv, Leaving, pc < Len(Plan[tool]), Enter(pc + 1),
           Pending => skipped' = skipped + 1
    PROVE  IInv'
PROOF
<1> DEFINE x == ToolJob(call', tool', pc + 1)
<1> USE DEF IInv, PoolInv
<1>1. /\ call' = call /\ tool' = tool /\ running' = running /\ late' = late
      /\ config' = config /\ hung' = hung /\ answers' = answers /\ phase' = "running"
      /\ pc' = pc + 1 /\ expired' = FALSE /\ phase = "running"
  BY DEF Leaving, ongoing, Enter
<1>2. /\ tool \in Tool /\ pc \in Nat /\ call \in 1 .. MaxCalls /\ call > 0
      /\ skipped \in Nat
  <2>1. tool \in Tool /\ pc \in Nat /\ skipped \in Nat /\ call \in 0 .. MaxCalls
    BY <1>1 DEF Types
  <2>2. call > 0
    BY <1>1 DEF Types
  <2> QED BY <2>1, <2>2, MaxCallsAssumption
<1>3. \A j \in Jobs : ToolJobOK(j)
  BY <1>1 DEF Fresh, JobOK
<1>4. x \notin Jobs
  BY <1>1, <1>2, <1>3 DEF ToolJobOK, ToolJob, Work
<1>5. /\ Distinct'
      /\ \A j \in Jobs' :
           \/ j \in RangeOf(queue) \cup running'
           \/ j = x /\ Awaiting' /\ j = Awaited'
  BY <1>4, <1>1, Entered
<1>6. \A j \in Jobs' : j \in Jobs \/ (j = x /\ Awaiting' /\ j = Awaited')
  BY <1>1, <1>5, JobsAre
<1>7. Fresh'
  <2>1. ASSUME NEW j \in Jobs' PROVE ToolJobOK(j)'
    <3>1. CASE j \in Jobs
      BY <1>1, <1>2, <1>3, <3>1 DEF ToolJobOK
    <3>2. CASE j = x
      BY <1>1, <1>2, <3>2 DEF ToolJobOK, ToolJob, Work
    <3> QED BY <1>6, <3>1, <3>2
  <2> QED BY <2>1 DEF Fresh, JobOK
<1>8. Types'
  <2>1. IsFiniteSet(Jobs')
    <3>1. Jobs' \subseteq Jobs \cup {x}
      BY <1>6
    <3>2. IsFiniteSet(Jobs)
      BY DEF Types
    <3> QED BY <3>1, <3>2, FiniteOne
  <2>2. pc + 1 \in DOMAIN Plan[tool]
    BY <1>2, PlanSteps
  <2>3. Cardinality(running') <= PoolSize
    BY <1>1 DEF Types
  <2>4. skipped' \in Nat
    BY <1>2 DEF Leaving
  <2>5. config \in Configs /\ tool \in Name \cup {""} /\ late \in BOOLEAN
    BY DEF Types
  <2>6. call \in 0 .. MaxCalls /\ pc + 1 \in Nat
    BY <1>2
  <2> HIDE DEF IInv, PoolInv
  <2> QED BY <1>1, <1>2, <2>1, <2>2, <2>3, <2>4, <2>5, <2>6 DEF Types
<1>9. AnswersInv'
  BY <1>1 DEF AnswersInv
<1>10. GateInv'
  <2>1. ASSUME NEW j \in Jobs', j.kind = "tool" PROVE Cleared(j.tool)'
    <3>1. CASE j \in Jobs
      BY <1>1, <2>1, <3>1 DEF GateInv, Cleared
    <3>2. CASE j = x
      BY <1>1, <3>2 DEF GateInv, Cleared, ToolJob, Work
    <3> QED BY <1>6, <3>1, <3>2
  <2> QED BY <1>1, <2>1 DEF GateInv, Cleared
<1>11. Accounted'
  <2>1. ASSUME NEW c \in 1 .. call PROVE Cardinality(Abandoned(c)') <= GivenUp(c)'
    <3>1. /\ Abandoned(c)' \subseteq Abandoned(c) \cup {Awaited}
          /\ c # call \/ ~Pending => Abandoned(c)' \subseteq Abandoned(c)
      BY <1>6, LeftBehind
    <3>2. Cardinality(Abandoned(c)) <= GivenUp(c) /\ GivenUp(c) \in Nat
      BY <2>1, GivenUpIsNat DEF Accounted
    <3>3. IsFiniteSet(Abandoned(c))
      BY AbandonedFinite
    <3>4. CASE c # call
      <4>1. GivenUp(c)' = GivenUp(c)
        <5>1. c \in DOMAIN answers
          BY <1>1, <1>2, <2>1, <3>4 DEF AnswersInv
        <5> QED BY <1>1, <5>1 DEF GivenUp
      <4> QED BY <2>1, <3>1, <3>2, <3>4, <4>1, CountKept
    <3>5. CASE c = call
      <4>1. c \notin DOMAIN answers
        BY <1>1, <1>2, <3>5 DEF AnswersInv
      <4>2. GivenUp(c) = skipped /\ GivenUp(c)' = skipped'
        BY <1>1, <4>1 DEF GivenUp
      <4>3. CASE Pending
        <5>1. /\ Cardinality(Abandoned(c)') \in Nat /\ Cardinality(Abandoned(c)) \in Nat
              /\ Cardinality(Abandoned(c)') <= Cardinality(Abandoned(c)) + 1
          BY <3>1, <3>3, CountOne
        <5> QED BY <1>2, <3>2, <4>2, <4>3, <5>1
      <4>4. CASE ~Pending
        <5>1. /\ Cardinality(Abandoned(c)') \in Nat /\ Cardinality(Abandoned(c)) \in Nat
              /\ Cardinality(Abandoned(c)') <= Cardinality(Abandoned(c))
          BY <3>1, <3>3, <4>4, CountNone
        <5> QED BY <1>2, <3>2, <4>2, <5>1 DEF Leaving
      <4> QED BY <4>3, <4>4
    <3> QED BY <3>4, <3>5
  <2> QED BY <1>1, <2>1 DEF Accounted
<1> QED
  BY <1>5, <1>7, <1>8, <1>9, <1>10, <1>11, LeavesRest

\* One more answer: the earlier ones are where they were.
LEMMA OneMoreAnswer ==
    ASSUME answers \in Seq([result : Results, skipped : Nat]),
           NEW r \in Results, NEW n \in Nat,
           answers' = Append(answers, [result |-> r, skipped |-> n])
    PROVE  /\ answers' \in Seq([result : Results, skipped : Nat])
           /\ Len(answers) \in Nat /\ Len(answers') = Len(answers) + 1
           /\ DOMAIN answers = 1 .. Len(answers)
           /\ DOMAIN answers' = 1 .. Len(answers) + 1
           /\ \A c \in 1 .. Len(answers) : answers'[c] = answers[c]
           /\ answers'[Len(answers) + 1] = [result |-> r, skipped |-> n]
PROOF
<1> DEFINE a == [result |-> r, skipped |-> n]
           S == [result : Results, skipped : Nat]
<1>1. a \in S
  OBVIOUS
<1> HIDE DEF a, S
<1>2. answers \in Seq(S) /\ answers' = Append(answers, a)
  BY DEF a, S
<1>3. /\ answers' \in Seq(S)
      /\ Len(answers) \in Nat /\ Len(answers') = Len(answers) + 1
      /\ DOMAIN answers = 1 .. Len(answers)
      /\ DOMAIN answers' = 1 .. Len(answers) + 1
      /\ \A c \in 1 .. Len(answers) : answers'[c] = answers[c]
      /\ answers'[Len(answers) + 1] = a
  BY <1>1, <1>2
<1> QED
  BY <1>3 DEF a, S

\* It is over, with an answer.
LEMMA LeavesForGood ==
    ASSUME IInv, Leaving, NEW r \in Results, Finish(r), UNCHANGED <<pc, expired>>,
           Pending => skipped' = skipped + 1 \/ r = "Timeout"
    PROVE  IInv'
PROOF
<1> DEFINE x == StdoutJob(call')
<1> USE DEF IInv, PoolInv
<1>1. /\ call' = call /\ tool' = tool /\ running' = running /\ late' = late
      /\ config' = config /\ hung' = hung /\ phase' = "writing"
      /\ pc' = pc /\ expired' = expired /\ phase = "running"
  BY DEF Leaving, ongoing, Finish
<1>2. /\ tool \in Tool /\ pc \in Nat /\ call \in 1 .. MaxCalls
      /\ skipped \in Nat /\ skipped' \in Nat
  <2>1. tool \in Tool /\ pc \in Nat /\ skipped \in Nat /\ call \in 0 .. MaxCalls
    BY <1>1 DEF Types
  <2>2. call > 0
    BY <1>1 DEF Types
  <2> QED BY <2>1, <2>2, MaxCallsAssumption DEF Leaving
<1>3. \A j \in Jobs : ToolJobOK(j)
  BY <1>1 DEF Fresh, JobOK
<1>4. x \notin Jobs
  BY <1>3 DEF ToolJobOK, ToolJob, StdoutJob, Work
<1>5. Distinct' /\ Jobs' = RangeOf(queue) \cup running' \cup {x}
  BY <1>4, <1>1, HandedOver
<1>6. Jobs' = Jobs \cup {x}
  BY <1>1, <1>5, JobsAre
<1>7. Fresh'
  <2>1. ASSUME NEW j \in Jobs PROVE ToolJobOK(j)'
    BY <1>1, <1>3 DEF ToolJobOK
  <2> QED BY <1>1, <1>6, <2>1 DEF Fresh, JobOK
<1>8. Types'
  <2>1. IsFiniteSet(Jobs')
    <3>1. IsFiniteSet(Jobs)
      BY DEF Types
    <3> QED BY <3>1, <1>6, FiniteOne
  <2>3. Cardinality(running') <= PoolSize
    BY <1>1 DEF Types
  <2>5. /\ config \in Configs /\ tool \in Name \cup {""} /\ late \in BOOLEAN
        /\ expired \in BOOLEAN
    BY DEF Types
  <2>6. call \in 0 .. MaxCalls
    BY <1>2
  <2> HIDE DEF IInv, PoolInv
  <2> QED BY <1>1, <1>2, <2>1, <2>3, <2>5, <2>6 DEF Types
<1>9. /\ answers' \in Seq([result : Results, skipped : Nat])
      /\ Len(answers) = call - 1 /\ Len(answers') = call
      /\ DOMAIN answers = 1 .. call - 1 /\ DOMAIN answers' = 1 .. call
      /\ \A c \in 1 .. call - 1 : answers'[c] = answers[c]
      /\ answers'[call] = [result |-> r, skipped |-> skipped']
  <2>1. answers \in Seq([result : Results, skipped : Nat])
    BY DEF AnswersInv
  <2>2. Len(answers) = call - 1
    BY <1>1 DEF AnswersInv
  <2>3. answers' = Append(answers, [result |-> r, skipped |-> skipped'])
    BY DEF Finish
  <2>4. PICK n \in Nat : n = skipped'
    BY <1>2
  <2>5. answers' = Append(answers, [result |-> r, skipped |-> n])
    BY <2>3, <2>4
  <2>6. Len(answers) + 1 = call
    BY <1>2, <2>2
  <2> HIDE DEF IInv, PoolInv
  <2> QED BY <2>1, <2>2, <2>4, <2>5, <2>6, OneMoreAnswer
<1>10. AnswersInv'
  BY <1>1, <1>9 DEF AnswersInv
<1>11. \A j \in Jobs' : j.kind = "tool" => j \in Jobs
  <2>1. x.kind = "stdout"
    BY DEF StdoutJob, Work
  <2> QED BY <1>6, <2>1
<1>12. GateInv'
  BY <1>1, <1>11 DEF GateInv, Cleared
<1>13. Accounted'
  <2>1. ASSUME NEW c \in 1 .. call PROVE Cardinality(Abandoned(c)') <= GivenUp(c)'
    <3>1. /\ Abandoned(c)' \subseteq Abandoned(c) \cup {Awaited}
          /\ c # call \/ ~Pending => Abandoned(c)' \subseteq Abandoned(c)
      BY <1>11, LeftBehind
    <3>2. Cardinality(Abandoned(c)) <= GivenUp(c) /\ GivenUp(c) \in Nat
      BY <2>1, GivenUpIsNat DEF Accounted
    <3>3. IsFiniteSet(Abandoned(c))
      BY AbandonedFinite
    <3>4. CASE c # call
      <4>1. GivenUp(c)' = GivenUp(c)
        <5>1. c \in DOMAIN answers /\ c \in DOMAIN answers' /\ answers'[c] = answers[c]
          BY <1>2, <1>9, <2>1, <3>4
        <5> QED BY <5>1 DEF GivenUp
      <4> QED BY <2>1, <3>1, <3>2, <3>4, <4>1, CountKept
    <3>5. CASE c = call
      <4>1. c \notin DOMAIN answers /\ c \in DOMAIN answers'
        BY <1>2, <1>9, <3>5
      <4>2. /\ GivenUp(c) = skipped
            /\ GivenUp(c)' = skipped' + (IF r = "Timeout" THEN 1 ELSE 0)
        BY <1>9, <4>1, <3>5 DEF GivenUp
      <4>3. CASE Pending
        <5>1. /\ Cardinality(Abandoned(c)') \in Nat /\ Cardinality(Abandoned(c)) \in Nat
              /\ Cardinality(Abandoned(c)') <= Cardinality(Abandoned(c)) + 1
          BY <3>1, <3>3, CountOne
        <5>2. skipped' \in {skipped, skipped + 1}
          BY DEF Leaving
        <5> QED BY <1>2, <3>2, <4>2, <4>3, <5>1, <5>2
      <4>4. CASE ~Pending
        <5>1. /\ Cardinality(Abandoned(c)') \in Nat /\ Cardinality(Abandoned(c)) \in Nat
              /\ Cardinality(Abandoned(c)') <= Cardinality(Abandoned(c))
          BY <3>1, <3>3, <4>4, CountNone
        <5>2. skipped' \in {skipped, skipped + 1}
          BY DEF Leaving
        <5> QED BY <1>2, <3>2, <4>2, <5>1, <5>2
      <4> QED BY <4>3, <4>4
    <3> QED BY <3>4, <3>5
  <2> QED BY <1>1, <2>1 DEF Accounted
<1> QED
  BY <1>5, <1>7, <1>8, <1>10, <1>12, <1>13, LeavesRest

\* Both together.
LEMMA Leaves ==
    ASSUME IInv, Leaving, Advance \/ \E r \in Results : Fail(r),
           Pending => skipped' = skipped + 1 \/ Fail("Timeout")
    PROVE  IInv'
PROOF
<1>1. CASE pc < Len(Plan[tool]) /\ Enter(pc + 1)
  <2>1. ~Fail("Timeout")
    BY <1>1 DEF Enter, Fail, Finish
  <2> QED BY <1>1, <2>1, LeavesForNext
<1>2. CASE \E r \in Results : Finish(r) /\ UNCHANGED <<pc, expired>>
  <2>1. CASE Pending => skipped' = skipped + 1
    BY <1>2, <2>1, LeavesForGood
  <2>2. CASE Fail("Timeout")
    <3>1. "Timeout" \in Results
      BY DEF Results
    <3> QED BY <2>2, <3>1, LeavesForGood DEF Fail
  <2> QED BY <2>1, <2>2
<1>3. {"ok", "ResourceLimit"} \subseteq Results
  BY DEF Results
<1> QED
  BY <1>1, <1>2, <1>3 DEF Advance, Fail

\* The five actions by which a handler leaves a step.
LEMMA HandlerStep ==
    ASSUME IInv, InlineEnds \/ Resume \/ BudgetElapses \/ SleepEnds \/ TimeoutFires
    PROVE  IInv'
PROOF
<1>1. {"failed", "Timeout"} \subseteq Results
  BY DEF Results
<1>2. skipped \in Nat
  BY DEF IInv, PoolInv, Types
<1>3. ~Awaiting => done = {}
  BY DEF IInv, PoolInv, DoneInv
<1>4. Awaited \notin done => done = {}
  BY DEF IInv, PoolInv, DoneInv
<1>5. Awaited \in done => ~Pending
  BY DEF IInv, PoolInv, DoneInv, Pending
<1>6. InlineWork \in hung => phase = "running" /\ Step = "inline"
  BY DEF IInv, PoolInv, HungInv
<1>7. Awaiting => phase = "running" /\ Step # "inline" /\ Step # "sleep"
  BY DEF Awaiting, Offloaded, Probes
<1>8. ~Awaiting => ~Pending
  BY DEF Pending
<1>9. CASE InlineEnds
  <2>1. ~Awaiting
    BY <1>7, <1>9 DEF InlineEnds
  <2>2. Leaving
    BY <1>3, <1>9, <2>1 DEF InlineEnds, Leaving
  <2>3. Advance \/ \E r \in Results : Fail(r)
    BY <1>1, <1>9 DEF InlineEnds
  <2> QED BY <1>8, <2>1, <2>2, <2>3, Leaves
<1>10. CASE Resume
  <2>1. Leaving
    BY <1>6, <1>7, <1>10 DEF Resume, Leaving
  <2>2. Advance \/ \E r \in Results : Fail(r)
    BY <1>1, <1>10 DEF Resume
  <2>3. ~Pending
    BY <1>5, <1>10 DEF Resume
  <2> QED BY <2>1, <2>2, <2>3, Leaves
<1>11. CASE BudgetElapses
  <2>1. Leaving
    BY <1>4, <1>6, <1>7, <1>11 DEF BudgetElapses, Leaving
  <2>2. Advance \/ \E r \in Results : Fail(r)
    BY <1>1, <1>11 DEF BudgetElapses
  <2>3. skipped' = skipped + 1 \/ Fail("Timeout")
    BY <1>11 DEF BudgetElapses
  <2> QED BY <2>1, <2>2, <2>3, Leaves
<1>12. CASE SleepEnds
  <2>1. ~Awaiting
    BY <1>7, <1>12 DEF SleepEnds
  <2>2. Leaving
    BY <1>3, <1>6, <1>12, <2>1 DEF SleepEnds, Leaving
  <2> QED BY <1>8, <1>12, <2>1, <2>2, Leaves DEF SleepEnds
<1>13. CASE TimeoutFires
  <2>1. done = {}
    BY <1>3, <1>4, <1>7, <1>13 DEF TimeoutFires
  <2>2. Step # "inline"
    BY <1>7, <1>13 DEF TimeoutFires
  <2>3. Leaving
    BY <1>6, <1>13, <2>1, <2>2 DEF TimeoutFires, Leaving
  <2>4. Fail("Timeout")
    BY <1>13 DEF TimeoutFires
  <2> QED BY <1>1, <2>3, <2>4, Leaves
<1> QED
  BY <1>9, <1>10, <1>11, <1>12, <1>13

-----------------------------------------------------------------------------
(* A call is taken from stdin. *)

\* A tool that the checks let through is one that may run.
LEMMA GateClears ==
    ASSUME NEW name \in Name, NEW args \in BOOLEAN, Gate(config, name, args) = "run"
    PROVE  name \in Tool /\ Cleared(name)
  BY DEF Gate, Name, Cleared, Listed

\* The job that delivered the call is the only one that is not a tool's, and
\* it is gone.
LEMMA StdinTaken ==
    ASSUME IInv, phase = "reading", StdinJob(call + 1) \in running,
           running' = running \ {StdinJob(call + 1)}
    PROVE  /\ \A j \in RangeOf(queue) \cup running' : j \in Jobs /\ ToolJobOK(j)
           /\ hung \subseteq running' /\ done = {}
           /\ \A w \in hung : w.kind = "tool"
PROOF
<1> DEFINE s == StdinJob(call + 1)
<1> USE DEF IInv, PoolInv
<1>1. s \notin RangeOf(queue)
  BY DEF Distinct
<1>2. ASSUME NEW j \in RangeOf(queue) \cup running' PROVE j \in Jobs /\ ToolJobOK(j)
  <2>1. j \in Jobs /\ j # s
    BY <1>1, <1>2, JobsAre
  <2> QED BY <2>1 DEF Fresh, JobOK
<1>3. hung \subseteq running
  BY DEF HungInv
<1>4. \A w \in hung : w.kind = "tool"
  BY <1>3 DEF HungInv
<1>5. s \notin hung
  BY <1>4 DEF StdinJob, Work
<1>6. done = {}
  BY DEF DoneInv, Awaiting
<1> QED
  BY <1>2, <1>3, <1>4, <1>5, <1>6

\* The new call has left nothing behind, and the earlier ones nothing more.
LEMMA ReceivedCounts ==
    ASSUME IInv, phase = "reading", call' = call + 1,
           \A j \in Jobs' : j.kind = "tool" =>
                (j \in Jobs /\ ToolJobOK(j)) \/ (Awaiting' /\ j = Awaited'),
           \A c \in 1 .. call : GivenUp(c)' = GivenUp(c),
           \A c \in 1 .. call' : c \notin 1 .. call => GivenUp(c)' \in Nat
    PROVE  Accounted'
PROOF
<1>1. call \in Nat /\ ~Awaiting
  BY CallsBounded DEF IInv, PoolInv, Awaiting
<1>2. ASSUME NEW c \in 1 .. call' PROVE Cardinality(Abandoned(c)') <= GivenUp(c)'
  <2>1. CASE c \in 1 .. call
    <3>1. c # call'
      BY <1>1, <2>1
    <3>2. ASSUME NEW j \in Abandoned(c)' PROVE j \in Abandoned(c)
      <4>1. j \in Jobs' /\ j.kind = "tool" /\ j.call = c /\ ~(Awaiting' /\ j = Awaited')
        BY <3>2 DEF Abandoned
      <4> QED BY <1>1, <4>1 DEF Abandoned
    <3>3. Cardinality(Abandoned(c)) <= GivenUp(c) /\ GivenUp(c)' = GivenUp(c)
      BY <2>1 DEF IInv, Accounted
    <3> QED BY <2>1, <3>2, <3>3, CountKept DEF IInv, PoolInv
  <2>2. CASE c \notin 1 .. call
    <3>1. Abandoned(c)' = {}
      <4>1. SUFFICES ASSUME NEW j \in Abandoned(c)' PROVE FALSE
        BY Zenon
      <4>2. j \in Jobs' /\ j.kind = "tool" /\ j.call = c /\ ~(Awaiting' /\ j = Awaited')
        BY <4>1 DEF Abandoned
      <4> QED BY <2>2, <4>2 DEF ToolJobOK
    <3>2. Cardinality(Abandoned(c)') = 0
      BY <3>1, FS_EmptySet
    <3> QED BY <1>2, <2>2, <3>2
  <2> QED BY <2>1, <2>2
<1> QED
  BY <1>2 DEF Accounted

\* A call that the checks let through enters its first step.
LEMMA ReceivedRuns ==
    ASSUME IInv, phase = "reading", StdinJob(call + 1) \in running, call < MaxCalls,
           call' = call + 1, running' = running \ {StdinJob(call + 1)}, skipped' = 0,
           UNCHANGED <<config, hung, done>>,
           tool' \in Tool, Cleared(tool'), late' = FALSE, Enter(1)
    PROVE  IInv'
PROOF
<1> DEFINE x == ToolJob(call', tool', 1)
<1> USE DEF IInv, PoolInv
<1>1. phase' = "running" /\ pc' = 1 /\ expired' = FALSE /\ answers' = answers
  BY DEF Enter
<1>2. call \in Nat /\ call' \in 1 .. MaxCalls
  <2>1. call \in Nat /\ MaxCalls \in Nat
    BY CallsBounded
  <2> QED BY <2>1
<1>3. /\ \A j \in RangeOf(queue) \cup running' : j \in Jobs /\ ToolJobOK(j)
      /\ hung \subseteq running' /\ done = {}
      /\ \A w \in hung : w.kind = "tool"
  BY StdinTaken
<1>4. x \notin Jobs
  <2>1. x.kind = "tool" /\ x.call = call + 1
    BY DEF ToolJob, Work
  <2>2. StdinJob(call + 1).kind = "stdin"
    BY DEF StdinJob, Work
  <2> HIDE DEF x
  <2>3. ~ToolJobOK(x)
    BY <1>2, <2>1 DEF ToolJobOK
  <2> QED BY <2>1, <2>2, <2>3 DEF Fresh, JobOK
<1>5. /\ Distinct'
      /\ \A j \in Jobs' :
           \/ j \in RangeOf(queue) \cup running'
           \/ j = x /\ Awaiting' /\ j = Awaited'
  BY <1>4, Entered
<1>6. Fresh'
  <2>1. ASSUME NEW j \in Jobs' PROVE ToolJobOK(j)'
    <3>1. CASE j \in RangeOf(queue) \cup running'
      <4>1. ToolJobOK(j)
        BY <1>3, <3>1
      <4> QED BY <1>2, <4>1 DEF ToolJobOK
    <3>2. CASE j = x
      BY <1>1, <1>2, <3>2 DEF ToolJobOK, ToolJob, Work
    <3> QED BY <1>5, <3>1, <3>2
  <2> QED BY <2>1 DEF Fresh, JobOK
<1>7. Types'
  <2>1. IsFiniteSet(Jobs')
    <3>1. Jobs' \subseteq Jobs \cup {x}
      BY <1>3, <1>5
    <3>2. IsFiniteSet(Jobs)
      BY DEF Types
    <3> QED BY <3>1, <3>2, FiniteOne
  <2>2. 1 \in DOMAIN Plan[tool']
    BY PlanSteps
  <2>3. Cardinality(running') <= PoolSize
    BY ThreadsFreed
  <2>4. config \in Configs /\ tool' \in Name \cup {""}
    BY DEF Types, Name
  <2>5. call' \in 0 .. MaxCalls /\ call' > 0
    BY <1>2
  <2> HIDE DEF IInv, PoolInv
  <2> QED BY <1>1, <2>1, <2>2, <2>3, <2>4, <2>5 DEF Types
<1>8. AnswersInv'
  <2>1. Len(answers) = call /\ call' - 1 = call
    BY <1>2 DEF AnswersInv
  <2> QED BY <1>1, <2>1 DEF AnswersInv
<1>9. HungInv' /\ DoneInv'
  <2>1. InlineWork' \notin hung'
    BY <1>3 DEF InlineWork, Work
  <2> QED BY <1>3, <2>1 DEF HungInv, DoneInv
<1>10. GateInv'
  <2>1. Cleared(tool)'
    BY DEF Cleared
  <2>2. ASSUME NEW j \in Jobs', j.kind = "tool" PROVE Cleared(j.tool)'
    <3>1. CASE j \in RangeOf(queue) \cup running'
      BY <1>3, <2>2, <3>1 DEF GateInv, Cleared
    <3>2. CASE j = x
      BY <3>2 DEF Cleared, ToolJob, Work
    <3> QED BY <1>5, <3>1, <3>2
  <2> QED BY <2>1, <2>2 DEF GateInv, Cleared
<1>11. Accounted'
  <2>1. ASSUME NEW c \in 1 .. call PROVE GivenUp(c)' = GivenUp(c)
    <3>1. c \in DOMAIN answers
      BY <2>1 DEF AnswersInv
    <3> QED BY <1>1, <3>1 DEF GivenUp
  <2>2. ASSUME NEW c \in 1 .. call', c \notin 1 .. call PROVE GivenUp(c)' \in Nat
    <3>1. c \notin DOMAIN answers
      BY <2>2 DEF AnswersInv
    <3> QED BY <1>1, <3>1 DEF GivenUp
  <2>3. \A j \in Jobs' : (j \in Jobs /\ ToolJobOK(j)) \/ (Awaiting' /\ j = Awaited')
    BY <1>3, <1>5
  <2> QED BY <2>1, <2>2, <2>3, ReceivedCounts
<1> QED
  BY <1>5, <1>6, <1>7, <1>8, <1>9, <1>10, <1>11

\* A call that is refused is answered at once.
LEMMA ReceivedRefused ==
    ASSUME IInv, phase = "reading", StdinJob(call + 1) \in running, call < MaxCalls,
           call' = call + 1, running' = running \ {StdinJob(call + 1)}, skipped' = 0,
           UNCHANGED <<config, hung, done>>,
           tool' \in Name, late' = FALSE, pc' = 0, expired' = FALSE,
           NEW r \in Results, Finish(r)
    PROVE  IInv'
PROOF
<1> DEFINE x == StdoutJob(call')
<1> USE DEF IInv, PoolInv
<1>1. phase' = "writing" /\ x.kind = "stdout"
  BY DEF Finish, StdoutJob, Work
<1>2. call \in Nat /\ call' \in 1 .. MaxCalls
  <2>1. call \in Nat /\ MaxCalls \in Nat
    BY CallsBounded
  <2> QED BY <2>1
<1>3. /\ \A j \in RangeOf(queue) \cup running' : j \in Jobs /\ ToolJobOK(j)
      /\ hung \subseteq running' /\ done = {}
      /\ \A w \in hung : w.kind = "tool"
  BY StdinTaken
<1>4. x \notin Jobs
  <2>1. StdinJob(call + 1).kind = "stdin"
    BY DEF StdinJob, Work
  <2> HIDE DEF x
  <2>2. ~ToolJobOK(x)
    BY <1>1 DEF ToolJobOK, ToolJob, Work
  <2> QED BY <1>1, <2>1, <2>2 DEF Fresh, JobOK
<1>5. Distinct' /\ Jobs' = RangeOf(queue) \cup running' \cup {x}
  BY <1>4, HandedOver
<1>6. \A j \in Jobs' : j = x \/ (j \in Jobs /\ ToolJobOK(j))
  BY <1>3, <1>5
<1>7. Fresh'
  <2>1. ASSUME NEW j \in Jobs' PROVE JobOK(j)'
    <3>1. CASE ToolJobOK(j)
      BY <1>1, <1>2, <3>1 DEF ToolJobOK, JobOK
    <3>2. CASE j = x
      BY <1>1, <3>2 DEF JobOK
    <3> QED BY <1>6, <3>1, <3>2
  <2> QED BY <2>1 DEF Fresh
<1>8. Types'
  <2>1. IsFiniteSet(Jobs')
    <3>1. Jobs' \subseteq Jobs \cup {x}
      BY <1>6
    <3>2. IsFiniteSet(Jobs)
      BY DEF Types
    <3> QED BY <3>1, <3>2, FiniteOne
  <2>3. Cardinality(running') <= PoolSize
    BY ThreadsFreed
  <2>4. config \in Configs /\ tool' \in Name \cup {""}
    BY DEF Types
  <2>5. call' \in 0 .. MaxCalls
    BY <1>2
  <2> HIDE DEF IInv, PoolInv
  <2> QED BY <1>1, <2>1, <2>3, <2>4, <2>5 DEF Types
<1>9. /\ answers' \in Seq([result : Results, skipped : Nat])
      /\ Len(answers) = call /\ Len(answers') = call'
      /\ DOMAIN answers = 1 .. call /\ DOMAIN answers' = 1 .. call'
      /\ \A c \in 1 .. call : answers'[c] = answers[c]
      /\ answers'[call'] = [result |-> r, skipped |-> 0]
  <2>1. answers \in Seq([result : Results, skipped : Nat])
    BY DEF AnswersInv
  <2>2. Len(answers) = call
    BY DEF AnswersInv
  <2>3. answers' = Append(answers, [result |-> r, skipped |-> 0])
    BY DEF Finish
  <2> HIDE DEF IInv, PoolInv
  <2> QED BY <1>2, <2>1, <2>2, <2>3, OneMoreAnswer
<1>10. AnswersInv'
  BY <1>1, <1>9 DEF AnswersInv
<1>11. HungInv' /\ DoneInv'
  <2>1. InlineWork' \notin hung'
    BY <1>3 DEF InlineWork, Work
  <2> QED BY <1>3, <2>1 DEF HungInv, DoneInv
<1>12. GateInv'
  BY <1>1, <1>6 DEF GateInv, Cleared
<1>13. Accounted'
  <2>1. ASSUME NEW c \in 1 .. call PROVE GivenUp(c)' = GivenUp(c)
    <3>1. c \in DOMAIN answers /\ c \in DOMAIN answers' /\ answers'[c] = answers[c]
      BY <1>2, <1>9
    <3> QED BY <3>1 DEF GivenUp
  <2>2. ASSUME NEW c \in 1 .. call', c \notin 1 .. call PROVE GivenUp(c)' \in Nat
    <3>1. c = call' /\ c \in DOMAIN answers'
      BY <1>2, <1>9, <2>2
    <3> QED BY <1>9, <3>1 DEF GivenUp
  <2>3. \A j \in Jobs' : j.kind = "tool" => j \in Jobs /\ ToolJobOK(j)
    BY <1>1, <1>6
  <2> QED BY <2>1, <2>2, <2>3, ReceivedCounts
<1> QED
  BY <1>5, <1>7, <1>8, <1>10, <1>11, <1>12, <1>13

LEMMA Received ==
    ASSUME IInv, ReceiveCall
    PROVE  IInv'
PROOF
<1>1. /\ phase = "reading" /\ StdinJob(call + 1) \in running /\ call < MaxCalls
      /\ call' = call + 1 /\ running' = running \ {StdinJob(call + 1)} /\ skipped' = 0
      /\ UNCHANGED <<config, hung, done>>
  BY DEF ReceiveCall
<1>2. PICK name \in Name, args \in BOOLEAN :
        /\ tool' = name /\ late' = FALSE
        /\ IF Gate(config, name, args) = "run"
           THEN Enter(1)
           ELSE /\ Finish(Refusal(Gate(config, name, args)))
                /\ pc' = 0 /\ expired' = FALSE
  BY Zenon DEF ReceiveCall
<1>3. CASE Gate(config, name, args) = "run"
  <2>1. tool' \in Tool /\ Cleared(tool')
    BY <1>2, <1>3, GateClears
  <2> QED BY <1>1, <1>2, <1>3, <2>1, ReceivedRuns
<1>4. CASE Gate(config, name, args) # "run"
  <2>1. Refusal(Gate(config, name, args)) \in Results
    BY DEF Refusal, Results
  <2> QED BY <1>1, <1>2, <1>4, <2>1, ReceivedRefused
<1> QED
  BY <1>3, <1>4

-----------------------------------------------------------------------------
(* The rest of the loop, the pool and the clock. *)

LEMMA FrameOut ==
    ASSUME IInv, FrameWritten
    PROVE  IInv'
PROOF
<1> DEFINE s == StdoutJob(call)
           x == StdinJob(call + 1)
<1> USE DEF IInv, PoolInv
<1>1. /\ phase = "writing" /\ phase' = "reading" /\ s \in running
      /\ running' = running \ {s} /\ queue' = Append(queue, x)
      /\ UNCHANGED <<config, call, handler, hung, done, answers>>
  BY DEF FrameWritten
<1>2. s.kind = "stdout" /\ x.kind = "stdin"
  BY DEF StdoutJob, StdinJob, Work
<1>3. \A j \in Jobs : ToolJobOK(j) \/ j = s
  BY <1>1 DEF Fresh, JobOK
<1>4. x \notin Jobs
  <2> HIDE DEF x, s
  <2>1. ~ToolJobOK(x)
    BY <1>2 DEF ToolJobOK, ToolJob, Work
  <2> QED BY <1>2, <1>3, <2>1
<1>5. Distinct' /\ Jobs' = RangeOf(queue) \cup running' \cup {x}
  BY <1>1, <1>4, Joins
<1>6. s \notin RangeOf(queue)
  BY <1>1 DEF Distinct
<1>7. \A j \in Jobs' : j = x \/ (j \in Jobs /\ ToolJobOK(j))
  BY <1>1, <1>3, <1>5, <1>6, JobsAre
<1>8. Fresh'
  <2>1. ASSUME NEW j \in Jobs' PROVE JobOK(j)'
    <3>1. CASE ToolJobOK(j)
      BY <1>1, <3>1 DEF ToolJobOK, JobOK
    <3>2. CASE j = x
      BY <1>1, <3>2 DEF JobOK
    <3> QED BY <1>7, <3>1, <3>2
  <2> QED BY <2>1 DEF Fresh
<1>9. Types'
  <2>1. IsFiniteSet(Jobs')
    <3>1. Jobs' \subseteq Jobs \cup {x}
      BY <1>7
    <3>2. IsFiniteSet(Jobs)
      BY DEF Types
    <3> QED BY <3>1, <3>2, FiniteOne
  <2>2. Cardinality(running') <= PoolSize
    BY <1>1, ThreadsFreed
  <2> QED BY <1>1, <2>1, <2>2 DEF Types, handler
<1>10. AnswersInv'
  BY <1>1 DEF AnswersInv
<1>11. HungInv'
  <2>1. hung \subseteq running /\ s \notin hung
    BY <1>1, <1>2 DEF HungInv
  <2>2. \A w \in hung : w.kind = "tool"
    BY <2>1 DEF HungInv
  <2>3. InlineWork' \notin hung
    BY <2>2 DEF InlineWork, Work
  <2> QED BY <1>1, <2>1, <2>2, <2>3 DEF HungInv
<1>12. DoneInv'
  BY <1>1 DEF DoneInv, Awaiting
<1>13. GateInv' /\ Accounted'
  <2>1. \A j \in Jobs' : j.kind = "tool" => j \in Jobs
    BY <1>2, <1>7
  <2> QED BY <1>1, <2>1, CallsAsBefore DEF handler
<1> QED
  BY <1>5, <1>8, <1>9, <1>10, <1>11, <1>12, <1>13

\* A step that puts nothing in the pool.
LEMMA NothingNew ==
    ASSUME IInv, Jobs' \subseteq Jobs, UNCHANGED <<config, call, answers, skipped>>,
           UNCHANGED <<phase, tool, pc>> \/ (/\ phase' \in {"draining", "exited"}
                                              /\ phase # "running"
                                              /\ UNCHANGED <<tool, pc>>
                                              /\ \A j \in Jobs' : ToolJobOK(j)),
           late' \in BOOLEAN, expired' \in BOOLEAN,
           Cardinality(running') <= PoolSize
    PROVE  /\ Fresh' /\ Types' /\ AnswersInv' /\ GateInv' /\ Accounted'
PROOF
<1> USE DEF IInv, PoolInv
<1>1. IsFiniteSet(Jobs')
  <2>1. IsFiniteSet(Jobs)
    BY DEF Types
  <2> QED BY <2>1, FS_Subset, Zenon
<1>2. Types'
  BY <1>1 DEF Types
<1>3. Fresh'
  <2>1. ASSUME NEW j \in Jobs' PROVE JobOK(j)'
    <3>1. CASE UNCHANGED <<phase, tool, pc>>
      <4>1. JobOK(j)
        BY <2>1 DEF Fresh
      <4> QED BY <3>1, <4>1 DEF JobOK, ToolJobOK
    <3>2. CASE ~UNCHANGED <<phase, tool, pc>>
      BY <2>1, <3>2 DEF JobOK, ToolJobOK
    <3> QED BY <3>1, <3>2
  <2> QED BY <2>1 DEF Fresh
<1>4. AnswersInv'
  BY DEF AnswersInv
<1>5. GateInv' /\ Accounted'
  BY CallsAsBefore
<1> QED
  BY <1>2, <1>3, <1>4, <1>5

LEMMA InputEnds ==
    ASSUME IInv, StdinCloses
    PROVE  IInv'
PROOF
<1> DEFINE s == StdinJob(call + 1)
<1> USE DEF IInv, PoolInv
<1>1. /\ phase = "reading" /\ phase' = "draining" /\ s \in running
      /\ running' = running \ {s} /\ queue' = <<>>
      /\ UNCHANGED <<config, call, handler, hung, done, answers>>
  BY DEF StdinCloses
<1>2. /\ \A j \in RangeOf(queue) \cup running' : j \in Jobs /\ ToolJobOK(j)
      /\ hung \subseteq running' /\ done = {}
      /\ \A w \in hung : w.kind = "tool"
  BY <1>1, StdinTaken
<1>3. Distinct'
  BY <1>1, Emptied DEF Distinct
<1>4. Jobs' = running'
  BY <1>1, Emptied DEF Jobs, RangeOf
<1>5. Cardinality(running') <= PoolSize
  BY <1>1, ThreadsFreed
<1>6. late \in BOOLEAN /\ expired \in BOOLEAN
  BY DEF Types
<1>7. Fresh' /\ Types' /\ AnswersInv' /\ GateInv' /\ Accounted'
  BY <1>1, <1>2, <1>4, <1>5, <1>6, NothingNew DEF handler
<1>8. HungInv' /\ DoneInv'
  <2>1. InlineWork' \notin hung
    BY <1>2 DEF InlineWork, Work
  <2> QED BY <1>1, <1>2, <2>1 DEF HungInv, DoneInv
<1> QED
  BY <1>3, <1>7, <1>8

LEMMA Exits ==
    ASSUME IInv, Exit
    PROVE  IInv'
PROOF
<1> USE DEF IInv, PoolInv
<1>1. /\ phase = "draining" /\ phase' = "exited"
      /\ UNCHANGED <<config, call, handler, pool, answers>>
  BY DEF Exit
<1>2. Jobs' = Jobs
  BY <1>1 DEF Jobs, pool
<1>3. \A j \in Jobs : ToolJobOK(j)
  BY <1>1 DEF Fresh, JobOK
<1>4. Cardinality(running') <= PoolSize
  BY <1>1 DEF Types, pool
<1>5. late' \in BOOLEAN /\ expired' \in BOOLEAN
  BY <1>1 DEF Types, handler
<1>6. Fresh' /\ Types' /\ AnswersInv' /\ GateInv' /\ Accounted'
  BY <1>1, <1>2, <1>3, <1>4, <1>5, NothingNew DEF handler
<1>7. Distinct' /\ HungInv' /\ DoneInv'
  BY <1>1 DEF pool, handler, Distinct, HungInv, DoneInv, Awaiting, InlineWork
<1> QED
  BY <1>6, <1>7

LEMMA JobKinds ==
    ASSUME Fresh, NEW j \in Jobs
    PROVE  j.kind \in {"tool", "stdin", "stdout"}
PROOF
<1>1. CASE ToolJobOK(j)
  BY <1>1 DEF ToolJobOK, ToolJob, Work
<1>2. CASE j = StdinJob(call + 1)
  BY <1>2 DEF StdinJob, Work
<1>3. CASE j = StdoutJob(call)
  BY <1>3 DEF StdoutJob, Work
<1> QED
  BY <1>1, <1>2, <1>3 DEF Fresh, JobOK

LEMMA Starts ==
    ASSUME IInv, PoolStarts
    PROVE  IInv'
PROOF
<1> USE DEF IInv, PoolInv
<1>1. /\ queue # <<>> /\ Cardinality(running) < PoolSize
      /\ running' = running \cup {Head(queue)} /\ queue' = Tail(queue)
      /\ UNCHANGED <<config, phase, call, handler, hung, done, answers>>
  BY DEF PoolStarts
<1>2. /\ QueueOK(Tail(queue)) /\ Head(queue) \in RangeOf(queue)
      /\ RangeOf(Tail(queue)) = RangeOf(queue) \ {Head(queue)}
  BY <1>1, Shifted DEF Distinct
<1>3. Distinct'
  <2>1. QueueOK(queue') /\ RangeOf(queue') = RangeOf(queue) \ {Head(queue)}
    BY <1>1, <1>2
  <2> QED BY <1>1, <2>1 DEF Distinct
<1>4. Jobs' = Jobs
  <2>1. Jobs' = RangeOf(queue') \cup running'
    BY DEF Jobs, RangeOf
  <2>2. RangeOf(queue') = RangeOf(queue) \ {Head(queue)}
    BY <1>1, <1>2
  <2> QED BY <1>1, <1>2, <2>1, <2>2, JobsAre
<1>5. Cardinality(running') <= PoolSize
  <2>1. IsFiniteSet(running)
    <3>1. running \subseteq Jobs /\ IsFiniteSet(Jobs)
      BY DEF Jobs, Types
    <3> QED BY <3>1, FS_Subset, Zenon
  <2>2. /\ Cardinality(running') \in Nat /\ Cardinality(running) \in Nat
        /\ Cardinality(running') <= Cardinality(running) + 1
    BY <1>1, <2>1, CountOne
  <2> QED BY <1>1, <2>2, PoolSizeAssumption
<1>6. late' \in BOOLEAN /\ expired' \in BOOLEAN
  BY <1>1 DEF Types, handler
<1>7. Fresh' /\ Types' /\ AnswersInv' /\ GateInv' /\ Accounted'
  BY <1>1, <1>4, <1>5, <1>6, NothingNew DEF handler
<1>8. DoneInv'
  BY <1>1, <1>4 DEF handler, DoneInv, Awaiting, Awaited, Step
<1>9. HungInv'
  <2>1. Head(queue) \notin running
    BY <1>1, <1>2 DEF Distinct
  <2>2. Head(queue).kind = "inline" => FALSE
    <3>1. Head(queue) \in Jobs
      BY <1>2, JobsAre
    <3> QED BY <3>1, JobKinds
  <2>3. Head(queue) \notin hung
    BY <2>1, <2>2 DEF HungInv, InlineWork, Work
  <2> QED BY <1>1, <2>3 DEF handler, HungInv, InlineWork, Step
<1> QED
  BY <1>3, <1>7, <1>8, <1>9

LEMMA Ends ==
    ASSUME IInv, JobEnds
    PROVE  IInv'
PROOF
<1> USE DEF IInv, PoolInv
<1>1. PICK j \in running \ hung :
        /\ j.kind = "tool" /\ running' = running \ {j}
        /\ done' = IF Awaiting /\ j = Awaited THEN {j} ELSE done
  BY DEF JobEnds
<1>2. UNCHANGED <<config, phase, call, handler, queue, hung, answers>>
  BY DEF JobEnds
<1>3. Distinct'
  BY <1>1, <1>2 DEF Distinct
<1>4. Jobs' = RangeOf(queue) \cup running' /\ Jobs' \subseteq Jobs
  BY <1>1, <1>2, JobsAre DEF Jobs, RangeOf
<1>5. Cardinality(running') <= PoolSize
  BY <1>1, ThreadsFreed
<1>6. late' \in BOOLEAN /\ expired' \in BOOLEAN
  BY <1>2 DEF Types, handler
<1>7. Fresh' /\ Types' /\ AnswersInv' /\ GateInv' /\ Accounted'
  BY <1>2, <1>4, <1>5, <1>6, NothingNew DEF handler
<1>8. HungInv'
  <2>1. hung \subseteq running' \cup {InlineWork} /\ \A w \in hung \cap running' : w.kind = "tool"
    BY <1>1 DEF HungInv
  <2>2. UNCHANGED <<phase, call, tool, pc>>
    BY <1>2 DEF handler
  <2> QED BY <1>2, <2>1, <2>2 DEF HungInv, InlineWork, Step
<1>9. DoneInv'
  <2>1. Awaiting' = Awaiting /\ Awaited' = Awaited
    BY <1>2 DEF handler, Awaiting, Awaited, Step
  <2>2. CASE Awaiting /\ j = Awaited
    <3>1. j \notin RangeOf(queue)
      BY <1>1 DEF Distinct
    <3> QED BY <1>1, <1>4, <2>1, <2>2, <3>1 DEF DoneInv
  <2>3. CASE ~(Awaiting /\ j = Awaited)
    BY <1>1, <1>4, <2>1, <2>3 DEF DoneInv
  <2> QED BY <2>2, <2>3
<1> QED
  BY <1>3, <1>7, <1>8, <1>9

LEMMA ClockTicks ==
    ASSUME IInv, Clock
    PROVE  IInv'
PROOF
<1> USE DEF IInv, PoolInv
<1>1. UNCHANGED <<config, phase, call, tool, pc, skipped, pool, answers>>
  BY DEF Clock, CallDeadlinePasses, StepTimerPasses
<1>2. late' \in BOOLEAN /\ expired' \in BOOLEAN
  BY DEF Types, Clock, CallDeadlinePasses, StepTimerPasses
<1>3. Jobs' = Jobs
  BY <1>1 DEF Jobs, pool
<1>4. Cardinality(running') <= PoolSize
  BY <1>1 DEF Types, pool
<1>5. Fresh' /\ Types' /\ AnswersInv' /\ GateInv' /\ Accounted'
  BY <1>1, <1>2, <1>3, <1>4, NothingNew
<1>6. Distinct' /\ HungInv'
  BY <1>1 DEF pool, Distinct, HungInv, InlineWork, Step
<1>7. DoneInv'
  BY <1>1, <1>3 DEF pool, DoneInv, Awaiting, Awaited, Step
<1> QED
  BY <1>5, <1>6, <1>7

LEMMA Hangs ==
    ASSUME IInv, Hang
    PROVE  IInv'
PROOF
<1> USE DEF IInv, PoolInv
<1>1. PICK w : /\ \/ w \in running /\ w.kind = "tool"
                  \/ w = InlineWork /\ phase = "running" /\ Step = "inline"
               /\ hung' = hung \cup {w}
  BY DEF Hang
<1>2. UNCHANGED <<config, phase, call, handler, queue, running, done, answers>>
  BY DEF Hang
<1>3. Jobs' = Jobs
  BY <1>2 DEF Jobs
<1>4. Cardinality(running') <= PoolSize
  BY <1>2 DEF Types
<1>5. late' \in BOOLEAN /\ expired' \in BOOLEAN
  BY <1>2 DEF Types, handler
<1>6. Fresh' /\ Types' /\ AnswersInv' /\ GateInv' /\ Accounted'
  BY <1>2, <1>3, <1>4, <1>5, NothingNew DEF handler
<1>7. HungInv'
  <2>1. InlineWork \notin running
    <3>1. InlineWork.kind = "inline"
      BY DEF InlineWork, Work
    <3> QED BY <3>1, JobKinds DEF Jobs
  <2>2. InlineWork' = InlineWork /\ Step' = Step /\ phase' = phase /\ running' = running
    BY <1>2 DEF handler, InlineWork, Step
  <2>3. hung' \subseteq running \cup {InlineWork}
    BY <1>1 DEF HungInv
  <2>4. \A v \in hung' \cap running : v.kind = "tool"
    BY <1>1, <2>1 DEF HungInv
  <2>5. InlineWork \in hung' => phase = "running" /\ Step = "inline"
    BY <1>1, <2>1 DEF HungInv
  <2> QED BY <2>2, <2>3, <2>4, <2>5 DEF HungInv
<1>8. Distinct' /\ DoneInv'
  BY <1>2, <1>3 DEF handler, Distinct, DoneInv, Awaiting, Awaited, Step
<1> QED
  BY <1>6, <1>7, <1>8

LEMMA Stutters ==
    ASSUME IInv, UNCHANGED vars
    PROVE  IInv'
PROOF
<1> USE DEF IInv, PoolInv, vars
<1>1. Jobs' = Jobs
  BY DEF Jobs
<1>2. Cardinality(running') <= PoolSize /\ late' \in BOOLEAN /\ expired' \in BOOLEAN
  BY DEF Types
<1>3. Fresh' /\ Types' /\ AnswersInv' /\ GateInv' /\ Accounted'
  BY <1>1, <1>2, NothingNew
<1>4. Distinct' /\ HungInv'
  BY DEF Distinct, HungInv, InlineWork, Step
<1>5. DoneInv'
  BY <1>1 DEF DoneInv, Awaiting, Awaited, Step
<1> QED
  BY <1>3, <1>4, <1>5

-----------------------------------------------------------------------------
(* The theorems. *)

\* A server that has just started has asked for its first line and nothing
\* else.
LEMMA InitIInv ==
    ASSUME Init
    PROVE  IInv
PROOF
<1> DEFINE s == StdinJob(1)
<1>1. /\ config \in Configs /\ phase = "reading" /\ call = 0 /\ tool = "" /\ pc = 0
      /\ late = FALSE /\ expired = FALSE /\ skipped = 0 /\ queue = <<s>>
      /\ running = {} /\ hung = {} /\ done = {} /\ answers = <<>>
  BY DEF Init
<1>2. QueueOK(queue) /\ RangeOf(queue) = {s}
  <2> HIDE DEF s
  <2> QED BY <1>1, Singled
<1>3. Jobs = {s}
  BY <1>1, <1>2, JobsAre
<1>4. Types
  <2>1. IsFiniteSet(Jobs)
    BY <1>3, FS_Singleton
  <2>2. Cardinality(running) = 0
    BY <1>1, FS_EmptySet
  <2>3. Cardinality(running) <= PoolSize
    BY <2>2, PoolSizeAssumption
  <2>4. call \in 0 .. MaxCalls
    <3>1. call = 0 /\ MaxCalls \in Nat
      BY <1>1, MaxCallsAssumption
    <3> QED BY <3>1
  <2> QED BY <1>1, <2>1, <2>3, <2>4 DEF Types
<1>5. Fresh
  <2>1. call + 1 = 1 /\ phase = "reading"
    <3>1. call = 0 /\ phase = "reading"
      BY <1>1
    <3> QED BY <3>1
  <2>2. StdinJob(call + 1) = s
    BY <2>1
  <2> QED BY <1>3, <2>1, <2>2 DEF Fresh, JobOK
<1>6. Distinct
  BY <1>1, <1>2 DEF Distinct
<1>7. AnswersInv
  <2>1. answers = <<>> /\ call = 0 /\ phase # "running"
    BY <1>1
  <2> QED BY <2>1 DEF AnswersInv
<1>8. HungInv /\ DoneInv
  BY <1>1 DEF HungInv, DoneInv
<1>9. GateInv
  <2>1. s.kind = "stdin" /\ phase # "running"
    BY <1>1 DEF StdinJob, Work
  <2> QED BY <1>3, <2>1 DEF GateInv
<1>10. Accounted
  <2>1. call = 0
    BY <1>1
  <2> QED BY <2>1 DEF Accounted
<1> QED
  BY <1>4, <1>5, <1>6, <1>7, <1>8, <1>9, <1>10 DEF IInv, PoolInv

LEMMA NextIInv ==
    ASSUME IInv, [Next]_vars
    PROVE  IInv'
PROOF
<1>1. CASE InlineEnds \/ Resume \/ BudgetElapses \/ SleepEnds \/ TimeoutFires
  BY <1>1, HandlerStep
<1>2. CASE FrameWritten
  BY <1>2, FrameOut
<1>3. CASE Exit
  BY <1>3, Exits
<1>4. CASE Clock
  BY <1>4, ClockTicks
<1>5. CASE PoolStarts
  BY <1>5, Starts
<1>6. CASE JobEnds
  BY <1>6, Ends
<1>7. CASE ReceiveCall
  BY <1>7, Received
<1>8. CASE StdinCloses
  BY <1>8, InputEnds
<1>9. CASE Hang
  BY <1>9, Hangs
<1>10. CASE UNCHANGED vars
  BY <1>10, Stutters
<1> QED
  BY <1>1, <1>2, <1>3, <1>4, <1>5, <1>6, <1>7, <1>8, <1>9, <1>10 DEF Next, Loop

\* The invariant is inductive.
THEOREM RuntimeInvariant == Spec => []IInv
PROOF
<1>1. Init => IInv
  BY InitIInv
<1>2. IInv /\ [Next]_vars => IInv'
  BY NextIInv
<1> QED
  BY <1>1, <1>2, PTL DEF Spec

\* Type correctness, for any tools, plans, pool and number of calls: the pool
\* never holds more jobs than it has threads, and no job twice.
THEOREM RuntimeTypes == Spec => []TypeOK
PROOF
<1>1. ASSUME IInv PROVE TypeOK
  <2> USE <1>1 DEF IInv, PoolInv
  <2>1. \A i \in DOMAIN queue : queue[i] \notin running
    BY DEF Distinct, RangeOf
  <2>2. \A j \in done : j.kind = "tool" /\ j \notin running
    BY DEF DoneInv, Awaited, ToolJob, Work, Jobs
  <2>3. \A i \in DOMAIN answers :
          answers[i].result \in Results /\ answers[i].skipped \in Nat
    <3>1. answers \in Seq([result : Results, skipped : Nat])
      BY DEF AnswersInv
    <3>2. ASSUME NEW i \in DOMAIN answers
          PROVE  answers[i] \in [result : Results, skipped : Nat]
      <4>1. i \in 1 .. Len(answers)
        BY <3>1
      <4> QED BY <3>1, <4>1, ElementOfSeq, Zenon
    <3> QED BY <3>2
  <2>4. hung \subseteq running \cup {InlineWork}
    BY DEF HungInv
  <2> QED BY <2>1, <2>2, <2>3, <2>4 DEF Types, TypeOK
<1> QED
  BY <1>1, RuntimeInvariant, PTL

\* No answer claims success for work that has not ended: every job left in
\* the pool is paid for by a reading its call did without, or by the timeout
\* its call ended with (blocking.rs:31, mod.rs:315).
THEOREM AbandonedIsAccounted == Spec => []AbandonedAccounted
PROOF
<1>1. IInv /\ TypeOK => AbandonedAccounted
  BY DEF IInv, Accounted, AbandonedAccounted
<1> QED
  BY <1>1, RuntimeInvariant, RuntimeTypes, PTL

\* Whatever runs or is left in the pool is a tool the permissions, the
\* disabled list and the profile let through (registry.rs:22, mod.rs:296).
THEOREM WorkIsGated == Spec => []GateBeforeWork
PROOF
<1>1. IInv => GateBeforeWork
  BY DEF IInv, GateInv, Cleared, GateBeforeWork
<1> QED
  BY <1>1, RuntimeInvariant, PTL

\* A result reaches only the handler that awaits it, whatever calls before it
\* left behind (mod.rs:314).
THEOREM ResultsAreFresh == Spec => []NoStaleResult
PROOF
<1>1. IInv => NoStaleResult
  BY DEF IInv, PoolInv, DoneInv, NoStaleResult
<1> QED
  BY <1>1, RuntimeInvariant, PTL

-----------------------------------------------------------------------------
(* WaitCondition: what a wait promises inside the timeout of its tool, for  *)
(* every timeout, interval, length of a check and lateness of a timer.  The *)
(* inductive invariant says what the loop knows between two steps: how far  *)
(* the attempts it has counted have carried it (GridInv), when it may sleep *)
(* and for how long (ClockInv), what the check running now can have seen    *)
(* (SeenInv), and what was true when it returned (OutcomeInv).              *)

\* Each attempt but the first cost a whole interval.
GridInv == (attempts - 1) * cfg.interval <= since

\* A sleep begins before the deadline, and neither a sleep nor a check
\* outlasts its bound.
ClockInv ==
    /\ wstep = "sleeping" =>
         since < cfg.timeout /\ now <= since + cfg.interval + MaxLag
    /\ wstep = "checking" =>
         /\ since < cfg.timeout + cfg.interval + MaxLag
         /\ now <= since + MaxCheck
    /\ wstep = "returned" => now <= Longest

\* A check can have seen the condition fail only after it began.
SeenInv ==
    /\ ready = FALSE => steady = now
    /\ wstep = "checking" /\ FALSE \in seen => steady >= since

OutcomeInv ==
    /\ wstep # "returned" => outcome = NoOutcome
    /\ wstep = "returned" => outcome.at = now

WaitInv ==
    /\ WaitTypeOK
    /\ GridInv
    /\ ClockInv
    /\ SeenInv
    /\ OutcomeInv
    /\ NeverCutShort
    /\ ReadinessNotMissed
    /\ OvershootBounded

-----------------------------------------------------------------------------
(* Arithmetic of the polling grid. *)

\* The attempts the code allows span the whole timeout.
LEMMA GridSpans ==
    ASSUME NEW t \in Nat, NEW i \in Nat, i > 0,
           NEW a \in Nat, a >= t \div i + 2,
           NEW s \in Nat, (a - 1) * i <= s
    PROVE  t <= s
PROOF
<1> DEFINE q == t \div i
<1>1. q \in Nat /\ t < (q + 1) * i
  BY SMT
<1>2. \E d \in Nat : a - 1 = (q + 1) + d
  <2>1. a - 1 - (q + 1) \in Nat
    BY <1>1
  <2>2. a - 1 = (q + 1) + (a - 1 - (q + 1))
    BY <1>1
  <2> QED BY <2>1, <2>2
<1>3. PICK d \in Nat : a - 1 = (q + 1) + d
  BY <1>2
<1>4. (a - 1) * i = (q + 1) * i + d * i
  BY <1>1, <1>3, SMT
<1>5. d * i >= 0
  BY SMT
<1>6. (q + 1) * i \in Nat /\ d * i \in Nat
  BY <1>1, SMT
<1> HIDE DEF q
<1> QED
  BY <1>1, <1>4, <1>5, <1>6

\* One more attempt after one more interval stays on the grid.
LEMMA GridSteps ==
    ASSUME NEW i \in Nat, NEW a \in Nat, NEW s \in Nat, NEW n \in Nat,
           (a - 1) * i <= s, n >= s + i
    PROVE  ((a + 1) - 1) * i <= n
PROOF
<1>1. ((a + 1) - 1) * i = (a - 1) * i + i
  BY SMT
<1>2. (a - 1) * i \in Int
  BY SMT
<1> QED
  BY <1>1, <1>2

LEMMA ClampBounds ==
    ASSUME NEW n \in Nat, NEW low \in Nat, NEW high \in Nat, low <= high
    PROVE  Clamp(n, low, high) \in low .. high
PROOF
  BY DEF Clamp

LEMMA LargerBounds ==
    ASSUME NEW m \in Nat, NEW n \in Nat
    PROVE  /\ Larger(m, n) \in Nat
           /\ Larger(m, n) >= n
PROOF
  BY DEF Larger

\* Whatever callers ask for, the bounds they get lie in the code's ranges.
LEMMA BoundedInRange ==
    ASSUME NEW t \in Nat, NEW i \in Nat, NEW m \in Nat
    PROVE  bounded(t, i, m) \in [timeout : MinTimeout .. Larger(m, MinTimeout),
                                 interval : MinInterval .. MaxInterval]
PROOF
<1>1. Clamp(t, MinTimeout, Larger(m, MinTimeout)) \in MinTimeout .. Larger(m, MinTimeout)
  BY ClampBounds, LargerBounds, BoundsAssumption
<1>2. Clamp(i, MinInterval, MaxInterval) \in MinInterval .. MaxInterval
  BY ClampBounds, BoundsAssumption
<1> QED
  BY <1>1, <1>2 DEF bounded

-----------------------------------------------------------------------------
(* The inductive invariant. *)

\* The facts about the settings every step relies on.
LEMMA Settings ==
    ASSUME WaitTypeOK
    PROVE  /\ max \in Nat
           /\ cfg.timeout \in Nat /\ cfg.timeout > 0
           /\ cfg.interval \in Nat /\ cfg.interval > 0
           /\ MaxLag \in Nat /\ MaxCheck \in Nat /\ ToolTimeout \in Nat
           /\ cfg.timeout <= Larger(max, MinTimeout)
           /\ Longest \in Nat
PROOF
<1>1. max \in Nat
  BY BoundsAssumption DEF WaitTypeOK
<1>2. /\ cfg.timeout \in MinTimeout .. Larger(max, MinTimeout)
      /\ cfg.interval \in MinInterval .. MaxInterval
  BY DEF WaitTypeOK
<1>3. Larger(max, MinTimeout) \in Nat
  BY <1>1, LargerBounds, BoundsAssumption
<1> QED
  BY <1>1, <1>2, <1>3, BoundsAssumption DEF Longest

LEMMA WaitBegins == WaitInit => WaitInv
PROOF
<1> SUFFICES ASSUME WaitInit PROVE WaitInv
  OBVIOUS
<1>1. max \in Nat /\ max \in MaxTimeouts
  BY BoundsAssumption DEF WaitInit
<1>2. PICK t \in Timeouts \cup {DefaultTimeout}, i \in Intervals \cup {DefaultInterval} :
          cfg = bounded(t, i, max)
  BY DEF WaitInit
<1>3. t \in Nat /\ i \in Nat
  BY BoundsAssumption
<1>4. cfg \in [timeout : MinTimeout .. Larger(max, MinTimeout),
               interval : MinInterval .. MaxInterval]
  BY <1>1, <1>2, <1>3, BoundedInRange
<1>5. /\ now = 0 /\ since = 0 /\ steady = 0 /\ attempts = 1
      /\ wstep = "checking" /\ ready \in BOOLEAN /\ seen = {ready}
      /\ awaited \in BOOLEAN /\ outcome = NoOutcome
  BY DEF WaitInit
<1>6. outcome \in [kind : Kinds, at : Nat]
  BY <1>5 DEF NoOutcome, Kinds
<1>7. seen \in SUBSET BOOLEAN
  BY <1>5
<1>8. WaitTypeOK
  BY <1>1, <1>4, <1>5, <1>6, <1>7 DEF WaitTypeOK
<1>9. /\ cfg.timeout \in Nat /\ cfg.timeout > 0
      /\ cfg.interval \in Nat
      /\ Longest \in Nat
      /\ MaxLag \in Nat /\ MaxCheck \in Nat
  BY <1>8, Settings
<1>10. GridInv
  BY <1>5, <1>9 DEF GridInv
<1>11. ClockInv
  BY <1>5, <1>9 DEF ClockInv
<1>12. SeenInv
  BY <1>5 DEF SeenInv
<1>13. OutcomeInv /\ NeverCutShort /\ ReadinessNotMissed /\ OvershootBounded
  BY <1>5, <1>9 DEF OutcomeInv, NeverCutShort, ReadinessNotMissed,
                    OvershootBounded, NoOutcome
<1> QED
  BY <1>8, <1>10, <1>11, <1>12, <1>13 DEF WaitInv

\* What every way of returning preserves: only the reason is left to show.
LEMMA ReturnInv ==
    ASSUME WaitInv, NEW kind \in {"completed", "gave_up", "Timeout"},
           Return(kind), wstep \in {"checking", "sleeping"},
           kind = "gave_up" => now >= cfg.timeout /\ steady >= cfg.timeout - MaxCheck,
           kind = "Timeout" => now >= ToolTimeout
    PROVE  WaitInv'
PROOF
<1> USE DEF WaitInv
<1>1. /\ wstep' = "returned"
      /\ outcome' = [kind |-> kind, at |-> now]
      /\ UNCHANGED <<max, cfg, awaited, now, since, attempts, ready, steady, seen>>
  BY DEF Return, settings, condition
<1>2. outcome' \in [kind : Kinds, at : Nat] /\ outcome'.kind = kind /\ outcome'.at = now
  BY <1>1 DEF WaitTypeOK, Kinds
<1>3. WaitTypeOK'
  BY <1>1, <1>2 DEF WaitTypeOK
<1>4. GridInv'
  BY <1>1 DEF GridInv
<1>5. now <= Longest
  BY DEF OvershootBounded
<1>6. Longest' = Longest
  BY <1>1 DEF Longest
<1>7. ClockInv'
  BY <1>1, <1>5, <1>6 DEF ClockInv
<1>8. SeenInv'
  BY <1>1 DEF SeenInv
<1>9. OutcomeInv'
  BY <1>1, <1>2 DEF OutcomeInv
<1>10. NeverCutShort' /\ ReadinessNotMissed'
  BY <1>1, <1>2 DEF NeverCutShort, ReadinessNotMissed
<1>11. OvershootBounded'
  <2>1. now \in Nat /\ ToolTimeout \in Nat /\ Longest \in Nat
    BY Settings DEF WaitTypeOK
  <2> QED BY <1>1, <1>2, <1>5, <1>6, <2>1 DEF OvershootBounded
<1> QED
  BY <1>3, <1>4, <1>7, <1>8, <1>9, <1>10, <1>11

LEMMA GiveUpInv == ASSUME WaitInv, GiveUp PROVE WaitInv'
PROOF
<1>1. /\ wstep = "checking" /\ FALSE \in seen
      /\ attempts >= MaxAttempts(cfg) \/ now >= cfg.timeout
      /\ Return("gave_up")
  BY DEF GiveUp
<1>2. /\ cfg.timeout \in Nat /\ cfg.interval \in Nat /\ cfg.interval > 0
      /\ MaxCheck \in Nat
  BY Settings DEF WaitInv
<1>3. now \in Nat /\ since \in Nat /\ attempts \in Nat /\ steady \in Nat /\ since <= now
  BY DEF WaitInv, WaitTypeOK
<1>4. now >= cfg.timeout
  <2>1. CASE now >= cfg.timeout
    BY <2>1
  <2>2. CASE attempts >= MaxAttempts(cfg)
    <3>1. attempts >= cfg.timeout \div cfg.interval + 2
      BY <2>2 DEF MaxAttempts
    <3>2. (attempts - 1) * cfg.interval <= since
      BY DEF WaitInv, GridInv
    <3>3. cfg.timeout <= since
      BY <1>2, <1>3, <3>1, <3>2, GridSpans
    <3> QED BY <1>2, <1>3, <3>3
  <2> QED BY <1>1, <2>1, <2>2
<1>5. steady >= since /\ now <= since + MaxCheck
  BY <1>1 DEF WaitInv, SeenInv, ClockInv
<1>6. steady >= cfg.timeout - MaxCheck
  BY <1>2, <1>3, <1>4, <1>5
<1> QED
  BY <1>1, <1>4, <1>6, ReturnInv

LEMMA SleepInv == ASSUME WaitInv, Sleep PROVE WaitInv'
PROOF
<1> USE DEF WaitInv
<1>1. /\ wstep = "checking" /\ FALSE \in seen /\ now < cfg.timeout
      /\ wstep' = "sleeping" /\ since' = now
      /\ UNCHANGED <<max, cfg, awaited, now, attempts, ready, steady, seen, outcome>>
  BY DEF Sleep, settings, condition
<1>2. /\ cfg.timeout \in Nat /\ cfg.interval \in Nat /\ MaxLag \in Nat
      /\ now \in Nat /\ since \in Nat /\ since <= now
  BY Settings DEF WaitTypeOK
<1>3. WaitTypeOK'
  BY <1>1, <1>2 DEF WaitTypeOK
<1>4. GridInv'
  <2>1. (attempts - 1) * cfg.interval <= since
    BY DEF GridInv
  <2>2. (attempts - 1) * cfg.interval \in Int
    BY <1>2 DEF WaitTypeOK
  <2> QED BY <1>1, <1>2, <2>1, <2>2 DEF GridInv
<1>5. ClockInv'
  BY <1>1, <1>2 DEF ClockInv
<1>6. SeenInv' /\ OutcomeInv' /\ NeverCutShort' /\ ReadinessNotMissed'
  BY <1>1 DEF SeenInv, OutcomeInv, NeverCutShort, ReadinessNotMissed
<1>7. OvershootBounded'
  BY <1>1 DEF OvershootBounded, Longest
<1> QED
  BY <1>3, <1>4, <1>5, <1>6, <1>7

LEMMA CheckAgainInv == ASSUME WaitInv, CheckAgain PROVE WaitInv'
PROOF
<1> USE DEF WaitInv
<1>1. /\ wstep = "sleeping" /\ now >= since + cfg.interval
      /\ wstep' = "checking" /\ since' = now /\ attempts' = attempts + 1
      /\ seen' = {ready}
      /\ UNCHANGED <<max, cfg, awaited, now, ready, steady, outcome>>
  BY DEF CheckAgain, settings, condition
<1>2. /\ cfg.timeout \in Nat /\ cfg.interval \in Nat /\ MaxLag \in Nat /\ MaxCheck \in Nat
      /\ now \in Nat /\ since \in Nat /\ since <= now /\ attempts \in Nat
  BY Settings DEF WaitTypeOK
<1>3. WaitTypeOK'
  BY <1>1, <1>2 DEF WaitTypeOK
<1>4. GridInv'
  <2>1. (attempts - 1) * cfg.interval <= since
    BY DEF GridInv
  <2>2. ((attempts + 1) - 1) * cfg.interval <= now
    BY <1>1, <1>2, <2>1, GridSteps
  <2> QED BY <1>1, <2>2 DEF GridInv
<1>5. since < cfg.timeout /\ now <= since + cfg.interval + MaxLag
  BY <1>1 DEF ClockInv
<1>6. ClockInv'
  BY <1>1, <1>2, <1>5 DEF ClockInv
<1>7. SeenInv'
  <2>1. ready = FALSE => steady = now
    BY DEF SeenInv
  <2>2. FALSE \in seen' => ready = FALSE
    BY <1>1, Zenon
  <2>3. FALSE \in seen' => steady' >= since'
    BY <1>1, <1>2, <2>1, <2>2
  <2>4. ready' = FALSE => steady' = now'
    BY <1>1, <2>1
  <2> QED BY <2>3, <2>4 DEF SeenInv
<1>8. OutcomeInv' /\ NeverCutShort' /\ ReadinessNotMissed'
  BY <1>1 DEF OutcomeInv, NeverCutShort, ReadinessNotMissed
<1>9. OvershootBounded'
  BY <1>1 DEF OvershootBounded, Longest
<1> QED
  BY <1>3, <1>4, <1>6, <1>7, <1>8, <1>9

LEMMA FlipInv == ASSUME WaitInv, Flip PROVE WaitInv'
PROOF
<1> USE DEF WaitInv
<1>1. /\ wstep # "returned" /\ ready' = ~ready /\ steady' = now
      /\ UNCHANGED <<max, cfg, awaited, now, wstep, since, attempts, outcome>>
      /\ seen' = IF wstep = "checking" THEN seen \cup {~ready} ELSE seen
  BY DEF Flip, settings
<1>2. now \in Nat /\ since \in Nat /\ since <= now
  BY DEF WaitTypeOK
<1>3. ready \in BOOLEAN /\ seen \in SUBSET BOOLEAN
  BY DEF WaitTypeOK
<1>4. seen' \in SUBSET BOOLEAN /\ ready' \in BOOLEAN
  BY <1>1, <1>3, Zenon
<1>5. steady' \in 0 .. now
  BY <1>1, <1>2
<1>6. WaitTypeOK'
  BY <1>1, <1>4, <1>5 DEF WaitTypeOK
<1>7. GridInv'
  BY <1>1 DEF GridInv
<1>8. ClockInv'
  BY <1>1 DEF ClockInv, Longest
<1>9. SeenInv'
  BY <1>1, <1>2 DEF SeenInv
<1>10. OutcomeInv' /\ OvershootBounded'
  BY <1>1 DEF OutcomeInv, OvershootBounded, Longest
<1>11. outcome' = NoOutcome
  BY <1>1 DEF OutcomeInv
<1>12. NeverCutShort' /\ ReadinessNotMissed'
  BY <1>11 DEF NeverCutShort, ReadinessNotMissed, NoOutcome
<1> QED
  BY <1>6, <1>7, <1>8, <1>9, <1>10, <1>12

LEMMA TickInv == ASSUME WaitInv, Tick PROVE WaitInv'
PROOF
<1> USE DEF WaitInv
<1>1. /\ \/ wstep = "checking" /\ now < since + MaxCheck
         \/ wstep = "sleeping" /\ now < since + cfg.interval + MaxLag
      /\ now' = now + 1
      /\ steady' = IF ready THEN steady ELSE now'
      /\ UNCHANGED <<max, cfg, awaited, wstep, since, attempts, ready, seen, outcome>>
  BY DEF Tick, settings
<1>2. /\ cfg.timeout \in Nat /\ cfg.interval \in Nat /\ MaxLag \in Nat /\ MaxCheck \in Nat
      /\ now \in Nat /\ since \in Nat /\ since <= now /\ steady \in Nat /\ steady <= now
  BY Settings DEF WaitTypeOK
<1>3. steady' \in 0 .. now' /\ steady <= steady' /\ now' \in Nat /\ since \in 0 .. now'
  BY <1>1, <1>2
<1>4. WaitTypeOK'
  BY <1>1, <1>3 DEF WaitTypeOK
<1>5. GridInv'
  BY <1>1 DEF GridInv
<1>6. ClockInv'
  BY <1>1, <1>2 DEF ClockInv
<1>7. SeenInv'
  <2>1. ready' = FALSE => steady' = now'
    <3>1. ready' = ready
      BY <1>1
    <3>2. ready = FALSE => (IF ready THEN steady ELSE now') = now'
      OBVIOUS
    <3> QED BY <1>1, <3>1, <3>2
  <2>2. wstep' = "checking" /\ FALSE \in seen' => steady' >= since'
    <3>1. wstep = "checking" /\ FALSE \in seen => steady >= since
      BY DEF SeenInv
    <3> QED BY <1>1, <1>2, <1>3, <3>1
  <2> QED BY <2>1, <2>2 DEF SeenInv
<1>8. outcome' = NoOutcome
  BY <1>1 DEF OutcomeInv
<1>9. OutcomeInv' /\ NeverCutShort' /\ ReadinessNotMissed'
  BY <1>1, <1>8 DEF OutcomeInv, NeverCutShort, ReadinessNotMissed, NoOutcome
<1>10. now' <= Longest'
  <2>1. CASE wstep = "checking"
    <3>1. since < cfg.timeout + cfg.interval + MaxLag /\ now < since + MaxCheck
      BY <1>1, <2>1 DEF ClockInv
    <3> QED BY <1>1, <1>2, <3>1 DEF Longest
  <2>2. CASE wstep = "sleeping"
    <3>1. since < cfg.timeout /\ now < since + cfg.interval + MaxLag
      BY <1>1, <2>2 DEF ClockInv
    <3> QED BY <1>1, <1>2, <3>1 DEF Longest
  <2> QED BY <1>1, <2>1, <2>2
<1>11. OvershootBounded'
  BY <1>8, <1>10 DEF OvershootBounded, NoOutcome
<1> QED
  BY <1>4, <1>5, <1>6, <1>7, <1>9, <1>11

\* Every behaviour of a wait satisfies the inductive invariant.
THEOREM WaitInvariance == WaitSpec => []WaitInv
PROOF
<1>1. WaitInit => WaitInv
  BY WaitBegins
<1>2. WaitInv /\ [WaitNext]_waitVars => WaitInv'
  <2> SUFFICES ASSUME WaitInv, [WaitNext]_waitVars PROVE WaitInv'
    OBVIOUS
  <2>1. CASE CheckSucceeds
    <3>1. wstep = "checking" /\ Return("completed")
      BY <2>1 DEF CheckSucceeds
    <3> QED BY <3>1, ReturnInv
  <2>2. CASE GiveUp
    BY <2>2, GiveUpInv
  <2>3. CASE Sleep
    BY <2>3, SleepInv
  <2>4. CASE CheckAgain
    BY <2>4, CheckAgainInv
  <2>5. CASE ToolTimesOut
    <3>1. /\ wstep \in {"checking", "sleeping"} /\ now >= ToolTimeout
          /\ Return("Timeout")
      BY <2>5 DEF ToolTimesOut
    <3> QED BY <3>1, ReturnInv
  <2>6. CASE Flip
    BY <2>6, FlipInv
  <2>7. CASE Tick
    BY <2>7, TickInv
  <2>8. CASE UNCHANGED waitVars
    BY <2>8 DEF waitVars, WaitInv, WaitTypeOK, GridInv, ClockInv, SeenInv, OutcomeInv,
                NeverCutShort, ReadinessNotMissed, OvershootBounded, Longest
  <2> QED
    BY <2>1, <2>2, <2>3, <2>4, <2>5, <2>6, <2>7, <2>8 DEF WaitNext, Wait
<1> QED
  BY <1>1, <1>2, PTL DEF WaitSpec

\* The variables keep their types; the bounds a wait runs under stay in the
\* ranges the code clamps them to (wait.rs:23-30).
THEOREM WaitTypeCorrect == WaitSpec => []WaitTypeOK
PROOF
<1>1. WaitInv => WaitTypeOK
  BY DEF WaitInv
<1> QED
  BY <1>1, WaitInvariance, PTL

\* The cap on attempts never ends a wait before its deadline (wait.rs:58, 75),
\* for any timeout and interval, dividing each other or not.
THEOREM CapHarmless == WaitSpec => []NeverCutShort
PROOF
<1>1. WaitInv => NeverCutShort
  BY DEF WaitInv
<1> QED
  BY <1>1, WaitInvariance, PTL

\* Readiness that came one check's length before the deadline and lasted is
\* always reported (wait.rs:62-84).
THEOREM ReadinessSeen == WaitSpec => []ReadinessNotMissed
PROOF
<1>1. WaitInv => ReadinessNotMissed
  BY DEF WaitInv
<1> QED
  BY <1>1, WaitInvariance, PTL

\* A wait lasts at most its timeout, one interval, one late timer and one
\* check; it meets the tool's own timeout only if those reach it.
THEOREM OvershootLimited == WaitSpec => []OvershootBounded
PROOF
<1>1. WaitInv => OvershootBounded
  BY DEF WaitInv
<1> QED
  BY <1>1, WaitInvariance, PTL

=============================================================================
