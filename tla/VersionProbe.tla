---------------------------- MODULE VersionProbe ----------------------------
(***************************************************************************)
(* dev_environment: a development tool is looked up on PATH and asked for  *)
(* its version by running it.  The child may write to both of its pipes,   *)
(* exit, hang, or leave a process behind that keeps the pipes open; two    *)
(* threads drain them while the probe polls the child and then waits for   *)
(* each thread in turn.                                                    *)
(*                                                                         *)
(* Output is in chunks of one read.  Time is in ticks; the server's own    *)
(* threads get to run within a tick, the child whenever it likes.          *)
(***************************************************************************)
EXTENDS Naturals, Sequences, FiniteSets, Functions, SequencesExt

CONSTANTS
    SearchPaths,    \* PATHs: sequences of directories, which are sets of files
    ToolNames,      \* the names that are looked up
    PathExt,        \* the extensions of PATHEXT
    ProbeTimeout,   \* VERSION_PROBE_TIMEOUT
    ProbeGrace,     \* what the waits for the pipes add to it
    OutputCap,      \* VERSION_OUTPUT_CAP
    PipeSize,       \* the chunks a pipe holds
    MaxWrites       \* bound: chunks written to each pipe

ASSUME ProbeTimes == {ProbeTimeout, ProbeGrace} \subseteq Nat
ASSUME ProbeSizes == {OutputCap, PipeSize, MaxWrites} \subseteq Nat \ {0}

\* A file name is a stem and what follows its dot, Bare when there is none, and stands
\* for its spellings in either case.  An extension of PATHEXT has its dot and a rest.
Bare == "bare"
FileName == [stem : STRING, ext : STRING]

\* The extensions that are tried whatever PATHEXT says.
Fallbacks == <<"exe", "cmd", "bat">>

ASSUME ProbeNames ==
    /\ ToolNames \subseteq FileName
    /\ PathExt \in Seq(STRING \ {Bare})
    /\ SearchPaths \subseteq Seq(SUBSET FileName)

Pipes == {"stdout", "stderr"}

\* A chunk is blank or has a line of text, in which case it is named after its pipe.
Chunks(p) == {"blank", p}

NotOnPath == [dir |-> 0, file |-> [stem |-> "none", ext |-> Bare]]

-----------------------------------------------------------------------------

\* candidate_names: the extensions to try, none at first, unless the name has one.  The
\* code leaves out a name it has already: a second look for a file finds nothing new.
CandidateNames(tool) ==
    IF tool.ext # Bare THEN <<tool.ext>> ELSE <<Bare>> \o (PathExt \o Fallbacks)

\* Mutant: the candidates are gone through in the outer loop, the directories in the inner.
FindByCandidate(tool, path) ==
    LET exts == CandidateNames(tool)
        candidate(k) == [stem |-> tool.stem, ext |-> exts[k]]
        proper == {k \in DOMAIN exts : exts[k] # Bare /\ \E i \in DOMAIN path :
                                                          candidate(k) \in path[i]}
        bare == {k \in DOMAIN exts : \E i \in DOMAIN path : candidate(k) \in path[i]}
        chosen == Min(IF proper # {} THEN proper ELSE bare)
    IN  IF bare = {} THEN NotOnPath
        ELSE [dir |-> Min({i \in DOMAIN path : candidate(chosen) \in path[i]}),
              file |-> candidate(chosen)]

\* find_in_path_for: the first directory with a candidate; there, the first with
\* an extension, or else the bare name.
FindInPath(tool, path) ==
    LET exts == CandidateNames(tool)
        candidate(k) == [stem |-> tool.stem, ext |-> exts[k]]
        has(i) == {k \in DOMAIN exts : candidate(k) \in path[i]}
        dirs == {i \in DOMAIN path : has(i) # {}}
        proper == {k \in has(Min(dirs)) : exts[k] # Bare}
    IN  IF dirs = {} THEN NotOnPath
        ELSE [dir |-> Min(dirs),
              file |-> candidate(Min(IF proper # {} THEN proper ELSE has(Min(dirs))))]

-----------------------------------------------------------------------------

VARIABLES
    vstep,     \* where the probe is
    child,     \* "none", "running", "killed" or its exit code
    keeps,     \* the pipes a process the child left behind holds open
    pipes,     \* the chunks in each pipe
    held,      \* what the thread of each pipe has read
    sent,      \* the pipes whose thread is done
    taken,     \* what the probe got from the threads
    expired,   \* timed_out
    wait,      \* the time left of the present wait
    elapsed,   \* history: the time since the child was started
    written,   \* history: what was written to each pipe
    dev        \* the DevTool that is answered

versionVars == <<vstep, child, keeps, pipes, held, sent, taken, expired,
                 wait, elapsed, written, dev>>

childVars == <<child, keeps, pipes, written>>

NothingWritten == [p \in Pipes |-> <<>>]
NoTool == [found |-> FALSE, version |-> "none", reason |-> "none"]

VersionIdle ==
    /\ vstep = "idle" /\ child = "none" /\ dev = NoTool
    /\ keeps = {} /\ sent = {} /\ expired = FALSE /\ wait = 0 /\ elapsed = 0
    /\ pipes = NothingWritten /\ held = NothingWritten
    /\ taken = NothingWritten /\ written = NothingWritten

\* probe_tools, for one tool: it is looked up, and run if it is there.
FindTool ==
    /\ vstep = "idle"
    /\ \E tool \in ToolNames, path \in SearchPaths :
         IF FindInPath(tool, path) = NotOnPath
         THEN vstep' = "answered" /\ UNCHANGED dev
         ELSE vstep' = "spawn" /\ dev' = [dev EXCEPT !.found = TRUE]
    /\ UNCHANGED <<childVars, held, sent, taken, expired, wait, elapsed>>

SpawnChild ==
    /\ vstep = "spawn"
    /\ \/ /\ vstep' = "poll"
          /\ child' = "running"
          /\ wait' = ProbeTimeout
          /\ UNCHANGED dev
       \/ /\ vstep' = "answered"
          /\ dev' = [dev EXCEPT !.reason = "could not start"]
          /\ UNCHANGED <<child, wait>>
    /\ UNCHANGED <<keeps, pipes, held, sent, taken, expired, elapsed,
                   written>>

-----------------------------------------------------------------------------
(* The child, and what it leaves behind *)

Writers(p) == child = "running" \/ p \in keeps

WriteChunk ==
    \E p \in Pipes :
      /\ Writers(p)
      /\ vstep # "answered"
      /\ p \notin sent
      /\ Len(pipes[p]) < PipeSize
      /\ Len(written[p]) < MaxWrites
      /\ \E c \in Chunks(p) :
           /\ pipes' = [pipes EXCEPT ![p] = Append(@, c)]
           /\ written' = [written EXCEPT ![p] = Append(@, c)]
      /\ UNCHANGED <<vstep, child, keeps, held, sent, taken, expired,
                     wait, elapsed, dev>>

\* The child exits, with a code or without, and may leave its pipes to another.
ChildExits ==
    /\ child = "running"
    /\ child' \in {"0", "1", "terminated"}
    /\ keeps' \in SUBSET Pipes
    /\ UNCHANGED <<vstep, pipes, held, sent, taken, expired, wait,
                   elapsed, written, dev>>

KeeperExits ==
    /\ keeps # {}
    /\ vstep # "answered"
    /\ keeps' = {}
    /\ UNCHANGED <<vstep, child, pipes, held, sent, taken, expired,
                   wait, elapsed, written, dev>>

-----------------------------------------------------------------------------
(* read_capped, in a thread for each pipe *)

CanRead(p) ==
    /\ vstep \in {"poll", "stuck", "stdout", "stderr"}
    /\ p \notin sent
    /\ pipes[p] # <<>> \/ ~Writers(p)

\* The read after the one that filled the buffer ends the thread, and so does the
\* end of the output.
DrainPipe(p) ==
    /\ CanRead(p)
    /\ IF pipes[p] = <<>> \/ Len(held[p]) = OutputCap
       THEN /\ sent' = sent \cup {p}
            /\ UNCHANGED <<pipes, held>>
       ELSE /\ held' = [held EXCEPT ![p] = Append(@, Head(pipes[p]))]
            /\ pipes' = [pipes EXCEPT ![p] = Tail(@)]
            /\ UNCHANGED sent
    /\ UNCHANGED <<vstep, child, keeps, taken, expired, wait, elapsed,
                   written, dev>>

-----------------------------------------------------------------------------
(* run_probe: the polls, and the waits for the threads *)

WaitBudget == ProbeTimeout + ProbeGrace

CanEndPoll == vstep = "poll" /\ (child # "running" \/ wait = 0)

\* A child that is still there at the end is killed.  A kill that fails is not looked at,
\* and the child is waited for without a limit.
EndPoll ==
    /\ CanEndPoll
    /\ \/ /\ child # "running"
          /\ vstep' = "stdout"
          /\ wait' = WaitBudget
          /\ UNCHANGED <<child, keeps, expired>>
       \/ /\ child = "running"
          /\ vstep' = "stdout"
          /\ wait' = WaitBudget
          /\ child' = "killed"
          /\ keeps' \in SUBSET Pipes
          /\ expired' = TRUE
       \/ /\ child = "running"
          /\ vstep' = "stuck"
          /\ expired' = TRUE
          /\ UNCHANGED <<child, keeps, wait>>
    /\ UNCHANGED <<pipes, held, sent, taken, elapsed, written, dev>>

\* try_wait fails: the child is waited for without a limit.
PollFails ==
    /\ vstep = "poll"
    /\ vstep' = "stuck"
    /\ UNCHANGED <<childVars, held, sent, taken, expired, wait, elapsed,
                   dev>>

CanUnstick == vstep = "stuck" /\ child # "running"

Unstick ==
    /\ CanUnstick
    /\ child' = "terminated"
    /\ vstep' = "stdout"
    /\ wait' = WaitBudget
    /\ UNCHANGED <<keeps, pipes, held, sent, taken, expired, elapsed,
                   written, dev>>

\* Mutant: a thread is joined, and not waited for with a limit.
CanReceiveUntimed(p) == vstep = p /\ p \in sent

CanReceive(p) == vstep = p /\ (p \in sent \/ wait = 0)

Receive(p) ==
    /\ CanReceive(p)
    /\ taken' = [taken EXCEPT ![p] = IF p \in sent THEN held[p] ELSE <<>>]
    /\ vstep' = IF p = "stdout" THEN "stderr" ELSE "judge"
    /\ wait' = IF p = "stdout" THEN WaitBudget ELSE wait
    /\ UNCHANGED <<childVars, held, sent, expired, elapsed, dev>>

FirstLine(chunks) ==
    LET text == SelectSeq(chunks, LAMBDA c : c # "blank")
    IN  IF text = <<>> THEN "none" ELSE text[1]

Version ==
    IF FirstLine(taken["stdout"]) # "none" THEN FirstLine(taken["stdout"])
    ELSE FirstLine(taken["stderr"])

CanJudge == vstep = "judge"

Judge ==
    /\ CanJudge
    /\ dev' = [dev EXCEPT
                 !.version = IF ~expired /\ child = "0" THEN Version ELSE "none",
                 !.reason = IF expired THEN "timeout"
                            ELSE IF child = "0"
                            THEN IF Version = "none" THEN "no output" ELSE "none"
                            ELSE IF child = "1" THEN "exited" ELSE "terminated"]
    /\ vstep' = "answered"
    /\ UNCHANGED <<childVars, held, sent, taken, expired, wait, elapsed>>

VersionReplied ==
    /\ vstep = "answered"
    /\ vstep' = "idle" /\ child' = "none" /\ dev' = NoTool
    /\ keeps' = {} /\ sent' = {} /\ expired' = FALSE /\ wait' = 0 /\ elapsed' = 0
    /\ pipes' = NothingWritten /\ held' = NothingWritten
    /\ taken' = NothingWritten /\ written' = NothingWritten

\* Bound: one tick more than the waits may take together.
MostElapsed == ProbeTimeout + 2 * WaitBudget

VersionTick ==
    /\ vstep \in {"poll", "stdout", "stderr"}
    /\ ~CanEndPoll
    /\ \A p \in Pipes : ~CanRead(p) /\ ~CanReceive(p)
    /\ elapsed <= MostElapsed
    /\ elapsed' = elapsed + 1
    /\ wait' = IF wait > 0 THEN wait - 1 ELSE 0
    /\ UNCHANGED <<vstep, childVars, held, sent, taken, expired, dev>>

\* What the server's threads and the clock do by themselves.
VersionProgress ==
    \/ SpawnChild \/ EndPoll \/ Unstick \/ Judge \/ VersionTick
    \/ \E p \in Pipes : DrainPipe(p) \/ Receive(p)

VersionNext ==
    FindTool \/ VersionProgress \/ PollFails \/ WriteChunk \/ ChildExits
        \/ KeeperExits \/ VersionReplied

-----------------------------------------------------------------------------

VersionTypeOK ==
    /\ vstep \in {"idle", "spawn", "poll", "stuck", "stdout", "stderr", "judge",
                  "answered"}
    /\ child \in {"none", "running", "killed", "0", "1", "terminated"}
    /\ keeps \subseteq Pipes /\ sent \subseteq Pipes
    /\ \A f \in {pipes, held, taken, written} :
         \A p \in Pipes : f[p] \in Seq(Chunks(p))
    /\ expired \in BOOLEAN
    /\ wait \in 0..WaitBudget
    /\ elapsed \in Nat
    /\ dev.found \in BOOLEAN

\* A file that a search for the tool may end at: the tool's own name, and for a name
\* without an extension every file of it that has one to try.
GoesBy(file, tool) ==
    /\ file.stem = tool.stem
    /\ \/ file.ext = tool.ext
       \/ tool.ext = Bare /\ file.ext \in Range(PathExt) \cup Range(Fallbacks)

Sooner(x, y, exts) == \E k \in DOMAIN exts : exts[k] = x /\ \A j \in 1..k : exts[j] # y

\* Of two files beside each other the one with an extension, then the one whose extension
\* PATHEXT names first, then the fallbacks in their order.
GoesBefore(x, y) ==
    x # Bare /\ \/ y = Bare
                \/ Sooner(x, y, PathExt)
                \/ Sooner(x, y, Fallbacks) /\ y \notin Range(PathExt)

\* A tool is said to be missing only if no directory of PATH has a file of its name.  What
\* is run is in the first directory that has one, and no file beside it is preferred to it
\* (find_in_path_for, with the extensions of candidate_names): the bare name comes last,
\* though docs/tools.md:423-424 has it first.
ShimFound ==
    \A tool \in ToolNames, path \in SearchPaths :
      LET found == FindInPath(tool, path)
          there(i) == {f \in path[i] : GoesBy(f, tool)}
      IN  IF found = NotOnPath
          THEN \A i \in DOMAIN path : there(i) = {}
          ELSE /\ found.dir \in DOMAIN path /\ found.file \in there(found.dir)
               /\ \A i \in 1..(found.dir - 1) : there(i) = {}
               /\ \A f \in there(found.dir) \ {found.file} :
                    GoesBefore(found.file.ext, f.ext)

\* The waits of a probe together never exceed the timeout and two more with the
\* grace, and a probe that answered has left no child of its own running.
AnswersInTime ==
    /\ elapsed <= MostElapsed
    /\ vstep = "answered" => child # "running"

\* A version is told only of a child that ended by itself with success.  Of such
\* a child the first line of its output within the cap is told, that of stderr
\* only if stdout has none, unless a wait for a pipe ran out.
VersionHonest ==
    vstep = "answered" /\ child # "none" =>
      LET shown(p) == FirstLine(SubSeq(written[p], 1,
                         IF Len(written[p]) < OutputCap THEN Len(written[p])
                         ELSE OutputCap))
      IN  /\ dev.version # "none" => child = "0"
          /\ child = "0" /\ elapsed < WaitBudget =>
               dev.version = IF shown("stdout") # "none" THEN shown("stdout")
                             ELSE shown("stderr")

\* A version probe tells the truth in time: the file it runs is the first that the search
\* of PATH can end at, by the order of the directories and, within one, of the extensions
\* (`find_in_path_for`); the polls of the child and the waits for the two reader threads
\* stay within their limits together, and no child is left running; and a version is the
\* first line of what a child that succeeded wrote, whichever of the child, the process
\* that keeps its pipes and the reader threads is the slowest (`run_probe`,
\* platform/windows/dev.rs).
VersionSound == VersionTypeOK /\ ShimFound /\ AnswersInTime /\ VersionHonest

\* A probe ends, however the child behaves and whoever holds its pipes, unless the
\* child's state cannot be polled or the child cannot be killed, and does not end.
ProbeEnds ==
    vstep = "spawn" ~>
      \/ vstep = "answered"
      \/ vstep = "stuck" /\ child = "running"

=============================================================================
