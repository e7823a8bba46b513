--------------------------- MODULE ToolArguments ----------------------------
(***************************************************************************)
(* The arguments of a call: they are checked against the tool's schema,    *)
(* then each is read by a helper that knows neither the schema nor what    *)
(* was checked, and what was read bounds the listing that is answered.     *)
(*                                                                         *)
(* The schema's minimum and maximum are not checked before the helpers     *)
(* run.  A JSON integer may be negative or longer than the words of the    *)
(* helpers, whose width is scaled down with the numbers.                   *)
(***************************************************************************)
EXTENDS Integers, FiniteSets

CONSTANTS
    Word,           \* 2^32
    MaxPortNumber,  \* 65535
    LoadedLimits,   \* the limits of the configurations that may be loaded
    MostDepth,      \* the schema's maximum of max_depth
    TreeNodes,      \* MAX_TREE_NODES
    MostMinutes,    \* the longest look-back
    MaxSoftware,    \* MAX_SOFTWARE
    DefaultResults, \* DEFAULT_EVENT_RESULTS
    LeastChars, DefaultChars, MostChars,  \* the bounds of a message cap
    Numbers,        \* the integers that are passed
    MostAvailable   \* bound: what there is to list

ASSUME WidthAssumption ==
    /\ {Word, MaxPortNumber, LeastChars, MostChars} \subseteq Int
    /\ 0 < MaxPortNumber /\ MaxPortNumber < Word
    /\ {MostDepth, TreeNodes, MostMinutes, MaxSoftware, DefaultResults} \subseteq 1..Word
    /\ 0 < LeastChars /\ DefaultChars \in LeastChars..MostChars
    /\ Numbers \subseteq Int

\* The loader takes what the file says, a limit of zero included.
ASSUME LimitsAssumption == LoadedLimits \subseteq [results : Nat, depth : Nat]

Unbounded == -1     \* a schema without a maximum
Nothing == -1       \* a value that was not passed, or could not be read

Argument(type, reader, required, low, high) ==
    [type |-> type, reader |-> reader, required |-> required,
     low |-> low, high |-> high]

Limited == Argument("integer", "limit", FALSE, 1, Unbounded)
Flag == Argument("boolean", "flag", FALSE, 0, Unbounded)
Chosen == Argument("string", "choice", FALSE, 0, Unbounded)
Named == Argument("string", "name", TRUE, 0, Unbounded)
Filter == Argument("string", "filter", FALSE, 0, Unbounded)

-----------------------------------------------------------------------------
(* The schemas of the tools that list or look something up.  A choice is one  *)
(* of an enum.                                                                *)

ListProcesses ==
    [limit |-> Limited, sort_by |-> Chosen,
     top |-> Argument("integer", "top", FALSE, 1, Unbounded)]

Pid == Argument("integer", "pid", TRUE, 1, Unbounded)

GetProcess == [pid |-> Pid]

GetProcessTree ==
    [pid |-> Pid,
     max_depth |-> Argument("integer", "depth", FALSE, 1, MostDepth),
     max_nodes |-> Argument("integer", "nodes", FALSE, 1, Unbounded)]

FindProcess == [name |-> Named, limit |-> Limited]

ListListeningPorts == [limit |-> Limited]

FindProcessOnPort ==
    [port |-> Argument("integer", "port", TRUE, 1, MaxPortNumber)]

ListServices == [limit |-> Limited]

GetService == [name |-> Named]

ListWindows == [limit |-> Limited, include_hidden |-> Flag]

RegistryDiagnostics ==
    [include_software |-> Flag,
     max_software |-> Argument("integer", "software", FALSE, 1, Unbounded)]

ListDrives == [none \in {} |-> Flag]

DiskUsage == [path |-> Named]

Minutes == Argument("integer", "minutes", FALSE, 1, Unbounded)

GetRecentEvents ==
    [level |-> Chosen, provider |-> Filter,
     event_id |-> Argument("integer", "id", FALSE, 0, Unbounded),
     since_minutes |-> Minutes,
     max_results |-> Argument("integer", "results", FALSE, 1, Unbounded),
     max_message_chars |->
       Argument("integer", "chars", FALSE, LeastChars, MostChars)]

CrashHistory ==
    [since_minutes |-> Argument("integer", "minutes", FALSE, 1, MostMinutes),
     max_results |-> Limited]

Schemas ==
    {ListProcesses, GetProcess, GetProcessTree, FindProcess, ListListeningPorts,
     FindProcessOnPort, ListServices, GetService, ListWindows,
     RegistryDiagnostics, ListDrives, DiskUsage, GetRecentEvents, CrashHistory}

\* The tools that answer with list_envelope.
Listings == {FindProcess, ListListeningPorts, ListServices, ListWindows, ListDrives}

-----------------------------------------------------------------------------
(* JSON values, and the helpers that read them *)

Null == [type |-> "null", value |-> Nothing]
NotPassed == [type |-> "absent", value |-> Nothing]

\* Strings that matter: a blank one, one an enum has, and another.
Values ==
    {Null, NotPassed, [type |-> "number", value |-> Nothing],
     [type |-> "boolean", value |-> 1], [type |-> "array", value |-> Nothing]}
      \cup {[type |-> "string", value |-> s] : s \in {0, 1, 2}}
      \cup {[type |-> "integer", value |-> n] : n \in Numbers}

Blank == 0
InEnum == 1

Given(json) == json.type \notin {"absent", "null"}

\* validate_args, for one argument
WellTyped(spec, json) ==
    /\ json.type = "absent" => ~spec.required
    /\ Given(json) =>
         /\ \/ json.type = spec.type
            \/ spec.type = "number" /\ json.type = "integer"
         /\ spec.reader = "choice" => json.value = InEnum

\* optional_u64 and optional_usize
OptionalU64(json) ==
    IF json.type = "integer" /\ json.value >= 0 THEN json.value ELSE Nothing

\* optional_u32 keeps the low word.
OptionalU32(json) ==
    IF OptionalU64(json) = Nothing THEN Nothing ELSE OptionalU64(json) % Word

ClampTo(n, low, high) == IF n < low THEN low ELSE IF n > high THEN high ELSE n

\* Mutant: nothing keeps a limit from being zero.
ClampLimitFromAbove(requested, most) ==
    IF requested = Nothing THEN most ELSE ClampTo(requested, 0, most)

\* clamp_limit, where it does not panic
ClampLimit(requested, most) ==
    IF requested = Nothing THEN most ELSE ClampTo(requested, 1, most)

\* parse_port, parse_pid and required_string refuse; the others fall back.
Refused(reader, json) ==
    CASE reader = "port" -> OptionalU32(json) \notin 1..MaxPortNumber
      [] reader = "pid" -> OptionalU32(json) \in {Nothing, 0}
      [] reader = "name" -> json.type # "string" \/ json.value = Blank
      [] OTHER -> FALSE

\* A clamp to 1..0 panics, and a panic aborts the process: where a value was passed, or
\* a default stands for it, and the configured limit is zero.
Panics(reader, json, l) ==
    \/ reader = "limit" /\ OptionalU64(json) # Nothing /\ l.results = 0
    \/ reader = "results" /\ l.results = 0
    \/ reader = "depth" /\ OptionalU32(json) # Nothing /\ l.depth = 0

Effective(reader, json, l) ==
    CASE reader \in {"port", "pid", "id"} -> OptionalU32(json)
      [] reader = "limit" -> ClampLimit(OptionalU64(json), l.results)
      [] reader = "results" ->
           ClampLimit(IF OptionalU64(json) = Nothing THEN DefaultResults
                      ELSE OptionalU64(json), l.results)
      [] reader = "software" -> ClampLimit(OptionalU64(json), MaxSoftware)
      [] reader = "nodes" -> ClampLimit(OptionalU64(json), TreeNodes)
      [] reader = "depth" -> ClampLimit(OptionalU32(json), l.depth)
      [] reader = "top" -> LET n == OptionalU64(json) IN IF n = 0 THEN 1 ELSE n
      [] reader = "minutes" ->
           LET n == OptionalU64(json)
           IN  IF n = Nothing THEN n ELSE ClampTo(n, 1, MostMinutes)
      [] reader = "chars" ->
           LET n == OptionalU64(json)
           IN  ClampTo(IF n = Nothing THEN DefaultChars ELSE n,
                       LeastChars, MostChars)
      [] reader \in {"name", "choice"} ->
           IF json.type = "string" THEN json.value ELSE Nothing
      [] reader = "filter" ->
           IF json.type = "string" /\ json.value # Blank THEN json.value
           ELSE Nothing
      [] reader = "flag" -> IF json.type = "boolean" THEN json.value ELSE Nothing

-----------------------------------------------------------------------------

VARIABLES
    astep,    \* where the call is
    limits,   \* the limits of the server's configuration
    schema,   \* the schema of its tool
    args,     \* its arguments, those it does not pass included
    unknown,  \* it passes one that the schema does not have
    shaped,   \* its arguments are an object
    read,     \* what the handler works with
    areply    \* what the caller gets

argumentVars == <<astep, limits, schema, args, unknown, shaped, read, areply>>

NoArguments == [limit |-> NotPassed]
NoListing == [kind |-> "none"]
NoLimits == [results |-> 0, depth |-> 0]

ArgumentsIdle ==
    /\ astep = "idle" /\ limits = NoLimits /\ schema = ListServices /\ args = NoArguments
    /\ unknown = FALSE /\ shaped = TRUE /\ read = <<>> /\ areply = NoListing

\* All the arguments but one are absent or as they should be.
Usual(spec) ==
    CASE spec.type = "integer" -> {[type |-> "integer", value |-> 1]}
      [] spec.type = "string" -> {[type |-> "string", value |-> InEnum]}
      [] OTHER -> {NotPassed}

AcceptArguments ==
    /\ astep = "idle"
    /\ \E s \in Schemas : \E key \in DOMAIN s \cup {"none"} : \E json \in Values :
       \E bare \in BOOLEAN :
         /\ schema' = s
         /\ args' = [k \in DOMAIN s |->
              IF k = key THEN json
              ELSE IF bare /\ ~s[k].required THEN NotPassed
              ELSE CHOOSE v \in Usual(s[k]) : TRUE]
    /\ unknown' \in BOOLEAN
    /\ shaped' \in BOOLEAN
    /\ limits' \in LoadedLimits
    /\ astep' = "validate"
    /\ UNCHANGED <<read, areply>>

\* The caller has the answer, or starts the server that was aborted again.
ArgumentsReplied ==
    /\ astep = "answered"
    /\ astep' = "idle" /\ limits' = NoLimits /\ schema' = ListServices /\ args' = NoArguments
    /\ unknown' = FALSE /\ shaped' = TRUE /\ read' = <<>> /\ areply' = NoListing

\* validate_args; what is not an object passes, and is read as an empty one.
ValidateArguments ==
    /\ astep = "validate"
    /\ IF shaped /\ (unknown \/ \E k \in DOMAIN schema :
                                   ~WellTyped(schema[k], args[k]))
       THEN /\ astep' = "answered"
            /\ areply' = [kind |-> "error"]
       ELSE /\ astep' = "read"
            /\ UNCHANGED areply
    /\ args' = IF shaped THEN args ELSE [k \in DOMAIN schema |-> NotPassed]
    /\ UNCHANGED <<limits, schema, unknown, shaped, read>>

\* The names are read before the limits, so what is refused does not panic.
ReadArguments ==
    /\ astep = "read"
    /\ \/ /\ \E k \in DOMAIN schema : Refused(schema[k].reader, args[k])
          /\ astep' = "answered"
          /\ areply' = [kind |-> "error"]
          /\ UNCHANGED read
       \/ /\ \A k \in DOMAIN schema : ~Refused(schema[k].reader, args[k])
          /\ \E k \in DOMAIN schema : Panics(schema[k].reader, args[k], limits)
          /\ astep' = "answered"
          /\ areply' = [kind |-> "abort"]
          /\ UNCHANGED read
       \/ /\ \A k \in DOMAIN schema :
                /\ ~Refused(schema[k].reader, args[k])
                /\ ~Panics(schema[k].reader, args[k], limits)
          /\ astep' = "list"
          /\ read' = [k \in DOMAIN schema |->
                        Effective(schema[k].reader, args[k], limits)]
          /\ UNCHANGED areply
    /\ UNCHANGED <<limits, schema, args, unknown, shaped>>

\* list_envelope: what there is, up to the limit, and whether it was met.  A tool
\* without a limit passes its own count.
AnswerListed ==
    /\ astep = "list"
    /\ IF schema \notin Listings
       THEN areply' = [kind |-> "item"]
       ELSE \E available \in 0..MostAvailable :
              LET limit == IF schema = ListDrives THEN available ELSE read.limit
                  count == IF available < limit THEN available ELSE limit
              IN  areply' = [kind |-> "list", available |-> available,
                             count |-> count,
                             truncated |-> count = limit /\ limit > 0]
    /\ astep' = "answered"
    /\ UNCHANGED <<limits, schema, args, unknown, shaped, read>>

ArgumentsNext ==
    AcceptArguments \/ ArgumentsReplied \/ ValidateArguments \/ ReadArguments
        \/ AnswerListed

-----------------------------------------------------------------------------

ArgumentsTypeOK ==
    /\ astep \in {"idle", "validate", "read", "list", "answered"}
    /\ limits \in [results : Nat, depth : Nat]
    /\ schema \in Schemas
    /\ DOMAIN args = DOMAIN schema
    /\ {unknown, shaped} \subseteq BOOLEAN
    /\ areply.kind \in {"none", "error", "abort", "item", "list"}

\* What a caller passes means something, by the tool's own schema.
Conforms(spec, json) ==
    IF ~Given(json) THEN ~spec.required
    ELSE /\ json.type = spec.type
         /\ spec.reader = "choice" => json.value = InEnum
         /\ spec.reader = "name" => json.value # Blank
         /\ spec.type = "integer" =>
              /\ json.value >= spec.low
              /\ spec.high # Unbounded => json.value <= spec.high
              /\ json.value < Word

Conforming ==
    /\ shaped /\ ~unknown
    /\ \A k \in DOMAIN schema : Conforms(schema[k], args[k])

Most(reader, l) ==
    CASE reader = "port" -> MaxPortNumber
      [] reader = "limit" -> l.results
      [] reader = "results" -> l.results
      [] reader = "software" -> MaxSoftware
      [] reader = "nodes" -> TreeNodes
      [] reader = "depth" -> l.depth
      [] reader = "minutes" -> MostMinutes
      [] reader = "chars" -> MostChars
      [] OTHER -> Unbounded

\* Whatever is passed, a handler never works with a number beyond the limit of the
\* configuration or of the tool, nor with one below the schema's minimum unless the
\* limit itself is.
LimitsHold ==
    read # <<>> =>
      \A k \in DOMAIN schema :
        schema[k].type = "integer" /\ read[k] # Nothing =>
          LET most == Most(schema[k].reader, limits)
          IN  /\ read[k] >= schema[k].low \/ read[k] = most
              /\ most # Unbounded => read[k] <= most

\* A call whose arguments conform to the schema is served with them, and with the
\* nearest that is allowed where it asked for more than a limit.
ConformingServed ==
    /\ Conforming => areply.kind # "error"
    /\ Conforming /\ read # <<>> =>
         \A k \in DOMAIN schema : Given(args[k]) =>
           LET most == Most(schema[k].reader, limits)
           IN  \/ read[k] = args[k].value
               \/ schema[k].reader = "filter" /\ args[k].value = Blank
               \/ most # Unbounded /\ args[k].value > most /\ read[k] = most

NearestTo(n, low, high) ==
    IF n < low THEN low ELSE IF high # Unbounded /\ n > high THEN high ELSE n

ReadIn32Bits == {"port", "pid", "id", "depth"}

\* Integers outside the schema are not refused for that: a negative one counts as one
\* that was not passed, of a long one a 32-bit helper takes the low word, and what is
\* then below the minimum or beyond the limit is moved to it.
IntegersRead ==
    read # <<>> =>
      \A k \in DOMAIN schema :
        schema[k].type = "integer" /\ args[k].type = "integer" =>
          LET spec == schema[k]
              n == args[k].value
              word == IF spec.reader \in ReadIn32Bits THEN n % Word ELSE n
          IN  read[k] = IF n < 0 THEN Effective(spec.reader, NotPassed, limits)
                        ELSE NearestTo(word, spec.low, Most(spec.reader, limits))

\* An argument that is unknown, missing, of another type or outside its enum never
\* falls back to a default, in an object of arguments; and an argument a tool cannot do
\* without is in range when the tool works with it, whatever held the arguments.
NothingIgnored ==
    /\ shaped /\ (unknown \/ \E k \in DOMAIN schema :
                             ~WellTyped(schema[k], args[k])) =>
         astep # "list" /\ areply.kind \in {"none", "error"}
    /\ read # <<>> =>
         \A k \in DOMAIN schema :
           schema[k].required =>
             /\ args[k].type = schema[k].type /\ read[k] # Nothing
             /\ schema[k].reader \in {"port", "pid"} =>
                  read[k] = args[k].value % Word

\* Only a limit of zero aborts the server.
AbortsAtZero == areply.kind = "abort" => limits.results = 0 \/ limits.depth = 0

\* A listing that does not call itself truncated is whole, unless nothing may be listed.
WholeUnlessTruncated ==
    areply.kind = "list" /\ ~areply.truncated =>
      areply.count = areply.available \/ limits.results = 0

\* validate_args and the helpers that read an argument, each written for itself, misread
\* nothing that conforms to the schema: it is served as asked, up to the limits.  What
\* is unknown, missing, of another type or outside its enum is refused.  What is only
\* out of range is not: it is moved into the range, a negative integer counts as not
\* passed and a long one as its low word, and arguments that are no object count as
\* none; yet no handler works beyond a limit.  A listing that was cut says so.  A
\* configured limit of zero is the exception to the last and ends the process where an
\* argument is clamped to it (`validate_args`, `optional_u32`, `clamp_limit`,
\* `list_envelope`, tools/mod.rs).
ArgumentsSound ==
    /\ ArgumentsTypeOK
    /\ LimitsHold /\ ConformingServed /\ IntegersRead /\ NothingIgnored
    /\ AbortsAtZero /\ WholeUnlessTruncated

=============================================================================
