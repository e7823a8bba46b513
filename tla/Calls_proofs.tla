---------------------------- MODULE Calls_proofs -----------------------------
(***************************************************************************)
(* What is proved of what a call is given and of what it answers: of the   *)
(* arguments of the tools, for any width of the words and any limits; of   *)
(* the device reports, for any disks, logs and capacities; of the tables   *)
(* of the system, for any tables and queries; of the commands on the       *)
(* configuration, for any texts, command lines and machines; and of the    *)
(* tools that read the file system, for any tree and any budgets.          *)
(***************************************************************************)
EXTENDS ToolArguments, DeviceHealth, SystemTables, Configuration, BoundedFiles,
        FiniteSetTheorems, WellFoundedInduction, TLAPS

ArgumentsSpec == ArgumentsIdle /\ [][ArgumentsNext]_argumentVars
DevicesSpec == DevicesIdle /\ [][DevicesNext]_deviceVars
TablesSpec == TablesIdle /\ [][TablesNext]_tableVars
ConfigSpec == ConfigIdle /\ [][ConfigNext]_cfgVars
FilesSpec == FilesIdle /\ [][FilesNext]_fileVars

-----------------------------------------------------------------------------
(* ToolArguments.  The schemas are different, but what they are made of    *)
(* are a few kinds of argument; what holds of each kind holds of a call.   *)

JsonPassed ==
    {json \in [type : {"null", "absent", "number", "boolean", "array", "string",
                       "integer"},
               value : Int] :
       json.type = "string" => json.value # Nothing}

Arguments ==
    {Argument("integer", r, FALSE, 1, Unbounded) :
       r \in {"limit", "results", "software", "nodes", "top", "minutes"}}
      \cup {Argument("integer", "minutes", FALSE, 1, MostMinutes),
            Argument("integer", "depth", FALSE, 1, MostDepth),
            Argument("integer", "chars", FALSE, LeastChars, MostChars),
            Argument("integer", "id", FALSE, 0, Unbounded),
            Argument("integer", "port", TRUE, 1, MaxPortNumber),
            Pid, Flag, Chosen, Named, Filter}

Malformed ==
    shaped /\ (unknown \/ \E k \in DOMAIN schema : ~WellTyped(schema[k], args[k]))

Limits == [results : Nat, depth : Nat]

Read ==
    /\ read = [k \in DOMAIN schema |-> Effective(schema[k].reader, args[k], limits)]
    /\ \A k \in DOMAIN schema : /\ ~Refused(schema[k].reader, args[k])
                               /\ ~Panics(schema[k].reader, args[k], limits)

CallAccepted == astep = "list" \/ areply.kind \in {"item", "list"}

ArgumentsInv ==
    /\ ArgumentsTypeOK
    /\ args \in [DOMAIN schema -> JsonPassed]
    /\ astep \in {"idle", "validate", "read"} => read = <<>>
    /\ astep # "answered" <=> areply.kind = "none"
    /\ astep = "read" \/ CallAccepted => ~Malformed
    /\ CallAccepted => Read
    /\ areply.kind = "error" =>
         /\ read = <<>>
         /\ Malformed \/ \E k \in DOMAIN schema : Refused(schema[k].reader, args[k])
    /\ areply.kind = "abort" =>
         /\ read = <<>> /\ ~Malformed
         /\ \E k \in DOMAIN schema : Panics(schema[k].reader, args[k], limits)
    /\ WholeUnlessTruncated

LEMMA Widths ==
    /\ Word \in Nat /\ MaxPortNumber \in 1..(Word - 1)
    /\ MostDepth \in Nat \ {0} /\ TreeNodes \in Nat \ {0}
    /\ MostMinutes \in Nat \ {0} /\ MaxSoftware \in Nat \ {0}
    /\ DefaultResults \in Nat \ {0}
    /\ LeastChars \in Nat \ {0} /\ DefaultChars \in LeastChars..MostChars
    /\ MostChars \in Nat \ {0}
    /\ Numbers \subseteq Int /\ LoadedLimits \subseteq Limits
  BY WidthAssumption, LimitsAssumption DEF Limits

LEMMA ArgumentKinds ==
    /\ Limited \in Arguments /\ Minutes \in Arguments /\ Pid \in Arguments
    /\ Flag \in Arguments /\ Chosen \in Arguments /\ Named \in Arguments
    /\ Filter \in Arguments
    /\ \A r \in {"results", "software", "nodes", "top"} :
         Argument("integer", r, FALSE, 1, Unbounded) \in Arguments
    /\ Argument("integer", "minutes", FALSE, 1, MostMinutes) \in Arguments
    /\ Argument("integer", "depth", FALSE, 1, MostDepth) \in Arguments
    /\ Argument("integer", "port", TRUE, 1, MaxPortNumber) \in Arguments
    /\ Argument("integer", "id", FALSE, 0, Unbounded) \in Arguments
    /\ Argument("integer", "chars", FALSE, LeastChars, MostChars) \in Arguments
  BY DEF Arguments, Limited, Minutes

\* Every argument of every schema is of one of the kinds.
LEMMA ArgumentsOfSchemas ==
    ASSUME NEW s \in Schemas, NEW k \in DOMAIN s
    PROVE  s[k] \in Arguments
PROOF
<1> USE ArgumentKinds
<1>1. CASE s = ListProcesses
  <2>1. k \in {"limit", "sort_by", "top"}
    BY <1>1 DEF ListProcesses
  <2>2. CASE k = "limit"
    BY <1>1, <2>2, Zenon DEF ListProcesses
  <2>3. CASE k = "sort_by"
    BY <1>1, <2>3, Zenon DEF ListProcesses
  <2>4. CASE k = "top"
    BY <1>1, <2>4, Zenon DEF ListProcesses
  <2> QED
    BY <2>1, <2>2, <2>3, <2>4
<1>2. CASE s = GetProcess
  BY <1>2 DEF GetProcess
<1>3. CASE s = GetProcessTree
  <2>1. k \in {"pid", "max_depth", "max_nodes"}
    BY <1>3 DEF GetProcessTree
  <2>2. CASE k = "pid"
    BY <1>3, <2>2, Zenon DEF GetProcessTree
  <2>3. CASE k = "max_depth"
    BY <1>3, <2>3, Zenon DEF GetProcessTree
  <2>4. CASE k = "max_nodes"
    BY <1>3, <2>4, Zenon DEF GetProcessTree
  <2> QED
    BY <2>1, <2>2, <2>3, <2>4
<1>4. CASE s = FindProcess
  BY <1>4 DEF FindProcess
<1>5. CASE s = ListListeningPorts
  BY <1>5 DEF ListListeningPorts
<1>6. CASE s = FindProcessOnPort
  <2>1. k \in {"port"}
    BY <1>6 DEF FindProcessOnPort
  <2>2. CASE k = "port"
    BY <1>6, <2>2, Zenon DEF FindProcessOnPort
  <2> QED
    BY <2>1, <2>2
<1>7. CASE s = ListServices
  BY <1>7 DEF ListServices
<1>8. CASE s = GetService
  BY <1>8 DEF GetService
<1>9. CASE s = ListWindows
  BY <1>9 DEF ListWindows
<1>10. CASE s = RegistryDiagnostics
  <2>1. k \in {"include_software", "max_software"}
    BY <1>10 DEF RegistryDiagnostics
  <2>2. CASE k = "include_software"
    BY <1>10, <2>2, Zenon DEF RegistryDiagnostics
  <2>3. CASE k = "max_software"
    BY <1>10, <2>3, Zenon DEF RegistryDiagnostics
  <2> QED
    BY <2>1, <2>2, <2>3
<1>11. CASE s = ListDrives
  BY <1>11 DEF ListDrives
<1>12. CASE s = DiskUsage
  BY <1>12 DEF DiskUsage
<1>13. CASE s = GetRecentEvents
  <2>1. k \in {"level", "provider", "event_id", "since_minutes", "max_results", "max_message_chars"}
    BY <1>13 DEF GetRecentEvents
  <2>2. CASE k = "level"
    BY <1>13, <2>2, Zenon DEF GetRecentEvents
  <2>3. CASE k = "provider"
    BY <1>13, <2>3, Zenon DEF GetRecentEvents
  <2>4. CASE k = "event_id"
    BY <1>13, <2>4, Zenon DEF GetRecentEvents
  <2>5. CASE k = "since_minutes"
    BY <1>13, <2>5, Zenon DEF GetRecentEvents
  <2>6. CASE k = "max_results"
    BY <1>13, <2>6, Zenon DEF GetRecentEvents
  <2>7. CASE k = "max_message_chars"
    BY <1>13, <2>7, Zenon DEF GetRecentEvents
  <2> QED
    BY <2>1, <2>2, <2>3, <2>4, <2>5, <2>6, <2>7
<1>14. CASE s = CrashHistory
  <2>1. k \in {"since_minutes", "max_results"}
    BY <1>14 DEF CrashHistory
  <2>2. CASE k = "since_minutes"
    BY <1>14, <2>2, Zenon DEF CrashHistory
  <2>3. CASE k = "max_results"
    BY <1>14, <2>3, Zenon DEF CrashHistory
  <2> QED
    BY <2>1, <2>2, <2>3
<1> QED
  BY <1>1, <1>2, <1>3, <1>4, <1>5, <1>6, <1>7, <1>8, <1>9, <1>10, <1>11, <1>12,
     <1>13, <1>14 DEF Schemas

\* What a value keeps when its low word is taken.
LEMMA LowWord ==
    ASSUME NEW n \in Nat
    PROVE  /\ n % Word \in 0..(Word - 1)
           /\ n < Word => n % Word = n
  BY Widths

LEMMA OptionalBounds ==
    ASSUME NEW json \in JsonPassed
    PROVE  /\ OptionalU64(json) \in Nat \cup {Nothing}
           /\ OptionalU32(json) \in Nat \cup {Nothing}
           /\ json.type = "integer" /\ json.value >= 0 =>
                OptionalU64(json) = json.value
           /\ json.type = "integer" /\ json.value >= 0 /\ json.value < Word =>
                OptionalU32(json) = json.value
  BY LowWord, Widths DEF OptionalU64, OptionalU32, JsonPassed, Nothing

LEMMA Clamped ==
    ASSUME NEW n \in Int, NEW low \in Int, NEW high \in Int, low <= high
    PROVE  /\ ClampTo(n, low, high) \in low..high
           /\ n \in low..high => ClampTo(n, low, high) = n
           /\ n > high => ClampTo(n, low, high) = high
  BY DEF ClampTo

LEMMA LimitClamped ==
    ASSUME NEW n \in Nat \cup {Nothing}, NEW most \in Nat, most >= 1 \/ n = Nothing
    PROVE  /\ ClampLimit(n, most) \in 1..most \/ ClampLimit(n, most) = most
           /\ n \in Nat => ClampLimit(n, most) = NearestTo(n, 1, most)
  BY DEF ClampLimit, ClampTo, NearestTo, Nothing, Unbounded

\* What an argument of a kind says of the helper that reads it.
LEMMA KindsTyped ==
    ASSUME NEW spec \in Arguments
    PROVE  /\ spec.low \in Nat /\ spec.high \in Nat \cup {Unbounded}
           /\ spec.required <=> spec.reader \in {"port", "pid", "name"}
           /\ spec.type = "integer" <=>
                spec.reader \in {"limit", "results", "software", "nodes", "top",
                                 "minutes", "depth", "chars", "id", "port", "pid"}
           /\ spec.type # "integer" =>
                spec.reader \in {"flag", "choice", "name", "filter"}
           /\ spec.reader = "flag" <=> spec.type = "boolean"
           /\ spec.type \in {"integer", "boolean", "string"}
           /\ spec.reader \in {"limit", "results", "software", "nodes", "top", "minutes",
                               "depth", "port", "pid"} => spec.low = 1
           /\ spec.reader = "id" => spec.low = 0
           /\ spec.reader = "port" => spec.high = MaxPortNumber
           /\ spec.reader = "chars" => spec.low = LeastChars /\ spec.high = MostChars
  BY Widths DEF Arguments, Argument, Flag, Chosen, Named, Filter, Pid, Unbounded

\* The helpers that clamp return what is within the schema's minimum and the limit, or
\* the limit if that is less, and of what was passed the nearest such number.
LEMMA HelpersClamp ==
    ASSUME NEW spec \in Arguments, NEW json \in JsonPassed, NEW l \in Limits,
           spec.reader \in {"limit", "results", "software", "nodes", "depth",
                            "minutes", "chars"},
           ~Panics(spec.reader, json, l)
    PROVE  /\ Most(spec.reader, l) \in Nat
           /\ \/ Effective(spec.reader, json, l) \in spec.low..Most(spec.reader, l)
              \/ Effective(spec.reader, json, l) \in {Nothing, Most(spec.reader, l)}
           /\ LET x == IF spec.reader = "depth" THEN OptionalU32(json)
                       ELSE OptionalU64(json)
              IN  x \in Nat =>
                    Effective(spec.reader, json, l)
                      = NearestTo(x, spec.low, Most(spec.reader, l))
PROOF
<1> DEFINE r == spec.reader
           n == OptionalU64(json)
           low == OptionalU32(json)
           v == Effective(r, json, l)
           m == Most(r, l)
           x == IF r = "depth" THEN low ELSE n
<1> SUFFICES /\ m \in Nat
             /\ v \in spec.low..m \/ v \in {Nothing, m}
             /\ x \in Nat => v = NearestTo(x, spec.low, m)
  OBVIOUS
<1>1. n \in Nat \cup {Nothing} /\ low \in Nat \cup {Nothing}
  BY OptionalBounds
<1>2. CASE r = "limit"
  <2>1. v = ClampLimit(n, l.results) /\ m = l.results /\ spec.low = 1
    BY <1>2, KindsTyped DEF Effective, Most
  <2>2. m \in Nat /\ (m >= 1 \/ n = Nothing) /\ DefaultResults \in Nat
    BY <1>2, <2>1, Widths DEF Panics, Limits
  <2>3. x = n
    BY <1>2
  <2> HIDE DEF n, low, v, m, x
  <2> QED
    BY <1>1, <2>1, <2>2, <2>3, LimitClamped DEF Nothing
<1>3. CASE r = "results"
  <2>1. v = ClampLimit(IF n = Nothing THEN DefaultResults ELSE n, l.results) /\ m = l.results /\ spec.low = 1
    BY <1>3, KindsTyped DEF Effective, Most
  <2>2. m \in Nat /\ (m >= 1 \/ FALSE) /\ DefaultResults \in Nat
    BY <1>3, <2>1, Widths DEF Panics, Limits
  <2>3. x = n
    BY <1>3
  <2> HIDE DEF n, low, v, m, x
  <2> QED
    BY <1>1, <2>1, <2>2, <2>3, LimitClamped DEF Nothing
<1>4. CASE r = "software"
  <2>1. v = ClampLimit(n, MaxSoftware) /\ m = MaxSoftware /\ spec.low = 1
    BY <1>4, KindsTyped DEF Effective, Most
  <2>2. m \in Nat /\ (m >= 1 \/ FALSE) /\ DefaultResults \in Nat
    BY <1>4, <2>1, Widths DEF Panics, Limits
  <2>3. x = n
    BY <1>4
  <2> HIDE DEF n, low, v, m, x
  <2> QED
    BY <1>1, <2>1, <2>2, <2>3, LimitClamped DEF Nothing
<1>5. CASE r = "nodes"
  <2>1. v = ClampLimit(n, TreeNodes) /\ m = TreeNodes /\ spec.low = 1
    BY <1>5, KindsTyped DEF Effective, Most
  <2>2. m \in Nat /\ (m >= 1 \/ FALSE) /\ DefaultResults \in Nat
    BY <1>5, <2>1, Widths DEF Panics, Limits
  <2>3. x = n
    BY <1>5
  <2> HIDE DEF n, low, v, m, x
  <2> QED
    BY <1>1, <2>1, <2>2, <2>3, LimitClamped DEF Nothing
<1>6. CASE r = "depth"
  <2>1. v = ClampLimit(low, l.depth) /\ m = l.depth /\ spec.low = 1
    BY <1>6, KindsTyped DEF Effective, Most
  <2>2. m \in Nat /\ (m >= 1 \/ low = Nothing) /\ DefaultResults \in Nat
    BY <1>6, <2>1, Widths DEF Panics, Limits
  <2>3. x = low
    BY <1>6
  <2> HIDE DEF n, low, v, m, x
  <2> QED
    BY <1>1, <2>1, <2>2, <2>3, LimitClamped DEF Nothing
<1>7. CASE r = "minutes"
  <2>1. /\ v = IF n = Nothing THEN n ELSE ClampTo(n, 1, MostMinutes)
        /\ m = MostMinutes /\ spec.low = 1 /\ x = n
    BY <1>7, KindsTyped DEF Effective, Most
  <2>2. MostMinutes \in Nat \ {0}
    BY Widths
  <2> HIDE DEF n, low, v, m, x
  <2> QED
    BY <1>1, <2>1, <2>2 DEF Nothing, ClampTo, NearestTo, Unbounded
<1>8. CASE r = "chars"
  <2>1. /\ v = ClampTo(IF n = Nothing THEN DefaultChars ELSE n, LeastChars, MostChars)
        /\ m = MostChars /\ spec.low = LeastChars /\ x = n
    BY <1>8, KindsTyped DEF Effective, Most
  <2>2. /\ LeastChars \in Nat \ {0} /\ MostChars \in Nat \ {0}
        /\ DefaultChars \in LeastChars..MostChars
    BY Widths
  <2> HIDE DEF n, low, v, m, x
  <2> QED
    BY <1>1, <2>1, <2>2 DEF Nothing, ClampTo, NearestTo, Unbounded
<1> QED
  BY <1>2, <1>3, <1>4, <1>5, <1>6, <1>7, <1>8

\* What a helper returns is within the schema's minimum and the limit it clamps to.
LEMMA EffectiveWithinLimits ==
    ASSUME NEW spec \in Arguments, NEW json \in JsonPassed, NEW l \in Limits,
           spec.type = "integer",
           ~Refused(spec.reader, json), ~Panics(spec.reader, json, l),
           Effective(spec.reader, json, l) # Nothing
    PROVE  /\ \/ Effective(spec.reader, json, l) >= spec.low
              \/ Effective(spec.reader, json, l) = Most(spec.reader, l)
           /\ Most(spec.reader, l) # Unbounded =>
                Effective(spec.reader, json, l) <= Most(spec.reader, l)
PROOF
<1> DEFINE r == spec.reader
           n == OptionalU64(json)
           low == OptionalU32(json)
<1>1. r \in {"limit", "results", "software", "nodes", "top", "minutes", "depth",
             "chars", "id", "port", "pid"} /\ spec.low \in Nat
  BY KindsTyped
<1>2. n \in Nat \cup {Nothing} /\ low \in Nat \cup {Nothing}
  BY OptionalBounds
<1>3. CASE r \in {"limit", "results", "software", "nodes", "depth", "minutes", "chars"}
  BY <1>1, <1>3, HelpersClamp
<1>4. CASE r = "top"
  BY <1>2, <1>4, KindsTyped DEF Effective, Most, Nothing, Unbounded
<1>5. CASE r = "id"
  BY <1>2, <1>5, KindsTyped DEF Effective, Most, Nothing, Unbounded
<1>6. CASE r = "port"
  BY <1>2, <1>6, Widths, KindsTyped DEF Effective, Most, Refused
<1>7. CASE r = "pid"
  BY <1>2, <1>7, KindsTyped DEF Effective, Most, Refused, Nothing, Unbounded
<1> QED
  BY <1>1, <1>3, <1>4, <1>5, <1>6, <1>7

\* Every integer that is read is the nearest to what was passed, a negative one as one
\* that was not.
LEMMA IntegerRead ==
    ASSUME NEW spec \in Arguments, NEW json \in JsonPassed, NEW l \in Limits,
           spec.type = "integer", json.type = "integer",
           ~Refused(spec.reader, json), ~Panics(spec.reader, json, l)
    PROVE  Effective(spec.reader, json, l)
             = IF json.value < 0 THEN Effective(spec.reader, NotPassed, l)
               ELSE NearestTo(IF spec.reader \in ReadIn32Bits THEN json.value % Word
                              ELSE json.value, spec.low, Most(spec.reader, l))
PROOF
<1> DEFINE r == spec.reader
           n == json.value
<1>1. r \in {"limit", "results", "software", "nodes", "top", "minutes", "depth",
             "chars", "id", "port", "pid"} /\ spec.low \in Nat /\ n \in Int
  BY KindsTyped DEF JsonPassed
<1>2. CASE n < 0
  <2>1. /\ OptionalU64(json) = Nothing /\ OptionalU32(json) = Nothing
        /\ OptionalU64(NotPassed) = Nothing /\ OptionalU32(NotPassed) = Nothing
    BY <1>1, <1>2 DEF OptionalU64, OptionalU32, NotPassed
  <2> HIDE DEF r, n
  <2>2. Effective(r, json, l) = Effective(r, NotPassed, l)
    BY <1>1, <2>1 DEF Effective
  <2> QED
    BY <1>2, <2>2 DEF r, n
<1>3. CASE n >= 0
  <2>1. n \in Nat /\ OptionalU64(json) = n /\ OptionalU32(json) = n % Word
        /\ n % Word \in Nat
    BY <1>1, <1>3, LowWord, Widths DEF OptionalU64, OptionalU32, Nothing
  <2>2. CASE r \in {"limit", "results", "software", "nodes", "minutes", "chars"}
    BY <1>3, <2>1, <2>2, HelpersClamp DEF ReadIn32Bits
  <2>3. CASE r = "depth"
    BY <1>3, <2>1, <2>3, HelpersClamp DEF ReadIn32Bits
  <2>4. CASE r = "top"
    BY <1>3, <2>1, <2>4, KindsTyped DEF Effective, Most, NearestTo, ReadIn32Bits
  <2>5. CASE r = "id"
    BY <1>3, <2>1, <2>5, KindsTyped DEF Effective, Most, NearestTo, ReadIn32Bits, Unbounded
  <2>6. CASE r = "pid"
    BY <1>3, <2>1, <2>6, KindsTyped
    DEF Effective, Most, NearestTo, ReadIn32Bits, Refused, Unbounded
  <2>7. CASE r = "port"
    BY <1>3, <2>1, <2>7, KindsTyped, Widths
    DEF Effective, Most, NearestTo, ReadIn32Bits, Refused, Unbounded
  <2> QED
    BY <1>1, <2>2, <2>3, <2>4, <2>5, <2>6, <2>7
<1> QED
  BY <1>1, <1>2, <1>3

\* An argument that a tool cannot do without is what was passed.
LEMMA RequiredRead ==
    ASSUME NEW spec \in Arguments, NEW json \in JsonPassed, NEW l \in Limits,
           spec.required, ~Refused(spec.reader, json)
    PROVE  /\ json.type = spec.type
           /\ Effective(spec.reader, json, l) # Nothing
           /\ spec.reader \in {"port", "pid"} =>
                Effective(spec.reader, json, l) = json.value % Word
PROOF
<1>1. spec.reader \in {"port", "pid", "name"}
  BY KindsTyped
<1>2. CASE spec.reader = "name"
  <2>1. spec.type = "string"
    BY <1>2 DEF Arguments, Argument, Flag, Chosen, Named, Filter, Pid
  <2> QED
    BY <1>2, <2>1 DEF Refused, Effective, JsonPassed
<1>3. CASE spec.reader \in {"port", "pid"}
  <2>1. spec.type = "integer" /\ OptionalU32(json) # Nothing
    BY <1>3, KindsTyped, Widths DEF Refused, Nothing
  <2>2. json.type = "integer" /\ OptionalU32(json) = json.value % Word
    BY <2>1 DEF OptionalU32, OptionalU64
  <2> QED
    BY <1>3, <2>1, <2>2 DEF Effective
<1> QED
  BY <1>1, <1>2, <1>3

\* What conforms to the schema passes the validator and is refused by no helper.
LEMMA ConformingAccepted ==
    ASSUME NEW spec \in Arguments, NEW json \in JsonPassed, Conforms(spec, json)
    PROVE  WellTyped(spec, json) /\ ~Refused(spec.reader, json)
PROOF
<1>1. WellTyped(spec, json)
  BY DEF Conforms, WellTyped, Given, JsonPassed
<1> SUFFICES ~Refused(spec.reader, json)
  BY <1>1
<1>2. ASSUME Given(json), spec.reader \in {"port", "pid"}
      PROVE  OptionalU32(json) = json.value /\ json.value >= spec.low
             /\ (spec.high # Unbounded => json.value <= spec.high)
  BY <1>2, KindsTyped, OptionalBounds DEF Conforms, JsonPassed
<1>3. CASE spec.reader = "port"
  BY <1>2, <1>3, KindsTyped, Widths DEF Conforms, Refused, JsonPassed, Unbounded
<1>4. CASE spec.reader = "pid"
  BY <1>2, <1>4, KindsTyped DEF Conforms, Refused, JsonPassed, Nothing
<1>5. CASE spec.reader = "name"
  BY <1>5, KindsTyped DEF Conforms, Refused, Given
<1>6. CASE spec.reader \notin {"port", "pid", "name"}
  BY <1>6 DEF Refused
<1> QED
  BY <1>1, <1>3, <1>4, <1>5, <1>6

\* It is read as it was passed, or as the nearest that is allowed.
LEMMA ConformingKept ==
    ASSUME NEW spec \in Arguments, NEW json \in JsonPassed, NEW l \in Limits,
           Conforms(spec, json), Given(json), ~Panics(spec.reader, json, l)
    PROVE  \/ Effective(spec.reader, json, l) = json.value
           \/ spec.reader = "filter" /\ json.value = Blank
           \/ /\ Most(spec.reader, l) # Unbounded /\ json.value > Most(spec.reader, l)
              /\ Effective(spec.reader, json, l) = Most(spec.reader, l)
PROOF
<1> DEFINE r == spec.reader
<1>1. json.value \in Int /\ json.type = spec.type
  BY DEF Conforms, JsonPassed
<1>2. ASSUME spec.type = "integer"
      PROVE  /\ OptionalU64(json) = json.value /\ OptionalU32(json) = json.value
             /\ json.value >= spec.low /\ json.value \in Nat
             /\ spec.high # Unbounded => json.value <= spec.high
  BY <1>1, <1>2, KindsTyped, OptionalBounds DEF Conforms
<1>3. CASE r \in {"limit", "results", "software", "nodes", "depth", "minutes", "chars"}
  BY <1>2, <1>3, KindsTyped, HelpersClamp DEF Unbounded, NearestTo
<1>4. CASE r = "top"
  BY <1>2, <1>4, KindsTyped DEF Effective
<1>5. CASE r \in {"id", "port", "pid"}
  BY <1>2, <1>5, KindsTyped DEF Effective
<1>6. CASE r \in {"name", "choice", "filter", "flag"}
  BY <1>1, <1>6, KindsTyped DEF Effective
<1> QED
  BY <1>3, <1>4, <1>5, <1>6, KindsTyped

-----------------------------------------------------------------------------

LEMMA ValuesPassed == Values \subseteq JsonPassed
PROOF
<1>1. Numbers \subseteq Int
  BY Widths
<1>2. \A s \in {0, 1, 2} : [type |-> "string", value |-> s] \in JsonPassed
  BY DEF JsonPassed, Nothing
<1>3. \A n \in Numbers : [type |-> "integer", value |-> n] \in JsonPassed
  BY <1>1 DEF JsonPassed
<1>4. {Null, NotPassed, [type |-> "number", value |-> Nothing],
       [type |-> "boolean", value |-> 1], [type |-> "array", value |-> Nothing]}
        \subseteq JsonPassed
  BY DEF JsonPassed, Null, NotPassed, Nothing
<1> QED
  BY <1>2, <1>3, <1>4 DEF Values

LEMMA UsualPassed ==
    ASSUME NEW spec
    PROVE  (CHOOSE v \in Usual(spec) : TRUE) \in JsonPassed
PROOF
<1>1. Usual(spec) \subseteq JsonPassed
  BY DEF Usual, JsonPassed, NotPassed, Nothing, InEnum
<1>2. \E v \in Usual(spec) : TRUE
  BY DEF Usual
<1> QED
  BY <1>1, <1>2

LEMMA IdleArguments == ArgumentsIdle => ArgumentsInv
PROOF
<1> SUFFICES ASSUME ArgumentsIdle PROVE ArgumentsInv
  OBVIOUS
<1>1. /\ astep = "idle" /\ schema = ListServices /\ args = [limit |-> NotPassed]
      /\ limits \in [results : Nat, depth : Nat]
      /\ unknown = FALSE /\ shaped = TRUE /\ read = <<>> /\ areply = [kind |-> "none"]
  BY DEF ArgumentsIdle, NoArguments, NoListing, NoLimits
<1>2. DOMAIN args = {"limit"} /\ DOMAIN schema = {"limit"} /\ schema \in Schemas
  BY <1>1 DEF ListServices, Schemas
<1>3. args \in [DOMAIN schema -> JsonPassed]
  BY <1>1, <1>2, NotPassed \in JsonPassed DEF JsonPassed, NotPassed, Nothing
<1>4. ArgumentsTypeOK
  BY <1>1, <1>2 DEF ArgumentsTypeOK
<1>5. ~CallAccepted /\ areply.kind = "none" /\ WholeUnlessTruncated
  BY <1>1 DEF CallAccepted, WholeUnlessTruncated
<1> QED
  BY <1>1, <1>3, <1>4, <1>5 DEF ArgumentsInv

LEMMA ArgumentsAccepted == ArgumentsInv /\ AcceptArguments => ArgumentsInv'
PROOF
<1> SUFFICES ASSUME ArgumentsInv, AcceptArguments PROVE ArgumentsInv'
  OBVIOUS
<1> DEFINE ArgsFor(s, key, json, bare) ==
             [k \in DOMAIN s |->
                IF k = key THEN json
                ELSE IF bare /\ ~s[k].required THEN NotPassed
                ELSE CHOOSE v \in Usual(s[k]) : TRUE]
<1>0. PICK s \in Schemas : \E key \in DOMAIN s \cup {"none"} : \E json \in Values :
        \E bare \in BOOLEAN : schema' = s /\ args' = ArgsFor(s, key, json, bare)
  BY DEF AcceptArguments
<1>1. PICK key \in DOMAIN s \cup {"none"}, json \in Values, bare \in BOOLEAN :
        schema' = s /\ args' = ArgsFor(s, key, json, bare)
  BY <1>0
<1>2. /\ astep = "idle" /\ astep' = "validate" /\ read' = read /\ areply' = areply
      /\ unknown' \in BOOLEAN /\ shaped' \in BOOLEAN
      /\ limits' \in [results : Nat, depth : Nat]
  BY Widths DEF AcceptArguments, Limits
<1>3. \A k \in DOMAIN s :
        (IF k = key THEN json
         ELSE IF bare /\ ~s[k].required THEN NotPassed
         ELSE CHOOSE v \in Usual(s[k]) : TRUE) \in JsonPassed
  BY ValuesPassed, UsualPassed DEF JsonPassed, NotPassed, Nothing
<1>4. args' \in [DOMAIN s -> JsonPassed] /\ DOMAIN args' = DOMAIN s
  BY <1>1, <1>3
<1>5. read = <<>> /\ areply.kind = "none"
  BY <1>2 DEF ArgumentsInv
<1>6. ArgumentsTypeOK'
  BY <1>1, <1>2, <1>4, <1>5 DEF ArgumentsTypeOK
<1>7. ~CallAccepted' /\ WholeUnlessTruncated'
  BY <1>2, <1>5 DEF CallAccepted, WholeUnlessTruncated
<1> QED
  BY <1>1, <1>2, <1>4, <1>5, <1>6, <1>7 DEF ArgumentsInv

LEMMA ArgumentsValidated == ArgumentsInv /\ ValidateArguments => ArgumentsInv'
PROOF
<1> SUFFICES ASSUME ArgumentsInv, ValidateArguments PROVE ArgumentsInv'
  OBVIOUS
<1>1. /\ astep = "validate" /\ schema' = schema /\ unknown' = unknown
      /\ shaped' = shaped /\ read' = read /\ limits' = limits
      /\ args' = IF shaped THEN args ELSE [k \in DOMAIN schema |-> NotPassed]
      /\ \/ Malformed /\ astep' = "answered" /\ areply' = [kind |-> "error"]
         \/ ~Malformed /\ astep' = "read" /\ areply' = areply
  BY DEF ValidateArguments, Malformed
<1>2. read = <<>> /\ areply.kind = "none" /\ args \in [DOMAIN schema -> JsonPassed]
  BY <1>1 DEF ArgumentsInv
<1>3. NotPassed \in JsonPassed
  BY DEF JsonPassed, NotPassed, Nothing
<1>4. args' \in [DOMAIN schema -> JsonPassed] /\ DOMAIN args' = DOMAIN schema
  BY <1>1, <1>2, <1>3
<1>5. Malformed' <=> Malformed
  BY <1>1 DEF Malformed
<1>6. areply'.kind = "error" <=> Malformed
  BY <1>1, <1>2
<1>7. ArgumentsTypeOK'
  BY <1>1, <1>2, <1>4 DEF ArgumentsTypeOK, ArgumentsInv
<1>8. ~CallAccepted' /\ WholeUnlessTruncated'
  BY <1>1, <1>2 DEF CallAccepted, WholeUnlessTruncated
<1> QED
  BY <1>1, <1>2, <1>4, <1>5, <1>6, <1>7, <1>8 DEF ArgumentsInv

LEMMA ArgumentsRead == ArgumentsInv /\ ReadArguments => ArgumentsInv'
PROOF
<1> SUFFICES ASSUME ArgumentsInv, ReadArguments PROVE ArgumentsInv'
  OBVIOUS
<1> DEFINE refused == \E k \in DOMAIN schema : Refused(schema[k].reader, args[k])
           panics == \E k \in DOMAIN schema : Panics(schema[k].reader, args[k], limits)
<1>1. /\ astep = "read" /\ schema' = schema /\ args' = args /\ unknown' = unknown
      /\ shaped' = shaped /\ limits' = limits
      /\ \/ refused /\ astep' = "answered" /\ areply' = [kind |-> "error"] /\ read' = read
         \/ panics /\ astep' = "answered" /\ areply' = [kind |-> "abort"] /\ read' = read
         \/ /\ ~refused /\ ~panics /\ astep' = "list" /\ areply' = areply
            /\ read' = [k \in DOMAIN schema |->
                          Effective(schema[k].reader, args[k], limits)]
  BY DEF ReadArguments
<1>2. read = <<>> /\ areply.kind = "none" /\ ~Malformed
  BY <1>1 DEF ArgumentsInv
<1>3. ~Malformed'
  BY <1>1, <1>2 DEF Malformed
<1>4. ArgumentsTypeOK'
  BY <1>1, <1>2 DEF ArgumentsTypeOK, ArgumentsInv
<1>5. CallAccepted' => Read'
  BY <1>1, <1>2 DEF CallAccepted, Read
<1>6. WholeUnlessTruncated'
  BY <1>1, <1>2 DEF WholeUnlessTruncated
<1> QED
  BY <1>1, <1>2, <1>3, <1>4, <1>5, <1>6 DEF ArgumentsInv

\* A listing has a limit of at least one, unless it lists without one or the configured
\* limit is zero.
LEMMA ListingLimit ==
    ASSUME schema \in Listings, schema # ListDrives, args \in [DOMAIN schema -> JsonPassed],
           limits \in Limits, Read
    PROVE  read.limit \in Nat /\ (read.limit = 0 => limits.results = 0)
PROOF
<1>1. "limit" \in DOMAIN schema /\ schema["limit"] = Limited
  BY DEF Listings, FindProcess, ListListeningPorts, ListServices, ListWindows
<1>2. Limited.reader = "limit"
  BY DEF Limited, Argument
<1>3. /\ read["limit"] = ClampLimit(OptionalU64(args["limit"]), limits.results)
      /\ OptionalU64(args["limit"]) # Nothing => limits.results # 0
  BY <1>1, <1>2 DEF Read, Effective, Panics
<1>4. args["limit"] \in JsonPassed
  BY <1>1
<1>5. OptionalU64(args["limit"]) \in Nat \cup {Nothing} /\ limits.results \in Nat
  BY <1>4, OptionalBounds DEF Limits
<1>6. \/ read["limit"] \in 1..limits.results
      \/ read["limit"] = limits.results
  <2>1. limits.results >= 1 \/ OptionalU64(args["limit"]) = Nothing
    BY <1>3, <1>5
  <2> QED BY <1>3, <1>5, <2>1, LimitClamped
<1> QED
  BY <1>5, <1>6

LEMMA ArgumentsListed == ArgumentsInv /\ AnswerListed => ArgumentsInv'
PROOF
<1> SUFFICES ASSUME ArgumentsInv, AnswerListed PROVE ArgumentsInv'
  OBVIOUS
<1>1. /\ astep = "list" /\ schema' = schema /\ args' = args /\ unknown' = unknown
      /\ shaped' = shaped /\ astep' = "answered" /\ read' = read /\ limits' = limits
      /\ limits \in Limits
  BY DEF AnswerListed, ArgumentsInv, ArgumentsTypeOK, Limits
<1>2. CallAccepted /\ Read /\ ~Malformed /\ args \in [DOMAIN schema -> JsonPassed]
  BY <1>1 DEF ArgumentsInv, CallAccepted
<1>3. areply'.kind \in {"item", "list"} /\ WholeUnlessTruncated'
  <2>1. CASE schema \notin Listings
    BY <2>1 DEF AnswerListed, WholeUnlessTruncated
  <2>2. CASE schema \in Listings
    <3>1. PICK available \in 0..MostAvailable :
            LET limit == IF schema = ListDrives THEN available ELSE read.limit
                count == IF available < limit THEN available ELSE limit
            IN  areply' = [kind |-> "list", available |-> available, count |-> count,
                           truncated |-> count = limit /\ limit > 0]
      BY <2>2 DEF AnswerListed
    <3>2. CASE schema = ListDrives
      BY <3>1, <3>2 DEF WholeUnlessTruncated
    <3>3. CASE schema # ListDrives
      <4>1. read.limit \in Nat /\ (read.limit = 0 => limits.results = 0)
        BY <1>1, <1>2, <2>2, <3>3, ListingLimit
      <4>2. /\ areply'.kind = "list" /\ areply'.available = available
            /\ areply'.count = IF available < read.limit THEN available ELSE read.limit
            /\ ~areply'.truncated => ~(areply'.count = read.limit /\ read.limit > 0)
        BY <3>1, <3>3
      <4>3. ~areply'.truncated =>
              areply'.count = areply'.available \/ limits'.results = 0
        BY <1>1, <4>1, <4>2
      <4> QED
        BY <4>2, <4>3 DEF WholeUnlessTruncated
    <3> QED
      BY <3>2, <3>3
  <2> QED
    BY <2>1, <2>2
<1>4. ~Malformed' /\ Read'
  BY <1>1, <1>2 DEF Malformed, Read
<1>5. ArgumentsTypeOK'
  BY <1>1, <1>3 DEF ArgumentsTypeOK, ArgumentsInv
<1> QED
  BY <1>1, <1>2, <1>3, <1>4, <1>5 DEF ArgumentsInv

LEMMA RepliedIdle == ArgumentsReplied => ArgumentsInv'
PROOF
<1>1. ArgumentsReplied => ArgumentsIdle'
  BY DEF ArgumentsReplied, ArgumentsIdle
<1>2. ArgumentsIdle' => ArgumentsInv'
  <2>1. ArgumentsIdle => ArgumentsInv
    BY IdleArguments
  <2> QED
    BY <2>1, PTL
<1> QED
  BY <1>1, <1>2

LEMMA ArgumentsMove == ArgumentsInv /\ [ArgumentsNext]_argumentVars => ArgumentsInv'
PROOF
<1> SUFFICES ASSUME ArgumentsInv, [ArgumentsNext]_argumentVars PROVE ArgumentsInv'
  OBVIOUS
<1>1. CASE AcceptArguments
  BY <1>1, ArgumentsAccepted
<1>2. CASE ArgumentsReplied
  BY <1>2, RepliedIdle
<1>3. CASE ValidateArguments
  BY <1>3, ArgumentsValidated
<1>4. CASE ReadArguments
  BY <1>4, ArgumentsRead
<1>5. CASE AnswerListed
  BY <1>5, ArgumentsListed
<1>6. CASE UNCHANGED argumentVars
  BY <1>6 DEF argumentVars, ArgumentsInv, ArgumentsTypeOK, Malformed, Read, CallAccepted,
     WholeUnlessTruncated
<1> QED
  BY <1>1, <1>2, <1>3, <1>4, <1>5, <1>6 DEF ArgumentsNext

LEMMA ArgumentsInvSound == ArgumentsInv => ArgumentsSound
PROOF
<1> SUFFICES ASSUME ArgumentsInv PROVE ArgumentsSound
  OBVIOUS
<1>1. /\ ArgumentsTypeOK /\ args \in [DOMAIN schema -> JsonPassed] /\ schema \in Schemas
      /\ areply.kind \in {"none", "error", "abort", "item", "list"} /\ limits \in Limits
  BY DEF ArgumentsInv, ArgumentsTypeOK, Limits
<1>2. \A k \in DOMAIN schema : schema[k] \in Arguments /\ args[k] \in JsonPassed
  BY <1>1, ArgumentsOfSchemas
<1>3. read # <<>> => Read
  BY <1>1 DEF ArgumentsInv, ArgumentsTypeOK, CallAccepted
<1>4. LimitsHold
  BY <1>1, <1>2, <1>3, EffectiveWithinLimits DEF LimitsHold, Read
<1>5. Conforming => areply.kind # "error"
  <2> SUFFICES ASSUME Conforming PROVE areply.kind # "error"
    OBVIOUS
  <2>1. \A k \in DOMAIN schema :
          WellTyped(schema[k], args[k]) /\ ~Refused(schema[k].reader, args[k])
    BY <1>2, ConformingAccepted DEF Conforming
  <2>2. ~Malformed
    BY <2>1 DEF Malformed, Conforming
  <2> QED
    BY <2>1, <2>2 DEF ArgumentsInv
<1>6. ASSUME Conforming, read # <<>>, NEW k \in DOMAIN schema, Given(args[k])
      PROVE  \/ read[k] = args[k].value
             \/ schema[k].reader = "filter" /\ args[k].value = Blank
             \/ /\ Most(schema[k].reader, limits) # Unbounded
                /\ args[k].value > Most(schema[k].reader, limits)
                /\ read[k] = Most(schema[k].reader, limits)
  <2>1. /\ read[k] = Effective(schema[k].reader, args[k], limits)
        /\ ~Panics(schema[k].reader, args[k], limits)
    BY <1>3, <1>6 DEF Read
  <2>2. Conforms(schema[k], args[k])
    BY <1>6 DEF Conforming
  <2> QED
    BY <1>1, <1>2, <1>6, <2>1, <2>2, ConformingKept
<1>7. ConformingServed
  BY <1>5, <1>6 DEF ConformingServed
<1>8. IntegersRead
  <2>1. ASSUME read # <<>>, NEW k \in DOMAIN schema, schema[k].type = "integer",
               args[k].type = "integer"
        PROVE  read[k]
                 = IF args[k].value < 0
                   THEN Effective(schema[k].reader, NotPassed, limits)
                   ELSE NearestTo(IF schema[k].reader \in ReadIn32Bits
                                  THEN args[k].value % Word ELSE args[k].value,
                                  schema[k].low, Most(schema[k].reader, limits))
    <3>1. /\ read[k] = Effective(schema[k].reader, args[k], limits)
          /\ ~Refused(schema[k].reader, args[k])
          /\ ~Panics(schema[k].reader, args[k], limits)
      BY <1>3, <2>1 DEF Read
    <3> QED
      BY <1>1, <1>2, <2>1, <3>1, IntegerRead
  <2> QED
    BY <2>1 DEF IntegersRead
<1>9. NothingIgnored
  <2>1. Malformed => ~CallAccepted /\ areply.kind # "abort"
    BY DEF ArgumentsInv
  <2>2. ASSUME read # <<>>, NEW k \in DOMAIN schema, schema[k].required
        PROVE  /\ args[k].type = schema[k].type /\ read[k] # Nothing
               /\ schema[k].reader \in {"port", "pid"} => read[k] = args[k].value % Word
    <3>1. /\ read[k] = Effective(schema[k].reader, args[k], limits)
          /\ ~Refused(schema[k].reader, args[k])
      BY <1>3, <2>2 DEF Read
    <3> QED
      BY <1>1, <1>2, <2>2, <3>1, RequiredRead
  <2> QED
    BY <1>1, <2>1, <2>2 DEF NothingIgnored, Malformed, CallAccepted
<1>10. AbortsAtZero
  BY DEF ArgumentsInv, AbortsAtZero, Panics
<1> QED
  BY <1>1, <1>4, <1>7, <1>8, <1>9, <1>10 DEF ArgumentsSound, ArgumentsInv

\* Of what conforms to a tool's schema nothing is misread, for any numbers, width of
\* words and configured limits, those of zero included: it is served as asked, up to the
\* limits; what is unknown, missing, of another type or outside its enum is refused; what
\* is only out of range becomes the nearest number in it, or the default if negative; and
\* a listing that was cut says so and a call ends the process only where a configured
\* limit is zero (validate_args, optional_u32, clamp_limit, list_envelope).
THEOREM ArgumentsAreSound == ArgumentsSpec => []ArgumentsSound
PROOF
<1>1. ArgumentsIdle => ArgumentsInv
  BY IdleArguments
<1>2. ArgumentsInv /\ [ArgumentsNext]_argumentVars => ArgumentsInv'
  BY ArgumentsMove
<1>3. ArgumentsInv => ArgumentsSound
  BY ArgumentsInvSound
<1> QED
  BY <1>1, <1>2, <1>3, PTL DEF ArgumentsSpec

-----------------------------------------------------------------------------
(* DeviceHealth.  Which steps belong to which tool, what each has filled in  *)
(* so far, and where the second reading of the plug stands to the first.     *)

NamesOf(reports) == {d.device : d \in reports}

\* The steps of one tool are not those of another; only an answered call has a report.
StepsOfTools ==
    /\ devstep \in {"list", "stack", "open", "log"} => devtool = "disk_health"
    /\ devstep = "raw" => devtool \in {"battery_status", "power_status"}
    /\ devstep \in {"batteries", "wmi"} => devtool = "battery_status"
    /\ devstep = "rawAgain" => devtool = "power_status"
    /\ devstep # "answered" <=> devsaid.kind = "none"
    /\ devsaid.kind = "disks" => devtool = "disk_health"
    /\ devsaid.kind = "battery" => devtool = "battery_status"
    /\ devsaid.kind = "power" => devtool = "power_status"

\* Every disk that was listed is reported or still to be read, and no report is lost
\* when the next reading fails.
DisksKept ==
    /\ devstep \notin {"open", "log", "answered"} => devices = {}
    /\ devtool # "disk_health" => devices = {}
    /\ devstep = "stack" => disks \in DiskLists
    /\ devstep \in {"open", "log"} =>
         \E listed \in DiskLists : NamesOf(listed) = NamesOf(devices) \cup NamesOf(disks)

\* A battery whose health is unknown is missing a reading that says so.
BatteryKept ==
    /\ "health" \in DOMAIN battery
    /\ devstep \in {"idle", "raw", "batteries"} => battery.health = {}
    /\ devstep \in {"idle", "list", "raw"} => without = {}
    /\ devstep \in {"batteries", "wmi"} => "not_present" \notin without
    /\ devtool = "battery_status" =>
         /\ devstep = "wmi" => battery.health = {}
         /\ devstep = "answer" /\ "not_present" \in without => battery.health = {}
         /\ devstep = "answer" /\ battery.health = {} => without # {}

\* Until the plug moves, what was read of it is what it is.
PlugKept ==
    ~replugged =>
      /\ \A r \in raw : r.ac \in {{}, {plugged}}
      /\ devtool = "power_status" /\ devstep = "answer" =>
           \E ac \in {{}, {plugged}} : \E asked \in {"present", "absent", "failed"} :
             /\ battery.asked = asked /\ battery.ac = ac
             /\ battery.source = SourceOf(asked = "present", ac)

DevicesInv ==
    /\ DevicesSound
    /\ StepsOfTools
    /\ DisksKept
    /\ handle <=> devstep = "log"
    /\ BatteryKept
    /\ PlugKept

LEMMA SmallSets ==
    /\ Cardinality({}) = 0
    /\ \A x : Cardinality({x}) = 1
PROOF
<1>1. Cardinality({}) = 0
  BY FS_EmptySet
<1>2. \A x : Cardinality({x}) = 1
  BY FS_Singleton, Zenon
<1> QED
  BY <1>1, <1>2

LEMMA NoMoreThanOne ==
    ASSUME NEW S, \A x, y \in S : x = y
    PROVE  Cardinality(S) <= 1
PROOF
<1>1. CASE S = {}
  BY <1>1, SmallSets
<1>2. CASE S # {}
  <2>1. PICK x \in S : S = {x}
    BY <1>2
  <2>2. Cardinality({x}) = 1
    BY SmallSets, Zenon
  <2> QED
    BY <2>1, <2>2
<1> QED
  BY <1>1, <1>2

\* A health is a percentage or is not known.
LEMMA OneHealth ==
    ASSUME NEW design \in {{}} \cup {{c} : c \in Capacities},
           NEW full \in {{}} \cup {{c} : c \in Capacities}
    PROVE  /\ Cardinality(HealthPercent(design, full)) <= 1
           /\ design \ {0} # {} /\ full # {} => HealthPercent(design, full) # {}
PROOF
<1>1. /\ \A d1, d2 \in design : d1 = d2
      /\ \A f1, f2 \in full : f1 = f2
  OBVIOUS
<1>2. \A x, y \in HealthPercent(design, full) : x = y
  BY <1>1 DEF HealthPercent
<1>3. Cardinality(HealthPercent(design, full)) <= 1
  BY <1>2, NoMoreThanOne
<1>4. ASSUME design \ {0} # {}, full # {} PROVE HealthPercent(design, full) # {}
  <2>1. PICK d \in design \ {0}, f \in full : TRUE
    BY <1>4
  <2>2. (IF f >= d THEN 100 ELSE (f * 100) \div d) \in HealthPercent(design, full)
    BY <2>1 DEF HealthPercent
  <2> QED
    BY <2>2
<1> QED
  BY <1>3, <1>4

\* A battery that is plugged in is not discharging.
LEMMA StateLabels ==
    ASSUME NEW percent, NEW charging \in BOOLEAN, NEW ac
    PROVE  /\ \A there \in BOOLEAN : ac = {TRUE} =>
                StateLabel(there, percent, charging, ac) # "discharging"
  BY DEF StateLabel

-----------------------------------------------------------------------------

LEMMA IdleDevices == DevicesIdle => DevicesInv
PROOF
<1> SUFFICES ASSUME DevicesIdle PROVE DevicesInv
  OBVIOUS
<1>1. /\ devtool = "none" /\ devstep = "idle" /\ plugged \in BOOLEAN /\ replugged = FALSE
      /\ disks = {} /\ stackSays = {} /\ devices = {} /\ handle = FALSE /\ raw = {}
      /\ "health" \in DOMAIN battery /\ battery.health = {} /\ without = {}
      /\ devsaid.kind = "none"
  BY DEF DevicesIdle, NoRaw, NoBattery, NoReport
<1>2. DeviceTypeOK
  <2>1. Cardinality(raw) <= 1 /\ Cardinality(battery.health) <= 1
    BY <1>1, SmallSets
  <2> QED
    BY <1>1, <2>1 DEF DeviceTypeOK, DeviceTools
<1>3. /\ DisksAreCounted /\ UnknownIsTold /\ BatteryIsTold /\ PluggedNeverDischarges
      /\ SourceAgrees
  BY <1>1 DEF DisksAreCounted, UnknownIsTold, BatteryIsTold, PluggedNeverDischarges,
     SourceAgrees
<1>4. DevicesSound
  BY <1>2, <1>3 DEF DevicesSound
<1>5. StepsOfTools /\ DisksKept /\ BatteryKept /\ PlugKept
  BY <1>1 DEF StepsOfTools, DisksKept, BatteryKept, PlugKept
<1> QED
  BY <1>1, <1>4, <1>5 DEF DevicesInv

LEMMA ReturnedDevices == DeviceTypeOK /\ DevicesReturn => DevicesInv'
PROOF
<1>1. DeviceTypeOK /\ DevicesReturn => DevicesIdle'
  BY DEF DevicesReturn, DevicesIdle, DeviceTypeOK
<1>2. DevicesIdle' => DevicesInv'
  <2>1. DevicesIdle => DevicesInv
    BY IdleDevices
  <2> QED
    BY <2>1, PTL
<1> QED
  BY <1>1, <1>2

\* What holds of a call that has not been answered when it goes on without an answer.
LEMMA NothingSaidNext ==
    devsaid'.kind = "none" =>
      DisksAreCounted' /\ BatteryIsTold' /\ PluggedNeverDischarges' /\ SourceAgrees'
  BY DEF DisksAreCounted, BatteryIsTold, PluggedNeverDischarges, SourceAgrees

\* The plug moves: what was read of it before no longer says how it is.
LEMMA PlugMoves == DevicesInv /\ Replug => DevicesInv'
PROOF
<1> SUFFICES ASSUME DevicesInv, Replug PROVE DevicesInv'
  OBVIOUS
<1>1. /\ plugged' = ~plugged /\ replugged' = TRUE /\ devtool' = devtool
      /\ devstep' = devstep /\ disks' = disks /\ stackSays' = stackSays
      /\ devices' = devices /\ handle' = handle /\ raw' = raw /\ battery' = battery
      /\ without' = without /\ devsaid' = devsaid
  BY DEF Replug, diskVars, powerVars
<1>2. DeviceTypeOK'
  BY <1>1 DEF DevicesInv, DevicesSound, DeviceTypeOK
<1>3. DisksAreCounted' /\ UnknownIsTold' /\ BatteryIsTold'
  BY <1>1 DEF DevicesInv, DevicesSound, DisksAreCounted, UnknownIsTold, BatteryIsTold
<1>4. PluggedNeverDischarges' /\ SourceAgrees'
  BY <1>1 DEF DevicesInv, DevicesSound, PluggedNeverDischarges, SourceAgrees, RawAc
<1>5. StepsOfTools' /\ DisksKept' /\ BatteryKept' /\ PlugKept'
  BY <1>1 DEF DevicesInv, StepsOfTools, DisksKept, BatteryKept, PlugKept
<1> QED
  BY <1>1, <1>2, <1>3, <1>4, <1>5 DEF DevicesInv, DevicesSound

LEMMA DevicesStart == DevicesInv /\ StartDevices => DevicesInv'
PROOF
<1> SUFFICES ASSUME DevicesInv, StartDevices PROVE DevicesInv'
  OBVIOUS
<1>1. /\ devstep = "idle" /\ devtool' \in DeviceTools
      /\ devstep' = IF devtool' = "disk_health" THEN "list" ELSE "raw"
      /\ plugged' = plugged /\ replugged' = replugged /\ disks' = disks
      /\ stackSays' = stackSays /\ devices' = devices /\ handle' = handle /\ raw' = raw
      /\ battery' = battery /\ without' = without /\ devsaid' = devsaid
  BY DEF StartDevices, diskVars, powerVars
<1>2. /\ devices = {} /\ ~handle /\ without = {} /\ battery.health = {}
      /\ devsaid.kind = "none"
  BY <1>1 DEF DevicesInv, StepsOfTools, DisksKept, BatteryKept
<1>3. DeviceTypeOK'
  BY <1>1 DEF DevicesInv, DevicesSound, DeviceTypeOK
<1>4. UnknownIsTold'
  BY <1>1, <1>2 DEF UnknownIsTold
<1>5. StepsOfTools' /\ DisksKept' /\ BatteryKept' /\ PlugKept'
  BY <1>1, <1>2 DEF DevicesInv, StepsOfTools, DisksKept, BatteryKept, PlugKept,
     DeviceTools
<1> QED
  BY <1>1, <1>2, <1>3, <1>4, <1>5, NothingSaidNext DEF DevicesInv, DevicesSound

LEMMA DisksUnlisted == DevicesInv /\ NoDiskList => DevicesInv'
PROOF
<1> SUFFICES ASSUME DevicesInv, NoDiskList PROVE DevicesInv'
  OBVIOUS
<1>1. /\ devstep = "list" /\ devstep' = "answered"
      /\ devsaid' = DiskReport("unavailable", "limited")
      /\ devtool' = devtool /\ plugged' = plugged /\ replugged' = replugged
      /\ disks' = disks /\ stackSays' = stackSays /\ devices' = devices
      /\ handle' = handle /\ raw' = raw /\ battery' = battery
  BY DEF NoDiskList, diskVars, powerVars
<1>2. devtool = "disk_health" /\ devices = {} /\ ~handle
  BY <1>1 DEF DevicesInv, StepsOfTools, DisksKept
<1>3. devsaid'.kind = "disks" /\ devsaid'.status = "unavailable"
  BY <1>1 DEF DiskReport
<1>4. DeviceTypeOK'
  BY <1>1 DEF DevicesInv, DevicesSound, DeviceTypeOK
<1>5. /\ DisksAreCounted' /\ UnknownIsTold' /\ BatteryIsTold' /\ PluggedNeverDischarges'
      /\ SourceAgrees'
  BY <1>1, <1>2, <1>3 DEF DisksAreCounted, UnknownIsTold, BatteryIsTold,
     PluggedNeverDischarges, SourceAgrees
<1>6. StepsOfTools' /\ DisksKept' /\ BatteryKept' /\ PlugKept'
  BY <1>1, <1>2, <1>3 DEF DevicesInv, StepsOfTools, DisksKept, BatteryKept, PlugKept
<1> QED
  BY <1>1, <1>2, <1>4, <1>5, <1>6 DEF DevicesInv, DevicesSound

LEMMA DisksListed == DevicesInv /\ ListDisks => DevicesInv'
PROOF
<1> SUFFICES ASSUME DevicesInv, ListDisks PROVE DevicesInv'
  OBVIOUS
<1>1. /\ devstep = "list" /\ devstep' = "stack" /\ disks' \in DiskLists
      /\ devtool' = devtool /\ plugged' = plugged /\ replugged' = replugged
      /\ stackSays' = stackSays /\ devices' = devices /\ handle' = handle /\ raw' = raw
      /\ battery' = battery /\ without' = without /\ devsaid' = devsaid
  BY DEF ListDisks, powerVars
<1>2. devtool = "disk_health" /\ devices = {} /\ ~handle /\ devsaid.kind = "none"
  BY <1>1 DEF DevicesInv, StepsOfTools, DisksKept
<1>3. DeviceTypeOK'
  BY <1>1 DEF DevicesInv, DevicesSound, DeviceTypeOK
<1>4. UnknownIsTold'
  BY <1>1, <1>2 DEF UnknownIsTold
<1>5. StepsOfTools' /\ DisksKept' /\ BatteryKept' /\ PlugKept'
  BY <1>1, <1>2 DEF DevicesInv, StepsOfTools, DisksKept, BatteryKept, PlugKept
<1> QED
  BY <1>1, <1>2, <1>3, <1>4, <1>5, NothingSaidNext DEF DevicesInv, DevicesSound

\* The stack is read, or is missing; the disks that were listed stay.
LEMMA StackRead == DevicesInv /\ ReadStack => DevicesInv'
PROOF
<1> SUFFICES ASSUME DevicesInv, ReadStack PROVE DevicesInv'
  OBVIOUS
<1>1. /\ devstep = "stack" /\ devstep' = "open" /\ disks' = disks
      /\ devtool' = devtool /\ plugged' = plugged /\ replugged' = replugged
      /\ devices' = devices /\ handle' = handle /\ raw' = raw
      /\ battery' = battery /\ devsaid' = devsaid
  BY DEF ReadStack, powerVars
<1>2. /\ devtool = "disk_health" /\ devices = {} /\ ~handle /\ devsaid.kind = "none"
      /\ disks \in DiskLists
  BY <1>1 DEF DevicesInv, StepsOfTools, DisksKept
<1>3. DeviceTypeOK'
  BY <1>1 DEF DevicesInv, DevicesSound, DeviceTypeOK
<1>4. UnknownIsTold'
  BY <1>1, <1>2 DEF UnknownIsTold
<1>5. NamesOf(disks) = NamesOf(devices) \cup NamesOf(disks)
  BY <1>2 DEF NamesOf
<1>6. StepsOfTools' /\ DisksKept' /\ BatteryKept' /\ PlugKept'
  BY <1>1, <1>2, <1>5 DEF DevicesInv, StepsOfTools, DisksKept, BatteryKept, PlugKept
<1> QED
  BY <1>1, <1>2, <1>3, <1>4, <1>6, NothingSaidNext DEF DevicesInv, DevicesSound

\* One disk more is reported: with a status, or among the readings that are missing.
LEMMA DiskReported ==
    ASSUME DevicesInv, devstep \in {"open", "log"},
           NEW disk \in disks, NEW report,
           report.device = disk.device, report.status \in SUBSET Statuses,
           report.smart \in BOOLEAN, report.status = {} => disk.device \in without',
           without \subseteq without',
           disks' = disks \ {disk}, devices' = devices \cup {report},
           devstep' = "open", handle' = FALSE,
           UNCHANGED <<devtool, plugged, replugged, raw, battery, devsaid>>
    PROVE  DevicesInv'
PROOF
<1>1. devtool = "disk_health" /\ devsaid.kind = "none"
  BY DEF DevicesInv, StepsOfTools
<1>2. DeviceTypeOK'
  <2>1. \A d \in devices' : d.status \in SUBSET Statuses /\ d.smart \in BOOLEAN
    BY DEF DevicesInv, DevicesSound, DeviceTypeOK
  <2>2. disks' \subseteq UNION DiskLists
    BY DEF DevicesInv, DevicesSound, DeviceTypeOK
  <2> QED
    BY <2>1, <2>2 DEF DevicesInv, DevicesSound, DeviceTypeOK
<1>3. UnknownIsTold'
  BY DEF DevicesInv, DevicesSound, UnknownIsTold
<1>4. NamesOf(devices') \cup NamesOf(disks') = NamesOf(devices) \cup NamesOf(disks)
  BY DEF NamesOf
<1>5. \E listed \in DiskLists : NamesOf(listed) = NamesOf(devices) \cup NamesOf(disks)
  BY DEF DevicesInv, DisksKept
<1>6. DisksKept'
  BY <1>1, <1>4, <1>5 DEF DisksKept
<1>7. StepsOfTools' /\ BatteryKept' /\ PlugKept'
  BY <1>1 DEF DevicesInv, StepsOfTools, BatteryKept, PlugKept
<1> QED
  BY <1>1, <1>2, <1>3, <1>6, <1>7, NothingSaidNext DEF DevicesInv, DevicesSound

LEMMA StackKnows ==
    ASSUME NEW disk
    PROVE  /\ FromStack(disk).device = disk.device /\ FromStack(disk).smart = FALSE
           /\ FromStack(disk).status \in SUBSET Statuses
           /\ FromStack(disk).status = {} => Unknowable(disk) = {disk.device}
  BY DEF FromStack, StackStatus, Unknowable

LEMMA OtherReported == DevicesInv /\ ReportOther => DevicesInv'
PROOF
<1> SUFFICES ASSUME DevicesInv, ReportOther PROVE DevicesInv'
  OBVIOUS
<1>1. PICK disk \in disks :
        /\ disks' = disks \ {disk} /\ devices' = devices \cup {FromStack(disk)}
        /\ without' = without \cup Unknowable(disk)
  BY DEF ReportOther
<1>2. /\ devstep = "open" /\ devstep' = "open" /\ handle' = handle
      /\ UNCHANGED <<devtool, plugged, replugged, raw, battery, devsaid>>
  BY DEF ReportOther, powerVars
<1>3. handle' = FALSE
  BY <1>2 DEF DevicesInv, DevicesSound, DeviceTypeOK
<1>4. FromStack(disk).status = {} => disk.device \in without'
  BY <1>1, StackKnows
<1> QED
  BY <1>1, <1>2, <1>3, <1>4, StackKnows, DiskReported

LEMMA LogMissing == DevicesInv /\ NoLog => DevicesInv'
PROOF
<1> SUFFICES ASSUME DevicesInv, NoLog PROVE DevicesInv'
  OBVIOUS
<1>1. PICK disk \in disks :
        /\ disks' = disks \ {disk} /\ devices' = devices \cup {FromStack(disk)}
        /\ without' = without \cup Unknowable(disk)
  BY DEF NoLog
<1>2. /\ devstep \in {"open", "log"} /\ devstep' = "open" /\ handle' = FALSE
      /\ UNCHANGED <<devtool, plugged, replugged, raw, battery, devsaid>>
  BY DEF NoLog, powerVars
<1>3. FromStack(disk).status = {} => disk.device \in without'
  BY <1>1, StackKnows
<1> QED
  BY <1>1, <1>2, <1>3, StackKnows, DiskReported

LEMMA LogRead == DevicesInv /\ ReadSmartLog => DevicesInv'
PROOF
<1> SUFFICES ASSUME DevicesInv, ReadSmartLog PROVE DevicesInv'
  OBVIOUS
<1>1. PICK disk \in disks, log \in SmartLogs :
        /\ disks' = disks \ {disk}
        /\ devices' = devices \cup
             {[device |-> disk.device, status |-> {SmartStatus(log)}, smart |-> TRUE]}
  BY DEF ReadSmartLog
<1>2. /\ devstep = "log" /\ devstep' = "open" /\ handle' = FALSE /\ without' = without
      /\ UNCHANGED <<devtool, plugged, replugged, raw, battery, devsaid>>
  BY DEF ReadSmartLog, powerVars
<1> DEFINE report == [device |-> disk.device, status |-> {SmartStatus(log)}, smart |-> TRUE]
<1>3. /\ report.device = disk.device /\ report.status = {SmartStatus(log)}
      /\ report.smart \in BOOLEAN
  OBVIOUS
<1>4. SmartStatus(log) \in Statuses
  BY DEF SmartStatus, Statuses
<1>5. report.status \in SUBSET Statuses /\ report.status # {}
  BY <1>3, <1>4
<1> HIDE DEF report
<1>6. devices' = devices \cup {report}
  BY <1>1 DEF report
<1> QED
  BY <1>1, <1>2, <1>3, <1>5, <1>6, DiskReported

\* The drive is open exactly while its log is asked for.
LEMMA DriveOpened == DevicesInv /\ OpenDrive => DevicesInv'
PROOF
<1> SUFFICES ASSUME DevicesInv, OpenDrive PROVE DevicesInv'
  OBVIOUS
<1>1. /\ devstep = "open" /\ devstep' = "log" /\ handle' = TRUE /\ disks' = disks
      /\ devtool' = devtool /\ plugged' = plugged /\ replugged' = replugged
      /\ devices' = devices /\ raw' = raw /\ battery' = battery /\ devsaid' = devsaid
      /\ without' = without
  BY DEF OpenDrive, powerVars
<1>2. devtool = "disk_health" /\ devsaid.kind = "none"
  BY <1>1 DEF DevicesInv, StepsOfTools
<1>3. DeviceTypeOK'
  BY <1>1 DEF DevicesInv, DevicesSound, DeviceTypeOK
<1>4. UnknownIsTold'
  BY <1>1, <1>2 DEF UnknownIsTold, DevicesInv, DevicesSound
<1>5. StepsOfTools' /\ DisksKept' /\ BatteryKept' /\ PlugKept'
  BY <1>1, <1>2 DEF DevicesInv, StepsOfTools, DisksKept, BatteryKept, PlugKept
<1> QED
  BY <1>1, <1>2, <1>3, <1>4, <1>5, NothingSaidNext DEF DevicesInv, DevicesSound

\* The report of the disks says the worst of what was found.
LEMMA DisksReported == DevicesInv /\ ReportDisks => DevicesInv'
PROOF
<1> SUFFICES ASSUME DevicesInv, ReportDisks PROVE DevicesInv'
  OBVIOUS
<1>1. /\ devstep = "open" /\ disks = {} /\ devstep' = "answered"
      /\ devsaid' = DiskReport(DiskStatus(devices), DiskCompleteness(devices, without))
      /\ disks' = disks /\ devtool' = devtool /\ plugged' = plugged
      /\ replugged' = replugged /\ devices' = devices /\ handle' = handle /\ raw' = raw
      /\ battery' = battery /\ without' = without
  BY DEF ReportDisks, powerVars, diskVars
<1>2. /\ devtool = "disk_health" /\ ~handle
      /\ \A d \in devices : d.status \in SUBSET Statuses
      /\ UnknownIsTold
  BY <1>1 DEF DevicesInv, DevicesSound, StepsOfTools, DeviceTypeOK
<1>3. /\ devsaid'.kind = "disks" /\ devsaid'.status = DiskStatus(devices)
      /\ devsaid'.completeness = DiskCompleteness(devices, without)
  BY <1>1 DEF DiskReport
<1>4. PICK listed \in DiskLists : NamesOf(listed) = NamesOf(devices) \cup NamesOf(disks)
  BY <1>1 DEF DevicesInv, DisksKept
<1>5. NamesOf(listed) = NamesOf(devices)
  BY <1>1, <1>4 DEF NamesOf
<1>6. ASSUME DiskStatus(devices) = "healthy", NEW d \in devices
      PROVE  d.status = {"healthy"}
  <2>1. d.status # {} /\ "critical" \notin d.status /\ "warning" \notin d.status
    BY <1>6 DEF DiskStatus
  <2> QED
    BY <1>2, <2>1 DEF Statuses
<1>7. DiskCompleteness(devices, without) = "full" =>
        without = {} /\ \A d \in devices : d.smart
  BY DEF DiskCompleteness
<1>8. DisksAreCounted'
  BY <1>1, <1>3, <1>5, <1>6, <1>7 DEF DisksAreCounted, NamesOf
<1>9. DeviceTypeOK'
  BY <1>1 DEF DevicesInv, DevicesSound, DeviceTypeOK
<1>10. UnknownIsTold' /\ BatteryIsTold' /\ PluggedNeverDischarges' /\ SourceAgrees'
  BY <1>1, <1>2, <1>3 DEF UnknownIsTold, BatteryIsTold, PluggedNeverDischarges,
     SourceAgrees
<1>11. StepsOfTools' /\ DisksKept' /\ BatteryKept' /\ PlugKept'
  BY <1>1, <1>2, <1>3 DEF DevicesInv, StepsOfTools, DisksKept, BatteryKept, PlugKept
<1> QED
  BY <1>1, <1>2, <1>8, <1>9, <1>10, <1>11 DEF DevicesInv, DevicesSound

-----------------------------------------------------------------------------
\* No disk is read by the tools that ask for the battery.
LEMMA NoDisksOfPower ==
    ASSUME DevicesInv, devstep \in {"raw", "rawAgain", "batteries", "wmi", "answer"}
    PROVE  devices = {} /\ ~handle /\ devsaid.kind = "none"
  BY DEF DevicesInv, StepsOfTools, DisksKept

\* The first reading: of the plug as it is, or none at all.
LEMMA RawRead == DevicesInv /\ ReadRaw => DevicesInv'
PROOF
<1> SUFFICES ASSUME DevicesInv, ReadRaw PROVE DevicesInv'
  OBVIOUS
<1>1. /\ devstep = "raw"
      /\ devstep' = IF devtool = "power_status" THEN "rawAgain" ELSE "batteries"
      /\ disks' = disks /\ devtool' = devtool /\ plugged' = plugged
      /\ replugged' = replugged /\ devices' = devices /\ handle' = handle
      /\ battery' = battery /\ devsaid' = devsaid
  BY DEF ReadRaw, diskVars
<1>2. /\ devices = {} /\ ~handle /\ devsaid.kind = "none" /\ without = {}
      /\ battery.health = {}
  BY <1>1, NoDisksOfPower DEF DevicesInv, BatteryKept
<1>3. "not_present" \notin without'
  BY <1>2 DEF ReadRaw
<1>4. /\ Cardinality(raw') <= 1
      /\ \A r \in raw' : r.ac \in {{}, {plugged}}
  <2>1. CASE raw' \in {{r} : r \in RawReadings}
    <3>1. PICK r \in RawReadings : raw' = {r}
      BY <2>1
    <3>2. r.ac \in {{}, {plugged}}
      BY DEF RawReadings
    <3>3. Cardinality({r}) = 1
      BY SmallSets, Zenon
    <3> QED
      BY <3>1, <3>2, <3>3
  <2>2. CASE raw' = {}
    BY <2>2, SmallSets
  <2> QED
    BY <2>1, <2>2 DEF ReadRaw
<1>5. DeviceTypeOK'
  BY <1>1, <1>4 DEF DevicesInv, DevicesSound, DeviceTypeOK
<1>6. UnknownIsTold'
  BY <1>1, <1>2 DEF UnknownIsTold
<1>7. devtool \in {"power_status", "battery_status"}
  BY <1>1 DEF DevicesInv, StepsOfTools
<1>8. StepsOfTools'
  BY <1>1, <1>2, <1>7 DEF DevicesInv, StepsOfTools
<1>9. DisksKept' /\ BatteryKept' /\ PlugKept'
  BY <1>1, <1>2, <1>3, <1>4 DEF DevicesInv, DisksKept, BatteryKept, PlugKept
<1> QED
  BY <1>1, <1>2, <1>5, <1>6, <1>8, <1>9, NothingSaidNext DEF DevicesInv, DevicesSound

\* The second reading of the plug, with what power_state makes of it.
LEMMA PowerRead == DevicesInv /\ ReadPowerState => DevicesInv'
PROOF
<1> SUFFICES ASSUME DevicesInv, ReadPowerState PROVE DevicesInv'
  OBVIOUS
<1>1. /\ devstep = "rawAgain" /\ devstep' = "answer"
      /\ disks' = disks /\ devtool' = devtool /\ plugged' = plugged
      /\ replugged' = replugged /\ devices' = devices /\ handle' = handle /\ raw' = raw
      /\ without' = without /\ devsaid' = devsaid
  BY DEF ReadPowerState, diskVars
<1>2. PICK ac \in {{}, {plugged}}, asked \in {"present", "absent", "failed"} :
        battery' = [present |-> asked = "present", health |-> {},
                    source |-> SourceOf(asked = "present", ac),
                    asked |-> asked, ac |-> ac]
  BY DEF ReadPowerState
<1>3. /\ "health" \in DOMAIN battery' /\ battery'.health = {} /\ battery'.asked = asked /\ battery'.ac = ac
      /\ battery'.source = SourceOf(asked = "present", ac)
  BY <1>2
<1>4. /\ devices = {} /\ ~handle /\ devsaid.kind = "none" /\ devtool = "power_status"
  BY <1>1, NoDisksOfPower DEF DevicesInv, StepsOfTools
<1>5. DeviceTypeOK'
  <2>1. Cardinality(battery'.health) <= 1
    BY <1>3, SmallSets
  <2> QED
    BY <1>1, <2>1 DEF DevicesInv, DevicesSound, DeviceTypeOK
<1>6. UnknownIsTold'
  BY <1>1, <1>4 DEF UnknownIsTold
<1>7. PlugKept'
  BY <1>1, <1>3 DEF DevicesInv, PlugKept
<1>8. StepsOfTools' /\ DisksKept' /\ BatteryKept'
  BY <1>1, <1>3, <1>4 DEF DevicesInv, StepsOfTools, DisksKept, BatteryKept
<1> QED
  BY <1>1, <1>4, <1>5, <1>6, <1>7, <1>8, NothingSaidNext DEF DevicesInv, DevicesSound

\* What a query of the battery leaves: a health, or a reading that is missing.
LEMMA BatteryAsked ==
    ASSUME DevicesInv, devstep \in {"batteries", "wmi"},
           devstep' \in {"wmi", "answer"},
           Cardinality(battery'.health) <= 1, "health" \in DOMAIN battery',
           devstep' = "wmi" => battery'.health = {} /\ "not_present" \notin without',
           devstep' = "answer" /\ "not_present" \in without' => battery'.health = {},
           devstep' = "answer" /\ battery'.health = {} => without' # {},
           UNCHANGED <<devtool, plugged, replugged, diskVars, raw, devsaid>>
    PROVE  DevicesInv'
PROOF
<1>1. /\ devices = {} /\ ~handle /\ devsaid.kind = "none" /\ devtool = "battery_status"
  BY NoDisksOfPower DEF DevicesInv, StepsOfTools
<1>2. disks' = disks /\ devices' = devices /\ handle' = handle
  BY DEF diskVars
<1>3. DeviceTypeOK'
  BY <1>2 DEF DevicesInv, DevicesSound, DeviceTypeOK
<1>4. UnknownIsTold'
  BY <1>1, <1>2 DEF UnknownIsTold
<1>5. StepsOfTools' /\ DisksKept' /\ BatteryKept' /\ PlugKept'
  BY <1>1, <1>2 DEF DevicesInv, StepsOfTools, DisksKept, BatteryKept, PlugKept
<1> QED
  BY <1>1, <1>2, <1>3, <1>4, <1>5, NothingSaidNext DEF DevicesInv, DevicesSound

LEMMA BatteryQueried == DevicesInv /\ AskBattery => DevicesInv'
PROOF
<1> SUFFICES ASSUME DevicesInv, AskBattery PROVE DevicesInv'
  OBVIOUS
<1>1. /\ devstep = "batteries"
      /\ UNCHANGED <<devtool, plugged, replugged, diskVars, raw, devsaid>>
  BY DEF AskBattery
<1>2. battery.health = {} /\ "not_present" \notin without /\ "health" \in DOMAIN battery
  BY <1>1 DEF DevicesInv, BatteryKept
<1>3. Cardinality(battery.health) <= 1
  BY <1>2, SmallSets
<1>4. CASE without' = without \cup {"not_present"} /\ battery' = battery
           /\ devstep' = "answer"
  BY <1>1, <1>2, <1>3, <1>4, BatteryAsked
<1>5. CASE without' = without \cup {"battery"} /\ battery' = battery /\ devstep' = "wmi"
  BY <1>1, <1>2, <1>3, <1>5, BatteryAsked
<1>6. ASSUME NEW design \in {{}} \cup {{c} : c \in Capacities},
             NEW full \in {{}} \cup {{c} : c \in Capacities},
             battery' = [battery EXCEPT !.health = HealthPercent(design, full)],
             devstep' = IF HealthPercent(design, full) = {} THEN "wmi" ELSE "answer",
             without' = without
      PROVE  DevicesInv'
  <2>1. battery'.health = HealthPercent(design, full) /\ "health" \in DOMAIN battery'
    BY <1>2, <1>6
  <2>2. Cardinality(HealthPercent(design, full)) <= 1
    BY OneHealth
  <2> QED
    BY <1>1, <1>2, <1>6, <2>1, <2>2, BatteryAsked
<1> QED
  BY <1>4, <1>5, <1>6 DEF AskBattery

LEMMA WmiQueried == DevicesInv /\ AskRootWmi => DevicesInv'
PROOF
<1> SUFFICES ASSUME DevicesInv, AskRootWmi PROVE DevicesInv'
  OBVIOUS
<1>1. /\ devstep = "wmi" /\ devstep' = "answer"
      /\ UNCHANGED <<devtool, plugged, replugged, diskVars, raw, devsaid>>
  BY DEF AskRootWmi
<1>2. battery.health = {} /\ "not_present" \notin without /\ "health" \in DOMAIN battery
  BY <1>1 DEF DevicesInv, BatteryKept, StepsOfTools
<1>3. PICK full \in {{}} \cup {{c} : c \in Capacities},
           design \in {{}} \cup {{c} : c \in Capacities} :
        IF full \ {0} = {}
        THEN without' = without \cup {"battery_full_charge"} /\ UNCHANGED battery
        ELSE /\ battery' = [battery EXCEPT !.health =
                              IF design \ {0} = {} THEN {UnknownPercent}
                              ELSE HealthPercent(design, full)]
             /\ UNCHANGED without
  BY DEF AskRootWmi
<1>4. CASE full \ {0} = {}
  <2>1. Cardinality(battery.health) <= 1
    BY <1>2, SmallSets
  <2> QED
    BY <1>1, <1>2, <1>3, <1>4, <2>1, BatteryAsked
<1>5. CASE full \ {0} # {}
  <2> DEFINE health == IF design \ {0} = {} THEN {UnknownPercent}
                       ELSE HealthPercent(design, full)
  <2>0. battery' = [battery EXCEPT !.health = health] /\ without' = without
    BY <1>3, <1>5
  <2> HIDE DEF health
  <2>1. battery'.health = health /\ "health" \in DOMAIN battery'
    BY <1>2, <2>0
  <2>2. Cardinality({UnknownPercent}) = 1
    BY SmallSets, Zenon
  <2>3. Cardinality(health) <= 1 /\ health # {}
    BY <1>5, <2>2, OneHealth DEF health
  <2> QED
    BY <1>1, <1>2, <2>0, <2>1, <2>3, BatteryAsked
<1> QED
  BY <1>4, <1>5

LEMMA BatteryReported == DevicesInv /\ ReportBattery => DevicesInv'
PROOF
<1> SUFFICES ASSUME DevicesInv, ReportBattery PROVE DevicesInv'
  OBVIOUS
<1> DEFINE status == IF "not_present" \in without THEN "not_present"
                     ELSE IF without # {} /\ battery.health = {} THEN "limited"
                     ELSE "ok"
           state == StateLabel(BatteryPresent, RawPercent, RawCharging, RawAc)
<1>1. /\ devtool = "battery_status" /\ devstep = "answer" /\ devstep' = "answered"
      /\ UNCHANGED <<devtool, plugged, replugged, disks, devices, handle, raw, battery,
                     without>>
  BY DEF ReportBattery, diskVars, powerVars
<1>2. /\ devsaid'.kind = "battery" /\ devsaid'.status = status
      /\ devsaid'.present <=> BatteryPresent
      /\ devsaid'.state = state
  BY DEF ReportBattery
<1>3. /\ devices = {} /\ ~handle
      /\ "not_present" \in without => battery.health = {}
      /\ battery.health = {} => without # {}
  BY <1>1, NoDisksOfPower DEF DevicesInv, BatteryKept
<1>4. BatteryPresent \in BOOLEAN /\ RawCharging \in BOOLEAN
  BY DEF BatteryPresent, RawCharging
<1>5. /\ RawAc = {TRUE} => state # "discharging"
      /\ ~BatteryPresent => state = "none"
  <2>1. RawAc = {TRUE} => state # "discharging"
    BY <1>4, StateLabels
  <2>2. ~BatteryPresent => state = "none"
    BY DEF StateLabel
  <2> QED
    BY <2>1, <2>2
<1>6. status = "ok" <=> battery.health # {}
  BY <1>3
<1>7. ~BatteryPresent => battery.health = {}
  BY <1>3 DEF BatteryPresent
<1> HIDE DEF status, state
<1>8. BatteryIsTold'
  BY <1>1, <1>2, <1>5, <1>6, <1>7 DEF BatteryIsTold
<1>9. PluggedNeverDischarges'
  BY <1>1, <1>2, <1>5 DEF PluggedNeverDischarges, RawAc
<1>10. DisksAreCounted' /\ UnknownIsTold' /\ SourceAgrees'
  BY <1>1, <1>2, <1>3 DEF DisksAreCounted, UnknownIsTold, SourceAgrees
<1>11. DeviceTypeOK'
  BY <1>1 DEF DevicesInv, DevicesSound, DeviceTypeOK
<1>12. StepsOfTools' /\ DisksKept' /\ BatteryKept' /\ PlugKept'
  BY <1>1, <1>2, <1>3 DEF DevicesInv, StepsOfTools, DisksKept, BatteryKept, PlugKept
<1> QED
  BY <1>1, <1>3, <1>8, <1>9, <1>10, <1>11, <1>12 DEF DevicesInv, DevicesSound

\* The two readings of an unmoved plug do not contradict one another.
LEMMA SourcesAgree ==
    ASSUME plugged \in BOOLEAN,
           \A r \in raw : r.ac \in {{}, {plugged}},
           NEW ac \in {{}, {plugged}}, ac # {}
    PROVE  /\ SourceOf(TRUE, ac) = "ac" => FALSE \notin RawAc
           /\ SourceOf(TRUE, ac) = "battery" => TRUE \notin RawAc
PROOF
<1>1. ac = {plugged}
  OBVIOUS
<1>2. RawAc \subseteq {plugged}
  BY DEF RawAc
<1>3. CASE plugged = TRUE
  BY <1>1, <1>2, <1>3 DEF SourceOf
<1>4. CASE plugged = FALSE
  BY <1>1, <1>2, <1>4 DEF SourceOf
<1> QED
  BY <1>3, <1>4

LEMMA PowerReported == DevicesInv /\ ReportPower => DevicesInv'
PROOF
<1> SUFFICES ASSUME DevicesInv, ReportPower PROVE DevicesInv'
  OBVIOUS
<1> DEFINE state == StateLabel(battery.present, RawPercent, RawCharging, RawAc)
<1>1. /\ devtool = "power_status" /\ devstep = "answer" /\ devstep' = "answered"
      /\ UNCHANGED <<devtool, plugged, replugged, disks, devices, handle, raw, battery,
                     without>>
  BY DEF ReportPower, diskVars, powerVars
<1>2. /\ devsaid'.kind = "power" /\ devsaid'.source = battery.source
      /\ devsaid'.ac = RawAc /\ devsaid'.state = state
  BY DEF ReportPower
<1>3. devices = {} /\ ~handle /\ plugged \in BOOLEAN
  BY <1>1, NoDisksOfPower DEF DevicesInv, DevicesSound, DeviceTypeOK
<1>4. RawAc = {TRUE} => state # "discharging"
  BY DEF StateLabel
<1> HIDE DEF state
<1>5. PluggedNeverDischarges'
  BY <1>1, <1>2, <1>4 DEF PluggedNeverDischarges, RawAc
<1>6. SourceAgrees'
  <2> SUFFICES ASSUME ~replugged, battery.asked = "present", battery.ac # {}
               PROVE  /\ battery.source = "ac" => FALSE \notin RawAc
                      /\ battery.source = "battery" => TRUE \notin RawAc
    BY <1>1, <1>2 DEF SourceAgrees
  <2>1. /\ \A r \in raw : r.ac \in {{}, {plugged}}
        /\ \E ac \in {{}, {plugged}} : \E asked \in {"present", "absent", "failed"} :
             /\ battery.asked = asked /\ battery.ac = ac
             /\ battery.source = SourceOf(asked = "present", ac)
    BY <1>1 DEF DevicesInv, PlugKept
  <2>2. PICK ac \in {{}, {plugged}} :
          battery.ac = ac /\ battery.source = SourceOf(TRUE, ac)
    BY <2>1
  <2> QED
    BY <1>3, <2>1, <2>2, SourcesAgree
<1>7. DisksAreCounted' /\ UnknownIsTold' /\ BatteryIsTold'
  BY <1>1, <1>2, <1>3 DEF DisksAreCounted, UnknownIsTold, BatteryIsTold
<1>8. DeviceTypeOK'
  BY <1>1 DEF DevicesInv, DevicesSound, DeviceTypeOK
<1>9. StepsOfTools' /\ DisksKept' /\ BatteryKept' /\ PlugKept'
  BY <1>1, <1>2, <1>3 DEF DevicesInv, StepsOfTools, DisksKept, BatteryKept, PlugKept
<1> QED
  BY <1>1, <1>3, <1>5, <1>6, <1>7, <1>8, <1>9 DEF DevicesInv, DevicesSound

LEMMA DevicesMove == DevicesInv /\ [DevicesNext]_deviceVars => DevicesInv'
PROOF
<1> SUFFICES ASSUME DevicesInv, [DevicesNext]_deviceVars PROVE DevicesInv'
  OBVIOUS
<1>1. CASE Replug
  BY <1>1, PlugMoves
<1>2. CASE StartDevices
  BY <1>2, DevicesStart
<1>3. CASE NoDiskList
  BY <1>3, DisksUnlisted
<1>4. CASE ListDisks
  BY <1>4, DisksListed
<1>5. CASE ReadStack
  BY <1>5, StackRead
<1>6. CASE ReportOther
  BY <1>6, OtherReported
<1>7. CASE OpenDrive
  BY <1>7, DriveOpened
<1>8. CASE ReadSmartLog
  BY <1>8, LogRead
<1>9. CASE NoLog
  BY <1>9, LogMissing
<1>10. CASE ReportDisks
  BY <1>10, DisksReported
<1>11. CASE ReadRaw
  BY <1>11, RawRead
<1>12. CASE ReadPowerState
  BY <1>12, PowerRead
<1>13. CASE AskBattery
  BY <1>13, BatteryQueried
<1>14. CASE AskRootWmi
  BY <1>14, WmiQueried
<1>15. CASE ReportBattery
  BY <1>15, BatteryReported
<1>16. CASE ReportPower
  BY <1>16, PowerReported
<1>17. CASE DevicesReturn
  BY <1>17, ReturnedDevices DEF DevicesInv, DevicesSound
<1>18. CASE UNCHANGED deviceVars
  <2>1. DevicesSound'
    <3>1. DeviceTypeOK'
      BY <1>18 DEF deviceVars, DevicesInv, DevicesSound, DeviceTypeOK
    <3>2. DisksAreCounted' /\ UnknownIsTold' /\ BatteryIsTold'
      BY <1>18 DEF deviceVars, DevicesInv, DevicesSound, DisksAreCounted,
         UnknownIsTold, BatteryIsTold
    <3>3. PluggedNeverDischarges' /\ SourceAgrees'
      BY <1>18 DEF deviceVars, DevicesInv, DevicesSound, PluggedNeverDischarges,
         SourceAgrees, RawAc
    <3> QED
      BY <3>1, <3>2, <3>3 DEF DevicesSound
  <2>2. StepsOfTools' /\ DisksKept' /\ BatteryKept' /\ PlugKept'
    BY <1>18 DEF deviceVars, DevicesInv, StepsOfTools, DisksKept, BatteryKept, PlugKept
  <2> QED
    BY <1>18, <2>1, <2>2 DEF deviceVars, DevicesInv
<1> QED
  BY <1>1, <1>2, <1>3, <1>4, <1>5, <1>6, <1>7, <1>8, <1>9, <1>10, <1>11, <1>12,
     <1>13, <1>14, <1>15, <1>16, <1>17, <1>18 DEF DevicesNext

\* Whichever sources of a device report fail, and however the plug moves between its
\* readings, the report is of every disk that was listed, says of none that it is well
\* without having asked, leaves no drive open, and does not contradict the plug
\* (disk_health, nvme_health_log, battery_status, power_status, power_state).
THEOREM DevicesAreSound == DevicesSpec => []DevicesSound
PROOF
<1>1. DevicesIdle => DevicesInv
  BY IdleDevices
<1>2. DevicesInv /\ [DevicesNext]_deviceVars => DevicesInv'
  BY DevicesMove
<1>3. DevicesInv => DevicesSound
  BY DEF DevicesInv
<1> QED
  BY <1>1, <1>2, <1>3, PTL DEF DevicesSpec

-----------------------------------------------------------------------------
(* SystemTables.  While a call is served the rows that were there all the  *)
(* time become fewer and those that were there at some time become more;   *)
(* what is copied lies between the two for the tables that are done.       *)

Copiers == TableTools \ {"get_service", "wait_for_http", "wait_for_process"}
Waits == {"wait_for_port", "wait_for_http", "wait_for_process"}
ServiceRows == {r \in TableRows : r.table = "service" /\ r.key = query.key}

\* What was there all the time is there now, and what is there now was there at some
\* time; each step is one of the tool's own.
TablesTyped ==
    /\ qstep = "idle" => TablesIdle
    /\ qstep # "idle" => query \in TableQueries
    /\ qstep # "answered" => treply = NoTableReply
    /\ qstep \in {"idle", "size", "fetch", "resolve", "open", "status", "config size",
                  "config", "look", "missed", "answered"}
    /\ lasting \subseteq present /\ present \subseteq glimpsed /\ glimpsed \subseteq TableRows
    /\ altered \in 0..MostChanges
    /\ holders \in [Owners -> Nat] /\ settings \in [Services -> Nat]
    /\ sized \in Nat /\ copied \in Seq(TableRows) /\ resolved \in Seq(Nat \cup {NoRow})
    /\ callFailed \in BOOLEAN

StepOfTool ==
    /\ qstep \in {"size", "fetch", "resolve"} => query.tool \in Copiers
    /\ qstep \in {"open", "status", "config size", "config"} => query.tool = "get_service"
    /\ qstep = "look" => query.tool \in {"wait_for_http", "wait_for_process"}
    /\ qstep = "missed" => query.tool \in Waits
    /\ qstep \notin {"resolve", "missed", "answered"} => resolved = <<>>
    /\ qstep \in {"size", "fetch"} =>
         \/ toCopy = TablesOf(query.tool)
         \/ toCopy = <<"udp">> /\ TablesOf(query.tool) = <<"tcp", "udp">>

\* The tables of which no wanted row was left out.
TablesDone ==
    CASE qstep \in {"size", "fetch"} /\ toCopy # TablesOf(query.tool) -> {"tcp"}
      [] qstep = "resolve" /\ (FirstRows(query) => Len(copied) < query.limit) ->
           Range(TablesOf(query.tool))
      [] OTHER -> {}

CopiedWell ==
    query.tool \in Copiers =>
        /\ IsInjective(copied)
        /\ \A r \in Range(copied) : /\ r \in glimpsed /\ Wanted(query, r)
                                    /\ r.table \in Range(TablesOf(query.tool))
        /\ FirstRows(query) => Len(copied) <= query.limit
        /\ qstep \in {"size", "fetch"} =>
             IF toCopy = TablesOf(query.tool) THEN copied = <<>>
             ELSE /\ \A r \in Range(copied) : r.table = "tcp"
                  /\ FirstRows(query) => Len(copied) < query.limit
        /\ copied # <<>> =>
             Head(copied).table = "tcp" \/ \A r \in Range(copied) : r.table # "tcp"
        /\ \A r \in lasting : Wanted(query, r) /\ r.table \in TablesDone
                                => r \in Range(copied)
        /\ Len(resolved) <= Len(Rows(query)) * Len(FieldsOf(query))

\* A buffer is too small only if something has changed.
SizedWell ==
    qstep = "fetch" /\ glimpsed = lasting =>
        sized = Cardinality(RowsOf(Head(toCopy), present))

OfOneService ==
    /\ qstep \in {"status", "config size", "config"} => query.key \in Services
    /\ qstep \in {"config size", "config"} =>
         copied # <<>> /\ Range(copied) \subseteq ServiceRows
    /\ qstep = "config" /\ altered = 0 => sized = settings[query.key]

\* Why a wait's check did not succeed.
Missed ==
    qstep = "missed" /\ ~callFailed /\ glimpsed = lasting =>
         LET there == {r \in lasting :
                         IF query.tool = "wait_for_process" THEN r.pid = query.owner
                         ELSE /\ r.table = "tcp" /\ r.listens /\ r.key = query.key
                              /\ query.owner \in {NoOwner, r.pid}}
         IN  /\ query.tool # "wait_for_port" => there = {}
             /\ there # {} => \E r \in lasting : /\ r.table = "tcp" /\ r.listens
                                                 /\ r.key = query.key
                                                 /\ r.pid # query.owner

\* The row that the i-th value was read of.
RowPlace(i) ==
    IF query.tool = "get_service" THEN 1 ELSE (i - 1) \div Len(FieldsOf(query)) + 1

ResolvedWell ==
    /\ Len(resolved) <= 3 * Len(copied)
    /\ \A i \in 1..Len(resolved) : resolved[i] # NoRow =>
         /\ RowPlace(i) \in 1..Len(copied)
         /\ LET r == copied[RowPlace(i)]
            IN  IF r.table = "service" THEN resolved[i] \in 0..settings[r.key]
                ELSE r.pid \in Owners /\ resolved[i] \in 0..holders[r.pid]

TablesInv ==
    /\ TablesTyped /\ StepOfTool /\ CopiedWell /\ SizedWell /\ OfOneService /\ Missed
    /\ ResolvedWell
    /\ qstep = "answered" =>
         ListHonest /\ OwnerHonest /\ FailsForAReason /\ ToldAsItWas /\ WaitHonest
\* The order in which a set is copied has each of its elements once.
LEMMA SetAsSequence ==
  ASSUME NEW S, IsFiniteSet(S)
  PROVE  /\ SetToSeq(S) \in Seq(S) /\ Len(SetToSeq(S)) = Cardinality(S)
         /\ IsInjective(SetToSeq(S)) /\ Range(SetToSeq(S)) = S
<1> DEFINE n == Cardinality(S)
           s == SetToSeq(S)
<1>1. n \in Nat /\ ExistsBijection(1..n, S)
  BY FS_CardinalityType
<1>2. \E f \in [1..n -> S] : IsInjective(f)
  BY <1>1 DEF ExistsBijection, Bijection, Injection
<1>3. s \in [1..n -> S] /\ IsInjective(s)
  BY <1>2 DEF SetToSeq
<1>4. s \in Seq(S) /\ Len(s) = n
  BY <1>1, <1>3
<1>5. IsFiniteSet(1..n) /\ Cardinality(1..n) = n
  BY <1>1, FS_Interval
<1>6. s \in Injection(1..n, S)
  BY <1>3 DEF Injection
<1>7. s \in Surjection(1..n, S)
  BY <1>5, <1>6, FS_Injection, Zenon
<1>8. Range(s) = S
  BY <1>3, <1>7 DEF Range, Surjection
<1> QED BY <1>3, <1>4, <1>8

\* A list without repetitions has as many elements as its length tells.
LEMMA DistinctElements ==
  ASSUME NEW S, NEW u \in Seq(S), IsInjective(u)
  PROVE  IsFiniteSet(Range(u)) /\ Cardinality(Range(u)) = Len(u)
<1> DEFINE n == Len(u)
<1>1. n \in Nat /\ DOMAIN u = 1..n /\ u \in [1..n -> Range(u)]
  BY DEF Range
<1>2. u \in Surjection(1..n, Range(u)) /\ u \in Injection(1..n, Range(u))
  BY <1>1 DEF Surjection, Injection, Range
<1>3. IsFiniteSet(1..n) /\ Cardinality(1..n) = n
  BY <1>1, FS_Interval
<1> QED BY <1>2, <1>3, FS_Surjection, Zenon

\* What is copied up to a limit: the first k of v after u.
Taken(u, v, k) == u \o SubSeq(v, 1, k)

LEMMA TakeSome ==
  ASSUME NEW S, NEW u \in Seq(S), NEW v \in Seq(S), IsInjective(u), IsInjective(v),
         Range(u) \cap Range(v) = {}, NEW k \in 0..Len(v),
         NEW T, T = Range(v)
  PROVE  LET w == Taken(u, v, k)
         IN  /\ w \in Seq(S) /\ Len(w) = Len(u) + k /\ IsInjective(w)
             /\ Range(u) \subseteq Range(w) /\ Range(w) \subseteq Range(u) \cup T
             /\ k = Len(v) => Range(w) = Range(u) \cup T
             /\ u # <<>> => w # <<>> /\ Head(w) = Head(u)
<1> DEFINE w == Taken(u, v, k)
<1>0. w = u \o SubSeq(v, 1, k)
  BY DEF Taken
<1> HIDE DEF w
<1>1. /\ SubSeq(v, 1, k) \in Seq(S) /\ Len(SubSeq(v, 1, k)) = k
      /\ \A i \in 1..k : SubSeq(v, 1, k)[i] = v[i]
  OBVIOUS
<1>2. /\ w \in Seq(S) /\ Len(w) = Len(u) + k
      /\ \A i \in 1..Len(w) : w[i] = IF i <= Len(u) THEN u[i] ELSE v[i - Len(u)]
  BY <1>0, <1>1
<1>3. IsInjective(w)
  <2> SUFFICES ASSUME NEW i \in 1..Len(w), NEW j \in 1..Len(w), w[i] = w[j], i < j
               PROVE  FALSE
    BY <1>2 DEF IsInjective
  <2>1. CASE j <= Len(u)
    <3>1. i \in 1..Len(u) /\ j \in 1..Len(u) /\ u[i] = u[j]
      BY <1>2, <2>1
    <3> QED BY <3>1 DEF IsInjective
  <2>2. CASE i > Len(u)
    <3>1. /\ i - Len(u) \in 1..Len(v) /\ j - Len(u) \in 1..Len(v)
          /\ v[i - Len(u)] = v[j - Len(u)] /\ i - Len(u) # j - Len(u)
      BY <1>2, <2>2
    <3> QED BY <3>1 DEF IsInjective
  <2>3. CASE i <= Len(u) /\ j > Len(u)
    <3>1. i \in 1..Len(u) /\ j - Len(u) \in 1..Len(v) /\ u[i] = v[j - Len(u)]
      BY <1>2, <2>3
    <3>2. u[i] \in Range(u) /\ v[j - Len(u)] \in Range(v)
      BY <3>1 DEF Range
    <3> QED BY <3>1, <3>2
  <2> QED BY <1>2, <2>1, <2>2, <2>3
<1>4. \A i \in 1..Len(u) : w[i] = u[i] /\ i \in 1..Len(w)
  BY <1>2
<1>5. Range(u) \subseteq Range(w)
  BY <1>2, <1>4 DEF Range
<1>6. Range(w) \subseteq Range(u) \cup Range(v)
  <2> SUFFICES ASSUME NEW i \in 1..Len(w) PROVE w[i] \in Range(u) \cup Range(v)
    BY <1>2 DEF Range
  <2>1. CASE i <= Len(u)
    BY <1>2, <2>1 DEF Range
  <2>2. CASE i > Len(u)
    <3>1. i - Len(u) \in 1..Len(v) /\ w[i] = v[i - Len(u)]
      BY <1>2, <2>2
    <3> QED BY <3>1 DEF Range
  <2> QED BY <1>2, <2>1, <2>2
<1>7. ASSUME k = Len(v), NEW j \in 1..Len(v) PROVE v[j] \in Range(w)
  <2>1. j + Len(u) \in 1..Len(w) /\ w[j + Len(u)] = v[j] /\ DOMAIN w = 1..Len(w)
    BY <1>2, <1>7
  <2>2. \E i \in DOMAIN w : w[i] = v[j]
    BY <2>1
  <2> QED BY <2>2 DEF Range
<1>8. k = Len(v) => Range(v) \subseteq Range(w)
  <2>1. DOMAIN v = 1..Len(v)
    OBVIOUS
  <2> QED BY <1>7, <2>1 DEF Range
<1>9. u # <<>> => w # <<>> /\ Head(w) = Head(u)
  BY <1>2
<1> QED BY <1>2, <1>3, <1>5, <1>6, <1>8, <1>9 DEF w

\* What the assumption on the constants says of rows, owners and calls.
LEMMA FiniteTables ==
  \A S : S \subseteq TableRows => IsFiniteSet(S) /\ Cardinality(S) \in Nat
<1> SUFFICES ASSUME NEW S, S \subseteq TableRows
             PROVE  IsFiniteSet(S) /\ Cardinality(S) \in Nat
  OBVIOUS
<1>1. IsFiniteSet(TableRows)
  BY RowsAssumption
<1> QED BY <1>1, FS_Subset, FS_CardinalityType

LEMMA RowsKnown ==
  \A r \in TableRows :
    /\ r.table \in {"tcp", "udp", "adapter", "service"}
    /\ r.key \in Nat /\ r.listens \in BOOLEAN /\ r.pid \in Nat
  BY RowsAssumption

LEMMA OwnersKnown ==
  \A r \in TableRows : /\ r.table = "service" => r.key \in Services
                       /\ r.pid # NoOwner => r.pid \in Owners
  BY DEF Services, Owners

LEMMA QueriesKnown ==
  /\ \A q \in TableQueries :
       /\ q.tool \in TableTools /\ q.limit \in Nat \ {0} /\ q.key \in Nat /\ q.owner \in Nat
       /\ q.tool = "wait_for_http" => q.owner = NoOwner
       /\ q.tool = "wait_for_process" => q.owner # NoOwner
  /\ MostChanges \in Nat
  /\ \A S \in FirstTables : S \subseteq TableRows
  BY RowsAssumption

\* Which tables a tool copies goes with what it reads of each row.
LEMMA ToolsKnown ==
  ASSUME NEW q \in TableQueries, q.tool \in Copiers
  PROVE  /\ TablesOf(q.tool) \in {<<"tcp", "udp">>, <<"tcp">>, <<"adapter">>, <<"service">>}
         /\ FirstTableStep(q.tool) = "size"
         /\ q.tool \notin {"get_service", "wait_for_http", "wait_for_process"}
         /\ q.tool \in Waits => q.tool = "wait_for_port"
         /\ \/ FieldsOf(q) = <<>>
            \/ /\ FieldsOf(q) = <<"name">>
               /\ TablesOf(q.tool) \in {<<"tcp", "udp">>, <<"tcp">>}
            \/ /\ FieldsOf(q) = <<"Start", "ImagePath", "ObjectName">>
               /\ TablesOf(q.tool) = <<"service">>
  BY QueriesKnown DEF Copiers, TableTools, TablesOf, FirstTableStep, FieldsOf, Waits

\* Every step keeps the invariant, one lemma for each of them.
LEMMA Asking == TablesInv /\ AskTable => TablesInv'
<1> SUFFICES ASSUME TablesInv, AskTable PROVE TablesInv'
  OBVIOUS
<1>1. TablesIdle /\ qstep = "idle"
  BY DEF AskTable, TablesInv, TablesTyped
<1>2. /\ query' \in TableQueries /\ toCopy' = TablesOf(query'.tool)
      /\ qstep' = FirstTableStep(query'.tool)
      /\ present' \in FirstTables /\ glimpsed' = present' /\ lasting' = present'
      /\ holders' = holders /\ settings' = settings /\ altered' = 0 /\ sized' = 0
      /\ copied' = <<>> /\ resolved' = <<>> /\ callFailed' = FALSE /\ treply' = NoTableReply
  BY <1>1 DEF AskTable, TablesIdle
<1>3. qstep' \in {"size", "open", "look"}
  BY <1>2 DEF FirstTableStep
<1>4. TablesTyped'
  <2>1. holders' \in [Owners -> Nat] /\ settings' \in [Services -> Nat]
    BY <1>1, <1>2 DEF TablesIdle, Untouched
  <2>2. present' \subseteq TableRows /\ altered' \in 0..MostChanges
    BY <1>2, QueriesKnown
  <2>3. copied' \in Seq(TableRows) /\ resolved' \in Seq(Nat \cup {NoRow}) /\ sized' \in Nat
    BY <1>2
  <2>4. qstep' # "idle" /\ qstep' # "answered" /\ callFailed' \in BOOLEAN
    BY <1>2, <1>3
  <2> QED BY <1>2, <1>3, <2>1, <2>2, <2>3, <2>4 DEF TablesTyped
<1>5. StepOfTool'
  BY <1>2, <1>3, QueriesKnown DEF StepOfTool, FirstTableStep, Copiers, TableTools
<1>6. CopiedWell'
  <2>1. Range(copied') = {} /\ IsInjective(copied')
    BY <1>2 DEF Range, IsInjective
  <2>2. TablesDone' = {}
    BY <1>2, <1>3 DEF TablesDone
  <2>3. FirstRows(query') => Len(copied') <= query'.limit
    BY <1>2, QueriesKnown
  <2>4. Rows(query)' = <<>>
    BY <1>2 DEF Rows
  <2>5. Len(resolved') <= Len(Rows(query)') * Len(FieldsOf(query'))
    BY <1>2, <2>4
  <2> QED BY <1>2, <1>3, <2>1, <2>2, <2>3, <2>5 DEF CopiedWell
<1>7. SizedWell' /\ OfOneService' /\ Missed' /\ ResolvedWell'
  <2>1. SizedWell'
    BY <1>3 DEF SizedWell
  <2>2. OfOneService'
    BY <1>3 DEF OfOneService
  <2>3. Missed'
    BY <1>3 DEF Missed
  <2>4. ResolvedWell'
    BY <1>2 DEF ResolvedWell
  <2> QED BY <2>1, <2>2, <2>3, <2>4
<1> QED BY <1>3, <1>4, <1>5, <1>6, <1>7 DEF TablesInv

LEMMA Emptied ==
  ASSUME query \in TableQueries, query.tool \in Copiers, copied \in Seq(TableRows)
  PROVE  0 <= Len(Rows(query)) * Len(FieldsOf(query))
<1>1. Len(Rows(query)) \in Nat
  BY DEF Rows
<1>2. Len(FieldsOf(query)) \in {0, 1, 3}
  BY ToolsKnown
<1> QED BY <1>1, <1>2

\* The rows of one table are added: none of them was there before, since the first
\* table's are TCP rows and the second's are not, and the second is copied only when
\* nothing of the first was cut off.
LEMMA Fetching == TablesInv /\ FetchTable => TablesInv'
<1> SUFFICES ASSUME TablesInv, FetchTable PROVE TablesInv'
  OBVIOUS
<1> DEFINE found == {r \in RowsOf(Head(toCopy), present) : Wanted(query, r)}
           rows == SetToSeq(found)
           room == IF FirstRows(query) THEN query.limit - Len(copied) ELSE Len(rows)
           k == IF room < Len(rows) THEN room ELSE Len(rows)
           all == Taken(copied, rows, k)
           more == Len(toCopy) > 1 /\ (FirstRows(query) => Len(all) < query.limit)
<1>1. /\ query \in TableQueries /\ query.tool \in Copiers /\ qstep = "fetch"
      /\ resolved = <<>> /\ treply = NoTableReply
      /\ \/ toCopy = TablesOf(query.tool)
         \/ toCopy = <<"udp">> /\ TablesOf(query.tool) = <<"tcp", "udp">>
      /\ copied \in Seq(TableRows) /\ present \subseteq TableRows
      /\ lasting \subseteq present /\ present \subseteq glimpsed
  BY DEF TablesInv, TablesTyped, StepOfTool, FetchTable
<1>2. /\ copied' = all
      /\ IF more THEN toCopy' = Tail(toCopy) /\ qstep' = "size"
         ELSE toCopy' = <<>> /\ qstep' = "resolve"
      /\ UNCHANGED <<query, present, holders, settings, altered, glimpsed, lasting, sized,
                     resolved, callFailed, treply>>
  BY DEF FetchTable, world, Taken
<1>3. /\ IsInjective(copied)
      /\ \A r \in Range(copied) : /\ r \in glimpsed /\ Wanted(query, r)
                                  /\ r.table \in Range(TablesOf(query.tool))
      /\ FirstRows(query) => Len(copied) < query.limit
      /\ toCopy = TablesOf(query.tool) => copied = <<>>
      /\ toCopy # TablesOf(query.tool) =>
           /\ \A r \in Range(copied) : r.table = "tcp"
           /\ \A r \in lasting : Wanted(query, r) /\ r.table = "tcp" => r \in Range(copied)
  BY <1>1, QueriesKnown DEF TablesInv, CopiedWell, TablesDone
<1>4. found \subseteq TableRows /\ \A r \in found : r \in present /\ r.table = Head(toCopy)
  BY <1>1 DEF RowsOf
<1>5. /\ rows \in Seq(TableRows) /\ rows \in Seq(found) /\ Len(rows) = Cardinality(found)
      /\ IsInjective(rows) /\ Range(rows) = found /\ Len(rows) \in Nat
  BY <1>4, SetAsSequence, FiniteTables
<1>6. Head(toCopy) \in Range(TablesOf(query.tool))
  BY <1>1, ToolsKnown DEF Range
<1>7. Range(copied) \cap Range(rows) = {}
  <2>1. CASE toCopy = TablesOf(query.tool)
    BY <1>3, <2>1 DEF Range
  <2>2. CASE toCopy # TablesOf(query.tool)
    BY <1>1, <1>3, <1>4, <1>5, <2>2
  <2> QED BY <2>1, <2>2
<1>8. k \in 0..Len(rows) /\ (FirstRows(query) => Len(copied) + k <= query.limit)
      /\ ((FirstRows(query) => Len(copied) + k < query.limit) => k = Len(rows))
  BY <1>1, <1>3, <1>5, QueriesKnown
<1>10. \A r \in present : r.table = Head(toCopy) /\ Wanted(query, r) <=> r \in found
  BY DEF RowsOf
<1> HIDE DEF found, rows, room, k, all
<1>11. /\ all \in Seq(TableRows) /\ Len(all) = Len(copied) + k /\ IsInjective(all)
       /\ Range(copied) \subseteq Range(all) /\ Range(all) \subseteq Range(copied) \cup found
       /\ k = Len(rows) => Range(all) = Range(copied) \cup found
       /\ copied # <<>> => all # <<>> /\ Head(all) = Head(copied)
  <2>1. /\ copied \in Seq(TableRows) /\ rows \in Seq(TableRows) /\ IsInjective(copied)
        /\ IsInjective(rows) /\ Range(copied) \cap Range(rows) = {} /\ k \in 0..Len(rows)
        /\ found = Range(rows)
    BY <1>1, <1>3, <1>5, <1>7, <1>8
  <2> QED BY <2>1, TakeSome DEF all
<1>12. /\ FirstRows(query) => Len(all) <= query.limit
       /\ (FirstRows(query) => Len(all) < query.limit) =>
            Range(all) = Range(copied) \cup found
  BY <1>8, <1>11
<1>13. TablesTyped'
  BY <1>1, <1>2, <1>11 DEF TablesInv, TablesTyped
<1>14. more => toCopy = <<"tcp", "udp">> /\ toCopy = TablesOf(query.tool)
  <2>1. TablesOf(query.tool) \in
          {<<"tcp", "udp">>, <<"tcp">>, <<"adapter">>, <<"service">>}
    BY <1>1, ToolsKnown
  <2>3. ASSUME NEW x, toCopy = <<x>> PROVE ~(Len(toCopy) > 1)
    <3>1. Len(toCopy) = 1
      BY <2>3
    <3> QED BY <3>1
  <2>4. more => toCopy = TablesOf(query.tool)
    BY <1>1, <2>3
  <2>5. more => toCopy \notin {<<"tcp">>, <<"adapter">>, <<"service">>}
    BY <2>3
  <2> QED BY <2>1, <2>4, <2>5
<1>15. StepOfTool'
  <2>1. more => toCopy' = <<"udp">> /\ TablesOf(query.tool) = <<"tcp", "udp">>
    <3>1. Tail(<<"tcp", "udp">>) = <<"udp">>
      OBVIOUS
    <3> QED BY <1>2, <1>14, <3>1
  <2>2. query' = query /\ resolved' = <<>> /\ qstep' \in {"size", "resolve"}
        /\ (qstep' = "size" => more)
    BY <1>1, <1>2
  <2> HIDE DEF more
  <2> QED BY <1>1, <2>1, <2>2 DEF StepOfTool
<1>16. \A r \in Range(all) : /\ r \in glimpsed /\ Wanted(query, r)
                            /\ r.table \in Range(TablesOf(query.tool))
  BY <1>1, <1>3, <1>4, <1>6, <1>10, <1>11
<1>17. all # <<>> =>
         Head(all).table = "tcp" \/ \A r \in Range(all) : r.table # "tcp"
  <2> SUFFICES ASSUME all # <<>>, Head(all).table # "tcp"
               PROVE  \A r \in Range(all) : r.table # "tcp"
    OBVIOUS
  <2>1. Head(all) \in Range(all) /\ (copied # <<>> => Head(copied) \in Range(copied))
    <3>1. 1 \in DOMAIN all /\ Head(all) = all[1]
      BY <1>11
    <3>2. copied # <<>> => 1 \in DOMAIN copied /\ Head(copied) = copied[1]
      BY <1>1
    <3> QED BY <3>1, <3>2 DEF Range
  <2>2. copied = <<>> \/ toCopy = TablesOf(query.tool)
    BY <1>1, <1>3, <1>11, <2>1
  <2>3. copied = <<>>
    BY <1>3, <2>2
  <2>4. Range(copied) = {}
    BY <2>3 DEF Range
  <2>5. Range(all) \subseteq found
    BY <1>11, <2>4
  <2> QED BY <1>4, <2>1, <2>5
<1>18. CASE more
  <2>1. TablesDone' = {"tcp"} /\ toCopy' = <<"udp">> /\ qstep' = "size"
        /\ toCopy' # TablesOf(query.tool)
    <3>1. Tail(<<"tcp", "udp">>) = <<"udp">> /\ <<"udp">> # <<"tcp", "udp">>
      OBVIOUS
    <3>2. toCopy' = <<"udp">> /\ qstep' = "size" /\ query' = query
          /\ toCopy' # TablesOf(query.tool)
      BY <1>2, <1>14, <1>18, <3>1
    <3> QED BY <3>2 DEF TablesDone
  <2>2. \A r \in Range(all) : r.table = "tcp"
    <3>1. Range(copied) = {}
      BY <1>3, <1>14, <1>18 DEF Range
    <3> QED BY <1>4, <1>11, <1>14, <1>18, <3>1
  <2>3. \A r \in lasting : Wanted(query, r) /\ r.table = "tcp" => r \in Range(all)
    BY <1>1, <1>10, <1>12, <1>14, <1>18
  <2>4. CopiedWell'
    BY <1>1, <1>2, <1>11, <1>12, <1>16, <1>17, <1>18, <2>1, <2>2, <2>3 DEF CopiedWell
  <2>5. SizedWell' /\ OfOneService' /\ Missed'
    BY <2>1 DEF SizedWell, OfOneService, Missed
  <2>6. ResolvedWell'
    BY <1>1, <1>2, <1>11 DEF ResolvedWell
  <2> QED BY <1>13, <1>15, <2>1, <2>4, <2>5, <2>6 DEF TablesInv
<1>19. CASE ~more
  <2>1. toCopy' = <<>> /\ qstep' = "resolve"
    BY <1>2, <1>19
  <2>2. ASSUME FirstRows(query) => Len(all) < query.limit,
               NEW r \in lasting, Wanted(query, r), r.table \in Range(TablesOf(query.tool))
        PROVE  r \in Range(all)
    <3>1. Range(all) = Range(copied) \cup found /\ Len(toCopy) <= 1
      BY <1>1, <1>12, <1>19, <2>2, ToolsKnown
    <3>2. CASE toCopy = TablesOf(query.tool)
      <4>1. r.table = Head(toCopy)
        BY <1>1, <2>2, <3>1, <3>2, ToolsKnown DEF Range
      <4> QED BY <1>1, <1>10, <2>2, <3>1, <4>1
    <3>3. CASE toCopy # TablesOf(query.tool)
      <4>1. r.table = "tcp" \/ r.table = Head(toCopy)
        BY <1>1, <2>2, <3>3 DEF Range
      <4> QED BY <1>1, <1>3, <1>10, <2>2, <3>1, <3>3, <4>1
    <3> QED BY <3>2, <3>3
  <2>3. \A r \in lasting : Wanted(query, r) /\ r.table \in TablesDone'
                           => r \in Range(all)
    BY <1>2, <2>1, <2>2 DEF TablesDone
  <2>4. CopiedWell'
    BY <1>1, <1>2, <1>11, <1>12, <1>16, <1>17, <2>1, <2>3 DEF CopiedWell
  <2>5. SizedWell' /\ OfOneService' /\ Missed'
    BY <2>1 DEF SizedWell, OfOneService, Missed
  <2>6. ResolvedWell'
    BY <1>1, <1>2, <1>11 DEF ResolvedWell
  <2> QED BY <1>13, <1>15, <2>1, <2>4, <2>5, <2>6 DEF TablesInv
<1> QED BY <1>18, <1>19

LEMMA Sizing == TablesInv /\ SizeTable => TablesInv'
<1> SUFFICES ASSUME TablesInv, SizeTable PROVE TablesInv'
  OBVIOUS
<1>1. /\ qstep = "size" /\ qstep' = "fetch"
      /\ sized' = Cardinality(RowsOf(Head(toCopy), present))
      /\ UNCHANGED <<query, present, holders, settings, altered, glimpsed, lasting, toCopy,
                     copied, resolved, callFailed, treply>>
  BY DEF SizeTable, world
<1>2. Cardinality(RowsOf(Head(toCopy), present)) \in Nat
  BY FiniteTables DEF RowsOf, TablesInv, TablesTyped
<1>3. TablesTyped'
  BY <1>1, <1>2 DEF TablesInv, TablesTyped
<1>4. StepOfTool'
  BY <1>1 DEF TablesInv, StepOfTool
<1>5. TablesDone' = TablesDone /\ Rows(query)' = Rows(query)
  BY <1>1 DEF TablesDone, Rows
<1>6. CopiedWell'
  BY <1>1, <1>5 DEF TablesInv, CopiedWell
<1>7. SizedWell'
  BY <1>1 DEF SizedWell, RowsOf
<1>8. OfOneService' /\ Missed' /\ ResolvedWell'
  BY <1>1 DEF TablesInv, OfOneService, Missed, ResolvedWell, RowPlace
<1> QED BY <1>1, <1>3, <1>4, <1>6, <1>7, <1>8 DEF TablesInv

\* A call of Windows that fails is an error, a count of nothing or a missed check.
LEMMA Failing ==
  ASSUME TablesInv, query.tool \in Copiers, resolved = <<>>,
         qstep \in {"size", "fetch"}, GiveError,
         UNCHANGED <<query, present, holders, settings, altered, glimpsed, lasting, toCopy,
                     sized, copied, resolved>>,
         callFailed' \in BOOLEAN, callFailed' \/ glimpsed # lasting
  PROVE  TablesInv'
<1>1. /\ qstep' \in {"answered", "missed"}
      /\ qstep' = "missed" => treply' = NoTableReply /\ query.tool = "wait_for_port"
      /\ qstep' = "answered" => treply' \in {[kind |-> "count", count |-> 0], [kind |-> "error"]}
  BY DEF GiveError, TablesInv, TablesTyped
<1>2. TablesTyped'
  BY <1>1 DEF TablesInv, TablesTyped
<1>3. StepOfTool'
  BY <1>1 DEF StepOfTool, Waits
<1>4. TablesDone' = {} /\ Rows(query)' = Rows(query)
  BY <1>1 DEF TablesDone, Rows
<1>5. CopiedWell'
  BY <1>1, <1>4 DEF TablesInv, CopiedWell
<1>6. SizedWell' /\ OfOneService' /\ Missed'
  BY <1>1 DEF SizedWell, OfOneService, Missed
<1>7. ResolvedWell'
  BY DEF TablesInv, ResolvedWell
<1>8. ASSUME qstep' = "answered"
      PROVE  ListHonest' /\ OwnerHonest' /\ FailsForAReason' /\ ToldAsItWas' /\ WaitHonest'
  <2>1. /\ treply'.kind \in {"count", "error"}
        /\ treply'.kind = "count" => treply'.count = 0
    BY <1>1, <1>8
  <2>2. ListHonest' /\ OwnerHonest' /\ WaitHonest'
    <3>1. treply'.kind \notin {"list", "owner", "completed", "gave up"}
      BY <2>1
    <3>2. ~(treply'.kind = "count" /\ treply'.count > 0)
      BY <2>1
    <3> QED BY <3>1, <3>2 DEF ListHonest, OwnerHonest, WaitHonest
  <2>3. FailsForAReason'
    BY DEF FailsForAReason
  <2>4. ToldAsItWas'
    <3>1. resolved' = <<>> /\ Len(<<>>) = 0
      OBVIOUS
    <3>2. \A i \in 1..Len(resolved') : FALSE
      BY <3>1
    <3>3. treply'.kind # "not found" /\ treply'.kind # "service"
      BY <2>1
    <3> QED BY <3>2, <3>3 DEF ToldAsItWas
  <2> QED BY <2>2, <2>3, <2>4
<1> QED BY <1>2, <1>3, <1>5, <1>6, <1>7, <1>8 DEF TablesInv

LEMMA SizingFails == TablesInv /\ SizeTableFails => TablesInv'
  BY Failing DEF SizeTableFails, world, TablesInv, StepOfTool, TablesTyped

LEMMA Outgrowing == TablesInv /\ TableOutgrown => TablesInv'
<1> SUFFICES ASSUME TablesInv, TableOutgrown PROVE TablesInv'
  OBVIOUS
<1>1. Cardinality(RowsOf(Head(toCopy), present)) \in Nat /\ sized \in Nat
  BY FiniteTables DEF RowsOf, TablesInv, TablesTyped
<1>2. glimpsed # lasting
  BY <1>1 DEF TableOutgrown, TablesInv, SizedWell
<1> QED BY <1>2, Failing DEF TableOutgrown, world, TablesInv, StepOfTool, TablesTyped

\* The place of the row that the next value belongs to.
LEMMA PlaceOfNext ==
  ASSUME NEW L \in Nat, NEW m \in Nat, NEW n \in {0, 1, 3}, L < m * n
  PROVE  /\ n \in {1, 3} /\ L \div n + 1 \in 1..m /\ L % n \in 0..(n - 1)
         /\ L + 1 <= m * n /\ L + 1 <= 3 * m
<1>1. n \in {1, 3}
  OBVIOUS
<1>2. CASE n = 1
  BY <1>2
<1>3. CASE n = 3
  BY <1>3
<1> QED BY <1>1, <1>2, <1>3

LEMMA ResolvingRows == TablesInv /\ ResolveNext => TablesInv'
<1> SUFFICES ASSUME TablesInv, ResolveNext PROVE TablesInv'
  OBVIOUS
<1> DEFINE fields == FieldsOf(query)
           n == Len(fields)
           L == Len(resolved)
           rows == Rows(query)
           i == L \div n + 1
           field == fields[(L % n) + 1]
<1>1. /\ query \in TableQueries /\ query.tool \in Copiers /\ qstep = "resolve"
      /\ treply = NoTableReply
      /\ copied \in Seq(TableRows) /\ resolved \in Seq(Nat \cup {NoRow})
      /\ holders \in [Owners -> Nat] /\ settings \in [Services -> Nat]
      /\ \A r \in Range(copied) : r.table \in Range(TablesOf(query.tool))
  BY DEF TablesInv, TablesTyped, StepOfTool, ResolveNext, CopiedWell
<1>2. PICK value \in FieldReadings(field, rows[i]) :
        /\ L < Len(rows) * n
        /\ resolved' = Append(resolved, value)
        /\ UNCHANGED <<query, qstep, present, holders, settings, altered, glimpsed, lasting,
                       toCopy, sized, copied, callFailed, treply>>
  BY DEF ResolveNext, world
<1>3. /\ rows \in Seq(TableRows) /\ Len(rows) \in Nat /\ Len(rows) <= Len(copied)
      /\ \A j \in 1..Len(rows) : rows[j] = copied[j] /\ j \in 1..Len(copied)
  BY <1>1 DEF Rows
<1>4. \/ fields = <<>>
      \/ fields = <<"name">> /\ TablesOf(query.tool) \in {<<"tcp", "udp">>, <<"tcp">>}
      \/ fields = <<"Start", "ImagePath", "ObjectName">> /\ TablesOf(query.tool) = <<"service">>
  BY <1>1, ToolsKnown
<1>5. n \in {0, 1, 3} /\ L \in Nat
  BY <1>1, <1>4
<1>6. /\ n \in {1, 3} /\ i \in 1..Len(rows) /\ L % n \in 0..(n - 1)
      /\ L + 1 <= Len(rows) * n /\ L + 1 <= 3 * Len(rows)
  <2> HIDE DEF n, L, rows
  <2> QED BY <1>2, <1>3, <1>5, PlaceOfNext
<1>7. rows[i] = copied[i] /\ i \in 1..Len(copied) /\ copied[i] \in TableRows
      /\ copied[i] \in Range(copied)
  BY <1>1, <1>3, <1>6 DEF Range
<1>8. /\ value \in Nat \cup {NoRow}
      /\ value # NoRow =>
           IF copied[i].table = "service" THEN value \in 0..settings[copied[i].key]
           ELSE copied[i].pid \in Owners /\ value \in 0..holders[copied[i].pid]
  <2>1. CASE fields = <<"name">> /\ TablesOf(query.tool) \in {<<"tcp", "udp">>, <<"tcp">>}
    <3>1. field = "name"
      BY <1>6, <2>1
    <3>2. copied[i].table # "service"
      <4>1. CASE TablesOf(query.tool) = <<"tcp", "udp">>
        <5>1. \A t \in Range(<<"tcp", "udp">>) : t # "service"
          BY DEF Range
        <5> QED BY <1>1, <1>7, <4>1, <5>1
      <4>2. CASE TablesOf(query.tool) = <<"tcp">>
        <5>1. \A t \in Range(<<"tcp">>) : t # "service"
          BY DEF Range
        <5> QED BY <1>1, <1>7, <4>2, <5>1
      <4> QED BY <2>1, <4>1, <4>2
    <3>3. copied[i].pid # NoOwner => copied[i].pid \in Owners
      BY <1>7, OwnersKnown
    <3>4. value \in IF copied[i].pid = NoOwner THEN {NoRow} ELSE {holders[copied[i].pid], NoRow}
      BY <1>2, <1>7, <3>1 DEF FieldReadings
    <3> HIDE DEF i
    <3> QED BY <1>1, <3>2, <3>3, <3>4
  <2>2. CASE /\ fields = <<"Start", "ImagePath", "ObjectName">>
             /\ TablesOf(query.tool) = <<"service">>
    <3>1. field # "name"
      BY <1>6, <2>2
    <3>2. copied[i].table = "service"
      BY <1>1, <1>7, <2>2 DEF Range
    <3>3. copied[i].key \in Services
      BY <1>7, <3>2, OwnersKnown
    <3>4. value \in {settings[copied[i].key], NoRow}
      BY <1>2, <1>7, <3>1 DEF FieldReadings
    <3> HIDE DEF i
    <3> QED BY <1>1, <3>2, <3>3, <3>4
  <2> QED BY <1>4, <1>6, <2>1, <2>2
<1>9. /\ resolved' \in Seq(Nat \cup {NoRow}) /\ Len(resolved') = L + 1
      /\ \A j \in 1..L : resolved'[j] = resolved[j]
      /\ resolved'[L + 1] = value
  BY <1>1, <1>2, <1>8
<1>10. TablesTyped'
  BY <1>1, <1>2, <1>9 DEF TablesInv, TablesTyped
<1>11. StepOfTool'
  BY <1>1, <1>2 DEF TablesInv, StepOfTool
<1>12. TablesDone' = TablesDone /\ Rows(query)' = rows
  BY <1>2 DEF TablesDone, Rows
<1>13. CopiedWell'
  BY <1>1, <1>2, <1>6, <1>9, <1>12 DEF TablesInv, CopiedWell
<1>14. SizedWell' /\ OfOneService' /\ Missed'
  BY <1>1, <1>2 DEF SizedWell, OfOneService, Missed
<1>15. ResolvedWell'
  <2>1. Len(resolved') <= 3 * Len(copied')
    BY <1>2, <1>3, <1>6, <1>9
  <2>2. \A j : RowPlace(j)' = RowPlace(j)
    BY <1>2 DEF RowPlace
  <2>3. RowPlace(L + 1) = i
    BY <1>1, <1>5 DEF RowPlace, Copiers
  <2> HIDE DEF i, n, L
  <2>4. ASSUME NEW j \in 1..Len(resolved'), resolved'[j] # NoRow
        PROVE  /\ RowPlace(j) \in 1..Len(copied)
               /\ LET r == copied[RowPlace(j)]
                  IN  IF r.table = "service" THEN resolved'[j] \in 0..settings[r.key]
                      ELSE r.pid \in Owners /\ resolved'[j] \in 0..holders[r.pid]
    <3>1. CASE j \in 1..L
      BY <1>9, <2>4, <3>1 DEF TablesInv, ResolvedWell, L
    <3>2. CASE j = L + 1
      BY <1>7, <1>8, <1>9, <2>3, <2>4, <3>2
    <3> QED BY <1>5, <1>9, <3>1, <3>2
  <2> QED BY <1>2, <2>1, <2>2, <2>4 DEF ResolvedWell
<1> QED BY <1>1, <1>2, <1>10, <1>11, <1>13, <1>14, <1>15 DEF TablesInv

LEMMA Answering == TablesInv /\ AnswerTable => TablesInv'
<1> SUFFICES ASSUME TablesInv, AnswerTable PROVE TablesInv'
  OBVIOUS
<1>1. /\ query \in TableQueries /\ query.tool \in Copiers /\ qstep = "resolve"
      /\ treply = NoTableReply /\ copied \in Seq(TableRows)
      /\ lasting \subseteq present /\ present \subseteq glimpsed /\ glimpsed \subseteq TableRows
      /\ qstep' \in {"answered", "missed"}
      /\ UNCHANGED <<query, present, holders, settings, altered, glimpsed, lasting, toCopy,
                     sized, copied, resolved, callFailed>>
  BY DEF TablesInv, TablesTyped, StepOfTool, AnswerTable, world
<1>2. /\ IsInjective(copied)
      /\ \A r \in Range(copied) : /\ r \in glimpsed /\ Wanted(query, r)
                                  /\ r.table \in Range(TablesOf(query.tool))
      /\ FirstRows(query) => Len(copied) <= query.limit
      /\ copied # <<>> =>
           Head(copied).table = "tcp" \/ \A r \in Range(copied) : r.table # "tcp"
      /\ (FirstRows(query) => Len(copied) < query.limit) =>
           \A r \in lasting : Wanted(query, r) /\ r.table \in Range(TablesOf(query.tool))
                             => r \in Range(copied)
  BY <1>1 DEF TablesInv, CopiedWell, TablesDone
<1>3. copied # <<>> => Head(copied) \in Range(copied) /\ Head(copied) \in TableRows
  BY <1>1 DEF Range
<1>4. /\ qstep' = "missed" =>
           /\ query.tool = "wait_for_port" /\ treply' = NoTableReply
           /\ copied = <<>> \/ query.owner \notin {NoOwner, Head(copied).pid}
      /\ qstep' = "answered" =>
           \/ /\ query.tool = "wait_for_port" /\ copied # <<>>
              /\ query.owner \in {NoOwner, Head(copied).pid}
              /\ treply' = [kind |-> "completed", row |-> Head(copied)]
           \/ query.tool = "find_process_on_port" /\ treply' = [kind |-> "owner", rows |-> Rows(query)]
           \/ /\ query.tool \in {"connection_count", "service_summary"}
              /\ treply' = [kind |-> "count", count |-> Len(copied)]
           \/ /\ query.tool \notin {"wait_for_port", "find_process_on_port",
                                    "connection_count", "service_summary"}
              /\ treply' = [kind |-> "list", rows |-> copied,
                            truncated |-> IF FirstRows(query) THEN Len(copied) >= query.limit
                                          ELSE copied # <<>>]
  BY <1>1 DEF AnswerTable
<1>5. TablesTyped'
  BY <1>1, <1>4 DEF TablesInv, TablesTyped
<1>6. StepOfTool'
  BY <1>1, <1>4 DEF StepOfTool, Waits
<1>7. TablesDone' = {} /\ Rows(query)' = Rows(query)
  BY <1>1 DEF TablesDone, Rows
<1>8. CopiedWell'
  BY <1>1, <1>7 DEF TablesInv, CopiedWell
<1>9. SizedWell' /\ OfOneService'
  BY <1>1 DEF SizedWell, OfOneService
<1>10. ResolvedWell'
  BY <1>1 DEF TablesInv, ResolvedWell, RowPlace
<1> USE DEF NoOwner
<1>11. Missed'
  <2> SUFFICES ASSUME qstep' = "missed", glimpsed = lasting,
                      NEW r \in lasting, r.table = "tcp", r.listens, r.key = query.key,
                      query.owner \in {NoOwner, r.pid}
               PROVE  \E s \in lasting : /\ s.table = "tcp" /\ s.listens /\ s.key = query.key
                                         /\ s.pid # query.owner
    BY <1>1, <1>4 DEF Missed
  <2>1. /\ query.tool = "wait_for_port" /\ TablesOf(query.tool) = <<"tcp", "udp">>
        /\ ~FirstRows(query)
    BY <1>4 DEF TablesOf, FirstRows
  <2>2. Wanted(query, r) /\ "tcp" \in Range(TablesOf(query.tool))
    BY <2>1 DEF Wanted, Range
  <2>3. r \in Range(copied)
    BY <1>2, <2>1, <2>2
  <2>4. copied # <<>>
    BY <2>3 DEF Range
  <2>5. Head(copied).table = "tcp"
    BY <1>2, <2>3, <2>4
  <2>6. /\ Head(copied) \in lasting /\ Head(copied).key = query.key /\ Head(copied).listens
        /\ Head(copied).pid # query.owner
    BY <1>2, <1>3, <1>4, <2>1, <2>4, <2>5 DEF Wanted
  <2> QED BY <2>5, <2>6
<1>12. ASSUME qstep' = "answered" PROVE ToldAsItWas'
  <2>1. treply'.kind \in {"completed", "owner", "count", "list"}
    <3>1. CASE treply' = [kind |-> "completed", row |-> Head(copied)]
      BY <3>1
    <3>2. CASE treply' = [kind |-> "owner", rows |-> Rows(query)]
      BY <3>2
    <3>3. CASE treply' = [kind |-> "count", count |-> Len(copied)]
      BY <3>3
    <3>4. CASE \E b : treply' = [kind |-> "list", rows |-> copied, truncated |-> b]
      BY <3>4
    <3> QED BY <1>4, <1>12, <3>1, <3>2, <3>3, <3>4
  <2> QED BY <1>1, <1>10, <2>1 DEF ToldAsItWas, ResolvedWell, RowPlace
<1>13. ASSUME qstep' = "answered", query.tool = "wait_for_port"
       PROVE  ListHonest' /\ OwnerHonest' /\ FailsForAReason' /\ WaitHonest'
  <2>1. /\ treply' = [kind |-> "completed", row |-> Head(copied)] /\ copied # <<>>
        /\ query.owner \in {NoOwner, Head(copied).pid}
    BY <1>4, <1>13
  <2>2. ListHonest' /\ OwnerHonest' /\ FailsForAReason'
    BY <2>1 DEF ListHonest, OwnerHonest, FailsForAReason
  <2>3. Head(copied) \in glimpsed /\ Head(copied).key = query.key
    BY <1>2, <1>3, <1>13, <2>1 DEF Wanted
  <2>4. WaitHonest'
    BY <1>1, <2>1, <2>3 DEF WaitHonest
  <2> QED BY <2>2, <2>4
<1>14. ASSUME qstep' = "answered", query.tool = "find_process_on_port"
       PROVE  ListHonest' /\ OwnerHonest' /\ FailsForAReason' /\ WaitHonest'
  <2>1. treply' = [kind |-> "owner", rows |-> Rows(query)]
    BY <1>4, <1>14
  <2>2. ListHonest' /\ FailsForAReason' /\ WaitHonest'
    BY <2>1 DEF ListHonest, FailsForAReason, WaitHonest
  <2>3. TablesOf(query.tool) = <<"tcp", "udp">> /\ ~FirstRows(query)
    BY <1>14 DEF TablesOf, FirstRows
  <2>4. Range(TablesOf(query.tool)) = {"tcp", "udp"}
    BY <2>3 DEF Range
  <2>5. \A r \in lasting : r.table \in {"tcp", "udp"} /\ Wanted(query, r) => r \in Range(copied)
    BY <1>2, <2>3, <2>4
  <2>6. Rows(query) = IF copied # <<>> THEN <<Head(copied)>> ELSE <<>>
    BY <1>14 DEF Rows
  <2>7. CASE copied = <<>>
    <3>1. Range(copied) = {} /\ treply'.rows = <<>>
      BY <2>1, <2>6, <2>7 DEF Range
    <3>2. OwnerHonest'
      BY <1>1, <2>1, <2>5, <3>1 DEF OwnerHonest
    <3> QED BY <2>2, <3>2
  <2>8. CASE copied # <<>>
    <3>1. treply'.rows = <<Head(copied)>> /\ treply'.kind = "owner"
      BY <2>1, <2>6, <2>8
    <3>2. treply'.rows # <<>> /\ Head(treply'.rows) = Head(copied)
      BY <3>1
    <3>3. Head(copied) \in glimpsed /\ Head(copied).key = query.key
      BY <1>2, <1>3, <1>14, <2>8 DEF Wanted
    <3>4. Head(copied).table = "udp" =>
            \A r \in lasting : ~(r.table = "tcp" /\ Wanted(query, r))
      BY <1>2, <2>5, <2>8
    <3>5. OwnerHonest'
      BY <1>1, <3>1, <3>2, <3>3, <3>4 DEF OwnerHonest, RowsOf
    <3> QED BY <2>2, <3>5
  <2> QED BY <2>7, <2>8
<1>15. ASSUME qstep' = "answered", query.tool \in {"connection_count", "service_summary"}
       PROVE  ListHonest' /\ OwnerHonest' /\ FailsForAReason' /\ WaitHonest'
  <2>1. treply' = [kind |-> "count", count |-> Len(copied)]
    BY <1>4, <1>15
  <2>2. ListHonest' /\ WaitHonest'
    BY <2>1 DEF ListHonest, WaitHonest
  <2>3. PICK t : TablesOf(query.tool) = <<t>> /\ ~FirstRows(query)
    BY <1>15 DEF TablesOf, FirstRows
  <2>4. Head(TablesOf(query.tool)) = t /\ Range(TablesOf(query.tool)) = {t}
    BY <2>3 DEF Range
  <2>5. \A r : Wanted(query, r)
    BY <1>15 DEF Wanted
  <2>6. {r \in lasting : r.table = t} \subseteq Range(copied)
    BY <1>2, <2>3, <2>4, <2>5
  <2>7. Range(copied) \subseteq RowsOf(t, glimpsed)
    BY <1>2, <2>4 DEF RowsOf
  <2>8. IsFiniteSet(Range(copied)) /\ Cardinality(Range(copied)) = Len(copied)
    BY <1>1, <1>2, DistinctElements
  <2>9. IsFiniteSet(RowsOf(t, glimpsed))
    BY <1>1, FiniteTables DEF RowsOf
  <2>10. Cardinality({r \in lasting : r.table = t}) <= Len(copied)
    BY <2>6, <2>8, FS_Subset
  <2>11. Len(copied) <= Cardinality(RowsOf(t, glimpsed))
    BY <2>7, <2>8, <2>9, FS_Subset
  <2>12. Cardinality({r \in lasting : r.table = t}) \in Nat
         /\ Cardinality(RowsOf(t, glimpsed)) \in Nat
    BY <1>1, FiniteTables DEF RowsOf
  <2>13. OwnerHonest'
    <3>1. treply'.kind = "count" /\ treply'.count = Len(copied)
      BY <2>1
    <3>2. Head(TablesOf(query'.tool)) = t /\ lasting' = lasting /\ glimpsed' = glimpsed
      BY <1>1, <2>4
    <3> QED BY <1>1, <2>10, <2>11, <2>12, <3>1, <3>2 DEF OwnerHonest
  <2>14. FailsForAReason'
    <3> SUFFICES ASSUME Len(copied) = 0, glimpsed = lasting PROVE RowsOf(t, present) = {}
      BY <1>1, <2>1, <2>4 DEF FailsForAReason
    <3>1. Range(copied) = {}
      BY <1>1 DEF Range
    <3> QED BY <1>1, <2>6, <3>1 DEF RowsOf
  <2> QED BY <2>2, <2>13, <2>14
<1>16. ASSUME qstep' = "answered",
              query.tool \notin {"wait_for_port", "find_process_on_port",
                                 "connection_count", "service_summary"}
       PROVE  ListHonest' /\ OwnerHonest' /\ FailsForAReason' /\ WaitHonest'
  <2>1. treply' = [kind |-> "list", rows |-> copied,
                   truncated |-> IF FirstRows(query) THEN Len(copied) >= query.limit
                                 ELSE copied # <<>>]
    BY <1>4, <1>16
  <2>2. treply'.kind = "list" /\ treply'.rows = copied
        /\ (~treply'.truncated /\ FirstRows(query) => ~(Len(copied) >= query.limit))
    BY <2>1
  <2>3. OwnerHonest' /\ FailsForAReason' /\ WaitHonest'
    BY <2>2 DEF OwnerHonest, FailsForAReason, WaitHonest
  <2>4. Cardinality(Range(copied)) = Len(copied)
    BY <1>1, <1>2, DistinctElements
  <2>5. ~treply'.truncated =>
          \A r \in lasting : Wanted(query, r) /\ r.table \in Range(TablesOf(query.tool))
                            => r \in Range(copied)
    BY <1>1, <1>2, <2>2, QueriesKnown
  <2>6. ListHonest'
    BY <1>1, <1>2, <2>2, <2>4, <2>5 DEF ListHonest
  <2> QED BY <2>3, <2>6
<1> QED BY <1>1, <1>5, <1>6, <1>8, <1>9, <1>10, <1>11, <1>12, <1>13, <1>14, <1>15, <1>16
        DEF TablesInv

\* get_service: what is opened outlives its deletion.
LEMMA OpeningService == TablesInv /\ OpenService => TablesInv'
<1> SUFFICES ASSUME TablesInv, OpenService PROVE TablesInv'
  OBVIOUS
<1>1. /\ query \in TableQueries /\ query.tool = "get_service" /\ qstep = "open"
      /\ treply = NoTableReply /\ resolved = <<>> /\ query.tool \notin Copiers
      /\ present \subseteq TableRows
      /\ UNCHANGED <<query, present, holders, settings, altered, glimpsed, lasting, toCopy,
                     sized, copied, resolved>>
  BY DEF TablesInv, TablesTyped, StepOfTool, OpenService, world, Copiers
<1>2. \/ /\ ServiceRow # {} /\ qstep' = "status"
         /\ callFailed' = callFailed /\ treply' = NoTableReply
      \/ /\ callFailed' = (ServiceRow # {}) /\ qstep' = "answered"
         /\ treply' = [kind |-> "not found"]
      \/ callFailed' = TRUE /\ qstep' = "answered" /\ treply' = [kind |-> "error"]
  BY <1>1 DEF OpenService, GiveError
<1>3. TablesTyped'
  BY <1>1, <1>2 DEF TablesInv, TablesTyped
<1>4. StepOfTool'
  BY <1>1, <1>2 DEF StepOfTool
<1>5. CopiedWell' /\ SizedWell' /\ Missed'
  BY <1>1, <1>2 DEF CopiedWell, SizedWell, Missed
<1>6. OfOneService'
  <2>1. ServiceRow # {} => query.key \in Services
    BY <1>1 DEF ServiceRow, RowsOf, Services
  <2> QED BY <1>1, <1>2, <2>1 DEF OfOneService
<1>7. ResolvedWell'
  BY <1>1 DEF TablesInv, ResolvedWell
<1>8. ASSUME qstep' = "answered"
      PROVE  ListHonest' /\ OwnerHonest' /\ FailsForAReason' /\ ToldAsItWas' /\ WaitHonest'
  <2>1. \/ treply'.kind = "not found" /\ callFailed' = (ServiceRow # {})
        \/ treply'.kind = "error" /\ callFailed'
    <3>1. CASE /\ callFailed' = (ServiceRow # {})
               /\ treply' = [kind |-> "not found"]
      <4>1. treply'.kind = "not found"
        BY <3>1
      <4> QED BY <3>1, <4>1
    <3>2. CASE callFailed' = TRUE /\ treply' = [kind |-> "error"]
      <4>1. treply'.kind = "error"
        BY <3>2
      <4> QED BY <3>2, <4>1
    <3> QED BY <1>2, <1>8, <3>1, <3>2
  <2>2. ListHonest' /\ OwnerHonest' /\ WaitHonest' /\ FailsForAReason'
    BY <2>1 DEF ListHonest, OwnerHonest, WaitHonest, FailsForAReason
  <2>3. ToldAsItWas'
    <3>1. resolved' = <<>> /\ Len(<<>>) = 0
      BY <1>1
    <3>2. \A i \in 1..Len(resolved') : FALSE
      BY <3>1
    <3>3. ServiceRow' = ServiceRow
      BY <1>1 DEF ServiceRow, RowsOf
    <3> QED BY <2>1, <3>2, <3>3 DEF ToldAsItWas
  <2> QED BY <2>2, <2>3
<1> QED BY <1>3, <1>4, <1>5, <1>6, <1>7, <1>8 DEF TablesInv

LEMMA ReadingStatus == TablesInv /\ ReadStatus => TablesInv'
<1> SUFFICES ASSUME TablesInv, ReadStatus PROVE TablesInv'
  OBVIOUS
<1>1. /\ query \in TableQueries /\ query.tool = "get_service" /\ qstep = "status"
      /\ query.key \in Services /\ resolved = <<>> /\ query.tool \notin Copiers
      /\ treply = NoTableReply
      /\ qstep' = "config size" /\ copied' = SetToSeq(ServiceRows)
      /\ UNCHANGED <<query, present, holders, settings, altered, glimpsed, lasting, toCopy,
                     sized, resolved, callFailed, treply>>
  BY DEF TablesInv, TablesTyped, StepOfTool, OfOneService, ReadStatus, world, Copiers, ServiceRows
<1>2. /\ copied' \in Seq(ServiceRows) /\ Range(copied') = ServiceRows
  BY <1>1, SetAsSequence, FiniteTables DEF ServiceRows
<1>3. copied' \in Seq(TableRows)
  BY <1>2 DEF ServiceRows
<1>4. copied' # <<>>
  <2>1. ServiceRows # {}
    BY <1>1 DEF Services, ServiceRows
  <2>2. Range(<<>>) = {}
    BY DEF Range
  <2> QED BY <1>2, <2>1, <2>2
<1>5. TablesTyped'
  BY <1>1, <1>3 DEF TablesInv, TablesTyped
<1>6. StepOfTool'
  BY <1>1 DEF StepOfTool
<1>7. CopiedWell' /\ SizedWell' /\ Missed'
  BY <1>1 DEF CopiedWell, SizedWell, Missed
<1>8. OfOneService'
  <2>1. ServiceRows' = ServiceRows
    BY <1>1 DEF ServiceRows
  <2> QED BY <1>1, <1>2, <1>4, <2>1 DEF OfOneService
<1>9. ResolvedWell'
  <2>1. resolved' = <<>> /\ Len(<<>>) = 0
    BY <1>1
  <2>2. Len(copied') \in Nat
    BY <1>3
  <2> QED BY <2>1, <2>2 DEF ResolvedWell
<1> QED BY <1>1, <1>5, <1>6, <1>7, <1>8, <1>9 DEF TablesInv

LEMMA SizingSettings == TablesInv /\ SizeSettings => TablesInv'
<1> SUFFICES ASSUME TablesInv, SizeSettings PROVE TablesInv'
  OBVIOUS
<1>1. /\ query \in TableQueries /\ query.tool = "get_service" /\ qstep = "config size"
      /\ query.key \in Services /\ resolved = <<>> /\ query.tool \notin Copiers
      /\ treply = NoTableReply /\ copied # <<>> /\ Range(copied) \subseteq ServiceRows
      /\ qstep' = "config" /\ sized' = settings[query.key]
      /\ settings \in [Services -> Nat]
      /\ UNCHANGED <<query, present, holders, settings, altered, glimpsed, lasting, toCopy,
                     copied, resolved, callFailed, treply>>
  BY DEF TablesInv, TablesTyped, StepOfTool, OfOneService, SizeSettings, world, Copiers
<1>2. TablesTyped'
  BY <1>1 DEF TablesInv, TablesTyped
<1>3. StepOfTool'
  BY <1>1 DEF StepOfTool
<1>4. CopiedWell' /\ SizedWell' /\ Missed'
  BY <1>1 DEF CopiedWell, SizedWell, Missed
<1>5. OfOneService'
  BY <1>1 DEF OfOneService, ServiceRows
<1>6. ResolvedWell'
  <2>1. resolved' = <<>> /\ Len(<<>>) = 0
    BY <1>1
  <2>2. copied' \in Seq(TableRows)
    BY <1>2 DEF TablesTyped
  <2>3. Len(copied') \in Nat
    BY <2>2
  <2> QED BY <2>1, <2>3 DEF ResolvedWell
<1> QED BY <1>1, <1>2, <1>3, <1>4, <1>5, <1>6 DEF TablesInv

LEMMA ReadingSettings == TablesInv /\ ReadSettings => TablesInv'
<1> SUFFICES ASSUME TablesInv, ReadSettings PROVE TablesInv'
  OBVIOUS
<1>1. /\ query \in TableQueries /\ query.tool = "get_service" /\ qstep = "config"
      /\ query.key \in Services /\ query.tool \notin Copiers
      /\ copied \in Seq(TableRows) /\ copied # <<>> /\ Range(copied) \subseteq ServiceRows
      /\ settings \in [Services -> Nat] /\ (altered = 0 => sized = settings[query.key])
      /\ qstep' = "answered" /\ treply' = [kind |-> "service", rows |-> copied]
      /\ UNCHANGED <<query, present, holders, settings, altered, glimpsed, lasting, toCopy,
                     sized, copied>>
  BY DEF TablesInv, TablesTyped, StepOfTool, OfOneService, ReadSettings, world, Copiers
<1>2. PICK value \in {settings[query.key], NoRow} :
        /\ callFailed' = (value = NoRow /\ settings[query.key] = sized)
        /\ resolved' = <<value, value, value>>
  BY DEF ReadSettings
<1>3. /\ value \in Nat \cup {NoRow} /\ (value # NoRow => value \in 0..settings[query.key])
      /\ (altered = 0 /\ ~callFailed' => value # NoRow) /\ callFailed' \in BOOLEAN
  <2>1. value \in Nat \cup {NoRow} /\ (value # NoRow => value \in 0..settings[query.key])
    BY <1>1, <1>2
  <2>2. callFailed' \in BOOLEAN
    BY <1>2, Zenon
  <2>3. altered = 0 /\ value = NoRow => callFailed'
    BY <1>1, <1>2, Zenon
  <2> QED BY <2>1, <2>2, <2>3
<1>4. /\ resolved' \in Seq(Nat \cup {NoRow}) /\ Len(resolved') = 3
      /\ \A i \in 1..3 : resolved'[i] = value
  BY <1>2, <1>3
<1>5. /\ 1 \in 1..Len(copied) /\ copied[1] \in TableRows
      /\ copied[1].table = "service" /\ copied[1].key = query.key
  <2>1. 1 \in 1..Len(copied) /\ 1 \in DOMAIN copied
    BY <1>1
  <2> QED BY <1>1, <2>1 DEF Range, ServiceRows
<1>6. TablesTyped'
  BY <1>1, <1>3, <1>4 DEF TablesInv, TablesTyped
<1>7. StepOfTool'
  BY <1>1 DEF StepOfTool
<1>8. CopiedWell' /\ SizedWell' /\ OfOneService' /\ Missed'
  BY <1>1 DEF CopiedWell, SizedWell, OfOneService, Missed
<1>9. ResolvedWell'
  <2>1. \A i : RowPlace(i)' = 1
    BY <1>1 DEF RowPlace
  <2>2. 3 <= 3 * Len(copied)
    BY <1>1, <1>5
  <2> QED BY <1>1, <1>3, <1>4, <1>5, <2>1, <2>2 DEF ResolvedWell
<1>10. ListHonest' /\ OwnerHonest' /\ FailsForAReason' /\ WaitHonest'
  <2>1. treply'.kind = "service"
    BY <1>1
  <2> QED BY <2>1 DEF ListHonest, OwnerHonest, FailsForAReason, WaitHonest
<1>11. ToldAsItWas'
  <2>1. treply'.kind = "service"
    BY <1>1
  <2>2. Range(resolved') = {value}
    BY <1>4 DEF Range
  <2>3. Cardinality(Range(resolved')) = 1
    BY <2>2, FS_Singleton
  <2>4. \A i \in 1..Len(resolved') : resolved'[i] # NoRow => resolved'[i] \in 0..settings[query.key]
    BY <1>3, <1>4
  <2> QED BY <1>1, <1>3, <1>4, <1>5, <2>1, <2>3, <2>4 DEF ToldAsItWas
<1> QED BY <1>6, <1>7, <1>8, <1>9, <1>10, <1>11 DEF TablesInv

\* A wait looks, looks again and gives up.
LEMMA Looking == TablesInv /\ LookOnce => TablesInv'
<1> SUFFICES ASSUME TablesInv, LookOnce PROVE TablesInv'
  OBVIOUS
<1> DEFINE hits == IF query.tool = "wait_for_http"
                   THEN {r \in RowsOf("tcp", present) : r.listens /\ r.key = query.key}
                   ELSE {r \in present : r.pid # NoOwner /\ r.pid = query.owner}
<1>1. /\ query \in TableQueries /\ query.tool \in {"wait_for_http", "wait_for_process"}
      /\ qstep = "look" /\ resolved = <<>> /\ query.tool \notin Copiers
      /\ treply = NoTableReply /\ copied \in Seq(TableRows)
      /\ lasting \subseteq present /\ present \subseteq glimpsed /\ glimpsed \subseteq TableRows
      /\ UNCHANGED <<query, present, holders, settings, altered, glimpsed, lasting, toCopy,
                     sized, copied, resolved, callFailed>>
  BY DEF TablesInv, TablesTyped, StepOfTool, LookOnce, world, Copiers
<1>2. \/ hits = {} /\ treply' = NoTableReply /\ qstep' = "missed"
      \/ /\ \E r \in hits : treply' = [kind |-> "completed", row |-> r]
         /\ qstep' = "answered"
  BY <1>1 DEF LookOnce
<1>3. TablesTyped'
  BY <1>1, <1>2 DEF TablesInv, TablesTyped
<1>4. StepOfTool'
  BY <1>1, <1>2 DEF StepOfTool, Waits
<1>5. CopiedWell' /\ SizedWell' /\ OfOneService'
  BY <1>1, <1>2 DEF CopiedWell, SizedWell, OfOneService
<1>6. Missed'
  <2> SUFFICES ASSUME hits = {},
                      NEW r \in lasting,
                      IF query.tool = "wait_for_process" THEN r.pid = query.owner
                      ELSE /\ r.table = "tcp" /\ r.listens /\ r.key = query.key
                           /\ query.owner \in {NoOwner, r.pid}
               PROVE  FALSE
    BY <1>1, <1>2 DEF Missed
  <2>1. CASE query.tool = "wait_for_process"
    BY <1>1, <2>1, QueriesKnown
  <2>2. CASE query.tool = "wait_for_http"
    BY <1>1, <2>2 DEF RowsOf
  <2> QED BY <1>1, <2>1, <2>2
<1>7. ResolvedWell'
  BY <1>1 DEF TablesInv, ResolvedWell
<1>8. ASSUME qstep' = "answered"
      PROVE  ListHonest' /\ OwnerHonest' /\ FailsForAReason' /\ ToldAsItWas' /\ WaitHonest'
  <2>1. PICK r \in hits : treply' = [kind |-> "completed", row |-> r]
    BY <1>2, <1>8
  <2>2. treply'.kind = "completed" /\ treply'.row = r
    BY <2>1
  <2>3. ListHonest' /\ OwnerHonest' /\ FailsForAReason'
    BY <2>2 DEF ListHonest, OwnerHonest, FailsForAReason
  <2>4. ToldAsItWas'
    <3>1. resolved' = <<>> /\ Len(<<>>) = 0
      BY <1>1
    <3>2. \A i \in 1..Len(resolved') : FALSE
      BY <3>1
    <3> QED BY <2>2, <3>2 DEF ToldAsItWas
  <2>5. /\ r \in glimpsed
        /\ query.owner # NoOwner => r.pid = query.owner
        /\ query.tool # "wait_for_process" => r.key = query.key
    <3>1. CASE query.tool = "wait_for_process"
      BY <1>1, <2>1, <3>1
    <3>2. CASE query.tool = "wait_for_http"
      BY <1>1, <2>1, <3>2, QueriesKnown DEF RowsOf
    <3> QED BY <1>1, <3>1, <3>2
  <2>6. WaitHonest'
    BY <1>1, <2>2, <2>5 DEF WaitHonest
  <2> QED BY <2>3, <2>4, <2>6
<1> QED BY <1>3, <1>4, <1>5, <1>6, <1>7, <1>8 DEF TablesInv

LEMMA CheckingAgain == TablesInv /\ CheckOnceMore => TablesInv'
<1> SUFFICES ASSUME TablesInv, CheckOnceMore PROVE TablesInv'
  OBVIOUS
<1>1. /\ query \in TableQueries /\ query.tool \in Waits /\ treply = NoTableReply
      /\ qstep = "missed" /\ qstep' = FirstTableStep(query.tool)
      /\ toCopy' = TablesOf(query.tool) /\ sized' = 0 /\ copied' = <<>> /\ resolved' = <<>>
      /\ present \subseteq TableRows /\ glimpsed' = present /\ lasting' = present
      /\ UNCHANGED <<query, present, holders, settings, altered, callFailed, treply>>
  BY DEF TablesInv, TablesTyped, StepOfTool, CheckOnceMore
<1>2. /\ qstep' \in {"size", "look"}
      /\ qstep' = "size" => query.tool = "wait_for_port"
      /\ qstep' = "look" => query.tool \in {"wait_for_http", "wait_for_process"}
  BY <1>1 DEF FirstTableStep, Waits
<1>3. TablesTyped'
  <2>1. copied' \in Seq(TableRows) /\ resolved' \in Seq(Nat \cup {NoRow}) /\ sized' \in Nat
    BY <1>1
  <2> QED BY <1>1, <1>2, <2>1 DEF TablesInv, TablesTyped
<1>4. StepOfTool'
  BY <1>1, <1>2 DEF StepOfTool, Copiers, TableTools
<1>5. CopiedWell'
  <2>1. Range(copied') = {} /\ IsInjective(copied')
    BY <1>1 DEF Range, IsInjective
  <2>2. TablesDone' = {}
    BY <1>1, <1>2 DEF TablesDone
  <2>3. FirstRows(query') => Len(copied') <= query'.limit
    BY <1>1, QueriesKnown
  <2>4. Rows(query)' = <<>>
    BY <1>1 DEF Rows
  <2>5. Len(resolved') <= Len(Rows(query)') * Len(FieldsOf(query'))
    BY <1>1, <2>4
  <2> QED BY <1>1, <1>2, <2>1, <2>2, <2>3, <2>5 DEF CopiedWell
<1>6. SizedWell' /\ OfOneService' /\ Missed'
  BY <1>2 DEF SizedWell, OfOneService, Missed
<1>7. ResolvedWell'
  BY <1>1 DEF ResolvedWell
<1> QED BY <1>2, <1>3, <1>4, <1>5, <1>6, <1>7 DEF TablesInv

LEMMA GivingUp == TablesInv /\ WaitEnds => TablesInv'
<1> SUFFICES ASSUME TablesInv, WaitEnds PROVE TablesInv'
  OBVIOUS
<1>1. /\ qstep = "missed" /\ qstep' = "answered" /\ treply' = [kind |-> "gave up"]
      /\ UNCHANGED <<query, present, holders, settings, altered, glimpsed, lasting, toCopy,
                     sized, copied, resolved, callFailed>>
  BY DEF WaitEnds, world
<1>2. treply'.kind = "gave up"
  BY <1>1
<1>3. TablesTyped'
  BY <1>1 DEF TablesInv, TablesTyped
<1>4. StepOfTool'
  BY <1>1 DEF StepOfTool
<1>5. TablesDone' = {} /\ Rows(query)' = Rows(query)
  BY <1>1 DEF TablesDone, Rows
<1>6. CopiedWell'
  BY <1>1, <1>5 DEF TablesInv, CopiedWell
<1>7. SizedWell' /\ OfOneService' /\ Missed'
  BY <1>1 DEF SizedWell, OfOneService, Missed
<1>8. ResolvedWell'
  BY <1>1 DEF TablesInv, ResolvedWell, RowPlace
<1>9. ListHonest' /\ OwnerHonest' /\ FailsForAReason'
  BY <1>2 DEF ListHonest, OwnerHonest, FailsForAReason
<1>10. ToldAsItWas'
  BY <1>1, <1>2, <1>8 DEF ToldAsItWas, ResolvedWell, RowPlace
<1>11. WaitHonest'
  BY <1>1, <1>2 DEF TablesInv, Missed, WaitHonest
<1> QED BY <1>3, <1>4, <1>6, <1>7, <1>8, <1>9, <1>10, <1>11 DEF TablesInv

\* A change leaves fewer rows that were there all the time and more that were there at
\* some time, and only adds to what may be told of a row.
LEMMA Altering == TablesInv /\ Alter => TablesInv'
<1> SUFFICES ASSUME TablesInv, Alter PROVE TablesInv'
  OBVIOUS
<1>1. /\ query \in TableQueries /\ qstep \notin {"idle", "answered"} /\ treply = NoTableReply
      /\ altered \in 0..MostChanges /\ altered < MostChanges /\ altered' = altered + 1
      /\ glimpsed' = glimpsed \cup present' /\ lasting' = lasting \cap present'
      /\ lasting \subseteq present /\ present \subseteq glimpsed /\ glimpsed \subseteq TableRows
      /\ holders \in [Owners -> Nat] /\ settings \in [Services -> Nat]
      /\ UNCHANGED <<query, qstep, toCopy, sized, copied, resolved, callFailed, treply>>
  BY DEF TablesInv, TablesTyped, Alter
<1>2. \/ /\ \E r \in TableRows :
              present' = IF r \in present THEN present \ {r} ELSE present \cup {r}
         /\ holders' = holders /\ settings' = settings
      \/ /\ \E p \in Owners : holders' = [holders EXCEPT ![p] = @ + 1]
         /\ present' = present /\ settings' = settings
      \/ /\ \E s \in Services : settings' = [settings EXCEPT ![s] = @ + 1]
         /\ present' = present /\ holders' = holders
  BY DEF Alter
<1>3. present' \subseteq TableRows
  BY <1>1, <1>2
<1>4. holders' \in [Owners -> Nat] /\ \A p \in Owners : holders[p] <= holders'[p]
  BY <1>1, <1>2
<1>5. settings' \in [Services -> Nat] /\ \A s \in Services : settings[s] <= settings'[s]
  BY <1>1, <1>2
<1>6. glimpsed \subseteq glimpsed' /\ lasting' \subseteq lasting
  BY <1>1
<1>7. glimpsed' = lasting' => glimpsed = lasting /\ lasting' = lasting /\ present' = present
  BY <1>1
<1>8. TablesTyped'
  <2>1. altered' \in 0..MostChanges
    BY <1>1, QueriesKnown
  <2>2. lasting' \subseteq present' /\ present' \subseteq glimpsed' /\ glimpsed' \subseteq TableRows
    BY <1>1, <1>3
  <2> QED BY <1>1, <1>4, <1>5, <2>1, <2>2 DEF TablesInv, TablesTyped
<1>9. StepOfTool'
  BY <1>1 DEF TablesInv, StepOfTool
<1>10. TablesDone' = TablesDone /\ Rows(query)' = Rows(query)
  BY <1>1 DEF TablesDone, Rows
<1>11. CopiedWell'
  BY <1>1, <1>6, <1>10 DEF TablesInv, CopiedWell
<1>12. SizedWell'
  BY <1>1, <1>7 DEF TablesInv, SizedWell
<1>13. OfOneService'
  <2>1. altered' # 0
    BY <1>1
  <2> QED BY <1>1, <2>1 DEF TablesInv, OfOneService, ServiceRows
<1>14. Missed'
  BY <1>1, <1>7 DEF TablesInv, Missed
<1>15. ResolvedWell'
  <2>1. \A i : RowPlace(i)' = RowPlace(i)
    BY <1>1 DEF RowPlace
  <2> SUFFICES ASSUME NEW i \in 1..Len(resolved), resolved[i] # NoRow
               PROVE  /\ RowPlace(i) \in 1..Len(copied)
                      /\ LET r == copied[RowPlace(i)]
                         IN  IF r.table = "service" THEN resolved[i] \in 0..settings'[r.key]
                             ELSE r.pid \in Owners /\ resolved[i] \in 0..holders'[r.pid]
    BY <1>1, <2>1 DEF TablesInv, ResolvedWell
  <2>2. /\ RowPlace(i) \in 1..Len(copied)
        /\ LET r == copied[RowPlace(i)]
           IN  IF r.table = "service" THEN resolved[i] \in 0..settings[r.key]
               ELSE r.pid \in Owners /\ resolved[i] \in 0..holders[r.pid]
    BY DEF TablesInv, ResolvedWell
  <2>3. copied \in Seq(TableRows) /\ resolved \in Seq(Nat \cup {NoRow})
    BY DEF TablesInv, TablesTyped
  <2>4. copied[RowPlace(i)] \in TableRows /\ resolved[i] \in Nat
    BY <2>2, <2>3
  <2>5. copied[RowPlace(i)].table = "service" => copied[RowPlace(i)].key \in Services
    BY <2>4, OwnersKnown
  <2> QED BY <1>1, <1>4, <1>5, <2>2, <2>4, <2>5
<1> QED BY <1>1, <1>8, <1>9, <1>11, <1>12, <1>13, <1>14, <1>15 DEF TablesInv

LEMMA TablesAtRest == TablesIdle => TablesInv
<1> SUFFICES ASSUME TablesIdle PROVE TablesInv
  OBVIOUS
<1>1. /\ qstep = "idle" /\ copied = <<>> /\ resolved = <<>> /\ treply = NoTableReply
      /\ query = NoQuery /\ lasting = {} /\ present = {} /\ glimpsed = {}
      /\ altered = 0 /\ sized = 0 /\ callFailed = FALSE
  BY DEF TablesIdle
<1>2. TablesTyped
  <2>1. holders \in [Owners -> Nat] /\ settings \in [Services -> Nat]
    BY DEF TablesIdle, Untouched
  <2>2. altered \in 0..MostChanges
    BY <1>1, QueriesKnown
  <2>3. copied \in Seq(TableRows) /\ resolved \in Seq(Nat \cup {NoRow}) /\ sized \in Nat
    BY <1>1
  <2> QED BY <1>1, <2>1, <2>2, <2>3 DEF TablesTyped
<1>3. StepOfTool
  BY <1>1 DEF StepOfTool
<1>4. CopiedWell
  BY <1>1 DEF CopiedWell, NoQuery, Copiers, TableTools
<1>5. SizedWell /\ OfOneService /\ Missed
  BY <1>1 DEF SizedWell, OfOneService, Missed
<1>6. ResolvedWell
  BY <1>1 DEF ResolvedWell
<1> QED BY <1>1, <1>2, <1>3, <1>4, <1>5, <1>6 DEF TablesInv

LEMMA Ending == EndQuery => TablesInv'
<1>1. EndQuery => TablesIdle'
  BY DEF EndQuery, TablesIdle, Untouched
<1>2. TablesIdle' => TablesInv'
  BY TablesAtRest, PTL
<1> QED BY <1>1, <1>2

LEMMA TablesStep == TablesInv /\ [TablesNext]_tableVars => TablesInv'
<1> SUFFICES ASSUME TablesInv, [TablesNext]_tableVars PROVE TablesInv'
  OBVIOUS
<1>1. CASE UNCHANGED tableVars
  <2>1. UNCHANGED <<query, qstep, present, holders, settings, altered, toCopy, sized, copied,
                    resolved, glimpsed, lasting, callFailed, treply>>
    BY <1>1 DEF tableVars
  <2>2. TablesTyped'
    BY <2>1 DEF TablesInv, TablesTyped, TablesIdle
  <2>3. StepOfTool' /\ SizedWell' /\ OfOneService'
    BY <2>1 DEF TablesInv, StepOfTool, SizedWell, OfOneService, ServiceRows, RowsOf
  <2>4. TablesDone' = TablesDone /\ Rows(query)' = Rows(query)
    BY <2>1 DEF TablesDone, Rows
  <2>5. CopiedWell'
    BY <2>1, <2>4 DEF TablesInv, CopiedWell
  <2>6. Missed'
    BY <2>1 DEF TablesInv, Missed
  <2>7. ResolvedWell'
    BY <2>1 DEF TablesInv, ResolvedWell, RowPlace
  <2>8. ASSUME qstep' = "answered"
        PROVE  ListHonest' /\ OwnerHonest' /\ FailsForAReason' /\ ToldAsItWas' /\ WaitHonest'
    <3>1. ListHonest /\ OwnerHonest /\ FailsForAReason /\ ToldAsItWas /\ WaitHonest
      BY <2>1, <2>8 DEF TablesInv
    <3>2. ListHonest' /\ OwnerHonest'
      BY <2>1, <3>1 DEF ListHonest, OwnerHonest
    <3>3. FailsForAReason' /\ WaitHonest'
      BY <2>1, <3>1 DEF FailsForAReason, WaitHonest
    <3>4. ToldAsItWas'
      BY <2>1, <3>1 DEF ToldAsItWas, ServiceRow
    <3> QED BY <3>2, <3>3, <3>4
  <2> QED BY <2>2, <2>3, <2>5, <2>6, <2>7, <2>8 DEF TablesInv
<1> QED
  BY <1>1, Asking, Sizing, SizingFails, Fetching, Outgrowing, ResolvingRows, Answering,
     OpeningService, ReadingStatus, SizingSettings, ReadingSettings, Looking, CheckingAgain,
     GivingUp, Altering, Ending DEF TablesNext

LEMMA TablesInvSuffices == TablesInv => TablesSound
<1> SUFFICES ASSUME TablesInv PROVE TablesSound
  OBVIOUS
<1>1. /\ copied \in Seq(TableRows) /\ present \subseteq TableRows /\ lasting \subseteq glimpsed
      /\ altered \in 0..MostChanges
  BY DEF TablesInv, TablesTyped
<1>2. Range(copied) \subseteq TableRows
  BY <1>1 DEF Range
<1>3. TablesTypeOK
  BY <1>1, <1>2 DEF TablesInv, ResolvedWell, TablesTypeOK
<1>4. CASE qstep = "answered"
  BY <1>3, <1>4 DEF TablesInv, TablesSound
<1>5. CASE qstep # "answered"
  <2>1. treply.kind = "none"
    <3>1. treply = [kind |-> "none"]
      BY <1>5 DEF TablesInv, TablesTyped, NoTableReply
    <3> QED BY <3>1
  <2>2. ListHonest /\ OwnerHonest /\ FailsForAReason /\ WaitHonest
    BY <2>1 DEF ListHonest, OwnerHonest, FailsForAReason, WaitHonest
  <2>3. ToldAsItWas
    BY <2>1 DEF TablesInv, ResolvedWell, RowPlace, ToldAsItWas
  <2> QED BY <1>3, <2>2, <2>3 DEF TablesSound
<1> QED BY <1>4, <1>5

\* What the tools tell of the tables was so while they looked, what a list or a lookup
\* leaves out was not there all the time, a call fails only for a reason and a wait
\* completes only with what was asked for, whatever the rows, the calls and the changes
\* between two calls of Windows (`tcp_table`, `process_on_port`, `list_services`,
\* `get_service`, `wait_for_condition`).
THEOREM TablesAreSound == TablesSpec => []TablesSound
<1>1. TablesSpec => []TablesInv
  BY TablesAtRest, TablesStep, PTL DEF TablesSpec
<1> QED BY <1>1, TablesInvSuffices, PTL

-----------------------------------------------------------------------------
(* Configuration.  A command is followed through its steps: what it found, *)
(* what it announced, and where the text it overwrites is kept.            *)

\* The greatest of the places of a line that answer a question is one of them.
LEMMA GreatestPlace ==
    ASSUME NEW n \in Nat, NEW T, T \subseteq 1..n, T # {}
    PROVE  Max(T) \in T
PROOF
<1> DEFINE R == {ss \in Nat \X Nat : ss[1] < ss[2]}
           U == {n - x : x \in T}
<1>1. IsWellFoundedOn(R, Nat)
  BY NatLessThanWellFounded, Zenon DEF OpToRel
<1>2. \A x, y \in Nat : y < x => <<y, x>> \in R
  OBVIOUS
<1>a. \A x \in T : x \in Nat /\ n - x \in Nat
  OBVIOUS
<1>3. U \subseteq Nat /\ U # {}
  BY <1>a
<1> HIDE DEF R
<1>4. PICK u \in U : \A y \in U : ~ (<<y, u>> \in R)
  BY <1>1, <1>3, WFMin
<1>5. \A y \in U : ~ (y < u)
  BY <1>2, <1>3, <1>4
<1>6. PICK m \in T : u = n - m
  BY <1>4
<1>b. \A y \in T : n - y \in U
  OBVIOUS
<1> HIDE DEF U
<1>7. \A y \in T : m >= y
  BY <1>5, <1>6, <1>a, <1>b
<1> QED
  BY <1>7 DEF Max

LEMMA OneOfThem == ASSUME NEW S, S # {} PROVE TheOne(S) \in S
  BY DEF TheOne

LEMMA ModeForms ==
    \A w \in DOMAIN ModeNames : \A v \in ModeNames[w] :
        v \in {"read_only", "safe"} /\ v \in DOMAIN ModeNames /\ ModeNames[v] # {}
  BY DEF ModeNames

LEMMA ProfileForms ==
    \A w \in DOMAIN ProfileNames : \A v \in ProfileNames[w] :
        v \in {"core", "developer"} /\ v \in DOMAIN ProfileNames
  BY DEF ProfileNames

LEMMA DefaultSettings ==
    /\ Defaults \in Settings /\ NoText.config = Defaults
    /\ ~NoText.there /\ ~NoText.parses /\ ModeNames[Defaults.mode] # {}
  BY ConfigAssumption DEF Defaults, Settings, ModeNames, ProfileNames, NoText

LEMMA SettingsFields ==
    ASSUME NEW c \in Settings
    PROVE  /\ DOMAIN c = {"mode", "profile", "external", "low_disk"}
           /\ c.mode \in DOMAIN ModeNames /\ c.profile \in DOMAIN ProfileNames
  BY DEF Settings

LEMMA LineWords ==
    ASSUME NEW line \in ConfigLines \cup {<<>>}
    PROVE  /\ Len(line) \in Nat /\ DOMAIN line = 1..Len(line)
           /\ \A i \in DOMAIN line : line[i].arg = "--set" =>
                /\ line[i].key = "mode" => line[i].word \in DOMAIN ModeNames
                /\ line[i].key = "profile" => line[i].word \in DOMAIN ProfileNames
PROOF
<1>1. CASE line = <<>>
  BY <1>1
<1>2. CASE line \in ConfigLines
  <2>1. line \in Seq([arg : STRING, key : STRING, word : STRING, number : Int])
    BY <1>2, ConfigAssumption
  <2>2. Len(line) \in Nat /\ DOMAIN line = 1..Len(line)
    BY <2>1
  <2> QED
    BY <1>2, <2>2, ConfigAssumption
<1> QED
  BY <1>1, <1>2

\* What a --set that is accepted gives its key.
LEMMA AcceptedForms ==
    ASSUME NEW line \in ConfigLines \cup {<<>>}, NEW i \in DOMAIN line,
           line[i].arg = "--set", Accepted(line[i]) # {}
    PROVE  /\ line[i].key = "mode" =>
                ModeNames[TheOne(Accepted(line[i]))] # {}
           /\ line[i].key = "low_disk" =>
                TheOne(Accepted(line[i])) \in LowestValue..HighestValue
PROOF
<1>1. TheOne(Accepted(line[i])) \in Accepted(line[i])
  BY OneOfThem
<1>2. CASE line[i].key = "mode"
  <2>1. Accepted(line[i]) = ModeNames[line[i].word]
    BY <1>2 DEF Accepted
  <2>2. line[i].word \in DOMAIN ModeNames
    BY <1>2, LineWords
  <2> QED
    BY <1>1, <1>2, <2>1, <2>2, ModeForms
<1>3. CASE line[i].key = "low_disk"
  <2>1. Accepted(line[i]) = {line[i].number} \cap (LowestValue..HighestValue)
    BY <1>3 DEF Accepted, set_u64
  <2> QED
    BY <1>1, <1>3, <2>1
<1> QED
  BY <1>2, <1>3

\* The last --set of a key is one of them.
LEMMA LastOfKey ==
    ASSUME NEW line \in ConfigLines \cup {<<>>}, NEW k,
           {i \in Places(line, "--set") : line[i].key = k} # {}
    PROVE  LET last == Max({i \in Places(line, "--set") : line[i].key = k})
           IN  last \in DOMAIN line /\ line[last].arg = "--set" /\ line[last].key = k
PROOF
<1> DEFINE T == {i \in Places(line, "--set") : line[i].key = k}
<1>1. T \subseteq 1..Len(line) /\ Len(line) \in Nat
  BY LineWords DEF Places
<1>2. Max(T) \in T
  BY <1>1, GreatestPlace
<1> QED
  BY <1>2 DEF Places

\* apply_set: a key that has a new value was named; a mode that was one still is, and
\* a number that was in range still is.
LEMMA AppliedKeepsSense ==
    ASSUME NEW line \in ConfigLines \cup {<<>>}, NEW c \in Settings, AllAccepted(line)
    PROVE  LET d == Applied(c, line)
           IN  /\ DOMAIN d = DOMAIN c
               /\ \A k \in DOMAIN d : d[k] # c[k] =>
                    \E i \in 1..Len(line) : line[i].key = k \/ line[i].arg = "--profile"
               /\ ModeNames[c.mode] # {} => ModeNames[d.mode] # {}
               /\ c.low_disk \in LowestValue..HighestValue
                    => d.low_disk \in LowestValue..HighestValue
PROOF
<1> DEFINE d == Applied(c, line)
           SetsOf(k) == {i \in Places(line, "--set") : line[i].key = k}
           last(k) == Max(SetsOf(k))
<1>1. DOMAIN d = DOMAIN c
  BY DEF Applied
<1>2. DOMAIN c = {"mode", "profile", "external", "low_disk"}
  BY SettingsFields
<1>3. ASSUME NEW k \in DOMAIN c, SetsOf(k) # {}
      PROVE  /\ d[k] = TheOne(Accepted(line[last(k)]))
             /\ last(k) \in DOMAIN line /\ line[last(k)].arg = "--set"
             /\ line[last(k)].key = k /\ Accepted(line[last(k)]) # {}
  <2>1. d[k] = TheOne(Accepted(line[last(k)]))
    BY <1>3 DEF Applied
  <2>2. last(k) \in DOMAIN line /\ line[last(k)].arg = "--set" /\ line[last(k)].key = k
    BY <1>3, LastOfKey
  <2>3. Accepted(line[last(k)]) # {}
    BY <2>2 DEF AllAccepted, Places
  <2> QED
    BY <2>1, <2>2, <2>3
<1>4. ASSUME NEW k \in DOMAIN c, SetsOf(k) = {}
      PROVE  \/ d[k] = c[k]
             \/ k = "profile" /\ Places(line, "--profile") # {}
  BY <1>4 DEF Applied
<1>5. ASSUME NEW k \in DOMAIN d, d[k] # c[k]
      PROVE  \E i \in 1..Len(line) : line[i].key = k \/ line[i].arg = "--profile"
  <2>1. DOMAIN line = 1..Len(line)
    BY LineWords
  <2>2. CASE SetsOf(k) # {}
    BY <1>1, <1>3, <2>1, <2>2
  <2>3. CASE SetsOf(k) = {}
    BY <1>1, <1>4, <1>5, <2>1, <2>3 DEF Places
  <2> QED
    BY <2>2, <2>3
<1>6. ASSUME ModeNames[c.mode] # {} PROVE ModeNames[d.mode] # {}
  <2>1. CASE SetsOf("mode") # {}
    BY <1>2, <1>3, <2>1, AcceptedForms
  <2>2. CASE SetsOf("mode") = {}
    BY <1>2, <1>4, <1>6, <2>2
  <2> QED
    BY <2>1, <2>2
<1>7. ASSUME c.low_disk \in LowestValue..HighestValue
      PROVE  d.low_disk \in LowestValue..HighestValue
  <2>1. CASE SetsOf("low_disk") # {}
    BY <1>2, <1>3, <2>1, AcceptedForms
  <2>2. CASE SetsOf("low_disk") = {}
    BY <1>2, <1>4, <1>7, <2>2
  <2> QED
    BY <2>1, <2>2
<1> QED
  BY <1>1, <1>5, <1>6, <1>7

-----------------------------------------------------------------------------
LEMMA TheFiles ==
    ConfigFile = {"given", "named", "winkit.toml", "config/winkit.toml"}
PROOF
<1>1. DOMAIN WellKnown = {1, 2} /\ WellKnown[1] = "winkit.toml"
        /\ WellKnown[2] = "config/winkit.toml"
  BY DEF WellKnown
<1>2. Range(WellKnown) = {"winkit.toml", "config/winkit.toml"}
  BY <1>1 DEF Range
<1> QED
  BY <1>2 DEF ConfigFile

\* resolve_config_path: the file that is named, or the first of the two that is there.
LEMMA ResolvedFile ==
    ASSUME NEW e \in {"none", "given"}, NEW n \in {"none", "named"}, NEW files
    PROVE  resolve_config_path(e, n, files) =
             IF e # "none" THEN e
             ELSE IF n # "none" THEN n
             ELSE IF files["winkit.toml"].there THEN "winkit.toml"
             ELSE IF files["config/winkit.toml"].there THEN "config/winkit.toml"
             ELSE "none"
PROOF
<1> DEFINE found == {i \in DOMAIN WellKnown : files[WellKnown[i]].there}
<1>1. DOMAIN WellKnown = {1, 2} /\ WellKnown[1] = "winkit.toml"
        /\ WellKnown[2] = "config/winkit.toml"
  BY DEF WellKnown
<1>2. found \subseteq {1, 2}
  BY <1>1
<1>3. 1 \in found <=> files["winkit.toml"].there
  BY <1>1
<1>4. 2 \in found <=> files["config/winkit.toml"].there
  BY <1>1
<1>5. resolve_config_path(e, n, files) =
        IF e # "none" THEN e
        ELSE IF n # "none" THEN n
        ELSE IF found # {} THEN WellKnown[Min(found)]
        ELSE "none"
  BY DEF resolve_config_path
<1> HIDE DEF found
<1>6. CASE 1 \in found
  <2>0. \A y \in found : 1 <= y
    BY <1>2
  <2>3. Min(found) \in found /\ \A y \in found : Min(found) <= y
    BY <1>6, <2>0 DEF Min
  <2>1. Min(found) = 1
    <3>1. Min(found) <= 1 /\ Min(found) \in {1, 2}
      BY <1>2, <1>6, <2>3
    <3> QED
      BY <3>1
  <2> QED
    BY <1>1, <1>3, <1>5, <1>6, <2>1
<1>7. CASE 1 \notin found /\ 2 \in found
  <2>0. found = {2}
    BY <1>2, <1>7
  <2>3. Min(found) \in found
    BY <2>0 DEF Min
  <2>1. Min(found) = 2
    BY <2>0, <2>3
  <2> QED
    BY <1>1, <1>3, <1>4, <1>5, <1>7, <2>1
<1>8. CASE found = {}
  BY <1>3, <1>4, <1>5, <1>8
<1> QED
  BY <1>2, <1>6, <1>7, <1>8

LEMMA ResolvedIsAFile ==
    ASSUME NEW e \in {"none", "given"}, NEW n \in {"none", "named"}, NEW files
    PROVE  resolve_config_path(e, n, files) \in ConfigFile \cup {"none"}
  BY ResolvedFile, TheFiles

CanBeRead(p, files) == p = "none" \/ (files[p].there /\ files[p].parses)

\* load_for_cli: the path; whether it can be read; and what it says if so.
LEMMA LoadedSays ==
    ASSUME NEW e, NEW n, NEW files
    PROVE  LET l == load_for_cli(e, n, files)
               p == resolve_config_path(e, n, files)
           IN  /\ l.path = p
               /\ l.error <=> ~CanBeRead(p, files)
               /\ l.config = IF p # "none" /\ CanBeRead(p, files) THEN files[p].config
                             ELSE Defaults
               /\ Starts(e, n, files) <=> ~l.error /\ ModeNames[l.config.mode] # {}
PROOF
<1> DEFINE l == load_for_cli(e, n, files)
           p == resolve_config_path(e, n, files)
           r == load(p, files)
<1>1. r.ok <=> CanBeRead(p, files)
  <2>1. CASE p = "none"
    <3>1. r.ok = TRUE
      BY <2>1 DEF load
    <3> QED
      BY <2>1, <3>1, Zenon DEF CanBeRead
  <2>2. CASE p # "none"
    BY <2>2 DEF load, CanBeRead
  <2> QED
    BY <2>1, <2>2
<1>2. r.config = IF p = "none" THEN Defaults ELSE files[p].config
  BY DEF load
<1>3. l = [path |-> p, error |-> ~r.ok, config |-> IF r.ok THEN r.config ELSE Defaults]
  BY Zenon DEF load_for_cli
<1>4. Starts(e, n, files) <=> r.ok /\ ModeNames[r.config.mode] # {}
  BY Zenon DEF Starts
<1> HIDE DEF r, p, l
<1>5. l.path = p /\ (l.error <=> ~r.ok) /\ l.config = IF r.ok THEN r.config ELSE Defaults
  BY <1>3
<1>6. l.config = IF p # "none" /\ CanBeRead(p, files) THEN files[p].config ELSE Defaults
  BY <1>1, <1>2, <1>5
<1>7. Starts(e, n, files) <=> ~l.error /\ ModeNames[l.config.mode] # {}
  BY <1>4, <1>5
<1> QED
  BY <1>1, <1>5, <1>6, <1>7 DEF l, p

LEMMA LoadedIsSettings ==
    ASSUME NEW e \in {"none", "given"}, NEW n \in {"none", "named"}, NEW files,
           \A f \in ConfigFile : files[f].config \in Settings
    PROVE  load_for_cli(e, n, files).config \in Settings
  BY LoadedSays, ResolvedIsAFile, DefaultSettings

\* write_config_file: whoever loads the file that was written, as it was loaded
\* before, finds it and reads it.
LEMMA WrittenIsLoaded ==
    ASSUME NEW e \in {"none", "given"}, NEW n \in {"none", "named"},
           NEW old, NEW new, NEW d, NEW c,
           d = (IF resolve_config_path(e, n, old) = "none" THEN "winkit.toml"
                ELSE resolve_config_path(e, n, old)),
           \A f \in ConfigFile \ {d} : new[f] = old[f],
           new[d] = Parsable(c, "winkit")
    PROVE  /\ d \in ConfigFile
           /\ load_for_cli(e, n, new).path = d /\ ~load_for_cli(e, n, new).error
           /\ load_for_cli(e, n, new).config = c
PROOF
<1>1. d \in ConfigFile /\ d # "none"
  BY ResolvedFile, TheFiles
<1>2. new[d].there /\ new[d].parses /\ new[d].config = c
  BY DEF Parsable
<1>3. resolve_config_path(e, n, new) = d
  BY <1>1, <1>2, ResolvedFile, TheFiles
<1>4. CanBeRead(d, new)
  BY <1>2 DEF CanBeRead
<1> QED
  BY <1>1, <1>2, <1>3, <1>4, LoadedSays

-----------------------------------------------------------------------------
\* doctor_checks: which of them judge the configuration, and which the machine.
LEMMA DoctorJudges ==
    ASSUME NEW l, NEW m
    PROVE  DoctorFailures(doctor_checks(l, m)) = {} <=>
             /\ ~l.error /\ ModeNames[l.config.mode] # {}
             /\ ProfileNames[l.config.profile] # {}
             /\ m.os = "windows" /\ m.exe /\ m.arch \in {"x86_64", "aarch64"}
PROOF
<1> DEFINE c == doctor_checks(l, m)
<1>1. /\ c["os"] = check_os(m) /\ c["native_binary"] = check_native_binary(m)
      /\ c["config"] = check_config(l)
      /\ c["permission_mode"] = check_permission_mode(l.config)
      /\ c["tool_profile"] = check_tool_profile(l.config)
      /\ c["mcp_initialize"] = check_mcp_initialize(l.config, m)
      /\ c["launcher_version"] = "pass" /\ c["telemetry"] = "pass"
  BY DEF doctor_checks
<1> HIDE DEF c
<1>2. DoctorFailures(c) = {} <=>
        /\ check_os(m) # "fail" /\ check_native_binary(m) # "fail" /\ check_config(l) # "fail"
        /\ check_permission_mode(l.config) # "fail" /\ check_tool_profile(l.config) # "fail"
        /\ check_mcp_initialize(l.config, m) # "fail"
  BY <1>1 DEF DoctorFailures, RequiredChecks
<1>3. /\ check_os(m) # "fail" <=> m.os = "windows" /\ m.arch \in {"x86_64", "aarch64"}
      /\ check_native_binary(m) # "fail" <=> m.exe
      /\ check_config(l) # "fail" <=> ~l.error
      /\ check_permission_mode(l.config) # "fail" <=> ModeNames[l.config.mode] # {}
      /\ check_tool_profile(l.config) # "fail" <=> ProfileNames[l.config.profile] # {}
      /\ check_mcp_initialize(l.config, m) # "fail" <=>
           m.os # "windows" \/ ModeNames[l.config.mode] # {}
  BY Zenon DEF check_os, check_native_binary, check_config, check_permission_mode,
               check_tool_profile, check_mcp_initialize, Check
<1> QED
  BY <1>2, <1>3, Zenon DEF c

\* ToolRegistry::build: a profile that is none is replaced, and one that is one is not.
LEMMA ProfileKept ==
    ASSUME NEW c
    PROVE  ProfileInEffect(c) \in ProfileNames[c.profile] <=> ProfileNames[c.profile] # {}
  BY DEF ProfileInEffect

\* configure_summary: what it says of the mode.
LEMMA SummaryOfMode ==
    ASSUME NEW l, l.config \in Settings
    PROVE  LET said == configure_summary(l).mode
           IN  /\ said = "invalid" <=> ModeNames[l.config.mode] = {}
               /\ said # "invalid" => said \in ModeNames[l.config.mode]
PROOF
<1> DEFINE w == l.config.mode
<1>1. "mode" \in DOMAIN l.config /\ w \in DOMAIN ModeNames
  BY SettingsFields
<1>2. configure_summary(l).mode =
        IF ModeNames[w] = {} THEN "invalid" ELSE TheOne(ModeNames[w])
  BY <1>1 DEF configure_summary
<1>3. ModeNames[w] # {} => TheOne(ModeNames[w]) \in ModeNames[w]
  BY OneOfThem
<1>4. ModeNames[w] # {} => TheOne(ModeNames[w]) # "invalid"
  BY <1>1, <1>3, ModeForms
<1> QED
  BY <1>2, <1>3, <1>4

LEMMA LineSaysWhat ==
    ASSUME NEW line PROVE LineSays(line) \in {"run", "help", "usage"}
PROOF
<1>1. ASSUME NEW a PROVE ArgumentSays(a) \in {"run", "help", "usage"}
  BY DEF ArgumentSays
<1> QED
  BY <1>1 DEF LineSays

-----------------------------------------------------------------------------
(* What holds of a command at each of its steps.                           *)
OldText == before[Destination]
OldTextThere ==
    OldText \in keptTexts \/ \E s \in saves : s.text = OldText

CommandTyped ==
    /\ cfgstep \in {"idle", "load", "back up", "truncate", "write", "said"}
    /\ command.tool \in {"none", "doctor", "configure"}
    /\ command.line \in ConfigLines \cup {<<>>}
    /\ command.explicit \in {"none", "given"} /\ command.env \in {"none", "named"}

FilesTyped ==
    /\ DOMAIN texts = ConfigFile /\ DOMAIN before = ConfigFile
    /\ \A f \in ConfigFile : before[f].config \in Settings
    /\ loaded.path \in ConfigFile \cup {"none"}
    /\ \A s \in saves : s.at \in {"back up", "truncate", "write"}

NothingYet ==
    /\ cfgstep # "said" => doctorSays = NoDoctor
    /\ cfgstep \in {"idle", "load"} =>
         texts = before /\ keptTexts = {} /\ saves = {} /\ loaded.path = "none"

\* From the moment there is something to write, what it is does not change.
Announced ==
    cfgstep \in {"back up", "truncate", "write"} \/ doctorSays.said = "wrote" =>
        /\ command.tool = "configure" /\ AllAccepted(command.line)
        /\ loaded = load_for_cli(command.explicit, command.env, before)
        /\ changed = Applied(loaded.config, command.line)

OldTextSecured ==
    /\ cfgstep = "back up" =>
         \/ saves = {} /\ texts = before
         \/ \E s \in saves : s.text = OldText
    /\ cfgstep \in {"truncate", "write"} /\ OldText.there => OldTextThere
    /\ cfgstep = "said" /\ OldText.there => texts[Destination] = OldText \/ OldTextThere

EditSecured ==
    \A s \in saves : s.at = "back up" =>
        /\ cfgstep = "back up" =>
             texts[Destination].there /\ texts[Destination].by = "editor"
        /\ cfgstep \in {"truncate", "write"} \/ doctorSays.said = "wrote"
             => \E t \in keptTexts : t.by = "editor"

\* Only the file it writes changes, and in the end it holds what was announced.
OthersKept ==
    (cfgstep \in {"back up", "truncate", "write"} \/ doctorSays.said = "wrote") /\ saves = {}
        => \A f \in ConfigFile \ {Destination} : texts[f] = before[f]
Written ==
    doctorSays.said = "wrote" =>
        texts[Destination] = Parsable(changed, "winkit") /\ doctorSays.config = changed

ConfigInv ==
    /\ CommandTyped /\ FilesTyped /\ NothingYet /\ Announced
    /\ OldTextSecured /\ EditSecured /\ OthersKept /\ Written
    /\ NothingElseWrites /\ SummaryTells /\ DoctorAgrees

LEMMA ConfigStarts == ConfigIdle => ConfigInv
PROOF
<1> SUFFICES ASSUME ConfigIdle PROVE ConfigInv
  OBVIOUS
<1>1. /\ cfgstep = "idle" /\ doctorSays = NoDoctor /\ doctorSays.said = "nothing"
      /\ loaded.path = "none" /\ keptTexts = {} /\ saves = {} /\ before = texts
      /\ texts = [f \in ConfigFile |-> NoText] /\ command = NoCommand
  BY DEF ConfigIdle, NoDoctor
<1>2. CommandTyped
  BY <1>1 DEF CommandTyped, NoCommand
<1>3. FilesTyped
  BY <1>1, DefaultSettings DEF FilesTyped
<1>4. NothingYet /\ Announced /\ OldTextSecured /\ EditSecured /\ OthersKept /\ Written
  BY <1>1 DEF NothingYet, Announced, OldTextSecured, EditSecured, OthersKept, Written
<1>5. NothingElseWrites /\ SummaryTells /\ DoctorAgrees
  BY <1>1 DEF NothingElseWrites, SummaryTells, DoctorAgrees
<1> QED
  BY <1>2, <1>3, <1>4, <1>5 DEF ConfigInv

LEMMA GiveStep == ASSUME ConfigInv, Give PROVE ConfigInv'
PROOF
<1>1. /\ cfgstep' = "load" /\ doctorSays' = doctorSays /\ doctorSays = NoDoctor
      /\ doctorSays'.said = "nothing"
      /\ loaded' = loaded /\ loaded.path = "none" /\ keptTexts' = {} /\ saves' = {}
      /\ texts' = before'
  BY DEF ConfigInv, NothingYet, Give, NoDoctor
<1>2. CommandTyped'
  <2>1. PICK e \in {"none", "given"}, n \in {"none", "named"},
             tool \in {"doctor", "configure"}, m \in Machines, line \in ConfigLines :
          command' = [tool |-> tool, explicit |-> e, env |-> n,
                      line |-> IF tool = "doctor" THEN <<>> ELSE line,
                      machine |-> IF tool = "doctor" THEN m ELSE NoCommand.machine]
    BY DEF Give
  <2>2. /\ command'.tool = tool /\ command'.explicit = e /\ command'.env = n
        /\ command'.line = IF tool = "doctor" THEN <<>> ELSE line
    BY <2>1
  <2>3. command'.line \in ConfigLines \cup {<<>>}
    BY <2>2
  <2> QED
    BY <1>1, <2>2, <2>3 DEF CommandTyped
<1>3. FilesTyped'
  <2>1. PICK f, g \in ConfigFile, s, t \in UserTexts \cup {NoText} :
          before' = [[p \in ConfigFile |-> NoText] EXCEPT ![f] = s, ![g] = t]
    BY DEF Give
  <2>2. s.config \in Settings /\ t.config \in Settings /\ NoText.config \in Settings
    BY ConfigAssumption, DefaultSettings
  <2>3. DOMAIN before' = ConfigFile
    BY <2>1
  <2>4. ASSUME NEW p \in ConfigFile PROVE before'[p] \in {s, t, NoText}
    BY <2>1
  <2>5. \A p \in ConfigFile : before'[p].config \in Settings
    BY <2>2, <2>4
  <2> QED
    BY <1>1, <2>3, <2>5 DEF FilesTyped
<1>4. NothingYet' /\ Announced' /\ OldTextSecured' /\ EditSecured' /\ OthersKept' /\ Written'
  BY <1>1 DEF NothingYet, Announced, OldTextSecured, EditSecured, OthersKept, Written
<1>5. NothingElseWrites' /\ SummaryTells' /\ DoctorAgrees'
  BY <1>1 DEF NothingElseWrites, SummaryTells, DoctorAgrees
<1> QED
  BY <1>2, <1>3, <1>4, <1>5 DEF ConfigInv

LEMMA RefuseLineStep == ASSUME ConfigInv, RefuseLine PROVE ConfigInv'
PROOF
<1>1. /\ cfgstep' = "said" /\ doctorSays'.said \in {"help", "usage"}
      /\ UNCHANGED <<command, texts, loaded, keptTexts, saves, before>>
      /\ command.tool = "configure"
  BY LineSaysWhat DEF RefuseLine, Say
<1>2. texts = before /\ keptTexts = {} /\ saves = {} /\ loaded.path = "none"
  BY DEF ConfigInv, NothingYet, RefuseLine
<1>3. CommandTyped' /\ FilesTyped'
  BY <1>1 DEF ConfigInv, CommandTyped, FilesTyped
<1>4. NothingYet' /\ Announced' /\ OthersKept' /\ Written'
  BY <1>1 DEF NothingYet, Announced, OthersKept, Written
<1>5. OldTextSecured' /\ EditSecured'
  BY <1>1, <1>2 DEF OldTextSecured, EditSecured, OldText, OldTextThere, Destination
<1>6. NothingElseWrites' /\ SummaryTells' /\ DoctorAgrees'
  BY <1>1, <1>2 DEF NothingElseWrites, SummaryTells, DoctorAgrees
<1> QED
  BY <1>3, <1>4, <1>5, <1>6 DEF ConfigInv

\* What is loaded when the command reads the configuration.
LEMMA LoadsHere ==
    ASSUME ConfigInv, cfgstep = "load",
           loaded' = load_for_cli(command.explicit, command.env, texts)
    PROVE  /\ texts = before /\ keptTexts = {} /\ saves = {}
           /\ loaded'.path \in ConfigFile \cup {"none"} /\ loaded'.config \in Settings
           /\ Starts(command.explicit, command.env, texts)
                <=> ~loaded'.error /\ ModeNames[loaded'.config.mode] # {}
PROOF
<1>1. texts = before /\ keptTexts = {} /\ saves = {}
  BY DEF ConfigInv, NothingYet
<1>2. command.explicit \in {"none", "given"} /\ command.env \in {"none", "named"}
  BY DEF ConfigInv, CommandTyped
<1>3. \A f \in ConfigFile : texts[f].config \in Settings
  BY <1>1 DEF ConfigInv, FilesTyped
<1>4. loaded'.config \in Settings
  BY <1>2, <1>3, LoadedIsSettings
<1>5. loaded'.path \in ConfigFile \cup {"none"}
  BY <1>2, LoadedSays, ResolvedIsAFile
<1>6. Starts(command.explicit, command.env, texts)
        <=> ~loaded'.error /\ ModeNames[loaded'.config.mode] # {}
  BY LoadedSays
<1> QED
  BY <1>1, <1>4, <1>5, <1>6

LEMMA DoctorRunStep == ASSUME ConfigInv, DoctorRun PROVE ConfigInv'
PROOF
<1>1. /\ cfgstep = "load" /\ cfgstep' = "said" /\ command.tool = "doctor"
      /\ UNCHANGED <<command, texts, keptTexts, saves, before>>
      /\ loaded' = load_for_cli(command.explicit, command.env, texts)
  BY DEF DoctorRun
<1> DEFINE failing == DoctorFailures(doctor_checks(loaded', command.machine))
<1>2. doctorSays' = [said |-> IF failing = {} THEN "ok" ELSE "not ok",
                     failed |-> failing, config |-> loaded'.config]
  BY DEF DoctorRun
<1> HIDE DEF failing
<1>3. /\ doctorSays'.said = IF failing = {} THEN "ok" ELSE "not ok"
      /\ doctorSays'.config = loaded'.config
  BY <1>2
<1>4. /\ texts = before /\ keptTexts = {} /\ saves = {}
      /\ loaded'.path \in ConfigFile \cup {"none"}
      /\ Starts(command.explicit, command.env, texts)
           <=> ~loaded'.error /\ ModeNames[loaded'.config.mode] # {}
  BY <1>1, LoadsHere
<1>5. failing = {} <=>
        /\ ~loaded'.error /\ ModeNames[loaded'.config.mode] # {}
        /\ ProfileNames[loaded'.config.profile] # {}
        /\ command.machine.os = "windows" /\ command.machine.exe
        /\ command.machine.arch \in {"x86_64", "aarch64"}
  BY DoctorJudges DEF failing
<1>6. doctorSays'.said = "ok" <=>
            /\ Starts(command.explicit, command.env, texts)
            /\ ProfileInEffect(doctorSays'.config) \in ProfileNames[doctorSays'.config.profile]
            /\ command.machine.os = "windows" /\ command.machine.exe
            /\ command.machine.arch \in {"x86_64", "aarch64"}
  <2>1. doctorSays'.said = "ok" <=> failing = {}
    BY <1>3
  <2>2. ProfileInEffect(doctorSays'.config) \in ProfileNames[doctorSays'.config.profile]
          <=> ProfileNames[loaded'.config.profile] # {}
    BY <1>3, ProfileKept
  <2> QED
    BY <1>4, <1>5, <2>1, <2>2, Zenon
<1>7. Starts(command.explicit, command.env, texts)' = Starts(command.explicit, command.env, texts)
  BY <1>1 DEF Starts
<1>8. DoctorAgrees'
  BY <1>1, <1>6, <1>7, Zenon DEF DoctorAgrees
<1>9. CommandTyped' /\ FilesTyped'
  BY <1>1, <1>4 DEF ConfigInv, CommandTyped, FilesTyped
<1>10. doctorSays'.said \in {"ok", "not ok"}
  BY <1>3
<1>11. NothingYet' /\ Announced' /\ OthersKept' /\ Written' /\ NothingElseWrites' /\ SummaryTells'
  BY <1>1, <1>10 DEF NothingYet, Announced, OthersKept, Written, NothingElseWrites, SummaryTells
<1>12. OldTextSecured' /\ EditSecured'
  BY <1>1, <1>4 DEF OldTextSecured, EditSecured, OldText, OldTextThere, Destination
<1> QED
  BY <1>8, <1>9, <1>11, <1>12 DEF ConfigInv

\* configure_run up to the write.
LEMMA ConfigureRunStep == ASSUME ConfigInv, ConfigureRun PROVE ConfigInv'
PROOF
<1>1. /\ cfgstep = "load" /\ command.tool = "configure"
      /\ UNCHANGED <<command, texts, keptTexts, saves, before>>
      /\ loaded' = load_for_cli(command.explicit, command.env, texts)
      /\ changed' = IF AllAccepted(command.line) THEN Applied(loaded'.config, command.line)
                    ELSE loaded'.config
  BY DEF ConfigureRun
<1>2. /\ texts = before /\ keptTexts = {} /\ saves = {}
      /\ loaded'.path \in ConfigFile \cup {"none"} /\ loaded'.config \in Settings
      /\ Starts(command.explicit, command.env, texts)
           <=> ~loaded'.error /\ ModeNames[loaded'.config.mode] # {}
  BY <1>1, LoadsHere
<1>3. doctorSays = NoDoctor /\ doctorSays.said = "nothing"
  BY <1>1 DEF ConfigInv, NothingYet, NoDoctor
<1>4. \/ cfgstep' = "said" /\ doctorSays'.said \in {"refused", "dry run"}
      \/ /\ cfgstep' = "said" /\ doctorSays'.said = "summary"
         /\ doctorSays'.config = configure_summary(loaded')
      \/ cfgstep' = "back up" /\ doctorSays' = doctorSays /\ AllAccepted(command.line)
  <2>1. \/ ~AllAccepted(command.line) /\ Say("refused")
        \/ /\ cfgstep' = "said"
           /\ doctorSays' = [said |-> "summary", failed |-> {},
                             config |-> configure_summary(loaded')]
        \/ Say("dry run")
        \/ cfgstep' = "back up" /\ doctorSays' = doctorSays /\ AllAccepted(command.line)
    BY Zenon DEF ConfigureRun
  <2>2. ASSUME NEW said, Say(said) PROVE cfgstep' = "said" /\ doctorSays'.said = said
    BY <2>2 DEF Say
  <2>3. CASE doctorSays' = [said |-> "summary", failed |-> {},
                            config |-> configure_summary(loaded')]
    <3>1. doctorSays'.said = "summary" /\ doctorSays'.config = configure_summary(loaded')
      BY <2>3
    <3> QED
      BY <2>1, <2>2, <3>1
  <2> QED
    BY <2>1, <2>2, <2>3
<1>5. CommandTyped' /\ FilesTyped'
  BY <1>1, <1>2, <1>4 DEF ConfigInv, CommandTyped, FilesTyped
<1>6. CASE cfgstep' = "back up"
  <2>1. doctorSays' = NoDoctor /\ doctorSays'.said = "nothing" /\ AllAccepted(command.line)
    BY <1>3, <1>4, <1>6
  <2>2. Announced'
    BY <1>1, <1>2, <2>1 DEF Announced
  <2>3. NothingYet' /\ OthersKept' /\ Written'
    BY <1>1, <1>2, <1>6, <2>1 DEF NothingYet, OthersKept, Written
  <2>4. OldTextSecured' /\ EditSecured'
    BY <1>1, <1>2, <1>6 DEF OldTextSecured, EditSecured
  <2>5. NothingElseWrites' /\ SummaryTells' /\ DoctorAgrees'
    BY <2>1 DEF NothingElseWrites, SummaryTells, DoctorAgrees
  <2> QED
    BY <1>5, <2>2, <2>3, <2>4, <2>5 DEF ConfigInv
<1>7. CASE cfgstep' = "said"
  <2>1. doctorSays'.said \in {"refused", "dry run", "summary"}
    BY <1>4, <1>7
  <2>2. NothingYet' /\ Announced' /\ OthersKept' /\ Written'
    BY <1>7, <2>1 DEF NothingYet, Announced, OthersKept, Written
  <2>3. OldTextSecured' /\ EditSecured'
    BY <1>1, <1>2, <1>7 DEF OldTextSecured, EditSecured, OldText, OldTextThere, Destination
  <2>4. NothingElseWrites' /\ DoctorAgrees'
    BY <1>1, <1>2, <2>1 DEF NothingElseWrites, DoctorAgrees
  <2>5. SummaryTells'
    <3>1. CASE doctorSays'.said # "summary"
      BY <3>1 DEF SummaryTells
    <3>2. CASE doctorSays'.said = "summary"
      <4>1. doctorSays'.config = configure_summary(loaded')
        <5>1. doctorSays'.said \notin {"refused", "dry run"}
          BY <3>2
        <5> QED
          BY <1>4, <1>7, <5>1, Zenon
      <4> DEFINE said == configure_summary(loaded').mode
                 p == resolve_config_path(command.explicit, command.env, texts)
      <4>2. /\ said = "invalid" <=> ModeNames[loaded'.config.mode] = {}
            /\ said # "invalid" => said \in ModeNames[loaded'.config.mode]
        BY <1>2, SummaryOfMode
      <4>3. Starts(command.explicit, command.env, texts)
              <=> ~loaded'.error /\ said # "invalid"
        BY <1>2, <4>2, Zenon
      <4>4. ~loaded'.error => load(p, texts).config = loaded'.config
        BY <1>1, LoadedSays DEF load
      <4>5. Starts(command.explicit, command.env, texts)
              => said \in ModeNames[load(p, texts).config.mode]
        BY <4>2, <4>3, <4>4
      <4>6. /\ Starts(command.explicit, command.env, texts)'
                 = Starts(command.explicit, command.env, texts)
            /\ p' = p /\ load(p, texts)' = load(p, texts)
        BY <1>1 DEF Starts, load, resolve_config_path
      <4> QED
        BY <4>1, <4>3, <4>5, <4>6 DEF SummaryTells
    <3> QED
      BY <3>1, <3>2
  <2> QED
    BY <1>5, <2>2, <2>3, <2>4, <2>5 DEF ConfigInv
<1> QED
  BY <1>4, <1>6, <1>7

\* What is so while there is something to write.
LEMMA WhileWriting ==
    ASSUME ConfigInv, cfgstep \in {"back up", "truncate", "write"}
    PROVE  /\ command.tool = "configure" /\ doctorSays = NoDoctor
           /\ doctorSays.said = "nothing" /\ Destination \in ConfigFile
           /\ Destination \in DOMAIN texts
PROOF
<1>1. command.tool = "configure" /\ doctorSays = NoDoctor
  BY DEF ConfigInv, Announced, NothingYet
<1>2. Destination \in ConfigFile
  BY TheFiles DEF ConfigInv, FilesTyped, Destination
<1> QED
  BY <1>1, <1>2 DEF ConfigInv, FilesTyped, NoDoctor

\* What a step of the write keeps when it tells nothing of it.
LEMMA NothingSaid ==
    ASSUME ConfigInv, doctorSays' = NoDoctor,
           UNCHANGED <<command, loaded, changed, before>>,
           cfgstep \in {"back up", "truncate", "write"},
           cfgstep' \in {"back up", "truncate", "write"},
           DOMAIN texts' = ConfigFile,
           \A s \in saves' : s.at \in {"back up", "truncate", "write"},
           OldTextSecured', EditSecured', OthersKept'
    PROVE  ConfigInv'
PROOF
<1>1. doctorSays'.said = "nothing"
  BY DEF NoDoctor
<1>2. CommandTyped' /\ FilesTyped'
  BY DEF ConfigInv, CommandTyped, FilesTyped
<1>3. NothingYet' /\ Written'
  BY <1>1 DEF NothingYet, Written
<1>4. Announced'
  BY <1>1 DEF ConfigInv, Announced
<1>5. NothingElseWrites' /\ SummaryTells' /\ DoctorAgrees'
  BY <1>1 DEF NothingElseWrites, SummaryTells, DoctorAgrees
<1> QED
  BY <1>2, <1>3, <1>4, <1>5 DEF ConfigInv

\* A command that ends without a word of having written.
LEMMA EndsBadly ==
    ASSUME ConfigInv, cfgstep' = "said", doctorSays'.said \in {"failed", "killed"},
           UNCHANGED <<command, loaded, keptTexts, saves, before>>,
           DOMAIN texts' = ConfigFile,
           OldText.there => texts'[Destination] = OldText \/ OldTextThere
    PROVE  ConfigInv'
PROOF
<1>1. CommandTyped' /\ FilesTyped'
  BY DEF ConfigInv, CommandTyped, FilesTyped
<1>2. NothingYet' /\ Written' /\ Announced' /\ OthersKept' /\ EditSecured'
  BY DEF NothingYet, Written, Announced, OthersKept, EditSecured
<1>3. Destination' = Destination /\ OldText' = OldText /\ OldTextThere' = OldTextThere
  BY DEF Destination, OldText, OldTextThere
<1>4. OldTextSecured'
  BY <1>3 DEF OldTextSecured
<1>5. NothingElseWrites' /\ SummaryTells' /\ DoctorAgrees'
  BY DEF NothingElseWrites, SummaryTells, DoctorAgrees
<1> QED
  BY <1>1, <1>2, <1>4, <1>5 DEF ConfigInv

LEMMA BackUpStep == ASSUME ConfigInv, BackUpConfig PROVE ConfigInv'
PROOF
<1>1. /\ cfgstep = "back up" /\ cfgstep' = "truncate"
      /\ UNCHANGED <<command, texts, loaded, changed, saves, doctorSays, before>>
      /\ keptTexts' = keptTexts \cup
            (IF texts[Destination].there THEN {texts[Destination]} ELSE {})
  BY DEF BackUpConfig
<1>2. doctorSays' = NoDoctor /\ Destination \in ConfigFile
  BY <1>1, WhileWriting
<1>3. Destination' = Destination /\ OldText' = OldText
  BY <1>1 DEF Destination, OldText
<1>4. OldText.there => OldTextThere'
  <2>1. CASE saves = {} /\ texts = before
    BY <1>1, <1>3, <2>1 DEF OldTextThere, OldText
  <2>2. CASE \E s \in saves : s.text = OldText
    BY <1>1, <1>3, <2>2 DEF OldTextThere
  <2> QED
    BY <1>1, <2>1, <2>2 DEF ConfigInv, OldTextSecured
<1>5. OldTextSecured'
  BY <1>1, <1>3, <1>4 DEF OldTextSecured
<1>6. EditSecured'
  BY <1>1, <1>3 DEF ConfigInv, EditSecured
<1>7. OthersKept'
  BY <1>1, <1>3 DEF ConfigInv, OthersKept
<1>8. /\ DOMAIN texts' = ConfigFile
      /\ \A s \in saves' : s.at \in {"back up", "truncate", "write"}
  BY <1>1 DEF ConfigInv, FilesTyped
<1> QED
  BY <1>1, <1>2, <1>5, <1>6, <1>7, <1>8, NothingSaid

LEMMA TruncateStep == ASSUME ConfigInv, TruncateConfig PROVE ConfigInv'
PROOF
<1>1. /\ cfgstep = "truncate" /\ cfgstep' = "write"
      /\ UNCHANGED <<command, loaded, changed, keptTexts, saves, doctorSays, before>>
      /\ texts' = [texts EXCEPT ![Destination] = Parsable(Defaults, "winkit")]
  BY DEF TruncateConfig
<1>2. doctorSays' = NoDoctor /\ Destination \in DOMAIN texts /\ DOMAIN texts = ConfigFile
  BY <1>1, WhileWriting DEF ConfigInv, FilesTyped
<1>3. /\ Destination' = Destination /\ OldText' = OldText
      /\ OldTextThere' = OldTextThere
  BY <1>1 DEF Destination, OldText, OldTextThere
<1>4. OldTextSecured'
  BY <1>1, <1>3 DEF ConfigInv, OldTextSecured
<1>5. EditSecured'
  BY <1>1 DEF ConfigInv, EditSecured
<1>6. OthersKept'
  BY <1>1, <1>2, <1>3 DEF ConfigInv, OthersKept
<1>7. /\ DOMAIN texts' = ConfigFile
      /\ \A s \in saves' : s.at \in {"back up", "truncate", "write"}
  BY <1>1, <1>2 DEF ConfigInv, FilesTyped
<1> QED
  BY <1>1, <1>2, <1>4, <1>5, <1>6, <1>7, NothingSaid

LEMMA SaveStep == ASSUME ConfigInv, SaveConfig PROVE ConfigInv'
PROOF
<1> DEFINE saved == [text |-> texts[Destination], at |-> cfgstep]
<1>1. /\ cfgstep \in {"back up", "truncate", "write"} /\ saves = {} /\ saves' = {saved}
      /\ UNCHANGED <<cfgstep, command, loaded, changed, keptTexts, doctorSays, before>>
      /\ texts' = [texts EXCEPT ![Destination] =
                     Parsable([Defaults EXCEPT !.mode = "safe"], "editor")]
  BY DEF SaveConfig
<1>2. saved.text = texts[Destination] /\ saved.at = cfgstep
  OBVIOUS
<1> HIDE DEF saved
<1>3. doctorSays' = NoDoctor /\ Destination \in DOMAIN texts /\ DOMAIN texts = ConfigFile
        /\ doctorSays'.said = "nothing"
  BY <1>1, WhileWriting DEF ConfigInv, FilesTyped
<1>4. texts'[Destination].there /\ texts'[Destination].by = "editor"
  BY <1>1, <1>3 DEF Parsable
<1>5. Destination' = Destination /\ OldText' = OldText
  BY <1>1 DEF Destination, OldText
<1>6. OldTextSecured'
  <2>1. CASE cfgstep = "back up"
    <3>1. texts = before
      BY <1>1, <2>1 DEF ConfigInv, OldTextSecured
    <3>2. \E s \in saves' : s.text = OldText
      BY <1>1, <1>2, <3>1 DEF OldText
    <3> QED
      BY <1>1, <1>5, <2>1, <3>2 DEF OldTextSecured
  <2>2. CASE cfgstep \in {"truncate", "write"}
    <3>1. OldText.there => OldText \in keptTexts
      BY <1>1, <2>2 DEF ConfigInv, OldTextSecured, OldTextThere
    <3> QED
      BY <1>1, <1>5, <2>2, <3>1 DEF OldTextSecured, OldTextThere
  <2> QED
    BY <1>1, <2>1, <2>2
<1>7. EditSecured'
  BY <1>1, <1>2, <1>3, <1>4, <1>5 DEF EditSecured
<1>8. OthersKept'
  BY <1>1 DEF OthersKept
<1>9. /\ DOMAIN texts' = ConfigFile
      /\ \A s \in saves' : s.at \in {"back up", "truncate", "write"}
  BY <1>1, <1>2, <1>3
<1> QED
  BY <1>1, <1>3, <1>6, <1>7, <1>8, <1>9, NothingSaid

\* Before it is overwritten, the text that was found is in the file or is secured.
LEMMA OldTextSomewhere ==
    ASSUME ConfigInv, cfgstep \in {"load", "back up", "truncate"}
    PROVE  OldText.there => texts[Destination] = OldText \/ OldTextThere
  BY DEF ConfigInv, NothingYet, OldTextSecured, OldText, OldTextThere

LEMMA FailsBeforeWriting ==
    ASSUME ConfigInv, BackUpConfigFails \/ TruncateConfigFails PROVE ConfigInv'
PROOF
<1>1. /\ cfgstep \in {"back up", "truncate"} /\ Say("failed")
      /\ UNCHANGED <<command, texts, loaded, keptTexts, saves, before>>
  BY DEF BackUpConfigFails, TruncateConfigFails
<1>2. cfgstep' = "said" /\ doctorSays'.said = "failed"
  BY <1>1 DEF Say
<1>3. OldText.there => texts'[Destination] = OldText \/ OldTextThere
  BY <1>1, OldTextSomewhere
<1>4. DOMAIN texts' = ConfigFile
  BY <1>1 DEF ConfigInv, FilesTyped
<1> QED
  BY <1>1, <1>2, <1>3, <1>4, EndsBadly

LEMMA WriteFailsStep == ASSUME ConfigInv, WriteConfigFails PROVE ConfigInv'
PROOF
<1>1. /\ cfgstep = "write" /\ Say("failed")
      /\ UNCHANGED <<command, loaded, keptTexts, saves, before>>
      /\ \E text \in CutShort(changed) : texts' = [texts EXCEPT ![Destination] = text]
  BY DEF WriteConfigFails
<1>2. cfgstep' = "said" /\ doctorSays'.said = "failed"
  BY <1>1 DEF Say
<1>3. OldText.there => OldTextThere
  BY <1>1 DEF ConfigInv, OldTextSecured
<1>4. DOMAIN texts' = ConfigFile
  BY <1>1 DEF ConfigInv, FilesTyped
<1> QED
  BY <1>1, <1>2, <1>3, <1>4, EndsBadly

LEMMA KillStep == ASSUME ConfigInv, KillCommand PROVE ConfigInv'
PROOF
<1>1. /\ cfgstep \in {"load", "back up", "truncate", "write"} /\ Say("killed")
      /\ UNCHANGED <<command, loaded, keptTexts, saves, before>>
      /\ IF cfgstep = "write"
         THEN \E text \in CutShort(changed) : texts' = [texts EXCEPT ![Destination] = text]
         ELSE UNCHANGED texts
  BY DEF KillCommand
<1>2. cfgstep' = "said" /\ doctorSays'.said = "killed"
  BY <1>1 DEF Say
<1>3. OldText.there => texts'[Destination] = OldText \/ OldTextThere
  <2>1. CASE cfgstep = "write"
    BY <2>1 DEF ConfigInv, OldTextSecured
  <2>2. CASE cfgstep # "write"
    BY <1>1, <2>2, OldTextSomewhere
  <2> QED
    BY <2>1, <2>2
<1>4. DOMAIN texts' = ConfigFile
  BY <1>1 DEF ConfigInv, FilesTyped
<1> QED
  BY <1>1, <1>2, <1>3, <1>4, EndsBadly

LEMMA WriteStep == ASSUME ConfigInv, WriteConfig PROVE ConfigInv'
PROOF
<1>1. /\ cfgstep = "write" /\ Say("wrote") /\ changed' = changed
      /\ UNCHANGED <<command, loaded, keptTexts, saves, before>>
      /\ texts' = [texts EXCEPT ![Destination] = Parsable(changed, "winkit")]
  BY DEF WriteConfig
<1>2. cfgstep' = "said" /\ doctorSays'.said = "wrote" /\ doctorSays'.config = changed
  BY <1>1 DEF Say
<1>3. /\ Destination' = Destination /\ OldText' = OldText /\ OldTextThere' = OldTextThere
      /\ Destination \in DOMAIN texts /\ DOMAIN texts = ConfigFile
  BY <1>1, WhileWriting DEF ConfigInv, FilesTyped, Destination, OldText, OldTextThere
<1>4. CommandTyped' /\ FilesTyped'
  BY <1>1, <1>2, <1>3 DEF ConfigInv, CommandTyped, FilesTyped
<1>5. Announced'
  <2>1. /\ command.tool = "configure" /\ AllAccepted(command.line)
        /\ loaded = load_for_cli(command.explicit, command.env, before)
        /\ changed = Applied(loaded.config, command.line)
    BY <1>1 DEF ConfigInv, Announced
  <2> QED
    BY <1>1, <2>1 DEF Announced
<1>6. OldTextSecured'
  BY <1>1, <1>2, <1>3 DEF ConfigInv, OldTextSecured
<1>7. EditSecured'
  BY <1>1, <1>2 DEF ConfigInv, EditSecured
<1>8. OthersKept'
  BY <1>1, <1>3 DEF ConfigInv, OthersKept
<1>9. Written' /\ NothingYet'
  BY <1>1, <1>2, <1>3 DEF Written, NothingYet
<1>10. NothingElseWrites' /\ SummaryTells' /\ DoctorAgrees'
  BY <1>2 DEF NothingElseWrites, SummaryTells, DoctorAgrees
<1> QED
  BY <1>4, <1>5, <1>6, <1>7, <1>8, <1>9, <1>10 DEF ConfigInv

\* The next command finds what the first one found: nothing is left of this one.
LEMMA EndStep == ASSUME ConfigInv, EndCommand PROVE ConfigInv'
  <1>1. ConfigIdle'
    BY DEF EndCommand, ConfigIdle
  <1> QED
    BY <1>1, ConfigStarts, PTL

\* What is checked follows from what holds of each step.
LEMMA ConfigInvSuffices == ConfigInv => ConfigurationSound
PROOF
<1> SUFFICES ASSUME ConfigInv PROVE ConfigurationSound
  OBVIOUS
<1>1. ConfigTypeOK
  BY DEF ConfigInv, CommandTyped, FilesTyped, ConfigTypeOK
<1>2. OldTextKept
  <2> SUFFICES ASSUME command.tool = "configure", before[Destination].there
               PROVE  /\ \/ before[Destination] \in {texts[Destination]} \cup keptTexts
                         \/ \E s \in saves : s.text = before[Destination]
                      /\ \A s \in saves : s.at = "back up" /\ doctorSays.said = "wrote" =>
                           \E t \in keptTexts : t.by = "editor"
    BY DEF OldTextKept
  <2>1. OldText.there /\ OldText = before[Destination]
    BY DEF OldText
  <2>2. texts[Destination] = OldText \/ OldTextThere
    <3>1. CASE cfgstep \in {"idle", "load"}
      BY <3>1 DEF ConfigInv, NothingYet, OldText
    <3>2. CASE cfgstep = "back up"
      BY <3>2 DEF ConfigInv, OldTextSecured, OldText, OldTextThere
    <3>3. CASE cfgstep \in {"truncate", "write", "said"}
      BY <2>1, <3>3 DEF ConfigInv, OldTextSecured
    <3> QED
      BY <3>1, <3>2, <3>3 DEF ConfigInv, CommandTyped
  <2> QED
    BY <2>1, <2>2 DEF OldTextThere, ConfigInv, EditSecured
<1>3. WroteWhatWasSaid
  <2> DEFINE now == load_for_cli(command.explicit, command.env, texts)
             was == load_for_cli(command.explicit, command.env, before)
  <2> SUFFICES ASSUME doctorSays.said = "wrote", saves = {}
               PROVE  /\ ~now.error /\ now.config = doctorSays.config
                      /\ \A k \in DOMAIN now.config : now.config[k] # was.config[k] =>
                           \E i \in 1..Len(command.line) :
                              command.line[i].key = k \/ command.line[i].arg = "--profile"
                      /\ Starts(command.explicit, command.env, before)
                           => Starts(command.explicit, command.env, texts)
                      /\ was.config.low_disk \in LowestValue..HighestValue
                           => now.config.low_disk \in LowestValue..HighestValue
                      /\ \A f \in ConfigFile \ {now.path} : texts[f] = before[f]
    BY Zenon DEF WroteWhatWasSaid
  <2>1. /\ command.explicit \in {"none", "given"} /\ command.env \in {"none", "named"}
        /\ command.line \in ConfigLines \cup {<<>>}
    BY DEF ConfigInv, CommandTyped
  <2>2. /\ AllAccepted(command.line) /\ loaded = was
        /\ changed = Applied(loaded.config, command.line)
    BY DEF ConfigInv, Announced
  <2>3. /\ \A f \in ConfigFile \ {Destination} : texts[f] = before[f]
        /\ texts[Destination] = Parsable(changed, "winkit") /\ doctorSays.config = changed
    BY DEF ConfigInv, OthersKept, Written
  <2>4. was.path = resolve_config_path(command.explicit, command.env, before)
    BY LoadedSays
  <2>5. Destination = IF resolve_config_path(command.explicit, command.env, before) = "none"
                      THEN "winkit.toml"
                      ELSE resolve_config_path(command.explicit, command.env, before)
    BY <2>2, <2>4 DEF Destination
  <2>6. now.path = Destination /\ ~now.error /\ now.config = changed
    <3>1. ASSUME NEW d, d = Destination
          PROVE  /\ load_for_cli(command.explicit, command.env, texts).path = d
                 /\ ~load_for_cli(command.explicit, command.env, texts).error
                 /\ load_for_cli(command.explicit, command.env, texts).config = changed
      <4>1. /\ d = IF resolve_config_path(command.explicit, command.env, before) = "none"
                   THEN "winkit.toml"
                   ELSE resolve_config_path(command.explicit, command.env, before)
            /\ \A f \in ConfigFile \ {d} : texts[f] = before[f]
            /\ texts[d] = Parsable(changed, "winkit")
        BY <2>3, <2>5, <3>1
      <4> QED
        BY <2>1, <4>1, WrittenIsLoaded
    <3> QED
      BY <3>1
  <2>7. was.config \in Settings
    BY <2>1, LoadedIsSettings DEF ConfigInv, FilesTyped
  <2>8. /\ \A k \in DOMAIN changed : changed[k] # was.config[k] =>
             \E i \in 1..Len(command.line) :
                command.line[i].key = k \/ command.line[i].arg = "--profile"
        /\ ModeNames[was.config.mode] # {} => ModeNames[changed.mode] # {}
        /\ was.config.low_disk \in LowestValue..HighestValue
             => changed.low_disk \in LowestValue..HighestValue
    BY <2>1, <2>2, <2>7, AppliedKeepsSense
  <2>9. /\ Starts(command.explicit, command.env, before) => ModeNames[was.config.mode] # {}
        /\ ModeNames[now.config.mode] # {} => Starts(command.explicit, command.env, texts)
    BY <2>6, LoadedSays
  <2> HIDE DEF now, was
  <2> QED
    BY <2>3, <2>6, <2>8, <2>9
<1> QED
  BY <1>1, <1>2, <1>3 DEF ConfigurationSound, ConfigInv

\* Whatever lines the command is given, whatever files it finds, and whichever step
\* fails, is killed or meets an edit: the text that was in the file is there or kept, a
\* configuration that is said to be written is the one the server loads, nothing else is
\* written, and doctor and the summary say of the file what the server does with it
\* (`configure_run`, `write_config_file`, `doctor_run`).
THEOREM ConfigurationIsSound == ConfigSpec => []ConfigurationSound
PROOF
<1>1. ConfigIdle => ConfigInv
  BY ConfigStarts
<1>2. ConfigInv /\ [ConfigNext]_cfgVars => ConfigInv'
  <2> SUFFICES ASSUME ConfigInv, [ConfigNext]_cfgVars PROVE ConfigInv'
    OBVIOUS
  <2>1. CASE ConfigNext
    BY <2>1, GiveStep, RefuseLineStep, DoctorRunStep, ConfigureRunStep, BackUpStep,
       FailsBeforeWriting, TruncateStep, WriteStep, WriteFailsStep, KillStep, SaveStep,
       EndStep DEF ConfigNext
  <2>2. CASE UNCHANGED cfgVars
    <3>1. UNCHANGED <<cfgstep, command, texts, loaded, changed, keptTexts, saves,
                      doctorSays, before>>
      BY <2>2 DEF cfgVars
    <3>2. CommandTyped' /\ FilesTyped' /\ NothingYet' /\ Announced'
      BY <3>1 DEF ConfigInv, CommandTyped, FilesTyped, NothingYet, Announced
    <3>3. Destination' = Destination /\ OldText' = OldText /\ OldTextThere' = OldTextThere
      BY <3>1 DEF Destination, OldText, OldTextThere
    <3>4. OldTextSecured' /\ EditSecured' /\ OthersKept' /\ Written'
      BY <3>1, <3>3 DEF ConfigInv, OldTextSecured, EditSecured, OthersKept, Written
    <3>5. NothingElseWrites' /\ SummaryTells' /\ DoctorAgrees'
      BY <3>1 DEF ConfigInv, NothingElseWrites, SummaryTells, DoctorAgrees
    <3> QED
      BY <3>2, <3>4, <3>5 DEF ConfigInv
  <2> QED
    BY <2>1, <2>2
<1> QED
  BY <1>1, <1>2, ConfigInvSuffices, PTL DEF ConfigSpec

-----------------------------------------------------------------------------
(***************************************************************************)
(* The tree of files.  `Under` is a recursive function; on a tree with     *)
(* levels it is the least set that is closed under the entries of its      *)
(* members, which is the form the lemmas below use.                        *)
(***************************************************************************)

\* A set of numbers has a least one.
LEMMA NatLeast ==
  ASSUME NEW T \in SUBSET Nat, T # {}
  PROVE  \E m \in T : \A n \in T : m <= n
<1> DEFINE R == {p \in Nat \X Nat : p[1] < p[2]}
<1>1. IsWellFoundedOn(R, Nat)
  BY NatLessThanWellFounded DEF OpToRel
<1>2. PICK m \in T : \A n \in T : ~(<<n, m>> \in R)
  BY <1>1, WFMin
<1>3. ASSUME NEW n \in T  PROVE m <= n
  <2>1. n \in Nat /\ m \in Nat  OBVIOUS
  <2>2. <<n, m>> \notin R  BY <1>2
  <2>3. ~(n < m)  BY <2>1, <2>2
  <2> QED  BY <2>1, <2>3
<1> QED  BY <1>3

\* Members of S have their entries in S.
ClosedDown(S) == \A n \in S : Kids(n) \subseteq S
LeastDown(n) ==
    {m \in Node : \A S \in SUBSET Node : ClosedDown(S) /\ n \in S => m \in S}

LEMMA KidsAreNodes ==
  ASSUME NEW n \in Node
  PROVE  Kids(n) \subseteq Node
<1>1. Tree[n].kids \in Seq(Node)  BY TreeAssumption
<1>2. \A i \in DOMAIN Tree[n].kids : Tree[n].kids[i] \in Node
  BY <1>1
<1> QED  BY <1>2 DEF Kids, Range

LEMMA LevelsAreNumbers ==
  ASSUME NEW n \in Node
  PROVE  /\ Tree[n].level \in Nat /\ Tree[n].level <= Cardinality(Node)
         /\ Cardinality(Node) \in Nat
         /\ \A k \in Kids(n) : /\ Tree[k].level = Tree[n].level + 1
                               /\ \A m \in Node : k \in Kids(m) => m = n
         /\ Kids(n) # {} => IsDir(n)
<1>1. Cardinality(Node) \in Nat  BY TreeAssumption, FS_CardinalityType
<1>2. Tree[n].level \in 0..Cardinality(Node)  BY TreeAssumption
<1>3. \A k \in Kids(n) : /\ Tree[k].level = Tree[n].level + 1
                         /\ \A m \in Node : k \in Kids(m) => m = n
  BY TreeAssumption
<1>4. Kids(n) # {} => IsDir(n)  BY TreeAssumption
<1>5. Tree[n].level \in Nat /\ Tree[n].level <= Cardinality(Node)  BY <1>1, <1>2
<1> QED  BY <1>1, <1>3, <1>4, <1>5

LEMMA UnderIs ==
  Under = [n \in Node |-> {n} \cup UNION {Under[k] : k \in Kids(n)}]
<1> DEFINE L == [n \in Node |-> LeastDown(n)]
<1>1. ASSUME NEW n \in Node
      PROVE  n \in LeastDown(n) /\ ClosedDown(LeastDown(n)) /\ LeastDown(n) \subseteq Node
  BY KidsAreNodes DEF ClosedDown, LeastDown
<1>2. ASSUME NEW n \in Node
      PROVE  LeastDown(n) = {n} \cup UNION {LeastDown(k) : k \in Kids(n)}
  <2> DEFINE S == {n} \cup UNION {LeastDown(k) : k \in Kids(n)}
  <2>1. S \in SUBSET Node /\ n \in S  BY KidsAreNodes DEF LeastDown
  <2>2. ASSUME NEW k \in Kids(n)  PROVE LeastDown(k) \subseteq LeastDown(n)
    BY KidsAreNodes DEF LeastDown, ClosedDown
  <2>3. ClosedDown(S)
    <3> SUFFICES ASSUME NEW m \in S, NEW k \in Kids(m)  PROVE k \in S
      BY DEF ClosedDown
    <3>1. CASE m = n  BY <3>1, <1>1, KidsAreNodes
    <3>2. CASE m # n
      <4>1. PICK j \in Kids(n) : m \in LeastDown(j)  BY <3>2
      <4>2. k \in LeastDown(j)  BY <4>1, <1>1, KidsAreNodes DEF ClosedDown
      <4> QED  BY <4>2
    <3> QED  BY <3>1, <3>2
  <2>4. LeastDown(n) \subseteq S  BY <2>1, <2>3 DEF LeastDown
  <2>5. S \subseteq LeastDown(n)  BY <1>1, <2>2
  <2> QED  BY <2>4, <2>5
<1>3. L = [n \in Node |-> {n} \cup UNION {L[k] : k \in Kids(n)}]
  <2>1. ASSUME NEW n \in Node
        PROVE  UNION {L[k] : k \in Kids(n)} = UNION {LeastDown(k) : k \in Kids(n)}
    BY KidsAreNodes
  <2> QED  BY <1>2, <2>1
<1> HIDE DEF L
<1> QED  BY <1>3 DEF Under

\* What holds of n, and of the entries of whatever it holds of, holds of everything
\* under n.
LEMMA UnderLeast ==
  ASSUME NEW S \in SUBSET Node, ClosedDown(S), NEW n \in S
  PROVE  Under[n] \subseteq S
<1> DEFINE Bad == {m \in S : ~(Under[m] \subseteq S)}
           Heights == {h \in Nat : \E m \in Bad : h = Cardinality(Node) - Tree[m].level}
<1> SUFFICES ASSUME Bad # {}  PROVE FALSE
  OBVIOUS
<1>1. ASSUME NEW m \in Bad  PROVE Cardinality(Node) - Tree[m].level \in Heights
  <2>1. m \in Node  OBVIOUS
  <2>2. Cardinality(Node) - Tree[m].level \in Nat  BY <2>1, LevelsAreNumbers
  <2> QED  BY <2>2
<1>2. Heights # {} /\ Heights \in SUBSET Nat  BY <1>1
<1> HIDE DEF Heights
<1>3. PICK low \in Heights : \A h \in Heights : low <= h  BY <1>2, NatLeast
<1>4. PICK m \in Bad : low = Cardinality(Node) - Tree[m].level  BY <1>3 DEF Heights
<1>5. m \in Node /\ Kids(m) \subseteq S  BY DEF ClosedDown
<1>6. PICK x \in Under[m] : x \notin S  OBVIOUS
<1>7. Under[m] = {m} \cup UNION {Under[k] : k \in Kids(m)}  BY <1>5, UnderIs
<1>8. PICK k \in Kids(m) : x \in Under[k]  BY <1>6, <1>7
<1>9. k \in Bad /\ k \in Node  BY <1>5, <1>6, <1>8
<1>10. Tree[k].level = Tree[m].level + 1  BY <1>5, LevelsAreNumbers
<1>11. Cardinality(Node) - Tree[k].level \in Heights  BY <1>9, <1>1
<1>12. low <= Cardinality(Node) - Tree[k].level  BY <1>3, <1>11
<1>13. /\ Tree[m].level \in Nat /\ Cardinality(Node) \in Nat
  BY <1>5, LevelsAreNumbers
<1> QED  BY <1>4, <1>10, <1>12, <1>13

LEMMA UnderItself ==
  ASSUME NEW n \in Node
  PROVE  n \in Under[n] /\ \A k \in Kids(n) : Under[k] \subseteq Under[n]
<1>1. Under[n] = {n} \cup UNION {Under[k] : k \in Kids(n)}  BY UnderIs
<1> QED  BY <1>1

LEMMA UnderIsNodes ==
  ASSUME NEW n \in Node
  PROVE  Under[n] \subseteq Node
<1>1. ClosedDown(Node)  BY KidsAreNodes DEF ClosedDown
<1> QED  BY <1>1, UnderLeast

\* What is under something under n is under n.
LEMMA UnderTransitive ==
  ASSUME NEW n \in Node, NEW m \in Under[n]
  PROVE  Under[m] \subseteq Under[n] /\ Kids(m) \subseteq Under[n]
<1> DEFINE S == {x \in Node : Under[x] \subseteq Under[n]}
<1>1. ClosedDown(S)
  <2> SUFFICES ASSUME NEW x \in S, NEW k \in Kids(x)  PROVE k \in S
    BY DEF ClosedDown
  <2>1. k \in Node /\ Under[k] \subseteq Under[x]  BY UnderItself, KidsAreNodes
  <2> QED  BY <2>1
<1>2. n \in S /\ S \in SUBSET Node  OBVIOUS
<1>3. Under[n] \subseteq S
  <2> HIDE DEF S
  <2> QED  BY <1>1, <1>2, UnderLeast
<1>4. m \in Node /\ Under[m] \subseteq Under[n]  BY <1>3
<1>5. ASSUME NEW k \in Kids(m)  PROVE k \in Under[n]
  <2>1. k \in Node /\ Under[k] \subseteq Under[m]  BY <1>4, UnderItself, KidsAreNodes
  <2> QED  BY <2>1, <1>4, UnderItself
<1> QED  BY <1>4, <1>5

\* Below n is deeper than n.
LEMMA UnderIsDeeper ==
  ASSUME NEW n \in Node, NEW m \in Under[n], m # n
  PROVE  Tree[m].level > Tree[n].level
<1> DEFINE S == {x \in Node : x = n \/ Tree[x].level > Tree[n].level}
<1>1. ClosedDown(S)
  <2> SUFFICES ASSUME NEW x \in S, NEW k \in Kids(x)  PROVE k \in S
    BY DEF ClosedDown
  <2>1. k \in Node /\ x \in Node  BY KidsAreNodes
  <2>2. /\ Tree[k].level = Tree[x].level + 1 /\ Tree[x].level \in Nat
        /\ Tree[n].level \in Nat
    BY <2>1, LevelsAreNumbers
  <2>3. x = n \/ Tree[x].level > Tree[n].level  OBVIOUS
  <2>4. Tree[k].level > Tree[n].level  BY <2>2, <2>3
  <2> QED  BY <2>1, <2>4
<1>2. n \in S /\ S \in SUBSET Node  OBVIOUS
<1>3. Under[n] \subseteq S
  <2> HIDE DEF S
  <2> QED  BY <1>1, <1>2, UnderLeast
<1> QED  BY <1>3

\* Whatever is below n is an entry of something under n, and only of that.
LEMMA UnderHasParent ==
  ASSUME NEW n \in Node, NEW m \in Under[n], m # n
  PROVE  /\ \E p \in Under[n] : m \in Kids(p)
         /\ \A p \in Node : m \in Kids(p) => p \in Under[n]
<1> DEFINE S == {x \in Under[n] : x = n \/ \E p \in Under[n] : x \in Kids(p)}
<1>1. ClosedDown(S)
  <2> SUFFICES ASSUME NEW x \in S, NEW k \in Kids(x)  PROVE k \in S
    BY DEF ClosedDown
  <2>1. k \in Under[n]  BY UnderTransitive
  <2> QED  BY <2>1
<1>2. n \in S /\ S \in SUBSET Node  BY UnderItself, UnderIsNodes
<1>3. Under[n] \subseteq S
  <2> HIDE DEF S
  <2> QED  BY <1>1, <1>2, UnderLeast
<1>4. PICK p \in Under[n] : m \in Kids(p)  BY <1>3
<1>5. p \in Node  BY UnderIsNodes
<1>6. \A q \in Node : m \in Kids(q) => q = p  BY <1>4, <1>5, LevelsAreNumbers
<1> QED  BY <1>4, <1>6

-----------------------------------------------------------------------------
(* wildcard_match: the loop that goes back to its last star finds a match  *)
(* exactly when there is one.                                              *)

IsGlob(name, pattern) ==
    /\ Len(name) \in Nat /\ Len(pattern) \in Nat
    /\ \A i \in 1..Len(name) : name[i] # "*"

GlobSays(name, pattern, S, at) ==
    IF at.ni > Len(name) THEN \A i \in at.pi..Len(pattern) : pattern[i] = "*"
    ELSE \E next \in GlobTurns(name, pattern, at) : next \in S

\* The places from which the loop returns TRUE, as the least set that its turns lead to.
GlobClosed(name, pattern, S) ==
    \A at \in GlobPlaces(name, pattern) : GlobSays(name, pattern, S, at) => at \in S
GlobFinds(name, pattern) ==
    {at \in GlobPlaces(name, pattern) :
        \A S \in SUBSET GlobPlaces(name, pattern) :
            GlobClosed(name, pattern, S) => at \in S}

LEMMA GlobSaysMore ==
  ASSUME NEW name, NEW pattern, NEW S, NEW T, S \subseteq T, NEW at,
         GlobSays(name, pattern, S, at)
  PROVE  GlobSays(name, pattern, T, at)
  BY DEF GlobSays

LEMMA GlobFindsIs ==
  ASSUME NEW name, NEW pattern, NEW at \in GlobPlaces(name, pattern)
  PROVE  at \in GlobFinds(name, pattern)
            <=> GlobSays(name, pattern, GlobFinds(name, pattern), at)
<1> DEFINE Spots == GlobPlaces(name, pattern)
           F == GlobFinds(name, pattern)
           G == {p \in Spots : GlobSays(name, pattern, F, p)}
<1>1. F \in SUBSET Spots  BY DEF GlobFinds
<1>2. GlobClosed(name, pattern, F)
  <2> SUFFICES ASSUME NEW p \in Spots, GlobSays(name, pattern, F, p),
                      NEW S \in SUBSET Spots, GlobClosed(name, pattern, S)
               PROVE  p \in S
    BY DEF GlobClosed, GlobFinds
  <2>1. F \subseteq S  BY DEF GlobFinds
  <2>2. GlobSays(name, pattern, S, p)  BY <2>1, GlobSaysMore
  <2> QED  BY <2>2 DEF GlobClosed
<1>3. GlobClosed(name, pattern, G) /\ G \in SUBSET Spots
  <2>1. G \subseteq F  BY <1>2 DEF GlobClosed
  <2> SUFFICES ASSUME NEW p \in Spots, GlobSays(name, pattern, G, p)  PROVE p \in G
    BY DEF GlobClosed
  <2>2. GlobSays(name, pattern, F, p)  BY <2>1, GlobSaysMore
  <2> QED  BY <2>2
<1>4. F \subseteq G
  <2> HIDE DEF G
  <2> QED  BY <1>3 DEF GlobFinds
<1> QED  BY <1>2, <1>4 DEF GlobClosed

LEMMA GlobLoopIs ==
  ASSUME NEW name, NEW pattern,
         \A at \in GlobPlaces(name, pattern) :
            at.ni <= Len(name) =>
              GlobTurns(name, pattern, at) \subseteq GlobPlaces(name, pattern),
         \A at \in GlobPlaces(name, pattern) : at.ni \in Nat, Len(name) \in Nat
  PROVE  LET go == GlobLoop(name, pattern)
         IN  go = [at \in GlobPlaces(name, pattern) |->
                     IF at.ni > Len(name)
                     THEN \A i \in at.pi..Len(pattern) : pattern[i] = "*"
                     ELSE \E next \in GlobTurns(name, pattern, at) : go[next]]
<1> DEFINE Spots == GlobPlaces(name, pattern)
           Ends(at) == \A i \in at.pi..Len(pattern) : pattern[i] = "*"
           W == [at \in Spots |-> at \in GlobFinds(name, pattern)]
           B(g, at) == IF at.ni > Len(name) THEN Ends(at)
                       ELSE \E next \in GlobTurns(name, pattern, at) : g[next]
<1>1. ASSUME NEW at \in Spots  PROVE W[at] <=> B(W, at)
  <2>1. W[at] <=> GlobSays(name, pattern, GlobFinds(name, pattern), at)
    BY GlobFindsIs
  <2>2. CASE at.ni > Len(name)
    <3>1. GlobSays(name, pattern, GlobFinds(name, pattern), at) <=> Ends(at)
      BY <2>2 DEF GlobSays
    <3> QED  BY <2>1, <2>2, <3>1
  <2>3. CASE ~(at.ni > Len(name))
    <3>1. GlobTurns(name, pattern, at) \subseteq Spots  BY <2>3
    <3>2. \A next \in GlobTurns(name, pattern, at) :
             W[next] <=> next \in GlobFinds(name, pattern)
      BY <3>1
    <3>3. GlobSays(name, pattern, GlobFinds(name, pattern), at)
             <=> \E next \in GlobTurns(name, pattern, at) : next \in GlobFinds(name, pattern)
      BY <2>3 DEF GlobSays
    <3>4. (\E next \in GlobTurns(name, pattern, at) : W[next])
             <=> \E next \in GlobTurns(name, pattern, at) : next \in GlobFinds(name, pattern)
      BY <3>2
    <3>5. W[at] <=> \E next \in GlobTurns(name, pattern, at) : W[next]
      BY <2>1, <3>3, <3>4
    <3> QED  BY <2>3, <3>5
  <2> QED  BY <2>2, <2>3
<1>2. W = [at \in Spots |-> B(W, at)]
  <2>1. ASSUME NEW at \in Spots  PROVE W[at] = B(W, at)
    <3>1. W[at] \in BOOLEAN  OBVIOUS
    <3>2. B(W, at) \in BOOLEAN  OBVIOUS
    <3>3. W[at] <=> B(W, at)  BY <1>1
    <3> HIDE DEF W, B
    <3> QED  BY <3>1, <3>2, <3>3
  <2>2. DOMAIN W = Spots /\ W = [at \in Spots |-> W[at]]  OBVIOUS
  <2> HIDE DEF W, B
  <2> QED  BY <2>1, <2>2
<1> HIDE DEF W
<1>3. \E go : go = [at \in Spots |-> B(go, at)]
  BY <1>2
<1> QED  BY <1>3 DEF GlobLoop

\* The rest of the name from i on matches the rest of the pattern from j on.
Cuts(name, pattern) == [1..(Len(pattern) + 1) -> 1..(Len(name) + 1)]
PieceFits(name, pattern, at, k) ==
    IF pattern[k] = "*" THEN at[k] <= at[k + 1]
    ELSE at[k + 1] = at[k] + 1 /\ pattern[k] \in {"?", name[at[k]]}
RestMatches(name, pattern, i, j) ==
    \E at \in Cuts(name, pattern) :
        /\ at[j] = i /\ at[Len(pattern) + 1] = Len(name) + 1
        /\ \A k \in j..Len(pattern) : PieceFits(name, pattern, at, k)

LEMMA MatchesIsRest ==
  ASSUME NEW name, NEW pattern
  PROVE  Matches(name, pattern) <=> RestMatches(name, pattern, 1, 1)
  BY DEF Matches, RestMatches, Cuts, PieceFits

\* The rest of a pattern takes up no place before its own.
LEMMA CutsGrow ==
  ASSUME NEW name, NEW pattern, IsGlob(name, pattern), NEW at \in Cuts(name, pattern),
         NEW j \in 1..(Len(pattern) + 1),
         \A k \in j..Len(pattern) : PieceFits(name, pattern, at, k)
  PROVE  \A k \in j..(Len(pattern) + 1) : at[k] >= at[j]
<1> DEFINE Bad == {k \in j..(Len(pattern) + 1) : ~(at[k] >= at[j])}
<1> USE DEF IsGlob
<1> SUFFICES ASSUME Bad # {}  PROVE FALSE
  OBVIOUS
<1>1. Bad \in SUBSET Nat  OBVIOUS
<1>2. PICK k \in Bad : \A m \in Bad : k <= m  BY <1>1, NatLeast
<1>3. at[j] \in 1..(Len(name) + 1)  BY DEF Cuts
<1>4. k # j  BY <1>2, <1>3
<1>5. k - 1 \in j..Len(pattern) /\ k \in 1..(Len(pattern) + 1)  BY <1>2, <1>4
<1>6. k - 1 \notin Bad  BY <1>1, <1>2, <1>5
<1>7. at[k - 1] >= at[j]  BY <1>5, <1>6
<1>8. at[k] \in Int /\ at[k - 1] \in Int  <2>1. k - 1 \in 1..(Len(pattern) + 1)  BY <1>5
  <2> QED  BY <1>5, <2>1 DEF Cuts
<1>9. at[k] >= at[k - 1]
  <2>1. PieceFits(name, pattern, at, k - 1)  BY <1>5
  <2>2. (k - 1) + 1 = k  BY <1>5
  <2> QED  BY <2>1, <2>2, <1>8 DEF PieceFits
<1> QED  BY <1>2, <1>3, <1>7, <1>8, <1>9

LEMMA RestOfNoName ==
  ASSUME NEW name, NEW pattern, IsGlob(name, pattern),
         NEW j \in 1..(Len(pattern) + 1)
  PROVE  RestMatches(name, pattern, Len(name) + 1, j)
            <=> \A k \in j..Len(pattern) : pattern[k] = "*"
<1> USE DEF IsGlob
<1>1. ASSUME RestMatches(name, pattern, Len(name) + 1, j), NEW k \in j..Len(pattern)
      PROVE  pattern[k] = "*"
  <2>1. PICK at \in Cuts(name, pattern) :
           /\ at[j] = Len(name) + 1
           /\ \A m \in j..Len(pattern) : PieceFits(name, pattern, at, m)
    BY <1>1 DEF RestMatches
  <2>2. \A m \in j..(Len(pattern) + 1) : at[m] >= Len(name) + 1
    BY <2>1, CutsGrow
  <2>3. at[k] >= Len(name) + 1 /\ at[k + 1] \in 1..(Len(name) + 1) /\ at[k] \in Int
    BY <2>2 DEF Cuts
  <2>4. PieceFits(name, pattern, at, k)  BY <2>1
  <2> QED  BY <2>3, <2>4 DEF PieceFits
<1>2. ASSUME \A k \in j..Len(pattern) : pattern[k] = "*"
      PROVE  RestMatches(name, pattern, Len(name) + 1, j)
  <2> DEFINE at == [k \in 1..(Len(pattern) + 1) |-> Len(name) + 1]
  <2>1. at \in Cuts(name, pattern)  BY DEF Cuts
  <2>2. at[j] = Len(name) + 1 /\ at[Len(pattern) + 1] = Len(name) + 1  OBVIOUS
  <2>3. \A k \in j..Len(pattern) : PieceFits(name, pattern, at, k)  BY <1>2 DEF PieceFits
  <2> HIDE DEF at
  <2> QED  BY <2>1, <2>2, <2>3 DEF RestMatches
<1> QED  BY <1>1, <1>2

LEMMA RestOfNoPattern ==
  ASSUME NEW name, NEW pattern, IsGlob(name, pattern), NEW i \in 1..Len(name)
  PROVE  ~RestMatches(name, pattern, i, Len(pattern) + 1)
  BY DEF RestMatches, IsGlob

\* A character that is no star matches the next one.
LEMMA RestOfOne ==
  ASSUME NEW name, NEW pattern, IsGlob(name, pattern), NEW i \in 1..(Len(name) + 1),
         NEW j \in 1..Len(pattern), pattern[j] # "*"
  PROVE  RestMatches(name, pattern, i, j)
            <=> /\ i <= Len(name) /\ pattern[j] \in {"?", name[i]}
                /\ RestMatches(name, pattern, i + 1, j + 1)
<1> USE DEF IsGlob
<1>1. ASSUME RestMatches(name, pattern, i, j)
      PROVE  /\ i <= Len(name) /\ pattern[j] \in {"?", name[i]}
             /\ RestMatches(name, pattern, i + 1, j + 1)
  <2>1. PICK at \in Cuts(name, pattern) :
           /\ at[j] = i /\ at[Len(pattern) + 1] = Len(name) + 1
           /\ \A m \in j..Len(pattern) : PieceFits(name, pattern, at, m)
    BY <1>1 DEF RestMatches
  <2>2. PieceFits(name, pattern, at, j)  BY <2>1
  <2>3. at[j + 1] = i + 1 /\ pattern[j] \in {"?", name[i]}  BY <2>1, <2>2 DEF PieceFits
  <2>4. at[j + 1] \in 1..(Len(name) + 1)  BY DEF Cuts
  <2>5. \A m \in (j + 1)..Len(pattern) : PieceFits(name, pattern, at, m)  BY <2>1
  <2> QED  BY <2>1, <2>3, <2>4, <2>5 DEF RestMatches
<1>2. ASSUME i <= Len(name), pattern[j] \in {"?", name[i]},
             RestMatches(name, pattern, i + 1, j + 1)
      PROVE  RestMatches(name, pattern, i, j)
  <2>1. PICK at \in Cuts(name, pattern) :
           /\ at[j + 1] = i + 1 /\ at[Len(pattern) + 1] = Len(name) + 1
           /\ \A m \in (j + 1)..Len(pattern) : PieceFits(name, pattern, at, m)
    BY <1>2 DEF RestMatches
  <2> DEFINE to == [at EXCEPT ![j] = i]
  <2>2. to \in Cuts(name, pattern)  BY DEF Cuts
  <2>3. to[j] = i /\ \A m \in 1..(Len(pattern) + 1) : m # j => to[m] = at[m]
    BY DEF Cuts
  <2> HIDE DEF to
  <2>4. ASSUME NEW m \in j..Len(pattern)  PROVE PieceFits(name, pattern, to, m)
    <3>1. CASE m = j
      <4>1. to[j + 1] = i + 1  BY <2>1, <2>3
      <4> QED  BY <3>1, <4>1, <2>3, <1>2 DEF PieceFits
    <3>2. CASE m # j
      <4>1. m \in (j + 1)..Len(pattern) /\ to[m] = at[m] /\ to[m + 1] = at[m + 1]
        BY <3>2, <2>3
      <4>2. PieceFits(name, pattern, at, m)  BY <4>1, <2>1
      <4> QED  BY <4>1, <4>2 DEF PieceFits
    <3> QED  BY <3>1, <3>2
  <2>5. to[Len(pattern) + 1] = Len(name) + 1  BY <2>1, <2>3
  <2> QED  BY <2>2, <2>3, <2>4, <2>5 DEF RestMatches
<1> QED  BY <1>1, <1>2

\* A star matches any run.
LEMMA RestOfStar ==
  ASSUME NEW name, NEW pattern, IsGlob(name, pattern), NEW i \in 1..(Len(name) + 1),
         NEW j \in 1..Len(pattern), pattern[j] = "*"
  PROVE  RestMatches(name, pattern, i, j)
            <=> \E m \in i..(Len(name) + 1) : RestMatches(name, pattern, m, j + 1)
<1> USE DEF IsGlob
<1>1. ASSUME RestMatches(name, pattern, i, j)
      PROVE  \E m \in i..(Len(name) + 1) : RestMatches(name, pattern, m, j + 1)
  <2>1. PICK at \in Cuts(name, pattern) :
           /\ at[j] = i /\ at[Len(pattern) + 1] = Len(name) + 1
           /\ \A m \in j..Len(pattern) : PieceFits(name, pattern, at, m)
    BY <1>1 DEF RestMatches
  <2>2. PieceFits(name, pattern, at, j)  BY <2>1
  <2>3. i <= at[j + 1]  BY <2>1, <2>2 DEF PieceFits
  <2>4. at[j + 1] \in 1..(Len(name) + 1)  BY DEF Cuts
  <2>5. \A m \in (j + 1)..Len(pattern) : PieceFits(name, pattern, at, m)  BY <2>1
  <2>6. RestMatches(name, pattern, at[j + 1], j + 1)  BY <2>1, <2>5 DEF RestMatches
  <2> QED  BY <2>3, <2>4, <2>6
<1>2. ASSUME NEW m \in i..(Len(name) + 1), RestMatches(name, pattern, m, j + 1)
      PROVE  RestMatches(name, pattern, i, j)
  <2>1. PICK at \in Cuts(name, pattern) :
           /\ at[j + 1] = m /\ at[Len(pattern) + 1] = Len(name) + 1
           /\ \A k \in (j + 1)..Len(pattern) : PieceFits(name, pattern, at, k)
    BY <1>2 DEF RestMatches
  <2> DEFINE to == [at EXCEPT ![j] = i]
  <2>2. to \in Cuts(name, pattern)  BY DEF Cuts
  <2>3. to[j] = i /\ \A k \in 1..(Len(pattern) + 1) : k # j => to[k] = at[k]
    BY DEF Cuts
  <2> HIDE DEF to
  <2>4. ASSUME NEW k \in j..Len(pattern)  PROVE PieceFits(name, pattern, to, k)
    <3>1. CASE k = j
      <4>1. to[j + 1] = m  BY <2>1, <2>3
      <4> QED  BY <3>1, <4>1, <2>3 DEF PieceFits
    <3>2. CASE k # j
      <4>1. k \in (j + 1)..Len(pattern) /\ to[k] = at[k] /\ to[k + 1] = at[k + 1]
        BY <3>2, <2>3
      <4>2. PieceFits(name, pattern, at, k)  BY <4>1, <2>1
      <4> QED  BY <4>1, <4>2 DEF PieceFits
    <3> QED  BY <3>1, <3>2
  <2>5. to[Len(pattern) + 1] = Len(name) + 1  BY <2>1, <2>3
  <2> QED  BY <2>2, <2>3, <2>4, <2>5 DEF RestMatches
<1> QED  BY <1>1, <1>2

\* n characters of the pattern after its star at star match those of the name from mark
\* on, literally.
StarKept(name, pattern, star, mark, n) ==
    /\ n \in Nat /\ star + 1 + n <= Len(pattern) + 1 /\ mark + n <= Len(name) + 1
    /\ \A k \in 0..(n - 1) :
          /\ pattern[star + 1 + k] # "*"
          /\ pattern[star + 1 + k] \in {"?", name[mark + k]}

\* Whatever matches what follows the star has consumed as many characters.
LEMMA KeptIsMatched ==
  ASSUME NEW name, NEW pattern, IsGlob(name, pattern), NEW star \in 1..Len(pattern),
         NEW mark \in 1..(Len(name) + 1), NEW n, StarKept(name, pattern, star, mark, n),
         NEW m \in mark..(Len(name) + 1), RestMatches(name, pattern, m, star + 1)
  PROVE  m + n <= Len(name) + 1 /\ RestMatches(name, pattern, m + n, star + 1 + n)
<1> USE DEF IsGlob
<1> DEFINE Ok(k) == /\ m + k <= Len(name) + 1
                    /\ RestMatches(name, pattern, m + k, star + 1 + k)
           Bad == {k \in 0..n : ~Ok(k)}
<1>1. n \in Nat /\ star + 1 + n <= Len(pattern) + 1  BY DEF StarKept
<1>2. Ok(0)
  <2>1. m + 0 = m /\ star + 1 + 0 = star + 1  OBVIOUS
  <2> QED  BY <2>1
<1>3. ASSUME Bad # {}  PROVE FALSE
  <2>1. Bad \in SUBSET Nat  BY <1>1
  <2>2. PICK k \in Bad : \A x \in Bad : k <= x  BY <1>3, <2>1, NatLeast
  <2>3. k \in 0..n /\ k # 0  BY <1>2, <2>2
  <2>4. k - 1 \in 0..n /\ k - 1 \notin Bad /\ k - 1 \in 0..(n - 1)
    <3>1. k - 1 \in 0..n /\ k - 1 \in 0..(n - 1) /\ ~(k <= k - 1)  BY <1>1, <2>3
    <3> HIDE DEF Bad
    <3> QED  BY <2>2, <3>1
  <2>5. Ok(k - 1)  BY <2>4
  <2>6. star + k \in 1..Len(pattern)  BY <1>1, <2>3
  <2>7. pattern[star + k] # "*"
    <3>1. pattern[star + 1 + (k - 1)] # "*"  BY <2>4 DEF StarKept
    <3>2. star + 1 + (k - 1) = star + k  BY <1>1, <2>3
    <3> QED  BY <3>1, <3>2
  <2>8. m + (k - 1) \in 1..(Len(name) + 1)  BY <1>1, <2>3, <2>5
  <2>9. RestMatches(name, pattern, m + (k - 1), star + k)
    <3>1. star + 1 + (k - 1) = star + k  BY <1>1, <2>3
    <3> QED  BY <3>1, <2>5
  <2>10. /\ m + (k - 1) <= Len(name)
         /\ RestMatches(name, pattern, (m + (k - 1)) + 1, (star + k) + 1)
    BY <2>6, <2>7, <2>8, <2>9, RestOfOne
  <2>11. (m + (k - 1)) + 1 = m + k /\ (star + k) + 1 = star + 1 + k
    BY <1>1, <2>3
  <2>12. Ok(k)  BY <2>10, <2>11, <2>3, <2>8, <1>1
  <2> QED  BY <2>2, <2>12
<1>4. n \in 0..n  BY <1>1
<1> QED  BY <1>3, <1>4

\* And the name from the mark on matches it if what follows does.
LEMMA KeptMatches ==
  ASSUME NEW name, NEW pattern, IsGlob(name, pattern), NEW star \in 1..Len(pattern),
         NEW mark \in 1..(Len(name) + 1), NEW n, StarKept(name, pattern, star, mark, n),
         RestMatches(name, pattern, mark + n, star + 1 + n)
  PROVE  RestMatches(name, pattern, mark, star + 1)
<1> USE DEF IsGlob
<1> DEFINE Ok(k) == RestMatches(name, pattern, mark + (n - k), star + 1 + (n - k))
           Bad == {k \in 0..n : ~Ok(k)}
<1>1. n \in Nat /\ star + 1 + n <= Len(pattern) + 1 /\ mark + n <= Len(name) + 1
  BY DEF StarKept
<1>2. Ok(0)
  <2>1. n - 0 = n  BY <1>1
  <2> QED  BY <2>1
<1>3. ASSUME Bad # {}  PROVE FALSE
  <2>1. Bad \in SUBSET Nat  BY <1>1
  <2>2. PICK k \in Bad : \A x \in Bad : k <= x  BY <1>3, <2>1, NatLeast
  <2>3. k \in 0..n /\ k # 0  BY <1>2, <2>2
  <2>4. k - 1 \in 0..n /\ k - 1 \notin Bad
    <3>1. k - 1 \in 0..n /\ ~(k <= k - 1)  BY <1>1, <2>3
    <3> HIDE DEF Bad
    <3> QED  BY <2>2, <3>1
  <2>5. Ok(k - 1)  BY <2>4
  <2> DEFINE i == mark + (n - k)
             j == star + 1 + (n - k)
  <2>6. i \in 1..Len(name) /\ j \in 1..Len(pattern) /\ n - k \in 0..(n - 1)
    BY <1>1, <2>3
  <2>7. pattern[j] # "*" /\ pattern[j] \in {"?", name[i]}
    BY <2>6 DEF StarKept
  <2>8. mark + (n - (k - 1)) = i + 1 /\ star + 1 + (n - (k - 1)) = j + 1
    BY <1>1, <2>3
  <2>9. RestMatches(name, pattern, i + 1, j + 1)  BY <2>5, <2>8
  <2> HIDE DEF i, j
  <2>10. i \in 1..(Len(name) + 1) /\ i <= Len(name)  BY <2>6
  <2>11. RestMatches(name, pattern, i, j)  BY <2>6, <2>7, <2>9, <2>10, RestOfOne
  <2> USE DEF i, j
  <2> QED  BY <2>2, <2>11
<1>4. n \in 0..n  BY <1>1
<1>5. Ok(n)  BY <1>3, <1>4
<1>6. mark + (n - n) = mark /\ star + 1 + (n - n) = star + 1  BY <1>1
<1> QED  BY <1>5, <1>6

\* What is left to be matched from a place: what follows, or what follows the last star
\* from its mark on or later.
GlobLeft(name, pattern, at) ==
    IF at.star = 0 THEN RestMatches(name, pattern, at.ni, at.pi)
    ELSE \E m \in at.mark..(Len(name) + 1) : RestMatches(name, pattern, m, at.star + 1)

\* The places the loop comes to.
GlobKept(name, pattern, at) ==
    at.star # 0 =>
      /\ at.pi = at.star + 1 + (at.ni - at.mark)
      /\ StarKept(name, pattern, at.star, at.mark, at.ni - at.mark)

LEMMA GlobPlaceIs ==
  ASSUME NEW name, NEW pattern, IsGlob(name, pattern), NEW at \in GlobPlaces(name, pattern)
  PROVE  /\ at.ni \in 1..(Len(name) + 1) /\ at.pi \in 1..(Len(pattern) + 1)
         /\ at.star \in 0..Len(pattern) /\ at.mark \in 1..(Len(name) + 1)
         /\ at.star < at.pi /\ at.mark <= at.ni
  BY DEF GlobPlaces

LEMMA GlobPlaceMade ==
  ASSUME NEW name, NEW pattern, IsGlob(name, pattern),
         NEW ni \in 1..(Len(name) + 1), NEW pi \in 1..(Len(pattern) + 1),
         NEW star \in 0..Len(pattern), NEW mark \in 1..(Len(name) + 1),
         star < pi, mark <= ni
  PROVE  [ni |-> ni, pi |-> pi, star |-> star, mark |-> mark] \in GlobPlaces(name, pattern)
  BY DEF GlobPlaces

\* What is left at a star, or at a place the loop gives up, after a star.
LEMMA LeftAfterStar ==
  ASSUME NEW name, NEW pattern, IsGlob(name, pattern), NEW at \in GlobPlaces(name, pattern),
         GlobKept(name, pattern, at), at.star # 0
  PROVE  /\ RestMatches(name, pattern, at.ni, at.pi)
              <=> RestMatches(name, pattern, at.mark, at.star + 1)
         /\ \A m \in at.mark..(Len(name) + 1) :
               RestMatches(name, pattern, m, at.star + 1) =>
                 /\ m + (at.ni - at.mark) \in at.ni..(Len(name) + 1)
                 /\ RestMatches(name, pattern, m + (at.ni - at.mark), at.pi)
<1> USE DEF IsGlob
<1>1. /\ at.ni \in 1..(Len(name) + 1) /\ at.mark \in 1..(Len(name) + 1) /\ at.mark <= at.ni
      /\ at.star \in 1..Len(pattern)
  BY GlobPlaceIs
<1> DEFINE n == at.ni - at.mark
<1>2. /\ at.pi = at.star + 1 + n /\ StarKept(name, pattern, at.star, at.mark, n)
  BY DEF GlobKept
<1>3. n \in Nat /\ at.mark + n = at.ni  BY <1>1
<1> HIDE DEF n
<1>4. ASSUME NEW m \in at.mark..(Len(name) + 1), RestMatches(name, pattern, m, at.star + 1)
      PROVE  /\ m + n \in at.ni..(Len(name) + 1)
             /\ RestMatches(name, pattern, m + n, at.pi)
  <2>1. m + n <= Len(name) + 1 /\ RestMatches(name, pattern, m + n, at.star + 1 + n)
    BY <1>1, <1>2, <1>4, KeptIsMatched
  <2>2. m + n \in at.ni..(Len(name) + 1)  BY <1>1, <1>3, <2>1
  <2> QED  BY <1>2, <2>1, <2>2
<1>5. RestMatches(name, pattern, at.ni, at.pi)
         => RestMatches(name, pattern, at.mark, at.star + 1)
  BY <1>1, <1>2, <1>3, KeptMatches
<1>6. at.mark \in at.mark..(Len(name) + 1)  BY <1>1
<1>7. RestMatches(name, pattern, at.mark, at.star + 1)
         => RestMatches(name, pattern, at.ni, at.pi)
  BY <1>3, <1>4, <1>6
<1> QED  BY <1>4, <1>5, <1>7 DEF n

\* At the end of the name what is left must be stars.
LEMMA LeftAtEnd ==
  ASSUME NEW name, NEW pattern, IsGlob(name, pattern), NEW at \in GlobPlaces(name, pattern),
         GlobKept(name, pattern, at), at.ni > Len(name)
  PROVE  GlobLeft(name, pattern, at) <=> \A i \in at.pi..Len(pattern) : pattern[i] = "*"
<1> USE DEF IsGlob
<1>1. /\ at.ni = Len(name) + 1 /\ at.mark \in 1..(Len(name) + 1)
      /\ at.pi \in 1..(Len(pattern) + 1)
  BY GlobPlaceIs
<1>2. RestMatches(name, pattern, at.ni, at.pi)
         <=> \A i \in at.pi..Len(pattern) : pattern[i] = "*"
  BY <1>1, RestOfNoName
<1>3. CASE at.star = 0  BY <1>2, <1>3 DEF GlobLeft
<1>4. CASE at.star # 0
  <2>1. ASSUME NEW m \in at.mark..(Len(name) + 1), RestMatches(name, pattern, m, at.star + 1)
        PROVE  RestMatches(name, pattern, at.ni, at.pi)
    <3>1. /\ m + (at.ni - at.mark) \in at.ni..(Len(name) + 1)
          /\ RestMatches(name, pattern, m + (at.ni - at.mark), at.pi)
      BY <1>4, <2>1, LeftAfterStar
    <3>2. m + (at.ni - at.mark) = at.ni  BY <1>1, <3>1
    <3> QED  BY <3>1, <3>2
  <2>2. RestMatches(name, pattern, at.ni, at.pi)
           => RestMatches(name, pattern, at.mark, at.star + 1)
    BY <1>4, LeftAfterStar
  <2>3. at.mark \in at.mark..(Len(name) + 1)  BY <1>1
  <2>4. GlobLeft(name, pattern, at) <=> RestMatches(name, pattern, at.ni, at.pi)
    BY <1>4, <2>1, <2>2, <2>3 DEF GlobLeft
  <2> QED  BY <1>2, <2>4
<1> QED  BY <1>3, <1>4

\* A turn of the loop leaves as much to be matched, and comes further: to a later star,
\* to a later mark, or on in the name.
Further(from, to) ==
    \/ to.star > from.star
    \/ to.star = from.star /\ to.mark > from.mark
    \/ to.star = from.star /\ to.mark = from.mark /\ to.ni > from.ni

LEMMA LiteralTurn ==
  ASSUME NEW name, NEW pattern, IsGlob(name, pattern), NEW at \in GlobPlaces(name, pattern),
         GlobKept(name, pattern, at), at.ni <= Len(name),
         at.pi <= Len(pattern), pattern[at.pi] \in {"?", name[at.ni]},
         NEW next, next = [ni |-> at.ni + 1, pi |-> at.pi + 1, star |-> at.star,
                           mark |-> at.mark]
  PROVE  /\ next \in GlobPlaces(name, pattern) /\ GlobKept(name, pattern, next)
         /\ Further(at, next)
         /\ GlobLeft(name, pattern, at) <=> GlobLeft(name, pattern, next)
<1> USE DEF IsGlob
<1>1. /\ at.ni \in 1..Len(name) /\ at.mark \in 1..(Len(name) + 1) /\ at.mark <= at.ni
      /\ at.star \in 0..Len(pattern) /\ at.pi \in 1..Len(pattern) /\ at.star < at.pi
  BY GlobPlaceIs
<1>2. /\ next.ni = at.ni + 1 /\ next.pi = at.pi + 1 /\ next.star = at.star
      /\ next.mark = at.mark
  OBVIOUS
<1>3. next \in GlobPlaces(name, pattern)
  <2>1. /\ at.ni + 1 \in 1..(Len(name) + 1) /\ at.pi + 1 \in 1..(Len(pattern) + 1)
        /\ at.star < at.pi + 1 /\ at.mark <= at.ni + 1
    BY <1>1
  <2> QED  BY <1>1, <2>1, GlobPlaceMade
<1>4. pattern[at.pi] # "*"  BY <1>1
<1>5. GlobKept(name, pattern, next)
  <2> SUFFICES ASSUME at.star # 0
               PROVE  /\ next.pi = next.star + 1 + (next.ni - next.mark)
                      /\ StarKept(name, pattern, next.star, next.mark, next.ni - next.mark)
    <3> HIDE DEF GlobPlaces
    <3> QED  BY <1>2 DEF GlobKept
  <2> DEFINE n == at.ni - at.mark
  <2>1. at.pi = at.star + 1 + n /\ StarKept(name, pattern, at.star, at.mark, n)
    BY DEF GlobKept
  <2>2. n \in Nat /\ (at.ni + 1) - at.mark = n + 1 /\ at.mark + n = at.ni  BY <1>1
  <2> HIDE DEF n
  <2>3. at.star + 1 + (n + 1) <= Len(pattern) + 1 /\ at.mark + (n + 1) <= Len(name) + 1
    <3>1. at.star \in Int /\ n \in Int /\ at.mark \in Int /\ at.star + 1 + n <= Len(pattern)
      BY <1>1, <2>1, <2>2
    <3>2. at.mark + n <= Len(name)  BY <1>1, <2>2
    <3> QED  BY <3>1, <3>2
  <2>4. ASSUME NEW k \in 0..((n + 1) - 1)
        PROVE  /\ pattern[at.star + 1 + k] # "*"
               /\ pattern[at.star + 1 + k] \in {"?", name[at.mark + k]}
    <3>1. CASE k = n  BY <3>1, <2>1, <2>2, <1>4
    <3>2. CASE k # n
      <4>1. k \in 0..(n - 1)  BY <3>2, <2>2
      <4> QED  BY <4>1, <2>1 DEF StarKept
    <3> QED  BY <3>1, <3>2
  <2>5. StarKept(name, pattern, at.star, at.mark, n + 1)
    BY <2>2, <2>3, <2>4 DEF StarKept
  <2>6. next.ni - next.mark = n + 1  BY <1>2, <2>2
  <2>7. next.pi = next.star + 1 + (n + 1)
    <3>1. at.star \in Int /\ n \in Int /\ at.pi = at.star + 1 + n  BY <1>1, <2>1, <2>2
    <3>2. \A i, j \in Int : (i + 1 + j) + 1 = i + 1 + (j + 1)  OBVIOUS
    <3>3. at.pi + 1 = at.star + 1 + (n + 1)  BY <3>1, <3>2
    <3> QED  BY <1>2, <3>3
  <2> QED  BY <1>2, <2>5, <2>6, <2>7
<1>6. Further(at, next)  BY <1>1, <1>2 DEF Further
<1>7. GlobLeft(name, pattern, at) <=> GlobLeft(name, pattern, next)
  <2>1. CASE at.star = 0
    <3>1. RestMatches(name, pattern, at.ni, at.pi)
             <=> RestMatches(name, pattern, at.ni + 1, at.pi + 1)
      <4>1. at.ni \in 1..(Len(name) + 1)  BY <1>1
      <4> QED  BY <1>1, <1>4, <4>1, RestOfOne
    <3> QED  BY <2>1, <1>2, <3>1 DEF GlobLeft
  <2>2. CASE at.star # 0  BY <2>2, <1>2 DEF GlobLeft
  <2> QED  BY <2>1, <2>2
<1> QED  BY <1>3, <1>5, <1>6, <1>7

LEMMA StarTurn ==
  ASSUME NEW name, NEW pattern, IsGlob(name, pattern), NEW at \in GlobPlaces(name, pattern),
         GlobKept(name, pattern, at), at.ni <= Len(name),
         at.pi <= Len(pattern), pattern[at.pi] = "*",
         NEW next, next = [ni |-> at.ni, pi |-> at.pi + 1, star |-> at.pi, mark |-> at.ni]
  PROVE  /\ next \in GlobPlaces(name, pattern) /\ GlobKept(name, pattern, next)
         /\ Further(at, next)
         /\ GlobLeft(name, pattern, at) <=> GlobLeft(name, pattern, next)
<1> USE DEF IsGlob
<1>1. /\ at.ni \in 1..Len(name) /\ at.mark \in 1..(Len(name) + 1) /\ at.mark <= at.ni
      /\ at.star \in 0..Len(pattern) /\ at.pi \in 1..Len(pattern) /\ at.star < at.pi
  BY GlobPlaceIs
<1>2. /\ next.ni = at.ni /\ next.pi = at.pi + 1 /\ next.star = at.pi /\ next.mark = at.ni
  OBVIOUS
<1>3. next \in GlobPlaces(name, pattern)
  <2>1. /\ at.ni \in 1..(Len(name) + 1) /\ at.pi + 1 \in 1..(Len(pattern) + 1)
        /\ at.pi \in 0..Len(pattern) /\ at.pi < at.pi + 1 /\ at.ni <= at.ni
    BY <1>1
  <2> QED  BY <2>1, GlobPlaceMade
<1>4. GlobKept(name, pattern, next)
  <2>1. at.ni - at.ni = 0 /\ at.pi + 1 = at.pi + 1 + 0  BY <1>1
  <2>2. StarKept(name, pattern, at.pi, at.ni, 0)  BY <1>1 DEF StarKept
  <2> QED  BY <1>2, <2>1, <2>2 DEF GlobKept
<1>5. Further(at, next)  BY <1>1, <1>2 DEF Further
<1>6. GlobLeft(name, pattern, next) <=> RestMatches(name, pattern, at.ni, at.pi)
  <2>1. RestMatches(name, pattern, at.ni, at.pi)
           <=> \E m \in at.ni..(Len(name) + 1) : RestMatches(name, pattern, m, at.pi + 1)
    <3>1. at.ni \in 1..(Len(name) + 1)  BY <1>1
    <3> QED  BY <1>1, <3>1, RestOfStar
  <2> QED  BY <1>1, <1>2, <2>1 DEF GlobLeft
<1>7. GlobLeft(name, pattern, at) <=> RestMatches(name, pattern, at.ni, at.pi)
  <2>1. CASE at.star = 0  BY <2>1 DEF GlobLeft
  <2>2. CASE at.star # 0
    <3>1. ASSUME NEW m \in at.mark..(Len(name) + 1), RestMatches(name, pattern, m, at.star + 1)
          PROVE  RestMatches(name, pattern, at.ni, at.pi)
      <4> DEFINE to == m + (at.ni - at.mark)
      <4>1. to \in at.ni..(Len(name) + 1) /\ RestMatches(name, pattern, to, at.pi)
        BY <2>2, <3>1, LeftAfterStar
      <4> HIDE DEF to
      <4>2. to \in 1..(Len(name) + 1)  BY <1>1, <4>1
      <4>3. PICK x \in to..(Len(name) + 1) : RestMatches(name, pattern, x, at.pi + 1)
        BY <1>1, <4>1, <4>2, RestOfStar
      <4>4. x \in at.ni..(Len(name) + 1) /\ at.ni \in 1..(Len(name) + 1)
        BY <1>1, <4>1, <4>2
      <4> QED  BY <1>1, <4>3, <4>4, RestOfStar
    <3>2. RestMatches(name, pattern, at.ni, at.pi)
             => RestMatches(name, pattern, at.mark, at.star + 1)
      BY <2>2, LeftAfterStar
    <3>3. at.mark \in at.mark..(Len(name) + 1)  BY <1>1
    <3> QED  BY <2>2, <3>1, <3>2, <3>3 DEF GlobLeft
  <2> QED  BY <2>1, <2>2
<1> QED  BY <1>3, <1>4, <1>5, <1>6, <1>7

\* Where neither a character nor a star helps, nothing matches from here.
LEMMA NoTurn ==
  ASSUME NEW name, NEW pattern, IsGlob(name, pattern), NEW at \in GlobPlaces(name, pattern),
         at.ni <= Len(name),
         ~(at.pi <= Len(pattern) /\ pattern[at.pi] \in {"?", name[at.ni]}),
         ~(at.pi <= Len(pattern) /\ pattern[at.pi] = "*")
  PROVE  ~RestMatches(name, pattern, at.ni, at.pi)
<1> USE DEF IsGlob
<1>1. at.ni \in 1..Len(name) /\ at.pi \in 1..(Len(pattern) + 1)  BY GlobPlaceIs
<1>2. CASE at.pi <= Len(pattern)
  <2>1. at.pi \in 1..Len(pattern) /\ at.ni \in 1..(Len(name) + 1)  BY <1>1, <1>2
  <2> QED  BY <1>2, <2>1, RestOfOne
<1>3. CASE ~(at.pi <= Len(pattern))
  <2>1. at.pi = Len(pattern) + 1  BY <1>1, <1>3
  <2> QED  BY <1>1, <2>1, RestOfNoPattern
<1> QED  BY <1>2, <1>3

LEMMA BackTurn ==
  ASSUME NEW name, NEW pattern, IsGlob(name, pattern), NEW at \in GlobPlaces(name, pattern),
         GlobKept(name, pattern, at), at.ni <= Len(name), at.star # 0,
         ~RestMatches(name, pattern, at.ni, at.pi),
         NEW next, next = [ni |-> at.mark + 1, pi |-> at.star + 1, star |-> at.star,
                           mark |-> at.mark + 1]
  PROVE  /\ next \in GlobPlaces(name, pattern) /\ GlobKept(name, pattern, next)
         /\ Further(at, next)
         /\ GlobLeft(name, pattern, at) <=> GlobLeft(name, pattern, next)
<1> USE DEF IsGlob
<1>1. /\ at.ni \in 1..Len(name) /\ at.mark \in 1..Len(name) /\ at.mark <= at.ni
      /\ at.star \in 1..Len(pattern) /\ at.pi \in 1..(Len(pattern) + 1) /\ at.star < at.pi
  BY GlobPlaceIs
<1>2. /\ next.ni = at.mark + 1 /\ next.pi = at.star + 1 /\ next.star = at.star
      /\ next.mark = at.mark + 1
  OBVIOUS
<1>3. next \in GlobPlaces(name, pattern)
  <2>1. /\ at.mark + 1 \in 1..(Len(name) + 1) /\ at.star + 1 \in 1..(Len(pattern) + 1)
        /\ at.star \in 0..Len(pattern) /\ at.star < at.star + 1 /\ at.mark + 1 <= at.mark + 1
    BY <1>1
  <2> QED  BY <2>1, GlobPlaceMade
<1>4. GlobKept(name, pattern, next)
  <2>1. (at.mark + 1) - (at.mark + 1) = 0 /\ at.star + 1 = at.star + 1 + 0  BY <1>1
  <2>2. StarKept(name, pattern, at.star, at.mark + 1, 0)  BY <1>1 DEF StarKept
  <2> QED  BY <1>2, <2>1, <2>2 DEF GlobKept
<1>5. Further(at, next)  BY <1>1, <1>2 DEF Further
<1>6. ~RestMatches(name, pattern, at.mark, at.star + 1)  BY LeftAfterStar
<1>7. ASSUME NEW m \in at.mark..(Len(name) + 1), RestMatches(name, pattern, m, at.star + 1)
      PROVE  m \in (at.mark + 1)..(Len(name) + 1)
  <2>1. m # at.mark  BY <1>6, <1>7
  <2> QED  BY <1>1, <2>1
<1>8. \A m \in (at.mark + 1)..(Len(name) + 1) : m \in at.mark..(Len(name) + 1)  BY <1>1
<1> QED  BY <1>1, <1>2, <1>3, <1>4, <1>5, <1>7, <1>8 DEF GlobLeft

LEMMA TurnsGoOn ==
  ASSUME NEW name, NEW pattern, IsGlob(name, pattern), NEW at \in GlobPlaces(name, pattern),
         GlobKept(name, pattern, at), at.ni <= Len(name)
  PROVE  \/ /\ GlobTurns(name, pattern, at) = {} /\ ~GlobLeft(name, pattern, at)
         \/ \E next \in GlobPlaces(name, pattern) :
               /\ GlobTurns(name, pattern, at) = {next}
               /\ GlobKept(name, pattern, next) /\ Further(at, next)
               /\ GlobLeft(name, pattern, at) <=> GlobLeft(name, pattern, next)
<1>1. CASE at.pi <= Len(pattern) /\ pattern[at.pi] \in {"?", name[at.ni]}
  <2> DEFINE next == [ni |-> at.ni + 1, pi |-> at.pi + 1, star |-> at.star,
                      mark |-> at.mark]
  <2>1. GlobTurns(name, pattern, at) = {next}  BY <1>1 DEF GlobTurns
  <2>2. /\ next \in GlobPlaces(name, pattern) /\ GlobKept(name, pattern, next)
        /\ Further(at, next)
        /\ GlobLeft(name, pattern, at) <=> GlobLeft(name, pattern, next)
    BY <1>1, LiteralTurn
  <2> HIDE DEF next
  <2> QED  BY <2>1, <2>2
<1>2. CASE /\ ~(at.pi <= Len(pattern) /\ pattern[at.pi] \in {"?", name[at.ni]})
           /\ at.pi <= Len(pattern) /\ pattern[at.pi] = "*"
  <2> DEFINE next == [ni |-> at.ni, pi |-> at.pi + 1, star |-> at.pi, mark |-> at.ni]
  <2>1. GlobTurns(name, pattern, at) = {next}  BY <1>2 DEF GlobTurns
  <2>2. /\ next \in GlobPlaces(name, pattern) /\ GlobKept(name, pattern, next)
        /\ Further(at, next)
        /\ GlobLeft(name, pattern, at) <=> GlobLeft(name, pattern, next)
    BY <1>2, StarTurn
  <2> HIDE DEF next
  <2> QED  BY <2>1, <2>2
<1>3. CASE /\ ~(at.pi <= Len(pattern) /\ pattern[at.pi] \in {"?", name[at.ni]})
           /\ ~(at.pi <= Len(pattern) /\ pattern[at.pi] = "*")
  <2>1. ~RestMatches(name, pattern, at.ni, at.pi)  BY <1>3, NoTurn
  <2>2. CASE at.star # 0
    <3> DEFINE next == [ni |-> at.mark + 1, pi |-> at.star + 1, star |-> at.star,
                        mark |-> at.mark + 1]
    <3>1. GlobTurns(name, pattern, at) = {next}  BY <1>3, <2>2 DEF GlobTurns
    <3>2. /\ next \in GlobPlaces(name, pattern) /\ GlobKept(name, pattern, next)
          /\ Further(at, next)
          /\ GlobLeft(name, pattern, at) <=> GlobLeft(name, pattern, next)
      BY <2>1, <2>2, BackTurn
    <3> HIDE DEF next
    <3> QED  BY <3>1, <3>2
  <2>3. CASE at.star = 0
    <3>1. GlobTurns(name, pattern, at) = {}  BY <1>3, <2>3 DEF GlobTurns
    <3> QED  BY <2>1, <2>3, <3>1 DEF GlobLeft
  <2> QED  BY <2>2, <2>3
<1> QED  BY <1>1, <1>2, <1>3

\* The turns lead from places to places, also from those the loop never comes to.
LEMMA TurnsArePlaces ==
  ASSUME NEW name, NEW pattern, IsGlob(name, pattern), NEW at \in GlobPlaces(name, pattern),
         at.ni <= Len(name)
  PROVE  GlobTurns(name, pattern, at) \subseteq GlobPlaces(name, pattern)
<1> USE DEF IsGlob
<1>1. /\ at.ni \in 1..Len(name) /\ at.mark \in 1..Len(name) /\ at.mark <= at.ni
      /\ at.star \in 0..Len(pattern) /\ at.pi \in 1..(Len(pattern) + 1) /\ at.star < at.pi
  BY GlobPlaceIs
<1>2. at.pi <= Len(pattern) =>
         /\ [ni |-> at.ni + 1, pi |-> at.pi + 1, star |-> at.star, mark |-> at.mark]
               \in GlobPlaces(name, pattern)
         /\ [ni |-> at.ni, pi |-> at.pi + 1, star |-> at.pi, mark |-> at.ni]
               \in GlobPlaces(name, pattern)
  <2> SUFFICES ASSUME at.pi <= Len(pattern)
               PROVE  /\ [ni |-> at.ni + 1, pi |-> at.pi + 1, star |-> at.star,
                          mark |-> at.mark] \in GlobPlaces(name, pattern)
                      /\ [ni |-> at.ni, pi |-> at.pi + 1, star |-> at.pi, mark |-> at.ni]
                            \in GlobPlaces(name, pattern)
    OBVIOUS
  <2>1. /\ at.ni + 1 \in 1..(Len(name) + 1) /\ at.pi + 1 \in 1..(Len(pattern) + 1)
        /\ at.star < at.pi + 1 /\ at.mark <= at.ni + 1 /\ at.mark \in 1..(Len(name) + 1)
        /\ at.ni \in 1..(Len(name) + 1) /\ at.pi \in 0..Len(pattern) /\ at.pi < at.pi + 1
        /\ at.ni <= at.ni
    BY <1>1
  <2> QED  BY <1>1, <2>1, GlobPlaceMade
<1>3. [ni |-> at.mark + 1, pi |-> at.star + 1, star |-> at.star, mark |-> at.mark + 1]
         \in GlobPlaces(name, pattern)
  <2>1. /\ at.mark + 1 \in 1..(Len(name) + 1) /\ at.star + 1 \in 1..(Len(pattern) + 1)
        /\ at.star < at.star + 1 /\ at.mark + 1 <= at.mark + 1
    BY <1>1
  <2> QED  BY <1>1, <2>1, GlobPlaceMade
<1> QED  BY <1>2, <1>3 DEF GlobTurns

\* A place that is the furthest of a set of places.
LEMMA FurthestPlace ==
  ASSUME NEW name, NEW pattern, IsGlob(name, pattern),
         NEW S \in SUBSET GlobPlaces(name, pattern), S # {}
  PROVE  \E at \in S : \A to \in S : ~Further(at, to)
<1> USE DEF IsGlob
<1>1. \A at \in S : /\ Len(pattern) - at.star \in Nat /\ Len(name) + 1 - at.mark \in Nat
                    /\ Len(name) + 1 - at.ni \in Nat
                    /\ at.star \in Int /\ at.mark \in Int /\ at.ni \in Int
  <2> SUFFICES ASSUME NEW at \in S
               PROVE  /\ Len(pattern) - at.star \in Nat /\ Len(name) + 1 - at.mark \in Nat
                      /\ Len(name) + 1 - at.ni \in Nat
                      /\ at.star \in Int /\ at.mark \in Int /\ at.ni \in Int
    OBVIOUS
  <2>1. /\ at.ni \in 1..(Len(name) + 1) /\ at.mark \in 1..(Len(name) + 1)
        /\ at.star \in 0..Len(pattern)
    BY GlobPlaceIs
  <2> QED  BY <2>1
<1>2. PICK star \in Int : /\ \E at \in S : at.star = star
                          /\ \A to \in S : to.star <= star
  <2> DEFINE T == {n \in Nat : \E at \in S : n = Len(pattern) - at.star}
  <2>1. T \in SUBSET Nat /\ T # {}  BY <1>1
  <2>2. PICK n \in T : \A m \in T : n <= m
    <3> HIDE DEF T
    <3> QED  BY <2>1, NatLeast
  <2>3. PICK at \in S : n = Len(pattern) - at.star  BY <2>2
  <2>4. ASSUME NEW to \in S  PROVE to.star <= at.star
    <3>1. Len(pattern) - to.star \in T  BY <1>1
    <3>2. n <= Len(pattern) - to.star  BY <2>2, <3>1
    <3>3. at.star \in Int /\ to.star \in Int  BY <1>1
    <3> QED  BY <2>3, <3>2, <3>3
  <2> QED  BY <1>1, <2>4
<1> DEFINE S1 == {at \in S : at.star = star}
<1>3. PICK mark \in Int : /\ \E at \in S1 : at.mark = mark
                          /\ \A to \in S1 : to.mark <= mark
  <2> DEFINE T == {n \in Nat : \E at \in S1 : n = Len(name) + 1 - at.mark}
  <2>1. T \in SUBSET Nat /\ T # {}  BY <1>1, <1>2
  <2>2. PICK n \in T : \A m \in T : n <= m
    <3> HIDE DEF T
    <3> QED  BY <2>1, NatLeast
  <2>3. PICK at \in S1 : n = Len(name) + 1 - at.mark  BY <2>2
  <2>4. ASSUME NEW to \in S1  PROVE to.mark <= at.mark
    <3>1. Len(name) + 1 - to.mark \in T  BY <1>1
    <3>2. n <= Len(name) + 1 - to.mark  BY <2>2, <3>1
    <3>3. at.mark \in Int /\ to.mark \in Int  BY <1>1
    <3> QED  BY <2>3, <3>2, <3>3
  <2> QED  BY <1>1, <2>4
<1> DEFINE S2 == {at \in S1 : at.mark = mark}
<1>4. PICK at \in S2 : \A to \in S2 : to.ni <= at.ni
  <2> DEFINE T == {n \in Nat : \E at \in S2 : n = Len(name) + 1 - at.ni}
  <2>1. T \in SUBSET Nat /\ T # {}  BY <1>1, <1>3
  <2>2. PICK n \in T : \A m \in T : n <= m
    <3> HIDE DEF T
    <3> QED  BY <2>1, NatLeast
  <2>3. PICK at \in S2 : n = Len(name) + 1 - at.ni  BY <2>2
  <2>4. ASSUME NEW to \in S2  PROVE to.ni <= at.ni
    <3>1. Len(name) + 1 - to.ni \in T  BY <1>1
    <3>2. n <= Len(name) + 1 - to.ni  BY <2>2, <3>1
    <3>3. at.ni \in Int /\ to.ni \in Int  BY <1>1
    <3> QED  BY <2>3, <3>2, <3>3
  <2> QED  BY <2>4
<1>5. ASSUME NEW to \in S, Further(at, to)  PROVE FALSE
  <2>1. at.star = star /\ at.mark = mark /\ at.ni \in Int  BY <1>1
  <2>2. to.star \in Int /\ to.mark \in Int /\ to.ni \in Int  BY <1>1
  <2>3. to.star <= star  BY <1>2
  <2>4. to.star = star => to.mark <= mark  BY <1>3
  <2>5. to.star = star /\ to.mark = mark => to.ni <= at.ni  BY <1>4
  <2> QED  BY <1>5, <2>1, <2>2, <2>3, <2>4, <2>5 DEF Further
<1> QED  BY <1>5

\* For any name without a star in it and any pattern, the loop of wildcard_match, which
\* goes back to the last star alone, finds a match exactly when there is one
\* (utils/filesys.rs).
THEOREM WildcardMatches ==
  ASSUME NEW name, NEW pattern, IsGlob(name, pattern)
  PROVE  WildcardMatch(name, pattern) <=> Matches(name, pattern)
<1> USE DEF IsGlob
<1> DEFINE go == GlobLoop(name, pattern)
           Spots == GlobPlaces(name, pattern)
           Bad == {at \in Spots : /\ GlobKept(name, pattern, at)
                                  /\ ~(go[at] <=> GlobLeft(name, pattern, at))}
<1>1. go = [at \in Spots |->
              IF at.ni > Len(name) THEN \A i \in at.pi..Len(pattern) : pattern[i] = "*"
              ELSE \E next \in GlobTurns(name, pattern, at) : go[next]]
  <2>1. \A at \in Spots :
           at.ni <= Len(name) => GlobTurns(name, pattern, at) \subseteq Spots
    BY TurnsArePlaces
  <2>2. \A at \in Spots : at.ni \in Nat  BY GlobPlaceIs
  <2> QED  BY <2>1, <2>2, GlobLoopIs
<1> HIDE DEF go
<1>2. ASSUME Bad # {}  PROVE FALSE
  <2>1. PICK at \in Bad : \A to \in Bad : ~Further(at, to)  BY <1>2, FurthestPlace
  <2>2. at \in Spots /\ GlobKept(name, pattern, at)  BY <2>1
  <2>3. at.ni \in Nat  BY <2>2, GlobPlaceIs
  <2>4. CASE at.ni > Len(name)
    <3>1. go[at] <=> \A i \in at.pi..Len(pattern) : pattern[i] = "*"
      BY <1>1, <2>2, <2>4
    <3>2. GlobLeft(name, pattern, at) <=> \A i \in at.pi..Len(pattern) : pattern[i] = "*"
      BY <2>2, <2>4, LeftAtEnd
    <3> QED  BY <2>1, <3>1, <3>2
  <2>5. CASE at.ni <= Len(name)
    <3>1. go[at] <=> \E next \in GlobTurns(name, pattern, at) : go[next]
      <4>1. ~(at.ni > Len(name))  BY <2>3, <2>5
      <4>2. go[at] = IF at.ni > Len(name)
                     THEN \A i \in at.pi..Len(pattern) : pattern[i] = "*"
                     ELSE \E next \in GlobTurns(name, pattern, at) : go[next]
        BY <1>1, <2>2
      <4> QED  BY <4>1, <4>2
    <3>2. CASE GlobTurns(name, pattern, at) = {} /\ ~GlobLeft(name, pattern, at)
      BY <2>1, <3>1, <3>2
    <3>3. ASSUME NEW next \in Spots, GlobTurns(name, pattern, at) = {next},
                 GlobKept(name, pattern, next), Further(at, next),
                 GlobLeft(name, pattern, at) <=> GlobLeft(name, pattern, next)
          PROVE  FALSE
      <4>1. next \notin Bad  BY <2>1, <3>3
      <4>2. go[next] <=> GlobLeft(name, pattern, next)  BY <3>3, <4>1
      <4>3. go[at] <=> go[next]  BY <3>1, <3>3
      <4> QED  BY <2>1, <3>3, <4>2, <4>3
    <3> QED  BY <2>2, <2>5, <3>2, <3>3, TurnsGoOn
  <2> QED  BY <2>3, <2>4, <2>5
<1> DEFINE start == [ni |-> 1, pi |-> 1, star |-> 0, mark |-> 1]
<1>3. start \in Spots /\ GlobKept(name, pattern, start)
  <2>1. start \in Spots
    <3>1. /\ 1 \in 1..(Len(name) + 1) /\ 1 \in 1..(Len(pattern) + 1)
          /\ 0 \in 0..Len(pattern) /\ 0 < 1 /\ 1 <= 1
      OBVIOUS
    <3> QED  BY <3>1, GlobPlaceMade
  <2> QED  BY <2>1 DEF GlobKept
<1>4. GlobLeft(name, pattern, start) <=> RestMatches(name, pattern, 1, 1)
  BY DEF GlobLeft
<1>5. start \notin Bad  BY <1>2
<1>6. go[start] <=> GlobLeft(name, pattern, start)  BY <1>3, <1>5
<1>7. WildcardMatch(name, pattern) <=> go[start]  BY DEF WildcardMatch, go
<1> QED  BY <1>4, <1>6, <1>7, MatchesIsRest

-----------------------------------------------------------------------------
(* BoundedFiles: what holds of the tools between their steps.              *)

EntryIn(k, D) == \E p \in D : k \in Kids(p)

\* The directories that were read hang together below the root of the call.
Grown(root, D) ==
    \A p \in D : /\ p \in Under[root]
                 /\ \A m \in Under[root] : p \in Under[m] => m \in D

SomeVisit == [node : Node, depth : Nat]
\* find_files: what is collected was asked for; and everything it came across is still
\* to be visited or has become what it had to.
WalkDealt(root, c, k, G, X, D) ==
    IF IsDir(k)
    THEN Tree[k].level > Tree[root].level + c.depth \/ k \in X \/ k \in D
    ELSE Kind(k) = "gone" \/ ~WildcardMatch(Tree[k].name, c.pattern) \/ k \in G

WalkKnows(root, c, V, G, X, D) ==
    /\ Grown(root, D)
    /\ \A p \in D : Readable(p) /\ Tree[p].level <= Tree[root].level + c.depth
    /\ \A v \in V : /\ v \in SomeVisit /\ (v.node = root \/ EntryIn(v.node, D))
                    /\ Tree[v.node].level = Tree[root].level + v.depth
    /\ \A n \in G : /\ EntryIn(n, D) /\ ~IsDir(n) /\ Kind(n) # "gone"
                    /\ WildcardMatch(Tree[n].name, c.pattern)
    /\ \A n \in X : /\ Kind(n) = "unreadable" /\ (n = root \/ EntryIn(n, D))
                    /\ Tree[n].level <= Tree[root].level + c.depth
    /\ \A k \in Node : k = root \/ EntryIn(k, D) =>
          (\E v \in V : v.node = k) \/ WalkDealt(root, c, k, G, X, D)

\* directory_overview: everything measured is below the directory; and unless something
\* was cut, every entry come across is measured, still to be visited, or a child to come.
OverviewKnows(root, V, L, G, X, D) ==
    /\ \A p \in D : p \in Under[root] /\ Readable(p) /\ (p = root \/ p \in G)
    /\ Readable(root) => root \in D
    /\ \A n \in G : /\ n \in Under[root] \ {root} /\ Kind(n) \notin {"gone", "unreadable"}
                    /\ Readable(n) => n \in D
    /\ \A v \in V : v.node \in Under[root] \ {root}
    /\ L \subseteq Kids(root) /\ \A k \in L : Kind(k) # "gone"
    /\ X = {} =>
         \A p \in D : \A k \in Kids(p) :
            \/ Kind(k) = "gone" \/ k \in G \cup L
            \/ \E v \in V : v.node = k

\* scan_workspace: the same of the entries that were looked at.
ScanKnows(root, V, L, G, X, D) ==
    /\ Grown(root, D)
    /\ \A p \in D : Kind(p) = "dir" \/ (p = root /\ Readable(p))
    /\ \A v \in V :
          v.node = root \/ (EntryIn(v.node, D) /\ IsDir(v.node) /\ ~Skipped(v.node))
    /\ \A k \in L \cup G : EntryIn(k, D)
    /\ X = {} =>
         /\ \A p \in D : Kids(p) \subseteq G \cup L
         /\ \A k \in G \cup {root} :
               Kind(k) = "dir" \/ (k = root /\ Readable(k)) =>
                 k \in D \/ \E v \in V : v.node = k

WalksTyped ==
    /\ fstep \in {"idle", "resolve", "walk", "child", "measure", "pop", "scan",
                  "answered"}
    /\ fcall \in FileCalls \cup {NoFileCall}
    /\ pending \in Seq(SomeVisit)
    /\ left \subseteq Node /\ got \subseteq Node /\ entered \subseteq Node
    /\ opened \subseteq Node /\ cut \subseteq Node /\ subdir \in Node
    /\ depth \in Nat /\ used \in Nat /\ spentAll \in Nat /\ share \in Nat
    /\ freply.kind \in {"none", "error", "files", "overview", "scan", "text"}

Working == {"walk", "child", "measure", "pop", "scan"}

\* The step that comes next says which tool is at work, and what it has not begun with.
FilesShape ==
    /\ WalksTyped
    /\ fstep # "idle" => fcall \in FileCalls
    /\ fstep # "answered" => freply = NoReply
    /\ fstep = "walk" => fcall.tool = "find_files"
    /\ fstep \in {"child", "measure"} => fcall.tool = "directory_overview"
    /\ fstep \in {"pop", "scan"} => fcall.tool = "workspace_scan"
    /\ fstep \in Working =>
         WorkspaceRoot(fcall) # {} /\ opened \subseteq {n \in Node : Kind(n) = "manifest"}
    /\ fstep \in {"idle", "resolve"} =>
         /\ pending = <<>> /\ left = {} /\ used = 0 /\ spentAll = 0 /\ share = 0
         /\ got = {} /\ entered = {} /\ opened = {} /\ cut = {}
    /\ fstep = "child" => pending = <<>> /\ used = 0
    /\ fstep = "pop" => left = {}

InsideRoot ==
    /\ \A n \in entered : \E r \in WorkspaceRoot(fcall) : n \in Under[r]
    /\ \A n \in opened :
          \/ \E r \in WorkspaceRoot(fcall) : n \in Under[r]
          \/ n \in Resolved(fcall.path) /\ AllowedBy(n, fcall)
          \/ fcall.git /\ \E r \in Resolved(fcall.path) : n \in GitFiles(r)

WithinBudgets ==
    /\ fcall.tool = "directory_overview" => spentAll + used <= share
    /\ fcall.tool = "workspace_scan" =>
         used <= fcall.limit /\ \A n \in opened : Kind(n) # "secret"
    /\ fstep = "walk" => IsFiniteSet(got) /\ Cardinality(got) < fcall.limit

FilesKnow ==
    \A r \in WorkspaceRoot(fcall) :
        /\ fstep = "walk" => WalkKnows(r, fcall, Range(pending), got, cut, entered)
        /\ fstep \in {"child", "measure"} =>
             OverviewKnows(r, Range(pending), left, got, cut, entered)
        /\ fstep \in {"pop", "scan"} =>
             ScanKnows(r, Range(pending), left, got, cut, entered)

FilesInv ==
    /\ FilesShape /\ InsideRoot /\ WithinBudgets /\ FilesKnow
    /\ WalkComplete /\ OverviewComplete /\ ScanComplete /\ SliceHonest

LEMMA ResolvedIsNode ==
  ASSUME NEW path, NEW n \in Resolved(path)
  PROVE  n \in Node /\ \A m \in Resolved(path) : m = n
<1>1. CASE path \notin Node  BY <1>1 DEF Resolved
<1>2. CASE path \in Node /\ Kind(path) = "link"
  <2>1. Tree[path].target \in Node  BY <1>2, TreeAssumption DEF Kind
  <2> QED  BY <1>2, <2>1 DEF Resolved
<1>3. CASE path \in Node /\ Kind(path) # "link"
  BY <1>3 DEF Resolved
<1> QED  BY <1>1, <1>2, <1>3

LEMMA RootIsDir ==
  ASSUME NEW c, NEW r \in WorkspaceRoot(c)
  PROVE  /\ r \in Node /\ IsDir(r) /\ AllowedBy(r, c) /\ r \in Resolved(c.path)
         /\ \A m \in WorkspaceRoot(c) : m = r
<1>1. r \in Resolved(c.path) /\ IsDir(r) /\ AllowedBy(r, c)  BY DEF WorkspaceRoot
<1>2. r \in Node /\ \A m \in Resolved(c.path) : m = r  BY <1>1, ResolvedIsNode
<1>3. \A m \in WorkspaceRoot(c) : m \in Resolved(c.path)  BY DEF WorkspaceRoot
<1> QED  BY <1>1, <1>2, <1>3

\* The kinds exclude each other.
LEMMA KindsDiffer ==
  ASSUME NEW n
  PROVE  /\ Readable(n) => IsDir(n) /\ Kind(n) \notin {"unreadable", "gone", "secret"}
         /\ IsDir(n) <=> Readable(n) \/ Kind(n) = "unreadable"
         /\ Kind(n) = "dir" => Readable(n) /\ ~Skipped(n)
         /\ Skipped(n) => Readable(n)
         /\ IsDir(n) => Kind(n) # "gone" /\ ~IsFile(n) /\ Kind(n) # "link"
         /\ IsDir(n) /\ ~Skipped(n) /\ Kind(n) # "unreadable" => Kind(n) = "dir"
  BY DEF Readable, IsDir, Skipped, IsFile

\* The visits of a sequence that is taken apart or extended in front.
LEMMA RangeIsSplit ==
  ASSUME NEW S, NEW s \in Seq(S), s # <<>>
  PROVE  /\ Range(s) = {Head(s)} \cup Range(Tail(s))
         /\ Head(s) \in S /\ Tail(s) \in Seq(S)
<1>1. Len(s) \in Nat \ {0} /\ DOMAIN s = 1..Len(s)  OBVIOUS
<1>2. Tail(s) \in Seq(S) /\ Len(Tail(s)) = Len(s) - 1
      /\ \A i \in 1..(Len(s) - 1) : Tail(s)[i] = s[i + 1]
  BY <1>1
<1>3. Head(s) = s[1] /\ s[1] \in S  BY <1>1
<1>4. ASSUME NEW x \in Range(s)  PROVE x \in {Head(s)} \cup Range(Tail(s))
  <2>1. PICK i \in 1..Len(s) : x = s[i]  BY <1>1, <1>4 DEF Range
  <2>2. CASE i = 1  BY <2>1, <2>2, <1>3
  <2>3. CASE i # 1
    <3>1. i - 1 \in 1..(Len(s) - 1) /\ (i - 1) + 1 = i  BY <2>3, <1>1
    <3>2. Tail(s)[i - 1] = x  BY <2>1, <3>1, <1>2
    <3>3. i - 1 \in DOMAIN Tail(s)  BY <3>1, <1>2
    <3> QED  BY <3>2, <3>3 DEF Range
  <2> QED  BY <2>2, <2>3
<1>5. ASSUME NEW x \in Range(Tail(s))  PROVE x \in Range(s)
  <2>1. DOMAIN Tail(s) = 1..(Len(s) - 1)  BY <1>2
  <2>2. PICK i \in 1..(Len(s) - 1) : x = Tail(s)[i]  BY <1>5, <2>1 DEF Range
  <2>3. i + 1 \in DOMAIN s /\ x = s[i + 1]  BY <2>2, <1>1, <1>2
  <2> QED  BY <2>3 DEF Range
<1>6. Head(s) \in Range(s)  BY <1>1, <1>3 DEF Range
<1> QED  BY <1>2, <1>3, <1>4, <1>5, <1>6

LEMMA RangeIsJoined ==
  ASSUME NEW S, NEW s \in Seq(S), NEW t \in Seq(S)
  PROVE  s \o t \in Seq(S) /\ Range(s \o t) = Range(s) \cup Range(t)
<1>1. /\ Len(s) \in Nat /\ DOMAIN s = 1..Len(s) /\ Len(t) \in Nat /\ DOMAIN t = 1..Len(t)
  OBVIOUS
<1>2. /\ s \o t \in Seq(S) /\ DOMAIN (s \o t) = 1..(Len(s) + Len(t))
      /\ \A i \in 1..(Len(s) + Len(t)) :
            (s \o t)[i] = IF i <= Len(s) THEN s[i] ELSE t[i - Len(s)]
  BY <1>1
<1>3. ASSUME NEW x \in Range(s \o t)  PROVE x \in Range(s) \cup Range(t)
  <2>1. PICK i \in 1..(Len(s) + Len(t)) : x = (s \o t)[i]  BY <1>2, <1>3 DEF Range
  <2>2. CASE i <= Len(s)
    <3>1. i \in DOMAIN s /\ x = s[i]  BY <2>1, <2>2, <1>1, <1>2
    <3> QED  BY <3>1 DEF Range
  <2>3. CASE ~(i <= Len(s))
    <3>1. i - Len(s) \in DOMAIN t /\ x = t[i - Len(s)]  BY <2>1, <2>3, <1>1, <1>2
    <3> QED  BY <3>1 DEF Range
  <2> QED  BY <2>2, <2>3
<1>4. ASSUME NEW x \in Range(s)  PROVE x \in Range(s \o t)
  <2>1. PICK i \in 1..Len(s) : x = s[i]  BY <1>1, <1>4 DEF Range
  <2>2. i \in 1..(Len(s) + Len(t)) /\ x = (s \o t)[i]  BY <2>1, <1>1, <1>2
  <2> QED  BY <2>2, <1>2 DEF Range
<1>5. ASSUME NEW x \in Range(t)  PROVE x \in Range(s \o t)
  <2>1. PICK i \in 1..Len(t) : x = t[i]  BY <1>1, <1>5 DEF Range
  <2>2. Len(s) + i \in 1..(Len(s) + Len(t)) /\ ~(Len(s) + i <= Len(s))
        /\ (Len(s) + i) - Len(s) = i
    BY <2>1, <1>1
  <2>3. x = (s \o t)[Len(s) + i]  BY <2>1, <2>2, <1>2
  <2> QED  BY <2>2, <2>3, <1>2 DEF Range
<1> QED  BY <1>2, <1>3, <1>4, <1>5

LEMMA VisitsAre ==
  ASSUME NEW n \in Node, NEW d \in Nat
  PROVE  /\ Visits(n, d) \in Seq(SomeVisit)
         /\ Range(Visits(n, d)) = {Visit(k, d) : k \in Kids(n)}
<1>1. Tree[n].kids \in Seq(Node)  BY TreeAssumption
<1>2. DOMAIN Tree[n].kids = 1..Len(Tree[n].kids) /\ Len(Tree[n].kids) \in Nat
      /\ \A i \in DOMAIN Tree[n].kids : Tree[n].kids[i] \in Node
  BY <1>1
<1>3. \A k \in Node : Visit(k, d) \in SomeVisit  BY DEF Visit, SomeVisit
<1>4. Visits(n, d) \in [1..Len(Tree[n].kids) -> SomeVisit]
  BY <1>2, <1>3 DEF Visits
<1>5. Visits(n, d) \in Seq(SomeVisit)  BY <1>2, <1>4
<1>6. Range(Visits(n, d)) = {Visit(k, d) : k \in Kids(n)}
  BY DEF Visits, Range, Kids
<1> QED  BY <1>5, <1>6

LEMMA VisitsAreFirst ==
  ASSUME NEW n \in Node, NEW d \in Nat, NEW s \in Seq(SomeVisit)
  PROVE  /\ Visits(n, d) \o s \in Seq(SomeVisit)
         /\ Range(Visits(n, d) \o s) = {Visit(k, d) : k \in Kids(n)} \cup Range(s)
<1>1. /\ Visits(n, d) \in Seq(SomeVisit)
      /\ Range(Visits(n, d)) = {Visit(k, d) : k \in Kids(n)}
  BY VisitsAre
<1>2. /\ Visits(n, d) \o s \in Seq(SomeVisit)
      /\ Range(Visits(n, d) \o s) = Range(Visits(n, d)) \cup Range(s)
  BY <1>1, RangeIsJoined
<1> QED  BY <1>1, <1>2

\* An entry of a directory that was read is below the root, behind directories that
\* were all read.
LEMMA EntryIsReached ==
  ASSUME NEW r \in Node, NEW D, Grown(r, D), NEW n \in Node, EntryIn(n, D)
  PROVE  /\ n \in Under[r] \ {r}
         /\ \A m \in Under[r] : n \in Under[m] /\ m # n => m \in D
<1>1. PICK p \in D : n \in Kids(p)  BY DEF EntryIn
<1>2. p \in Under[r] /\ p \in Node  BY UnderIsNodes DEF Grown
<1>3. n \in Under[r]  BY <1>1, <1>2, UnderTransitive
<1>4. n # r
  <2>1. Tree[n].level = Tree[p].level + 1  BY <1>1, <1>2, LevelsAreNumbers
  <2>2. p = r \/ Tree[p].level > Tree[r].level  BY <1>2, UnderIsDeeper
  <2>3. Tree[p].level \in Nat /\ Tree[r].level \in Nat  BY <1>2, LevelsAreNumbers
  <2> QED  BY <2>1, <2>2, <2>3
<1>5. ASSUME NEW m \in Under[r], n \in Under[m], m # n  PROVE m \in D
  <2>1. m \in Node  BY UnderIsNodes
  <2>2. p \in Under[m]  BY <1>1, <1>2, <1>5, <2>1, UnderHasParent
  <2> QED  BY <2>2 DEF Grown
<1> QED  BY <1>3, <1>4, <1>5

\* And a directory that is read for its turn keeps them together.
LEMMA GrownOn ==
  ASSUME NEW r \in Node, NEW D, Grown(r, D), NEW n \in Node, n = r \/ EntryIn(n, D)
  PROVE  Grown(r, D \cup {n})
<1>1. CASE n = r
  <2>1. r \in Under[r]  BY UnderItself
  <2>2. ASSUME NEW m \in Under[r], r \in Under[m]  PROVE m = r
    <3>1. m \in Node /\ Tree[m].level \in Nat /\ Tree[r].level \in Nat
      BY UnderIsNodes, LevelsAreNumbers
    <3>2. m # r => Tree[m].level > Tree[r].level  BY UnderIsDeeper
    <3>3. m # r => Tree[r].level > Tree[m].level  BY <2>2, <3>1, UnderIsDeeper
    <3> QED  BY <3>1, <3>2, <3>3
  <2> QED  BY <1>1, <2>1, <2>2 DEF Grown
<1>2. CASE EntryIn(n, D)
  <2>1. /\ n \in Under[r]
        /\ \A m \in Under[r] : n \in Under[m] /\ m # n => m \in D
    BY <1>2, EntryIsReached
  <2> QED  BY <2>1 DEF Grown
<1> QED  BY <1>1, <1>2

\* What is reached through directories that were all read is an entry of one of them.
LEMMA ReachedIsEntry ==
  ASSUME NEW r \in Node, NEW D \in SUBSET Node, NEW L \in SUBSET Node, r \in L => r \in D,
         \A k \in Node : EntryIn(k, D) /\ k \in L => k \in D,
         NEW n, Reached(r, n, L)
  PROVE  n \in Node /\ EntryIn(n, D)
<1> DEFINE Behind(m) == \A a \in Under[r] : m \in Under[a] /\ a # m => a \in L
           S == {m \in Under[r] : Behind(m) => m = r \/ EntryIn(m, D)}
<1>1. r \in S /\ S \in SUBSET Node  BY UnderItself, UnderIsNodes
<1>2. ClosedDown(S)
  <2> SUFFICES ASSUME NEW m \in S, NEW k \in Kids(m)  PROVE k \in S
    BY DEF ClosedDown
  <2>1. m \in Node /\ m \in Under[r] /\ k \in Under[r] /\ k \in Node
    BY UnderIsNodes, UnderTransitive
  <2>2. /\ Tree[k].level = Tree[m].level + 1 /\ Tree[m].level \in Nat
        /\ k \in Under[m] /\ m \in Under[m]
    BY <2>1, LevelsAreNumbers, UnderItself
  <2>3. m # k  BY <2>2
  <2> SUFFICES ASSUME Behind(k)  PROVE EntryIn(k, D)
    BY <2>1
  <2>4. m \in L  BY <2>1, <2>2, <2>3
  <2>5. ASSUME NEW a \in Under[r], m \in Under[a], a # m  PROVE a \in L
    <3>1. a \in Node /\ Kids(m) \subseteq Under[a]
      BY <2>5, UnderIsNodes, UnderTransitive
    <3>2. a # k
      <4>1. Tree[m].level > Tree[a].level  BY <2>5, <3>1, UnderIsDeeper
      <4>2. Tree[a].level \in Nat  BY <3>1, LevelsAreNumbers
      <4> QED  BY <2>2, <4>1, <4>2
    <3> QED  BY <3>1, <3>2
  <2>6. m = r \/ EntryIn(m, D)  BY <2>5
  <2>7. m \in D  BY <2>1, <2>4, <2>6
  <2> QED  BY <2>7 DEF EntryIn
<1>3. Under[r] \subseteq S
  <2> HIDE DEF S
  <2> QED  BY <1>1, <1>2, UnderLeast
<1>4. n \in Under[r] /\ n # r /\ Behind(n)  BY DEF Reached
<1>5. n \in Node  BY <1>4, UnderIsNodes
<1> QED  BY <1>3, <1>4, <1>5

-----------------------------------------------------------------------------
(* find_files: the steps of the walk.                                      *)

LEMMA WalkBegins ==
  ASSUME NEW r \in Node, NEW c
  PROVE  WalkKnows(r, c, {Visit(r, 0)}, {}, {}, {})
<1>1. Visit(r, 0).node = r /\ Visit(r, 0).depth = 0 /\ Visit(r, 0) \in SomeVisit
  BY DEF Visit, SomeVisit
<1>2. Tree[r].level = Tree[r].level + 0  BY LevelsAreNumbers
<1>3. \A k \in Node : ~EntryIn(k, {})  BY DEF EntryIn
<1> QED  BY <1>1, <1>2, <1>3 DEF WalkKnows, Grown

\* A visit that came to nothing new is over.
LEMMA WalkPasses ==
  ASSUME NEW r \in Node, NEW c, NEW v, NEW V, NEW G, NEW X, NEW D,
         WalkKnows(r, c, {v} \cup V, G, X, D), WalkDealt(r, c, v.node, G, X, D)
  PROVE  WalkKnows(r, c, V, G, X, D)
<1>1. \A k \in Node : k = r \/ EntryIn(k, D) =>
         (\E w \in V : w.node = k) \/ WalkDealt(r, c, k, G, X, D)
  <2> SUFFICES ASSUME NEW k \in Node, k = r \/ EntryIn(k, D), ~WalkDealt(r, c, k, G, X, D)
               PROVE  \E w \in V : w.node = k
    OBVIOUS
  <2>1. PICK w \in {v} \cup V : w.node = k  BY DEF WalkKnows
  <2>2. w # v  BY <2>1
  <2> QED  BY <2>1, <2>2
<1> QED  BY <1>1 DEF WalkKnows

LEMMA WalkTooDeep ==
  ASSUME NEW r \in Node, NEW c, c.depth \in Nat, NEW v, NEW V, NEW G, NEW X, NEW D,
         WalkKnows(r, c, {v} \cup V, G, X, D), IsDir(v.node), v.depth > c.depth
  PROVE  WalkKnows(r, c, V, G, X, D)
<1>1. v \in SomeVisit /\ Tree[v.node].level = Tree[r].level + v.depth
  BY DEF WalkKnows
<1>2. v.depth \in Nat /\ Tree[r].level \in Nat  BY <1>1, LevelsAreNumbers DEF SomeVisit
<1>3. Tree[v.node].level > Tree[r].level + c.depth  BY <1>1, <1>2
<1>4. WalkDealt(r, c, v.node, G, X, D)  BY <1>3 DEF WalkDealt
<1> QED  BY <1>4, WalkPasses

LEMMA WalkMeetsShut ==
  ASSUME NEW r \in Node, NEW c, c.depth \in Nat, NEW v, NEW V, NEW G, NEW X, NEW D,
         WalkKnows(r, c, {v} \cup V, G, X, D), Kind(v.node) = "unreadable",
         v.depth <= c.depth
  PROVE  WalkKnows(r, c, V, G, X \cup {v.node}, D)
<1>1. /\ v \in SomeVisit /\ Tree[v.node].level = Tree[r].level + v.depth
      /\ v.node = r \/ EntryIn(v.node, D)
  BY DEF WalkKnows
<1>2. v.depth \in Nat /\ Tree[r].level \in Nat  BY <1>1, LevelsAreNumbers DEF SomeVisit
<1>3. Tree[v.node].level <= Tree[r].level + c.depth  BY <1>1, <1>2
<1>4. WalkKnows(r, c, {v} \cup V, G, X \cup {v.node}, D)
  <2>1. \A k \in Node : WalkDealt(r, c, k, G, X, D)
                          => WalkDealt(r, c, k, G, X \cup {v.node}, D)
    BY DEF WalkDealt
  <2>2. \A n \in X \cup {v.node} :
           /\ Kind(n) = "unreadable" /\ (n = r \/ EntryIn(n, D))
           /\ Tree[n].level <= Tree[r].level + c.depth
    BY <1>1, <1>3 DEF WalkKnows
  <2> QED  BY <2>1, <2>2 DEF WalkKnows
<1>5. WalkDealt(r, c, v.node, G, X \cup {v.node}, D)
  BY KindsDiffer DEF WalkDealt
<1> QED  BY <1>4, <1>5, WalkPasses

LEMMA WalkCollects ==
  ASSUME NEW r \in Node, NEW c, NEW v, NEW V, NEW G, NEW X, NEW D,
         WalkKnows(r, c, {v} \cup V, G, X, D), ~IsDir(v.node), Kind(v.node) # "gone",
         WildcardMatch(Tree[v.node].name, c.pattern), IsDir(r)
  PROVE  WalkKnows(r, c, V, G \cup {v.node}, X, D)
<1>1. v.node = r \/ EntryIn(v.node, D)  BY DEF WalkKnows
<1>2. EntryIn(v.node, D)  BY <1>1
<1>3. WalkKnows(r, c, {v} \cup V, G \cup {v.node}, X, D)
  <2>1. \A k \in Node : WalkDealt(r, c, k, G, X, D)
                          => WalkDealt(r, c, k, G \cup {v.node}, X, D)
    BY DEF WalkDealt
  <2>2. \A n \in G \cup {v.node} : /\ EntryIn(n, D) /\ ~IsDir(n) /\ Kind(n) # "gone"
                                /\ WildcardMatch(Tree[n].name, c.pattern)
    BY <1>2 DEF WalkKnows
  <2> QED  BY <2>1, <2>2 DEF WalkKnows
<1>4. WalkDealt(r, c, v.node, G \cup {v.node}, X, D)  BY DEF WalkDealt
<1> QED  BY <1>3, <1>4, WalkPasses

LEMMA WalkGoesDown ==
  ASSUME NEW r \in Node, NEW c, c.depth \in Nat, NEW v, NEW V, NEW G, NEW X, NEW D,
         WalkKnows(r, c, {v} \cup V, G, X, D), Readable(v.node), v.depth <= c.depth
  PROVE  WalkKnows(r, c, {Visit(k, v.depth + 1) : k \in Kids(v.node)} \cup V, G, X,
                   D \cup {v.node})
<1> DEFINE n == v.node
           K == {Visit(k, v.depth + 1) : k \in Kids(n)}
           E == D \cup {n}
<1>1. /\ v \in SomeVisit /\ Tree[n].level = Tree[r].level + v.depth
      /\ n = r \/ EntryIn(n, D)
  BY DEF WalkKnows
<1>2. v.depth \in Nat /\ Tree[r].level \in Nat /\ n \in Node
  BY <1>1, LevelsAreNumbers DEF SomeVisit
<1>3. Grown(r, E)  BY <1>1, <1>2, GrownOn DEF WalkKnows
<1>4. \A p \in E : Readable(p) /\ Tree[p].level <= Tree[r].level + c.depth
  BY <1>1, <1>2 DEF WalkKnows
<1>5. \A k : EntryIn(k, D) => EntryIn(k, E)  BY DEF EntryIn
<1>6. ASSUME NEW w \in K \cup V
      PROVE  /\ w \in SomeVisit /\ (w.node = r \/ EntryIn(w.node, E))
             /\ Tree[w.node].level = Tree[r].level + w.depth
  <2>1. CASE w \in V  BY <2>1, <1>5 DEF WalkKnows
  <2>2. CASE w \in K
    <3>1. PICK k \in Kids(n) : w = Visit(k, v.depth + 1)  BY <2>2
    <3>2. w.node = k /\ w.depth = v.depth + 1  BY <3>1 DEF Visit
    <3>3. k \in Node  BY <1>2, KidsAreNodes
    <3>4. w \in SomeVisit  BY <1>2, <3>1, <3>3 DEF Visit, SomeVisit
    <3>5. EntryIn(k, E)  BY DEF EntryIn
    <3>6. Tree[k].level = Tree[n].level + 1  BY <1>2, LevelsAreNumbers
    <3>7. Tree[k].level = Tree[r].level + w.depth  BY <1>1, <1>2, <3>2, <3>6
    <3> QED  BY <3>2, <3>4, <3>5, <3>7
  <2> QED  BY <1>6, <2>1, <2>2
<1>7. /\ \A m \in G : /\ EntryIn(m, E) /\ ~IsDir(m) /\ Kind(m) # "gone"
                      /\ WildcardMatch(Tree[m].name, c.pattern)
      /\ \A m \in X : /\ Kind(m) = "unreadable" /\ (m = r \/ EntryIn(m, E))
                      /\ Tree[m].level <= Tree[r].level + c.depth
  BY <1>5 DEF WalkKnows
<1>8. ASSUME NEW k \in Node, k = r \/ EntryIn(k, E)
      PROVE  (\E w \in K \cup V : w.node = k) \/ WalkDealt(r, c, k, G, X, E)
  <2>1. CASE k \in Kids(n)
    <3>1. Visit(k, v.depth + 1) \in K /\ Visit(k, v.depth + 1).node = k
      BY <2>1 DEF Visit
    <3> QED  BY <3>1
  <2>2. CASE k = r \/ EntryIn(k, D)
    <3>1. (\E w \in {v} \cup V : w.node = k) \/ WalkDealt(r, c, k, G, X, D)
      BY <2>2 DEF WalkKnows
    <3>2. WalkDealt(r, c, k, G, X, D) => WalkDealt(r, c, k, G, X, E)
      BY DEF WalkDealt
    <3>3. k = n => WalkDealt(r, c, k, G, X, E)  BY KindsDiffer DEF WalkDealt
    <3> QED  BY <3>1, <3>2, <3>3
  <2> QED  BY <1>8, <2>1, <2>2 DEF EntryIn
<1> HIDE DEF K, E, n
<1>9. WalkKnows(r, c, K \cup V, G, X, E)
  BY <1>3, <1>4, <1>6, <1>7, <1>8 DEF WalkKnows
<1> QED  BY <1>9 DEF K, E, n

\* What a walk is asked for, and what it has to tell.
WalkListed(r, c) ==
    {m \in Node : Readable(m) /\ Tree[m].level <= Tree[r].level + c.depth}
WalkAsked(r, c) ==
    {n \in Node : /\ ~IsDir(n) /\ Kind(n) # "gone" /\ Reached(r, n, WalkListed(r, c))
                  /\ Matches(Tree[n].name, c.pattern)}
WalkUnread(r, c) ==
    {n \in Node : /\ Kind(n) = "unreadable" /\ Tree[n].level <= Tree[r].level + c.depth
                  /\ (n = r \/ Reached(r, n, WalkListed(r, c)))}

LEMMA WalkFinds ==
  ASSUME NEW c, c.depth \in Nat, NEW r \in Node, NEW V, NEW G \in SUBSET Node,
         NEW X \in SUBSET Node, NEW D \in SUBSET Node, WalkKnows(r, c, V, G, X, D), IsDir(r),
         \A n \in Node : WildcardMatch(Tree[n].name, c.pattern)
                           <=> Matches(Tree[n].name, c.pattern)
  PROVE  G \subseteq WalkAsked(r, c) /\ (V = {} => G = WalkAsked(r, c) /\ X = WalkUnread(r, c))
<1> DEFINE L == WalkListed(r, c)
<1>1. ASSUME NEW n \in Node, EntryIn(n, D)  PROVE Reached(r, n, L)
  <2>1. /\ n \in Under[r] \ {r}
        /\ \A m \in Under[r] : n \in Under[m] /\ m # n => m \in D
    BY <1>1, EntryIsReached DEF WalkKnows
  <2>2. D \subseteq L  BY DEF WalkKnows, WalkListed
  <2> QED  BY <2>1, <2>2 DEF Reached
<1>2. G \subseteq WalkAsked(r, c)
  BY <1>1 DEF WalkAsked, WalkKnows
<1>3. X \subseteq WalkUnread(r, c)
  BY <1>1 DEF WalkUnread, WalkKnows
<1>4. ASSUME V = {}  PROVE WalkAsked(r, c) \subseteq G /\ WalkUnread(r, c) \subseteq X
  <2>1. \A k \in Node : k = r \/ EntryIn(k, D) => WalkDealt(r, c, k, G, X, D)
    BY <1>4 DEF WalkKnows
  <2>2. ASSUME NEW k \in L, WalkDealt(r, c, k, G, X, D)  PROVE k \in D
    <3>1. /\ k \in Node /\ IsDir(k) /\ Kind(k) # "unreadable"
          /\ Tree[k].level <= Tree[r].level + c.depth
      BY KindsDiffer DEF WalkListed
    <3>2. Tree[k].level > Tree[r].level + c.depth \/ k \in X \/ k \in D
      BY <2>2, <3>1 DEF WalkDealt
    <3>3. k \notin X  BY <3>1 DEF WalkKnows
    <3>4. ~(Tree[k].level > Tree[r].level + c.depth)
      <4>1. k \in D \/ k \notin D  OBVIOUS
      <4>2. Tree[k].level \in Nat /\ Tree[r].level \in Nat  BY <3>1, LevelsAreNumbers
      <4> QED  BY <3>1, <4>2
    <3> QED  BY <3>2, <3>3, <3>4
  <2>3. r \in L => r \in D  BY <2>1, <2>2
  <2>4. \A k \in Node : EntryIn(k, D) /\ k \in L => k \in D  BY <2>1, <2>2
  <2>5. ASSUME NEW n, Reached(r, n, L)  PROVE n \in Node /\ EntryIn(n, D)
    <3>1. L \in SUBSET Node  BY DEF WalkListed
    <3> HIDE DEF L
    <3> QED  BY <2>3, <2>4, <2>5, <3>1, ReachedIsEntry
  <2>6. ASSUME NEW n \in WalkAsked(r, c)  PROVE n \in G
    <3>1. n \in Node /\ ~IsDir(n) /\ EntryIn(n, D)  BY <2>5 DEF WalkAsked
    <3>2. WalkDealt(r, c, n, G, X, D)  BY <2>1, <3>1
    <3>3. Kind(n) # "gone" /\ WildcardMatch(Tree[n].name, c.pattern)  BY <3>1 DEF WalkAsked
    <3> QED  BY <3>1, <3>2, <3>3 DEF WalkDealt
  <2>7. ASSUME NEW n \in WalkUnread(r, c)  PROVE n \in X
    <3>1. /\ n \in Node /\ Kind(n) = "unreadable" /\ (n = r \/ EntryIn(n, D))
      BY <2>5 DEF WalkUnread
    <3>2. Tree[n].level <= Tree[r].level + c.depth  BY DEF WalkUnread
    <3>3. WalkDealt(r, c, n, G, X, D)  BY <2>1, <3>1
    <3>4. IsDir(n) /\ ~Readable(n)  BY <3>1, KindsDiffer
    <3>5. n \notin D  BY <3>4 DEF WalkKnows
    <3>6. ~(Tree[n].level > Tree[r].level + c.depth)
      <4>1. Tree[n].level \in Nat /\ Tree[r].level \in Nat  BY <3>1, LevelsAreNumbers
      <4> QED  BY <3>2, <4>1
    <3> QED  BY <3>3, <3>4, <3>5, <3>6 DEF WalkDealt
  <2> QED  BY <2>6, <2>7
<1> QED  BY <1>2, <1>3, <1>4


-----------------------------------------------------------------------------
(* directory_overview: the steps of the measuring.                         *)

LEMMA OverviewBegins ==
  ASSUME NEW r \in Node
  PROVE  OverviewKnows(r, {}, IF Readable(r) THEN {k \in Kids(r) : Kind(k) # "gone"} ELSE {},
                       {}, {}, {m \in {r} : Readable(m)})
<1> DEFINE L == IF Readable(r) THEN {k \in Kids(r) : Kind(k) # "gone"} ELSE {}
           D == {m \in {r} : Readable(m)}
<1>1. \A p \in D : p = r /\ Readable(r) /\ r \in Under[r]  BY UnderItself
<1>2. L \subseteq Kids(r) /\ \A k \in L : Kind(k) # "gone"  OBVIOUS
<1>3. \A p \in D : \A k \in Kids(p) : Kind(k) = "gone" \/ k \in L  BY <1>1
<1>4. Readable(r) => r \in D  OBVIOUS
<1> HIDE DEF L, D
<1>5. OverviewKnows(r, {}, L, {}, {}, D)
  BY <1>1, <1>2, <1>3, <1>4 DEF OverviewKnows
<1> QED  BY <1>5 DEF L, D

\* A child that is a directory is measured next, another is a measure of its own.
LEMMA OverviewTakesDirectory ==
  ASSUME NEW r \in Node, NEW L, NEW G, NEW X, NEW D, NEW k \in L,
         OverviewKnows(r, {}, L, G, X, D)
  PROVE  OverviewKnows(r, {Visit(k, 0)}, L \ {k}, G, X, D)
<1>1. Visit(k, 0).node = k  BY DEF Visit
<1>2. k \in Kids(r)  BY DEF OverviewKnows
<1>3. k \in Under[r] \ {r}
  <2>1. k \in Under[r]  BY <1>2, UnderItself, UnderTransitive
  <2>2. Tree[k].level = Tree[r].level + 1 /\ Tree[r].level \in Nat
    BY <1>2, LevelsAreNumbers
  <2>3. k # r  BY <2>2
  <2> QED  BY <2>1, <2>3
<1>4. \A v \in {Visit(k, 0)} : v.node \in Under[r] \ {r}  BY <1>1, <1>3
<1>5. ASSUME X = {}, NEW p \in D, NEW m \in Kids(p)
      PROVE  \/ Kind(m) = "gone" \/ m \in G \cup (L \ {k})
             \/ \E v \in {Visit(k, 0)} : v.node = m
  <2>1. Kind(m) = "gone" \/ m \in G \cup L  BY <1>5 DEF OverviewKnows
  <2>2. CASE m = k  BY <2>2, <1>1
  <2>3. CASE m # k  BY <2>1, <2>3
  <2> QED  BY <2>2, <2>3
<1>6. L \ {k} \subseteq Kids(r) /\ \A m \in L \ {k} : Kind(m) # "gone"
  BY DEF OverviewKnows
<1> QED  BY <1>4, <1>5, <1>6 DEF OverviewKnows

LEMMA OverviewTakesFile ==
  ASSUME NEW r \in Node, NEW L, NEW G, NEW X, NEW D, NEW k \in L, ~IsDir(k),
         OverviewKnows(r, {}, L, G, X, D)
  PROVE  OverviewKnows(r, {}, L \ {k}, G \cup {k}, X, D)
<1>1. k \in Kids(r)  BY DEF OverviewKnows
<1>2. k \in Under[r] \ {r}
  <2>1. k \in Under[r]  BY <1>1, UnderItself, UnderTransitive
  <2>2. Tree[k].level = Tree[r].level + 1 /\ Tree[r].level \in Nat
    BY <1>1, LevelsAreNumbers
  <2>3. k # r  BY <2>2
  <2> QED  BY <2>1, <2>3
<1>3. ~Readable(k) /\ Kind(k) \notin {"gone", "unreadable"}
  BY KindsDiffer DEF OverviewKnows
<1>4. \A n \in G \cup {k} : /\ n \in Under[r] \ {r} /\ Kind(n) \notin {"gone", "unreadable"}
                            /\ Readable(n) => n \in D
  BY <1>2, <1>3 DEF OverviewKnows
<1>5. ASSUME X = {}, NEW p \in D, NEW m \in Kids(p)
      PROVE  Kind(m) = "gone" \/ m \in (G \cup {k}) \cup (L \ {k})
  BY <1>5 DEF OverviewKnows
<1>6. L \ {k} \subseteq Kids(r) /\ \A m \in L \ {k} : Kind(m) # "gone"
  BY DEF OverviewKnows
<1> QED  BY <1>4, <1>5, <1>6 DEF OverviewKnows

\* A directory is read and measured: its entries are visited next.
LEMMA OverviewGoesDown ==
  ASSUME NEW r \in Node, NEW v, NEW V, NEW L, NEW G, NEW X, NEW D, Readable(v.node),
         OverviewKnows(r, {v} \cup V, L, G, X, D)
  PROVE  OverviewKnows(r, {Visit(k, 0) : k \in Kids(v.node)} \cup V, L, G \cup {v.node}, X,
                       D \cup {v.node})
<1> DEFINE n == v.node
           K == {Visit(k, 0) : k \in Kids(n)}
<1>1. n \in Under[r] \ {r}  BY DEF OverviewKnows
<1>2. n \in Node  BY <1>1, UnderIsNodes
<1>3. ASSUME NEW k \in Kids(n)
      PROVE  /\ k \in Under[r] \ {r} /\ Visit(k, 0) \in K /\ Visit(k, 0).node = k
  <2>1. k \in Under[r]  BY <1>1, UnderTransitive
  <2>2. Tree[k].level = Tree[n].level + 1 /\ Tree[n].level \in Nat /\ Tree[r].level \in Nat
    BY <1>2, LevelsAreNumbers
  <2>3. Tree[n].level > Tree[r].level  BY <1>1, UnderIsDeeper
  <2>4. k # r  BY <2>2, <2>3
  <2>5. Visit(k, 0).node = k  BY DEF Visit
  <2> QED  BY <2>1, <2>4, <2>5
<1>4. \A w \in K \cup V : w.node \in Under[r] \ {r}
  <2>1. \A w \in K : w.node \in Under[r] \ {r}  BY <1>3
  <2>2. \A w \in V : w.node \in Under[r] \ {r}  BY DEF OverviewKnows
  <2> QED  BY <2>1, <2>2
<1>5. ASSUME X = {}, NEW p \in D \cup {n}, NEW m \in Kids(p)
      PROVE  \/ Kind(m) = "gone" \/ m \in (G \cup {n}) \cup L
             \/ \E w \in K \cup V : w.node = m
  <2>1. CASE p \in D
    <3>1. \/ Kind(m) = "gone" \/ m \in G \cup L
          \/ \E w \in {v} \cup V : w.node = m
      BY <1>5, <2>1 DEF OverviewKnows
    <3> QED  BY <3>1
  <2>2. CASE p = n
    <3>1. Visit(m, 0) \in K /\ Visit(m, 0).node = m  BY <1>3, <1>5, <2>2
    <3> QED  BY <3>1
  <2> QED  BY <1>5, <2>1, <2>2
<1>6. \A p \in D \cup {n} : p \in Under[r] /\ Readable(p) /\ (p = r \/ p \in G \cup {n})
  BY <1>1 DEF OverviewKnows
<1>7. \A m \in G \cup {n} : /\ m \in Under[r] \ {r} /\ Kind(m) \notin {"gone", "unreadable"}
                            /\ Readable(m) => m \in D \cup {n}
  <2>1. Kind(n) \notin {"gone", "unreadable"}  BY KindsDiffer
  <2> QED  BY <1>1, <2>1 DEF OverviewKnows
<1>8. Readable(r) => r \in D \cup {n}  BY DEF OverviewKnows
<1>9. L \subseteq Kids(r) /\ \A k \in L : Kind(k) # "gone"  BY DEF OverviewKnows
<1> HIDE DEF K, n
<1>10. OverviewKnows(r, K \cup V, L, G \cup {n}, X, D \cup {n})
  BY <1>4, <1>5, <1>6, <1>7, <1>8, <1>9 DEF OverviewKnows
<1> QED  BY <1>10 DEF K, n

\* A file or a link is measured; what is gone is passed over.
LEMMA OverviewMeasures ==
  ASSUME NEW r \in Node, NEW v, NEW V, NEW L, NEW G, NEW X, NEW D, ~IsDir(v.node),
         Kind(v.node) # "gone", OverviewKnows(r, {v} \cup V, L, G, X, D)
  PROVE  OverviewKnows(r, V, L, G \cup {v.node}, X, D)
<1>1. ~Readable(v.node) /\ Kind(v.node) \notin {"gone", "unreadable"}  BY KindsDiffer
<1>2. \A n \in G \cup {v.node} :
         /\ n \in Under[r] \ {r} /\ Kind(n) \notin {"gone", "unreadable"}
         /\ Readable(n) => n \in D
  BY <1>1 DEF OverviewKnows
<1>3. ASSUME X = {}, NEW p \in D, NEW m \in Kids(p)
      PROVE  \/ Kind(m) = "gone" \/ m \in (G \cup {v.node}) \cup L
             \/ \E w \in V : w.node = m
  <2>1. \/ Kind(m) = "gone" \/ m \in G \cup L \/ \E w \in {v} \cup V : w.node = m
    BY <1>3 DEF OverviewKnows
  <2> QED  BY <2>1
<1> QED  BY <1>2, <1>3 DEF OverviewKnows

LEMMA OverviewPasses ==
  ASSUME NEW r \in Node, NEW v, NEW V, NEW L, NEW G, NEW X, NEW D,
         Kind(v.node) = "gone", OverviewKnows(r, {v} \cup V, L, G, X, D)
  PROVE  OverviewKnows(r, V, L, G, X, D)
<1>1. ASSUME X = {}, NEW p \in D, NEW m \in Kids(p)
      PROVE  Kind(m) = "gone" \/ m \in G \cup L \/ \E w \in V : w.node = m
  <2>1. \/ Kind(m) = "gone" \/ m \in G \cup L \/ \E w \in {v} \cup V : w.node = m
    BY <1>1 DEF OverviewKnows
  <2> QED  BY <2>1
<1> QED  BY <1>1 DEF OverviewKnows

\* A child that is measured in part is told, whatever is left of it.
LEMMA OverviewCuts ==
  ASSUME NEW r \in Node, NEW V, NEW W, NEW L, NEW G, NEW X, NEW k, NEW D, W \subseteq V,
         OverviewKnows(r, V, L, G, X, D)
  PROVE  OverviewKnows(r, W, L, G, X \cup {k}, D)
  BY DEF OverviewKnows

LEMMA OverviewMeasuredAll ==
  ASSUME NEW r \in Node, NEW G, NEW D, r \in D, OverviewKnows(r, {}, {}, G, {}, D)
  PROVE  G = {n \in Under[r] \ {r} : Kind(n) # "gone"}
<1> DEFINE S == {m \in Under[r] : m = r \/ Kind(m) = "gone" \/ m \in G}
<1>1. G \subseteq {n \in Under[r] \ {r} : Kind(n) # "gone"}  BY DEF OverviewKnows
<1>2. r \in S /\ S \in SUBSET Node  BY UnderItself, UnderIsNodes
<1>3. ClosedDown(S)
  <2> SUFFICES ASSUME NEW m \in S, NEW k \in Kids(m)  PROVE k \in S
    BY DEF ClosedDown
  <2>1. m \in Node /\ k \in Under[r]  BY <1>2, UnderTransitive
  <2>2. IsDir(m)  BY <2>1, LevelsAreNumbers
  <2>3. Kind(m) # "gone"  BY <2>2, KindsDiffer
  <2>4. m \in D
    <3>1. CASE m = r  BY <3>1
    <3>2. CASE m \in G
      <4>1. Kind(m) # "unreadable" /\ (Readable(m) => m \in D)  BY <3>2 DEF OverviewKnows
      <4>2. Readable(m)  BY <2>2, <4>1, KindsDiffer
      <4> QED  BY <4>1, <4>2
    <3> QED  BY <2>3, <3>1, <3>2
  <2>5. Kind(k) = "gone" \/ k \in G  BY <2>4 DEF OverviewKnows
  <2> QED  BY <2>1, <2>5
<1>4. Under[r] \subseteq S
  <2> HIDE DEF S
  <2> QED  BY <1>2, <1>3, UnderLeast
<1> QED  BY <1>1, <1>4

-----------------------------------------------------------------------------
(* scan_workspace: the steps of the scan.                                  *)

LEMMA ScanBegins ==
  ASSUME NEW r \in Node
  PROVE  ScanKnows(r, {Visit(r, 0)}, {}, {}, {}, {})
<1>1. Visit(r, 0).node = r  BY DEF Visit
<1> QED  BY <1>1 DEF ScanKnows, Grown

\* Whatever is dropped, a scan that is cut says so.
LEMMA ScanCuts ==
  ASSUME NEW r, NEW V, NEW W, W \subseteq V, NEW L, NEW M, M \subseteq L, NEW G, NEW X,
         NEW Y, Y # {}, NEW D, ScanKnows(r, V, L, G, X, D)
  PROVE  ScanKnows(r, W, M, G, Y, D)
  BY DEF ScanKnows

LEMMA ScanPasses ==
  ASSUME NEW r, NEW v, NEW V, NEW L, NEW G, NEW X, NEW D, ~Readable(v.node),
         ScanKnows(r, {v} \cup V, L, G, X, D)
  PROVE  ScanKnows(r, V, L, G, X, D)
<1>1. ASSUME X = {}, NEW k \in G \cup {r}, Kind(k) = "dir" \/ (k = r /\ Readable(k))
      PROVE  k \in D \/ \E w \in V : w.node = k
  <2>1. k \in D \/ \E w \in {v} \cup V : w.node = k  BY <1>1 DEF ScanKnows
  <2>2. Readable(k)  BY <1>1, KindsDiffer
  <2> QED  BY <2>1, <2>2
<1> QED  BY <1>1 DEF ScanKnows

LEMMA ScanGoesDown ==
  ASSUME NEW r \in Node, NEW v, v.node \in Node, NEW V, NEW G, NEW X, NEW D,
         Readable(v.node), ScanKnows(r, {v} \cup V, {}, G, X, D)
  PROVE  ScanKnows(r, V, Kids(v.node), G, X, D \cup {v.node})
<1> DEFINE n == v.node
           E == D \cup {n}
<1>1. n = r \/ (EntryIn(n, D) /\ IsDir(n) /\ ~Skipped(n))  BY DEF ScanKnows
<1>2. Grown(r, E)  BY <1>1, GrownOn DEF ScanKnows
<1>3. \A k : EntryIn(k, D) => EntryIn(k, E)  BY DEF EntryIn
<1>4. \A p \in E : Kind(p) = "dir" \/ (p = r /\ Readable(p))
  <2>1. Kind(n) = "dir" \/ n = r  BY <1>1 DEF Readable
  <2> QED  BY <2>1 DEF ScanKnows
<1>5. \A w \in V : w.node = r \/ (EntryIn(w.node, E) /\ IsDir(w.node) /\ ~Skipped(w.node))
  BY <1>3 DEF ScanKnows
<1>6. \A k \in Kids(n) \cup G : EntryIn(k, E)
  <2>1. \A k \in Kids(n) : EntryIn(k, E)  BY DEF EntryIn
  <2> QED  BY <1>3, <2>1 DEF ScanKnows
<1>7. ASSUME X = {}  PROVE \A p \in E : Kids(p) \subseteq G \cup Kids(n)
  BY <1>7 DEF ScanKnows
<1>8. ASSUME X = {}, NEW k \in G \cup {r}, Kind(k) = "dir" \/ (k = r /\ Readable(k))
      PROVE  k \in E \/ \E w \in V : w.node = k
  <2>1. k \in D \/ \E w \in {v} \cup V : w.node = k  BY <1>8 DEF ScanKnows
  <2> QED  BY <2>1
<1> HIDE DEF E, n
<1>9. ScanKnows(r, V, Kids(n), G, X, E)
  BY <1>2, <1>4, <1>5, <1>6, <1>7, <1>8 DEF ScanKnows
<1> QED  BY <1>9 DEF E, n

\* An entry is looked at: W is what is to be visited then.
LEMMA ScanLooks ==
  ASSUME NEW r, NEW V, NEW W, NEW L, NEW G, NEW X, NEW D, NEW k \in L, NEW d,
         W = IF IsDir(k) /\ ~Skipped(k) THEN {Visit(k, d)} \cup V ELSE V,
         ScanKnows(r, V, L, G, X, D)
  PROVE  ScanKnows(r, W, L \ {k}, G \cup {k}, X, D)
<1>1. Visit(k, d).node = k /\ EntryIn(k, D)  BY DEF Visit, ScanKnows
<1>2. \A w \in W : w.node = r \/ (EntryIn(w.node, D) /\ IsDir(w.node) /\ ~Skipped(w.node))
  <2>1. CASE IsDir(k) /\ ~Skipped(k)  BY <1>1, <2>1 DEF ScanKnows
  <2>2. CASE ~(IsDir(k) /\ ~Skipped(k))  BY <2>2 DEF ScanKnows
  <2> QED  BY <2>1, <2>2
<1>3. V \subseteq W  OBVIOUS
<1>4. \A m \in (L \ {k}) \cup (G \cup {k}) : EntryIn(m, D)  BY <1>1 DEF ScanKnows
<1>5. ASSUME X = {}  PROVE \A p \in D : Kids(p) \subseteq (G \cup {k}) \cup (L \ {k})
  BY <1>5 DEF ScanKnows
<1>6. ASSUME X = {}, NEW m \in (G \cup {k}) \cup {r},
             Kind(m) = "dir" \/ (m = r /\ Readable(m))
      PROVE  m \in D \/ \E w \in W : w.node = m
  <2>1. CASE m \in G \cup {r}
    <3>1. m \in D \/ \E w \in V : w.node = m  BY <1>6, <2>1 DEF ScanKnows
    <3> QED  BY <1>3, <3>1
  <2>2. CASE m = k /\ m # r
    <3>1. Kind(k) = "dir"  BY <1>6, <2>2
    <3>2. IsDir(k) /\ ~Skipped(k)  BY <3>1, KindsDiffer
    <3>3. Visit(k, d) \in W  BY <3>2
    <3> QED  BY <1>1, <2>2, <3>3
  <2> QED  BY <1>6, <2>1, <2>2
<1> QED  BY <1>2, <1>4, <1>5, <1>6 DEF ScanKnows

ScanListed(r) == {m \in Node : Kind(m) = "dir" \/ (m = r /\ Readable(m))}

LEMMA ScanLookedAll ==
  ASSUME NEW r \in Node, NEW G \in SUBSET Node, NEW D \in SUBSET Node,
         ScanKnows(r, {}, {}, G, {}, D)
  PROVE  G = {n \in Node : Reached(r, n, ScanListed(r))}
<1> DEFINE L == ScanListed(r)
<1>1. D \subseteq L /\ L \in SUBSET Node  BY DEF ScanKnows, ScanListed
<1>2. ASSUME NEW n \in G  PROVE Reached(r, n, L)
  <2>1. Grown(r, D) /\ EntryIn(n, D) /\ n \in Node  BY DEF ScanKnows
  <2>2. /\ n \in Under[r] \ {r}
        /\ \A m \in Under[r] : n \in Under[m] /\ m # n => m \in D
    BY <2>1, EntryIsReached
  <2> HIDE DEF L
  <2> QED  BY <1>1, <2>2 DEF Reached
<1>3. ASSUME NEW n, Reached(r, n, L)  PROVE n \in G
  <2>1. \A k \in G \cup {r} : k \in L => k \in D  BY DEF ScanKnows, ScanListed
  <2>2. \A k : EntryIn(k, D) => k \in G  BY DEF ScanKnows, EntryIn
  <2> HIDE DEF L
  <2>3. EntryIn(n, D)  BY <1>1, <1>3, <2>1, <2>2, ReachedIsEntry
  <2> QED  BY <2>2, <2>3
<1> HIDE DEF L
<1>4. G = {n \in Node : Reached(r, n, L)}  BY <1>2, <1>3
<1> QED  BY <1>4 DEF L

-----------------------------------------------------------------------------
(* read_text_file                                                          *)

SliceFits(reply, mode, want, total, lineEnds) ==
    /\ reply.kind = "text" /\ reply.total = total
    /\ reply.whole <=> ~reply.truncated
    /\ reply.whole => reply.from = 0 /\ reply.to >= reply.total
    /\ reply.from <= reply.to /\ reply.to - reply.from <= want
    /\ mode = "tail" /\ total > want =>
         \A e \in lineEnds :
            total - want < e /\ e <= reply.to => reply.from \in lineEnds /\ reply.from <= e

LEMMA SliceIsHonest ==
  ASSUME NEW mode, NEW want \in Nat \ {0}, NEW total \in Nat, NEW now \in Nat,
         NEW lineEnds, lineEnds \subseteq Nat, NEW reply,
         reply = TextSlice(mode, want, total, now, lineEnds)
  PROVE  SliceFits(reply, mode, want, total, lineEnds)
<1> DEFINE start == IF mode = "tail" /\ total > want THEN total - want ELSE 0
           filled == IF now > start THEN Fewer(want, now - start) ELSE 0
           ends == {e \in lineEnds : start < e /\ e <= start + filled}
           first == IF mode = "tail" /\ start > 0 /\ ends # {}
                    THEN CHOOSE e \in ends : \A f \in ends : e <= f
                    ELSE start
           short == (IF mode = "tail" THEN start > 0 ELSE total > want) \/ total > filled
           full == start = 0 /\ filled >= total
<1>1. reply = [kind |-> "text", from |-> first, to |-> start + filled,
               total |-> total, returned |-> filled, truncated |-> short, whole |-> full]
  BY DEF TextSlice
<1>2. start \in Nat /\ start <= total /\ (mode = "tail" /\ total > want => start = total - want)
      /\ (~(mode = "tail" /\ total > want) => start = 0)
  OBVIOUS
<1> HIDE DEF start
<1>3. filled \in Nat /\ filled <= want  BY <1>2 DEF Fewer
<1> HIDE DEF filled
<1>4. ends \in SUBSET Nat /\ \A e \in ends : start < e /\ e <= start + filled /\ e \in lineEnds
  OBVIOUS
<1>5. \A e \in lineEnds : start < e /\ e <= start + filled => e \in ends
  OBVIOUS
<1> HIDE DEF ends
<1>6. ASSUME ends # {}
      PROVE  \E m \in ends : \A n \in ends : m <= n
  BY <1>4, <1>6, NatLeast
<1>7. ASSUME mode = "tail", start > 0, ends # {}
      PROVE  first \in ends /\ \A f \in ends : first <= f
  <2>1. first = CHOOSE e \in ends : \A f \in ends : e <= f  BY <1>7
  <2> QED  BY <1>6, <1>7, <2>1
<1>8. ~(mode = "tail" /\ start > 0 /\ ends # {}) => first = start
  OBVIOUS
<1> HIDE DEF first
<1>9. first \in Nat /\ start <= first /\ first <= start + filled
  <2>1. CASE mode = "tail" /\ start > 0 /\ ends # {}
    <3>1. first \in Nat /\ start < first /\ first <= start + filled  BY <1>4, <1>7, <2>1
    <3> QED  BY <1>2, <3>1
  <2>2. CASE ~(mode = "tail" /\ start > 0 /\ ends # {})
    BY <1>2, <1>3, <1>8, <2>2
  <2> QED  BY <2>1, <2>2
<1>10. short \in BOOLEAN /\ full \in BOOLEAN /\ (full <=> ~short)
  BY <1>2, <1>3
<1>11. full => first = 0 /\ start + filled >= total
  <2>1. ASSUME full  PROVE first = 0 /\ start + filled >= total
    BY <1>3, <1>8, <2>1
  <2> QED  BY <2>1
<1>12. (start + filled) - first <= want  BY <1>2, <1>3, <1>9
<1>13. ASSUME mode = "tail", total > want, NEW e \in lineEnds, total - want < e,
              e <= start + filled
       PROVE  first \in lineEnds /\ first <= e
  <2>1. start = total - want /\ start > 0  BY <1>2, <1>13
  <2>2. e \in ends  BY <1>5, <1>13, <2>1
  <2> QED  BY <1>4, <1>7, <1>13, <2>1, <2>2
<1> HIDE DEF short, full
<1>14. /\ reply.kind = "text" /\ reply.from = first /\ reply.to = start + filled
       /\ reply.total = total /\ reply.truncated = short /\ reply.whole = full
  BY <1>1
<1> QED  BY <1>9, <1>10, <1>11, <1>12, <1>13, <1>14 DEF SliceFits

\* One more node makes a set at most one larger.
LEMMA OneMoreNode ==
  ASSUME NEW G, IsFiniteSet(G), NEW n, NEW m \in Nat \ {0}, Cardinality(G) < m
  PROVE  /\ IsFiniteSet(G \cup {n}) /\ Cardinality(G \cup {n}) \in Nat
         /\ Cardinality(G \cup {n}) >= m => Cardinality(G \cup {n}) = m
<1>1. Cardinality(G) \in Nat  BY FS_CardinalityType
<1>2. /\ IsFiniteSet(G \cup {n})
      /\ Cardinality(G \cup {n}) = IF n \in G THEN Cardinality(G) ELSE Cardinality(G) + 1
  BY FS_AddElement
<1> QED  BY <1>1, <1>2

-----------------------------------------------------------------------------
(* The steps of the tools keep it.                                         *)

LEMMA RangeOfNone ==
  Range(<<>>) = {} /\ \A v : Range(<<v>>) = {v}
<1>1. DOMAIN <<>> = {}  OBVIOUS
<1>2. \A v : DOMAIN <<v>> = {1} /\ <<v>>[1] = v  OBVIOUS
<1> QED  BY <1>1, <1>2 DEF Range

NothingToTell == freply.kind \in {"none", "error"} /\ WithinBudgets
WhatIsTold == WalkComplete /\ OverviewComplete /\ ScanComplete /\ SliceHonest

\* A reply that is none, or an error, tells nothing that could be wrong.
LEMMA NothingTold ==
  NothingToTell => WhatIsTold
  BY DEF NothingToTell, WhatIsTold, WithinBudgets, WalkComplete, OverviewComplete,
         ScanComplete, SliceHonest

\* Before anything is read.
FilesResting ==
    /\ WalksTyped /\ fstep \in {"idle", "resolve"} /\ freply = NoReply
    /\ fstep = "resolve" => fcall \in FileCalls
    /\ pending = <<>> /\ left = {} /\ used = 0 /\ spentAll = 0 /\ share = 0 /\ got = {}
    /\ entered = {} /\ opened = {} /\ cut = {}

LEMMA FilesAtRest ==
  FilesResting => FilesInv
<1> SUFFICES ASSUME FilesResting  PROVE FilesInv
  OBVIOUS
<1>1. FilesShape  BY DEF FilesResting, FilesShape, Working
<1>2. InsideRoot  BY DEF FilesResting, InsideRoot
<1>3. fcall \in FileCalls \/ fcall = NoFileCall  BY DEF FilesResting, WalksTyped
<1>4. NoFileCall.tool = "none"  BY DEF NoFileCall
<1>5. WithinBudgets
  <2>1. fcall.tool = "workspace_scan" => 0 <= fcall.limit
    BY <1>3, <1>4, FileCallsAssumption
  <2> QED  BY <2>1 DEF WithinBudgets, FilesResting
<1>6. FilesKnow  BY DEF FilesKnow, FilesResting
<1>7. freply.kind = "none"  BY DEF NoReply, FilesResting
<1>8. WhatIsTold  BY <1>5, <1>7, NothingTold DEF NothingToTell
<1> QED  BY <1>1, <1>2, <1>5, <1>6, <1>8 DEF FilesInv, WhatIsTold

LEMMA FilesBegin ==
  ASSUME FilesIdle
  PROVE  FilesInv
<1>1. WalksTyped
  <2>1. <<>> \in Seq(SomeVisit)  OBVIOUS
  <2>2. DriveRoot \in Node  BY TreeAssumption
  <2>3. NoReply.kind = "none"  BY DEF NoReply
  <2> QED  BY <2>1, <2>2, <2>3 DEF FilesIdle, WalksTyped
<1> QED  BY <1>1, FilesAtRest DEF FilesIdle, FilesResting

LEMMA AcceptKeepsFiles ==
  ASSUME FilesInv, AcceptFileCall
  PROVE  FilesInv'
<1>1. FilesShape  BY DEF FilesInv
<1>2. WalksTyped'  BY <1>1 DEF FilesShape, WalksTyped, AcceptFileCall
<1>3. FilesResting'
  BY <1>1, <1>2 DEF FilesShape, AcceptFileCall, FilesResting
<1>4. (FilesResting => FilesInv)'  BY FilesAtRest, PTL
<1> QED  BY <1>3, <1>4

LEMMA RepliedKeepsFiles ==
  ASSUME FileReplied
  PROVE  FilesInv'
<1>1. WalksTyped'
  <2>1. <<>> \in Seq(SomeVisit)  OBVIOUS
  <2>2. DriveRoot \in Node  BY TreeAssumption
  <2>3. NoReply.kind = "none"  BY DEF NoReply
  <2> QED  BY <2>1, <2>2, <2>3 DEF FileReplied, WalksTyped
<1>2. FilesResting'  BY <1>1 DEF FileReplied, FilesResting
<1>3. (FilesResting => FilesInv)'  BY FilesAtRest, PTL
<1> QED  BY <1>2, <1>3

\* A call that is refused has read nothing.
LEMMA RefuseKeepsFiles ==
  ASSUME FilesInv, RefuseFileCall
  PROVE  FilesInv'
<1>1. FilesShape /\ InsideRoot /\ WithinBudgets  BY DEF FilesInv
<1>2. freply'.kind = "error" /\ fstep' = "answered"  BY DEF RefuseFileCall, Replies
<1>3. FilesShape'
  BY <1>1, <1>2 DEF FilesShape, WalksTyped, RefuseFileCall, Working
<1>4. InsideRoot' /\ FilesKnow'
  BY <1>1, <1>2 DEF FilesShape, InsideRoot, FilesKnow, RefuseFileCall
<1>5. WithinBudgets'  BY <1>1, <1>2 DEF WithinBudgets, RefuseFileCall
<1>6. (NothingToTell => WhatIsTold)'  BY NothingTold, PTL
<1>7. WhatIsTold'  BY <1>2, <1>5, <1>6 DEF NothingToTell
<1> QED  BY <1>3, <1>4, <1>5, <1>7 DEF FilesInv, WhatIsTold

\* While a tool is at work, it has told nothing and its root is one directory.
LEMMA AtWork ==
  ASSUME FilesInv, fstep \in Working
  PROVE  /\ fcall \in FileCalls /\ fcall.depth \in Nat /\ fcall.limit \in Nat \ {0}
         /\ freply = NoReply /\ freply.kind = "none"
         /\ \E r \in Node : /\ WorkspaceRoot(fcall) = {r} /\ IsDir(r)
                            /\ r \in Resolved(fcall.path)
<1>1. FilesShape /\ fcall \in FileCalls /\ WorkspaceRoot(fcall) # {} /\ freply = NoReply
  BY DEF FilesInv, FilesShape, Working
<1>2. fcall.depth \in Nat /\ fcall.limit \in Nat \ {0}  BY <1>1, FileCallsAssumption
<1>3. PICK r \in WorkspaceRoot(fcall) : TRUE  BY <1>1
<1>4. /\ r \in Node /\ IsDir(r) /\ r \in Resolved(fcall.path)
      /\ \A m \in WorkspaceRoot(fcall) : m = r
  BY RootIsDir
<1>5. WorkspaceRoot(fcall) = {r}  BY <1>3, <1>4
<1>6. freply.kind = "none"  BY <1>1 DEF NoReply
<1> QED  BY <1>1, <1>2, <1>4, <1>5, <1>6

LEMMA StartWalkKeepsFiles ==
  ASSUME FilesInv, StartWalk
  PROVE  FilesInv'
<1>1. FilesShape /\ InsideRoot /\ WithinBudgets  BY DEF FilesInv
<1>2. PICK n \in WorkspaceRoot(fcall) : pending' = <<Visit(n, 0)>>
  BY DEF StartWalk
<1>3. n \in Node /\ WorkspaceRoot(fcall) = {n}  BY RootIsDir, <1>2
<1>4. /\ fcall \in FileCalls /\ fcall' = fcall /\ left' = {} /\ got' = {} /\ entered' = {}
      /\ cut' = {} /\ opened' = {} /\ used' = 0 /\ spentAll' = 0 /\ share' = 0
      /\ freply' = NoReply /\ freply' = freply /\ subdir' = subdir /\ depth' = depth
  BY <1>1 DEF FilesShape, StartWalk
<1>5. fcall.limit \in Nat \ {0}  BY <1>4, FileCallsAssumption
<1>6. \/ fstep' = "walk" /\ fcall.tool = "find_files"
      \/ fstep' = "pop" /\ fcall.tool = "workspace_scan"
  BY DEF StartWalk
<1>7. pending' \in Seq(SomeVisit)
  <2>1. Visit(n, 0) \in SomeVisit  BY <1>3 DEF Visit, SomeVisit
  <2> QED  BY <1>2, <2>1
<1>8. FilesShape'
  <2>1. WalksTyped'  BY <1>1, <1>4, <1>6, <1>7 DEF FilesShape, WalksTyped
  <2> QED  BY <1>3, <1>4, <1>6, <2>1 DEF FilesShape, Working
<1>9. InsideRoot'  BY <1>4 DEF InsideRoot
<1>10. WithinBudgets'
  <2>1. IsFiniteSet({}) /\ Cardinality({}) = 0  BY FS_EmptySet
  <2> QED  BY <1>4, <1>5, <1>6, <2>1 DEF WithinBudgets
<1>11. Range(pending') = {Visit(n, 0)}  BY <1>2, RangeOfNone
<1>12. FilesKnow'
  <2>1. WalkKnows(n, fcall, {Visit(n, 0)}, {}, {}, {})  BY <1>3, WalkBegins
  <2>2. ScanKnows(n, {Visit(n, 0)}, {}, {}, {}, {})  BY <1>3, ScanBegins
  <2> QED  BY <1>3, <1>4, <1>6, <1>11, <2>1, <2>2 DEF FilesKnow
<1>13. (NothingToTell => WhatIsTold)'  BY NothingTold, PTL
<1>14. WhatIsTold'
  <2>1. freply'.kind = "none"  BY <1>4 DEF NoReply
  <2> QED  BY <1>10, <1>13, <2>1 DEF NothingToTell
<1> QED  BY <1>8, <1>9, <1>10, <1>12, <1>14 DEF FilesInv, WhatIsTold

\* What the walk collected and what it tells, when its state is known.
LEMMA WalkTells ==
  ASSUME NEW c \in FileCalls, NEW r \in Node, IsDir(r), NEW V, NEW G \in SUBSET Node,
         NEW X \in SUBSET Node, NEW D \in SUBSET Node, WalkKnows(r, c, V, G, X, D)
  PROVE  G \subseteq WalkAsked(r, c) /\ (V = {} => G = WalkAsked(r, c) /\ X = WalkUnread(r, c))
<1>1. \A n \in Node : WildcardMatch(Tree[n].name, c.pattern)
                        <=> Matches(Tree[n].name, c.pattern)
  <2> SUFFICES ASSUME NEW n \in Node
               PROVE  WildcardMatch(Tree[n].name, c.pattern)
                        <=> Matches(Tree[n].name, c.pattern)
    OBVIOUS
  <2>1. IsGlob(Tree[n].name, c.pattern)
    <3>1. Tree[n].name \in Seq(Range(Tree[n].name) \ {"*"})  BY TreeAssumption
    <3>2. c.pattern \in Seq(Range(c.pattern))  BY FileCallsAssumption
    <3> QED  BY <3>1, <3>2 DEF IsGlob
  <2> QED  BY <2>1, WildcardMatches
<1>2. c.depth \in Nat  BY FileCallsAssumption
<1> QED  BY <1>1, <1>2, WalkFinds

WalkSays ==
    \A r \in WorkspaceRoot(fcall) :
        /\ freply.files \subseteq WalkAsked(r, fcall)
        /\ IF freply.truncated THEN Cardinality(freply.files) = fcall.limit
           ELSE /\ freply.files = WalkAsked(r, fcall)
                /\ freply.unreadable = WalkUnread(r, fcall)

LEMMA WalkSaysAll ==
  WalkSays => WalkComplete
  BY Zenon DEF WalkSays, WalkComplete, WalkAsked, WalkUnread, WalkListed

\* The root of a walk, and what is in a directory it read, is under its root.
LEMMA WalkStaysInside ==
  ASSUME NEW r \in Node, NEW D, Grown(r, D), NEW n \in Node, n = r \/ EntryIn(n, D)
  PROVE  n \in Under[r]
<1>1. CASE n = r  BY <1>1, UnderItself
<1>2. CASE EntryIn(n, D)  BY <1>2, EntryIsReached
<1> QED  BY <1>1, <1>2

\* The first visit and the others; what the walk knows of them.
LEMMA WalkTakesVisit ==
  ASSUME FilesInv, WalkEntry
  PROVE  \E r \in Node :
           LET v == Head(pending)
               V == Range(Tail(pending))
           IN  /\ WorkspaceRoot(fcall) = {r} /\ IsDir(r)
               /\ WalkKnows(r, fcall, {v} \cup V, got, cut, entered)
               /\ v \in SomeVisit /\ v.node \in Node /\ v.node \in Under[r]
               /\ v.depth \in Nat /\ Tail(pending) \in Seq(SomeVisit)
<1>1. FilesShape /\ FilesKnow /\ fstep = "walk" /\ pending # <<>>
  BY DEF FilesInv, WalkEntry
<1>2. PICK r \in Node : WorkspaceRoot(fcall) = {r} /\ IsDir(r)
  BY <1>1, AtWork DEF Working
<1>3. pending \in Seq(SomeVisit)  BY <1>1 DEF FilesShape, WalksTyped
<1>4. /\ Range(pending) = {Head(pending)} \cup Range(Tail(pending))
      /\ Head(pending) \in SomeVisit /\ Tail(pending) \in Seq(SomeVisit)
  BY <1>1, <1>3, RangeIsSplit
<1>5. WalkKnows(r, fcall, Range(pending), got, cut, entered)
  BY <1>1, <1>2 DEF FilesKnow
<1>6. Head(pending).node \in Node /\ Head(pending).depth \in Nat  BY <1>4 DEF SomeVisit
<1>7. /\ Grown(r, entered)
      /\ Head(pending).node = r \/ EntryIn(Head(pending).node, entered)
  BY <1>4, <1>5 DEF WalkKnows
<1>8. Head(pending).node \in Under[r]  BY <1>6, <1>7, WalkStaysInside
<1> QED  BY <1>2, <1>4, <1>5, <1>6, <1>8

\* The walk goes on.
LEMMA WalkGoesOn ==
  ASSUME FilesInv, fstep = "walk", NEW r \in Node, WorkspaceRoot(fcall) = {r},
         fstep' = fstep, freply' = freply,
         UNCHANGED <<fcall, left, depth, subdir, used, spentAll, share, opened>>,
         pending' \in Seq(SomeVisit), got' \subseteq Node, cut' \subseteq Node,
         entered' \subseteq entered \cup Under[r],
         IsFiniteSet(got'), Cardinality(got') < fcall.limit,
         WalkKnows(r, fcall, Range(pending'), got', cut', entered')
  PROVE  FilesInv'
<1>1. FilesShape /\ InsideRoot /\ WithinBudgets  BY DEF FilesInv
<1>2. fcall \in FileCalls /\ freply = NoReply /\ freply.kind = "none"
  BY AtWork DEF Working
<1>3. FilesShape'
  <2>1. entered' \subseteq Node  BY <1>1, UnderIsNodes DEF FilesShape, WalksTyped
  <2>2. WalksTyped'  BY <1>1, <2>1 DEF FilesShape, WalksTyped
  <2> QED  BY <1>1, <1>2, <2>2 DEF FilesShape, Working
<1>4. InsideRoot'  BY <1>1 DEF InsideRoot
<1>5. WithinBudgets'  BY <1>1 DEF WithinBudgets
<1>6. FilesKnow'  BY DEF FilesKnow
<1>7. (NothingToTell => WhatIsTold)'  BY NothingTold, PTL
<1>8. WhatIsTold'  BY <1>2, <1>5, <1>7 DEF NothingToTell
<1> QED  BY <1>3, <1>4, <1>5, <1>6, <1>8 DEF FilesInv, WhatIsTold

\* It ends with a reply; at the limit, or with nothing left to visit.
LEMMA WalkEnds ==
  ASSUME FilesInv, fstep = "walk", NEW r \in Node, WorkspaceRoot(fcall) = {r}, IsDir(r),
         NEW truncated \in BOOLEAN, FilesFound(truncated),
         UNCHANGED <<fcall, left, depth, subdir, used, spentAll, share, opened, entered>>,
         pending' \in Seq(SomeVisit), got' \subseteq Node, cut' \subseteq Node,
         WalkKnows(r, fcall, Range(pending'), got', cut', entered'),
         IF truncated THEN Cardinality(got') = fcall.limit ELSE Range(pending') = {}
  PROVE  FilesInv'
<1>1. FilesShape /\ InsideRoot /\ WithinBudgets  BY DEF FilesInv
<1>2. fcall \in FileCalls  BY AtWork DEF Working
<1>3. /\ fstep' = "answered" /\ freply'.kind = "files" /\ freply'.files = got'
      /\ freply'.truncated = truncated /\ freply'.unreadable = cut'
  BY DEF FilesFound, Replies
<1>4. FilesShape'
  <2>1. WalksTyped'  BY <1>1, <1>3 DEF FilesShape, WalksTyped
  <2> QED  BY <1>2, <1>3, <2>1 DEF FilesShape, Working
<1>5. InsideRoot'  BY <1>1 DEF InsideRoot
<1>6. fcall.tool = "find_files"  BY <1>1 DEF FilesShape
<1>7. WithinBudgets'  BY <1>3, <1>6 DEF WithinBudgets
<1>8. FilesKnow'  BY <1>3 DEF FilesKnow
<1>9. /\ got' \subseteq WalkAsked(r, fcall)
      /\ Range(pending') = {} => got' = WalkAsked(r, fcall) /\ cut' = WalkUnread(r, fcall)
  <2>1. entered' \subseteq Node  BY <1>1 DEF FilesShape, WalksTyped
  <2> QED  BY <1>2, <2>1, WalkTells
<1>10. WalkComplete'
  <2>1. WorkspaceRoot(fcall') = {r}  OBVIOUS
  <2>2. WalkSays'
    <3>1. CASE truncated  BY <1>3, <1>9, <2>1, <3>1 DEF WalkSays
    <3>2. CASE ~truncated  BY <1>3, <1>9, <2>1, <3>2 DEF WalkSays
    <3> QED  BY <3>1, <3>2
  <2>3. (WalkSays => WalkComplete)'  BY WalkSaysAll, PTL
  <2> QED  BY <2>2, <2>3
<1>11. OverviewComplete' /\ ScanComplete' /\ SliceHonest'
  BY <1>3, <1>6 DEF OverviewComplete, ScanComplete, SliceHonest
<1> QED  BY <1>4, <1>5, <1>7, <1>8, <1>10, <1>11 DEF FilesInv

LEMMA WalkEntryKeepsFiles ==
  ASSUME FilesInv, WalkEntry
  PROVE  FilesInv'
<1> DEFINE v == Head(pending)
           V == Range(Tail(pending))
<1>1. FilesShape /\ WithinBudgets /\ fstep = "walk"
      /\ UNCHANGED <<fcall, left, depth, subdir, used, spentAll, share, opened>>
  BY DEF FilesInv, WalkEntry
<1>2. PICK r \in Node :
        /\ WorkspaceRoot(fcall) = {r} /\ IsDir(r)
        /\ WalkKnows(r, fcall, {v} \cup V, got, cut, entered)
        /\ v \in SomeVisit /\ v.node \in Node /\ v.node \in Under[r]
        /\ v.depth \in Nat /\ Tail(pending) \in Seq(SomeVisit)
  BY WalkTakesVisit
<1>3. /\ fcall.depth \in Nat /\ fcall.limit \in Nat \ {0}
      /\ IsFiniteSet(got) /\ Cardinality(got) < fcall.limit
      /\ got \subseteq Node /\ cut \subseteq Node
  BY <1>1, AtWork DEF WithinBudgets, Working, FilesShape, WalksTyped
<1> DEFINE collected == ~IsDir(v.node) /\ Kind(v.node) # "gone"
                          /\ WildcardMatch(Tree[v.node].name, fcall.pattern)
<1>4. CASE /\ IsDir(v.node) /\ v.depth > fcall.depth /\ pending' = Tail(pending)
           /\ UNCHANGED <<fstep, got, entered, cut, freply>>
  <2>1. WalkKnows(r, fcall, V, got, cut, entered)  BY <1>2, <1>3, <1>4, WalkTooDeep
  <2> QED  BY <1>1, <1>2, <1>3, <1>4, <2>1, WalkGoesOn
<1>5. CASE /\ Kind(v.node) = "unreadable" /\ v.depth <= fcall.depth
           /\ pending' = Tail(pending) /\ cut' = cut \cup {v.node}
           /\ UNCHANGED <<fstep, got, entered, freply>>
  <2>1. WalkKnows(r, fcall, V, got, cut \cup {v.node}, entered)
    BY <1>2, <1>3, <1>5, WalkMeetsShut
  <2>2. cut' \subseteq Node  BY <1>2, <1>3, <1>5
  <2> QED  BY <1>1, <1>2, <1>3, <1>5, <2>1, <2>2, WalkGoesOn
<1>6. CASE /\ Readable(v.node) /\ v.depth <= fcall.depth
           /\ pending' = Visits(v.node, v.depth + 1) \o Tail(pending)
           /\ entered' = entered \cup {v.node}
           /\ UNCHANGED <<fstep, got, cut, freply>>
  <2>1. WalkKnows(r, fcall, {Visit(k, v.depth + 1) : k \in Kids(v.node)} \cup V, got, cut,
                  entered \cup {v.node})
    BY <1>2, <1>3, <1>6, WalkGoesDown
  <2>2. v.node \in Node /\ v.depth + 1 \in Nat /\ Tail(pending) \in Seq(SomeVisit)
        /\ pending' = Visits(v.node, v.depth + 1) \o Tail(pending)
    BY <1>2, <1>6
  <2>3. /\ pending' \in Seq(SomeVisit)
        /\ Range(pending') = {Visit(k, v.depth + 1) : k \in Kids(v.node)} \cup V
    BY <2>2, VisitsAreFirst
  <2>4. entered' \subseteq entered \cup Under[r]  BY <1>2, <1>6
  <2>5. WalkKnows(r, fcall, Range(pending'), got', cut', entered')
    BY <1>6, <2>1, <2>3
  <2> HIDE DEF v
  <2> QED  BY <1>1, <1>2, <1>3, <1>6, <2>3, <2>4, <2>5, WalkGoesOn
<1>7. CASE /\ ~IsDir(v.node) /\ ~collected /\ pending' = Tail(pending)
           /\ UNCHANGED <<fstep, got, entered, cut, freply>>
  <2>1. WalkDealt(r, fcall, v.node, got, cut, entered)  BY <1>7 DEF WalkDealt
  <2>2. WalkKnows(r, fcall, V, got, cut, entered)  BY <1>2, <2>1, WalkPasses
  <2> QED  BY <1>1, <1>2, <1>3, <1>7, <2>2, WalkGoesOn
<1>8. CASE /\ collected /\ pending' = Tail(pending) /\ got' = got \cup {v.node}
           /\ UNCHANGED <<entered, cut>>
           /\ IF Cardinality(got') >= fcall.limit THEN FilesFound(TRUE)
              ELSE UNCHANGED <<fstep, freply>>
  <2>1. WalkKnows(r, fcall, V, got \cup {v.node}, cut, entered)
    BY <1>2, <1>8, WalkCollects
  <2>2. got' \subseteq Node /\ cut' \subseteq Node  BY <1>2, <1>3, <1>8
  <2>3. /\ IsFiniteSet(got') /\ Cardinality(got') \in Nat
        /\ Cardinality(got') >= fcall.limit => Cardinality(got') = fcall.limit
    BY <1>3, <1>8, OneMoreNode
  <2>4. WalkKnows(r, fcall, Range(pending'), got', cut', entered')  BY <1>8, <2>1
  <2>5. CASE Cardinality(got') >= fcall.limit
    <3>1. FilesFound(TRUE) /\ Cardinality(got') = fcall.limit  BY <1>8, <2>3, <2>5
    <3>2. UNCHANGED entered /\ pending' \in Seq(SomeVisit)  BY <1>2, <1>8
    <3> QED  BY <1>1, <1>2, <2>2, <2>4, <3>1, <3>2, WalkEnds
  <2>6. CASE ~(Cardinality(got') >= fcall.limit)
    <3>1. Cardinality(got') < fcall.limit  BY <1>3, <2>3, <2>6
    <3>2. fstep' = fstep /\ freply' = freply /\ entered' = entered
          /\ pending' \in Seq(SomeVisit)
      BY <1>2, <1>8, <2>6
    <3> QED  BY <1>1, <1>2, <2>2, <2>3, <2>4, <3>1, <3>2, WalkGoesOn
  <2> QED  BY <2>5, <2>6
<1> QED  BY <1>4, <1>5, <1>6, <1>7, <1>8 DEF WalkEntry

LEMMA WalkDoneKeepsFiles ==
  ASSUME FilesInv, WalkDone
  PROVE  FilesInv'
<1>1. FilesShape /\ FilesKnow /\ fstep = "walk" /\ pending = <<>> /\ pending' = pending
      /\ got' = got /\ cut' = cut /\ FilesFound(FALSE)
      /\ UNCHANGED <<fcall, left, depth, subdir, used, spentAll, share, opened, entered>>
  BY DEF FilesInv, WalkDone
<1>2. PICK r \in Node : WorkspaceRoot(fcall) = {r} /\ IsDir(r)
  BY <1>1, AtWork DEF Working
<1>3. Range(pending') = {}  BY <1>1, RangeOfNone
<1>4. WalkKnows(r, fcall, Range(pending'), got', cut', entered')
  BY <1>1, <1>2 DEF FilesKnow
<1>5. pending' \in Seq(SomeVisit) /\ got' \subseteq Node /\ cut' \subseteq Node
  BY <1>1 DEF FilesShape, WalksTyped
<1> QED  BY <1>1, <1>2, <1>3, <1>4, <1>5, WalkEnds

LEMMA StartOverviewKeepsFiles ==
  ASSUME FilesInv, StartOverview
  PROVE  FilesInv'
<1>1. FilesShape /\ WithinBudgets  BY DEF FilesInv
<1>2. PICK r \in WorkspaceRoot(fcall) :
        /\ left' = IF Readable(r) THEN {k \in Kids(r) : Kind(k) # "gone"} ELSE {}
        /\ entered' = {m \in {r} : Readable(m)}
  BY DEF StartOverview
<1>3. r \in Node /\ WorkspaceRoot(fcall) = {r}  BY RootIsDir, <1>2
<1>4. /\ fcall \in FileCalls /\ fcall' = fcall /\ pending' = <<>> /\ got' = {} /\ cut' = {}
      /\ opened' = {} /\ used' = 0 /\ spentAll' = 0 /\ freply' = NoReply /\ freply' = freply
      /\ subdir' = subdir /\ depth' = depth /\ fstep' = "child"
      /\ fcall.tool = "directory_overview" /\ pending' = pending
  BY <1>1 DEF FilesShape, StartOverview
<1>5. left' \subseteq Node /\ entered' \subseteq Under[r] /\ entered' \subseteq Node
  <2>1. Kids(r) \subseteq Node  BY <1>3, KidsAreNodes
  <2>2. r \in Under[r]  BY <1>3, UnderItself
  <2> QED  BY <1>2, <1>3, <2>1, <2>2
<1>6. share' \in Nat
  <2> DEFINE many == IF left' = {} THEN 1 ELSE Cardinality(left')
             each == MaxDirWalkEntries \div many
  <2>1. many \in Nat \ {0}
    <3>1. IsFiniteSet(left')  BY <1>5, TreeAssumption, FS_Subset
    <3>2. Cardinality(left') \in Nat /\ (Cardinality(left') = 0 <=> left' = {})
      BY <3>1, FS_CardinalityType, FS_EmptySet
    <3> QED  BY <3>2
  <2>2. share' = IF each > LeastShare THEN each ELSE LeastShare  BY DEF StartOverview
  <2> HIDE DEF many
  <2>3. each \in Nat  BY <2>1, BudgetsAssumption
  <2> HIDE DEF each
  <2> QED  BY <2>2, <2>3, BudgetsAssumption
<1>7. FilesShape'
  <2>1. WalksTyped'  BY <1>1, <1>4, <1>5, <1>6 DEF FilesShape, WalksTyped
  <2> QED  BY <1>3, <1>4, <2>1 DEF FilesShape, Working
<1>8. InsideRoot'  BY <1>3, <1>4, <1>5 DEF InsideRoot
<1>9. WithinBudgets'  BY <1>4, <1>6 DEF WithinBudgets
<1>10. FilesKnow'
  <2>1. OverviewKnows(r, {}, left', {}, {}, entered')
    <3>1. OverviewKnows(r, {}, IF Readable(r) THEN {k \in Kids(r) : Kind(k) # "gone"} ELSE {},
                        {}, {}, {m \in {r} : Readable(m)})
      BY <1>3, OverviewBegins
    <3> QED  BY <1>2, <3>1
  <2> QED  BY <1>3, <1>4, <2>1, RangeOfNone DEF FilesKnow
<1>11. (NothingToTell => WhatIsTold)'  BY NothingTold, PTL
<1>12. WhatIsTold'
  <2>1. freply'.kind = "none"  BY <1>4 DEF NoReply
  <2> QED  BY <1>9, <1>11, <2>1 DEF NothingToTell
<1> QED  BY <1>7, <1>8, <1>9, <1>10, <1>12 DEF FilesInv, WhatIsTold

\* The overview goes on.
LEMMA OverviewGoesOn ==
  ASSUME FilesInv, fstep \in {"child", "measure"}, fstep' \in {"child", "measure"},
         NEW r \in Node, WorkspaceRoot(fcall) = {r}, freply' = freply,
         UNCHANGED <<fcall, depth, share, opened>>, pending' \in Seq(SomeVisit),
         left' \subseteq left, got' \subseteq Node, cut' \subseteq Node, subdir' \in Node,
         used' \in Nat, spentAll' \in Nat, spentAll' + used' <= share,
         entered' \subseteq entered \cup Under[r],
         fstep' = "child" => pending' = <<>> /\ used' = 0,
         OverviewKnows(r, Range(pending'), left', got', cut', entered')
  PROVE  FilesInv'
<1>1. FilesShape /\ InsideRoot /\ WithinBudgets  BY DEF FilesInv
<1>2. fcall \in FileCalls /\ freply = NoReply /\ freply.kind = "none"
  BY AtWork DEF Working
<1>3. fcall.tool = "directory_overview"  BY <1>1 DEF FilesShape
<1>4. FilesShape'
  <2>1. entered' \subseteq Node  BY <1>1, UnderIsNodes DEF FilesShape, WalksTyped
  <2>2. WalksTyped'  BY <1>1, <2>1 DEF FilesShape, WalksTyped
  <2> QED  BY <1>1, <1>2, <1>3, <2>2 DEF FilesShape, Working
<1>5. InsideRoot'  BY <1>1 DEF InsideRoot
<1>6. WithinBudgets'  BY <1>3 DEF WithinBudgets
<1>7. FilesKnow'  BY DEF FilesKnow
<1>8. (NothingToTell => WhatIsTold)'  BY NothingTold, PTL
<1>9. WhatIsTold'  BY <1>2, <1>6, <1>8 DEF NothingToTell
<1> QED  BY <1>4, <1>5, <1>6, <1>7, <1>9 DEF FilesInv, WhatIsTold

\* What holds while an overview is made.
LEMMA OverviewAtWork ==
  ASSUME FilesInv, fstep \in {"child", "measure"}
  PROVE  /\ spentAll + used <= share /\ used \in Nat /\ spentAll \in Nat /\ share \in Nat
         /\ left \subseteq Node /\ got \subseteq Node /\ cut \subseteq Node
         /\ entered \subseteq Node /\ subdir \in Node /\ pending \in Seq(SomeVisit)
         /\ fstep = "child" => pending = <<>> /\ used = 0
         /\ \E r \in Node : /\ WorkspaceRoot(fcall) = {r}
                            /\ OverviewKnows(r, Range(pending), left, got, cut, entered)
<1>1. FilesShape /\ WalksTyped /\ WithinBudgets /\ FilesKnow
  BY DEF FilesInv, FilesShape
<1>2. fcall.tool = "directory_overview"  BY <1>1 DEF FilesShape
<1>3. PICK r \in Node : WorkspaceRoot(fcall) = {r}  BY AtWork DEF Working
<1>4. OverviewKnows(r, Range(pending), left, got, cut, entered)
  BY <1>1, <1>3 DEF FilesKnow
<1>5. fstep = "child" => pending = <<>> /\ used = 0  BY <1>1 DEF FilesShape
<1> QED  BY <1>1, <1>2, <1>3, <1>4, <1>5 DEF WalksTyped, WithinBudgets

LEMMA NextChildKeepsFiles ==
  ASSUME FilesInv, NextChild
  PROVE  FilesInv'
<1>1. fstep = "child" /\ UNCHANGED <<fcall, depth, used, spentAll, share, entered, opened,
                                     cut, freply>>
  BY DEF NextChild
<1>2. PICK r \in Node : /\ WorkspaceRoot(fcall) = {r}
                        /\ OverviewKnows(r, Range(pending), left, got, cut, entered)
  BY <1>1, OverviewAtWork
<1>3. /\ spentAll + used <= share /\ used \in Nat /\ spentAll \in Nat /\ left \subseteq Node
      /\ got \subseteq Node /\ cut \subseteq Node /\ subdir \in Node /\ pending = <<>>
      /\ used = 0
  BY <1>1, OverviewAtWork
<1>4. OverviewKnows(r, {}, left, got, cut, entered)  BY <1>2, <1>3, RangeOfNone
<1>5. PICK k \in left :
        /\ left' = left \ {k}
        /\ IF IsDir(k)
           THEN /\ pending' = <<Visit(k, 0)>> /\ subdir' = k /\ fstep' = "measure"
                /\ UNCHANGED got
           ELSE got' = got \cup {k} /\ UNCHANGED <<pending, subdir, fstep>>
  BY DEF NextChild
<1>6. k \in Node  BY <1>3
<1>7. CASE IsDir(k)
  <2>1. OverviewKnows(r, {Visit(k, 0)}, left \ {k}, got, cut, entered)
    BY <1>4, OverviewTakesDirectory
  <2>2. Range(pending') = {Visit(k, 0)}  BY <1>5, <1>7, RangeOfNone
  <2>3. pending' \in Seq(SomeVisit)
    <3>1. Visit(k, 0) \in SomeVisit  BY <1>6 DEF Visit, SomeVisit
    <3>2. pending' = <<Visit(k, 0)>>  BY <1>5, <1>7
    <3> QED  BY <3>1, <3>2
  <2>4. OverviewKnows(r, Range(pending'), left', got', cut', entered')
    BY <1>1, <1>5, <1>7, <2>1, <2>2
  <2>5. fstep' = "measure" /\ subdir' = k /\ got' = got /\ left' \subseteq left
    BY <1>5, <1>7
  <2> QED  BY <1>1, <1>2, <1>3, <1>6, <2>3, <2>4, <2>5, OverviewGoesOn
<1>8. CASE ~IsDir(k)
  <2>1. OverviewKnows(r, {}, left \ {k}, got \cup {k}, cut, entered)
    BY <1>4, <1>8, OverviewTakesFile
  <2>2. OverviewKnows(r, Range(pending'), left', got', cut', entered')
    BY <1>1, <1>3, <1>5, <1>8, <2>1, RangeOfNone
  <2>3. fstep' = "child" /\ subdir' = subdir /\ got' \subseteq Node /\ left' \subseteq left
        /\ pending' = <<>> /\ pending' \in Seq(SomeVisit)
    BY <1>1, <1>3, <1>5, <1>6, <1>8
  <2> QED  BY <1>1, <1>2, <1>3, <2>2, <2>3, OverviewGoesOn
<1> QED  BY <1>7, <1>8

LEMMA MeasureEntryKeepsFiles ==
  ASSUME FilesInv, MeasureEntry
  PROVE  FilesInv'
<1> DEFINE v == Head(pending)
           V == Range(Tail(pending))
<1>1. fstep = "measure" /\ fstep' = "measure" /\ pending # <<>> /\ used < ChildBudget
      /\ UNCHANGED <<fcall, left, depth, subdir, spentAll, share, opened, freply>>
  BY DEF MeasureEntry
<1>2. PICK r \in Node : /\ WorkspaceRoot(fcall) = {r}
                        /\ OverviewKnows(r, Range(pending), left, got, cut, entered)
  BY <1>1, OverviewAtWork
<1>3. /\ spentAll + used <= share /\ used \in Nat /\ spentAll \in Nat /\ share \in Nat
      /\ got \subseteq Node /\ cut \subseteq Node /\ entered \subseteq Node
      /\ subdir \in Node /\ pending \in Seq(SomeVisit)
  BY <1>1, OverviewAtWork
<1>4. spentAll + (used + 1) <= share /\ used + 1 \in Nat
  BY <1>1, <1>3 DEF ChildBudget
<1>5. /\ Range(pending) = {v} \cup V /\ v \in SomeVisit /\ Tail(pending) \in Seq(SomeVisit)
  BY <1>1, <1>3, RangeIsSplit
<1>6. v.node \in Node  BY <1>5 DEF SomeVisit
<1>7. OverviewKnows(r, {v} \cup V, left, got, cut, entered)  BY <1>2, <1>5
<1>8. v.node \in Under[r]  BY <1>7 DEF OverviewKnows
<1>9. left' \subseteq left /\ subdir' \in Node /\ fstep' \in {"child", "measure"}
      /\ fstep' # "child"
  BY <1>1, <1>3
<1>10. CASE /\ Readable(v.node) /\ pending' = Visits(v.node, 0) \o Tail(pending)
            /\ entered' = entered \cup {v.node} /\ used' = used + 1
            /\ got' = got \cup {v.node} /\ UNCHANGED cut
  <2>1. OverviewKnows(r, {Visit(k, 0) : k \in Kids(v.node)} \cup V, left, got \cup {v.node},
                      cut, entered \cup {v.node})
    BY <1>7, <1>10, OverviewGoesDown
  <2>2. /\ pending' \in Seq(SomeVisit)
        /\ Range(pending') = {Visit(k, 0) : k \in Kids(v.node)} \cup V
    BY <1>5, <1>6, <1>10, VisitsAreFirst
  <2>3. OverviewKnows(r, Range(pending'), left', got', cut', entered')
    BY <1>1, <1>10, <2>1, <2>2
  <2>4. /\ got' \subseteq Node /\ cut' \subseteq Node /\ used' \in Nat /\ spentAll' \in Nat
        /\ spentAll' + used' <= share /\ entered' \subseteq entered \cup Under[r]
    BY <1>1, <1>3, <1>4, <1>6, <1>8, <1>10
  <2> HIDE DEF v
  <2> QED  BY <1>1, <1>2, <1>9, <2>2, <2>3, <2>4, OverviewGoesOn
<1>11. CASE /\ Kind(v.node) = "unreadable" /\ cut' = cut \cup {subdir}
            /\ pending' = Tail(pending) /\ UNCHANGED <<entered, used, got>>
  <2>1. OverviewKnows(r, V, left, got, cut \cup {subdir}, entered)
    <3>1. V \subseteq {v} \cup V  OBVIOUS
    <3> HIDE DEF v, V
    <3> QED  BY <1>7, <3>1, OverviewCuts
  <2>2. OverviewKnows(r, Range(pending'), left', got', cut', entered')
    BY <1>1, <1>11, <2>1
  <2>3. /\ got' \subseteq Node /\ cut' \subseteq Node /\ used' \in Nat /\ spentAll' \in Nat
        /\ spentAll' + used' <= share /\ entered' \subseteq entered \cup Under[r]
        /\ pending' \in Seq(SomeVisit)
    BY <1>1, <1>3, <1>5, <1>11
  <2> HIDE DEF v
  <2> QED  BY <1>1, <1>2, <1>9, <2>2, <2>3, OverviewGoesOn
<1>12. CASE /\ Kind(v.node) = "gone" /\ pending' = Tail(pending)
            /\ UNCHANGED <<entered, used, got, cut>>
  <2>1. OverviewKnows(r, V, left, got, cut, entered)  BY <1>7, <1>12, OverviewPasses
  <2>2. OverviewKnows(r, Range(pending'), left', got', cut', entered')
    BY <1>1, <1>12, <2>1
  <2>3. /\ got' \subseteq Node /\ cut' \subseteq Node /\ used' \in Nat /\ spentAll' \in Nat
        /\ spentAll' + used' <= share /\ entered' \subseteq entered \cup Under[r]
        /\ pending' \in Seq(SomeVisit)
    BY <1>1, <1>3, <1>5, <1>12
  <2> HIDE DEF v
  <2> QED  BY <1>1, <1>2, <1>9, <2>2, <2>3, OverviewGoesOn
<1>13. CASE /\ (IsFile(v.node) \/ Kind(v.node) = "link") /\ pending' = Tail(pending)
            /\ used' = used + 1 /\ got' = got \cup {v.node} /\ UNCHANGED <<entered, cut>>
  <2>1. ~IsDir(v.node) /\ Kind(v.node) # "gone"
    BY <1>13 DEF IsFile, IsDir, Readable, Skipped
  <2>2. OverviewKnows(r, V, left, got \cup {v.node}, cut, entered)
    BY <1>7, <2>1, OverviewMeasures
  <2>3. OverviewKnows(r, Range(pending'), left', got', cut', entered')
    BY <1>1, <1>13, <2>2
  <2>4. /\ got' \subseteq Node /\ cut' \subseteq Node /\ used' \in Nat /\ spentAll' \in Nat
        /\ spentAll' + used' <= share /\ entered' \subseteq entered \cup Under[r]
        /\ pending' \in Seq(SomeVisit)
    BY <1>1, <1>3, <1>4, <1>5, <1>6, <1>13
  <2> HIDE DEF v
  <2> QED  BY <1>1, <1>2, <1>9, <2>3, <2>4, OverviewGoesOn
<1> QED  BY <1>10, <1>11, <1>12, <1>13 DEF MeasureEntry

LEMMA ChildMeasuredKeepsFiles ==
  ASSUME FilesInv, ChildMeasured
  PROVE  FilesInv'
<1>1. /\ fstep = "measure" /\ fstep' = "child" /\ pending' = <<>> /\ used' = 0
      /\ spentAll' = spentAll + used /\ subdir' = DriveRoot
      /\ UNCHANGED <<fcall, left, depth, share, got, entered, opened, freply>>
  BY DEF ChildMeasured
<1>2. PICK r \in Node : /\ WorkspaceRoot(fcall) = {r}
                        /\ OverviewKnows(r, Range(pending), left, got, cut, entered)
  BY <1>1, OverviewAtWork
<1>3. /\ spentAll + used <= share /\ used \in Nat /\ spentAll \in Nat /\ share \in Nat
      /\ got \subseteq Node /\ cut \subseteq Node /\ entered \subseteq Node
      /\ subdir \in Node /\ pending \in Seq(SomeVisit)
  BY <1>1, OverviewAtWork
<1>4. OverviewKnows(r, {}, left, got, cut', entered) /\ cut' \subseteq Node
  <2>1. CASE pending = <<>> /\ cut' = cut  BY <1>2, <1>3, <2>1, RangeOfNone
  <2>2. CASE cut' = cut \cup {subdir}
    <3>1. OverviewKnows(r, {}, left, got, cut \cup {subdir}, entered)
      BY <1>2, OverviewCuts
    <3> QED  BY <1>3, <2>2, <3>1
  <2> QED  BY <2>1, <2>2 DEF ChildMeasured
<1>5. Range(pending') = {} /\ pending' \in Seq(SomeVisit)  BY <1>1, RangeOfNone
<1>6. OverviewKnows(r, Range(pending'), left', got', cut', entered')
  BY <1>1, <1>4, <1>5
<1>7. /\ used' \in Nat /\ spentAll' \in Nat /\ spentAll' + used' <= share
      /\ subdir' \in Node /\ entered' \subseteq entered \cup Under[r]
      /\ got' \subseteq Node /\ left' \subseteq left /\ fstep' \in {"child", "measure"}
  BY <1>1, <1>3, TreeAssumption
<1> QED  BY <1>1, <1>2, <1>4, <1>5, <1>6, <1>7, OverviewGoesOn

LEMMA OverviewDoneKeepsFiles ==
  ASSUME FilesInv, OverviewDone
  PROVE  FilesInv'
<1>1. /\ fstep = "child" /\ left = {} /\ fstep' = "answered"
      /\ UNCHANGED <<fcall, pending, left, depth, subdir, used, spentAll, share, got, entered,
                     opened, cut>>
  BY DEF OverviewDone, Replies
<1>2. FilesShape /\ InsideRoot /\ WithinBudgets /\ fcall.tool = "directory_overview"
      /\ fcall \in FileCalls
  BY <1>1 DEF FilesInv, FilesShape
<1>3. PICK r \in Node : /\ WorkspaceRoot(fcall) = {r}
                        /\ OverviewKnows(r, Range(pending), left, got, cut, entered)
  BY <1>1, OverviewAtWork
<1>4. pending = <<>>  BY <1>1, OverviewAtWork
<1>5. /\ freply'.kind = "overview" /\ freply'.measured = got
      /\ ~freply'.truncated => cut = {}
  BY DEF OverviewDone, Replies
<1>6. FilesShape'
  <2>1. WalksTyped'  BY <1>1, <1>2, <1>5 DEF FilesShape, WalksTyped
  <2> QED  BY <1>1, <1>2, <2>1 DEF FilesShape, Working
<1>7. InsideRoot' /\ FilesKnow' /\ WithinBudgets'
  BY <1>1, <1>2 DEF InsideRoot, FilesKnow, WithinBudgets
<1>8. OverviewComplete'
  <2>1. (spentAll + used <= share)'  BY <1>1, <1>2 DEF WithinBudgets
  <2>2. ASSUME ~freply'.truncated, NEW m \in (WorkspaceRoot(fcall) \cap entered)'
        PROVE  freply'.measured = {n \in Under[m] \ {m} : Kind(n) # "gone"}
    <3>1. m = r /\ r \in entered  BY <1>1, <1>3, <2>2
    <3>2. OverviewKnows(r, {}, {}, got, {}, entered)
      BY <1>1, <1>3, <1>4, <1>5, <2>2, RangeOfNone
    <3>3. got = {n \in Under[r] \ {r} : Kind(n) # "gone"}
      BY <3>1, <3>2, OverviewMeasuredAll
    <3> QED  BY <1>5, <3>1, <3>3
  <2> QED  BY <2>1, <2>2 DEF OverviewComplete
<1>9. WalkComplete' /\ ScanComplete' /\ SliceHonest'
  BY <1>1, <1>2, <1>5 DEF WalkComplete, ScanComplete, SliceHonest
<1> QED  BY <1>6, <1>7, <1>8, <1>9 DEF FilesInv

\* The scan goes on.
LEMMA ScanGoesOn ==
  ASSUME FilesInv, fstep \in {"pop", "scan"}, fstep' \in {"pop", "scan"},
         NEW r \in Node, WorkspaceRoot(fcall) = {r},
         UNCHANGED <<fcall, subdir, spentAll, share, freply>>,
         pending' \in Seq(SomeVisit), left' \subseteq Node, got' \subseteq Node,
         cut' \subseteq Node, depth' \in Nat, used' \in Nat, used' <= fcall.limit,
         entered' \subseteq entered \cup Under[r],
         opened' \subseteq opened \cup {m \in Under[r] : Kind(m) = "manifest"},
         fstep' = "pop" => left' = {},
         ScanKnows(r, Range(pending'), left', got', cut', entered')
  PROVE  FilesInv'
<1>1. FilesShape /\ InsideRoot /\ WithinBudgets  BY DEF FilesInv
<1>2. fcall \in FileCalls /\ freply = NoReply /\ freply.kind = "none"
  BY AtWork DEF Working
<1>3. fcall.tool = "workspace_scan" /\ opened \subseteq {n \in Node : Kind(n) = "manifest"}
  BY <1>1 DEF FilesShape, Working
<1>4. opened' \subseteq {n \in Node : Kind(n) = "manifest"}  BY <1>3, UnderIsNodes
<1>5. FilesShape'
  <2>1. entered' \subseteq Node  BY <1>1, UnderIsNodes DEF FilesShape, WalksTyped
  <2>2. opened' \subseteq Node  BY <1>4
  <2>3. WalksTyped'  BY <1>1, <2>1, <2>2 DEF FilesShape, WalksTyped
  <2> QED  BY <1>1, <1>2, <1>3, <1>4, <2>3 DEF FilesShape, Working
<1>6. InsideRoot'  BY <1>1 DEF InsideRoot
<1>7. WithinBudgets'  BY <1>3, <1>4 DEF WithinBudgets
<1>8. FilesKnow'  BY DEF FilesKnow
<1>9. (NothingToTell => WhatIsTold)'  BY NothingTold, PTL
<1>10. WhatIsTold'  BY <1>2, <1>7, <1>9 DEF NothingToTell
<1> QED  BY <1>5, <1>6, <1>7, <1>8, <1>10 DEF FilesInv, WhatIsTold

\* What holds while a workspace is scanned.
LEMMA ScanAtWork ==
  ASSUME FilesInv, fstep \in {"pop", "scan"}
  PROVE  /\ used \in Nat /\ depth \in Nat /\ left \subseteq Node /\ got \subseteq Node
         /\ cut \subseteq Node /\ entered \subseteq Node /\ pending \in Seq(SomeVisit)
         /\ used <= fcall.limit /\ fcall.limit \in Nat
         /\ fstep = "pop" => left = {}
         /\ \E r \in Node : /\ WorkspaceRoot(fcall) = {r}
                            /\ ScanKnows(r, Range(pending), left, got, cut, entered)
<1>1. FilesShape /\ WalksTyped /\ WithinBudgets /\ FilesKnow
  BY DEF FilesInv, FilesShape
<1>2. fcall.tool = "workspace_scan" /\ (fstep = "pop" => left = {})  BY <1>1 DEF FilesShape
<1>3. PICK r \in Node : WorkspaceRoot(fcall) = {r}  BY AtWork DEF Working
<1>4. ScanKnows(r, Range(pending), left, got, cut, entered)
  BY <1>1, <1>3 DEF FilesKnow
<1>5. fcall.limit \in Nat  BY AtWork DEF Working
<1> QED  BY <1>1, <1>2, <1>3, <1>4, <1>5 DEF WalksTyped, WithinBudgets

LEMMA ScanNextDirKeepsFiles ==
  ASSUME FilesInv, ScanNextDir
  PROVE  FilesInv'
<1> DEFINE v == Head(pending)
           V == Range(Tail(pending))
<1>1. fstep = "pop" /\ pending # <<>>
      /\ UNCHANGED <<fcall, subdir, used, spentAll, share, got, opened, freply>>
  BY DEF ScanNextDir
<1>2. PICK r \in Node : /\ WorkspaceRoot(fcall) = {r}
                        /\ ScanKnows(r, Range(pending), left, got, cut, entered)
  BY <1>1, ScanAtWork
<1>3. /\ used \in Nat /\ depth \in Nat /\ left = {} /\ got \subseteq Node
      /\ cut \subseteq Node /\ entered \subseteq Node /\ pending \in Seq(SomeVisit)
      /\ used <= fcall.limit
  BY <1>1, ScanAtWork
<1>4. Range(pending) = {v} \cup V /\ v \in SomeVisit /\ Tail(pending) \in Seq(SomeVisit)
  BY <1>1, <1>3, RangeIsSplit
<1>5. v.node \in Node /\ v.depth \in Nat  BY <1>4 DEF SomeVisit
<1>6. ScanKnows(r, {v} \cup V, {}, got, cut, entered)  BY <1>2, <1>3, <1>4
<1>7. /\ got' \subseteq Node /\ used' \in Nat /\ used' <= fcall.limit
      /\ opened' \subseteq opened \cup {m \in Under[r] : Kind(m) = "manifest"}
  BY <1>1, <1>3
<1>8. /\ V \subseteq {v} \cup V /\ {} \subseteq {v} \cup V /\ {r} # {}
      /\ Range(<<>>) = {} /\ <<>> \in Seq(SomeVisit)
  BY RangeOfNone
<1> SUFFICES /\ fstep' \in {"pop", "scan"} /\ pending' \in Seq(SomeVisit)
             /\ left' \subseteq Node /\ cut' \subseteq Node /\ depth' \in Nat
             /\ entered' \subseteq entered \cup Under[r] /\ (fstep' = "pop" => left' = {})
             /\ ScanKnows(r, Range(pending'), left', got', cut', entered')
  BY <1>1, <1>2, <1>7, ScanGoesOn
<1>9. CASE /\ v.depth > fcall.depth /\ pending' = Tail(pending) /\ ScanCut
           /\ UNCHANGED <<fstep, left, depth, entered>>
  <2>1. cut' = {r} /\ left' = {} /\ got' = got /\ Range(pending') = V
    BY <1>1, <1>2, <1>3, <1>9 DEF ScanCut
  <2>2. ScanKnows(r, V, {}, got, {r}, entered)
    <3> HIDE DEF v, V
    <3> QED  BY <1>6, <1>8, ScanCuts
  <2>3. ScanKnows(r, Range(pending'), left', got', cut', entered')  BY <1>9, <2>1, <2>2
  <2> QED  BY <1>1, <1>3, <1>4, <1>9, <2>1, <2>3
<1>10. CASE /\ v.depth <= fcall.depth /\ used >= fcall.limit /\ pending' = <<>> /\ ScanCut
            /\ UNCHANGED <<fstep, left, depth, entered>>
  <2>1. cut' = {r} /\ left' = {} /\ got' = got /\ Range(pending') = {}
    BY <1>1, <1>2, <1>3, <1>8, <1>10 DEF ScanCut
  <2>2. ScanKnows(r, {}, {}, got, {r}, entered)
    <3> HIDE DEF v, V
    <3> QED  BY <1>6, <1>8, ScanCuts
  <2>3. ScanKnows(r, Range(pending'), left', got', cut', entered')  BY <1>10, <2>1, <2>2
  <2> QED  BY <1>1, <1>3, <1>8, <1>10, <2>1, <2>3
<1>11. CASE /\ v.depth <= fcall.depth /\ used < fcall.limit /\ pending' = Tail(pending)
            /\ UNCHANGED cut /\ Readable(v.node) /\ left' = Kids(v.node)
            /\ depth' = v.depth /\ entered' = entered \cup {v.node} /\ fstep' = "scan"
  <2>1. ScanKnows(r, V, Kids(v.node), got, cut, entered \cup {v.node})
    BY <1>5, <1>6, <1>11, ScanGoesDown
  <2>2. ScanKnows(r, Range(pending'), left', got', cut', entered')
    BY <1>1, <1>11, <2>1
  <2>3. left' \subseteq Node  BY <1>5, <1>11, KidsAreNodes
  <2>4. v.node \in Under[r]
    <3>1. Grown(r, entered) /\ (v.node = r \/ EntryIn(v.node, entered))
      BY <1>6 DEF ScanKnows
    <3> QED  BY <1>5, <3>1, WalkStaysInside
  <2> QED  BY <1>3, <1>4, <1>5, <1>11, <2>2, <2>3, <2>4
<1>12. CASE /\ v.depth <= fcall.depth /\ used < fcall.limit /\ pending' = Tail(pending)
            /\ UNCHANGED cut /\ ~Readable(v.node)
            /\ UNCHANGED <<fstep, left, depth, entered>>
  <2>1. ScanKnows(r, V, {}, got, cut, entered)
    <3>1. ~Readable(v.node)  BY <1>12
    <3> QED  BY <1>6, <3>1, ScanPasses
  <2>2. ScanKnows(r, Range(pending'), left', got', cut', entered')
    BY <1>1, <1>3, <1>12, <2>1
  <2> QED  BY <1>1, <1>3, <1>4, <1>12, <2>2
<1> QED  BY <1>9, <1>10, <1>11, <1>12 DEF ScanNextDir

LEMMA ScanEntryKeepsFiles ==
  ASSUME FilesInv, ScanEntry
  PROVE  FilesInv'
<1>1. fstep = "scan" /\ fstep' = "scan" /\ used < fcall.limit /\ used' = used + 1
      /\ UNCHANGED <<fcall, depth, subdir, spentAll, share, entered, cut, freply>>
  BY DEF ScanEntry
<1>2. PICK r \in Node : /\ WorkspaceRoot(fcall) = {r}
                        /\ ScanKnows(r, Range(pending), left, got, cut, entered)
  BY <1>1, ScanAtWork
<1>3. /\ used \in Nat /\ depth \in Nat /\ left \subseteq Node /\ got \subseteq Node
      /\ cut \subseteq Node /\ entered \subseteq Node /\ pending \in Seq(SomeVisit)
      /\ fcall.limit \in Nat
  BY <1>1, ScanAtWork
<1>4. PICK k \in left :
        /\ left' = left \ {k} /\ got' = got \cup {k}
        /\ pending' = IF IsDir(k) /\ ~Skipped(k)
                      THEN <<Visit(k, depth + 1)>> \o pending ELSE pending
        /\ opened' = opened \cup {m \in {k} : fcall.manifests /\ Kind(m) = "manifest"}
  BY DEF ScanEntry
<1>5. k \in Node /\ depth + 1 \in Nat /\ used' \in Nat /\ used' <= fcall.limit
  BY <1>1, <1>3, <1>4
<1>6. k \in Under[r]
  <2>1. Grown(r, entered) /\ EntryIn(k, entered)  BY <1>2 DEF ScanKnows
  <2> QED  BY <1>5, <2>1, WalkStaysInside
<1>7. /\ pending' \in Seq(SomeVisit)
      /\ Range(pending') = IF IsDir(k) /\ ~Skipped(k)
                           THEN {Visit(k, depth + 1)} \cup Range(pending)
                           ELSE Range(pending)
  <2>1. CASE IsDir(k) /\ ~Skipped(k)
    <3>1. pending' = <<Visit(k, depth + 1)>> \o pending  BY <1>4, <2>1
    <3>2. Visit(k, depth + 1) \in SomeVisit  BY <1>5 DEF Visit, SomeVisit
    <3>3. <<Visit(k, depth + 1)>> \in Seq(SomeVisit)  BY <3>2
    <3>4. Range(<<Visit(k, depth + 1)>>) = {Visit(k, depth + 1)}  BY RangeOfNone
    <3>5. pending \in Seq(SomeVisit)  BY <1>3
    <3>6. /\ <<Visit(k, depth + 1)>> \o pending \in Seq(SomeVisit)
          /\ Range(<<Visit(k, depth + 1)>> \o pending)
               = Range(<<Visit(k, depth + 1)>>) \cup Range(pending)
      BY <3>3, <3>5, RangeIsJoined, Zenon
    <3> QED  BY <2>1, <3>1, <3>4, <3>6
  <2>2. CASE ~(IsDir(k) /\ ~Skipped(k))
    <3>1. pending' = pending  BY <1>4, <2>2
    <3> QED  BY <1>3, <2>2, <3>1
  <2> QED  BY <2>1, <2>2
<1>8. ScanKnows(r, Range(pending'), left \ {k}, got \cup {k}, cut, entered)
  BY <1>2, <1>7, ScanLooks
<1>9. ScanKnows(r, Range(pending'), left', got', cut', entered')
  BY <1>1, <1>4, <1>8
<1>10. /\ left' \subseteq Node /\ got' \subseteq Node /\ cut' \subseteq Node
       /\ entered' \subseteq entered \cup Under[r] /\ depth' \in Nat
       /\ opened' \subseteq opened \cup {m \in Under[r] : Kind(m) = "manifest"}
  BY <1>1, <1>3, <1>4, <1>5, <1>6
<1>11. /\ fstep \in {"pop", "scan"} /\ fstep' \in {"pop", "scan"}
       /\ (fstep' = "pop" => left' = {})
       /\ UNCHANGED <<fcall, subdir, spentAll, share, freply>>
  BY <1>1
<1> QED  BY <1>2, <1>5, <1>7, <1>9, <1>10, <1>11, ScanGoesOn

LEMMA ScanDirDoneKeepsFiles ==
  ASSUME FilesInv, ScanDirDone
  PROVE  FilesInv'
<1>1. fstep = "scan" /\ fstep' = "pop" /\ left' = {} /\ depth' = 0
      /\ UNCHANGED <<fcall, pending, subdir, used, spentAll, share, got, entered, opened,
                     freply>>
  BY DEF ScanDirDone
<1>2. PICK r \in Node : /\ WorkspaceRoot(fcall) = {r}
                        /\ ScanKnows(r, Range(pending), left, got, cut, entered)
  BY <1>1, ScanAtWork
<1>3. /\ used \in Nat /\ got \subseteq Node /\ cut \subseteq Node /\ entered \subseteq Node
      /\ pending \in Seq(SomeVisit) /\ used <= fcall.limit
  BY <1>1, ScanAtWork
<1>4. ScanKnows(r, Range(pending), {}, got, cut', entered) /\ cut' \subseteq Node
  <2>1. CASE left = {} /\ cut' = cut  BY <1>2, <1>3, <2>1
  <2>2. CASE cut' = {r}
    <3>1. Range(pending) \subseteq Range(pending) /\ {} \subseteq left /\ {r} # {}  OBVIOUS
    <3>2. ScanKnows(r, Range(pending), {}, got, {r}, entered)
      BY <1>2, <3>1, ScanCuts
    <3> QED  BY <1>3, <2>2, <3>2
  <2> QED  BY <1>2, <2>1, <2>2 DEF ScanDirDone, ScanCut
<1>5. ScanKnows(r, Range(pending'), left', got', cut', entered')  BY <1>1, <1>4
<1>6. /\ left' \subseteq Node /\ got' \subseteq Node /\ pending' \in Seq(SomeVisit)
      /\ entered' \subseteq entered \cup Under[r] /\ depth' \in Nat
      /\ opened' \subseteq opened \cup {m \in Under[r] : Kind(m) = "manifest"}
      /\ used' \in Nat /\ used' <= fcall.limit
  BY <1>1, <1>3
<1>7. /\ fstep \in {"pop", "scan"} /\ fstep' \in {"pop", "scan"}
      /\ (fstep' = "pop" => left' = {})
      /\ UNCHANGED <<fcall, subdir, spentAll, share, freply>>
  BY <1>1
<1> QED  BY <1>2, <1>4, <1>5, <1>6, <1>7, ScanGoesOn

LEMMA ScanDoneKeepsFiles ==
  ASSUME FilesInv, ScanDone
  PROVE  FilesInv'
<1>1. /\ fstep = "pop" /\ pending = <<>> /\ fstep' = "answered"
      /\ UNCHANGED <<fcall, pending, left, depth, subdir, used, spentAll, share, got, entered,
                     cut>>
  BY DEF ScanDone, Replies
<1>2. FilesShape /\ WalksTyped /\ InsideRoot /\ WithinBudgets /\ fcall.tool = "workspace_scan"
      /\ fcall \in FileCalls /\ left = {}
      /\ opened \subseteq {n \in Node : Kind(n) = "manifest"}
  BY <1>1 DEF FilesInv, FilesShape, Working
<1>3. PICK r \in Node : /\ WorkspaceRoot(fcall) = {r}
                        /\ ScanKnows(r, Range(pending), left, got, cut, entered)
  BY <1>1, ScanAtWork
<1>4. r \in Resolved(fcall.path)  BY <1>3, RootIsDir
<1>5. opened' = opened
                  \cup {k \in Kids(r) : fcall.manifests /\ Readable(r)
                                      /\ Kind(k) = "manifest"}
                  \cup (IF fcall.git THEN GitFiles(r) ELSE {})
  BY <1>3 DEF ScanDone
<1>6. Kids(r) \subseteq Under[r] /\ Kids(r) \subseteq Node
  BY <1>3, UnderItself, UnderTransitive, KidsAreNodes
<1>7. GitFiles(r) \subseteq Node /\ \A k \in GitFiles(r) : Kind(k) = "file"
  <2> DEFINE gits == {h \in Nearest(RepoDirs(r)) : Kind(h) = "git"}
  <2>1. gits \subseteq Node
    <3>1. RepoDirs(r) \subseteq Node  BY KidsAreNodes DEF RepoDirs
    <3> QED  BY <3>1 DEF Nearest
  <2> HIDE DEF gits
  <2>2. GitFiles(r) = {k \in UNION {Kids(g) : g \in gits} : Kind(k) = "file"}
    BY DEF GitFiles, gits
  <2> QED  BY <2>1, <2>2, KidsAreNodes
<1>8. \A n \in opened' : /\ n \in Node /\ Kind(n) # "secret"
                         /\ \/ n \in opened \/ n \in Under[r]
                            \/ fcall.git /\ n \in GitFiles(r)
  BY <1>2, <1>5, <1>6, <1>7
<1>9. /\ freply'.kind = "scan" /\ freply'.truncated = (cut # {})
  BY DEF ScanDone, Replies
<1>10. FilesShape'
  <2>1. opened' \subseteq Node  BY <1>8
  <2>2. WalksTyped'  BY <1>1, <1>2, <1>9, <2>1 DEF WalksTyped
  <2> QED  BY <1>1, <1>2, <2>2 DEF FilesShape, Working
<1>11. InsideRoot'  BY <1>1, <1>2, <1>3, <1>4, <1>8 DEF InsideRoot
<1>12. WithinBudgets'  BY <1>1, <1>2, <1>8 DEF WithinBudgets
<1>13. FilesKnow'  BY <1>1 DEF FilesKnow
<1>14. ScanComplete'
  <2>1. used' <= fcall'.limit /\ \A n \in opened' : Kind(n) # "secret"
    BY <1>1, <1>2, <1>8 DEF WithinBudgets
  <2>2. ASSUME ~freply'.truncated
        PROVE  got' = {n \in Node : Reached(r, n, ScanListed(r))}
    <3>1. cut = {}  BY <1>9, <2>2
    <3>2. ScanKnows(r, {}, {}, got, {}, entered)
      BY <1>1, <1>2, <1>3, <3>1, RangeOfNone
    <3>3. got = {n \in Node : Reached(r, n, ScanListed(r))}
      BY <1>2, <3>2, ScanLookedAll DEF WalksTyped
    <3> QED  BY <1>1, <3>3
  <2>3. WorkspaceRoot(fcall') = {r}  BY <1>1, <1>3
  <2> QED  BY <2>1, <2>2, <2>3 DEF ScanComplete, ScanListed
<1>15. WalkComplete' /\ OverviewComplete' /\ SliceHonest'
  BY <1>1, <1>2, <1>9 DEF WalkComplete, OverviewComplete, SliceHonest
<1> QED  BY <1>10, <1>11, <1>12, <1>13, <1>14, <1>15 DEF FilesInv

LEMMA ReadTextKeepsFiles ==
  ASSUME FilesInv, ReadText
  PROVE  FilesInv'
<1>1. /\ fstep = "resolve" /\ fcall.tool = "read_text_file" /\ FileError(fcall) = "none"
      /\ UNCHANGED <<fcall, pending, left, depth, subdir, used, spentAll, share, got, entered,
                     cut>>
  BY DEF ReadText
<1>2. FilesShape /\ InsideRoot /\ WithinBudgets /\ fcall \in FileCalls
      /\ opened = {} /\ entered = {}
  BY <1>1 DEF FilesInv, FilesShape
<1>3. PICK n \in Resolved(fcall.path) :
        \/ Replies([kind |-> "error", error |-> "not_found"]) /\ UNCHANGED opened
        \/ /\ opened' = opened \cup {n}
           /\ IF Kind(n) = "binary"
              THEN Replies([kind |-> "error", error |-> "invalid_argument"])
              ELSE \E now \in 0..MaxLength :
                     Replies(TextSlice(fcall.mode, fcall.limit, Tree[n].length, now,
                                       Tree[n].ends))
  BY DEF ReadText
<1>4. n \in Node /\ \A m \in Resolved(fcall.path) : m = n  BY <1>3, ResolvedIsNode
<1>5. IsFile(n) /\ AllowedBy(n, fcall)
  <2>1. ~(\A m \in Resolved(fcall.path) : ~IsFile(m))  BY <1>1 DEF FileError
  <2>2. ~(\A m \in Resolved(fcall.path) : ~AllowedBy(m, fcall))  BY <1>1 DEF FileError
  <2> QED  BY <1>4, <2>1, <2>2
<1>6. opened' \in {{}, {n}} /\ (freply'.kind # "error" => opened' = {n})
  BY <1>2, <1>3 DEF Replies
<1>7. fstep' = "answered" /\ freply'.kind \in {"error", "text"}
  BY <1>3 DEF Replies, TextSlice
<1>8. FilesShape'
  <2>1. WalksTyped'  BY <1>1, <1>2, <1>4, <1>6, <1>7 DEF FilesShape, WalksTyped
  <2> QED  BY <1>1, <1>2, <1>7, <2>1 DEF FilesShape, Working
<1>9. InsideRoot'  BY <1>1, <1>2, <1>3, <1>5, <1>6 DEF InsideRoot
<1>10. WithinBudgets'  BY <1>1, <1>7 DEF WithinBudgets
<1>11. FilesKnow'  BY <1>7 DEF FilesKnow
<1>12. SliceHonest'
  <2>1. CASE freply'.kind # "text"  BY <2>1 DEF SliceHonest
  <2>2. CASE freply'.kind = "text"
    <3>1. PICK now \in 0..MaxLength :
            freply' = TextSlice(fcall.mode, fcall.limit, Tree[n].length, now, Tree[n].ends)
      BY <1>3, <2>2 DEF Replies
    <3>2. now \in Nat  BY BudgetsAssumption
    <3>3. Tree[n].length \in Nat /\ Tree[n].ends \subseteq Nat
      BY <1>4, <1>5, TreeAssumption
    <3>4. fcall.limit \in Nat \ {0}  BY <1>2, FileCallsAssumption
    <3>5. SliceFits(freply', fcall.mode, fcall.limit, Tree[n].length, Tree[n].ends)
      BY <3>1, <3>2, <3>3, <3>4, SliceIsHonest
    <3> QED  BY <1>1, <1>6, <3>5 DEF SliceHonest, SliceFits
  <2> QED  BY <2>1, <2>2
<1>13. WalkComplete' /\ OverviewComplete' /\ ScanComplete'
  BY <1>1, <1>7 DEF WalkComplete, OverviewComplete, ScanComplete
<1> QED  BY <1>8, <1>9, <1>10, <1>11, <1>12, <1>13 DEF FilesInv

LEMMA FilesStepKeeps ==
  ASSUME FilesInv, FilesNext \/ UNCHANGED fileVars
  PROVE  FilesInv'
<1>1. CASE FilesNext
  BY <1>1, AcceptKeepsFiles, RepliedKeepsFiles, RefuseKeepsFiles, StartWalkKeepsFiles,
     WalkEntryKeepsFiles, WalkDoneKeepsFiles, StartOverviewKeepsFiles, NextChildKeepsFiles,
     MeasureEntryKeepsFiles, ChildMeasuredKeepsFiles, OverviewDoneKeepsFiles,
     ScanNextDirKeepsFiles, ScanEntryKeepsFiles, ScanDirDoneKeepsFiles, ScanDoneKeepsFiles,
     ReadTextKeepsFiles DEF FilesNext
<1>2. CASE UNCHANGED fileVars
  <2> USE <1>2 DEF fileVars
  <2>1. FilesShape'  BY DEF FilesInv, FilesShape, WalksTyped
  <2>2. InsideRoot' /\ WithinBudgets' /\ FilesKnow'
    BY DEF FilesInv, InsideRoot, WithinBudgets, FilesKnow
  <2>3. WalkComplete'  BY DEF FilesInv, WalkComplete
  <2>4. OverviewComplete' /\ ScanComplete'
    BY DEF FilesInv, OverviewComplete, ScanComplete
  <2>5. SliceHonest'  BY DEF FilesInv, SliceHonest
  <2> QED  BY <2>1, <2>2, <2>3, <2>4, <2>5 DEF FilesInv
<1> QED  BY <1>1, <1>2

\* What is under a node is within every root the node is within.
LEMMA WithinGoesDown ==
  ASSUME NEW roots, NEW r, Within(r, roots), NEW n \in Under[r]
  PROVE  Within(n, roots)
<1>1. PICK p \in roots : \E c \in Resolved(p) : r \in Under[c]  BY DEF Within
<1>2. PICK c \in Resolved(p) : r \in Under[c]  BY <1>1
<1>3. c \in Node  BY <1>2, ResolvedIsNode
<1>4. n \in Under[c]  BY <1>2, <1>3, UnderTransitive
<1> QED  BY <1>2, <1>4 DEF Within

LEMMA FilesInvIsSound ==
  FilesInv => FilesSound
<1> SUFFICES ASSUME FilesInv  PROVE FilesSound
  OBVIOUS
<1>1. FilesTypeOK
  <2>1. WalksTyped  BY DEF FilesInv, FilesShape
  <2>2. \A i \in DOMAIN pending : pending[i] \in [node : Node, depth : Nat]
    <3>1. pending \in Seq(SomeVisit)  BY <2>1 DEF WalksTyped
    <3>2. \A i \in DOMAIN pending : pending[i] \in SomeVisit  BY <3>1
    <3> QED  BY <3>2 DEF SomeVisit
  <2> QED  BY <2>1, <2>2 DEF WalksTyped, FilesTypeOK
<1>2. Confined
  <2> SUFFICES ASSUME NEW n \in entered \cup opened
               PROVE  \/ /\ \E root \in Resolved(fcall.path) : n \in Under[root]
                         /\ fcall.allow # {} => Within(n, fcall.allow)
                      \/ fcall.git /\ \E root \in Resolved(fcall.path) : n \in GitFiles(root)
    BY DEF Confined
  <2>1. CASE \E r \in WorkspaceRoot(fcall) : n \in Under[r]
    <3>1. PICK r \in WorkspaceRoot(fcall) : n \in Under[r]  BY <2>1
    <3>2. r \in Resolved(fcall.path) /\ AllowedBy(r, fcall)  BY <3>1, RootIsDir
    <3>3. fcall.allow # {} => Within(r, fcall.allow)  BY <3>2 DEF AllowedBy
    <3>4. fcall.allow # {} => Within(n, fcall.allow)  BY <3>1, <3>3, WithinGoesDown
    <3> QED  BY <3>1, <3>2, <3>4
  <2>2. CASE n \in Resolved(fcall.path) /\ AllowedBy(n, fcall)
    <3>1. n \in Node  BY <2>2, ResolvedIsNode
    <3>2. n \in Under[n]  BY <3>1, UnderItself
    <3> QED  BY <2>2, <3>2 DEF AllowedBy
  <2>3. CASE fcall.git /\ \E r \in Resolved(fcall.path) : n \in GitFiles(r)
    BY <2>3
  <2> QED  BY <2>1, <2>2, <2>3 DEF FilesInv, InsideRoot
<1> QED  BY <1>1, <1>2 DEF FilesInv, FilesSound

\* Whatever the tree, the calls and the budgets: what a file tool reads lies inside the
\* root it was given, and what a walk, an overview, a scan or a slice leaves out is said
\* in its answer (walk_files, directory_overview, scan_workspace, read_text_slice).
THEOREM FilesAreSound == FilesSpec => []FilesSound
<1>1. FilesIdle => FilesInv  BY FilesBegin
<1>2. FilesInv /\ [FilesNext]_fileVars => FilesInv'  BY FilesStepKeeps
<1> QED  BY <1>1, <1>2, FilesInvIsSound, PTL DEF FilesSpec

=============================================================================
