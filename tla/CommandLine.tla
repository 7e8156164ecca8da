---------------------------- MODULE CommandLine ----------------------------
(***************************************************************************)
(* The program as it is called: the arguments, the profile file, the       *)
(* checks of the whole command, the call into the library (ReplayInput and *)
(* the run), the assertions about the summary (Figures), the HTML report   *)
(* and the exit status.  One process, in sequence: one action for each     *)
(* argument and for each later stage of execute.                           *)
(*                                                                         *)
(* An argument is [name, value]: the long form of its name, "URL" for a    *)
(* bare word, and its value, attached or not: Bad when it does not parse,  *)
(* Unset when the arguments end before it.  A value that has lists in it   *)
(* (--allowed-uris a,b) is given one item at a time.  A stage is its rate. *)
(*                                                                         *)
(* The library can be called directly, too: such a behaviour begins with   *)
(* the options of ReplayInput and never leaves phase "library".            *)
(***************************************************************************)
EXTENDS ReplayInput

CONSTANTS
  Commands,     \* what there is when the program starts: [argv, profile, file, opens, stamped,
                \* body, report], the last two whether the body file is readable and the
                \* report can be written
  Outcomes(_),  \* how the run of a command can end: [workers, runtime, failed], see
                \* Figures!WorkerSummary
  Bad,          \* a value that does not parse; a number of requests, of connections, of
                \* threads or a time of zero, too
  MaxLatency,   \* MAX_LATENCY_US, and other constants of Figures
  SubBuckets,
  Average(_),
  Divide(_, _),
  Times(_, _),
  InSeconds(_),
  Milli,        \* a millisecond, in microseconds
  Second        \* a second, in microseconds

F == INSTANCE Figures

ASSUME UnsetAssumption == Unset \notin Int
ASSUME ArgumentsAssumption ==
  \A c \in Commands : Len(c.argv) \in Nat /\ DOMAIN c.argv = 1..Len(c.argv)
\* What the values of the options with numbers are parsed to: none is negative, and a number of
\* requests is not zero.
IsParsed(name, value) ==
  /\ name = "--requests" => value \in {Bad, Unset} \cup (Nat \ {0})
  /\ name \in {"--connections", "--duration"} => value \in {Bad, Unset} \cup Nat
ASSUME NumbersAssumption ==
  \A c \in Commands : \A i \in DOMAIN c.argv : IsParsed(c.argv[i].name, c.argv[i].value)
\* The same for a profile that can be read; its assertions are a list.
ASSUME ProfileAssumption ==
  \A c \in Commands :
    (\E i \in DOMAIN c.argv : c.argv[i].name = "--profile") /\ c.profile.ok =>
      /\ c.profile.connections \in {Bad} \cup Nat /\ c.profile.duration \in {Bad, Unset} \cup Nat
      /\ c.profile.assertions \in Seq(Range(c.profile.assertions))
\* A status has three digits.
ResponseType == [latency : Nat, method : Methods, status : 0..999]
WorkerType ==
  [responses : Seq(ResponseType), abandoned : Nat, recoveries : Nat, socket_errors : Nat]
ASSUME OutcomesAssumption ==
  \A c \in Commands : \A o \in Outcomes(c) :
    ~o.failed => o.workers \in Seq(WorkerType) /\ o.runtime \in Nat
ASSUME UnitsAssumption ==
  MaxLatency \in Nat \ {0} /\ SubBuckets \in Nat \ {0} /\ Milli \in Nat \ {0} /\ Second \in Nat \ {0}

VARIABLES
  command,    \* the command
  next,       \* the argument to be parsed next
  opt,        \* the local variables of execute, by the name of their option
  config,     \* RunConfig and RequestOptions, once the library is called
  outcome,    \* how the run ended, once it has
  summary,    \* RunSummary
  phase       \* "arguments", "profile", "checks", "run", "gate", "report", "success" or
              \* "failure"; "library" when there is no command line

commandVars == <<command, next, opt, config, outcome, summary, phase>>
allVars == <<commandVars, vars>>

(***************************************************************************)
(* The options, by what becomes of a second one of the same name: flags,   *)
(* lists that grow, those that may be given once, and those of which the   *)
(* last counts.                                                            *)
(***************************************************************************)
Flags == {"--skip-invalid-records", "--replay-timestamps", "--output-beauty", "--version"}
Lists == {"--assert", "--header", "--data", "--allowed-methods", "--allowed-uris"}
Once == {"URL", "--data-binary"}
Values ==
  {"--profile", "--requests", "--access-log", "--request-file", "--request-schema",
   "--replay-order", "--seed", "--replay-rate", "--replay-speed", "--stages", "--replay-stages",
   "--replay-rounds", "--output-format", "--output-html", "--request", "--duration", "--timeout",
   "--connections", "--threads"}
Known == Flags \cup Lists \cup Once \cup Values \cup {"--latency", "--help"}

\* --stages and --replay-stages share a variable.
Slot(name) == IF name = "--replay-stages" THEN "--stages" ELSE name

\* The options with some settings in place of theirs; settings are pairs of a name and a value.
With(options, settings) ==
  [n \in DOMAIN options |->
     IF \E s \in settings : s[1] = n THEN (CHOOSE s \in settings : s[1] = n)[2] ELSE options[n]]

Defaults ==
  With([n \in Flags \cup Lists \cup Once \cup Values |->
          IF n \in Flags THEN FALSE ELSE IF n \in Lists THEN <<>> ELSE Unset],
       {<<"--connections", 10>>, <<"--threads", 2>>, <<"--timeout", 2 * Second>>,
        <<"--replay-order", "sequential">>, <<"--replay-speed", 1>>, <<"--stages", <<>>>>,
        <<"--output-format", "text">>, <<"--request", "GET">>})

\* Called: what the library is given before anything is read.
NoJob ==
  [source |-> "request", opens |-> TRUE, stamped |-> FALSE, skip |-> FALSE, methods |-> {},
   patterns |-> <<>>, order |-> "sequential", seed |-> Unset, rate |-> Unset, timestamps |-> FALSE,
   speed |-> 1, stages |-> <<>>, rounds |-> Unset, limit |-> 0, sound |-> TRUE]

CommandInit ==
  /\ next = 1 /\ opt = Defaults /\ config = Unset /\ outcome = Unset /\ summary = Unset
  /\ \/ command = Unset /\ phase = "library" /\ Init
     \/ /\ command \in Commands /\ phase = "arguments"
        /\ job = NoJob /\ file = <<>> /\ line = 1 /\ requests = <<>>
        /\ skipped = 0 /\ filtered = 0 /\ limit = 0 /\ pc = "idle"

Enter(next_phase) == phase' = next_phase /\ UNCHANGED <<command, next, opt, config, outcome, summary, vars>>

(***************************************************************************)
(* The loop over the arguments.                                            *)
(***************************************************************************)
argv == command.argv
argument == argv[next]

Parsing == phase = "arguments" /\ next <= Len(argv)

\* A rate, a speed, a number of rounds or a stage of zero.
IsZero ==
  \/ argument.name \in {"--replay-rate", "--replay-speed", "--replay-rounds"} /\ argument.value = 0
  \/ /\ argument.name \in {"--stages", "--replay-stages"}
     /\ \E i \in DOMAIN argument.value : argument.value[i] = 0

Refusable ==
  \/ argument.name \notin Known
  \/ argument.name \in Lists \cup Once \cup Values /\ argument.value \in {Bad, Unset}
  \/ IsZero
  \/ argument.name \in Once /\ opt[argument.name] # Unset

ParseArgument ==
  /\ Parsing /\ ~Refusable /\ argument.name # "--help"
  /\ opt' =
       IF argument.name = "--latency" THEN opt
       ELSE [opt EXCEPT ![Slot(argument.name)] =
              IF argument.name \in Flags THEN TRUE
              ELSE IF argument.name \in Lists THEN Append(@, argument.value)
              ELSE argument.value]
  /\ next' = next + 1
  /\ UNCHANGED <<command, config, outcome, summary, phase, vars>>

BadArgument == Parsing /\ Refusable /\ Enter("failure")

Help == Parsing /\ argument.name = "--help" /\ Enter("success")

EndOfArguments == phase = "arguments" /\ next > Len(argv) /\ Enter("profile")

(***************************************************************************)
(* The profile: what the arguments leave open is taken from it.            *)
(*   [ok, url, duration, connections, threads, timeout, format, html,      *)
(*    mode, static, replay, assertions]                                    *)
(* ok when the file can be read, is a profile of version v1 and has a URL; *)
(* static is Unset or [method, headers, body] and replay is Unset or       *)
(*   [path, format, order, seed, rounds, schema, skip, methods, uris,      *)
(*    pacing],                                                             *)
(* pacing Unset or [mode, rate, speed, stages].                            *)
(***************************************************************************)
profile == command.profile

ValidPacing(p) ==
  \/ p.mode = "none"
  \/ p.mode = "rate" /\ p.rate \notin {Unset, 0}
  \/ p.mode = "timestamp" /\ p.speed # 0
  \/ p.mode = "stages" /\ p.stages # <<>> /\ \A i \in DOMAIN p.stages : p.stages[i] # 0

ValidReplay(r) ==
  /\ r.path # "" /\ r.format \in {"nginx", "jsonl"} /\ r.rounds # 0
  /\ r.pacing # Unset => ValidPacing(r.pacing)

\* profile::load
ValidProfile ==
  /\ profile.ok
  /\ profile.mode \in {Unset, "static", "log_replay"}
  /\ profile.mode = "static" => profile.static # Unset
  /\ profile.mode = "log_replay" => profile.replay # Unset
  /\ profile.replay # Unset => ValidReplay(profile.replay)

\* The *_was_set variables, and what is_none and is_empty say of the others before the
\* profile is looked at.
Given(name) == \E i \in DOMAIN argv : argv[i].name = name
AnyGiven(names) == \E n \in names : Given(n)

RequestOptions == {"--request", "--header", "--data", "--data-binary"}
ReplayInputs == {"--access-log", "--request-file"}

UseStatic == ~AnyGiven(ReplayInputs \cup RequestOptions) /\ profile.static # Unset
UseReplay ==
  ~AnyGiven(ReplayInputs \cup RequestOptions) /\ profile.static = Unset /\ profile.replay # Unset

RunnerSettings ==
  {<<"URL", profile.url>>, <<"--connections", profile.connections>>, <<"--threads", profile.threads>>,
   <<"--timeout", profile.timeout>>, <<"--output-html", profile.html>>}
  \cup (IF Given("--requests") THEN {} ELSE {<<"--duration", profile.duration>>})
  \cup (IF profile.format = Unset THEN {} ELSE {<<"--output-format", profile.format>>})

StaticSettings(s) == {<<"--request", s.method>>, <<"--header", s.headers>>, <<"--data", s.body>>}

PacingSettings(p) ==
  CASE p.mode = "rate" -> {<<"--replay-rate", p.rate>>}
    [] p.mode = "timestamp" ->
         {<<"--replay-timestamps", TRUE>>, <<"--replay-speed", IF p.speed = Unset THEN 1 ELSE p.speed>>}
    [] p.mode = "stages" -> {<<"--stages", p.stages>>}
    [] OTHER -> {}

\* Mutant of PacingFrom: stages on the command line do not keep the profile's pacing out.
PacingFrom_BesideStages(r) ==
  IF AnyGiven({"--replay-rate", "--replay-timestamps"}) \/ r.pacing = Unset
  THEN {} ELSE PacingSettings(r.pacing)

PacingFrom(r) ==
  IF AnyGiven({"--replay-rate", "--replay-timestamps", "--stages", "--replay-stages"})
     \/ r.pacing = Unset
  THEN {} ELSE PacingSettings(r.pacing)

ReplaySettings(r) ==
  {<<IF r.format = "nginx" THEN "--access-log" ELSE "--request-file", r.path>>, <<"--seed", r.seed>>,
   <<"--replay-rounds", r.rounds>>, <<"--request-schema", r.schema>>,
   <<"--skip-invalid-records", r.skip>>, <<"--allowed-methods", r.methods>>,
   <<"--allowed-uris", r.uris>>}
  \cup (IF r.order = Unset THEN {} ELSE {<<"--replay-order", r.order>>})
  \cup PacingFrom(r)

\* What the profile sets, of all that the arguments do not.
FromProfile ==
  {s \in RunnerSettings
         \cup (IF UseStatic THEN StaticSettings(profile.static) ELSE {})
         \cup (IF UseReplay THEN ReplaySettings(profile.replay) ELSE {}) :
     ~Given(s[1])}

\* A setting that turns out not to parse, once it is looked at.
BadSetting ==
  \E s \in FromProfile :
    s[2] = Bad \/ (s[1] \in Lists \cup {"--stages"} /\ Bad \in Range(s[2]))

ApplyProfile ==
  /\ phase = "profile" /\ Given("--profile") /\ ValidProfile /\ ~BadSetting
  /\ opt' = [With(opt, FromProfile) EXCEPT !["--assert"] = @ \o profile.assertions]
  /\ phase' = "checks"
  /\ UNCHANGED <<command, next, config, outcome, summary, vars>>

BadProfile ==
  /\ phase = "profile" /\ Given("--profile")
  /\ ~ValidProfile \/ BadSetting
  /\ Enter("failure")

NoProfile == phase = "profile" /\ ~Given("--profile") /\ Enter("checks")

(***************************************************************************)
(* The command as a whole.                                                 *)
(***************************************************************************)
IsReplay == opt["--access-log"] # Unset \/ opt["--request-file"] # Unset
IsOrdinary == AnyGiven(RequestOptions) \/ (Given("--profile") /\ UseStatic)
MethodSet == Given("--request") \/ (Given("--profile") /\ UseStatic)
BodySet == opt["--data"] # <<>> \/ opt["--data-binary"] # Unset
Whitelist == opt["--allowed-methods"] # <<>> \/ opt["--allowed-uris"] # <<>>

\* A replay option where nothing is replayed.
Misplaced ==
  \/ AnyGiven({"--replay-order", "--seed", "--replay-stages"})
  \/ opt["--replay-rounds"] # Unset \/ opt["--replay-rate"] # Unset
  \/ opt["--replay-timestamps"] \/ Whitelist

\* Mutant of PacingConflict: timestamps and the order of the replay are not compared.
PacingConflict_AnyOrder ==
  \/ opt["--replay-timestamps"] /\ opt["--replay-rate"] # Unset
  \/ Given("--stages") /\ Given("--replay-stages")
  \/ opt["--stages"] # <<>> /\ (opt["--replay-rate"] # Unset \/ opt["--replay-timestamps"])

\* Two options about when requests are sent.
PacingConflict ==
  \/ opt["--replay-timestamps"] /\ opt["--replay-rate"] # Unset
  \/ opt["--replay-timestamps"] /\ opt["--replay-order"] # "sequential"
  \/ Given("--stages") /\ Given("--replay-stages")
  \/ opt["--stages"] # <<>> /\ (opt["--replay-rate"] # Unset \/ opt["--replay-timestamps"])

Contradictory ==
  \/ PacingConflict
  \/ opt["--duration"] # Unset /\ Given("--requests")
  \/ opt["--output-beauty"] /\ opt["--output-format"] = "json"
  \/ opt["--access-log"] # Unset /\ opt["--request-file"] # Unset
  \/ opt["--replay-rounds"] # Unset /\ (Given("--requests") \/ opt["--duration"] # Unset)
  \/ opt["--replay-rounds"] # Unset /\ opt["--replay-order"] = "random"
  \/ IsOrdinary /\ IsReplay
  \/ opt["--data"] # <<>> /\ opt["--data-binary"] # Unset
  \/ opt["--seed"] # Unset /\ opt["--replay-order"] = "sequential"

Incomplete ==
  \/ (opt["--request-schema"] # Unset \/ opt["--skip-invalid-records"]) /\ opt["--request-file"] = Unset
  \/ Given("--replay-speed") /\ ~opt["--replay-timestamps"]
  \/ opt["--data-binary"] # Unset /\ ~command.body
  \/ opt["URL"] = Unset

Refused == (Misplaced /\ ~IsReplay) \/ Contradictory \/ Incomplete

Version == phase = "checks" /\ opt["--version"] /\ Enter("success")

Refuse == phase = "checks" /\ ~opt["--version"] /\ Refused /\ Enter("failure")

\* RunConfig, and the headers and the body of RequestOptions.
Configuration ==
  [url |-> opt["URL"],
   method |-> IF ~MethodSet /\ BodySet THEN "POST" ELSE opt["--request"],
   headers |-> Range(opt["--header"]),
   body |-> IF opt["--data-binary"] # Unset THEN <<opt["--data-binary"]>> ELSE opt["--data"],
   limit |-> IF Given("--requests") THEN opt["--requests"] ELSE 0,
   duration |->
     IF Given("--requests") THEN Unset
     ELSE IF opt["--duration"] = Unset THEN 10 * Second ELSE opt["--duration"],
   connections |-> opt["--connections"], threads |-> opt["--threads"], timeout |-> opt["--timeout"]]

\* Target::parse, RunConfig::validate and, of an ordinary request, validate_request
Sound(c) ==
  /\ c.url # "invalid" /\ c.connections # 0 /\ c.threads # 0 /\ c.timeout <= 3600 * Second
  /\ "invalid" \notin c.headers

\* ReplayOptions, RequestFileReplayOptions and ReplayFilter; of the stages of an ordinary
\* request, validate_stages
Job ==
  [source |->
     IF opt["--access-log"] # Unset THEN "access_log"
     ELSE IF opt["--request-file"] # Unset THEN "request_file" ELSE "request",
   opens |-> command.opens,
   stamped |-> opt["--request-schema"] # Unset /\ command.stamped,
   skip |-> opt["--skip-invalid-records"],
   methods |-> Range(opt["--allowed-methods"]), patterns |-> opt["--allowed-uris"],
   order |-> opt["--replay-order"], seed |-> opt["--seed"], rate |-> opt["--replay-rate"],
   timestamps |-> opt["--replay-timestamps"], speed |-> opt["--replay-speed"],
   stages |-> opt["--stages"], rounds |-> opt["--replay-rounds"],
   limit |-> Configuration.limit,
   sound |-> Sound(Configuration) /\ (IsReplay \/ ~TooLong(opt["--stages"]))]

\* The call into the library.
Dispatch ==
  /\ phase = "checks" /\ ~opt["--version"] /\ ~Refused
  /\ config' = Configuration
  /\ job' = Job
  /\ file' = IF IsReplay THEN command.file ELSE <<>>
  /\ pc' = IF IsReplay THEN "options" ELSE "limit"
  /\ phase' = "run"
  /\ UNCHANGED <<command, next, opt, outcome, summary, line, requests, skipped, filtered, limit>>

(***************************************************************************)
(* The library.                                                            *)
(***************************************************************************)
Load == phase \in {"run", "library"} /\ Next /\ UNCHANGED commandVars

LoadFails == phase = "run" /\ pc = "failed" /\ Enter("failure")

\* The run as Figures looks at it.
Facts ==
  [entries |-> Len(requests), filtered |-> filtered, skipped |-> skipped, rounds |-> job.rounds,
   limit |-> limit, connections |-> config.connections,
   duration |-> IF limit = 0 THEN config.duration ELSE Unset, runtime |-> outcome'.runtime]

Sent ==
  IF job.source = "request" THEN {config.method} ELSE {r.method : r \in Range(requests)}

Responses(o) == UNION {{w} \X DOMAIN o.workers[w].responses : w \in DOMAIN o.workers}
Abandoned(o) == SumFunction([w \in DOMAIN o.workers |-> o.workers[w].abandoned])

\* What the workers can have returned: responses to the requests of the run, all of them
\* accounted for when their number is the limit, and not before the deadline when there is
\* one (KeepsContract of Worker); no more workers than threads.
Possible(o) ==
  /\ \A x \in Responses(o) : o.workers[x[1]].responses[x[2]].method \in Sent
  /\ IF limit = 0 THEN Abandoned(o) = 0 /\ o.runtime >= config.duration
     ELSE Cardinality(Responses(o)) + Abandoned(o) = limit
  /\ Len(o.workers) <= config.threads /\ Len(o.workers) <= config.connections

RunEnds ==
  /\ phase = "run" /\ pc = "ready"
  /\ outcome' \in {o \in Outcomes(command) : o.failed \/ Possible(o)}
  /\ IF outcome'.failed
     THEN phase' = "failure" /\ UNCHANGED summary
     ELSE /\ summary' = F!Finish(F!JoinWorkers(outcome'.workers), Facts)
          /\ phase' = "gate"
  /\ UNCHANGED <<command, next, opt, config, vars>>

(***************************************************************************)
(* The assertions, the report and the exit status.                         *)
(***************************************************************************)
AllHold == \A i \in DOMAIN opt["--assert"] : F!Evaluate(summary, opt["--assert"][i])

Gate == phase = "gate" /\ IF AllHold THEN Enter("report") ELSE Enter("failure")

\* What is printed: `output_format`, in the end.
OutputFormat == IF opt["--output-beauty"] THEN "beauty" ELSE opt["--output-format"]

Report ==
  /\ phase = "report"
  /\ IF opt["--output-html"] = Unset \/ command.report THEN Enter("success") ELSE Enter("failure")

CommandNext ==
  \/ ParseArgument \/ BadArgument \/ Help \/ EndOfArguments
  \/ ApplyProfile \/ BadProfile \/ NoProfile
  \/ Version \/ Refuse \/ Dispatch
  \/ Load \/ LoadFails \/ RunEnds
  \/ Gate \/ Report

CommandSpec == CommandInit /\ [][CommandNext]_allVars

(***************************************************************************)
(* The reference: the responses of the run, looked at one by one.          *)
(***************************************************************************)
Response(x) == outcome.workers[x[1]].responses[x[2]]
Responded == Responses(outcome)
Failed == {x \in Responded : Response(x).status >= 400}
SocketErrors == SumFunction([w \in DOMAIN outcome.workers |-> outcome.workers[w].socket_errors])
Recoveries == SumFunction([w \in DOMAIN outcome.workers |-> outcome.workers[w].recoveries])

\* A latency as the histogram of response x keeps it, and what correction puts before it: a
\* sample <<x, k>> is response x or, for k > 0, the k-th that would have been waiting for it.
Latency(x) == F!Highest(Max({1, Min({MaxLatency, Response(x).latency})}))
Waiting(x, k) == summary.interval # Unset /\ Latency(x) - k * summary.interval > summary.interval
Samples ==
  UNION {{<<x, k>> : k \in {j \in 0..Latency(x) : j # 0 => Waiting(x, j)}} : x \in Responded}
Value(s) ==
  IF s[2] = 0 THEN Latency(s[1]) ELSE F!Highest(Latency(s[1]) - s[2] * summary.interval)

\* p per cent of the samples are at v or below, and fewer are below.
IsPercentile(v, p) ==
  /\ 100 * Cardinality({s \in Samples : Value(s) <= v}) >= p * Cardinality(Samples)
  /\ 100 * Cardinality({s \in Samples : Value(s) < v}) < p * Cardinality(Samples)

\* How many samples have each value.
Histogram == [v \in {Value(s) : s \in Samples} |-> Cardinality({s \in Samples : Value(s) = v})]

Span ==
  IF limit # 0 \/ outcome.runtime < config.duration THEN outcome.runtime ELSE config.duration

\* The value of a metric; none of a metric that is not available.
Measured(metric) ==
  CASE metric \in DOMAIN F!Percent ->
         {<<Min({MaxLatency, v}), 1>> :
            v \in {w \in {Value(s) : s \in Samples} : IsPercentile(w, F!Percent[metric])}}
    [] metric = "mean" ->
         IF Samples = {} THEN {} ELSE {<<Average(Histogram), 1>>}
    [] metric = "rps" ->
         {IF Span = 0 THEN <<0, 1>> ELSE Divide(<<Cardinality(Responded), 1>>, InSeconds(Span))}
    [] metric = "error_rate" ->
         {IF Responded = {} /\ SocketErrors = 0 THEN <<0, 1>>
          ELSE Divide(<<Cardinality(Failed) + SocketErrors, 1>>,
                      <<Cardinality(Responded) + SocketErrors, 1>>)}
    [] metric = "completed" -> {<<Cardinality(Responded), 1>>}
    [] metric = "status_errors" -> {<<Cardinality(Failed), 1>>}
    [] metric = "socket_errors" -> {<<SocketErrors, 1>>}
    [] metric = "abandoned" -> {<<Abandoned(outcome), 1>>}
    [] metric = "recoveries" -> {<<Recoveries, 1>>}

IsTrue(a) ==
  /\ F!WellFormed(a)
  /\ \E v \in Measured(a.metric) : F!Compare(a.operator, v, F!Expected(a))

Claims ==
  {argv[i].value : i \in {j \in DOMAIN argv : argv[j].name = "--assert"}}
  \cup (IF Given("--profile") THEN Range(profile.assertions) ELSE {})

(***************************************************************************)
(* Properties.                                                             *)
(***************************************************************************)
\* What the checks of the command line let through, the validation of the library accepts:
\* whatever parts of the options came from the profile, a command is refused before its
\* file is read and never because of a combination of options after that. Only the library
\* adds up the durations of the stages.
EngineAgrees == phase = "run" /\ pc = "options" /\ ~TooLong(job.stages) => ValidOptions

\* What the library is called with, for an option that has one value.
Effective(name) ==
  CASE name = "URL" -> config.url
    [] name = "--requests" -> config.limit
    [] name = "--duration" -> config.duration
    [] name = "--connections" -> config.connections
    [] name = "--threads" -> config.threads
    [] name = "--timeout" -> config.timeout
    [] name = "--request" -> config.method
    [] name \in {"--stages", "--replay-stages"} -> job.stages
    [] name = "--replay-order" -> job.order
    [] name = "--seed" -> job.seed
    [] name = "--replay-rate" -> job.rate
    [] name = "--replay-speed" -> IF job.timestamps THEN job.speed ELSE Unset
    [] name = "--replay-rounds" -> job.rounds

\* --output-beauty takes the place of --output-format text, the one option that may be given
\* in vain. What becomes of --assert is for GateHolds; --profile is not for the run, --latency
\* asks for what is printed anyway, and with --version and --help there is no run.
InEffect(a) ==
  CASE a.name = "--header" -> a.value \in config.headers
    [] a.name \in {"--data", "--data-binary"} -> a.value \in Range(config.body)
    [] a.name = "--allowed-methods" -> job.source # "request" /\ a.value \in job.methods
    [] a.name = "--allowed-uris" -> job.source # "request" /\ a.value \in Allowed
    [] a.name = "--access-log" -> job.source = "access_log"
    [] a.name \in {"--request-file", "--request-schema"} -> job.source = "request_file"
    [] a.name = "--skip-invalid-records" -> job.source = "request_file" /\ job.skip
    [] a.name = "--replay-timestamps" -> job.source # "request" /\ job.timestamps
    [] a.name \in {"--replay-order", "--seed", "--replay-rate", "--replay-speed", "--replay-rounds",
                   "--replay-stages"} ->
         job.source # "request" /\ Effective(a.name) = a.value
    [] a.name \in {"URL", "--requests", "--duration", "--connections", "--threads", "--timeout",
                   "--request", "--stages"} ->
         Effective(a.name) = a.value
    [] a.name = "--output-beauty" -> OutputFormat = "beauty"
    [] a.name = "--output-html" -> opt["--output-html"] = a.value
    [] a.name = "--output-format" ->
         OutputFormat = a.value \/ (opt["--output-beauty"] /\ a.value # "json")
    [] OTHER -> TRUE

\* Each option of the command line is in effect in the run that is started, or else no run
\* is: neither a profile nor another option makes rload drop one silently, but for
\* --output-format text beside --output-beauty. Of an option that is given twice, and is no
\* list, the last counts.
NothingIgnored ==
  phase = "run" =>
    \A i \in DOMAIN argv :
      \/ \E j \in (i + 1)..Len(argv) : argv[j].name = argv[i].name /\ argv[i].name \in Values
      \/ InEffect(argv[i])

\* The exit status after a run is success exactly when the run ended well, each assertion of
\* the arguments and of the profile is true of the responses that the workers have seen, and
\* the report could be written. A latency is read as its histogram keeps it, as the highest
\* one of its cell (with p50 <= 100ms, responses of 99.99 ms make a run fail), and numbers as
\* f64; an assertion about latencies is not true when there are none.
GateHolds ==
  LET sound == ~outcome.failed /\ \A a \in Claims : IsTrue(a)
  IN  outcome # Unset =>
        /\ phase \in {"report", "success"} => sound
        /\ phase = "success" => opt["--output-html"] = Unset \/ command.report
        /\ phase = "failure" => ~sound \/ (opt["--output-html"] # Unset /\ ~command.report)

\* The tables of a summary are about the same responses as its totals: the methods add up
\* to them, and so do the statuses; the histograms of the methods hold together what the
\* histogram of the run holds, corrected or not.
TablesAgree ==
  summary # Unset =>
    LET table == summary.methods
    IN  /\ summary.completed = SumFunction([m \in Methods |-> table[m].completed])
        /\ summary.status_errors = SumFunction([m \in Methods |-> table[m].status_errors])
        /\ summary.latencies.overflow = SumFunction([m \in Methods |-> table[m].latencies.overflow])
        /\ \A v \in UNION {DOMAIN h.samples :
                          h \in {summary.latencies} \cup {table[m].latencies : m \in Methods}} :
             F!Copies(v, summary.latencies.samples) =
               SumFunction([m \in Methods |-> F!Copies(v, table[m].latencies.samples)])
        /\ \A code \in {Response(x).status : x \in Responded} :
             F!Copies(code, summary.statuses) =
               Cardinality({x \in Responded : Response(x).status = code})
=============================================================================
