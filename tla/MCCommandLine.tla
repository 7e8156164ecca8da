--------------------------- MODULE MCCommandLine ---------------------------
(* CommandLine for TLC: every pair of arguments from a pool, after a URL,   *)
(* a replay input or one of a few profiles; every assertion of a few        *)
(* metrics, operators and values, over many ends of the run; and the        *)
(* library called with the inputs of MCReplayInput.                         *)
EXTENDS CommandLine, MCReplayInput

Arg(n, v) == [name |-> n, value |-> v]
Flag(n) == [name |-> n, value |-> Unset]
Assertion(m, o, n, u) == [words |-> 3, metric |-> m, operator |-> o, number |-> n, unit |-> u]
AnyCompleted == Assertion("completed", ">=", <<1, 1>>, "")

Url == Arg("URL", "target")

Pool ==
  {Flag(n) : n \in Flags \cup {"--latency", "--help", "--bogus"}}
  \cup {Arg("URL", "invalid"), Arg("--requests", 2), Arg("--requests", Bad), Arg("--duration", Second),
        Arg("--connections", 1), Arg("--access-log", "log"), Arg("--request-file", "records"),
        Arg("--request-schema", "schema"), Arg("--replay-order", "random"),
        Arg("--replay-order", "sequential"), Arg("--seed", 7), Arg("--replay-rate", 5),
        Arg("--replay-speed", 2), Arg("--stages", <<3>>), Arg("--replay-stages", <<4>>),
        Arg("--replay-rounds", 2), Arg("--replay-rounds", 0), Arg("--stages", <<3, 0>>),
        Arg("--output-format", "json"), Arg("--output-format", "text"), Arg("--output-html", "report"),
        Arg("--request", "POST"), Arg("--header", "accept"), Arg("--header", "invalid"),
        Arg("--data", "one"), Arg("--data-binary", "file"), Arg("--allowed-methods", "GET"),
        Arg("--allowed-uris", <<"/", "a">>), Arg("--assert", AnyCompleted)}

NoSettings ==
  [ok |-> TRUE, url |-> "other", duration |-> Unset, connections |-> 3, threads |-> 1,
   timeout |-> Second, format |-> Unset, html |-> Unset, mode |-> Unset, static |-> Unset,
   replay |-> Unset, assertions |-> <<>>]
LogReplay ==
  [path |-> "replayed", format |-> "jsonl", order |-> Unset, seed |-> Unset, rounds |-> Unset,
   schema |-> Unset, skip |-> FALSE, methods |-> <<>>, uris |-> <<>>, pacing |-> Unset]
Pacing == [mode |-> "rate", rate |-> 2, speed |-> Unset, stages |-> <<>>]
Paced(m) == [Pacing EXCEPT !.mode = m, !.stages = IF m = "stages" THEN <<1, 2>> ELSE <<>>]
Replaying(r) == [NoSettings EXCEPT !.replay = r]
StaticPost == [method |-> "POST", headers |-> <<"accept">>, body |-> <<"body">>]

Profiles ==
  {NoSettings,
   [NoSettings EXCEPT !.duration = 2 * Second, !.format = "json", !.html = "profiled",
                      !.assertions = <<AnyCompleted>>],
   [NoSettings EXCEPT !.mode = "static", !.static = StaticPost],
   [NoSettings EXCEPT !.mode = "log_replay", !.static = StaticPost, !.replay = LogReplay],
   Replaying([LogReplay EXCEPT !.schema = "schema", !.skip = TRUE, !.methods = <<"GET">>]),
   Replaying([LogReplay EXCEPT !.format = "nginx", !.rounds = 2, !.uris = <<<<"/", "*">>>>]),
   Replaying([LogReplay EXCEPT !.order = "shuffle", !.seed = 3, !.pacing = Paced("none")])}
  \cup {Replaying([LogReplay EXCEPT !.pacing = Paced(m)]) : m \in {"rate", "timestamp", "stages"}}

\* Profiles that are refused, and one with a value for the library to refuse.
OddProfiles ==
  {[NoSettings EXCEPT !.ok = FALSE], [NoSettings EXCEPT !.connections = 0],
   [NoSettings EXCEPT !.timeout = Bad], [NoSettings EXCEPT !.duration = Bad],
   [NoSettings EXCEPT !.mode = "ramp"], [NoSettings EXCEPT !.mode = "static"],
   [NoSettings EXCEPT !.mode = "log_replay"],
   [NoSettings EXCEPT !.format = Bad], [NoSettings EXCEPT !.static = [StaticPost EXCEPT !.method = Bad]],
   Replaying([LogReplay EXCEPT !.format = "csv"]), Replaying([LogReplay EXCEPT !.rounds = 0]),
   Replaying([LogReplay EXCEPT !.order = Bad]), Replaying([LogReplay EXCEPT !.methods = <<Bad>>]),
   Replaying([LogReplay EXCEPT !.seed = 3]),
   Replaying([LogReplay EXCEPT !.order = "random", !.pacing = Paced("timestamp")]),
   Replaying([LogReplay EXCEPT !.order = "random", !.rounds = 1]),
   Replaying([LogReplay EXCEPT !.pacing = [Pacing EXCEPT !.rate = 0]]),
   Replaying([LogReplay EXCEPT !.pacing = [Paced("timestamp") EXCEPT !.speed = 0]]),
   Replaying([LogReplay EXCEPT !.pacing = [Paced("stages") EXCEPT !.stages = <<1, 0>>]]),
   Replaying([LogReplay EXCEPT !.pacing = [Paced("stages") EXCEPT !.stages = <<Bad>>]])}

SomeFile ==
  <<Record("GET", <<"/">>, 1, TRUE), Record("POST", <<"/", "a">>, 1, TRUE),
    Record("GET", <<"/", "a">>, 2, TRUE)>>
Command(args, p) ==
  [argv |-> args, profile |-> p, file |-> SomeFile, opens |-> TRUE, stamped |-> TRUE,
   body |-> TRUE, report |-> TRUE]

UpTo(n, S) == UNION {[1..k -> S] : k \in 0..n}
Pairs == UpTo(2, Pool)
FromArguments ==
  {Command(<<Url>> \o i \o s, Unset) :
     i \in {<<>>, <<Arg("--access-log", "log")>>, <<Arg("--request-file", "records")>>}, s \in Pairs}
WithProfile ==
  {Command(<<Arg("--profile", "p")>> \o s, p) : p \in Profiles, s \in Pairs}
  \cup {Command(<<Arg("--profile", "p")>> \o s, p) : p \in OddProfiles, s \in UpTo(1, Pool)}
Unlucky ==
  {Command(<<>>, Unset), Command(<<Arg("URL", Unset)>>, Unset), Command(<<Arg("--duration", Unset)>>, Unset),
   Command(<<Url, Arg("--stages", <<1, 2, 3>>)>>, Unset),
   Command(<<Url, Arg("--access-log", "log"), Arg("--stages", <<1, 2, 3>>)>>, Unset),
   [Command(<<Url, Arg("--data-binary", "file")>>, Unset) EXCEPT !.body = FALSE],
   [Command(<<Url, Arg("--output-html", "report")>>, Unset) EXCEPT !.report = FALSE]}

\* The assertions, all first on their command line.
Numbers == {<<0, 1>>, <<1, 2>>, <<1, 1>>, <<3, 1>>}
Units(m) == IF m \in F!LatencyMetrics THEN IF m = "p90" THEN {"us", "ms"} ELSE {"us"} ELSE {""}
Assertions ==
  UNION {{Assertion(m, o, n, u) : o \in {"<=", "==", ">"}, n \in Numbers, u \in Units(m)} : m \in F!Metrics}
  \cup {[AnyCompleted EXCEPT !.words = 2], Assertion("p42", "<", <<9, 1>>, "us"),
        Assertion("completed", "=>", <<0, 1>>, ""), Assertion("completed", "<", Unset, ""),
        Assertion("completed", "<", <<9, 1>>, "s"), Assertion("p50", "<", <<9, 1>>, ""),
        Assertion("mean", "<", <<9, 1>>, "s"), Assertion("rps", ">=", <<1, 3>>, ""),
        Assertion("rps", "!=", <<Second, 3>>, "")}
Asserting ==
  {Command(<<Arg("--assert", a), Url, l, Arg("--connections", c)>>, Unset) :
     a \in Assertions, l \in {Arg("--requests", 1), Arg("--requests", 4), Arg("--duration", Second)},
     c \in {1, 2}}

SomeCommands == FromArguments \cup WithProfile \cup Unlucky \cup Asserting

\* Arithmetic that rounds: to whole microseconds, and to quarters.
AverageOf(samples) ==
  LET middle(v) == v - (F!Width(v) - F!Width(v) \div 2 - 1)
  IN  MapThenSumSet(LAMBDA v : middle(v) * samples[v], DOMAIN samples)
        \div MapThenSumSet(LAMBDA v : samples[v], DOMAIN samples)
Quarters(n, d) == <<(8 * n + d) \div (2 * d), 4>>
Quotient(a, b) == Quarters(a[1] * b[2], a[2] * b[1])
Product(a, b) == Quarters(a[1] * b[1], a[2] * b[2])
Seconds(micros) == Quarters(micros, Second)

\* What a worker returns: latencies that a connection can have had one after the other.
Log(latencies, m, code) ==
  [i \in DOMAIN latencies |->
     [latency |-> latencies[i],
      method |-> IF i = 1 THEN m ELSE "GET", status |-> IF i = 1 THEN code ELSE 200]]
Worker(log, a) == [responses |-> log, abandoned |-> a, recoveries |-> a, socket_errors |-> a]
Busy(log) == MapThenSumSet(LAMBDA i : log[i].latency, DOMAIN log)
Ended(workers, least) ==
  [workers |-> workers, failed |-> FALSE,
   runtime |-> Max({least} \cup {Busy(workers[w].responses) : w \in DOMAIN workers})]

Failure == [workers |-> <<>>, runtime |-> 0, failed |-> TRUE]
FewOutcomes ==
  {Failure}
  \cup {Ended(<<Worker(Log([i \in 1..k |-> i], m, 200), 0)>>, t) :
          k \in {0, 1, 2, 4}, m \in {"GET", "POST"}, t \in {0, 10 * Second}}
Logs ==
  {Log(l, "GET", c) : l \in {<<>>, <<3>>, <<14>>, <<7, 1, 1>>, <<8, 1, 1, 1>>, <<0, 5>>}, c \in {200, 404}}
ManyOutcomes ==
  {Failure}
  \cup {Ended(<<Worker(l, a)>>, t) : l \in Logs, a \in 0..4, t \in {0, Second + 1}}
  \cup {Ended(<<Worker(l, 0), Worker(k, a)>>, t) :
          l \in Logs, k \in Logs, a \in {0, 1}, t \in {0, Second + 1}}
OutcomesOf(c) ==
  IF c.argv # <<>> /\ c.argv[1].name = "--assert" THEN ManyOutcomes ELSE FewOutcomes
=============================================================================
