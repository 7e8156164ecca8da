--------------------------- MODULE MCReplayInput ---------------------------
(* ReplayInput for TLC: every file of up to MaxLines lines of a few kinds,  *)
(* with one aspect of the job varied at a time; and every short pattern     *)
(* with every short URI, without or with stars of its own.                  *)
EXTENDS ReplayInput

CONSTANT MaxLines

Record(m, u, t, ok) == [kind |-> "record", method |-> m, uri |-> u, stamp |-> t, valid |-> ok]
Other(k) == [kind |-> k, method |-> "GET", uri |-> <<"/">>, stamp |-> NoStamp, valid |-> FALSE]

SomeLines ==
  {Other(k) : k \in Kinds \ {"record"}}
  \cup {Record("GET", <<"/">>, t, TRUE) : t \in {NoStamp, BadStamp, 1, 2}}
  \cup {Record(m, <<"/", "a">>, 1, ok) : m \in {"GET", "POST", "BREW"}, ok \in BOOLEAN}
ShortFiles == UNION {[1..n -> SomeLines] : n \in 0..MaxLines}

\* One record that is always wanted and one with each short URI, for the patterns.
Strings(S, n) == UNION {[1..k -> S] : k \in 0..n}
UriFiles(S) ==
  {<<Record("GET", <<"/", "b">>, 1, TRUE), Record("GET", <<"/">> \o u, 1, TRUE)>> :
     u \in Strings(S, 4)}

Plain ==
  [source |-> "request_file", opens |-> TRUE, stamped |-> FALSE, skip |-> FALSE,
   methods |-> {}, patterns |-> <<>>, order |-> "sequential", seed |-> Unset, rate |-> Unset,
   timestamps |-> FALSE, speed |-> 1, stages |-> <<>>, rounds |-> Unset, limit |-> 1, sound |-> TRUE]
Sources ==
  {Plain, [Plain EXCEPT !.skip = TRUE], [Plain EXCEPT !.source = "access_log"]}
Patterns == {<<"/">> \o p : p \in Strings({"a", "b", "*"}, 4)}
SomeJobs ==
  Sources
  \cup {[j EXCEPT !.timestamps = TRUE] : j \in Sources}
  \cup {[j EXCEPT !.stamped = TRUE, !.rounds = 2, !.methods = {"GET"}] : j \in Sources}
  \cup {[Plain EXCEPT !.rounds = r, !.order = o] : r \in {0, 1, 2}, o \in {"shuffle", "random"}}
  \cup {[Plain EXCEPT !.timestamps = TRUE, !.order = "shuffle"],
        [Plain EXCEPT !.skip = TRUE, !.methods = {"POST"}, !.patterns = <<<<"/", "*">>>>],
        [Plain EXCEPT !.opens = FALSE], [Plain EXCEPT !.sound = FALSE],
        [Plain EXCEPT !.seed = 1], [Plain EXCEPT !.seed = 1, !.order = "shuffle"],
        [Plain EXCEPT !.timestamps = TRUE, !.rate = 1], [Plain EXCEPT !.stages = <<1>>],
        [Plain EXCEPT !.stages = <<0>>], [Plain EXCEPT !.stages = <<1>>, !.rate = 1],
        [Plain EXCEPT !.stages = <<1>>, !.timestamps = TRUE],
        [Plain EXCEPT !.stages = <<1, 2, 1>>],
        [Plain EXCEPT !.patterns = <<<<"/", "*">>, <<"/", "*">>>>],
        [Plain EXCEPT !.patterns = <<<<"/", "*">>, <<"/", "*">>, <<"/", "*">>>>]}
  \cup {[Plain EXCEPT !.patterns = <<<<"/", "*">>, p>>] :
          p \in {<<>>, <<"a">>} \cup {<<"/", c, "*">> : c \in {"#", "blank", "foreign"}}}
PatternJobs == {[Plain EXCEPT !.patterns = <<p, <<"/", "b">>>>] : p \in Patterns}

\* Three stages last longer, all together, than a Duration can hold.
MoreThanTwo(stages) == Len(stages) > 2

SomeInputs ==
  [job : SomeJobs, file : ShortFiles] \cup [job : PatternJobs, file : UriFiles({"a", "b"})]
StarInputs == [job : PatternJobs, file : UriFiles({"a", "*"})]
=============================================================================
