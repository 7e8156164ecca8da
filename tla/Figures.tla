------------------------------ MODULE Figures ------------------------------
(***************************************************************************)
(* The figures of a run and the assertions about them: what a worker       *)
(* records of a response, how the summaries of the workers are merged,     *)
(* what run_with_roots adds at the end, the correction for coordinated     *)
(* omission among it, and how an assertion is evaluated.                   *)
(*                                                                         *)
(* Latencies are whole microseconds.  Counters by value or by status are   *)
(* bags, functions that give a positive number to each value that was      *)
(* counted; a histogram counts cells, each named by the highest latency in *)
(* it.  An f64 is a quotient, a pair; two of them are compared exactly,    *)
(* and what arithmetic makes of them is a constant.  The table of URIs is  *)
(* in UriTop.                                                              *)
(***************************************************************************)
EXTENDS Integers, Sequences, SequencesExt

CONSTANTS
  MaxLatency,   \* MAX_LATENCY_US
  SubBuckets,   \* the latencies below it have a cell each: 2048, for three significant digits
  Average(_),   \* Histogram::mean of the number of samples in each cell, as a Duration and in
                \* whole microseconds again
  Divide(_, _), \* the quotient of two f64, and
  Times(_, _),  \* their product
  InSeconds(_), \* Duration::as_secs_f64, of microseconds
  Milli,        \* a millisecond, in microseconds
  Second,       \* a second, in microseconds
  Methods,      \* the methods of requests
  Unset         \* an option that is not set, and a value that there is not

Copies(e, bag) == IF e \in DOMAIN bag THEN bag[e] ELSE 0
Plus(bag, other) == [e \in DOMAIN bag \cup DOMAIN other |-> Copies(e, bag) + Copies(e, other)]
Once(e) == [x \in {e} |-> 1]
None == [x \in {} |-> 0]

(***************************************************************************)
(* LatencyHistogram.                                                       *)
(***************************************************************************)
NoLatencies == [samples |-> None, overflow |-> 0]

Clamp(latency) == IF latency < 1 THEN 1 ELSE IF latency > MaxLatency THEN MaxLatency ELSE latency

\* The cells of an HDR histogram: from SubBuckets on, they are twice as wide whenever the
\* latency has doubled.
IsPowerOfTwo(w) == \A d \in 2..w : w % d = 0 => d % 2 = 0
Width(v) == Max({1} \cup {w \in 2..v : IsPowerOfTwo(w) /\ SubBuckets * w <= 2 * v})

\* The highest of the values that share a cell with v.
Highest(v) == v - (v % Width(v)) + Width(v) - 1

Cell(latency) == Highest(Clamp(latency))

Record(h, latency) ==
  [samples |-> Plus(h.samples, Once(Cell(latency))),
   overflow |-> IF latency > MaxLatency THEN h.overflow + 1 ELSE h.overflow]

Merge(h, other) ==
  [samples |-> Plus(h.samples, other.samples), overflow |-> h.overflow + other.overflow]

\* The rounds of the loop for a recorded value: the k-th adds the response that would have
\* been waiting since the k-th request after the slow one was due.
Rounds(value, interval) == {k \in 1..value : value - k * interval > interval}

\* The recorded values and the rounds that add to a cell.
Missed(samples, interval) == UNION {{v} \X Rounds(v, interval) : v \in DOMAIN samples}
MissedCell(x, interval) == Highest(x[1] - x[2] * interval)
Sources(samples, interval, cell) ==
  {x \in Missed(samples, interval) : MissedCell(x, interval) = cell}

Missing(samples, interval) ==
  [cell \in {MissedCell(x, interval) : x \in Missed(samples, interval)} |->
     SumFunction([x \in Sources(samples, interval, cell) |-> samples[x[1]]])]

\* Mutant of Correct: the values that are added are corrected too, as if the loop went over
\* the histogram that it writes to.
Correct_Own(h, interval) ==
  LET once == Plus(h.samples, Missing(h.samples, interval))
  IN  [h EXCEPT !.samples = Plus(once, Missing(once, interval))]

\* correct_for_coordinated_omission: the values come from the histogram as it was.
Correct(h, interval) ==
  [h EXCEPT !.samples = Plus(@, Missing(@, interval))]

Size(h) == SumFunction(h.samples)

\* The samples up to a value.
UpTo(h, v) == SumFunctionOnSet(h.samples, {w \in DOMAIN h.samples : w <= v})

\* Histogram::value_at_quantile, the first cell that enough samples do not exceed, as a
\* duration within the bounds.
Percentile(h, p) ==
  Min({MaxLatency, Min({v \in DOMAIN h.samples : 100 * UpTo(h, v) >= p * Size(h)})})

(***************************************************************************)
(* RunSummary.                                                             *)
(***************************************************************************)
NoMethod == [completed |-> 0, status_errors |-> 0, latencies |-> NoLatencies]

NoSummary ==
  [completed |-> 0, abandoned |-> 0, recoveries |-> 0, status_errors |-> 0, socket_errors |-> 0,
   latencies |-> NoLatencies, methods |-> [m \in Methods |-> NoMethod], statuses |-> None,
   filtered |-> 0, skipped |-> 0, rounds |-> Unset, interval |-> Unset,
   runtime |-> 0, load |-> 0, drain |-> 0]

Errors(status) == IF status >= 400 THEN 1 ELSE 0

RecordForMethod(m, r) ==
  [completed |-> m.completed + 1,
   status_errors |-> m.status_errors + Errors(r.status),
   latencies |-> Record(m.latencies, r.latency)]

\* record_response; StatusCounts has a place for each status below 1000.
RecordResponse(s, r) ==
  [s EXCEPT
    !.completed = @ + 1,
    !.status_errors = @ + Errors(r.status),
    !.latencies = Record(@, r.latency),
    !.methods[r.method] = RecordForMethod(@, r),
    !.statuses = IF r.status < 1000 THEN Plus(@, Once(r.status)) ELSE @]

MergeMethod(m, other) ==
  [completed |-> m.completed + other.completed,
   status_errors |-> m.status_errors + other.status_errors,
   latencies |-> Merge(m.latencies, other.latencies)]

MergeSummary(s, other) ==
  [s EXCEPT
    !.completed = @ + other.completed,
    !.abandoned = @ + other.abandoned,
    !.recoveries = @ + other.recoveries,
    !.status_errors = @ + other.status_errors,
    !.socket_errors = @ + other.socket_errors,
    !.latencies = Merge(@, other.latencies),
    !.methods = [m \in Methods |-> MergeMethod(@[m], other.methods[m])],
    !.statuses = Plus(@, other.statuses)]

\* What a worker returns: [responses, abandoned, recoveries, socket_errors] of its run.
Recorded(w, after, n) ==
  IF n = 0
  THEN [NoSummary EXCEPT !.abandoned = w.abandoned, !.recoveries = w.recoveries,
                         !.socket_errors = w.socket_errors]
  ELSE RecordResponse(after[n - 1], w.responses[n])

WorkerSummary(w) ==
  LET after[n \in 0..Len(w.responses)] == Recorded(w, after, n) IN after[Len(w.responses)]

Joined(workers, after, n) ==
  IF n = 0 THEN NoSummary ELSE MergeSummary(after[n - 1], WorkerSummary(workers[n]))

JoinWorkers(workers) ==
  LET after[n \in 0..Len(workers)] == Joined(workers, after, n) IN after[Len(workers)]

\* connection_limits: there are no more connections than requests.
ConnectionCount(run) ==
  IF run.duration = Unset THEN Min({run.connections, run.limit}) ELSE run.connections

\* The times and the counters of the input.
Timed(joined, run) ==
  [joined EXCEPT
    !.filtered = run.filtered, !.skipped = run.skipped, !.runtime = run.runtime,
    !.rounds =
      IF run.rounds = Unset \/ run.entries = 0 THEN Unset ELSE joined.completed \div run.entries,
    !.load = IF run.duration = Unset THEN run.runtime ELSE Min({run.duration, run.runtime}),
    !.drain = IF run.duration = Unset THEN 0 ELSE Max({0, run.runtime - run.duration})]

CorrectMethodHistograms(methods, interval) ==
  [m \in Methods |-> [methods[m] EXCEPT !.latencies = Correct(@, interval)]]

\* Mutant of Finish: correct_method_histograms is not called.
Finish_MethodsAsRecorded(joined, run) ==
  LET cycles == joined.completed \div ConnectionCount(run)
      expected == Max({1, run.runtime \div cycles})
      timed == Timed(joined, run)
  IN  IF cycles = 0 THEN timed
      ELSE [timed EXCEPT !.interval = expected, !.latencies = Correct(@, expected)]

\* The end of run_with_roots: run is [entries, filtered, skipped, rounds, limit, duration,
\* connections, runtime], duration Unset when a number of requests is the limit.
Finish(joined, run) ==
  LET cycles == joined.completed \div ConnectionCount(run)
      expected == Max({1, run.runtime \div cycles})
      timed == Timed(joined, run)
  IN  IF cycles = 0 THEN timed
      ELSE [timed EXCEPT
             !.interval = expected,
             !.latencies = Correct(@, expected),
             !.methods = CorrectMethodHistograms(@, expected)]

(***************************************************************************)
(* Assertions: [words, metric, operator, number, unit], number the f64     *)
(* that is parsed or Unset when it is not a finite one, unit "" when there *)
(* is none.  A counter is below 2^53, and an f64 as it is.                 *)
(***************************************************************************)
Percent == [p50 |-> 50, p90 |-> 90, p95 |-> 95, p99 |-> 99]
LatencyMetrics == DOMAIN Percent \cup {"mean"}
CountMetrics == {"status_errors", "socket_errors", "completed", "abandoned", "recoveries"}
Metrics == LatencyMetrics \cup CountMetrics \cup {"rps", "error_rate"}

MicrosIn(unit) == CASE unit = "us" -> 1 [] unit = "ms" -> Milli [] unit = "s" -> Second

Compare(operator, a, b) ==
  LET left == a[1] * b[2]
      right == b[1] * a[2]
  IN  CASE operator = "<" -> left < right
        [] operator = "<=" -> left <= right
        [] operator = "==" -> left = right
        [] operator = "!=" -> left # right
        [] operator = ">=" -> left >= right
        [] operator = ">" -> left > right
        [] OTHER -> FALSE

ErrorRate(s) ==
  LET attempts == s.completed + s.socket_errors
  IN  IF attempts = 0 THEN <<0, 1>>
      ELSE Divide(<<s.status_errors + s.socket_errors, 1>>, <<attempts, 1>>)

Rate(completed, runtime) ==
  IF runtime = 0 THEN <<0, 1>> ELSE Divide(<<completed, 1>>, InSeconds(runtime))

\* metric_value, of a metric that there is and that is available
MetricValue(s, metric) ==
  CASE metric = "rps" -> Rate(s.completed, s.load)
    [] metric = "mean" -> <<Average(s.latencies.samples), 1>>
    [] metric \in DOMAIN Percent -> <<Percentile(s.latencies, Percent[metric]), 1>>
    [] metric = "error_rate" -> ErrorRate(s)
    [] metric \in CountMetrics -> <<s[metric], 1>>

\* expected_value, of an assertion that is well formed
Expected(a) == IF a.unit = "" THEN a.number ELSE Times(a.number, <<MicrosIn(a.unit), 1>>)

\* An assertion that is about something: the errors of evaluate are the rest.
WellFormed(a) ==
  /\ a.words = 3 /\ a.metric \in Metrics /\ a.number # Unset
  /\ IF a.metric \in LatencyMetrics THEN a.unit # "" /\ a.number[1] >= 0 ELSE a.unit = ""

Evaluate(s, a) ==
  /\ WellFormed(a)
  /\ a.metric \in LatencyMetrics => Size(s.latencies) > 0
  /\ Compare(a.operator, MetricValue(s, a.metric), Expected(a))
=============================================================================
