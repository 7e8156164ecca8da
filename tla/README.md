# A TLA+ model of rload

rload is an HTTP load generator: a coordinator splits a run (a number of requests,
or a duration) over worker threads, each of which drives its connections with one
mio event loop; requests come from a sequence all threads share, optionally paced;
each worker returns a summary and the coordinator merges them.  This directory
holds TLA+ models of that code, TLC runs that check them on small instances, and
TLAPS proofs of the results that hold for every instance.

## 1. Inventory

| component | state | operations | interacts with |
|---|---|---|---|
| connection (`src/engine/connection.rs`) | stream and its registration, request in hand and `write_offset`, `started`, `not_before`, `awaiting_pace`, `reconnect_at_pace`, `completed`, `recovery_attempts`, `timer_generation`, `done` | connect, write_request, read_response, finish_response, retry_address, recover_request, defer_reconnect_until_pace, resume_at_pace, expire, stop_if_expired, stop_after_duration_error, refresh_interest | called by the worker only; draws requests from the sequence; kernel, peer |
| worker loop (`run_worker`, `src/engine/mod.rs`) | connections, `active`, two timer heaps, the summary | open the connections; poll; handle an event; drain the deadline heap; drain the pacing heap | mio, the clock, its connections |
| run coordinator (`run_with_roots`, `connection_limits`) | the limits given to each worker, the merged summary | validate, split, spawn, join, merge, correct histograms | workers (join only) |
| request sequence (`src/request_sequence.rs`) | next position, shuffle state, timestamp cursor | `next`, called by every connection of every thread | pacers; shared by all threads |
| pacers (`src/pacer.rs`) | next slot (fixed rate), previous timestamp, stage start | `reserve` | called by the sequence with a clock reading taken before the lock |
| summary (`src/metrics.rs`) | counters, histograms, status table, URI top list | record a response, merge | worker records, coordinator merges |
| response decoder (`src/protocol/response.rs`) | bytes of the head, body decoder | `feed` | connection |
| inputs (`access_log.rs`, `request_file.rs`, `replay_filter.rs`, `target.rs`) | the records read so far, counts of skipped and filtered ones | parse, filter, encode | before any network I/O |
| command line and profiles (`main.rs`, `profile.rs`) | the option variables of `execute`, which of them the arguments set, the profile | parse the arguments, apply the profile, check, call the library | calls the library once |
| figures and assertions (`metrics.rs`, end of `run_with_roots`, `assertions.rs`) | the merged summary | correct histograms, derive rates and percentiles, evaluate | between the join of the workers and the exit status |
| reports (`report.rs`, the printing of `main.rs`) | none | text, JSON, HTML | after the run |

What is hard here:

* the worker is single-threaded but not sequential: what poll reported is handled
  one event at a time while the kernel, the peers and the clock go on;
* timers are never removed from the heaps, only outdated by `timer_generation`, so
  every path that starts a new generation must schedule it;
* failures are answered by two retry loops that share a budget, in one of eleven
  branches, each with its own bookkeeping;
* a duration run may reach its deadline between any two instructions;
* a paced connection may be waiting for its slot, for its socket, or for both;
* all threads share one sequence and one pacer;
* every option can come from the arguments or from the profile, the combinations are
  checked in `main.rs` and again in the library, and a value can be dropped in
  between without anyone noticing.

What makes it correct: each request of a fixed run is answered or abandoned exactly
once; the budget is kept and reported; no connection is left without anything to
wake it; no stale timer fails a later request; no handler that begins after the deadline
starts a request;
the worker returns.  Around the workers: every option that was given is in effect or
the command is refused; the records that were asked for are replayed, in order; the
exit status says what the responses say.

## 2. Modules

| module | models |
|---|---|
| `Connection` | the connection record and its methods, each an operator from a record and an instant to the set of its possible outcomes |
| `Worker`, `MCWorker` | `run_worker`: the thread's program counter, its connections, readiness reported by poll, the two heaps, the counters, the clock |
| `RequestSequence`, `MCRequestSequence` | the shared sequence and the pacers, called by several threads |
| `UriTop` | the bounded URI list of a summary: record and merge |
| `Run`, `MCRun` | the coordinator: split, join, merge, report; its workers seen from outside |
| `WorkerContract` | what a worker promises its coordinator, without sockets, timers or a loop; `Worker` implements it |
| `Response`, `MCResponse` | the incremental response decoder |
| `ReplayInput`, `MCReplayInput` | the call into the library: validation of the options, the two readers, the whitelist with its glob, the timestamp check, the limit that rounds give |
| `Figures` | constant operators: the summary of a worker, merging, the correction of histograms, the figures of a run, assertions |
| `CommandLine`, `MCCommandLine` | the program: arguments, profile, checks, `ReplayInput`, the end of the run, assertions, exit status |
| `Worker_proofs` | what each method of a connection preserves; type correctness and accounting of a worker; it implements its contract |
| `WorkerTimers_proofs` | its timers, wake-ups and deadline |
| `RequestSequence_proofs` | slot spacing, log order, stages and rounds |
| `Sums_proofs` | sums over finite sets, and counting by a key |
| `Run_proofs` | the bounds of the URI lists and the heavy URIs; the coordinator |
| `Response_proofs` | the decoder agrees with a reader of the whole, in bounded space |
| `ReplayInput_proofs` | the glob is right; what a load replays, refuses and counts |
| `CommandLine_proofs` | no option is dropped, the library accepts what the command line lets through; the figures of a summary, and the exit status, agree with the responses |

### Connection

A method that changes the connection is an operator that returns *outcomes*: the
new record, what the method returned, how many recovery attempts it made
(`pending_recovery_attempts`, which every caller takes at once).  What is left to
the set of outcomes belongs to the kernel and the peer: whether a connect fails,
how many bytes a write accepts, what a read delivers, whether rustls still has
records to send.  Every `Instant::now()` is a reading of its own: a method that tests the
clock and reads it again is given its first and its last reading, `t <= u`.  What is late
at `t` is late, what is early at `u` is early, where they disagree the test may come out
either way, and what is stamped afterwards is `u`.  So a deadline or a slot can pass between
a test and what depends on it: `write_request` sends a request that `stop_if_expired` let
pass (`connection.rs:282`) and stamps it at line 113, `finish_response` tests the deadline
(line 249), asks the pacer (`FinishResponse` does so at any `v` in between) and stamps the
next request.  Abstracted: bytes (a request is `RequestLen` units and
`write_offset` counts them, so partial writes exist), the response (incomplete,
complete with or without close, malformed).  `drawn` and `sent_from` are history: the number of
requests taken from the sequence, and the offset the current stream started at.

### Worker

`pc` is `connect`, `poll`, `events`, `deadlines`, `pacing`, or how the worker
returned.  One action per branch of the loop: opening (`OpenConnection`,
`OpenFails`, `OpenGivesUpAtDeadline`), `Poll`, the branches of an event
(`ErrorRecovers`, `ErrorReconnects`, `WritableStops`, `WritableError`,
`WritableWrites`, `WritableFails`, `ReadableWaits`, `ReadableFails`,
`ReadableMalformed`, `ReadableCompletes`), the heaps (`DeadlineStale`,
`DeadlineStops`, `RequestTimesOut`, `ConnectionTimesOut`, `PaceStale`, `PaceStops`,
`PaceResumes`).  `Recover`, `Retry` and `ConnectFailed` are the three blocks the
source repeats in those branches.  The environment is two actions: `Establish`
(a TCP handshake ends) and `Tick`.  An event is handled in the order error,
writable, readable, as in the source; events of different connections in any
order, as poll may report them.

The heaps are sets of `(instant, token, generation)`; `Before` is their order, and
stale entries are dropped when they reach the top, as `discard_stale_deadlines`
and `discard_stale_pacing` do, the latter also comparing the slot.

The counters of `RunSummary` are kept per connection, so that accounts can be
stated per connection; the summary holds their sums.

Bounds of the model (all in guards): `MaxTime` stops the clock; `MaxLag` is how late
a due timer may find the worker; `MaxGap` is how far the clock may advance within one event
handler (`now` is its first reading, `now'` its last; 1 where the deadline is the question,
0 elsewhere); `MaxFaults` socket failures per connection;
`MaxResponses` responses per connection in a duration run.  The proofs hold for
all of their values.

### WorkerContract

The abstract specification.  A client of a fixed run answers its requests one at a
time (`Answer`) or gives up and reports all it still owes as lost (`GiveUp`); the
worker returns a summary only when nothing is owed.  In a duration run the time runs
out once (`RunOut`), nothing is ever lost, and a summary is returned only afterwards.
Either may fail.  `Worker` defines the mapping in `Contract`: `answered` is
`completed` of each connection, `lost` is `abandoned`, `expired` holds in a duration
run from its deadline on, `status` is what the thread returned.  `KeepsContract` is
the abstract specification as a property of the detailed one.

### RequestSequence

A call of `next` takes three steps, because other threads may run between them:
*select* an entry (an atomic counter, the locked shuffle state, or the timestamp
cursor), *read the clock*, and *reserve* the slot under the pacer's own lock.  Two
threads can therefore reach a pacer with their instants in the opposite order.
Only timestamp replay holds a mutex (`holder`) over all three steps, which is what
keeps its order.  A reshuffle is Fisher-Yates with every choice of the random
state, so `Reshuffles` is the set of orders it can produce.  `log`, the calls in
the order of their reservations, and `drawn` are history.  `MaxCalls` and `MaxTime`
bound a run.

### UriTop and Run

A URI list is a function from the tracked URIs to an estimate and an error.  The
order of the `Vec` behind it decides only between equal estimates, so operations map
a list to the set of lists that some order gives.

`Run` validates, computes the limit of each connection, deals the connections out,
and joins the workers in spawn order.  A worker is what `Worker` promises of it: it
records responses, abandons requests, returns once nothing of its quota is
outstanding, fails, or panics.  A failed join ends the run only after the scope has
waited for every thread.  `MaxConnections`, `MaxThreads` and `MaxResponses` (of a
worker of a duration run) are bounds.

### Response

Bytes are symbols: CR, LF, three hexadecimal digits, `+`, `;`, one that is part of no
UTF-8 text, and `x` for all others.  A size line is what the library makes of it: it must be
UTF-8 up to its CRLF (`SizeText`), and `usize::from_str_radix` takes one `+` before the
digits (`Digits`) and refuses what is greater than `usize::MAX` (`MaxSize`).
What a head says is an attribute of the response; where it ends and how long it is
depend on the bytes.  One action is one `feed` of one piece of any length, or one
iteration of the loop in `ChunkedDecoder::feed`, so that an endless loop would be
visible.  `Whole` is the reference: what a reader that has all received bytes at
once says.

### ReplayInput

What the library does before it connects: it validates the options, reads the file,
and computes the limit of the run.  One action per line read and one per other
stage, and every stage may refuse.  A line is an abstract record (blank, unreadable,
noise, or a record with a method, a URI, a timestamp and whether the rest is well
formed); the two readers differ in what they do with it.  URIs and patterns are
sequences of bytes, each named by its character, or `blank` for a space and the controls
and `foreign` for a byte beyond ASCII, which `IsPattern` refuses as `validate` does; the
patterns are a list, so that equal ones count towards `MAX_URI_PATTERNS` (`ValidFilter`).
Of the durations of the stages the model knows whether their sum fits a `Duration`
(`TooLong`).  `GlobMatches` is the loop of `glob_matches` with its
four indices, as a recursive function; `Matches`, with `Wanted`, `Fatal` and
`Acceptable`, is the reference.  A behaviour begins with options of any kind, as from
a caller of the library, or with those that `CommandLine` computes.  What comes out,
entries with timestamps in order and a limit, is what `RequestSequence`
(`StampsAssumption`) and `Run` (`Requests`) start from.

### Figures and CommandLine

`CommandLine` is `execute` of `main.rs` in its order.  `opt` holds its local
variables by the name of their option; the loop over the arguments is
`ParseArgument`, `BadArgument`, `Help` and `EndOfArguments`.  `Given` stands for the
`*_was_set` flags, and for the `is_none` and `is_empty` that the merge of a profile
asks before it changes anything.  Rates, speeds, rounds and stages of zero are refused as
they are parsed (`IsZero`).  What a profile sets is a set of pairs of an option and its
value; those that the arguments leave open (`FromProfile`) go in with `ApplyProfile`, or the
profile is refused with `BadProfile`.  `Refused` is the list of checks, in three groups: options of a replay
without one, contradictions, options that lack another; their order does not
matter, because each ends in the same failure before anything is sent.  `Dispatch`
is the call into the library, whose steps are `Load`.

The run itself is not repeated here: `RunEnds` takes any outcome that `Possible`
admits, which is what `Worker` (`KeepsContract`) and `Run` (`RunAccounts`) establish
of a run, and passes it through `Figures`: `RecordResponse` for each response in
turn, `MergeSummary` for each worker, `Finish` for what `run_with_roots` adds at the end,
the correction for coordinated omission among it.  A histogram counts cells.  As in the HDR
library, latencies below `SubBuckets` (2048 for three significant digits) have a cell each, and
from there on cells are twice as wide whenever the latency has doubled; a cell is named by
its highest latency (`Highest`), which is what `value_at_quantile` and `value_iterated_to`
give, so a latency is rounded when it is recorded and again when `Correct` adds what
`correct_for_coordinated_omission` adds for it.  An f64 is a quotient of two integers, which
can be compared exactly; what the arithmetic of f64 makes of two of them is a constant
(`Divide`, `Times`, `InSeconds`, `Average`), any function at all in the proofs and one that
rounds in the run.  `Percentile` asks for the smallest whole number of samples that is not
below the percentage of all: for the four percentages that assertions know, the product of
f64 in `value_at_quantile` rounds to the same number in every run of a practical size.
`Gate` evaluates the assertions and `Report` writes the HTML file, either of which
makes the exit status a failure.

The reference of `GateHolds` knows neither merging nor the search for a percentile:
`Samples` are the responses themselves with the ones that were missing before them, each at
the value of its cell, `Measured` computes each metric from them, and `IsTrue` compares.
That a latency is read as the highest one of its cell is part of what the property says, and
it matters: if every response takes 99.99 ms, `p50` is 100.031 ms and the assertion
`p50 <= 100ms` fails.

## 3. Runs

Bounds are chosen so that each run meets its cases: enough faults and timeouts to exhaust the
budget and the opening tries, two requests so that a connection is reused and
reopened, a deadline that falls inside the run, slots both now and in the future.

| run | instance | checks |
|---|---|---|
| `Worker_fixed` | two connections with one request each, budget 1, timeout 1, a fault each | types, `active` and the accounts in every state and under every interleaving, recoveries are reported, the worker returns |
| `Worker_paced` | https, two requests on one connection, slots now or 2 ahead, budget 1, a fault | accounts at return, the budget, abandonment only on exhaustion, requests drawn once, a timer for every live connection, timeouts only when due, the contract |
| `Worker_duration` | paced, deadline 2, lag up to 3, a clock that may advance within a handler, two addresses, slots 1 or 3 ahead, 2 faults | no start in a handler that begins after the deadline, no fall-through, waiting connections are woken, the timers are in order, the contract, the worker returns unless stranded |
| `RequestSequence` | 2 threads, 5 calls, 4 ticks, log <<0,3,3>>, two stages | even rounds, spaced slots, log order and gaps, the quota of a stage |
| `Run` | 4 URIs, lists of 2, up to 3 connections, 2 threads, limits 1, 2, 3, 5 or none | exact split, accounts of a reported run, no worker outlives the run, bounds of the lists, heavy URIs are tracked |
| `Response` | header limit 3, every header up to 8 bytes, every chunked body up to 4 tokens (a chunk with its data and the last chunk among them), up to 3 when extensions, lone parts of a line end, signs, sizes beyond 15 and broken text are among them, every segmentation | agreement with `Whole`, bounded buffers, `feed` returns |
| `CommandLine` | every pair of 36 arguments, alone, with an access log or a request file, or with one of 10 profiles; 20 odd profiles with one argument; every metric with 3 operators and 4 values over some 700 ends of a run; the library with every file of up to 3 lines of 13 kinds and 34 jobs, and every pattern with every URI of up to 4 characters, URIs without stars | what the checks let through the library accepts, no option is dropped, the exit status is right, the tables of a summary agree; a load is refused only for cause, the wanted records are replayed in order, every line is accounted for |

The lists of `Run` hold fewer entries than there are URIs, so that replacing and
truncating happen; five requests over three connections split unevenly.  The
headers of `Response` go well past the limit and the four bytes that end one.  A
budget of one reaches every branch of the worker: a first failure is retried, a
second abandons.  The clock of `Worker_fixed` stops at 4, and `Termination` shows that
no behaviour needs more: one that did would be left running.  A conflict between options involves two of them, and a profile
stands for several, so pairs of arguments reach every check; the rare values of a
profile need one.  In `CommandLine` a millisecond is 2 microseconds, a second 8 and the
longest latency of a histogram 12, and latencies from 4 on share a cell with one or three
others: latencies of up to 14 meet the rounding, the clamp and the
overflow, and runs of one or two connections with up to four responses have expected
intervals on either side of their latencies, so that correction adds none, one or
several samples.

Fairness: `FairSpec` of `Worker` has weak fairness of the thread's own steps, which
the operating system schedules, of `Poll` only when a readiness that is sure to come
or a due timer wakes it, and of nothing a peer does; and strong fairness of `Tick`,
only because the model suspends the clock while the heaps are drained.  `Response`
has weak fairness of the loop of the chunked decoder, sequential code, and none of
the socket.  The other modules have none.

Deadlock is not checked where the system may stop: `Worker_duration`, `Worker_paced`
and `Worker_v_hang` (a stranded worker stops for good, which is what
`TerminationUnlessStranded` and `Worker_v_hang` are about), `RequestSequence` (all
calls made), `Response` (the response is decided), `CommandLine` (the program has ended)
and `ReplayInput_v_glob` (the file is loaded or refused).

Five more runs state what the documentation says and find the code doing otherwise;
each is a finding in `PROJECT.json` with the quotation:

| run | documented | what happens |
|---|---|---|
| `Worker_v_hang` | a duration run returns from an unresponsive target | a reconnect made at a pacing slot has no timer; the worker waits for ever |
| `Worker_v_isolated` | transport failures are counted and isolated | in a duration run a reconnect that fails at once ends the run |
| `Worker_v_whole` | retries preserve the request | an error found at a writable event after a partial write is retried from the middle of the request |
| `Worker_v_latency` | latency is calculated from the scheduled send time | it is measured from the first write of the request (`connection.rs:234`); what passed between the slot and the write is not in it |
| `ReplayInput_v_glob` | `*` matches any sequence | a `*` of the pattern that meets a `*` of the URI is taken literally and not tried again: `/*` does not match `/*a` |

`LatencyFromSlot` is about what a worker records.  The correction of histograms at
the end of a run (`Correct`) adds samples by the expected interval of a connection; it
does not know the slots and cannot restore what `Worker_v_latency` shows missing.

Some disagreements were met and have no run:

* a duration run does not count connect retries as recovery attempts
  (`connection.rs:348`, against `designs/v0.3.0_contract.md:72`);
* a duration worker that cannot open a connection before the deadline returns without
  having served the ones it opened (`OpenGivesUpAtDeadline`);
* the branch of `Worker_v_whole` keeps the response decoder as well as the offset
  (`retry_address`, against `connection.rs:411` in `recover_request`), so the bytes of a
  half-received response are joined with the first ones of the new stream;
* explicit arguments override a profile's values (`designs/v0.3.0_contract.md`), but
  the checks look at the merged options: `--replay-rounds` is refused because the
  profile has a duration, `-n` because the profile has rounds, `--replay-order
  sequential` because the profile has a seed.  A refusal is loud, which is why
  `NothingIgnored` holds;
* a profile with both sections uses the static one even when `load_profile.mode` is
  `log_replay` (`UseStatic`; `designs/v0.3.0_design.md:95` calls a section active if it
  is the mode), and an argument such as `-X` puts aside the headers and the body of the
  static section too;
* the rounds of a summary are the responses divided by the entries of the log, so
  they say nothing of which entries were answered when some were abandoned (`Finish`).

## 4. Proofs

The proofs use the assumptions named in the modules and the hypotheses of their theorems.

### Worker

Assumed: limits, budget, addresses, opening tries and request length are positive,
the timeout and the pace delays are naturals.  `Worker_proofs` proves

* `TypeCorrect`: `Spec => []TypeOK`, which includes that `recovery_attempts` never
  exceeds the budget;
* `AccountsBalance`, `RequestsAccounted`, `RecoveryBounded`, `AbandonmentEarned`,
  `RequestsKept`, `ActiveCountsLive`, `RecoveryNeverFallsThrough`: the safety
  properties of the same names as in the runs.

None of these is inductive alone: what a worker owes when it returns follows only
from what each connection owes at every moment.  `Inv` conjoins `TypeOK`,
`ActiveIsLive`, `NeverFallsThrough` and `Accounting`: a live connection has fewer
answers than its limit, nothing abandoned and one request more drawn than answered;
a finished one has answered and abandoned exactly its limit; one that never opened
has abandoned all of it after exactly `ConnectionAttempts` failures, or is still to
be tried; connections are opened in order.  `Accounting` is checked by TLC in
`Worker_fixed`.

The step proof does not go action by action through the invariant.  `NextShapes`
first shows that every step is an opening step, a `Control` step, or a `Touch` of
one live connection that is the same request again, one more response, or a stop at
the limit; lemmas about each method of `Connection` supply what it contributes.  The invariant
is then preserved by four shapes.

`WorkerKeepsContract`, `Spec => KeepsContract`, holds for every number of
connections, limit, budget, timeout, deadline and pace.  For a fixed run `Inv` is
enough: an answer is given by a connection that owes one (`LiveOwes`), what is
abandoned is all that is owed, and a worker that returns owes nothing.  For a
duration run the contract also says that no summary comes early, and `Inv` does not
know why a connection is done; `Timely` adds that one which is done was stopped by
the deadline, so that a loop left for want of live connections is left after it.
`StepRefines` shows that each step maps to one of the contract's or to a stutter, by
the same four shapes.

### The timers of a worker

`WorkerTimers_proofs` is about what wakes the worker.  `NoLostWakeup` is not inductive: an
entry of a heap is current or stale by its generation, and whether it is there when it is
needed depends on what scheduled it several steps before.  The inductive invariant is
`TimersInOrder` (`TimersKept`; TLC checks it in `Worker_duration`): the instants of a live
connection fit together (`WellTimed`: a started request has no slot ahead, a connection
that waits for its slot has not started, and so on), a current entry of a heap is the one
its connection asks for and no entry is of a generation to come (`EntriesAgree`), every
live connection has a current entry or is past its slot (`IsAwaited`), and readiness
belongs to the stream in hand (`ReadinessIsFresh`).

A step is sorted by what it does to the timers of its one connection: it leaves them
(`Kept`), starts a new generation and schedules it (`Renewed`), finishes the connection
(`Gone`), takes it off the pacing heap at its slot (`Resumed`), or ends the worker
(`Aborts`).  `TimersInOrder` is preserved by each of these, and each of the branches of the
loop is shown to be one of them.  From it follow `WakeupsNotLost`, `ParkedAreWoken` and
`TimeoutsEarned` (a timeout fails only what is old enough, so no stale timer fails a later
request) for every worker, and two results that hold of some configurations only:

* `StartsChecked` (`StartsAreChecked`): a request is started by a step that began before
  the deadline, and is stamped within that step.  It does not say that nothing starts after
  the deadline, which is not so: the test and the stamp are two readings of the clock, and
  the deadline may pass between them.  What it excludes is a way to a first write that tests
  nothing.  The property is about plain HTTP, because over TLS there is such a way: the
  handshake probe of `mod.rs:814` calls `write_request` before the deadline is looked at,
  and when the handshake has just ended the request starts;
* `RecoveryCounted` (`RecoveryIsCounted`) assumes a fixed run; a duration run does not
  count the connect retries (see section 3).

### RequestSequence

Assumed: a log sorted by time and not empty, a positive speed.  `IInv` conjoins
`PacerTypes`; `RateInv`, that the fixed-rate pacer stands at least one interval past
the last slot it gave; and `CursorInv`, that a thread which is inside `next` of a
timestamp replay is the holder of the mutex, that its entry (or, when nobody is
inside, the cursor) follows the last one reserved, and that the pacer remembers the
stamp and the slot of that one.  From it follow
`RateIsGlobal` (`SlotsAreSpaced`) and `TimestampsInOrder` (`LogOrderIsKept`) for any
number of threads and calls and in any order of the instants they read: spacing
needs only that the pacer never goes back, order needs the mutex.

`StagesKeepRate` (`StageQuota`) rests on `StageInv`: the slots never go back, the pacer
stands past the last one by the interval of the stage that one is in or at the end of
that stage, slots within a stage are an interval apart, and a slot that
skips the end of a stage was asked for that late.

`RoundsStayEven` (`RoundsAreEven`) rests on `RoundInv`: each order goes through a
permutation of the entries and the entries before its position have been drawn once more
than the ones after it.  For the shuffle that needs the result of a Fisher-Yates pass to be
a permutation, whatever the random state says; the pass is a recursive function.

### Response

`Response_proofs` assumes that the limit on a header is positive (the code has 64 KiB) and
proves `BuffersStayBounded` (`BufferIsBounded`) and `SegmentationDoesNotMatter`
(`AgreesWithWhole`), for every response and every way of cutting it.  The text of the head
and the buffer of the chunked decoder are always stretches of the bytes of the response, so
that a search in them and the same search in the whole find the same place
(`FindsSame`, `ReadsSameSize`).  `DecoderInv` says it state by state: before the head has
ended, all that was received is in hand and no end is in it (`HeadInv`); afterwards
(`BodyInv`) the count of a sized body or of one that ends with the stream is the bytes
after the head, and a chunked body is at a position `a` such that, for every later amount
of bytes, the whole amounts to what was counted plus what the reference makes of the rest
from `a` (`ChunkState`).  The clause quantifies over what is still to come because the
decoder does not wait to know it; each turn of the loop moves `a` past one token, and the
reference, a recursive function from the last byte to the first, unfolds by the same token.

### UriTop and Run

Assumed: finitely many URIs, lists of positive capacity.  `Run_proofs` shows that
`Record` and `Merge` take lists that bound the true counts to lists that do: the
estimate is no less than the count, estimate minus error no more, and an untracked
URI has occurred at most as often as the least estimate of a full list.  It
proves `TopBoundsHold` with
`ListInv` (`TypeOK` and `TopBounds`: the list of every worker bounds what that
worker has seen, the merged list what the joined workers have), and `ScopeWaits`
with `JoinInv` (the joined workers have ended).

`HeavyHittersKept` needs to know how large a least estimate can be.  `Weight` is the sum of
the estimates of a list: recording adds one to it, merging and truncating at most add two
weights, so it never exceeds the responses recorded (`WeightInv`).  A full list holds
`Capacity` estimates, none below the least, so `Capacity` times the least is at most the
responses, and a URI with more than its share cannot be untracked.

`SplitStaysExact` adds up the shares: `L \div n` for each of `n` connections and one more
for the first `L % n` make `L`, and dealing the connections out to threads regroups the sum.
`RunIsAccounted` (`RunAccounts`) follows with `AccountInv`: a worker that returned owes
nothing, and the merged summary accounts for the quotas of the workers joined so far.

### ReplayInput

Assumed of an input: its lines are of `LineType`, patterns are a list of sequences of bytes, a
limit is at most the largest u64, and a run without a replay has no file.  The three
theorems about loads also have the hypothesis `PlainUris`: no URI that patterns are applied
to contains a `*`.  It cannot be dropped: `ReplayInput_v_glob` shows what happens without.

`GlobIsRight` compares the loop of `glob_matches`, which remembers one star only, with the
reference, for every pattern and every text without stars.
- That the loop returns: going back increases `retry`, and every other turn advances in the
  pattern, or in both; `Measure` weighs the first by more than the others can ever amount to.
- `SinceStar`: between the last star and where the loop is, the pattern has only literals,
  so the text taken since is exactly as long as they are.
- `Ahead`: the loop returns true exactly when what is left matches, or what follows the last star
  matches from a place later than the one being tried.  When a further star is met the
  second alternative is forgotten, and that is where `SinceStar` is needed: a match from a
  later place takes the same literals and so reaches the new star later (`LaterPlace`),
  and the new star can skip to there itself.

`LoadInv` says of each stage what holds when it is reached.  While lines are read, the
requests are those of the replayable lines before `line` (`AreOf`: there is an increasing
enumeration of the lines that the requests come from), requests and skipped records are
together as many as the lines that are not blank, and none of the lines is fatal.  After the
whitelist the requests are those of `Wanted`, by induction on the requests and
`GlobIsRight`.  `StampsInOrder` compares neighbours and `Acceptable` all pairs; they agree
because what is replayed has integer stamps or none.  A refusal happens in each stage for a reason that
`Acceptable` names, and nothing else is left when the limit is set: this gives
`RefusalsHaveCause`; `WantedAreReplayed` and `LoadIsAccounted` are parts of `LoadInv`.

### CommandLine

Assumed: the arguments of a command are a sequence (`ArgumentsAssumption`), and `Unset`, the
absence of a value, is not a number (`UnsetAssumption`).  What numbers of requests, of
connections and durations are parsed to is not negative, and a number of requests is not
zero (`NumbersAssumption`; `execute` refuses it where it parses it); of a profile that can be
read the same, and its assertions are a list (`ProfileAssumption`).  Otherwise profiles and
files are arbitrary.  A run that does not fail has workers with responses to methods that
exist, with a status of three digits, and a time (`OutcomesAssumption`), in any number;
the units of time, the longest latency and the number of cells of width one are positive
(`UnitsAssumption`).  `Average`, `Divide`, `Times` and `InSeconds` are arbitrary.

`NoOptionIsDropped` (`NothingIgnored`) needs to know where each argument is on its way from
`argv` to the library.  `Kept` says it of the i-th: a flag is set, the value of a list option is in
its list, and any other value is in its variable, unless a later argument wrote to the same
variable.  `KeepsArguments` carries this over one turn of the loop, where a URL or a
`--data-binary` cannot be overwritten because a second one is refused.
`ProfileKeepsArguments` carries it over the merge: each setting asks whether its option was
given, and the stages, which two options share, ask about both (`ProfileLeavesGiven`).
At the call, `--stages` and `--replay-stages` are not both there, so what overrides an
argument has its name (`NotOverridden`), and for each option the checks exclude all that would
keep it from having its effect (`ArgumentsTakeEffect`): the body is from `--data` or from
`--data-binary`, replay options come with a replay, a speed with timestamps.

`EngineNeverRefuses` (`EngineAgrees`) is about two lists of checks, those of `execute` and
those of `validate_replay_options`.  The contradictions are the same in both, whatever part
came from the profile; that a number is not zero is looked at by `execute` for each
argument and by `profile::load` for each setting, and by neither again, so it has to be an
invariant of the options (`PositiveOptions`).  One check has no counterpart in `execute`: that
the durations of the stages can be added up (`validate_stages`), so both the property and
the theorem are about stages for which they can.

What `NothingIgnored` excepts is `--output-format text` beside `--output-beauty`: `execute`
replaces the format without a word (`OutputFormat`; `main.rs:479`), although it refuses
`json` there.

### Figures

`TablesStayInAgreement` (`TablesAgree`) compares tables that are built by different
operations: the totals, the method table, the status counts and the histograms are each
recorded, merged and corrected on their own.  What they have in common is the responses, so
the proof puts the *log* of the run, the responses by worker and place, between them.
`Counts(bag, key, X)` says that a bag counts the elements of `X` by their key, and
`Describes(s, log, X)` that the summary `s` is one of the responses in `X`: each number is a
cardinality and each bag counts by latency or by status, for the run and for each method.

- `RecordDescribes` and `MergeDescribes`: recording adds one response to what a summary
  describes, merging joins two disjoint sets of responses.  `WorkerDescribes` and
  `JoinDescribes` go through the responses of a worker and through the workers, along the
  recursive functions of `WorkerSummary` and `JoinWorkers` (`RecordingExists`,
  `JoiningExists`: that these functions exist).
- `HoldsCorrected`: a corrected histogram counts samples, the responses
  themselves (`Firsts`) and one for each response and each round of the loop for it (`Laters`).
  `LatersAreCounted` regroups the latter: the loop goes over the recorded cells and in each
  round adds as many as the cell holds, and rounds for several cells may add to the same one
  (`Sources`).  What is added depends on the cell of a
  response alone, which is why correcting the methods one by one adds up to correcting the run
  (`TablesAddUp`); with the values that are added corrected again, as in the mutant, it
  would not.
- `EndInv`, below: there is a summary only once the run has ended, and then it is the one that
  `Finish` makes of the workers' responses.

`GateIsRight` (`GateHolds`) compares two ways to look at a run.  The program reads figures off
a corrected, merged histogram, a bag of cells; the reference `IsTrue` looks at pairs of a
response and a place before it.  The argument, from the histogram to the exit status:

- `ReferenceIs` and `SummarySampled`: the reference's samples are the ones that the corrected
  histogram counts, by their cell; nothing is used of the cells but that each
  is named by a number that depends on the latency (`CellType`).
- `QuantileIs`, of any bag that counts a finite set by a key: the least value that
  enough of the bag is at or below is the one value of the set with that many elements at or
  below it and fewer below.  For the mean the bag itself is the reference's
  (`MeansAgree`), so any `Average` of it agrees.
- `EndedFigures`: the summary of a run that ended well has such a histogram, its counters are sums over the
  workers, and its time is the reference's `Span`.  The interval is positive because the
  divisor, the number of connections, is not zero, and that depends on how the run was
  configured.
- `FiguresAgree` and `AssertionsAreTrue` go through the metrics: the reference measures the
  one value that `MetricValue` gives, or none exactly when the histogram is empty and the metric
  is a latency; so `Evaluate` and `IsTrue` agree.

The inductive invariant follows the assertions and the numbers from the arguments to the
gate.  `OptionsInv`: the list of assertions holds those of the arguments parsed so far, and
after the profile all of `Claims`; the numbers stay numbers, and a number of requests that was given is
there.  `JobInv`: a run that is accepted has at least one connection, and a run without a limit has a
duration, because without `--requests` the default applies and `--replay-rounds` excludes
`--requests`; without this the divisor in `Finish` could be zero and `Span` undefined.
`EndInv`: once there is an outcome the summary is the one reckoned from it (`Reckoned`), and each later phase
records which way `Gate` and `Report` went.

### Recursive definitions and sums

The induction theorems of the library cannot be used, but most facts about a recursive
function or a fold can be proved without them: assume that it fails somewhere, take the
least place where it does (the naturals are well founded), unfold the definition once
and find that it fails at a smaller one.  `RequestSequence_proofs` does so for the shuffle,
`Response_proofs` for the reference of the chunks and for the hexadecimal digits,
`Sums_proofs` for sums over finite sets, by the least cardinality, and `ReplayInput_proofs`
for the glob, its reference and the whitelist.  That a function with the recursive
equation exists at all is proved in the same way.

### Only model-checked

Liveness, which includes that `feed` returns (outside the prover's reach);
loads of files with stars in URIs that are matched against patterns; `RecoveryIsCounted` is
checked and proved of fixed runs.

## 5. Not modelled, and the plan

Not modelled: errors of the mio registry and of constructing a TLS client (both end
the run), name resolution, the parsing of targets, log lines and option values (each
is represented by what it parses to), the encoding of requests, byte counts, and the text,
JSON and HTML of reports.  The arithmetic of f64 is in the model only as unknown functions
of its arguments.
Numbers are small: overflow of instants and of durations, other than the sum of stages, is
out of scope.  The text of
heads and requests is abstracted throughout.  The limit on a header is compared with the length of the
head when its end has arrived and with everything received when it has not, so
within three bytes of the limit the verdict depends on the segmentation: the same
response may be refused after one piece and accepted in another cut.
`AgreesWithWhole` compares each verdict with the bytes received by then, so it holds
of both.

Plan, in order:

1. the decoder across retries of one connection, where its bytes may outlive the
   stream they came from;
2. `Run` composed of the contracts of its workers, so that `RunAccounts` rests on
   `WorkerKeepsContract`.
