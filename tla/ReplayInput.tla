---------------------------- MODULE ReplayInput ----------------------------
(***************************************************************************)
(* From what a run is asked for to the run it sets up: the access-log and  *)
(* the request-file reader, the whitelist, the timestamp check and the     *)
(* limit that replay rounds give.  This happens before any network I/O, in *)
(* sequence: one action per line read and one per later stage.             *)
(*                                                                         *)
(* A line is blank, unreadable (an I/O error, not UTF-8, over the length   *)
(* limit), noise (no request field, no JSON object) or a record: a method, *)
(* a URI, a timestamp, and whether the rest of it is well formed.  URIs    *)
(* and patterns are sequences of bytes, for the sake of the glob; a byte   *)
(* is named by its character, "blank" when it is b' ' or below and         *)
(* "foreign" when it is part of a character beyond ASCII.                  *)
(***************************************************************************)
EXTENDS Integers, Sequences, FiniteSets, SequencesExt

CONSTANTS
  Inputs,       \* what a run is asked for and the lines of its file: [job, file]
  NoStamp,      \* a record without a timestamp
  BadStamp,     \* a timestamp that cannot be parsed
  Unset,        \* an option that is not set
  MaxPatterns,  \* MAX_URI_PATTERNS
  MaxPattern,   \* MAX_PATTERN_BYTES
  TooLong(_),   \* whether stages last longer, all together, than a Duration can hold
  MaxCount      \* the largest u64

Kinds == {"blank", "unreadable", "noise", "record"}
Methods == {"GET", "HEAD", "POST", "BREW"}   \* the last is one that rload does not know

LineType ==
  [kind : Kinds, method : Methods, uri : Seq(STRING), stamp : Int \cup {NoStamp, BadStamp},
   valid : BOOLEAN]

\* A run without a replay file has no lines, a limit is a u64, and patterns are text.
ASSUME InputsAssumption ==
  \A in \in Inputs :
    /\ in.file \in Seq(LineType) /\ (in.job.source = "request" => in.file = <<>>)
    /\ in.job.patterns \in Seq(Seq(STRING))
    /\ in.job.limit \in 0..MaxCount /\ in.job.rounds \in Nat \cup {Unset}
ASSUME StampAssumption == NoStamp \notin Int /\ BadStamp \notin Int /\ NoStamp # BadStamp
ASSUME LimitsAssumption == MaxPatterns \in Nat /\ MaxPattern \in Nat /\ MaxCount \in Nat

VARIABLES
  job,        \* [source, opens, stamped, skip, methods, patterns, order, seed, rate, timestamps,
              \* speed, stages, rounds, limit, sound]: opens when the file and its schema can
              \* be opened and understood, stamped when the schema has a timestamp, limit 0 for
              \* a run that ends by its duration, sound when the target, RunConfig and
              \* the stages of an ordinary request are valid
  file,       \* the lines
  line,       \* the line to be read next
  requests,   \* the ReplayRequests so far
  skipped,    \* skipped_methods or skipped_records, all of them together
  filtered,   \* filtered_entries
  limit,      \* RunLimit::Requests, once it is known
  pc          \* "idle" (not called yet), "options", "open", "read", "filter", "stamps", "limit", "ready" or "failed"

vars == <<job, file, line, requests, skipped, filtered, limit, pc>>

Init ==
  /\ \E in \in Inputs : job = in.job /\ file = in.file
  /\ line = 1
  /\ requests = <<>>
  /\ skipped = 0
  /\ filtered = 0
  /\ limit = 0
  /\ pc = IF job.source = "request" THEN "limit" ELSE "options"

Fail == pc' = "failed" /\ UNCHANGED <<job, file, line, requests, skipped, filtered, limit>>

(***************************************************************************)
(* validate_replay_options; a stage is its rate, 0 when the rate or the    *)
(* duration is zero, and a speed is 0 when it is not positive.  Of the     *)
(* durations of the stages, TooLong says whether they can be added up.     *)
(***************************************************************************)
ValidOptions ==
  /\ job.seed # Unset => job.order # "sequential"
  /\ job.rounds # 0
  /\ job.rounds # Unset => job.order # "random"
  /\ job.timestamps => job.order = "sequential" /\ job.rate = Unset
  /\ job.stages # <<>> => job.rate = Unset /\ ~job.timestamps
  /\ \A i \in DOMAIN job.stages : job.stages[i] # 0
  /\ ~TooLong(job.stages)
  /\ job.speed # 0

ValidateOptions ==
  /\ pc = "options"
  /\ \/ ~ValidOptions /\ Fail
     \/ /\ ValidOptions
        /\ pc' = "open"
        /\ UNCHANGED <<job, file, line, requests, skipped, filtered, limit>>

(***************************************************************************)
(* The readers: what becomes of a line.                                    *)
(***************************************************************************)
\* File::open and compile_schema
Open ==
  /\ pc = "open"
  /\ \/ ~job.opens /\ Fail
     \/ /\ job.opens
        /\ pc' = "read"
        /\ UNCHANGED <<job, file, line, requests, skipped, filtered, limit>>

\* access_log: an unknown method is looked at first, and skipped; a timestamp that cannot
\* be parsed counts as missing.
IsSkippedMethod(l) == l.kind = "record" /\ l.method \notin {"GET", "HEAD"}
IsLogRequest(l) == l.kind = "record" /\ l.method \in {"GET", "HEAD"} /\ l.valid
LogStamp(l) == IF l.stamp = BadStamp THEN NoStamp ELSE l.stamp

\* request_file: timestamps are looked at only when they are asked for, by the run or by
\* the schema, and then one that cannot be parsed spoils its record.
Timed == job.timestamps \/ job.stamped
IsFileRequest(l) ==
  /\ l.kind = "record" /\ l.method # "BREW" /\ l.valid
  /\ Timed => l.stamp # BadStamp
FileStamp(l) == IF Timed THEN l.stamp ELSE NoStamp

FromLog == job.source = "access_log"
IsRequest(l) == IF FromLog THEN IsLogRequest(l) ELSE IsFileRequest(l)
ReplayRequest(l) ==
  [method |-> l.method, uri |-> l.uri, stamp |-> IF FromLog THEN LogStamp(l) ELSE FileStamp(l)]

IsSkipped(l) ==
  IF FromLog THEN IsSkippedMethod(l)
  ELSE job.skip /\ l.kind \in {"noise", "record"} /\ ~IsFileRequest(l)

\* read, and decode_records with read_line
ReadLine ==
  /\ pc = "read" /\ line <= Len(file)
  /\ \/ /\ file[line].kind = "blank"
        /\ UNCHANGED <<requests, skipped>>
     \/ /\ IsRequest(file[line])
        /\ requests' = Append(requests, ReplayRequest(file[line]))
        /\ UNCHANGED skipped
     \/ /\ IsSkipped(file[line])
        /\ skipped' = skipped + 1
        /\ UNCHANGED requests
  /\ line' = line + 1
  /\ UNCHANGED <<job, file, filtered, limit, pc>>

ReadFails ==
  /\ pc = "read" /\ line <= Len(file)
  /\ file[line].kind # "blank" /\ ~IsRequest(file[line]) /\ ~IsSkipped(file[line])
  /\ Fail

\* The end of read and finish_requests.
EndOfFile ==
  /\ pc = "read" /\ line > Len(file)
  /\ \/ requests = <<>> /\ Fail
     \/ /\ requests # <<>>
        /\ pc' = "filter"
        /\ UNCHANGED <<job, file, line, requests, skipped, filtered, limit>>

(***************************************************************************)
(* The whitelist.                                                          *)
(***************************************************************************)
IsPattern(p) ==
  /\ Len(p) <= MaxPattern /\ p # <<>> /\ p[1] = "/"
  /\ \A i \in 1..Len(p) : p[i] \notin {"#", "blank", "foreign"}

\* A pattern that is given twice counts twice.
ValidFilter ==
  /\ Len(job.patterns) <= MaxPatterns
  /\ \A p \in Range(job.patterns) : IsPattern(p)

Allowed == Range(job.patterns)

\* What pattern.get(i) == Some(c) says, with i counted from 0.
Has(p, i, c) == i < Len(p) /\ p[i + 1] = c

\* Where glob_matches is; star is the position of the last star seen, -1 when there was none.
Index(pattern, value, star, retry) ==
  [pattern |-> pattern, value |-> value, star |-> star, retry |-> retry]

\* Mutant of GlobTurn: there is no going back to the last star.
GlobTurn_NoBacktrack(p, v, loop, x) ==
  IF x.value = Len(v) THEN \A i \in (x.pattern + 1)..Len(p) : p[i] = "*"
  ELSE IF Has(p, x.pattern, v[x.value + 1])
  THEN loop[Index(x.pattern + 1, x.value + 1, x.star, x.retry)]
  ELSE Has(p, x.pattern, "*") /\ loop[Index(x.pattern + 1, x.value, x.pattern, x.value)]

\* One turn of the loop of glob_matches, or what follows the loop.
GlobTurn(p, v, loop, x) ==
  IF x.value = Len(v) THEN \A i \in (x.pattern + 1)..Len(p) : p[i] = "*"
  ELSE IF Has(p, x.pattern, v[x.value + 1])
  THEN loop[Index(x.pattern + 1, x.value + 1, x.star, x.retry)]
  ELSE IF Has(p, x.pattern, "*")
  THEN loop[Index(x.pattern + 1, x.value, x.pattern, x.value)]
  ELSE x.star # -1 /\ loop[Index(x.star + 1, x.retry + 1, x.star, x.retry + 1)]

Indices(p, v) ==
  {x \in [pattern : 0..Len(p), value : 0..Len(v), star : -1..(Len(p) - 1), retry : 0..Len(v)] :
     x.retry <= x.value}

GlobMatches(p, v) ==
  LET loop[x \in Indices(p, v)] == GlobTurn(p, v, loop, x)
  IN  loop[Index(0, 0, -1, 0)]

\* Mutant of Passes: one of the two whitelists is enough.
Passes_Either(r) ==
  \/ job.methods = {} /\ Allowed = {}
  \/ r.method \in job.methods
  \/ \E p \in Allowed : GlobMatches(p, r.uri)

Passes(r) ==
  /\ job.methods = {} \/ r.method \in job.methods
  /\ Allowed = {} \/ \E p \in Allowed : GlobMatches(p, r.uri)

\* The first n requests of s, less those that do not pass.
Retain(s, kept, n) ==
  IF n = 0 THEN <<>>
  ELSE IF Passes(s[n]) THEN Append(kept[n - 1], s[n]) ELSE kept[n - 1]

Retained(s) == LET kept[n \in 0..Len(s)] == Retain(s, kept, n) IN kept[Len(s)]

ApplyFilter ==
  /\ pc = "filter"
  /\ LET kept == Retained(requests)
     IN  \/ (~ValidFilter \/ kept = <<>>) /\ Fail
         \/ /\ ValidFilter /\ kept # <<>>
            /\ requests' = kept
            /\ filtered' = Len(requests) - Len(kept)
            /\ pc' = "stamps"
            /\ UNCHANGED <<job, file, line, skipped, limit>>

(***************************************************************************)
(* validate_timestamps, on what the whitelist has left.                    *)
(***************************************************************************)
StampsInOrder ==
  /\ \A i \in 1..Len(requests) : requests[i].stamp # NoStamp
  /\ \A i \in 2..Len(requests) : requests[i].stamp >= requests[i - 1].stamp

ValidateTimestamps ==
  /\ pc = "stamps"
  /\ \/ job.timestamps /\ ~StampsInOrder /\ Fail
     \/ /\ ~job.timestamps \/ StampsInOrder
        /\ pc' = "limit"
        /\ UNCHANGED <<job, file, line, requests, skipped, filtered, limit>>

(***************************************************************************)
(* run_with_roots: the target, the configuration and the limit of the run. *)
(* A run without a replay file begins here.                                *)
(***************************************************************************)
\* Mutant of Requested: the rounds are those of the whole file.
Requested_All == IF job.rounds = Unset THEN job.limit ELSE (Len(requests) + filtered) * job.rounds

Requested == IF job.rounds = Unset THEN job.limit ELSE Len(requests) * job.rounds

SetLimit ==
  /\ pc = "limit"
  /\ \/ (~job.sound \/ Requested > MaxCount) /\ Fail
     \/ /\ job.sound /\ Requested <= MaxCount
        /\ limit' = Requested
        /\ pc' = "ready"
        /\ UNCHANGED <<job, file, line, requests, skipped, filtered>>

Next ==
  \/ ValidateOptions \/ Open \/ ReadLine \/ ReadFails \/ EndOfFile
  \/ ApplyFilter \/ ValidateTimestamps \/ SetLimit

Spec == Init /\ [][Next]_vars

(***************************************************************************)
(* The reference: what the file holds, looked at as a whole.               *)
(***************************************************************************)
\* `*` matches any sequence, every other character itself: the places in v from which the
\* pattern, from its i-th character on, matches.
MatchedFrom(p, v, from, i) ==
  LET next == from[i + 1]
  IN  {j \in 1..(Len(v) + 1) :
         IF i > Len(p) THEN j > Len(v)
         ELSE IF p[i] = "*" THEN \E k \in next : j <= k
         ELSE j <= Len(v) /\ p[i] = v[j] /\ j + 1 \in next}

Matches(p, v) ==
  LET from[i \in 1..(Len(p) + 1)] == MatchedFrom(p, v, from, i)
  IN  1 \in from[1]

Lines == {i \in 1..Len(file) : file[i].kind # "blank"}
Replayable == {i \in Lines : IsRequest(file[i])}
Wanted ==
  {i \in Replayable :
     /\ job.methods = {} \/ file[i].method \in job.methods
     /\ Allowed = {} \/ \E p \in Allowed : Matches(p, file[i].uri)}

\* Lines that end the load: all that cannot be replayed, except an unknown method of an
\* access log and, where it is asked for, an invalid record of a request file.
Fatal ==
  {i \in Lines \ Replayable :
     IF FromLog THEN file[i].kind # "record" \/ file[i].method \in {"GET", "HEAD"}
     ELSE file[i].kind = "unreadable" \/ ~job.skip}

Stamp(i) == ReplayRequest(file[i]).stamp

AcceptableFile ==
  /\ ValidOptions /\ job.opens /\ ValidFilter
  /\ Fatal = {} /\ Wanted # {}
  /\ job.timestamps =>
       /\ \A i \in Wanted : Stamp(i) # NoStamp
       /\ \A i, j \in Wanted : i < j => Stamp(i) <= Stamp(j)
  /\ job.rounds # Unset => Cardinality(Wanted) * job.rounds <= MaxCount

Acceptable == job.sound /\ (job.source = "request" \/ AcceptableFile)

(***************************************************************************)
(* Properties.                                                             *)
(***************************************************************************)
\* A load fails exactly when there is a reason for it in the file or in what was asked for:
\* one bad line of a strict load, nothing left, timestamps out of order, too many rounds.
RefusedForCause == (pc = "failed" => ~Acceptable) /\ (pc = "ready" => Acceptable)

\* The requests of s are those of the lines in S, in the order of the file.
AreOf(s, S) ==
  \E at \in [1..Len(s) -> S] :
    /\ S = {at[k] : k \in 1..Len(s)}
    /\ \A j, k \in 1..Len(s) : j < k => at[j] < at[k]
    /\ \A k \in 1..Len(s) : s[k] = ReplayRequest(file[at[k]])

\* What is replayed are the wanted records of the file, in the order of the file, whatever
\* was skipped and filtered between them: those of an allowed method, with a URI that an
\* allowed pattern matches when `*` stands for any sequence.
ReplaysTheWanted == pc \in {"stamps", "limit", "ready"} => AreOf(requests, Wanted)

\* Each line of a loaded file is replayed, filtered or skipped, once, and a run of some
\* rounds sends each replayed line that many times.
LoadAccounts ==
  pc = "ready" =>
    /\ Len(requests) + filtered + skipped = Cardinality(Lines)
    /\ job.rounds # Unset => limit = job.rounds * Cardinality(Wanted)
=============================================================================
