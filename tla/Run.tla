--------------------------------- MODULE Run ---------------------------------
(***************************************************************************)
(* The coordinator of a run: run_with_roots of src/engine/mod.rs.  It      *)
(* splits the work into connections, deals the connections out to worker   *)
(* threads, joins the threads in the order it spawned them and merges      *)
(* their summaries.                                                        *)
(*                                                                         *)
(* A worker is seen from outside, by what module Worker shows of           *)
(* run_worker: it records responses, abandons requests, and returns its    *)
(* summary, an error or a panic; a fixed-request worker that returns its   *)
(* summary has answered or abandoned all it was given (NothingLost).       *)
(***************************************************************************)
EXTENDS UriTop, Functions

CONSTANTS
  NoLimit,           \* the request limit of a duration run
  Requests,          \* the request limits a run may be given, NoLimit included
  MaxConnections,    \* connections and ...
  MaxThreads,        \* ... threads are at most these
  MaxResponses       \* bound: responses per worker in a duration run

ASSUME NoLimitAssumption == NoLimit \notin Nat
ASSUME RequestsAssumption == Requests \subseteq (Nat \ {0}) \cup {NoLimit}
ASSUME RunBoundsAssumption ==
  MaxConnections \in Nat \ {0} /\ MaxThreads \in Nat \ {0} /\ MaxResponses \in Nat

VARIABLES
  config,    \* the validated RunConfig: [limit, connections, threads]
  worker,    \* [0..ThreadCount-1 -> "running", "ok", "error" or "panic"]
  summary,   \* the RunSummary of each worker
  truth,     \* the responses each worker has seen, per URI (history)
  joined,    \* workers joined so far
  total,     \* the merged RunSummary
  seen,      \* the responses of the joined workers, per URI (history)
  result     \* "none" while the run goes on, then "ok", "error", "panic" (as an error
             \* value) or "abort" (a panic of the caller)

vars == <<config, worker, summary, truth, joined, total, seen, result>>

Fixed == config.limit # NoLimit

(***************************************************************************)
(* connection_limits, and dealing the connections out.                     *)
(***************************************************************************)
Less(a, b) == IF a <= b THEN a ELSE b

ConnectionCount == IF Fixed THEN Less(config.connections, config.limit) ELSE config.connections

Connections == 0..(ConnectionCount - 1)

\* Mutant of ConnectionLimit: one connection too many gets the extra request.
ConnectionLimit_OneMore(i) ==
  (config.limit \div ConnectionCount) + (IF i <= config.limit % ConnectionCount THEN 1 ELSE 0)

\* ConnectionLimit::Requests of connection i in a fixed run
ConnectionLimit(i) ==
  (config.limit \div ConnectionCount) + (IF i < config.limit % ConnectionCount THEN 1 ELSE 0)

ThreadCount == Less(config.threads, ConnectionCount)

Workers == 0..(ThreadCount - 1)

ConnectionsOf(w) == {i \in Connections : i % ThreadCount = w}

Quota(w) == SumFunction([i \in ConnectionsOf(w) |-> ConnectionLimit(i)])

EmptySummary == [completed |-> 0, abandoned |-> 0, top |-> EmptyTop]

Init ==
  /\ config \in [limit : Requests, connections : 1..MaxConnections, threads : 1..MaxThreads]
  /\ worker = [w \in Workers |-> "running"]
  /\ summary = [w \in Workers |-> EmptySummary]
  /\ truth = [w \in Workers |-> [u \in Uris |-> 0]]
  /\ joined = 0
  /\ total = EmptySummary
  /\ seen = [u \in Uris |-> 0]
  /\ result = "none"

(***************************************************************************)
(* The workers.                                                            *)
(***************************************************************************)
Outstanding(w) == Quota(w) - summary[w].completed - summary[w].abandoned

\* record_response, as far as the accounts and the list go
RecordedSummaries(s, u) ==
  {[completed |-> s.completed + 1, abandoned |-> s.abandoned, top |-> top] :
     top \in Record(s.top, u)}

RecordResponse(w, u) ==
  /\ worker[w] = "running"
  /\ IF Fixed THEN Outstanding(w) > 0 ELSE summary[w].completed < MaxResponses
  /\ \E s \in RecordedSummaries(summary[w], u) : summary' = [summary EXCEPT ![w] = s]
  /\ truth' = [truth EXCEPT ![w][u] = @ + 1]
  /\ UNCHANGED <<config, worker, joined, total, seen, result>>

AbandonRequests(w) ==
  /\ worker[w] = "running" /\ Fixed
  /\ \E n \in 1..Outstanding(w) : summary' = [summary EXCEPT ![w].abandoned = @ + n]
  /\ UNCHANGED <<config, worker, truth, joined, total, seen, result>>

WorkerReturns(w) ==
  /\ worker[w] = "running"
  /\ Fixed => Outstanding(w) = 0
  /\ worker' = [worker EXCEPT ![w] = "ok"]
  /\ UNCHANGED <<config, summary, truth, joined, total, seen, result>>

WorkerFails(w) ==
  /\ worker[w] = "running"
  /\ \E how \in {"error", "panic"} : worker' = [worker EXCEPT ![w] = how]
  /\ UNCHANGED <<config, summary, truth, joined, total, seen, result>>

(***************************************************************************)
(* The coordinator.                                                        *)
(***************************************************************************)
MergedSummaries(a, b) ==
  {[completed |-> a.completed + b.completed, abandoned |-> a.abandoned + b.abandoned,
    top |-> top] : top \in Merge(a.top, b.top)}

\* Mutant of JoinNext: any finished worker is merged, not the next one.
JoinNext_Any ==
  /\ result = "none" /\ joined < ThreadCount
  /\ \E w \in Workers : worker[w] = "ok" /\ total' \in MergedSummaries(total, summary[w])
                   /\ seen' = [u \in Uris |-> seen[u] + truth[w][u]]
  /\ joined' = joined + 1
  /\ UNCHANGED <<config, worker, summary, truth, result>>

JoinNext ==
  /\ result = "none" /\ joined < ThreadCount /\ worker[joined] = "ok"
  /\ total' \in MergedSummaries(total, summary[joined])
  /\ seen' = [u \in Uris |-> seen[u] + truth[joined][u]]
  /\ joined' = joined + 1
  /\ UNCHANGED <<config, worker, summary, truth, result>>

\* Mutant of JoinFails: the error is reported at once.
JoinFails_AtOnce ==
  /\ result = "none" /\ joined < ThreadCount
  /\ worker[joined] \in {"error", "panic"}
  /\ result' = worker[joined]
  /\ UNCHANGED <<config, worker, summary, truth, joined, total, seen>>

\* The first failed worker in spawn order decides; the scope waits for the others, and
\* panics itself if one of those has panicked.
JoinFails ==
  /\ result = "none" /\ joined < ThreadCount
  /\ worker[joined] \in {"error", "panic"}
  /\ \A w \in Workers : worker[w] # "running"
  /\ result' = IF \E w \in Workers : w > joined /\ worker[w] = "panic"
               THEN "abort" ELSE worker[joined]
  /\ UNCHANGED <<config, worker, summary, truth, joined, total, seen>>

Report ==
  /\ result = "none" /\ joined = ThreadCount
  /\ result' = "ok"
  /\ UNCHANGED <<config, worker, summary, truth, joined, total, seen>>

Finished == result # "none" /\ UNCHANGED vars

WorkerStep(w) ==
  \/ \E u \in Uris : RecordResponse(w, u)
  \/ AbandonRequests(w) \/ WorkerReturns(w) \/ WorkerFails(w)

Next == (\E w \in Workers : WorkerStep(w)) \/ JoinNext \/ JoinFails \/ Report \/ Finished

Spec == Init /\ [][Next]_vars

Summaries == [completed : Nat, abandoned : Nat, top : Tops]

TypeOK ==
  /\ config \in [limit : Requests, connections : 1..MaxConnections, threads : 1..MaxThreads]
  /\ worker \in [Workers -> {"running", "ok", "error", "panic"}]
  /\ summary \in [Workers -> Summaries]
  /\ truth \in [Workers -> [Uris -> Nat]]
  /\ joined \in 0..ThreadCount
  /\ total \in Summaries
  /\ seen \in [Uris -> Nat]
  /\ result \in {"none", "ok", "error", "panic", "abort"}

(***************************************************************************)
(* Properties.                                                             *)
(***************************************************************************)
\* Every request is some connection's, no connection is given none, no thread is left
\* without connections, and shares differ by at most one.
SplitIsExact ==
  /\ Fixed => /\ SumFunction([w \in Workers |-> Quota(w)]) = config.limit
              /\ \A i, j \in Connections : /\ ConnectionLimit(i) > 0
                                           /\ ConnectionLimit(i) <= ConnectionLimit(j) + 1
  /\ \A w \in Workers : ConnectionsOf(w) # {}

\* A fixed run that reports has answered or abandoned every request, once.
RunAccounts == Fixed /\ result = "ok" => total.completed + total.abandoned = config.limit

\* A run reports, whatever it reports, only after every worker thread has ended.
NoWorkerOutlivesTheRun == result # "none" => \A w \in Workers : worker[w] # "running"

\* In every worker's list and in the merged one, the true count of a tracked URI is
\* between its estimate less its error and its estimate; an untracked URI has been seen
\* no more often than the least tracked one.
TopBounds ==
  /\ \A w \in Workers : BoundsHold(summary[w].top, truth[w])
  /\ BoundsHold(total.top, seen)

\* A list tracks every URI that has more than its share of the responses: in each
\* worker, and still after the lists have been merged and truncated.
HeavyHittersTracked ==
  \A u \in Uris :
    /\ \A w \in Workers :
         truth[w][u] * Capacity > summary[w].completed => u \in DOMAIN summary[w].top
    /\ seen[u] * Capacity > total.completed => u \in DOMAIN total.top
=============================================================================
