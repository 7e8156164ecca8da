------------------------------- MODULE Worker -------------------------------
(***************************************************************************)
(* One worker thread: run_worker of src/engine/mod.rs, with the            *)
(* connections of module Connection, the two timer heaps and the mio poll  *)
(* loop.                                                                   *)
(*                                                                         *)
(* `pc` is where the thread is: opening its connections, blocked in poll,  *)
(* handling the events poll returned, draining the deadline heap, draining *)
(* the pacing heap, or returned: "ok", or one of the errors.  An event     *)
(* handler is one step, and time passes within it: `now` is the handler's  *)
(* first reading of the clock and now' its last, at most MaxGap later.     *)
(* Opening and draining read the clock once per step.  Between two steps   *)
(* of the thread the kernel, the peers and the clock move, so an event is  *)
(* handled in a state that may have changed since poll reported it.        *)
(*                                                                         *)
(* The RunSummary counters are kept per connection (errors, abandoned,     *)
(* recovered; responses are conn[c].completed); the summary the worker     *)
(* returns holds their sums.                                               *)
(***************************************************************************)
EXTENDS Connection, Sequences, FiniteSets

CONSTANTS
  Limits,               \* ConnectionLimit::Requests of each connection, in order
  ConnectionAttempts,   \* FIXED_REQUEST_CONNECTION_ATTEMPTS
  \* Bounds of the model:
  MaxTime,              \* the clock stops here
  MaxLag,               \* how late, in ticks, a due timer may find the worker
  MaxGap,               \* how far the clock may advance within an event handler
  MaxFaults,            \* socket failures the network may cause per connection
  MaxResponses          \* responses per connection in a duration run

ASSUME LimitsAssumption == Limits \in Seq(Nat \ {0}) /\ Len(Limits) > 0
ASSUME AttemptsAssumption == ConnectionAttempts \in Nat \ {0}
ASSUME BoundsAssumption ==
  /\ MaxTime \in Nat /\ MaxLag \in Nat /\ MaxGap \in Nat
  /\ MaxFaults \in Nat /\ MaxResponses \in Nat

Conns == 1..Len(Limits)
Kinds == {"connect", "read", "write", "timeout"}
Errors == {"io_error", "tls_error", "protocol_error", "fell_through"}
Returned == {"ok"} \cup Errors

VARIABLES
  pc,         \* where the thread is
  cursor,     \* the limit being opened (the `for limit in limits` loop)
  attempts,   \* failed tries at opening it
  conn,       \* [Conns -> connection]
  active,     \* connections still to finish
  batch,      \* [Conns -> readiness not yet handled]: "E" error, "W" writable, "R" readable
  deadlines,  \* the timeout heap
  pacing,     \* the pacing heap
  errors,     \* [Conns -> [Kinds -> Nat]]: SocketErrors
  abandoned,  \* [Conns -> Nat]: abandoned_requests
  recovered,  \* [Conns -> Nat]: recovery_attempts
  now         \* the clock

vars == <<pc, cursor, attempts, conn, active, batch, deadlines, pacing,
          errors, abandoned, recovered, now>>
counters == <<errors, abandoned, recovered>>
timers == <<deadlines, pacing>>

Timers == [at : Nat, token : Conns, generation : Nat]

Opened(c) == conn[c].drawn > 0
Live(c) == ~conn[c].done

FaultsLeft(c) == errors[c]["connect"] + errors[c]["read"] + errors[c]["write"] < MaxFaults

(***************************************************************************)
(* The timer heaps: sets of entries ordered by (deadline, token,           *)
(* generation).  A stale entry is dropped only when it reaches the top.    *)
(***************************************************************************)
Before(e, f) ==
  \/ e.at < f.at
  \/ e.at = f.at /\ e.token < f.token
  \/ e.at = f.at /\ e.token = f.token /\ e.generation <= f.generation

IsTop(e, heap) == e \in heap /\ \A f \in heap : Before(e, f)

\* Mutant of Current: the generation is not compared.
Current_AnyGeneration(e) == Live(e.token)

Current(e) == Live(e.token) /\ conn[e.token].timer_generation = e.generation

CurrentPace(e) == Current(e) /\ PacingDeadline(conn[e.token]) = e.at

DiscardStaleDeadlines == {e \in deadlines : \E f \in deadlines : Current(f) /\ Before(f, e)}

DiscardStalePacing == {e \in pacing : \E f \in pacing : CurrentPace(f) /\ Before(f, e)}

\* schedule_deadline and schedule_pacing, as sets of at most one entry
DeadlineEntry(c, k) ==
  {[at |-> at, token |-> c, generation |-> k.timer_generation] :
     at \in {NextDeadline(k)} \ {NoTime}}

PacingEntry(c, k) ==
  {[at |-> at, token |-> c, generation |-> k.timer_generation] :
     at \in {PacingDeadline(k)} \ {NoTime}}

\* Connection c becomes k, with fresh entries in both heaps (d, p: the heaps before).
Rearm(c, k, d, p) ==
  /\ conn' = [conn EXCEPT ![c] = k]
  /\ deadlines' = d \cup DeadlineEntry(c, k)
  /\ pacing' = p \cup PacingEntry(c, k)

Init ==
  /\ pc = "connect"
  /\ cursor = 1
  /\ attempts = 0
  /\ conn = [c \in Conns |-> Unopened(Limits[c])]
  /\ active = 0
  /\ batch = [c \in Conns |-> {}]
  /\ deadlines = {}
  /\ pacing = {}
  /\ errors = [c \in Conns |-> [kind \in Kinds |-> 0]]
  /\ abandoned = [c \in Conns |-> 0]
  /\ recovered = [c \in Conns |-> 0]
  /\ now = 0

Fail(outcome) ==
  /\ pc' = outcome
  /\ UNCHANGED <<cursor, attempts, conn, active, batch, timers, counters, now>>

(***************************************************************************)
(* Opening the connections, one limit after the other.                     *)
(***************************************************************************)
OpenConnection ==
  /\ pc = "connect" /\ cursor \in Conns
  /\ \E a \in ConnectFrom(0), slot \in Slots(now) :
       conn' = [conn EXCEPT ![cursor] = Connect(Limits[cursor], a, slot, now)]
  /\ cursor' = cursor + 1
  /\ attempts' = 0
  /\ UNCHANGED <<pc, active, batch, timers, counters, now>>

\* The run's time is up before this connection could be opened: the worker returns.
OpenGivesUpAtDeadline ==
  /\ pc = "connect" /\ cursor \in Conns
  /\ IsPastDeadline(now)
  /\ FaultsLeft(cursor)
  /\ errors' = [errors EXCEPT ![cursor]["connect"] = @ + 1]
  /\ pc' = "ok"
  /\ UNCHANGED <<cursor, attempts, conn, active, batch, timers, abandoned, recovered, now>>

\* Mutant of OpenFails: a connection that never opened is not counted as abandoned.
OpenFails_Uncounted ==
  /\ pc = "connect" /\ cursor \in Conns /\ ~IsPastDeadline(now) /\ FaultsLeft(cursor)
  /\ errors' = [errors EXCEPT ![cursor]["connect"] = @ + 1]
  /\ attempts' = IF attempts + 1 = ConnectionAttempts THEN 0 ELSE attempts + 1
  /\ cursor' = IF attempts + 1 = ConnectionAttempts THEN cursor + 1 ELSE cursor
  /\ UNCHANGED <<pc, conn, active, batch, timers, abandoned, recovered, now>>

OpenFails ==
  /\ pc = "connect" /\ cursor \in Conns
  /\ ~IsPastDeadline(now)
  /\ FaultsLeft(cursor)
  /\ errors' = [errors EXCEPT ![cursor]["connect"] = @ + 1]
  /\ IF Fixed /\ attempts + 1 = ConnectionAttempts
     THEN /\ abandoned' = [abandoned EXCEPT ![cursor] = @ + Limits[cursor]]
          /\ cursor' = cursor + 1
          /\ attempts' = 0
     ELSE /\ attempts' = IF Fixed THEN attempts + 1 ELSE attempts
          /\ UNCHANGED <<abandoned, cursor>>
  /\ UNCHANGED <<pc, conn, active, batch, timers, recovered, now>>

EnterLoop ==
  /\ pc = "connect" /\ cursor \notin Conns
  /\ pc' = "poll"
  /\ active' = Cardinality({c \in Conns : Live(c)})
  /\ deadlines' = UNION {DeadlineEntry(c, conn[c]) : c \in {d \in Conns : Live(d)}}
  /\ pacing' = UNION {PacingEntry(c, conn[c]) : c \in {d \in Conns : Live(d)}}
  /\ UNCHANGED <<cursor, attempts, conn, batch, counters, now>>

\* Mutant of LeaveLoop: the loop ends with one connection still live.
LeaveLoop_OneLeft ==
  /\ pc = "poll" /\ active <= 1
  /\ pc' = "ok"
  /\ UNCHANGED <<cursor, attempts, conn, active, batch, timers, counters, now>>

LeaveLoop ==
  /\ pc = "poll" /\ active = 0
  /\ pc' = "ok"
  /\ UNCHANGED <<cursor, attempts, conn, active, batch, timers, counters, now>>

(***************************************************************************)
(* Polling.  The heaps lose their stale tops; poll returns readiness, or   *)
(* nothing once the earliest timer is due.  What the kernel reports is     *)
(* free, but a socket that is connected, has nothing queued and is         *)
(* registered for writing is reported writable.                            *)
(***************************************************************************)
Readiness(c) ==
  LET k == conn[c]
  IN  (IF k.interest # {} THEN {"R"} ELSE {})
      \cup (IF k.interest # {} /\ FaultsLeft(c) THEN {"E"} ELSE {})
      \cup (IF "W" \in k.interest /\ k.established THEN {"W"} ELSE {})

IsWritable(c) ==
  LET k == conn[c]
  IN  "W" \in k.interest /\ k.established /\ ~HasStarted(k) /\ ~k.handshaking

PollWakes ==
  \/ \E c \in Conns : batch'[c] # {}
  \/ \E e \in deadlines' \cup pacing' : e.at <= now

Poll ==
  /\ pc = "poll" /\ active > 0
  /\ deadlines' = DiscardStaleDeadlines
  /\ pacing' = DiscardStalePacing
  /\ batch' \in {b \in [Conns -> SUBSET {"E", "W", "R"}] :
                   \A c \in Conns : /\ b[c] \subseteq Readiness(c)
                                    /\ IsWritable(c) => "W" \in b[c]}
  /\ PollWakes
  /\ pc' = "events"
  /\ UNCHANGED <<cursor, attempts, conn, active, counters, now>>

(***************************************************************************)
(* What the handlers have in common.  Each of these fixes the next values  *)
(* of pc, conn, active, the heaps and the counters; d is the deadline heap *)
(* the handler works on.                                                   *)
(***************************************************************************)
Count(c, kind, tries, lost) ==
  /\ errors' = [errors EXCEPT ![c][kind] = @ + 1]
  /\ recovered' = [recovered EXCEPT ![c] = @ + tries]
  /\ abandoned' = [abandoned EXCEPT ![c] = @ + lost]

\* `return Err(..)` out of run_worker
Abort(error) ==
  /\ pc' = error
  /\ UNCHANGED <<conn, active, timers, counters>>

\* Connection c, now k, counts as finished: `active -= 1`.
Retire(c, k, d) ==
  /\ conn' = [conn EXCEPT ![c] = k]
  /\ active' = active - 1
  /\ deadlines' = d
  /\ UNCHANGED <<pc, pacing>>

\* A failure of a started request, met at instant t.
Recover(c, k, kind, d, t) ==
  \E o \in RecoverRequest(k, t, now') :
    \/ /\ o.ret = "yes"
       /\ Rearm(c, o.conn, d, pacing)
       /\ Count(c, kind, o.attempts, 0)
       /\ UNCHANGED <<pc, active>>
    \/ /\ o.ret = "no" /\ (IsPastDeadline(now') \/ o.conn.done)
       /\ Retire(c, IF IsPastDeadline(now') THEN Stopped(o.conn) ELSE o.conn, d)
       /\ Count(c, kind, o.attempts, UnfinishedRequests(o.conn))
    \/ /\ o.ret = "no" /\ ~IsPastDeadline(now') /\ ~o.conn.done
       /\ Abort("fell_through")
    \/ /\ o.ret = "err"
       /\ Abort("io_error")

\* A connect failure that is answered by trying an address again.
Retry(c, k, d) ==
  \E o \in RetryAddress(k, now') :
    \/ /\ o.ret = "yes"
       /\ Rearm(c, o.conn, d, pacing)
       /\ Count(c, "connect", o.attempts, 0)
       /\ UNCHANGED <<pc, active>>
    \/ /\ o.ret = "no"
       /\ Retire(c, o.conn, d)
       /\ Count(c, "connect", o.attempts, UnfinishedRequests(o.conn))
    \/ /\ o.ret = "err"
       /\ Abort("io_error")

\* Mutant of ConnectFailed: parks the connection without a pacing timer.
ConnectFailed_NoTimer(c, k) ==
  IF MayDefer(k, now)
  THEN /\ conn' = [conn EXCEPT ![c] = DeferReconnect(k)]
       /\ Count(c, "connect", 0, 0)
       /\ UNCHANGED <<pc, active, timers>>
  ELSE Retry(c, k, deadlines)

\* A pending socket error: a handshake is probed for a certificate failure, then
\* the reconnect waits for the request's slot or happens at once.  t is the instant
\* after the probe.
ConnectFailed(c, k) ==
  \E t \in now..now' :
  \E o \in IF k.handshaking THEN WriteRequest(k, now, t) ELSE {Outcome(k, "ok", 0)} :
    \/ /\ o.ret = "tls"
       /\ Abort("tls_error")
    \/ /\ o.ret # "tls" /\ MayDefer(o.conn, t)
       /\ LET parked == DeferReconnect(o.conn)
          IN  /\ conn' = [conn EXCEPT ![c] = parked]
              /\ pacing' = pacing \cup PacingEntry(c, parked)
       /\ Count(c, "connect", 0, 0)
       /\ UNCHANGED <<pc, active, deadlines>>
    \/ /\ o.ret # "tls" /\ ~MayDefer(o.conn, now')
       /\ Retry(c, o.conn, deadlines)

(***************************************************************************)
(* Handling the events of one poll.  The branches of an event are taken in *)
(* the order error, writable, readable; most of them end the event.  poll  *)
(* reports a connection at most once and a done one not at all, so the     *)
(* `is_done` test before the branches is the guard Live(c).                *)
(***************************************************************************)
Handling(c, flag) ==
  /\ pc = "events" /\ Live(c) /\ flag \in batch[c]
  /\ flag = "W" => "E" \notin batch[c]
  /\ flag = "R" => batch[c] = {"R"}
  /\ now' \in now..Earlier(now + MaxGap, MaxTime)
  /\ UNCHANGED <<cursor, attempts>>

EventEnds(c) == batch' = [batch EXCEPT ![c] = {}]

\* is_error, but take_error finds nothing
ErrorSpurious(c) ==
  /\ Handling(c, "E")
  /\ batch' = [batch EXCEPT ![c] = @ \ {"E"}]
  /\ UNCHANGED <<pc, conn, active, timers, counters>>

ErrorRecovers(c) ==
  /\ Handling(c, "E") /\ HasStarted(conn[c])
  /\ EventEnds(c)
  /\ Recover(c, conn[c], IF RequestIsWritten(conn[c]) THEN "read" ELSE "write", deadlines, now)

ErrorReconnects(c) ==
  /\ Handling(c, "E") /\ ~HasStarted(conn[c])
  /\ EventEnds(c)
  /\ ConnectFailed(c, conn[c])

WritableStops(c) ==
  /\ Handling(c, "W") /\ IsExpired(conn[c], now)
  /\ EventEnds(c)
  /\ Retire(c, Stopped(conn[c]), deadlines)
  /\ UNCHANGED counters

\* take_error finds an error that poll had not reported; started or not.
WritableError(c) ==
  /\ Handling(c, "W") /\ ~IsExpired(conn[c], now) /\ FaultsLeft(c)
  /\ EventEnds(c)
  /\ ConnectFailed(c, conn[c])

\* Mutant of WritableWrites: a new generation is not given its timers.
WritableWrites_NoTimer(c) ==
  /\ Handling(c, "W") /\ ~IsExpired(conn[c], now)
  /\ \E o \in WriteRequest(conn[c], now, now') :
       /\ o.ret = "ok"
       /\ \E k \in RefreshInterest(o.conn, now') : conn' = [conn EXCEPT ![c] = k]
  /\ batch' = [batch EXCEPT ![c] = @ \ {"W"}]
  /\ UNCHANGED <<pc, active, timers, counters>>

WritableWrites(c) ==
  /\ Handling(c, "W") /\ ~IsExpired(conn[c], now)
  /\ \E o \in WriteRequest(conn[c], now, now') :
       /\ o.ret = "ok"
       /\ \E k \in RefreshInterest(o.conn, now') :
            IF k.timer_generation # conn[c].timer_generation
            THEN Rearm(c, k, deadlines, pacing)
            ELSE conn' = [conn EXCEPT ![c] = k] /\ UNCHANGED timers
  /\ batch' = [batch EXCEPT ![c] = @ \ {"W"}]
  /\ UNCHANGED <<pc, active, counters>>

WritableFails(c) ==
  /\ Handling(c, "W") /\ ~IsExpired(conn[c], now) /\ FaultsLeft(c)
  /\ EventEnds(c)
  /\ \E t \in now..now' : \E o \in WriteRequest(conn[c], now, t) :
       \/ o.ret = "tls" /\ Abort("tls_error")
       \/ o.ret = "io" /\ ~HasStarted(o.conn) /\ Retry(c, o.conn, deadlines)
       \/ o.ret = "io" /\ HasStarted(o.conn) /\ Recover(c, o.conn, "write", deadlines, t)

\* No complete response yet, or a read before the TCP handshake ended.
ReadableWaits(c) ==
  /\ Handling(c, "R")
  /\ \E o \in ReadResponse(conn[c]) :
       /\ \/ o.ret = "none"
          \/ o.ret = "not_connected" /\ ~HasStarted(conn[c])
       /\ \E k \in RefreshInterest(o.conn, now') : conn' = [conn EXCEPT ![c] = k]
  /\ EventEnds(c)
  /\ UNCHANGED <<pc, active, timers, counters>>

ReadableFails(c) ==
  /\ Handling(c, "R") /\ FaultsLeft(c)
  /\ EventEnds(c)
  /\ \E o \in ReadResponse(conn[c]) :
       \/ o.ret = "io" /\ ~HasStarted(o.conn) /\ ConnectFailed(c, o.conn)
       \/ o.ret \in {"io", "not_connected"} /\ HasStarted(o.conn)
          /\ Recover(c, o.conn, "read", deadlines, now)

ReadableMalformed(c) ==
  /\ Handling(c, "R")
  /\ \E o \in ReadResponse(conn[c]) : o.ret = "malformed"
  /\ EventEnds(c)
  /\ Abort("protocol_error")

ReadableCompletes(c) ==
  /\ Handling(c, "R")
  /\ Fixed \/ conn[c].completed < MaxResponses
  /\ EventEnds(c)
  /\ \E o \in ReadResponse(conn[c]) :
       /\ o.ret \in {"keep", "close"}
       /\ \E f \in FinishResponse(o.conn, o.ret = "close", now, now') :
            \/ f.ret = "done" /\ Retire(c, f.conn, deadlines) /\ UNCHANGED counters
            \/ f.ret = "more" /\ Rearm(c, f.conn, deadlines, pacing)
               /\ UNCHANGED <<pc, active, counters>>
            \/ f.ret = "err" /\ Abort("io_error")

EventsDone ==
  /\ pc = "events" /\ \A c \in Conns : batch[c] = {}
  /\ pc' = "deadlines"
  /\ UNCHANGED <<cursor, attempts, conn, active, batch, timers, counters, now>>

(***************************************************************************)
(* Draining the due entries of the two heaps, earliest first.              *)
(***************************************************************************)
DeadlineDue(e) ==
  /\ pc = "deadlines" /\ IsTop(e, deadlines) /\ e.at <= now
  /\ UNCHANGED <<cursor, attempts, batch, now>>

DeadlineStale ==
  \E e \in deadlines :
    /\ DeadlineDue(e) /\ ~Current(e)
    /\ deadlines' = deadlines \ {e}
    /\ UNCHANGED <<pc, conn, active, pacing, counters>>

DeadlineStops ==
  \E e \in deadlines :
    /\ DeadlineDue(e) /\ Current(e) /\ Expire(conn[e.token], now) = "stopped"
    /\ Retire(e.token, Stopped(conn[e.token]), deadlines \ {e})
    /\ UNCHANGED counters

RequestTimesOut ==
  \E e \in deadlines :
    /\ DeadlineDue(e) /\ Current(e) /\ Expire(conn[e.token], now) = "request_timeout"
    /\ Recover(e.token, conn[e.token], "timeout", deadlines \ {e}, now)

ConnectionTimesOut ==
  \E e \in deadlines :
    /\ DeadlineDue(e) /\ Current(e) /\ Expire(conn[e.token], now) = "connection_timeout"
    /\ Retry(e.token, conn[e.token], deadlines \ {e})

DeadlinesDone ==
  /\ pc = "deadlines" /\ \A e \in deadlines : e.at > now
  /\ pc' = "pacing"
  /\ UNCHANGED <<cursor, attempts, conn, active, batch, timers, counters, now>>

PaceDue(e) ==
  /\ pc = "pacing" /\ IsTop(e, pacing) /\ e.at <= now
  /\ UNCHANGED <<cursor, attempts, batch, deadlines, counters, now>>

PaceStale ==
  \E e \in pacing :
    /\ PaceDue(e) /\ ~Current(e)
    /\ pacing' = pacing \ {e}
    /\ UNCHANGED <<pc, conn, active>>

PaceStops ==
  \E e \in pacing :
    /\ PaceDue(e) /\ Current(e) /\ IsExpired(conn[e.token], now)
    /\ conn' = [conn EXCEPT ![e.token] = Stopped(@)]
    /\ active' = active - 1
    /\ pacing' = pacing \ {e}
    /\ UNCHANGED pc

\* The slot has come: the connection asks for writability, or reconnects first.
\* Neither schedules a deadline.
PaceResumes ==
  \E e \in pacing :
    /\ PaceDue(e) /\ Current(e) /\ ~IsExpired(conn[e.token], now)
    /\ pacing' = pacing \ {e}
    /\ UNCHANGED active
    /\ \E o \in ResumeAtPace(conn[e.token], now) :
         \/ o.ret = "ok" /\ conn' = [conn EXCEPT ![e.token] = o.conn] /\ UNCHANGED pc
         \/ o.ret = "err" /\ pc' = "io_error" /\ UNCHANGED conn

PacingDone ==
  /\ pc = "pacing" /\ \A e \in pacing : e.at > now
  /\ pc' = "poll"
  /\ UNCHANGED <<cursor, attempts, conn, active, batch, timers, counters, now>>

(***************************************************************************)
(* The environment: a TCP handshake ends, the clock advances.  Both are    *)
(* left out while the heaps are drained: those loops do not look at        *)
(* `established`, and a tick inside them is one taken before or after.     *)
(***************************************************************************)
TimePasses == pc \in {"connect", "poll", "events"}

Establish(c) ==
  /\ TimePasses
  /\ Live(c) /\ conn[c].interest # {} /\ ~conn[c].established
  /\ conn' = [conn EXCEPT ![c].established = TRUE]
  /\ UNCHANGED <<pc, cursor, attempts, active, batch, timers, counters, now>>

Tick ==
  /\ TimePasses
  /\ now < MaxTime
  /\ \A e \in deadlines \cup pacing : Current(e) => now < e.at + MaxLag
  /\ pc = "connect" /\ Fixed => now < MaxLag
  /\ now' = now + 1
  /\ UNCHANGED <<pc, cursor, attempts, conn, active, batch, timers, counters>>

Finished == pc \in Returned /\ UNCHANGED vars

Opening == OpenConnection \/ OpenGivesUpAtDeadline \/ OpenFails \/ EnterLoop

Event(c) ==
  \/ ErrorSpurious(c) \/ ErrorRecovers(c) \/ ErrorReconnects(c)
  \/ WritableStops(c) \/ WritableError(c) \/ WritableWrites(c) \/ WritableFails(c)
  \/ ReadableWaits(c) \/ ReadableFails(c) \/ ReadableMalformed(c) \/ ReadableCompletes(c)

Draining ==
  \/ DeadlineStale \/ DeadlineStops \/ RequestTimesOut \/ ConnectionTimesOut \/ DeadlinesDone
  \/ PaceStale \/ PaceStops \/ PaceResumes \/ PacingDone

Work == Opening \/ LeaveLoop \/ (\E c \in Conns : Event(c)) \/ EventsDone \/ Draining

Next == Work \/ Poll \/ (\E c \in Conns : Establish(c)) \/ Tick \/ Finished

Spec == Init /\ [][Next]_vars

\* What makes poll return whatever the peers do: a due timer, or a socket that is sure
\* to be writable.
SureToWake ==
  \/ \E c \in Conns : IsWritable(c)
  \/ \E e \in deadlines' \cup pacing' : e.at <= now

\* The thread runs whenever it can, and is sure to leave poll only for SureToWake.  Time
\* passes: strong fairness because Tick is suspended while the heaps are drained.
FairSpec == Spec /\ WF_vars(Work) /\ WF_vars(Poll /\ SureToWake) /\ SF_vars(Tick)

(***************************************************************************)
(* Properties.                                                             *)
(***************************************************************************)
\* Every variable keeps its type; every connection record is well formed.
TypeOK ==
  /\ pc \in {"connect", "poll", "events", "deadlines", "pacing"} \cup Returned
  /\ cursor \in Nat \ {0}
  /\ attempts \in Nat
  /\ conn \in [Conns -> ConnectionType]
  /\ active \in Int
  /\ batch \in [Conns -> SUBSET {"E", "W", "R"}]
  /\ deadlines \subseteq Timers
  /\ pacing \subseteq Timers
  /\ errors \in [Conns -> [Kinds -> Nat]]
  /\ abandoned \in [Conns -> Nat]
  /\ recovered \in [Conns -> Nat]
  /\ now \in Nat

InLoop == pc \in {"poll", "events", "deadlines", "pacing"}

\* `active` is the number of connections that are not done whenever the loop tests or
\* changes it, so `while active > 0` (mod.rs:757) neither stops early nor spins on.
ActiveIsLive == InLoop => active = Cardinality({c \in Conns : Live(c)})

\* A fixed-request worker that returns its summary has answered or abandoned every
\* request it was given, connection by connection, and none twice.
NothingLost ==
  Fixed /\ pc = "ok" => \A c \in Conns : conn[c].completed + abandoned[c] = Limits[c]

\* The reported recovery_attempts never exceed the budget of the logical requests the
\* connection has worked on: RecoveryBudget for each answered one, and what the
\* current one has used.
RecoveryWithinBudget ==
  Fixed => \A c \in Conns :
    recovered[c] <= RecoveryBudget * conn[c].completed + conn[c].recovery_attempts

\* Requests are abandoned only after the budget of the current one is spent or, for a
\* connection that never opened, after ConnectionAttempts failed tries.
AbandonedOnlyExhausted ==
  Fixed => \A c \in Conns :
    abandoned[c] > 0 => IF Opened(c) THEN conn[c].recovery_attempts = RecoveryBudget
                        ELSE errors[c]["connect"] = ConnectionAttempts

\* The `return Err` behind a failed recover_request (mod.rs:813, 902, 964, 1017) is
\* dead code: recovery fails only past the deadline or with the connection done.
NeverFallsThrough == pc # "fell_through"

\* A connection takes one request per response and one for the work in hand: retries
\* and reconnects never draw from the shared sequence again.
RetriesKeepTheRequest ==
  Fixed => \A c \in Conns :
    Opened(c) => conn[c].drawn = Earlier(conn[c].completed + 1, conn[c].limit)

HasDeadline(c) ==
  \E e \in deadlines : e.token = c /\ Current(e) /\ e.at = NextDeadline(conn[c])

HasPacing(c) == \E e \in pacing : e.token = c /\ CurrentPace(e)

\* Back in poll, every live connection has a current timer of its own, except one whose
\* slot has come and whose request has not started.
NoLostWakeup ==
  pc = "poll" => \A c \in Conns : Live(c) =>
    \/ HasDeadline(c) \/ HasPacing(c)
    \/ /\ ~HasStarted(conn[c])
       /\ conn[c].not_before # NoTime /\ ~SlotAhead(conn[c], now)

\* A connection that waits for its slot has the pacing timer that will wake it or, its
\* slot having come, is asking a connected socket for writability.
ParkedIsWoken ==
  pc = "poll" => \A c \in Conns :
    Live(c) /\ conn[c].awaiting_pace =>
      \/ HasPacing(c)
      \/ ~SlotAhead(conn[c], now) /\ "W" \in conn[c].interest /\ conn[c].established

\* A timeout is counted only when the request in hand, or the stream in hand, is that
\* old: a timer left from an earlier request or stream never fails its successor.
TimeoutsAreEarned ==
  [][\A c \in Conns :
       /\ errors'[c]["timeout"] > errors[c]["timeout"] =>
            HasStarted(conn[c]) /\ conn[c].started + Timeout <= now
       /\ pc = "deadlines" /\ errors'[c]["connect"] > errors[c]["connect"] =>
            ~HasStarted(conn[c]) /\ conn[c].connected_at + Timeout <= now]_vars

\* Over plain TCP, a step that starts a request of a duration run began before the
\* deadline: every way to a first write passes a test of the deadline in its own handler,
\* so a start is late by no more than what the clock advances between that test
\* (connection.rs:249 or 282) and the stamp (connection.rs:113).  Over TLS the handshake
\* probe of a failed socket may start the request untested.
StartsAreChecked ==
  [][~Fixed /\ ~Tls => \A c \in Conns :
       HasStarted(conn'[c]) /\ conn'[c].started # conn[c].started =>
         now < Deadline /\ conn'[c].started \in now..now']_vars

Failures(c) ==
  errors[c]["connect"] + errors[c]["read"] + errors[c]["write"] + errors[c]["timeout"]

\* A failure that gives a live connection a new stream is a recovery attempt and is
\* counted as one (a reconnect put off to the request's slot is not one yet).
RecoveryIsCounted ==
  [][\A c \in Conns :
       (/\ Live(c) /\ ~conn'[c].done /\ ~conn'[c].reconnect_at_pace
        /\ Failures(c)' > Failures(c)) => recovered'[c] > recovered[c]]_vars

\* A paced request is measured from its slot: the latency recorded for it covers the
\* time it waited after the instant it was scheduled for.
LatencyFromSlot ==
  [][\A c \in Conns :
       /\ conn'[c].completed > conn[c].completed
       /\ HasStarted(conn[c]) /\ conn[c].not_before # NoTime
       => Latency(conn[c], now) >= now - conn[c].not_before]_vars

\* A stream carries a request from its first byte: a retry preserves the request.
WholeRequest == \A c \in Conns : Live(c) => conn[c].sent_from = 0

\* A transport failure is counted and isolated; it does not end the worker.
FailuresAreIsolated == pc # "io_error"

\* The worker returns, whatever the peers do or fail to do.
Termination == <>(pc \in Returned)

\* A connection whose reconnect at its slot has not completed: it has no timer.
Stranded(c) ==
  /\ InLoop /\ Live(c) /\ conn[c].not_before # NoTime /\ ~HasStarted(conn[c])
  /\ ~HasDeadline(c) /\ ~HasPacing(c)
  /\ ~conn[c].established \/ conn[c].handshaking

\* The worker returns, except when a reconnect at a slot never completes.
TerminationUnlessStranded ==
  <>(pc \in Returned) \/ <>[](\E c \in Conns : Stranded(c))

(***************************************************************************)
(* What the worker promises, without its sockets, timers and loop.         *)
(***************************************************************************)
Status == IF pc = "ok" THEN "ok" ELSE IF pc \in Errors THEN "error" ELSE "running"

Contract == INSTANCE WorkerContract WITH
  Clients <- Conns, Share <- Limits, Timed <- ~Fixed,
  answered <- [c \in Conns |-> conn[c].completed], lost <- abandoned,
  expired <- ~Fixed /\ Deadline <= now, status <- Status

\* The worker implements its contract: at most one answer per request, all that a
\* connection owes reported when it gives up, no summary while anything is owed, and
\* none from a duration run before its deadline.
KeepsContract == Contract!Spec

(***************************************************************************)
(* The inductive invariant behind the accounting properties: what is owed  *)
(* for each connection in every state, not only when the worker returns.   *)
(***************************************************************************)
\* An opened connection: a live one has a request in hand and nothing abandoned; a
\* finished one has answered or abandoned its whole limit.
AccountOf(c) ==
  LET k == conn[c]
  IN  /\ k.limit = Limits[c]
      /\ Live(c) => /\ k.completed < k.limit /\ abandoned[c] = 0
                    /\ k.drawn = k.completed + 1
      /\ ~Live(c) /\ Opened(c) =>
           /\ k.completed + abandoned[c] = k.limit
           /\ k.drawn = Earlier(k.completed + 1, k.limit)
           /\ abandoned[c] > 0 => k.recovery_attempts = RecoveryBudget
      /\ recovered[c] <= RecoveryBudget * k.completed + k.recovery_attempts

\* A connection that is not open: still to be tried, being tried, or given up.
UnopenedAccount(c) ==
  ~Opened(c) =>
    /\ ~Live(c) /\ conn[c].completed = 0 /\ conn[c].recovery_attempts = 0
    /\ IF c < cursor
       THEN abandoned[c] = Limits[c] /\ errors[c]["connect"] = ConnectionAttempts
       ELSE /\ abandoned[c] = 0
            /\ errors[c]["connect"] = IF c = cursor THEN attempts ELSE 0

\* Every connection is opened or given up before the loop is entered, in order.
OpenedInOrder ==
  /\ \A c \in Conns : (c >= cursor => ~Opened(c)) /\ (Live(c) => Opened(c))
  /\ ~Fixed \/ pc = "connect" \/ cursor \notin Conns

\* In every state of a fixed-request worker, each request of its limits is answered,
\* abandoned or still owed by a live or unopened connection.
Accounting ==
  /\ Fixed => \A c \in Conns : AccountOf(c) /\ UnopenedAccount(c)
  /\ OpenedInOrder
  /\ Fixed /\ pc = "ok" => \A c \in Conns : ~Live(c)

(***************************************************************************)
(* The inductive invariant behind the timer properties: what the heaps,    *)
(* the readiness in hand and the records say of each other in every state. *)
(***************************************************************************)
\* A started request is past its slot and is not waiting for it; a connection that waits
\* has a slot to wait for and, unless it has yet to reconnect, a stream to write to.  Only
\* a TLS stream is in a handshake.
WellTimed(k, t) ==
  /\ k.handshaking => Tls
  /\ HasStarted(k) => /\ ~k.awaiting_pace /\ k.started <= t
                      /\ k.not_before = NoTime \/ k.not_before <= k.started
  /\ k.awaiting_pace => k.not_before # NoTime
  /\ k.awaiting_pace /\ ~k.reconnect_at_pace =>
       k.established /\ ~k.handshaking /\ ~RequestIsWritten(k)

SlotHasCome(k, t) == ~HasStarted(k) /\ k.not_before # NoTime /\ ~SlotAhead(k, t)

AsksToWrite(k, t) == ~k.reconnect_at_pace /\ ~SlotAhead(k, t) /\ "W" \in k.interest

\* No entry is from a generation to come, and one of the current generation is at the
\* instant the connection's own record gives.
EntriesAgree(c) ==
  /\ \A e \in deadlines : e.token = c =>
       /\ e.generation <= conn[c].timer_generation
       /\ Current(e) => e.at = NextDeadline(conn[c])
  /\ \A e \in pacing : e.token = c =>
       /\ e.generation <= conn[c].timer_generation
       /\ Current(e) => e.at = PacingDeadline(conn[c])

\* Something will wake the worker for a live connection, or its slot has come.
IsAwaited(c) ==
  InLoop /\ Live(c) =>
    /\ HasDeadline(c) \/ HasPacing(c) \/ SlotHasCome(conn[c], now)
    /\ conn[c].awaiting_pace => HasPacing(c) \/ AsksToWrite(conn[c], now)

\* Readiness is handled before the heaps, and writability is that of the stream in hand.
ReadinessIsFresh(c) ==
  /\ pc \in {"connect", "poll", "deadlines", "pacing"} => batch[c] = {}
  /\ Live(c) /\ "W" \in batch[c] => conn[c].established

\* Every timer that is current is the one its connection asks for, every live connection
\* has one or is past its slot, and no readiness outlives the stream it was reported for.
TimersInOrder ==
  /\ pc = "connect" => deadlines = {} /\ pacing = {}
  /\ \A c \in Conns :
       /\ Live(c) => WellTimed(conn[c], now)
       /\ EntriesAgree(c) /\ IsAwaited(c) /\ ReadinessIsFresh(c)
=============================================================================
