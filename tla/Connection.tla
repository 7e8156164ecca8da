----------------------------- MODULE Connection -----------------------------
(***************************************************************************)
(* One client connection of a worker (src/engine/connection.rs).           *)
(*                                                                         *)
(* A connection is a record; every method of `impl Connection` that can    *)
(* change it is an operator that maps the record to the SET of its         *)
(* possible outcomes.  An outcome carries the connection after the call,   *)
(* what the call returned and how many recovery attempts it made           *)
(* (`pending_recovery_attempts`, which every caller takes right after the  *)
(* call).  The choice between outcomes belongs to the kernel and the peer: *)
(* whether a connect fails, how many bytes a write accepts, what a read    *)
(* delivers.                                                               *)
(*                                                                         *)
(* Every `Instant::now()` of the code is a reading of its own.  A method   *)
(* that reads the clock once is given that instant, t.  One that tests the *)
(* clock and reads it again is given two, t <= u, the first and the last   *)
(* of its readings: the test falls anywhere between them, so what it finds *)
(* late at t is late, what it finds early at u is early, and where t and u *)
(* disagree it may come out either way; what the code stamps afterwards is *)
(* u.                                                                      *)
(*                                                                         *)
(* Bytes are abstracted to write_offset in 0..RequestLen; a response is    *)
(* only "incomplete", "complete" or "malformed".                           *)
(***************************************************************************)
EXTENDS Integers

CONSTANTS
  Deadline,         \* the instant a duration run stops, NoTime for a fixed-request run
  Timeout,          \* the connection/request timeout
  RecoveryBudget,   \* FIXED_REQUEST_RECOVERY_ATTEMPTS
  Addresses,        \* the number of resolved target addresses
  RequestLen,       \* the bytes of an encoded request
  Tls,              \* whether the target is https
  PaceDelays        \* how far ahead a pacer may put a request; {} when unpaced

NoTime == -1

ASSUME DeadlineAssumption == Deadline \in Nat \cup {NoTime}
ASSUME TimeoutAssumption == Timeout \in Nat
ASSUME BudgetAssumption == RecoveryBudget \in Nat \ {0}
ASSUME AddressesAssumption == Addresses \in Nat \ {0}
ASSUME RequestLenAssumption == RequestLen \in Nat \ {0}
ASSUME TlsAssumption == Tls \in BOOLEAN
ASSUME PaceAssumption == PaceDelays \subseteq Nat

Instants == Nat \cup {NoTime}
Interests == SUBSET {"R", "W"}

(***************************************************************************)
(* The record.  `interest` is the registration with mio ({} when           *)
(* deregistered); `established` and `handshaking` are the state of the     *)
(* stream (TCP and TLS handshake); `limit` is ConnectionLimit::Requests    *)
(* and is not read in a duration run.  Two fields are history: `drawn`     *)
(* counts the requests this connection took from the shared sequence, and  *)
(* `sent_from` is the write_offset the current stream began at.            *)
(***************************************************************************)
ConnectionType ==
  [ limit : Nat,
    done : BOOLEAN,
    completed : Nat,
    recovery_attempts : 0..RecoveryBudget,
    timer_generation : Nat,
    address_index : 0..(Addresses - 1),
    connected_at : Nat,
    started : Instants,
    write_offset : 0..RequestLen,
    not_before : Instants,
    awaiting_pace : BOOLEAN,
    reconnect_at_pace : BOOLEAN,
    interest : Interests,
    established : BOOLEAN,
    handshaking : BOOLEAN,
    drawn : Nat,
    sent_from : 0..RequestLen ]

Fixed == Deadline = NoTime

\* What the shared sequence may answer for `not_before` at instant t.
Slots(t) == IF PaceDelays = {} THEN {NoTime} ELSE {t + d : d \in PaceDelays}

\* The limit slot of a connection the worker has not opened.
Unopened(limit) ==
  [ limit |-> limit, done |-> TRUE, completed |-> 0, recovery_attempts |-> 0,
    timer_generation |-> 0, address_index |-> 0, connected_at |-> 0,
    started |-> NoTime, write_offset |-> 0, not_before |-> NoTime,
    awaiting_pace |-> FALSE, reconnect_at_pace |-> FALSE, interest |-> {},
    established |-> FALSE, handshaking |-> FALSE, drawn |-> 0, sent_from |-> 0 ]

\* A connection that Connection::connect returned and the worker registered.
Connect(limit, a, slot, t) ==
  [ Unopened(limit) EXCEPT !.done = FALSE, !.address_index = a, !.connected_at = t,
                           !.not_before = slot, !.interest = {"R", "W"},
                           !.handshaking = Tls, !.drawn = 1 ]

(***************************************************************************)
(* Reading a connection.                                                   *)
(***************************************************************************)
\* Mutant of ShouldContinue: the run is over one tick early.
ShouldContinue_Early(k, t) == IF Fixed THEN k.completed < k.limit ELSE t + 1 < Deadline

ShouldContinue(k, t) == IF Fixed THEN k.completed < k.limit ELSE t < Deadline

HasStarted(k) == k.started # NoTime

RequestIsWritten(k) == k.write_offset = RequestLen

\* Mutant of UnfinishedRequests: the whole limit, answered requests included.
UnfinishedRequests_Limit(k) == IF Fixed THEN k.limit ELSE 0

UnfinishedRequests(k) ==
  IF Fixed /\ k.completed < k.limit THEN k.limit - k.completed ELSE 0

SlotAhead(k, t) == k.not_before # NoTime /\ t < k.not_before

Earlier(a, b) == IF a <= b THEN a ELSE b

NextDeadline(k) ==
  IF k.awaiting_pace THEN NoTime
  ELSE IF HasStarted(k) THEN k.started + Timeout
  ELSE IF Fixed THEN k.connected_at + Timeout
  ELSE Earlier(Deadline, k.connected_at + Timeout)

PacingDeadline(k) ==
  IF ~k.awaiting_pace \/ k.done \/ k.not_before = NoTime THEN NoTime
  ELSE IF Fixed THEN k.not_before
  ELSE Earlier(Deadline, k.not_before)

(***************************************************************************)
(* Changing a connection.                                                  *)
(***************************************************************************)
Outcome(k, returned, attempts) == [conn |-> k, ret |-> returned, attempts |-> attempts]

Deregistered(k) == [k EXCEPT !.interest = {}]

Stopped(k) == [k EXCEPT !.done = TRUE, !.interest = {}]

\* The addresses connect_from can come back with: from `start` on, no wrapping.
\* That every one of them fails is always possible too; callers add that outcome.
ConnectFrom(start) == start..(Addresses - 1)

\* A fresh stream to address a, registered for both directions.
NewStream(k, a, t) ==
  [ k EXCEPT !.address_index = a, !.connected_at = t, !.handshaking = Tls,
             !.established = FALSE, !.awaiting_pace = FALSE,
             !.reconnect_at_pace = FALSE, !.timer_generation = @ + 1,
             !.interest = {"R", "W"}, !.sent_from = k.write_offset ]

\* Mutants of ReconnectWithinBudget: the budget is off by one; the attempts are not
\* charged to the request; only repeated tries are reported.
ReconnectWithinBudget_OneMore(k, fresh, start, t) ==
  { Outcome([NewStream(fresh, a, t) EXCEPT !.recovery_attempts = @ + n], "yes", n) :
      n \in 1..(RecoveryBudget + 1 - k.recovery_attempts), a \in ConnectFrom(start) }

ReconnectWithinBudget_Free(k, fresh, start, t) ==
  { Outcome(NewStream(fresh, a, t), "yes", 1) : a \in ConnectFrom(start) }

ReconnectWithinBudget_FirstUnseen(k, fresh, start, t) ==
  { Outcome([NewStream(fresh, a, t) EXCEPT !.recovery_attempts = @ + n], "yes", n - 1) :
      n \in 1..(RecoveryBudget - k.recovery_attempts), a \in ConnectFrom(start) }

\* The connect loop of a fixed run: the n-th try succeeds, or the budget runs out.
\* `fresh` is what the connection is turned into before its new stream.
ReconnectWithinBudget(k, fresh, start, t) ==
  LET left == RecoveryBudget - k.recovery_attempts
  IN  { Outcome([NewStream(fresh, a, t) EXCEPT !.recovery_attempts = @ + n], "yes", n) :
          n \in 1..left, a \in ConnectFrom(start) }
      \cup { Outcome([Stopped(k) EXCEPT !.recovery_attempts = RecoveryBudget], "no", left) }

\* Mutants of RetryAddress: gives up one attempt early; forgets to mark the
\* connection done.
RetryAddress_Early(k, t) ==
  IF k.recovery_attempts + 1 >= RecoveryBudget
  THEN { Outcome(Stopped(k), "no", 0) }
  ELSE ReconnectWithinBudget(k, k, (k.address_index + 1) % Addresses, t)

RetryAddress_NotDone(k, t) ==
  IF k.recovery_attempts >= RecoveryBudget
  THEN { Outcome(Deregistered(k), "no", 0) }
  ELSE ReconnectWithinBudget(k, k, (k.address_index + 1) % Addresses, t)

\* retry_address: the request, its offset and its start are left as they are.
RetryAddress(k, t) ==
  LET next == (k.address_index + 1) % Addresses
  IN  IF Fixed
      THEN IF k.recovery_attempts >= RecoveryBudget
           THEN { Outcome(Stopped(k), "no", 0) }
           ELSE ReconnectWithinBudget(k, k, next, t)
      ELSE { Outcome(NewStream(k, a, t), "yes", 0) : a \in ConnectFrom(next) }
           \cup { Outcome(Deregistered(k), "err", 0) }

\* Mutants of RecoverRequest: forgets to mark the connection done; fetches the next
\* request instead of repeating the current one.
RecoverRequest_NotDone(k, t, u) ==
  IF k.recovery_attempts >= RecoveryBudget
  THEN { Outcome(Deregistered(k), "no", 0) }
  ELSE ReconnectWithinBudget(k, [k EXCEPT !.write_offset = 0, !.started = NoTime], 0, u)

RecoverRequest_NextRequest(k, t, u) ==
  IF k.recovery_attempts >= RecoveryBudget
  THEN { Outcome(Stopped(k), "no", 0) }
  ELSE ReconnectWithinBudget(k, [k EXCEPT !.write_offset = 0, !.started = NoTime,
                                          !.drawn = @ + 1], 0, u)

\* recover_request: the same request again, from its first byte.  In a duration run the
\* deadline is tested before the connect.
RecoverRequest(k, t, u) ==
  LET fresh == [k EXCEPT !.write_offset = 0, !.started = NoTime]
  IN  IF Fixed
      THEN IF k.recovery_attempts >= RecoveryBudget
           THEN { Outcome(Stopped(k), "no", 0) }
           ELSE ReconnectWithinBudget(k, fresh, 0, u)
      ELSE (IF Deadline <= u THEN { Outcome(k, "no", 0) } ELSE {})
           \cup (IF t < Deadline
                 THEN { Outcome(NewStream(fresh, a, u), "yes", 1) : a \in ConnectFrom(0) }
                      \cup { Outcome(Deregistered(k), "err", 1) }
                 ELSE {})

\* defer_reconnect_until_pace: when it applies, and the parked connection.
MayDefer(k, t) == ~HasStarted(k) /\ SlotAhead(k, t)

DeferReconnect(k) ==
  [ Deregistered(k) EXCEPT !.awaiting_pace = TRUE, !.reconnect_at_pace = TRUE,
                           !.timer_generation = @ + 1 ]

\* refresh_interest.  rustls may hold unsent records (wants_write) at any time.
RefreshInterest(k, t) ==
  LET wantsRequest == ~k.handshaking /\ ~RequestIsWritten(k) /\ ~SlotAhead(k, t)
  IN  { [k EXCEPT !.interest = i] :
          i \in IF wantsRequest THEN { {"R", "W"} }
                ELSE { {"R"} } \cup (IF Tls THEN { {"R", "W"} } ELSE {}) }

\* Mutant of ResumeAtPace: the interest is not refreshed at the slot.
ResumeAtPace_StillParked(k, t) ==
  IF k.reconnect_at_pace
  THEN { Outcome(NewStream(k, a, t), "ok", 0) : a \in ConnectFrom(0) }
  ELSE { Outcome(k, "ok", 0) }

\* resume_at_pace
ResumeAtPace(k, t) ==
  IF k.reconnect_at_pace
  THEN { Outcome(NewStream(k, a, t), "ok", 0) : a \in ConnectFrom(0) }
       \cup { Outcome(k, "err", 0) }
  ELSE { Outcome(r, "ok", 0) : r \in RefreshInterest(k, t) }

\* finish_handshake: whether the stream can carry the request now, or an error.  Nothing
\* of the peer's has arrived before the TCP handshake ended.
FinishHandshake(k) ==
  IF ~k.handshaking THEN {"ready"}
  ELSE IF k.established THEN {"ready", "pending", "tls", "io"} ELSE {"pending", "io"}

\* The request starts, if it had not, and some prefix of what is left is accepted.
SendRequest(k, t) ==
  LET begun == IF HasStarted(k) THEN [k EXCEPT !.awaiting_pace = FALSE]
               ELSE [k EXCEPT !.awaiting_pace = FALSE, !.started = t,
                              !.timer_generation = @ + 1]
  IN  { Outcome([begun EXCEPT !.write_offset = o], "ok", 0) : o \in k.write_offset..RequestLen }
      \cup { Outcome([begun EXCEPT !.write_offset = o], "io", 0) :
               o \in k.write_offset..(RequestLen - 1) }

AwaitPace(k) ==
  IF k.awaiting_pace THEN k
  ELSE [k EXCEPT !.awaiting_pace = TRUE, !.timer_generation = @ + 1]

\* write_request: the slot is tested, then the start is stamped.
WriteRequest(k, t, u) ==
  IF RequestIsWritten(k)
  THEN { Outcome(k, "ok", 0) } \cup (IF Tls THEN { Outcome(k, "io", 0) } ELSE {})
  ELSE UNION { LET open == [k EXCEPT !.handshaking = FALSE]
               IN  CASE h = "pending" -> { Outcome(k, "ok", 0) }
                     [] h \in {"tls", "io"} -> { Outcome(k, h, 0) }
                     [] OTHER -> (IF SlotAhead(k, t) THEN { Outcome(AwaitPace(open), "ok", 0) } ELSE {})
                                 \cup (IF SlotAhead(k, u) THEN {} ELSE SendRequest(open, u))
               : h \in FinishHandshake(k) }

(***************************************************************************)
(* read_response.  On a TLS stream a read drives the handshake.  "keep"    *)
(* and "close" are a complete response and whether the stream survives it, *)
(* "io" a reset or a premature EOF, "not_connected" a read that ran ahead  *)
(* of the TCP handshake, "malformed" an invalid response before EOF.       *)
(***************************************************************************)
ReadResponse(k) ==
  IF ~k.established THEN { Outcome(k, r, 0) : r \in {"none", "not_connected", "io"} }
  ELSE { Outcome([k EXCEPT !.handshaking = FALSE], r, 0) :
           r \in {"none", "io", "keep", "close", "malformed"} }
       \cup (IF k.handshaking THEN { Outcome(k, r, 0) : r \in {"none", "io"} } ELSE {})

\* completed_response: the latency recorded for a response complete at t.
Latency(k, t) == t - (IF HasStarted(k) THEN k.started ELSE k.connected_at)

\* install_next_request
InstallNextRequest(k, slot) ==
  [ k EXCEPT !.not_before = slot, !.awaiting_pace = FALSE,
             !.reconnect_at_pace = FALSE, !.drawn = @ + 1 ]

\* finish_response: "done" when the limit is reached, "more" when the next request is in.
\* Whether to go on is tested first; then, at v, the pacer is asked for the next slot.
FinishResponse(k, close, t, u) ==
  LET answered == [k EXCEPT !.completed = @ + 1, !.recovery_attempts = 0]
      installed(slot) ==
        InstallNextRequest([answered EXCEPT !.write_offset = 0, !.started = NoTime], slot)
      reused(slot) == [installed(slot) EXCEPT !.timer_generation = @ + 1, !.sent_from = 0]
      next(slot, v) ==
        IF close
        THEN { Outcome(NewStream(installed(slot), a, u), "more", 0) : a \in ConnectFrom(0) }
             \cup { Outcome(Deregistered(installed(slot)), "err", 0) }
        ELSE UNION { IF o.ret = "ok"
                     THEN { Outcome(r, "more", 0) : r \in RefreshInterest(o.conn, u) }
                     ELSE { Outcome(o.conn, "err", 0) }
                     : o \in WriteRequest(reused(slot), v, u) }
  IN  (IF ShouldContinue(answered, u) THEN {} ELSE { Outcome(Stopped(answered), "done", 0) })
      \cup (IF ShouldContinue(answered, t)
            THEN UNION { UNION { next(slot, v) : slot \in Slots(v) } : v \in t..u }
            ELSE {})

\* Mutant of IsExpired: only the request count is looked at.
IsExpired_CountOnly(k, t) == ~HasStarted(k) /\ k.completed > k.limit

\* The test of stop_if_expired; Stopped is its effect.
IsExpired(k, t) == ~HasStarted(k) /\ ~ShouldContinue(k, t)

\* expire: what a due deadline means for the connection.
Expire(k, t) ==
  IF HasStarted(k) THEN "request_timeout"
  ELSE IF ShouldContinue(k, t) THEN "connection_timeout" ELSE "stopped"

\* Mutant of IsPastDeadline: the deadline itself is not past.
IsPastDeadline_Strict(t) == ~Fixed /\ Deadline < t

\* The test of stop_after_duration_error; Stopped is its effect.
IsPastDeadline(t) == ~Fixed /\ Deadline <= t
=============================================================================
