------------------------ MODULE WorkerTimers_proofs ------------------------
(***************************************************************************)
(* The timers of a worker, for every number of connections, every timeout, *)
(* deadline and pace: no live connection is left without something that    *)
(* wakes the worker for it, a timer of an earlier request or stream never  *)
(* fails its successor, and no request starts in a step that began after   *)
(* the deadline.                                                           *)
(*                                                                         *)
(* The inductive invariant is TimersInOrder.  Every handler does one of    *)
(* four things to its connection's timers (Kept, Renewed, Gone, Resumed),  *)
(* and aborts otherwise; TimersInOrder is preserved by each.               *)
(***************************************************************************)
EXTENDS Worker_proofs

\* r has the timers of k.
SameTimers(k, r) ==
  /\ r.timer_generation = k.timer_generation
  /\ r.started = k.started
  /\ r.not_before = k.not_before
  /\ r.connected_at = k.connected_at
  /\ r.awaiting_pace = k.awaiting_pace
  /\ r.reconnect_at_pace = k.reconnect_at_pace
  /\ r.done = k.done

\* The fields the timers depend on have their types.
LEMMA TimingTypes ==
  ASSUME NEW k \in ConnectionType
  PROVE  /\ k.timer_generation \in Nat /\ k.connected_at \in Nat
         /\ k.started \in Nat \cup {-1} /\ k.not_before \in Nat \cup {-1}
         /\ k.awaiting_pace \in BOOLEAN /\ k.reconnect_at_pace \in BOOLEAN
         /\ k.established \in BOOLEAN /\ k.handshaking \in BOOLEAN /\ k.done \in BOOLEAN
         /\ k.write_offset \in 0..RequestLen
  BY DEF ConnectionType, Instants, NoTime

\* Connections with the same timers ask for the same instants.
LEMMA SameDeadlines ==
  ASSUME NEW k, NEW r, SameTimers(k, r)
  PROVE  NextDeadline(r) = NextDeadline(k) /\ PacingDeadline(r) = PacingDeadline(k)
  BY DEF SameTimers, NextDeadline, PacingDeadline, HasStarted

\* A live well-timed connection asks for exactly one of its two timers.
LEMMA OneTimer ==
  ASSUME NEW k \in ConnectionType, NEW t \in Nat, WellTimed(k, t), ~k.done
  PROVE  /\ ~k.awaiting_pace => NextDeadline(k) # NoTime
         /\ k.awaiting_pace => PacingDeadline(k) # NoTime /\ NextDeadline(k) = NoTime
<1>1. k.started \in Nat \cup {-1} /\ k.not_before \in Nat \cup {-1} /\ k.connected_at \in Nat
  BY TimingTypes
<1>2. ~k.awaiting_pace => NextDeadline(k) # NoTime
  BY <1>1, DeadlineAssumption, TimeoutAssumption
  DEF NextDeadline, HasStarted, Fixed, Earlier, NoTime
<1>3. k.awaiting_pace => PacingDeadline(k) # NoTime
  BY <1>1, DeadlineAssumption DEF PacingDeadline, WellTimed, Fixed, Earlier, NoTime
<1>4. QED
  BY <1>2, <1>3 DEF NextDeadline

\* A connection stays well timed as the clock advances, and a slot that has come stays so.
LEMMA TimeOnlyHelps ==
  ASSUME NEW k \in ConnectionType, NEW t \in Nat, NEW u \in Nat, t <= u
  PROVE  /\ WellTimed(k, t) => WellTimed(k, u)
         /\ SlotHasCome(k, t) => SlotHasCome(k, u)
         /\ AsksToWrite(k, t) => AsksToWrite(k, u)
<1>1. k.started \in Nat \cup {-1} /\ k.not_before \in Nat \cup {-1}
  BY TimingTypes
<1>2. SlotAhead(k, u) => SlotAhead(k, t)
  BY <1>1 DEF SlotAhead, NoTime
<1>3. HasStarted(k) /\ k.started <= t => k.started <= u
  BY <1>1 DEF HasStarted, NoTime
<1>4. QED
  BY <1>2, <1>3 DEF WellTimed, SlotHasCome, AsksToWrite

(***************************************************************************)
(* What the methods of a connection do to its timers.                      *)
(***************************************************************************)
\* A new stream begins a generation; a started request keeps its start.
LEMMA NewStreamTiming ==
  ASSUME NEW k \in ConnectionType, NEW a \in 0..(Addresses - 1), NEW t \in Nat, WellTimed(k, t)
  PROVE  LET r == NewStream(k, a, t)
         IN  /\ r \in ConnectionType /\ WellTimed(r, t)
             /\ r.timer_generation = k.timer_generation + 1
             /\ r.started = k.started /\ r.not_before = k.not_before /\ r.done = k.done
             /\ ~r.awaiting_pace /\ ~r.reconnect_at_pace
<1> DEFINE r == NewStream(k, a, t)
<1>1. r \in ConnectionType
  BY NewStreamFacts
<1>2. /\ r.timer_generation = k.timer_generation + 1
      /\ r.started = k.started /\ r.not_before = k.not_before /\ r.done = k.done
      /\ r.awaiting_pace = FALSE /\ r.reconnect_at_pace = FALSE /\ r.handshaking = Tls
  BY DEF NewStream, ConnectionType
<1> HIDE DEF r
<1>3. WellTimed(r, t)
  BY <1>2 DEF WellTimed, HasStarted
<1>4. QED
  BY <1>1, <1>2, <1>3 DEF r

\* What a reconnection does to the timers: a generation begins, or the connection is left
\* as it was or stopped.  In a fixed run a new stream costs an attempt.
Reconnects(k, o, t) ==
  /\ o.ret = "yes" => /\ WellTimed(o.conn, t)
                      /\ o.conn.timer_generation = k.timer_generation + 1
                      /\ Fixed => o.attempts > 0
  /\ o.ret = "no" => o.conn.timer_generation = k.timer_generation
  /\ o.ret # "err" => o.conn.started \in {k.started, NoTime}

\* The connect loop of a fixed run.
LEMMA ReconnectWithinBudgetTiming ==
  ASSUME NEW k \in ConnectionType, NEW f \in ConnectionType, NEW s \in Nat, NEW t \in Nat,
         WellTimed(f, t), f.timer_generation = k.timer_generation,
         f.started \in {k.started, NoTime}, NEW o \in ReconnectWithinBudget(k, f, s, t)
  PROVE  Reconnects(k, o, t)
<1> DEFINE left == RecoveryBudget - k.recovery_attempts
<1>1. k.recovery_attempts \in 0..RecoveryBudget /\ left \in 0..RecoveryBudget
  BY FieldTypes, BudgetAssumption
<1>2. ASSUME NEW n \in 1..left, NEW a \in ConnectFrom(s),
             o = Outcome([NewStream(f, a, t) EXCEPT !.recovery_attempts = @ + n], "yes", n)
      PROVE  Reconnects(k, o, t)
  <2> DEFINE u == NewStream(f, a, t)
  <2>1. a \in 0..(Addresses - 1)
    BY AddressesAssumption DEF ConnectFrom
  <2>2. /\ u \in ConnectionType /\ WellTimed(u, t)
        /\ u.timer_generation = f.timer_generation + 1 /\ u.started = f.started
    BY <2>1, NewStreamTiming
  <2>3. /\ o.ret = "yes" /\ o.attempts = n
        /\ o.conn = [u EXCEPT !.recovery_attempts = u.recovery_attempts + n]
    BY <1>2 DEF Outcome
  <2> HIDE DEF u
  <2>4. SameTimers(u, o.conn) /\ o.conn.established = u.established
        /\ o.conn.handshaking = u.handshaking /\ o.conn.write_offset = u.write_offset
    BY <2>2, <2>3 DEF ConnectionType, SameTimers
  <2>5. WellTimed(o.conn, t)
    BY <2>2, <2>4 DEF WellTimed, SameTimers, HasStarted, RequestIsWritten
  <2>6. n > 0
    BY <1>1
  <2>7. QED
    BY <2>2, <2>3, <2>4, <2>5, <2>6 DEF Reconnects, SameTimers
<1>3. CASE o = Outcome([Stopped(k) EXCEPT !.recovery_attempts = RecoveryBudget], "no", left)
  <2>1. o.ret = "no" /\ o.conn = [Stopped(k) EXCEPT !.recovery_attempts = RecoveryBudget]
    BY <1>3 DEF Outcome
  <2>2. o.conn.timer_generation = k.timer_generation /\ o.conn.started = k.started
    BY <2>1 DEF Stopped, ConnectionType
  <2>3. QED
    BY <2>1, <2>2 DEF Reconnects
<1>4. \/ \E n \in 1..left, a \in ConnectFrom(s) :
           o = Outcome([NewStream(f, a, t) EXCEPT !.recovery_attempts = @ + n], "yes", n)
      \/ o = Outcome([Stopped(k) EXCEPT !.recovery_attempts = RecoveryBudget], "no", left)
  BY DEF ReconnectWithinBudget
<1>5. QED
  BY <1>2, <1>3, <1>4

\* retry_address keeps the request and its start.
LEMMA RetryAddressTiming ==
  ASSUME NEW k \in ConnectionType, NEW t \in Nat, WellTimed(k, t), NEW o \in RetryAddress(k, t)
  PROVE  Reconnects(k, o, t)
<1> DEFINE next == (k.address_index + 1) % Addresses
<1>1. next \in Nat
  BY FieldTypes, AddressesAssumption
<1>2. CASE Fixed /\ k.recovery_attempts >= RecoveryBudget
  <2>1. o = Outcome(Stopped(k), "no", 0)
    BY <1>2 DEF RetryAddress
  <2>2. QED
    BY <2>1 DEF Outcome, Reconnects, Stopped, ConnectionType
<1>3. CASE Fixed /\ ~(k.recovery_attempts >= RecoveryBudget)
  <2>1. o \in ReconnectWithinBudget(k, k, next, t)
    BY <1>3 DEF RetryAddress
  <2>2. QED
    BY <1>1, <2>1, ReconnectWithinBudgetTiming
<1>4. CASE ~Fixed
  <2>1. CASE o = Outcome(Deregistered(k), "err", 0)
    BY <2>1 DEF Outcome, Reconnects
  <2>2. ASSUME NEW a \in ConnectFrom(next), o = Outcome(NewStream(k, a, t), "yes", 0)
        PROVE  Reconnects(k, o, t)
    <3>1. a \in 0..(Addresses - 1)
      BY <1>1, AddressesAssumption DEF ConnectFrom
    <3>2. QED
      BY <1>4, <2>2, <3>1, NewStreamTiming DEF Outcome, Reconnects
  <2>3. QED
    BY <1>4, <2>1, <2>2 DEF RetryAddress
<1>5. QED
  BY <1>2, <1>3, <1>4

\* recover_request: the request has not started any more.
LEMMA RecoverRequestTiming ==
  ASSUME NEW k \in ConnectionType, NEW t \in Nat, NEW u \in Nat, WellTimed(k, u),
         NEW o \in RecoverRequest(k, t, u)
  PROVE  Reconnects(k, o, u) /\ (o.ret = "yes" => o.attempts > 0)
<1> DEFINE fresh == [k EXCEPT !.write_offset = 0, !.started = NoTime]
<1>1. /\ fresh \in ConnectionType
      /\ fresh.timer_generation = k.timer_generation /\ fresh.started = NoTime
  <2>1. 0 \in 0..RequestLen /\ NoTime \in Instants
    BY RequestLenAssumption DEF Instants
  <2>2. QED
    BY <2>1 DEF ConnectionType
<1>2. WellTimed(fresh, u)
  <2>1. /\ fresh.awaiting_pace = k.awaiting_pace /\ fresh.established = k.established
        /\ fresh.handshaking = k.handshaking /\ fresh.not_before = k.not_before
        /\ fresh.reconnect_at_pace = k.reconnect_at_pace /\ fresh.write_offset = 0
    BY DEF ConnectionType
  <2> HIDE DEF fresh
  <2>2. QED
    BY <1>1, <2>1, RequestLenAssumption DEF WellTimed, HasStarted, RequestIsWritten
<1>3. CASE Fixed /\ k.recovery_attempts >= RecoveryBudget
  <2>1. o = Outcome(Stopped(k), "no", 0)
    BY <1>3 DEF RecoverRequest
  <2>2. QED
    BY <2>1 DEF Outcome, Reconnects, Stopped, ConnectionType
<1>4. CASE Fixed /\ ~(k.recovery_attempts >= RecoveryBudget)
  <2>1. o \in ReconnectWithinBudget(k, fresh, 0, u)
    BY <1>4 DEF RecoverRequest
  <2> HIDE DEF fresh
  <2>2. Reconnects(k, o, u)
    BY <1>1, <1>2, <2>1, ReconnectWithinBudgetTiming
  <2>3. QED
    BY <1>4, <2>2 DEF Reconnects
<1>5. CASE ~Fixed
  <2> HIDE DEF fresh
  <2>1. CASE o = Outcome(Deregistered(k), "err", 1)
    BY <2>1 DEF Outcome, Reconnects
  <2>2. ASSUME NEW a \in ConnectFrom(0), o = Outcome(NewStream(fresh, a, u), "yes", 1)
        PROVE  Reconnects(k, o, u) /\ o.attempts > 0
    <3>1. a \in 0..(Addresses - 1)
      BY DEF ConnectFrom
    <3>2. QED
      BY <1>1, <1>2, <2>2, <3>1, NewStreamTiming DEF Outcome, Reconnects
  <2>3. CASE o = Outcome(k, "no", 0)
    BY <2>3 DEF Outcome, Reconnects
  <2>4. QED
    BY <1>5, <2>1, <2>2, <2>3 DEF RecoverRequest, fresh, Outcome
<1>6. QED
  BY <1>3, <1>4, <1>5

\* A reconnect put off to the slot begins a generation that waits for the slot.
LEMMA DeferReconnectTiming ==
  ASSUME NEW k \in ConnectionType, NEW t \in Nat, WellTimed(k, t), MayDefer(k, t)
  PROVE  LET r == DeferReconnect(k)
         IN  /\ r \in ConnectionType /\ WellTimed(r, t)
             /\ r.timer_generation = k.timer_generation + 1
             /\ r.started = k.started /\ r.done = k.done
             /\ r.awaiting_pace /\ r.reconnect_at_pace
<1> DEFINE r == DeferReconnect(k)
           idle == Deregistered(k)
<1>1. r \in ConnectionType
  BY DeferReconnectFacts
<1>2. /\ idle \in ConnectionType /\ idle.timer_generation = k.timer_generation
      /\ idle.started = k.started /\ idle.not_before = k.not_before /\ idle.done = k.done
      /\ idle.handshaking = k.handshaking
  BY BothDirections DEF Deregistered, ConnectionType
<1>3. r = [idle EXCEPT !.awaiting_pace = TRUE, !.reconnect_at_pace = TRUE,
                       !.timer_generation = @ + 1]
  BY DEF DeferReconnect
<1> HIDE DEF idle
<1>4. /\ r.timer_generation = k.timer_generation + 1 /\ r.started = k.started
      /\ r.not_before = k.not_before /\ r.done = k.done /\ r.handshaking = k.handshaking
      /\ r.awaiting_pace = TRUE /\ r.reconnect_at_pace = TRUE
  BY <1>2, <1>3 DEF ConnectionType
<1> HIDE DEF r
<1>5. WellTimed(r, t)
  BY <1>4 DEF WellTimed, HasStarted, MayDefer, SlotAhead
<1>6. QED
  BY <1>1, <1>4, <1>5 DEF r

\* refresh_interest changes no timer; a connection past its slot asks to write.
LEMMA RefreshInterestTiming ==
  ASSUME NEW k \in ConnectionType, NEW t \in Nat, WellTimed(k, t), NEW r \in RefreshInterest(k, t)
  PROVE  /\ SameTimers(k, r) /\ WellTimed(r, t) /\ r.established = k.established
         /\ k.awaiting_pace /\ ~k.reconnect_at_pace /\ ~SlotAhead(k, t) => AsksToWrite(r, t)
<1>1. PICK i \in Interests :
        /\ r = [k EXCEPT !.interest = i]
        /\ ~k.handshaking /\ ~RequestIsWritten(k) /\ ~SlotAhead(k, t) => i = {"R", "W"}
  BY BothDirections DEF RefreshInterest
<1>2. SameTimers(k, r) /\ r.established = k.established /\ r.interest = i
      /\ r.handshaking = k.handshaking /\ r.write_offset = k.write_offset
  BY <1>1 DEF ConnectionType, SameTimers
<1>3. WellTimed(r, t)
  BY <1>2 DEF WellTimed, SameTimers, HasStarted, RequestIsWritten
<1>4. k.awaiting_pace /\ ~k.reconnect_at_pace /\ ~SlotAhead(k, t) => AsksToWrite(r, t)
  <2>1. HAVE k.awaiting_pace /\ ~k.reconnect_at_pace /\ ~SlotAhead(k, t)
  <2>2. "W" \in i
    BY <1>1, <2>1 DEF WellTimed
  <2>3. ~r.reconnect_at_pace /\ ~SlotAhead(r, t)
    BY <1>2, <2>1 DEF SameTimers, SlotAhead
  <2>4. QED
    BY <1>2, <2>2, <2>3 DEF AsksToWrite
<1>5. QED
  BY <1>2, <1>3, <1>4

\* What write_request does to the timers: nothing, or a generation begins because the
\* request started at t or the connection now waits for its slot.
Written(k, r, t) ==
  /\ WellTimed(r, t) /\ r.done = k.done /\ r.established = k.established
  /\ \/ SameTimers(k, r)
     \/ /\ r.timer_generation = k.timer_generation + 1
        /\ r.started = k.started \/ (~HasStarted(k) /\ r.started = t)

\* Sending a part of the request, past its slot.
LEMMA SendRequestTiming ==
  ASSUME NEW k \in ConnectionType, NEW t \in Nat, WellTimed(k, t), ~SlotAhead(k, t),
         NEW o \in SendRequest(k, t)
  PROVE  Written(k, o.conn, t)
<1> DEFINE begun == IF HasStarted(k) THEN [k EXCEPT !.awaiting_pace = FALSE]
                    ELSE [k EXCEPT !.awaiting_pace = FALSE, !.started = t,
                                   !.timer_generation = @ + 1]
<1>1. k.timer_generation + 1 \in Nat /\ t \in Instants
  BY FieldTypes DEF Instants
<1>2. begun \in ConnectionType
  BY <1>1 DEF ConnectionType
<1>3. /\ begun.not_before = k.not_before /\ begun.done = k.done
      /\ begun.reconnect_at_pace = k.reconnect_at_pace /\ begun.connected_at = k.connected_at
      /\ begun.established = k.established /\ begun.handshaking = k.handshaking
      /\ begun.awaiting_pace = FALSE
  BY DEF ConnectionType
<1>4. IF HasStarted(k)
      THEN begun.started = k.started /\ begun.timer_generation = k.timer_generation
      ELSE begun.started = t /\ begun.timer_generation = k.timer_generation + 1
  BY DEF ConnectionType
<1>5. \E w \in 0..RequestLen : o.conn = [begun EXCEPT !.write_offset = w]
  <2>1. /\ k.write_offset..RequestLen \subseteq 0..RequestLen
        /\ k.write_offset..(RequestLen - 1) \subseteq 0..RequestLen
    BY FieldTypes, RequestLenAssumption
  <2>2. \E w \in 0..RequestLen, r \in {"ok", "io"} :
          o = Outcome([begun EXCEPT !.write_offset = w], r, 0)
    BY <2>1, Zenon DEF SendRequest
  <2> HIDE DEF begun
  <2>3. QED
    BY <2>2 DEF Outcome
<1> HIDE DEF begun
<1>6. PICK w \in 0..RequestLen : o.conn = [begun EXCEPT !.write_offset = w]
  BY <1>5
<1> DEFINE r == o.conn
<1>7. SameTimers(begun, r) /\ r.established = begun.established /\ r.handshaking = begun.handshaking
  BY <1>2, <1>6 DEF ConnectionType, SameTimers
<1> HIDE DEF r
<1>8. /\ r.not_before = k.not_before /\ r.done = k.done /\ r.awaiting_pace = FALSE
      /\ r.reconnect_at_pace = k.reconnect_at_pace /\ r.connected_at = k.connected_at
      /\ r.established = k.established /\ r.handshaking = k.handshaking
      /\ r.started = begun.started /\ r.timer_generation = begun.timer_generation
  BY <1>3, <1>7 DEF SameTimers
<1>9. k.not_before = NoTime \/ k.not_before <= t
  BY TimingTypes DEF SlotAhead, NoTime
<1>10. CASE HasStarted(k)
  <2>1. r.started = k.started /\ r.timer_generation = k.timer_generation
    BY <1>4, <1>8, <1>10
  <2>2. k.awaiting_pace = FALSE
    BY <1>10, TimingTypes DEF WellTimed
  <2>3. SameTimers(k, r)
    BY <1>8, <2>1, <2>2 DEF SameTimers
  <2>4. WellTimed(r, t)
    BY <1>8, <2>1 DEF WellTimed, HasStarted
  <2>5. QED
    BY <1>8, <2>3, <2>4 DEF Written, r
<1>11. CASE ~HasStarted(k)
  <2>1. r.started = t /\ r.timer_generation = k.timer_generation + 1
    BY <1>4, <1>8, <1>11
  <2>2. t <= t
    OBVIOUS
  <2>3. WellTimed(r, t)
    BY <1>8, <1>9, <2>1, <2>2 DEF WellTimed
  <2>4. QED
    BY <1>8, <1>11, <2>1, <2>3 DEF Written, r
<1>12. QED
  BY <1>10, <1>11

\* write_request, on a stream that is connected or still in its handshake.
LEMMA WriteRequestTiming ==
  ASSUME NEW k \in ConnectionType, NEW t \in Nat, NEW u \in Nat, t <= u, WellTimed(k, t),
         k.handshaking \/ k.established, NEW o \in WriteRequest(k, t, u)
  PROVE  Written(k, o.conn, u)
<1> DEFINE open == [k EXCEPT !.handshaking = FALSE]
<1>1. /\ open \in ConnectionType /\ SameTimers(k, open) /\ open.established = k.established
      /\ open.handshaking = FALSE /\ open.write_offset = k.write_offset
  BY DEF ConnectionType, SameTimers
<1>2. \/ o \in {Outcome(k, r, 0) : r \in {"ok", "io", "tls"}}
      \/ /\ ~RequestIsWritten(k) /\ k.established
         /\ SlotAhead(k, t) /\ o = Outcome(AwaitPace(open), "ok", 0)
      \/ /\ ~RequestIsWritten(k) /\ k.established
         /\ ~SlotAhead(k, u) /\ o \in SendRequest(open, u)
  BY DEF WriteRequest, FinishHandshake
<1> HIDE DEF open
<1>0. WellTimed(k, u)
  BY TimeOnlyHelps
<1>3. WellTimed(open, u)
  BY <1>0, <1>1 DEF WellTimed, SameTimers, HasStarted, RequestIsWritten
<1>4. CASE o \in {Outcome(k, r, 0) : r \in {"ok", "io", "tls"}}
  BY <1>0, <1>4 DEF Outcome, Written, SameTimers
<1>5. CASE ~RequestIsWritten(k) /\ k.established
           /\ SlotAhead(k, t) /\ o = Outcome(AwaitPace(open), "ok", 0)
  <2>1. o.conn = AwaitPace(open)
    BY <1>5 DEF Outcome
  <2>2. ~HasStarted(k) /\ k.not_before # NoTime
    <3>1. k.started \in Nat \cup {-1} /\ k.not_before \in Nat \cup {-1}
      BY TimingTypes
    <3>2. QED
      BY <1>5, <3>1 DEF SlotAhead, WellTimed, HasStarted, NoTime
  <2>3. CASE open.awaiting_pace
    <3>1. o.conn = open
      BY <2>1, <2>3 DEF AwaitPace
    <3>2. QED
      BY <1>1, <1>3, <3>1 DEF Written, SameTimers
  <2>4. CASE ~open.awaiting_pace
    <3> DEFINE r == [open EXCEPT !.awaiting_pace = TRUE, !.timer_generation = @ + 1]
    <3>1. o.conn = r
      BY <2>1, <2>4 DEF AwaitPace
    <3>2. /\ r.timer_generation = open.timer_generation + 1 /\ r.started = open.started
          /\ r.not_before = open.not_before /\ r.awaiting_pace = TRUE /\ r.done = open.done
          /\ r.established = open.established /\ r.handshaking = open.handshaking
          /\ r.write_offset = open.write_offset
      BY <1>1 DEF ConnectionType
    <3> HIDE DEF r
    <3>3. ~HasStarted(r) /\ r.not_before # NoTime /\ r.established /\ ~r.handshaking
          /\ ~RequestIsWritten(r)
      BY <1>1, <1>5, <2>2, <3>2 DEF SameTimers, HasStarted, RequestIsWritten
    <3>4. WellTimed(r, u)
      BY <3>3 DEF WellTimed
    <3>5. QED
      BY <1>1, <3>1, <3>2, <3>4 DEF Written, SameTimers
  <2>5. QED
    BY <2>3, <2>4
<1>6. CASE ~RequestIsWritten(k) /\ ~SlotAhead(k, u) /\ o \in SendRequest(open, u)
  <2>1. ~SlotAhead(open, u)
    BY <1>1, <1>6 DEF SlotAhead, SameTimers
  <2>2. Written(open, o.conn, u)
    BY <1>1, <1>3, <1>6, <2>1, SendRequestTiming
  <2>3. QED
    BY <1>1, <2>2 DEF Written, SameTimers, HasStarted
<1>7. QED
  BY <1>2, <1>4, <1>5, <1>6

\* read_response changes no timer, and answers only on a connected stream.
LEMMA ReadResponseTiming ==
  ASSUME NEW k \in ConnectionType, NEW t \in Nat, WellTimed(k, t), NEW o \in ReadResponse(k)
  PROVE  /\ SameTimers(k, o.conn) /\ WellTimed(o.conn, t)
         /\ o.conn.established = k.established
         /\ o.conn.interest = k.interest
         /\ o.conn.handshaking => k.handshaking
         /\ o.ret \in {"keep", "close"} => k.established
<1> DEFINE open == [k EXCEPT !.handshaking = FALSE]
<1>1. /\ \E r : o = Outcome(k, r, 0) \/ o = Outcome(open, r, 0)
      /\ o.ret \in {"keep", "close"} => k.established
  <2>1. CASE ~k.established
    <3>1. \E r \in {"none", "not_connected", "io"} : o = Outcome(k, r, 0)
      BY <2>1, Zenon DEF ReadResponse
    <3>2. QED
      BY <3>1 DEF Outcome
  <2> HIDE DEF open
  <2>2. CASE k.established
    BY <2>2, Zenon DEF ReadResponse, open
  <2>3. QED
    BY <2>1, <2>2
<1>2. /\ SameTimers(k, open) /\ open.established = k.established /\ open.interest = k.interest
      /\ open.handshaking = FALSE /\ open.write_offset = k.write_offset
  BY DEF ConnectionType, SameTimers
<1> HIDE DEF open
<1>3. WellTimed(open, t)
  BY <1>2 DEF WellTimed, SameTimers, HasStarted, RequestIsWritten
<1>4. o.conn = k \/ o.conn = open
  BY <1>1 DEF Outcome
<1>5. QED
  BY <1>1, <1>2, <1>3, <1>4 DEF SameTimers

\* What finish_response does to the timers: the next request begins a generation, in time;
\* otherwise the connection is left as it was.
Finishes(k, f, t, u) ==
  /\ f.ret = "more" => /\ WellTimed(f.conn, u) /\ f.conn.timer_generation > k.timer_generation
                       /\ f.conn.started \in {NoTime, u}
                       /\ ~Fixed => t < Deadline
  /\ f.ret = "done" => /\ f.conn.timer_generation = k.timer_generation
                       /\ f.conn.started = k.started

\* finish_response, for a response that came on a connected stream.
LEMMA FinishResponseTiming ==
  ASSUME NEW k \in ConnectionType, NEW close \in BOOLEAN, NEW t \in Nat, NEW u \in Nat, t <= u,
         WellTimed(k, t), k.established, NEW f \in FinishResponse(k, close, t, u)
  PROVE  Finishes(k, f, t, u)
<1> DEFINE answered == [k EXCEPT !.completed = @ + 1, !.recovery_attempts = 0]
           blank == [answered EXCEPT !.write_offset = 0, !.started = NoTime]
           installed(slot) == InstallNextRequest(blank, slot)
           reused(slot) == [installed(slot) EXCEPT !.timer_generation = @ + 1, !.sent_from = 0]
<1>0. 0 \in 0..RecoveryBudget /\ 0 \in 0..RequestLen /\ NoTime \in Instants
  BY BudgetAssumption, RequestLenAssumption DEF Instants
<1>1. answered \in ConnectionType /\ SameTimers(k, answered)
      /\ answered.established = k.established /\ answered.handshaking = k.handshaking
  <2>1. k.completed + 1 \in Nat
    BY FieldTypes
  <2>2. answered \in ConnectionType
    BY <1>0, <2>1 DEF ConnectionType
  <2>3. QED
    BY <2>2 DEF ConnectionType, SameTimers
<1>2. /\ blank \in ConnectionType /\ blank.timer_generation = k.timer_generation
      /\ blank.started = NoTime /\ blank.established = k.established
      /\ blank.handshaking = k.handshaking
  <2> HIDE DEF answered
  <2>1. QED
    BY <1>0, <1>1 DEF ConnectionType, SameTimers
<1>3. ASSUME NEW v \in Nat, NEW slot \in Slots(v), NEW w \in Nat
      PROVE  /\ installed(slot) \in ConnectionType /\ WellTimed(installed(slot), w)
             /\ installed(slot).timer_generation = k.timer_generation
             /\ reused(slot) \in ConnectionType /\ WellTimed(reused(slot), w)
             /\ reused(slot).timer_generation = k.timer_generation + 1
             /\ installed(slot).started = NoTime /\ reused(slot).started = NoTime
             /\ reused(slot).established
  <2>1. slot \in Instants /\ blank.drawn + 1 \in Nat
    BY <1>2, FieldTypes, PaceAssumption DEF Slots, Instants
  <2> DEFINE ins == installed(slot)
             reu == reused(slot)
  <2> HIDE DEF answered, blank
  <2>2. ins \in ConnectionType
    BY <1>2, <2>1 DEF InstallNextRequest, ConnectionType
  <2>3. /\ ins.timer_generation = k.timer_generation /\ ins.started = NoTime
        /\ ins.awaiting_pace = FALSE /\ ins.established = k.established
        /\ ins.handshaking = k.handshaking
    BY <1>2 DEF InstallNextRequest, ConnectionType
  <2>4. ins.timer_generation + 1 \in Nat
    BY <2>2, FieldTypes
  <2> HIDE DEF installed
  <2>5. reu \in ConnectionType
    BY <1>0, <2>2, <2>4 DEF ConnectionType
  <2>6. /\ reu.timer_generation = ins.timer_generation + 1 /\ reu.started = ins.started
        /\ reu.awaiting_pace = ins.awaiting_pace /\ reu.established = ins.established
        /\ reu.handshaking = ins.handshaking
    BY <2>2 DEF ConnectionType
  <2> HIDE DEF ins, reu
  <2>7. WellTimed(ins, w) /\ WellTimed(reu, w)
    BY <2>3, <2>6 DEF WellTimed, HasStarted
  <2>8. QED
    BY <2>2, <2>3, <2>5, <2>6, <2>7 DEF ins, reu
<1> HIDE DEF answered, blank, installed, reused
<1> DEFINE closed(slot) ==
             { Outcome(NewStream(installed(slot), a, u), "more", 0) : a \in ConnectFrom(0) }
             \cup { Outcome(Deregistered(installed(slot)), "err", 0) }
           written(o) == IF o.ret = "ok"
                         THEN { Outcome(r, "more", 0) : r \in RefreshInterest(o.conn, u) }
                         ELSE { Outcome(o.conn, "err", 0) }
           kept(slot, v) == UNION { written(o) : o \in WriteRequest(reused(slot), v, u) }
           next(slot, v) == IF close THEN closed(slot) ELSE kept(slot, v)
           nexts == UNION { UNION { next(slot, v) : slot \in Slots(v) } : v \in t..u }
<1>4. \/ f = Outcome(Stopped(answered), "done", 0)
      \/ ShouldContinue(answered, t) /\ f \in nexts
  <2>1. FinishResponse(k, close, t, u) =
          (IF ShouldContinue(answered, u) THEN {} ELSE { Outcome(Stopped(answered), "done", 0) })
          \cup (IF ShouldContinue(answered, t) THEN nexts ELSE {})
    BY DEF FinishResponse, answered, blank, installed, reused
  <2> HIDE DEF nexts
  <2>2. QED
    BY <2>1
<1> HIDE DEF closed, written, kept, next, nexts
<1>5. CASE f = Outcome(Stopped(answered), "done", 0)
  <2>1. /\ Stopped(answered).timer_generation = answered.timer_generation
        /\ Stopped(answered).started = answered.started
    BY <1>1 DEF Stopped, ConnectionType
  <2>2. QED
    BY <1>1, <1>5, <2>1 DEF Outcome, Finishes, SameTimers
<1>6. CASE ShouldContinue(answered, t) /\ f \in nexts
  <2>1. ~Fixed => t < Deadline
    BY <1>6 DEF ShouldContinue
  <2>2. PICK v \in t..u : f \in UNION { next(slot, v) : slot \in Slots(v) }
    BY <1>6 DEF nexts
  <2>3. PICK slot \in Slots(v) : f \in next(slot, v)
    BY <2>2
  <2>4. v \in Nat /\ v <= u
    OBVIOUS
  <2>5. \/ \E a \in ConnectFrom(0) : f = Outcome(NewStream(installed(slot), a, u), "more", 0)
        \/ f = Outcome(Deregistered(installed(slot)), "err", 0)
        \/ \E o \in WriteRequest(reused(slot), v, u) :
             \/ \E r \in RefreshInterest(o.conn, u) : f = Outcome(r, "more", 0)
             \/ f = Outcome(o.conn, "err", 0)
    <3>1. CASE f \in closed(slot)
      BY <3>1 DEF closed
    <3>2. CASE f \in kept(slot, v)
      <4>1. PICK o \in WriteRequest(reused(slot), v, u) : f \in written(o)
        BY <3>2 DEF kept
      <4>2. \/ \E r \in RefreshInterest(o.conn, u) : f = Outcome(r, "more", 0)
            \/ f = Outcome(o.conn, "err", 0)
        BY <4>1 DEF written
      <4>3. QED
        BY <4>2
    <3>3. QED
      BY <2>3, <3>1, <3>2 DEF next
  <2> DEFINE ins == installed(slot)
             reu == reused(slot)
  <2>6. /\ ins \in ConnectionType /\ reu \in ConnectionType
        /\ WellTimed(ins, u) /\ WellTimed(reu, v) /\ reu.established
        /\ ins.timer_generation = k.timer_generation
        /\ reu.timer_generation = k.timer_generation + 1
        /\ ins.started = NoTime /\ reu.started = NoTime
        /\ k.timer_generation \in Nat
    BY <1>3, <2>4, FieldTypes
  <2> HIDE DEF ins, reu
  <2>7. ASSUME NEW a \in ConnectFrom(0), f = Outcome(NewStream(ins, a, u), "more", 0)
        PROVE  Finishes(k, f, t, u)
    <3>1. /\ WellTimed(NewStream(ins, a, u), u) /\ NewStream(ins, a, u).started = ins.started
          /\ NewStream(ins, a, u).timer_generation = ins.timer_generation + 1
      BY <2>6, NewStreamTiming DEF ConnectFrom
    <3>2. QED
      BY <2>1, <2>6, <2>7, <3>1 DEF Outcome, Finishes
  <2>8. ASSUME NEW r, f = Outcome(r, "err", 0)
        PROVE  Finishes(k, f, t, u)
    BY <2>8 DEF Outcome, Finishes
  <2>9. ASSUME NEW o \in WriteRequest(reu, v, u), NEW r \in RefreshInterest(o.conn, u),
               f = Outcome(r, "more", 0)
        PROVE  Finishes(k, f, t, u)
    <3>1. o.conn \in ConnectionType /\ Written(reu, o.conn, u)
      BY <2>4, <2>6, WriteRequestFacts, WriteRequestTiming
    <3>2. /\ WellTimed(o.conn, u) /\ o.conn.timer_generation >= reu.timer_generation
          /\ o.conn.started \in {NoTime, u}
      BY <2>6, <3>1 DEF Written, SameTimers
    <3>3. SameTimers(o.conn, r) /\ WellTimed(r, u)
      BY <3>1, <3>2, RefreshInterestTiming
    <3>4. r.timer_generation > k.timer_generation /\ r.started \in {NoTime, u}
      BY <2>6, <3>1, <3>2, <3>3, FieldTypes DEF SameTimers
    <3>5. QED
      BY <2>1, <2>9, <3>3, <3>4 DEF Outcome, Finishes
  <2>10. QED
    BY <2>5, <2>7, <2>8, <2>9 DEF ins, reu
<1>7. QED
  BY <1>4, <1>5, <1>6

(***************************************************************************)
(* What a step does to the timers of a connection.                         *)
(***************************************************************************)
\* A step that leaves connection b and its current entries alone.
Undisturbed(b) ==
  /\ conn'[b] = conn[b] /\ now <= now' /\ (InLoop' => InLoop)
  /\ \A e \in deadlines' : e.token = b => e \in deadlines
  /\ \A e \in pacing' : e.token = b => e \in pacing
  /\ InLoop' => /\ \A e \in deadlines : e.token = b /\ Current(e) => e \in deadlines'
                /\ \A e \in pacing : e.token = b /\ CurrentPace(e) => e \in pacing'

\* What TimersInOrder says of connection b, apart from the readiness.
TimersOf(b) == (Live(b) => WellTimed(conn[b], now)) /\ EntriesAgree(b) /\ IsAwaited(b)

\* A connection that is left alone keeps its timers in order.
LEMMA UndisturbedKeeps ==
  ASSUME TypeOK, TypeOK', NEW b \in Conns, TimersOf(b), Undisturbed(b)
  PROVE  TimersOf(b)'
<1> DEFINE k == conn[b]
<1>1. k \in ConnectionType /\ now \in Nat /\ now' \in Nat /\ now <= now' /\ conn'[b] = k
  BY DEF TypeOK, Undisturbed
<1>2. /\ WellTimed(k, now) => WellTimed(k, now')
      /\ SlotHasCome(k, now) => SlotHasCome(k, now')
      /\ AsksToWrite(k, now) => AsksToWrite(k, now')
  BY <1>1, TimeOnlyHelps
<1>3. Live(b)' <=> Live(b)
  BY <1>1 DEF Live
<1>4. ASSUME NEW e, e.token = b
      PROVE  (Current(e)' <=> Current(e)) /\ (CurrentPace(e)' <=> CurrentPace(e))
  BY <1>1, <1>4 DEF Current, CurrentPace, Live
<1>5. EntriesAgree(b)'
  <2>1. ASSUME NEW e \in deadlines', e.token = b
        PROVE  /\ e.generation <= conn'[b].timer_generation
               /\ Current(e)' => e.at = NextDeadline(conn'[b])
    BY <1>1, <1>4, <2>1 DEF Undisturbed, TimersOf, EntriesAgree
  <2>2. ASSUME NEW e \in pacing', e.token = b
        PROVE  /\ e.generation <= conn'[b].timer_generation
               /\ Current(e)' => e.at = PacingDeadline(conn'[b])
    BY <1>1, <1>4, <2>2 DEF Undisturbed, TimersOf, EntriesAgree
  <2>3. QED
    BY <2>1, <2>2, Zenon DEF EntriesAgree
<1>6. InLoop' /\ HasDeadline(b) => HasDeadline(b)'
  BY <1>1, <1>4, Zenon DEF HasDeadline, Undisturbed
<1>7. InLoop' /\ HasPacing(b) => HasPacing(b)'
  BY <1>4, Zenon DEF HasPacing, Undisturbed
<1>8. IsAwaited(b)'
  <2>1. SUFFICES ASSUME InLoop', Live(b)'
        PROVE  /\ HasDeadline(b)' \/ HasPacing(b)' \/ SlotHasCome(conn'[b], now')
               /\ conn'[b].awaiting_pace => HasPacing(b)' \/ AsksToWrite(conn'[b], now')
    BY Zenon DEF IsAwaited
  <2>2. InLoop /\ Live(b)
    BY <1>3, <2>1 DEF Undisturbed
  <2>3. QED
    BY <1>1, <1>2, <1>6, <1>7, <2>1, <2>2 DEF TimersOf, IsAwaited
<1>9. QED
  BY <1>1, <1>2, <1>3, <1>5, <1>8 DEF TimersOf

\* The heaps lose entries of connection c only, and gain only those its record r asks for.
OnlyOf(c, r) ==
  /\ deadlines' \subseteq deadlines \cup DeadlineEntry(c, r)
  /\ pacing' \subseteq pacing \cup PacingEntry(c, r)
  /\ \A e \in deadlines \ deadlines' : e.token = c
  /\ \A e \in pacing \ pacing' : e.token = c

\* The timers are those it had.
Kept(c, r) ==
  /\ UNCHANGED <<deadlines, pacing>>
  /\ SameTimers(conn[c], r) /\ WellTimed(r, now')
  /\ conn[c].established => r.established
  /\ r.awaiting_pace /\ AsksToWrite(conn[c], now) => AsksToWrite(r, now')

\* A new generation has its timers.
Renewed(c, r) ==
  /\ OnlyOf(c, r)
  /\ ~r.done /\ WellTimed(r, now') /\ r.timer_generation > conn[c].timer_generation
  /\ DeadlineEntry(c, r) \subseteq deadlines' /\ PacingEntry(c, r) \subseteq pacing'

\* The connection is done.
Gone(c, r) ==
  /\ OnlyOf(c, r)
  /\ r.done /\ r.timer_generation >= conn[c].timer_generation

\* The slot has come: the request may be written, or a stream for it is on its way.
Resumed(c, r) ==
  /\ OnlyOf(c, r)
  /\ SameTimers(conn[c], r) \/ r.timer_generation > conn[c].timer_generation
  /\ WellTimed(r, now') /\ SlotHasCome(r, now')
  /\ r.awaiting_pace => AsksToWrite(r, now')

\* The record of c becomes r, in one of these ways.
Retimed(c, r) ==
  /\ conn' = [conn EXCEPT ![c] = r]
  /\ Kept(c, r) \/ Renewed(c, r) \/ Gone(c, r) \/ Resumed(c, r)

\* The entries made for a record are its own.
LEMMA EntryOf ==
  ASSUME NEW c, NEW k
  PROVE  /\ \A e \in DeadlineEntry(c, k) :
              e.token = c /\ e.generation = k.timer_generation /\ e.at = NextDeadline(k)
         /\ \A e \in PacingEntry(c, k) :
              e.token = c /\ e.generation = k.timer_generation /\ e.at = PacingDeadline(k)
  BY DEF DeadlineEntry, PacingEntry

\* An entry is made when the record asks for one.
LEMMA EntryMade ==
  ASSUME NEW c, NEW k
  PROVE  /\ NextDeadline(k) # NoTime =>
              [at |-> NextDeadline(k), token |-> c, generation |-> k.timer_generation]
                \in DeadlineEntry(c, k)
         /\ PacingDeadline(k) # NoTime =>
              [at |-> PacingDeadline(k), token |-> c, generation |-> k.timer_generation]
                \in PacingEntry(c, k)
  BY DEF DeadlineEntry, PacingEntry

\* A retimed connection agrees with its entries.
LEMMA RetimedAgrees ==
  ASSUME TypeOK, NEW c \in Conns, NEW r \in ConnectionType, EntriesAgree(c), Retimed(c, r), Live(c)
  PROVE  EntriesAgree(c)'
<1> DEFINE k == conn[c]
<1>1. /\ k \in ConnectionType /\ k.timer_generation \in Nat /\ r.timer_generation \in Nat
      /\ conn'[c] = r /\ deadlines \subseteq Timers /\ pacing \subseteq Timers
      /\ \A e \in Timers : e.generation \in Nat
  BY FieldTypes DEF TypeOK, Retimed, Timers
<1>2. /\ deadlines' \subseteq deadlines \cup DeadlineEntry(c, r)
      /\ pacing' \subseteq pacing \cup PacingEntry(c, r)
  BY DEF Retimed, Kept, Renewed, Gone, Resumed, OnlyOf
<1>3. \/ SameTimers(k, r)
      \/ r.timer_generation > k.timer_generation
      \/ r.done /\ r.timer_generation >= k.timer_generation
  BY DEF Retimed, Kept, Renewed, Gone, Resumed
<1>4. ASSUME NEW e, e.token = c
      PROVE  /\ Current(e) <=> k.timer_generation = e.generation
             /\ Current(e)' <=> ~r.done /\ r.timer_generation = e.generation
  BY <1>1, <1>4 DEF Current, Live
<1>5. ASSUME NEW e, e.token = c, e.generation \in Nat, e.generation <= k.timer_generation, NEW x, NEW y,
             Current(e) => e.at = x, SameTimers(k, r) => y = x
      PROVE  e.generation <= r.timer_generation /\ (Current(e)' => e.at = y)
  <2>1. CASE SameTimers(k, r)
    BY <1>1, <1>4, <1>5, <2>1 DEF SameTimers, Live
  <2>2. CASE r.timer_generation > k.timer_generation
    BY <1>1, <1>4, <1>5, <2>2
  <2>3. CASE r.done /\ r.timer_generation >= k.timer_generation
    BY <1>1, <1>4, <1>5, <2>3
  <2>4. QED
    BY <1>3, <2>1, <2>2, <2>3
<1>6. /\ SameTimers(k, r) => NextDeadline(r) = NextDeadline(k)
      /\ SameTimers(k, r) => PacingDeadline(r) = PacingDeadline(k)
  BY SameDeadlines
<1>7. ASSUME NEW e \in deadlines', e.token = c
      PROVE  e.generation <= r.timer_generation /\ (Current(e)' => e.at = NextDeadline(r))
  <2>1. CASE e \in deadlines
    <3>1. /\ e.generation \in Nat /\ e.generation <= k.timer_generation
          /\ Current(e) => e.at = NextDeadline(k)
      BY <1>1, <1>7, <2>1 DEF EntriesAgree
    <3>2. QED
      BY <1>5, <1>6, <1>7, <3>1
  <2>2. CASE e \in DeadlineEntry(c, r)
    <3>1. e.generation = r.timer_generation /\ e.at = NextDeadline(r)
      BY <2>2, EntryOf
    <3>2. QED
      BY <1>1, <3>1
  <2>3. QED
    BY <1>2, <1>7, <2>1, <2>2
<1>8. ASSUME NEW e \in pacing', e.token = c
      PROVE  e.generation <= r.timer_generation /\ (Current(e)' => e.at = PacingDeadline(r))
  <2>1. CASE e \in pacing
    <3>1. /\ e.generation \in Nat /\ e.generation <= k.timer_generation
          /\ Current(e) => e.at = PacingDeadline(k)
      BY <1>1, <1>8, <2>1 DEF EntriesAgree
    <3>2. QED
      BY <1>5, <1>6, <1>8, <3>1
  <2>2. CASE e \in PacingEntry(c, r)
    <3>1. e.generation = r.timer_generation /\ e.at = PacingDeadline(r)
      BY <2>2, EntryOf
    <3>2. QED
      BY <1>1, <3>1
  <2>3. QED
    BY <1>2, <1>8, <2>1, <2>2
<1>9. QED
  BY <1>1, <1>7, <1>8, Zenon DEF EntriesAgree

\* A retimed connection that lives on has something that wakes the worker for it.
LEMMA RetimedAwaited ==
  ASSUME TypeOK, NEW c \in Conns, NEW r \in ConnectionType, IsAwaited(c), Retimed(c, r), Live(c),
         pc' = pc, TypeOK', now <= now'
  PROVE  IsAwaited(c)'
<1> DEFINE k == conn[c]
<1>1. k \in ConnectionType /\ conn'[c] = r /\ now \in Nat /\ now' \in Nat /\ (InLoop' <=> InLoop)
  BY DEF TypeOK, Retimed, InLoop
<1>2. SUFFICES ASSUME InLoop, ~r.done
      PROVE  /\ HasDeadline(c)' \/ HasPacing(c)' \/ SlotHasCome(r, now')
             /\ r.awaiting_pace => HasPacing(c)' \/ AsksToWrite(r, now')
  BY <1>1 DEF IsAwaited, Live
<1>3. CASE Kept(c, r)
  <2>1. SameTimers(k, r) /\ deadlines' = deadlines /\ pacing' = pacing
    BY <1>3 DEF Kept
  <2>2. NextDeadline(r) = NextDeadline(k) /\ PacingDeadline(r) = PacingDeadline(k)
    BY <2>1, SameDeadlines
  <2>3. ASSUME NEW e, e.token = c, Current(e)
        PROVE  Current(e)'
    BY <1>1, <1>2, <2>1, <2>3 DEF Current, Live, SameTimers
  <2>4. HasDeadline(c) => HasDeadline(c)'
    BY <1>1, <2>1, <2>2, <2>3, Zenon DEF HasDeadline
  <2>5. HasPacing(c) => HasPacing(c)'
    <3>1. ASSUME NEW e, e.token = c, CurrentPace(e)
          PROVE  CurrentPace(e)'
      BY <1>1, <2>2, <2>3, <3>1 DEF CurrentPace
    <3>2. QED
      BY <2>1, <3>1, Zenon DEF HasPacing
  <2>6. /\ HasDeadline(c) \/ HasPacing(c) \/ SlotHasCome(k, now)
        /\ k.awaiting_pace => HasPacing(c) \/ AsksToWrite(k, now)
    BY <1>2 DEF IsAwaited
  <2>7. SlotHasCome(k, now) => SlotHasCome(r, now')
    <3>1. SlotHasCome(k, now) => SlotHasCome(k, now')
      BY <1>1, TimeOnlyHelps
    <3>2. QED
      BY <2>1, <3>1 DEF SlotHasCome, SlotAhead, HasStarted, SameTimers
  <2>8. QED
    BY <1>3, <2>1, <2>4, <2>5, <2>6, <2>7 DEF Kept, SameTimers
<1>4. CASE Renewed(c, r)
  <2>1. /\ ~r.awaiting_pace => NextDeadline(r) # NoTime
        /\ r.awaiting_pace => PacingDeadline(r) # NoTime
    BY <1>1, <1>4, OneTimer DEF Renewed
  <2>2. ~r.awaiting_pace => HasDeadline(c)'
    <3> DEFINE e == [at |-> NextDeadline(r), token |-> c, generation |-> r.timer_generation]
    <3>1. HAVE ~r.awaiting_pace
    <3>2. e \in deadlines'
      BY <1>4, <2>1, <3>1, EntryMade DEF Renewed
    <3>3. e.token = c /\ e.at = NextDeadline(conn'[c]) /\ Current(e)'
      BY <1>1, <1>2 DEF Current, Live
    <3> HIDE DEF e
    <3>4. QED
      BY <3>2, <3>3, Zenon DEF HasDeadline
  <2>3. r.awaiting_pace => HasPacing(c)'
    <3> DEFINE e == [at |-> PacingDeadline(r), token |-> c, generation |-> r.timer_generation]
    <3>1. HAVE r.awaiting_pace
    <3>2. e \in pacing'
      BY <1>4, <2>1, <3>1, EntryMade DEF Renewed
    <3>3. e.token = c /\ CurrentPace(e)'
      BY <1>1, <1>2 DEF CurrentPace, Current, Live
    <3> HIDE DEF e
    <3>4. QED
      BY <3>2, <3>3, Zenon DEF HasPacing
  <2>4. QED
    BY <2>2, <2>3
<1>5. CASE Resumed(c, r)
  BY <1>5 DEF Resumed
<1>6. QED
  BY <1>2, <1>3, <1>4, <1>5 DEF Retimed, Gone

\* The timers stay in order when one connection is retimed and its readiness handled.
LEMMA RetimedKeeps ==
  ASSUME TypeOK, TypeOK', TimersInOrder, NEW c \in Conns, NEW r \in ConnectionType, Live(c),
         Retimed(c, r), pc' = pc, now <= now', pc = "connect" => Kept(c, r),
         \A b \in Conns : batch'[b] \subseteq batch[b], "W" \in batch'[c] => Kept(c, r)
  PROVE  TimersInOrder'
<1>1. conn'[c] = r /\ conn \in [Conns -> ConnectionType] /\ now \in Nat /\ now' \in Nat /\ (InLoop' => InLoop)
  BY DEF TypeOK, Retimed, InLoop
<1>2. TimersOf(c)'
  <2>1. EntriesAgree(c)'
    BY RetimedAgrees DEF TimersInOrder
  <2>2. IsAwaited(c)'
    BY RetimedAwaited DEF TimersInOrder
  <2>3. ~r.done => WellTimed(r, now')
    BY DEF Retimed, Kept, Renewed, Gone, Resumed
  <2>4. QED
    BY <1>1, <2>1, <2>2, <2>3 DEF TimersOf, Live
<1>3. ASSUME NEW b \in Conns, b # c
      PROVE  TimersOf(b)'
  <2>1. conn'[b] = conn[b]
    BY <1>1, <1>3 DEF Retimed
  <2>2. /\ \A e \in deadlines' : e.token = b => e \in deadlines
        /\ \A e \in pacing' : e.token = b => e \in pacing
        /\ \A e \in deadlines : e.token = b => e \in deadlines'
        /\ \A e \in pacing : e.token = b => e \in pacing'
    <3>1. CASE Kept(c, r)
      BY <3>1 DEF Kept
    <3>2. CASE OnlyOf(c, r)
      BY <1>3, <3>2, EntryOf DEF OnlyOf
    <3>3. QED
      BY <3>1, <3>2 DEF Retimed, Renewed, Gone, Resumed
  <2>3. Undisturbed(b)
    BY <1>1, <2>1, <2>2 DEF Undisturbed
  <2>4. QED
    BY <2>3, UndisturbedKeeps DEF TimersInOrder, TimersOf
<1>4. ASSUME NEW b \in Conns
      PROVE  ReadinessIsFresh(b)'
  <2>1. pc' \in {"connect", "poll", "deadlines", "pacing"} => batch'[b] = {}
    BY DEF TimersInOrder, ReadinessIsFresh
  <2>2. CASE b # c
    <3>1. conn'[b] = conn[b] /\ batch'[b] \subseteq batch[b]
      BY <1>1, <2>2 DEF Retimed
    <3>2. QED
      BY <2>1, <3>1 DEF TimersInOrder, ReadinessIsFresh, Live
  <2>3. CASE b = c
    <3>1. "W" \in batch'[c] => conn[c].established /\ Kept(c, r)
      BY DEF TimersInOrder, ReadinessIsFresh, Live
    <3>2. QED
      BY <1>1, <2>1, <2>3, <3>1 DEF ReadinessIsFresh, Kept
  <2>4. QED
    BY <2>2, <2>3
<1>5. pc' = "connect" => deadlines' = {} /\ pacing' = {}
  BY DEF TimersInOrder, Kept
<1>6. QED
  BY <1>2, <1>3, <1>4, <1>5, Zenon DEF TimersInOrder, TimersOf

(***************************************************************************)
(* What the handlers of a failure do.                                      *)
(***************************************************************************)
\* The worker returns an error and leaves everything as it was.
Aborts == pc' \in Errors /\ UNCHANGED <<conn, deadlines, pacing, errors>>

\* Only failures of connection c are counted, and only of these kinds.
Charges(c, kinds) ==
  /\ \A b \in Conns \ {c} : errors'[b] = errors[b]
  /\ \A kind \in Kinds \ kinds : errors'[c][kind] = errors[c][kind]

\* In a fixed run a failure that is answered at once by a new stream is a counted attempt.
CountedRecovery(c, r) ==
  Fixed /\ ~r.done /\ ~r.reconnect_at_pace => errors' = errors \/ recovered'[c] > recovered[c]

\* A failure of connection c, whose record has become k, is handled: the worker aborts, or
\* the connection has a new generation or is done.  No request is started.
FailureHandled(c, k, kinds) ==
  \/ Aborts
  \/ \E r \in ConnectionType :
       /\ pc' = pc /\ conn' = [conn EXCEPT ![c] = r]
       /\ Renewed(c, r) \/ Gone(c, r)
       /\ r.started \in {k.started, NoTime}
       /\ Charges(c, kinds) /\ CountedRecovery(c, r)

\* d is the deadline heap without some entries of connection c.
Popped(c, d) == d \subseteq deadlines /\ \A e \in deadlines \ d : e.token = c

\* A counted failure charges its connection with one kind.
LEMMA CountTiming ==
  ASSUME TypeOK, NEW c \in Conns, NEW kind \in Kinds, NEW n \in Nat, NEW lost \in Nat,
         Count(c, kind, n, lost)
  PROVE  Charges(c, {kind}) /\ recovered'[c] = recovered[c] + n /\ recovered[c] \in Nat
<1>1. errors \in [Conns -> [Kinds -> Nat]] /\ recovered \in [Conns -> Nat]
  BY DEF TypeOK
<1>2. errors' = [errors EXCEPT ![c] = [errors[c] EXCEPT ![kind] = errors[c][kind] + 1]]
  BY <1>1 DEF Count
<1>3. QED
  BY <1>1, <1>2 DEF Count, Charges

\* Rearm is a renewal when the generation is new.
LEMMA RearmRenews ==
  ASSUME NEW c \in Conns, NEW r \in ConnectionType, NEW d, Popped(c, d), Rearm(c, r, d, pacing),
         ~r.done, WellTimed(r, now'), r.timer_generation > conn[c].timer_generation
  PROVE  Renewed(c, r)
  BY DEF Renewed, OnlyOf, Popped, Rearm

\* Retire leaves the connection gone.
LEMMA RetireGoes ==
  ASSUME NEW c \in Conns, NEW r \in ConnectionType, NEW d, Popped(c, d), Retire(c, r, d),
         r.done, r.timer_generation >= conn[c].timer_generation
  PROVE  Gone(c, r)
  BY DEF Gone, OnlyOf, Popped, Retire

\* Stopping a connection changes no timer.
LEMMA StoppedTiming ==
  ASSUME NEW k \in ConnectionType
  PROVE  /\ Stopped(k).timer_generation = k.timer_generation
         /\ Stopped(k).started = k.started
  BY DEF Stopped, ConnectionType

\* Recover handles a failure of a started request.
LEMMA RecoverTiming ==
  ASSUME TypeOK, TypeOK', NEW c \in Conns, NEW k \in ConnectionType, ~k.done, NEW t \in Nat, WellTimed(k, now'),
         k.timer_generation >= conn[c].timer_generation,
         NEW kind \in Kinds, NEW d, Popped(c, d), Recover(c, k, kind, d, t)
  PROVE  FailureHandled(c, k, {kind})
<1>1. PICK o \in RecoverRequest(k, t, now') :
    \/ /\ o.ret = "yes"
       /\ Rearm(c, o.conn, d, pacing)
       /\ Count(c, kind, o.attempts, 0)
       /\ UNCHANGED <<pc, active>>
    \/ /\ o.ret = "no" /\ (IsPastDeadline(now') \/ o.conn.done)
       /\ Retire(c, IF IsPastDeadline(now') THEN Stopped(o.conn) ELSE o.conn, d)
       /\ Count(c, kind, o.attempts, UnfinishedRequests(o.conn))
    \/ /\ o.ret = "no" /\ ~IsPastDeadline(now') /\ ~o.conn.done
       /\ Abort("fell_through")
    \/ /\ o.ret = "err"
       /\ Abort("io_error")
  BY Zenon DEF Recover
<1>2. now' \in Nat /\ conn[c] \in ConnectionType /\ conn[c].timer_generation \in Nat
      /\ k.timer_generation \in Nat /\ 0 \in Nat
  BY FieldTypes DEF TypeOK
<1>3. Reconnected(k, o, now') /\ Reconnects(k, o, now') /\ (o.ret = "yes" => o.attempts > 0)
  BY <1>2, RecoverRequestFacts, RecoverRequestTiming
<1>4. CASE o.ret = "yes"
  <2>1. /\ o.conn \in ConnectionType /\ o.attempts \in Nat /\ o.attempts > 0 /\ ~o.conn.done
        /\ WellTimed(o.conn, now') /\ o.conn.timer_generation = k.timer_generation + 1
        /\ o.conn.started \in {k.started, NoTime}
    BY <1>3, <1>4 DEF Reconnected, Reconnects
  <2>2. Rearm(c, o.conn, d, pacing) /\ Count(c, kind, o.attempts, 0) /\ pc' = pc
    BY <1>1, <1>4
  <2>3. o.conn.timer_generation > conn[c].timer_generation
    BY <1>2, <2>1
  <2>4. Renewed(c, o.conn) /\ conn' = [conn EXCEPT ![c] = o.conn]
    BY <2>1, <2>2, <2>3, RearmRenews DEF Rearm
  <2>5. Charges(c, {kind}) /\ recovered'[c] > recovered[c]
    BY <1>2, <2>1, <2>2, CountTiming
  <2>6. QED
    BY <2>1, <2>2, <2>4, <2>5 DEF FailureHandled, CountedRecovery
<1>5. CASE o.ret = "no" /\ (IsPastDeadline(now') \/ o.conn.done)
  <2> DEFINE r == IF IsPastDeadline(now') THEN Stopped(o.conn) ELSE o.conn
  <2>1. /\ o.conn \in ConnectionType /\ o.attempts \in Nat
        /\ o.conn.timer_generation = k.timer_generation
        /\ o.conn.started \in {k.started, NoTime}
    BY <1>3, <1>5 DEF Reconnected, Reconnects
  <2>2. /\ r \in ConnectionType /\ r.done /\ r.timer_generation = k.timer_generation
        /\ r.started \in {k.started, NoTime}
    BY <1>5, <2>1, StoppedFacts, StoppedTiming
  <2>3. Retire(c, r, d) /\ Count(c, kind, o.attempts, UnfinishedRequests(o.conn))
    BY <1>1, <1>5
  <2> HIDE DEF r
  <2>4. Charges(c, {kind})
    BY <2>1, <2>3, UnfinishedFacts, CountTiming
  <2>5. Gone(c, r) /\ pc' = pc /\ conn' = [conn EXCEPT ![c] = r]
    BY <2>2, <2>3, RetireGoes DEF Retire
  <2>6. QED
    BY <2>2, <2>4, <2>5 DEF FailureHandled, CountedRecovery
<1>6. CASE \/ o.ret = "err"
           \/ o.ret = "no" /\ ~IsPastDeadline(now') /\ ~o.conn.done
  BY <1>1, <1>6 DEF Abort, Aborts, FailureHandled, timers, counters, Errors
<1>7. QED
  BY <1>3, <1>4, <1>5, <1>6 DEF Reconnected

\* Retry handles a failed connect, started request or not.
LEMMA RetryTiming ==
  ASSUME TypeOK, TypeOK', NEW c \in Conns, NEW k \in ConnectionType, ~k.done, WellTimed(k, now'),
         k.timer_generation >= conn[c].timer_generation,
         NEW d, Popped(c, d), Retry(c, k, d)
  PROVE  FailureHandled(c, k, {"connect"})
<1>1. PICK o \in RetryAddress(k, now') :
    \/ /\ o.ret = "yes"
       /\ Rearm(c, o.conn, d, pacing)
       /\ Count(c, "connect", o.attempts, 0)
       /\ UNCHANGED <<pc, active>>
    \/ /\ o.ret = "no"
       /\ Retire(c, o.conn, d)
       /\ Count(c, "connect", o.attempts, UnfinishedRequests(o.conn))
    \/ /\ o.ret = "err"
       /\ Abort("io_error")
  BY Zenon DEF Retry
<1>2. now' \in Nat /\ conn[c] \in ConnectionType /\ conn[c].timer_generation \in Nat
      /\ k.timer_generation \in Nat /\ 0 \in Nat /\ "connect" \in Kinds
  BY FieldTypes DEF TypeOK, Kinds
<1>3. Reconnected(k, o, now') /\ Reconnects(k, o, now') /\ (~Fixed => o.ret # "no")
  BY <1>2, RetryAddressFacts, RetryAddressTiming
<1>4. CASE o.ret = "yes"
  <2>1. /\ o.conn \in ConnectionType /\ o.attempts \in Nat /\ ~o.conn.done
        /\ Fixed => o.attempts > 0
        /\ WellTimed(o.conn, now') /\ o.conn.timer_generation = k.timer_generation + 1
        /\ o.conn.started \in {k.started, NoTime}
    BY <1>3, <1>4 DEF Reconnected, Reconnects
  <2>2. Rearm(c, o.conn, d, pacing) /\ Count(c, "connect", o.attempts, 0) /\ pc' = pc
    BY <1>1, <1>4
  <2>3. o.conn.timer_generation > conn[c].timer_generation
    BY <1>2, <2>1
  <2>4. Renewed(c, o.conn) /\ conn' = [conn EXCEPT ![c] = o.conn]
    BY <2>1, <2>2, <2>3, RearmRenews DEF Rearm
  <2>5. Charges(c, {"connect"}) /\ (Fixed => recovered'[c] > recovered[c])
    <3>1. /\ Charges(c, {"connect"}) /\ recovered'[c] = recovered[c] + o.attempts
          /\ recovered[c] \in Nat
      BY <1>2, <2>1, <2>2, CountTiming
    <3>2. QED
      BY <2>1, <3>1
  <2>6. QED
    BY <2>1, <2>2, <2>4, <2>5 DEF FailureHandled, CountedRecovery
<1>5. CASE o.ret = "no"
  <2>1. /\ o.conn \in ConnectionType /\ o.attempts \in Nat /\ o.conn.done
        /\ o.conn.timer_generation = k.timer_generation
        /\ o.conn.started \in {k.started, NoTime}
    BY <1>3, <1>5 DEF Reconnected, Reconnects, IsPastDeadline
  <2>2. Retire(c, o.conn, d) /\ Count(c, "connect", o.attempts, UnfinishedRequests(o.conn))
    BY <1>1, <1>5
  <2>3. Charges(c, {"connect"})
    BY <1>2, <2>1, <2>2, UnfinishedFacts, CountTiming
  <2>4. Gone(c, o.conn) /\ pc' = pc /\ conn' = [conn EXCEPT ![c] = o.conn]
    BY <2>1, <2>2, RetireGoes DEF Retire
  <2>5. QED
    BY <2>1, <2>3, <2>4 DEF FailureHandled, CountedRecovery
<1>6. CASE o.ret = "err"
  BY <1>1, <1>6 DEF Abort, Aborts, FailureHandled, timers, counters, Errors
<1>7. QED
  BY <1>3, <1>4, <1>5, <1>6 DEF Reconnected

\* ConnectFailed probes a handshake first; a stream that is not in one starts nothing.
LEMMA ConnectFailedTiming ==
  ASSUME TypeOK, TypeOK', now <= now', NEW c \in Conns, NEW k \in ConnectionType, ~k.done,
         WellTimed(k, now),
         k.timer_generation >= conn[c].timer_generation, ConnectFailed(c, k)
  PROVE  \E h \in ConnectionType :
           /\ FailureHandled(c, h, {"connect"})
           /\ ~Tls => h.started = k.started
<1> DEFINE probe(t) == IF k.handshaking THEN WriteRequest(k, now, t) ELSE {Outcome(k, "ok", 0)}
<1>0. PICK t \in now..now' : \E o \in probe(t) :
    \/ /\ o.ret = "tls"
       /\ Abort("tls_error")
    \/ /\ o.ret # "tls" /\ MayDefer(o.conn, t)
       /\ LET parked == DeferReconnect(o.conn)
          IN  /\ conn' = [conn EXCEPT ![c] = parked]
              /\ pacing' = pacing \cup PacingEntry(c, parked)
       /\ Count(c, "connect", 0, 0)
       /\ UNCHANGED <<pc, active, deadlines>>
    \/ /\ o.ret # "tls" /\ ~MayDefer(o.conn, now')
       /\ Retry(c, o.conn, deadlines)
  BY Zenon DEF ConnectFailed
<1>1. PICK o \in probe(t) :
    \/ /\ o.ret = "tls"
       /\ Abort("tls_error")
    \/ /\ o.ret # "tls" /\ MayDefer(o.conn, t)
       /\ LET parked == DeferReconnect(o.conn)
          IN  /\ conn' = [conn EXCEPT ![c] = parked]
              /\ pacing' = pacing \cup PacingEntry(c, parked)
       /\ Count(c, "connect", 0, 0)
       /\ UNCHANGED <<pc, active, deadlines>>
    \/ /\ o.ret # "tls" /\ ~MayDefer(o.conn, now')
       /\ Retry(c, o.conn, deadlines)
  BY <1>0, Zenon
<1>2. /\ now \in Nat /\ now' \in Nat /\ t \in Nat /\ now <= t /\ t <= now'
      /\ conn[c] \in ConnectionType /\ conn[c].timer_generation \in Nat
      /\ k.timer_generation \in Nat /\ 0 \in Nat /\ "connect" \in Kinds
      /\ Popped(c, deadlines)
  BY FieldTypes DEF TypeOK, Kinds, Popped
<1>3. o.conn \in ConnectionType /\ Written(k, o.conn, t) /\ (~Tls => o.conn = k)
  <2>1. CASE k.handshaking
    BY <1>2, <2>1, WriteRequestFacts, WriteRequestTiming DEF WellTimed
  <2>2. CASE ~k.handshaking
    <3>1. o.conn = k
      BY <2>2 DEF Outcome
    <3>2. WellTimed(k, t)
      BY <1>2, TimeOnlyHelps
    <3>3. QED
      BY <3>1, <3>2 DEF Written, SameTimers
  <2>3. QED
    BY <2>1, <2>2
<1> HIDE DEF probe
<1>4. /\ ~o.conn.done /\ WellTimed(o.conn, t) /\ o.conn.timer_generation \in Nat
      /\ o.conn.timer_generation >= conn[c].timer_generation
  BY <1>2, <1>3, FieldTypes DEF Written, SameTimers
<1>9. WellTimed(o.conn, now')
  BY <1>2, <1>3, <1>4, TimeOnlyHelps
<1>5. CASE o.ret = "tls"
  BY <1>1, <1>5 DEF Abort, Aborts, FailureHandled, timers, counters, Errors
<1>6. CASE /\ o.ret # "tls" /\ MayDefer(o.conn, t)
           /\ LET parked == DeferReconnect(o.conn)
              IN  /\ conn' = [conn EXCEPT ![c] = parked]
                  /\ pacing' = pacing \cup PacingEntry(c, parked)
           /\ Count(c, "connect", 0, 0)
           /\ UNCHANGED <<pc, active, deadlines>>
  <2> DEFINE parked == DeferReconnect(o.conn)
  <2>1. /\ parked \in ConnectionType /\ WellTimed(parked, t)
        /\ parked.timer_generation = o.conn.timer_generation + 1
        /\ parked.started = o.conn.started /\ parked.done = o.conn.done
        /\ parked.awaiting_pace /\ parked.reconnect_at_pace
    BY <1>2, <1>3, <1>4, <1>6, DeferReconnectTiming
  <2> HIDE DEF parked
  <2>2. /\ conn' = [conn EXCEPT ![c] = parked]
        /\ pacing' = pacing \cup PacingEntry(c, parked)
        /\ Count(c, "connect", 0, 0)
        /\ UNCHANGED <<pc, active, deadlines>>
    BY <1>6 DEF parked
  <2>3. DeadlineEntry(c, parked) = {}
    <3>1. NextDeadline(parked) = NoTime
      BY <2>1 DEF NextDeadline
    <3>2. QED
      BY <3>1 DEF DeadlineEntry
  <2>4. parked.timer_generation > conn[c].timer_generation
    BY <1>2, <1>4, <2>1
  <2>9. WellTimed(parked, now')
    BY <1>2, <2>1, TimeOnlyHelps
  <2>5. Renewed(c, parked)
    BY <2>9, <1>4, <2>1, <2>2, <2>3, <2>4 DEF Renewed, OnlyOf
  <2>6. Charges(c, {"connect"})
    BY <1>2, <2>2, CountTiming
  <2>7. FailureHandled(c, o.conn, {"connect"})
    BY <2>1, <2>2, <2>5, <2>6 DEF FailureHandled, CountedRecovery
  <2>8. QED
    BY <1>3, <2>7
<1>7. CASE Retry(c, o.conn, deadlines)
  <2>1. FailureHandled(c, o.conn, {"connect"})
    BY <1>2, <1>3, <1>4, <1>7, <1>9, RetryTiming
  <2>2. QED
    BY <1>3, <2>1
<1>8. QED
  BY <1>1, <1>5, <1>6, <1>7

(***************************************************************************)
(* What an event does.                                                     *)
(***************************************************************************)
\* A request of a plain-HTTP duration run starts in a step that began before the deadline.
Prompt(c, r) ==
  ~Fixed /\ ~Tls /\ HasStarted(r) /\ r.started # conn[c].started =>
    now < Deadline /\ r.started \in now..now'

\* An event of connection c aborts the worker, or retimes the connection and counts no
\* timeout; writability is only kept with the stream it was reported for.
EventOutcome(c) ==
  \/ Aborts
  \/ \E r \in ConnectionType :
       /\ pc' = pc /\ Retimed(c, r) /\ ("W" \in batch'[c] => Kept(c, r))
       /\ Charges(c, Kinds \ {"timeout"}) /\ CountedRecovery(c, r) /\ Prompt(c, r)

\* An event that ends in the handling of a failure.
LEMMA FailureEvent ==
  ASSUME TypeOK, NEW c \in Conns, EventEnds(c), NEW h, NEW kinds, kinds \subseteq Kinds \ {"timeout"},
         FailureHandled(c, h, kinds),
         ~Fixed /\ ~Tls => \/ h.started = conn[c].started
                           \/ now < Deadline /\ h.started \in now..now'
  PROVE  EventOutcome(c)
<1>1. batch'[c] = {}
  BY DEF EventEnds, TypeOK
<1>2. ASSUME NEW r \in ConnectionType, pc' = pc, conn' = [conn EXCEPT ![c] = r],
             Renewed(c, r) \/ Gone(c, r), r.started \in {h.started, NoTime},
             Charges(c, kinds), CountedRecovery(c, r)
      PROVE  EventOutcome(c)
  <2>1. Retimed(c, r) /\ ("W" \in batch'[c] => Kept(c, r))
    BY <1>1, <1>2 DEF Retimed
  <2>2. Charges(c, Kinds \ {"timeout"})
    BY <1>2 DEF Charges
  <2>3. Prompt(c, r)
    BY <1>2 DEF Prompt, HasStarted
  <2>4. QED
    BY <1>2, <2>1, <2>2, <2>3 DEF EventOutcome
<1>3. QED
  BY <1>2, Zenon DEF FailureHandled, EventOutcome

\* An event that changes the connection without a failure.
LEMMA QuietEvent ==
  ASSUME NEW c \in Conns, NEW r \in ConnectionType, UNCHANGED <<pc, errors, recovered>>,
         Retimed(c, r), "W" \in batch'[c] => Kept(c, r), Prompt(c, r)
  PROVE  EventOutcome(c)
  BY DEF EventOutcome, Charges, CountedRecovery

\* A request that has not expired and has not started may start.
LEMMA NotExpired ==
  ASSUME NEW k \in ConnectionType, ~IsExpired(k, now), ~HasStarted(k), ~Fixed
  PROVE  now < Deadline
  BY DEF IsExpired, ShouldContinue

\* Every branch of an event ends as EventOutcome says.
LEMMA EventTiming ==
  ASSUME TypeOK, TypeOK', TimersInOrder, NEW c \in Conns, Event(c)
  PROVE  /\ Live(c) /\ pc = "events" /\ now <= now'
         /\ \A b \in Conns : batch'[b] \subseteq batch[b]
         /\ EventOutcome(c)
<1> DEFINE k == conn[c]
           Framed == /\ Live(c) /\ pc = "events" /\ now <= now'
                     /\ \A b \in Conns : batch'[b] \subseteq batch[b]
<1>1. /\ k \in ConnectionType /\ now \in Nat /\ now' \in Nat /\ k.timer_generation \in Nat
      /\ batch \in [Conns -> SUBSET {"E", "W", "R"}]
      /\ conn = [conn EXCEPT ![c] = k] /\ conn \in [Conns -> ConnectionType]
      /\ {"read"} \subseteq Kinds \ {"timeout"} /\ {"write"} \subseteq Kinds \ {"timeout"}
      /\ {"connect"} \subseteq Kinds \ {"timeout"} /\ "read" \in Kinds /\ "write" \in Kinds
      /\ k.timer_generation >= k.timer_generation /\ Popped(c, deadlines)
  BY FieldTypes DEF TypeOK, Kinds, Popped
<1>2. ASSUME NEW flag, Handling(c, flag),
             EventEnds(c) \/ batch' = [batch EXCEPT ![c] = @ \ {flag}]
      PROVE  Framed /\ flag \in batch[c]
  BY <1>1, <1>2 DEF Handling, EventEnds, Earlier
<1>3. Live(c) => /\ ~k.done /\ WellTimed(k, now)
                 /\ "W" \in batch[c] => k.established
  BY DEF TimersInOrder, ReadinessIsFresh, Live
<1>0. now <= now' => /\ WellTimed(k, now) => WellTimed(k, now')
                     /\ AsksToWrite(k, now) => AsksToWrite(k, now')
  BY <1>1, TimeOnlyHelps
<1>4. CASE ErrorSpurious(c)
  <2>1. Framed /\ UNCHANGED <<pc, conn, deadlines, pacing, errors, recovered>>
    BY <1>2, <1>4 DEF ErrorSpurious, timers, counters
  <2>2. Kept(c, k) /\ conn' = [conn EXCEPT ![c] = k]
    BY <1>0, <1>1, <1>3, <2>1 DEF Kept, SameTimers
  <2>3. Prompt(c, k)
    BY DEF Prompt
  <2>4. EventOutcome(c)
    BY <1>1, <2>1, <2>2, <2>3, QuietEvent DEF Retimed
  <2>5. QED
    BY <2>1, <2>4
<1>5. CASE ErrorRecovers(c)
  <2> DEFINE kind == IF RequestIsWritten(k) THEN "read" ELSE "write"
  <2>1. Framed /\ EventEnds(c) /\ Recover(c, k, kind, deadlines, now)
    BY <1>2, <1>5 DEF ErrorRecovers
  <2>2. kind \in Kinds /\ {kind} \subseteq Kinds \ {"timeout"}
    BY <1>1
  <2> HIDE DEF kind
  <2>3. FailureHandled(c, k, {kind})
    BY <1>0, <1>1, <1>3, <2>1, <2>2, RecoverTiming
  <2>4. EventOutcome(c)
    BY <2>1, <2>2, <2>3, FailureEvent
  <2>5. QED
    BY <2>1, <2>4
<1>6. CASE ErrorReconnects(c) \/ WritableError(c)
  <2>1. Framed /\ EventEnds(c) /\ ConnectFailed(c, k)
    BY <1>2, <1>6 DEF ErrorReconnects, WritableError
  <2>2. PICK h \in ConnectionType :
          FailureHandled(c, h, {"connect"}) /\ (~Tls => h.started = k.started)
    BY <1>1, <1>3, <2>1, ConnectFailedTiming
  <2>3. EventOutcome(c)
    BY <1>1, <2>1, <2>2, FailureEvent
  <2>4. QED
    BY <2>1, <2>3
<1>7. CASE WritableStops(c)
  <2>1. /\ Framed /\ EventEnds(c) /\ Retire(c, Stopped(k), deadlines)
        /\ UNCHANGED <<pc, errors, recovered>>
    BY <1>2, <1>7 DEF WritableStops, Retire, counters
  <2>2. /\ Stopped(k) \in ConnectionType /\ Stopped(k).done
        /\ Stopped(k).timer_generation = k.timer_generation /\ Stopped(k).started = k.started
    BY <1>1, StoppedFacts, StoppedTiming
  <2>3. Gone(c, Stopped(k)) /\ conn' = [conn EXCEPT ![c] = Stopped(k)]
    BY <1>1, <2>1, <2>2, RetireGoes DEF Retire
  <2>4. "W" \notin batch'[c]
    BY <1>1, <2>1 DEF EventEnds
  <2>5. EventOutcome(c)
    BY <2>1, <2>2, <2>3, <2>4, QuietEvent DEF Retimed, Prompt
  <2>6. QED
    BY <2>1, <2>5
<1>8. CASE WritableWrites(c)
  <2>1. /\ Framed /\ UNCHANGED <<pc, errors, recovered>> /\ ~IsExpired(k, now)
        /\ "W" \in batch[c] /\ batch' = [batch EXCEPT ![c] = @ \ {"W"}]
    BY <1>2, <1>8 DEF WritableWrites, counters
  <2>2. PICK o \in WriteRequest(k, now, now') : \E r \in RefreshInterest(o.conn, now') :
          IF r.timer_generation # k.timer_generation
          THEN Rearm(c, r, deadlines, pacing)
          ELSE conn' = [conn EXCEPT ![c] = r] /\ UNCHANGED timers
    BY <1>8, Zenon DEF WritableWrites
  <2>3. PICK r \in RefreshInterest(o.conn, now') :
          IF r.timer_generation # k.timer_generation
          THEN Rearm(c, r, deadlines, pacing)
          ELSE conn' = [conn EXCEPT ![c] = r] /\ UNCHANGED timers
    BY <2>2, Zenon
  <2>4. o.conn \in ConnectionType /\ Written(k, o.conn, now')
    BY <1>1, <1>3, <2>1, WriteRequestFacts, WriteRequestTiming
  <2>5. /\ r \in ConnectionType /\ SameTimers(o.conn, r) /\ WellTimed(r, now')
        /\ r.established = o.conn.established
        /\ o.conn.awaiting_pace /\ ~o.conn.reconnect_at_pace /\ ~SlotAhead(o.conn, now')
             => AsksToWrite(r, now')
    BY <1>1, <2>4, RefreshInterestFacts, RefreshInterestTiming DEF Written
  <2>6. /\ ~r.done /\ r.established = k.established
        /\ SameTimers(k, r) \/ r.timer_generation = k.timer_generation + 1
        /\ r.started = k.started \/ (~HasStarted(k) /\ r.started = now')
    BY <1>3, <2>1, <2>4, <2>5 DEF Written, SameTimers
  <2>7. Prompt(c, r)
    BY <1>1, <2>1, <2>6, NotExpired DEF Prompt
  <2>8. "W" \notin batch'[c]
    BY <1>1, <2>1
  <2>9. CASE r.timer_generation # k.timer_generation
    <3>1. r.timer_generation > k.timer_generation
      BY <1>1, <2>6, <2>9 DEF SameTimers
    <3>2. Rearm(c, r, deadlines, pacing)
      BY <2>3, <2>9
    <3>3. Renewed(c, r) /\ conn' = [conn EXCEPT ![c] = r]
      BY <1>1, <2>5, <2>6, <3>1, <3>2, RearmRenews DEF Rearm
    <3>4. EventOutcome(c)
      BY <2>1, <2>5, <2>7, <2>8, <3>3, QuietEvent DEF Retimed
    <3>5. QED
      BY <2>1, <3>4
  <2>10. CASE r.timer_generation = k.timer_generation
    <3>1. SameTimers(k, r)
      BY <1>1, <2>6, <2>10
    <3>2. conn' = [conn EXCEPT ![c] = r] /\ UNCHANGED <<deadlines, pacing>>
      BY <2>3, <2>10 DEF timers
    <3>3. r.awaiting_pace /\ AsksToWrite(k, now) => AsksToWrite(r, now')
      BY <1>0, <2>1, <2>5, <3>1 DEF AsksToWrite, SameTimers, SlotAhead
    <3>4. Kept(c, r)
      BY <2>5, <2>6, <3>1, <3>2, <3>3 DEF Kept
    <3>5. EventOutcome(c)
      BY <2>1, <2>5, <2>7, <3>2, <3>4, QuietEvent DEF Retimed
    <3>6. QED
      BY <2>1, <3>5
  <2>11. QED
    BY <2>9, <2>10
<1>9. CASE WritableFails(c)
  <2>1. Framed /\ EventEnds(c) /\ ~IsExpired(k, now) /\ "W" \in batch[c]
    BY <1>2, <1>9 DEF WritableFails
  <2>2. PICK t \in now..now' : \E o \in WriteRequest(k, now, t) :
          \/ Abort("tls_error")
          \/ Retry(c, o.conn, deadlines)
          \/ Recover(c, o.conn, "write", deadlines, t)
    BY <1>9, Zenon DEF WritableFails
  <2>0. PICK o \in WriteRequest(k, now, t) :
          \/ Abort("tls_error")
          \/ Retry(c, o.conn, deadlines)
          \/ Recover(c, o.conn, "write", deadlines, t)
    BY <2>2, Zenon
  <2>10. t \in Nat /\ now <= t /\ t <= now'
    BY <1>1
  <2>3. o.conn \in ConnectionType /\ Written(k, o.conn, t)
    BY <1>1, <1>3, <2>1, <2>10, WriteRequestFacts, WriteRequestTiming
  <2>4. /\ ~o.conn.done /\ WellTimed(o.conn, now')
        /\ o.conn.timer_generation >= k.timer_generation
        /\ o.conn.started = k.started \/ (~HasStarted(k) /\ o.conn.started = t)
    <3>1. WellTimed(o.conn, now')
      BY <1>1, <2>3, <2>10, TimeOnlyHelps DEF Written
    <3>2. QED
      BY <1>1, <1>3, <2>1, <2>3, <3>1 DEF Written, SameTimers
  <2>5. ~Fixed /\ ~Tls => \/ o.conn.started = k.started
                          \/ now < Deadline /\ o.conn.started \in now..now'
    BY <1>1, <2>1, <2>4, NotExpired
  <2>6. CASE Abort("tls_error")
    BY <2>1, <2>6 DEF Abort, Aborts, EventOutcome, timers, counters, Errors
  <2>7. CASE Retry(c, o.conn, deadlines)
    <3>1. FailureHandled(c, o.conn, {"connect"})
      BY <1>1, <2>3, <2>4, <2>7, RetryTiming
    <3>2. EventOutcome(c)
      BY <1>1, <2>1, <2>5, <3>1, FailureEvent
    <3>3. QED
      BY <2>1, <3>2
  <2>8. CASE Recover(c, o.conn, "write", deadlines, t)
    <3>1. FailureHandled(c, o.conn, {"write"})
      BY <1>1, <2>3, <2>4, <2>8, <2>10, RecoverTiming
    <3>2. EventOutcome(c)
      BY <1>1, <2>1, <2>5, <3>1, FailureEvent
    <3>3. QED
      BY <2>1, <3>2
  <2>9. QED
    BY <2>0, <2>6, <2>7, <2>8
<1>10. CASE ReadableWaits(c)
  <2>1. Framed /\ EventEnds(c) /\ UNCHANGED <<pc, deadlines, pacing, errors, recovered>>
    BY <1>2, <1>10 DEF ReadableWaits, timers, counters
  <2>2. PICK o \in ReadResponse(k) :
          \E r \in RefreshInterest(o.conn, now') : conn' = [conn EXCEPT ![c] = r]
    BY <1>10, Zenon DEF ReadableWaits
  <2>3. PICK r \in RefreshInterest(o.conn, now') : conn' = [conn EXCEPT ![c] = r]
    BY <2>2, Zenon
  <2>4. /\ o.conn \in ConnectionType /\ SameTimers(k, o.conn) /\ WellTimed(o.conn, now')
        /\ o.conn.established = k.established
    BY <1>0, <1>1, <1>3, <2>1, ReadResponseFacts, ReadResponseTiming
  <2>5. /\ r \in ConnectionType /\ SameTimers(o.conn, r) /\ WellTimed(r, now')
        /\ r.established = o.conn.established
        /\ o.conn.awaiting_pace /\ ~o.conn.reconnect_at_pace /\ ~SlotAhead(o.conn, now')
             => AsksToWrite(r, now')
    BY <1>1, <2>4, RefreshInterestFacts, RefreshInterestTiming
  <2>6. SameTimers(k, r)
    BY <2>4, <2>5 DEF SameTimers
  <2>7. r.awaiting_pace /\ AsksToWrite(k, now) => AsksToWrite(r, now')
    BY <1>0, <2>1, <2>4, <2>5 DEF AsksToWrite, SameTimers, SlotAhead
  <2>8. Kept(c, r) /\ Prompt(c, r)
    BY <2>1, <2>4, <2>5, <2>6, <2>7 DEF Kept, Prompt, SameTimers
  <2>9. EventOutcome(c)
    BY <2>1, <2>3, <2>5, <2>8, QuietEvent DEF Retimed
  <2>10. QED
    BY <2>1, <2>9
<1>11. CASE ReadableFails(c)
  <2>1. Framed /\ EventEnds(c)
    BY <1>2, <1>11 DEF ReadableFails
  <2>2. PICK o \in ReadResponse(k) :
          ConnectFailed(c, o.conn) \/ Recover(c, o.conn, "read", deadlines, now)
    BY <1>11, Zenon DEF ReadableFails
  <2>3. /\ o.conn \in ConnectionType /\ SameTimers(k, o.conn) /\ WellTimed(o.conn, now)
    BY <1>1, <1>3, <2>1, ReadResponseFacts, ReadResponseTiming
  <2>8. WellTimed(o.conn, now')
    BY <1>1, <2>1, <2>3, TimeOnlyHelps
  <2>4. /\ ~o.conn.done /\ o.conn.timer_generation >= k.timer_generation
        /\ o.conn.started = k.started
    BY <1>1, <1>3, <2>1, <2>3 DEF SameTimers
  <2>5. CASE ConnectFailed(c, o.conn)
    <3>1. PICK h \in ConnectionType :
            FailureHandled(c, h, {"connect"}) /\ (~Tls => h.started = o.conn.started)
      BY <1>1, <2>1, <2>3, <2>4, <2>5, ConnectFailedTiming
    <3>2. EventOutcome(c)
      BY <1>1, <2>1, <2>4, <3>1, FailureEvent
    <3>3. QED
      BY <2>1, <3>2
  <2>6. CASE Recover(c, o.conn, "read", deadlines, now)
    <3>1. FailureHandled(c, o.conn, {"read"})
      BY <1>1, <2>3, <2>4, <2>6, <2>8, RecoverTiming
    <3>2. EventOutcome(c)
      BY <1>1, <2>1, <2>4, <3>1, FailureEvent
    <3>3. QED
      BY <2>1, <3>2
  <2>7. QED
    BY <2>2, <2>5, <2>6
<1>12. CASE ReadableMalformed(c)
  <2>1. Framed /\ Abort("protocol_error")
    BY <1>2, <1>12 DEF ReadableMalformed
  <2>2. QED
    BY <2>1 DEF Abort, Aborts, EventOutcome, timers, counters, Errors
<1>13. CASE ReadableCompletes(c)
  <2>1. Framed /\ EventEnds(c)
    BY <1>2, <1>13 DEF ReadableCompletes
  <2>2. PICK o \in ReadResponse(k) :
          /\ o.ret \in {"keep", "close"}
          /\ \E f \in FinishResponse(o.conn, o.ret = "close", now, now') :
               \/ f.ret = "done" /\ Retire(c, f.conn, deadlines) /\ UNCHANGED counters
               \/ f.ret = "more" /\ Rearm(c, f.conn, deadlines, pacing)
                  /\ UNCHANGED <<pc, active, counters>>
               \/ f.ret = "err" /\ Abort("io_error")
    BY <1>13, Zenon DEF ReadableCompletes
  <2>3. PICK f \in FinishResponse(o.conn, o.ret = "close", now, now') :
          \/ f.ret = "done" /\ Retire(c, f.conn, deadlines) /\ UNCHANGED counters
          \/ f.ret = "more" /\ Rearm(c, f.conn, deadlines, pacing)
             /\ UNCHANGED <<pc, active, counters>>
          \/ f.ret = "err" /\ Abort("io_error")
    BY <2>2, Zenon
  <2>4. /\ o.conn \in ConnectionType /\ SameTimers(k, o.conn) /\ WellTimed(o.conn, now)
        /\ o.conn.established
    BY <1>1, <1>3, <2>1, <2>2, ReadResponseFacts, ReadResponseTiming
  <2>5. (o.ret = "close") \in BOOLEAN
    OBVIOUS
  <2>6. Answered(o.conn, f, now') /\ Finishes(o.conn, f, now, now')
    BY <1>1, <2>1, <2>4, <2>5, FinishResponseFacts, FinishResponseTiming
  <2>7. "W" \notin batch'[c]
    BY <1>1, <2>1 DEF EventEnds
  <2>8. CASE f.ret = "done"
    <3>1. /\ f.conn \in ConnectionType /\ f.conn.done
          /\ f.conn.timer_generation >= k.timer_generation /\ f.conn.started = k.started
      BY <1>1, <2>4, <2>6, <2>8 DEF Answered, Finishes, SameTimers
    <3>2. Retire(c, f.conn, deadlines) /\ UNCHANGED <<pc, errors, recovered>>
      BY <2>3, <2>8 DEF counters, Retire
    <3>3. Gone(c, f.conn) /\ conn' = [conn EXCEPT ![c] = f.conn] /\ Prompt(c, f.conn)
      BY <1>1, <3>1, <3>2, RetireGoes DEF Retire, Prompt
    <3>4. EventOutcome(c)
      BY <2>7, <3>1, <3>2, <3>3, QuietEvent DEF Retimed
    <3>5. QED
      BY <2>1, <3>4
  <2>9. CASE f.ret = "more"
    <3>1. /\ f.conn \in ConnectionType /\ ~f.conn.done /\ WellTimed(f.conn, now')
          /\ f.conn.timer_generation > k.timer_generation /\ (~Fixed => now < Deadline)
          /\ f.conn.started \in {NoTime, now'}
      BY <1>1, <1>3, <2>1, <2>4, <2>6, <2>9 DEF Answered, Finishes, SameTimers
    <3>2. Rearm(c, f.conn, deadlines, pacing) /\ UNCHANGED <<pc, errors, recovered>>
      BY <2>3, <2>9 DEF counters
    <3>3. Renewed(c, f.conn) /\ conn' = [conn EXCEPT ![c] = f.conn]
      BY <1>1, <3>1, <3>2, RearmRenews DEF Rearm
    <3>6. Prompt(c, f.conn)
      BY <1>1, <2>1, <3>1 DEF Prompt, HasStarted
    <3>4. EventOutcome(c)
      BY <2>7, <3>1, <3>2, <3>3, <3>6, QuietEvent DEF Retimed
    <3>5. QED
      BY <2>1, <3>4
  <2>10. CASE f.ret = "err"
    BY <2>1, <2>3, <2>10 DEF Abort, Aborts, EventOutcome, timers, counters, Errors
  <2>11. QED
    BY <2>6, <2>8, <2>9, <2>10 DEF Answered
<1>14. QED
  BY <1>4, <1>5, <1>6, <1>7, <1>8, <1>9, <1>10, <1>11, <1>12, <1>13 DEF Event

(***************************************************************************)
(* What draining the heaps does.                                           *)
(***************************************************************************)
\* A timeout, or a failed connect counted while the deadlines are drained, is earned.
Earned(c) ==
  /\ errors'[c]["timeout"] # errors[c]["timeout"] =>
       HasStarted(conn[c]) /\ conn[c].started + Timeout <= now
  /\ pc = "deadlines" /\ errors'[c]["connect"] # errors[c]["connect"] =>
       ~HasStarted(conn[c]) /\ conn[c].connected_at + Timeout <= now

\* A step that retimes the live connection c.
Steps(c, r) ==
  /\ Live(c) /\ pc' = pc /\ now <= now' /\ Retimed(c, r)
  /\ pc = "connect" \/ "W" \in batch'[c] => Kept(c, r)
  /\ \A b \in Conns : batch'[b] \subseteq batch[b]
  /\ \A b \in Conns \ {c} : errors'[b] = errors[b]
  /\ Earned(c) /\ CountedRecovery(c, r) /\ Prompt(c, r)

\* A step that leaves every connection and its current timers alone.
Idles ==
  /\ UNCHANGED <<conn, errors>>
  /\ pc' = "connect" => deadlines' = {} /\ pacing' = {}
  /\ \A b \in Conns : Undisturbed(b) /\ ReadinessIsFresh(b)'

\* A step in which the worker aborts leaves the timers alone.
LEMMA AbortIdles ==
  ASSUME TypeOK, TimersInOrder, Aborts, now <= now', \A b \in Conns : batch'[b] \subseteq batch[b]
  PROVE  Idles
<1>1. ~InLoop' /\ pc' \notin {"connect", "poll", "deadlines", "pacing"} /\ now <= now'
  BY DEF Aborts, InLoop, Errors, TypeOK
<1>2. ASSUME NEW b \in Conns
      PROVE  Undisturbed(b)
  BY <1>1 DEF Undisturbed, Aborts
<1>3. ASSUME NEW b \in Conns
      PROVE  ReadinessIsFresh(b)'
  BY <1>1 DEF ReadinessIsFresh, Aborts, TimersInOrder, Live
<1>4. QED
  BY <1>1, <1>2, <1>3 DEF Idles, Aborts

\* The entry on top of the deadline heap, when it is current.
LEMMA DueDeadline ==
  ASSUME TypeOK, TimersInOrder, NEW e \in deadlines, DeadlineDue(e), Current(e)
  PROVE  LET k == conn[e.token]
         IN  /\ e.token \in Conns /\ Live(e.token) /\ k \in ConnectionType /\ WellTimed(k, now)
             /\ pc = "deadlines" /\ UNCHANGED <<batch, now>>
             /\ NextDeadline(k) \in Nat /\ NextDeadline(k) <= now
             /\ Popped(e.token, deadlines \ {e})
<1>1. e \in Timers /\ e.token \in Conns /\ e.at \in Nat /\ Live(e.token)
  BY DEF TypeOK, Timers, Current
<1>2. e.at = NextDeadline(conn[e.token])
  BY <1>1 DEF TimersInOrder, EntriesAgree
<1>3. conn[e.token] \in ConnectionType /\ WellTimed(conn[e.token], now)
  BY <1>1 DEF TypeOK, TimersInOrder
<1>4. QED
  BY <1>1, <1>2, <1>3 DEF DeadlineDue, Popped

\* The entry on top of the pacing heap, when it is current.
LEMMA DuePace ==
  ASSUME TypeOK, TimersInOrder, NEW e \in pacing, PaceDue(e), Current(e)
  PROVE  LET k == conn[e.token]
         IN  /\ e.token \in Conns /\ Live(e.token) /\ k \in ConnectionType /\ WellTimed(k, now)
             /\ pc = "pacing" /\ UNCHANGED <<batch, now, deadlines, errors, recovered>>
             /\ PacingDeadline(k) \in Nat /\ PacingDeadline(k) <= now
<1>1. e \in Timers /\ e.token \in Conns /\ e.at \in Nat /\ Live(e.token)
  BY DEF TypeOK, Timers, Current
<1>2. e.at = PacingDeadline(conn[e.token])
  BY <1>1 DEF TimersInOrder, EntriesAgree
<1>3. conn[e.token] \in ConnectionType /\ WellTimed(conn[e.token], now)
  BY <1>1 DEF TypeOK, TimersInOrder
<1>4. QED
  BY <1>1, <1>2, <1>3 DEF PaceDue, counters

\* A failure found by a due deadline.
LEMMA FailureDrained ==
  ASSUME TypeOK, TimersInOrder, NEW c \in Conns, Live(c), UNCHANGED <<batch, now>>, pc = "deadlines",
         NEW kind \in {"timeout", "connect"}, FailureHandled(c, conn[c], {kind}),
         kind = "timeout" => HasStarted(conn[c]) /\ conn[c].started + Timeout <= now,
         kind = "connect" => ~HasStarted(conn[c]) /\ conn[c].connected_at + Timeout <= now
  PROVE  Idles \/ \E r \in ConnectionType : Steps(c, r)
<1>1. now <= now' /\ batch'[c] = {} /\ \A b \in Conns : batch'[b] \subseteq batch[b]
  BY DEF TypeOK, TimersInOrder, ReadinessIsFresh
<1>2. CASE Aborts
  BY <1>1, <1>2, AbortIdles
<1>3. ASSUME NEW r \in ConnectionType, pc' = pc, conn' = [conn EXCEPT ![c] = r],
             Renewed(c, r) \/ Gone(c, r), r.started \in {conn[c].started, NoTime},
             Charges(c, {kind}), CountedRecovery(c, r)
      PROVE  Steps(c, r)
  <2>1. Retimed(c, r)
    BY <1>3 DEF Retimed
  <2>2. Earned(c)
    BY <1>3 DEF Earned, Charges, Kinds
  <2>3. Prompt(c, r)
    BY <1>3 DEF Prompt, HasStarted
  <2>4. QED
    BY <1>1, <1>3, <2>1, <2>2, <2>3 DEF Steps, Charges
<1>4. QED
  BY <1>2, <1>3, Zenon DEF FailureHandled

\* A slot whose pacing timer is due in a run that goes on has come.
LEMMA SlotComes ==
  ASSUME NEW k \in ConnectionType, NEW t \in Nat, WellTimed(k, t), ~k.done, ~IsExpired(k, t),
         PacingDeadline(k) \in Nat, PacingDeadline(k) <= t
  PROVE  k.awaiting_pace /\ SlotHasCome(k, t)
<1>1. k.awaiting_pace /\ k.not_before # NoTime
  BY DEF PacingDeadline, NoTime
<1>2. ~HasStarted(k)
  BY <1>1 DEF WellTimed
<1>3. k.not_before \in Nat
  BY <1>1, TimingTypes DEF NoTime
<1>4. k.not_before <= t
  BY <1>1, <1>2, <1>3, DeadlineAssumption
  DEF PacingDeadline, IsExpired, ShouldContinue, Fixed, Earlier, NoTime
<1>5. QED
  BY <1>1, <1>2, <1>3, <1>4 DEF SlotHasCome, SlotAhead

\* Every step of draining leaves the connections alone or retimes the one of the entry.
LEMMA DrainTiming ==
  ASSUME TypeOK, TypeOK', TimersInOrder, Draining
  PROVE  Idles \/ \E c \in Conns, r \in ConnectionType : Steps(c, r)
<1>1. /\ now \in Nat /\ now <= now /\ deadlines \subseteq Timers /\ pacing \subseteq Timers
      /\ conn \in [Conns -> ConnectionType] /\ "timeout" \in Kinds
  BY DEF TypeOK, Kinds
<1>2. CASE DeadlineStale \/ PaceStale \/ DeadlinesDone \/ PacingDone
  <2>1. /\ UNCHANGED <<conn, errors, batch, now>>
        /\ pc \in {"deadlines", "pacing"} /\ pc' \in {"deadlines", "pacing", "poll"}
        /\ deadlines' \subseteq deadlines /\ pacing' \subseteq pacing
        /\ \A e \in deadlines \ deadlines' : ~Current(e)
        /\ \A e \in pacing \ pacing' : ~Current(e)
    BY <1>2 DEF DeadlineStale, PaceStale, DeadlinesDone, PacingDone, DeadlineDue, PaceDue,
                timers, counters
  <2>2. ASSUME NEW b \in Conns
        PROVE  Undisturbed(b)
    BY <1>1, <2>1 DEF Undisturbed, InLoop, CurrentPace
  <2>3. ASSUME NEW b \in Conns
        PROVE  ReadinessIsFresh(b)'
    BY <2>1 DEF TimersInOrder, ReadinessIsFresh
  <2>4. QED
    BY <2>1, <2>2, <2>3 DEF Idles
<1>3. CASE DeadlineStops
  <2>1. PICK e \in deadlines :
          /\ DeadlineDue(e) /\ Current(e)
          /\ Retire(e.token, Stopped(conn[e.token]), deadlines \ {e})
          /\ UNCHANGED counters
    BY <1>3, Zenon DEF DeadlineStops
  <2> DEFINE c == e.token
             k == conn[c]
  <2>2. /\ c \in Conns /\ Live(c) /\ k \in ConnectionType /\ pc = "deadlines"
        /\ UNCHANGED <<batch, now>> /\ Popped(c, deadlines \ {e})
    BY <2>1, DueDeadline
  <2>3. Retire(c, Stopped(k), deadlines \ {e}) /\ UNCHANGED <<pc, errors, recovered>>
    BY <2>1 DEF counters, Retire
  <2> HIDE DEF c, k
  <2>4. /\ Stopped(k) \in ConnectionType /\ Stopped(k).done
        /\ Stopped(k).timer_generation = k.timer_generation /\ Stopped(k).started = k.started
        /\ k.timer_generation \in Nat
    BY <2>2, StoppedFacts, StoppedTiming, FieldTypes
  <2>5. Gone(c, Stopped(k)) /\ conn' = [conn EXCEPT ![c] = Stopped(k)]
    <3>1. Stopped(k).timer_generation >= conn[c].timer_generation
      BY <2>4 DEF k
    <3>2. Gone(c, Stopped(k))
      BY <2>2, <2>3, <2>4, <3>1, RetireGoes
    <3>3. QED
      BY <2>3, <3>2 DEF Retire
  <2>6. batch'[c] = {}
    BY <2>2 DEF TimersInOrder, ReadinessIsFresh
  <2>7. Steps(c, Stopped(k))
    BY <1>1, <2>2, <2>3, <2>4, <2>5, <2>6 DEF Steps, Retimed, Earned, CountedRecovery, Prompt, k
  <2>8. QED
    BY <2>2, <2>4, <2>7
<1>4. CASE RequestTimesOut
  <2>1. PICK e \in deadlines :
          /\ DeadlineDue(e) /\ Current(e) /\ Expire(conn[e.token], now) = "request_timeout"
          /\ Recover(e.token, conn[e.token], "timeout", deadlines \ {e}, now)
    BY <1>4, Zenon DEF RequestTimesOut
  <2> DEFINE c == e.token
             k == conn[c]
  <2>2. /\ c \in Conns /\ Live(c) /\ k \in ConnectionType /\ WellTimed(k, now)
        /\ pc = "deadlines" /\ UNCHANGED <<batch, now>> /\ Popped(c, deadlines \ {e})
        /\ NextDeadline(k) \in Nat /\ NextDeadline(k) <= now
    BY <2>1, DueDeadline
  <2>3. Recover(c, k, "timeout", deadlines \ {e}, now) /\ HasStarted(k)
    BY <2>1 DEF Expire
  <2> HIDE DEF c
  <2>4. k.started + Timeout <= now
    BY <2>2, <2>3 DEF NextDeadline, WellTimed
  <2>5. ~k.done /\ k.timer_generation >= k.timer_generation
    BY <2>2, FieldTypes DEF Live
  <2>6. FailureHandled(c, k, {"timeout"})
    BY <1>1, <2>2, <2>3, <2>5, RecoverTiming
  <2>7. QED
    BY <2>2, <2>3, <2>4, <2>6, FailureDrained
<1>5. CASE ConnectionTimesOut
  <2>1. PICK e \in deadlines :
          /\ DeadlineDue(e) /\ Current(e) /\ Expire(conn[e.token], now) = "connection_timeout"
          /\ Retry(e.token, conn[e.token], deadlines \ {e})
    BY <1>5, Zenon DEF ConnectionTimesOut
  <2> DEFINE c == e.token
             k == conn[c]
  <2>2. /\ c \in Conns /\ Live(c) /\ k \in ConnectionType /\ WellTimed(k, now)
        /\ pc = "deadlines" /\ UNCHANGED <<batch, now>> /\ Popped(c, deadlines \ {e})
        /\ NextDeadline(k) \in Nat /\ NextDeadline(k) <= now
    BY <2>1, DueDeadline
  <2>3. Retry(c, k, deadlines \ {e}) /\ ~HasStarted(k) /\ ShouldContinue(k, now)
    BY <2>1 DEF Expire
  <2> HIDE DEF c
  <2>4. k.connected_at + Timeout <= now
    <3>1. k.connected_at \in Nat /\ ~k.awaiting_pace
      BY <2>2, FieldTypes DEF NextDeadline, NoTime
    <3>2. QED
      BY <1>1, <2>2, <2>3, <3>1, DeadlineAssumption, TimeoutAssumption
      DEF NextDeadline, ShouldContinue, Fixed, Earlier, NoTime
  <2>5. ~k.done /\ k.timer_generation >= k.timer_generation
    BY <2>2, FieldTypes DEF Live
  <2>6. FailureHandled(c, k, {"connect"})
    BY <1>1, <2>2, <2>3, <2>5, RetryTiming
  <2>7. QED
    BY <2>2, <2>3, <2>4, <2>6, FailureDrained
<1>6. CASE PaceStops
  <2>1. PICK e \in pacing :
          /\ PaceDue(e) /\ Current(e)
          /\ conn' = [conn EXCEPT ![e.token] = Stopped(@)]
          /\ pacing' = pacing \ {e}
          /\ UNCHANGED pc
    BY <1>6, Zenon DEF PaceStops
  <2> DEFINE c == e.token
             k == conn[c]
  <2>2. /\ c \in Conns /\ Live(c) /\ k \in ConnectionType /\ pc = "pacing"
        /\ UNCHANGED <<batch, now, deadlines, errors, recovered>>
    BY <2>1, DuePace
  <2>3. conn' = [conn EXCEPT ![c] = Stopped(k)] /\ \A f \in pacing \ pacing' : f.token = c
    BY <1>1, <2>1
  <2> HIDE DEF c, k
  <2>4. /\ Stopped(k) \in ConnectionType /\ Stopped(k).done
        /\ Stopped(k).timer_generation = k.timer_generation /\ Stopped(k).started = k.started
        /\ k.timer_generation \in Nat
    BY <2>2, StoppedFacts, StoppedTiming, FieldTypes
  <2>5. Gone(c, Stopped(k))
    BY <2>1, <2>2, <2>3, <2>4 DEF Gone, OnlyOf, k
  <2>6. batch'[c] = {}
    BY <2>2 DEF TimersInOrder, ReadinessIsFresh
  <2>7. Steps(c, Stopped(k))
    BY <1>1, <2>1, <2>2, <2>3, <2>4, <2>5, <2>6
    DEF Steps, Retimed, Earned, CountedRecovery, Prompt, k
  <2>8. QED
    BY <2>2, <2>4, <2>7
<1>7. CASE PaceResumes
  <2>1. PICK e \in pacing :
          /\ PaceDue(e) /\ Current(e) /\ ~IsExpired(conn[e.token], now)
          /\ pacing' = pacing \ {e}
          /\ \E o \in ResumeAtPace(conn[e.token], now) :
               \/ o.ret = "ok" /\ conn' = [conn EXCEPT ![e.token] = o.conn] /\ UNCHANGED pc
               \/ o.ret = "err" /\ pc' = "io_error" /\ UNCHANGED conn
    BY <1>7, Zenon DEF PaceResumes
  <2> DEFINE c == e.token
             k == conn[c]
  <2>2. /\ c \in Conns /\ Live(c) /\ k \in ConnectionType /\ WellTimed(k, now) /\ pc = "pacing"
        /\ UNCHANGED <<batch, now, deadlines, errors, recovered>>
        /\ PacingDeadline(k) \in Nat /\ PacingDeadline(k) <= now
    BY <2>1, DuePace
  <2>3. PICK o \in ResumeAtPace(k, now) :
               \/ o.ret = "ok" /\ conn' = [conn EXCEPT ![c] = o.conn] /\ UNCHANGED pc
               \/ o.ret = "err" /\ pc' = "io_error" /\ UNCHANGED conn
    BY <2>1, Zenon
  <2>4. ~IsExpired(k, now) /\ \A f \in pacing \ pacing' : f.token = c
    BY <1>1, <2>1
  <2> HIDE DEF c, k
  <2>5. k.awaiting_pace /\ SlotHasCome(k, now)
    BY <1>1, <2>2, <2>4, SlotComes DEF Live, k
  <2>6. batch'[c] = {} /\ \A b \in Conns : batch'[b] \subseteq batch[b]
    BY <2>2 DEF TimersInOrder, ReadinessIsFresh
  <2>7. CASE o.ret = "ok"
    <3> DEFINE r == o.conn
    <3>1. conn' = [conn EXCEPT ![c] = r] /\ pc' = pc /\ r \in ConnectionType
      BY <1>1, <2>2, <2>3, <2>7, ResumeAtPaceFacts
    <3>2. CASE k.reconnect_at_pace
      <4>1. PICK a \in ConnectFrom(0) : r = NewStream(k, a, now)
        BY <2>7, <3>2 DEF ResumeAtPace, Outcome
      <4>2. /\ WellTimed(r, now) /\ r.timer_generation = k.timer_generation + 1
            /\ r.started = k.started /\ r.not_before = k.not_before
            /\ ~r.awaiting_pace /\ k.timer_generation \in Nat
        BY <1>1, <2>2, <4>1, NewStreamTiming, FieldTypes DEF ConnectFrom
      <4> HIDE DEF r
      <4>3. SlotHasCome(r, now)
        BY <2>5, <4>2 DEF SlotHasCome, SlotAhead, HasStarted
      <4>4. Resumed(c, r)
        BY <2>1, <2>2, <2>4, <4>2, <4>3 DEF Resumed, OnlyOf, k
      <4>5. QED
        BY <1>1, <2>2, <2>6, <3>1, <4>2, <4>4 DEF Steps, Retimed, Earned, CountedRecovery, Prompt, k
    <3>3. CASE ~k.reconnect_at_pace
      <4>1. r \in RefreshInterest(k, now)
        BY <2>7, <3>3 DEF ResumeAtPace, Outcome
      <4> HIDE DEF r
      <4>2. SameTimers(k, r) /\ WellTimed(r, now) /\ AsksToWrite(r, now)
        BY <1>1, <2>2, <2>5, <3>3, <4>1, RefreshInterestTiming DEF SlotHasCome
      <4>3. SlotHasCome(r, now)
        BY <2>5, <4>2 DEF SlotHasCome, SlotAhead, HasStarted, SameTimers
      <4>4. Resumed(c, r)
        BY <2>1, <2>2, <2>4, <4>2, <4>3 DEF Resumed, OnlyOf, k
      <4>5. QED
        BY <1>1, <2>2, <2>6, <3>1, <4>2, <4>4
        DEF Steps, Retimed, Earned, CountedRecovery, Prompt, SameTimers, k
    <3>4. QED
      BY <3>2, <3>3
  <2>8. CASE o.ret = "err"
    <3>1. pc' = "io_error" /\ conn' = conn
      BY <2>3, <2>8
    <3>2. ~InLoop' /\ pc' \notin {"connect", "poll", "deadlines", "pacing"} /\ now <= now'
      BY <1>1, <2>2, <3>1 DEF InLoop
    <3>3. ASSUME NEW b \in Conns
          PROVE  Undisturbed(b) /\ ReadinessIsFresh(b)'
      <4>1. pacing' \subseteq pacing /\ conn'[b] = conn[b]
        BY <2>1, <3>1
      <4>2. Undisturbed(b)
        BY <2>2, <3>2, <4>1 DEF Undisturbed
      <4>3. ReadinessIsFresh(b)'
        BY <2>6, <3>2, <4>1 DEF TimersInOrder, ReadinessIsFresh, Live
      <4>4. QED
        BY <4>2, <4>3
    <3>4. QED
      BY <2>2, <3>1, <3>2, <3>3 DEF Idles
  <2>9. QED
    BY <2>3, <2>7, <2>8
<1>8. QED
  BY <1>2, <1>3, <1>4, <1>5, <1>6, <1>7 DEF Draining

(***************************************************************************)
(* The inductive invariant.                                                *)
(***************************************************************************)
\* The timers stay in order when every connection is left alone.
LEMMA IdlesKeeps ==
  ASSUME TypeOK, TypeOK', TimersInOrder, Idles
  PROVE  TimersInOrder'
<1>1. ASSUME NEW b \in Conns
      PROVE  TimersOf(b)'
  BY UndisturbedKeeps DEF Idles, TimersInOrder, TimersOf
<1>2. QED
  BY <1>1 DEF Idles, TimersInOrder, TimersOf

\* Poll drops stale entries only, and reports writability of connected streams only.
LEMMA PollIdles ==
  ASSUME TypeOK, TimersInOrder, Poll
  PROVE  Idles
<1>1. /\ UNCHANGED <<conn, errors, now>> /\ pc = "poll" /\ pc' = "events"
      /\ deadlines' = DiscardStaleDeadlines /\ pacing' = DiscardStalePacing
      /\ \A b \in Conns : batch'[b] \subseteq Readiness(b)
      /\ now \in Nat /\ deadlines \subseteq Timers /\ pacing \subseteq Timers
  BY DEF Poll, counters, TypeOK
<1>2. \A e \in Timers : Before(e, e)
  BY DEF Timers, Before
<1>3. /\ deadlines' \subseteq deadlines /\ pacing' \subseteq pacing
      /\ \A e \in deadlines : Current(e) => e \in deadlines'
      /\ \A e \in pacing : CurrentPace(e) => e \in pacing'
  BY <1>1, <1>2 DEF DiscardStaleDeadlines, DiscardStalePacing
<1>4. ASSUME NEW b \in Conns
      PROVE  Undisturbed(b)
  BY <1>1, <1>3 DEF Undisturbed, InLoop
<1>5. ASSUME NEW b \in Conns
      PROVE  ReadinessIsFresh(b)'
  <2>1. "W" \in Readiness(b) => conn[b].established
    BY DEF Readiness
  <2>2. QED
    BY <1>1, <2>1 DEF ReadinessIsFresh
<1>6. QED
  BY <1>1, <1>4, <1>5 DEF Idles

\* A TCP handshake that ends leaves the timers alone.
LEMMA EstablishSteps ==
  ASSUME TypeOK, TimersInOrder, NEW c \in Conns, Establish(c)
  PROVE  \E r \in ConnectionType : Steps(c, r)
<1> DEFINE k == conn[c]
           r == [k EXCEPT !.established = TRUE]
<1>1. now <= now /\ k \in ConnectionType /\ conn \in [Conns -> ConnectionType] /\ WellTimed(k, now) /\ Live(c)
  BY DEF TypeOK, TimersInOrder, Establish
<1>2. /\ r \in ConnectionType /\ SameTimers(k, r) /\ r.established
      /\ r.handshaking = k.handshaking /\ r.write_offset = k.write_offset
      /\ r.interest = k.interest
  BY <1>1 DEF ConnectionType, SameTimers
<1>3. /\ conn' = [conn EXCEPT ![c] = r]
      /\ UNCHANGED <<pc, batch, deadlines, pacing, errors, recovered, now>>
  BY <1>1 DEF Establish, timers, counters
<1> HIDE DEF r
<1>4. WellTimed(r, now)
  BY <1>1, <1>2 DEF WellTimed, SameTimers, HasStarted, RequestIsWritten
<1>5. AsksToWrite(k, now) => AsksToWrite(r, now)
  BY <1>2 DEF AsksToWrite, SameTimers, SlotAhead
<1>6. Kept(c, r)
  BY <1>2, <1>3, <1>4, <1>5 DEF Kept
<1>7. Steps(c, r)
  BY <1>1, <1>2, <1>3, <1>6 DEF Steps, Retimed, Earned, CountedRecovery, Prompt, SameTimers
<1>8. QED
  BY <1>2, <1>7

\* Every step outside the opening leaves the timers alone or retimes one connection.
LEMMA TimerShapes ==
  ASSUME TypeOK, TypeOK', TimersInOrder, [Next]_vars
  PROVE  \/ Opening \/ Idles
         \/ \E c \in Conns, r \in ConnectionType : Steps(c, r)
<1>1. /\ now \in Nat /\ deadlines \subseteq Timers /\ pacing \subseteq Timers
      /\ conn \in [Conns -> ConnectionType]
  BY DEF TypeOK
<1>2. CASE LeaveLoop \/ EventsDone \/ Tick \/ Finished \/ UNCHANGED vars
  <2>1. /\ UNCHANGED <<conn, errors, batch, deadlines, pacing>> /\ now <= now'
        /\ \/ pc' = pc
           \/ pc' = "ok"
           \/ pc = "events" /\ pc' = "deadlines" /\ \A b \in Conns : batch[b] = {}
    BY <1>1, <1>2 DEF LeaveLoop, EventsDone, Tick, Finished, vars, timers, counters
  <2>2. ASSUME NEW b \in Conns
        PROVE  Undisturbed(b)
    BY <2>1 DEF Undisturbed, InLoop
  <2>3. ASSUME NEW b \in Conns
        PROVE  ReadinessIsFresh(b)'
    BY <2>1 DEF ReadinessIsFresh, TimersInOrder, Live
  <2>4. pc' = "connect" => deadlines' = {} /\ pacing' = {}
    BY <2>1 DEF TimersInOrder
  <2>5. QED
    BY <2>1, <2>2, <2>3, <2>4 DEF Idles
<1>3. CASE Poll
  BY <1>3, PollIdles
<1>4. ASSUME NEW c \in Conns, Event(c)
      PROVE  Idles \/ \E r \in ConnectionType : Steps(c, r)
  <2>1. /\ Live(c) /\ pc = "events" /\ now <= now'
        /\ \A b \in Conns : batch'[b] \subseteq batch[b]
        /\ EventOutcome(c)
    BY <1>4, EventTiming
  <2>2. CASE Aborts
    BY <2>1, <2>2, AbortIdles
  <2>3. ASSUME NEW r \in ConnectionType,
               pc' = pc, Retimed(c, r), "W" \in batch'[c] => Kept(c, r),
               Charges(c, Kinds \ {"timeout"}), CountedRecovery(c, r), Prompt(c, r)
        PROVE  Steps(c, r)
    <3>1. Earned(c)
      BY <2>1, <2>3 DEF Earned, Charges, Kinds
    <3>2. QED
      BY <2>1, <2>3, <3>1 DEF Steps, Charges
  <2>4. QED
    BY <2>1, <2>2, <2>3, Zenon DEF EventOutcome
<1>5. ASSUME NEW c \in Conns, Establish(c)
      PROVE  \E r \in ConnectionType : Steps(c, r)
  BY <1>5, EstablishSteps
<1>6. QED
  BY <1>2, <1>3, <1>4, <1>5, DrainTiming DEF Next, Work

\* A newly opened connection is well timed.
LEMMA ConnectTiming ==
  ASSUME NEW l \in Nat, NEW a \in ConnectFrom(0), NEW t \in Nat, NEW s \in Slots(t)
  PROVE  WellTimed(Connect(l, a, s, t), t) /\ ~HasStarted(Connect(l, a, s, t))
<1> DEFINE k == Connect(l, a, s, t)
<1>1. k.started = NoTime /\ k.awaiting_pace = FALSE /\ k.handshaking = Tls
  BY DEF Connect, Unopened
<1> HIDE DEF k
<1>2. WellTimed(k, t) /\ ~HasStarted(k)
  BY <1>1 DEF WellTimed, HasStarted
<1>3. QED
  BY <1>2 DEF k

\* Opening the connections keeps the timers in order; entering the loop makes them.
LEMMA OpeningTimers ==
  ASSUME TypeOK, TypeOK', TimersInOrder, Opening
  PROVE  TimersInOrder'
<1>1. /\ now \in Nat /\ conn \in [Conns -> ConnectionType] /\ pc = "connect"
      /\ deadlines = {} /\ pacing = {} /\ UNCHANGED <<batch, now>>
      /\ \A b \in Conns : batch[b] = {}
      /\ batch \in [Conns -> SUBSET {"E", "W", "R"}]
  BY DEF TypeOK, TimersInOrder, ReadinessIsFresh, Opening, OpenConnection,
         OpenGivesUpAtDeadline, OpenFails, EnterLoop
<1>2. \A b \in Conns : ReadinessIsFresh(b)'
  BY <1>1 DEF ReadinessIsFresh
<1>3. ASSUME deadlines' = {}, pacing' = {}, pc' \in {"connect", "ok"},
             \A b \in Conns : ~conn'[b].done => WellTimed(conn'[b], now)
      PROVE  TimersInOrder'
  <2>1. ASSUME NEW b \in Conns
        PROVE  EntriesAgree(b)' /\ IsAwaited(b)' /\ (Live(b)' => WellTimed(conn'[b], now'))
    BY <1>1, <1>3 DEF EntriesAgree, IsAwaited, InLoop, Live
  <2>2. QED
    BY <1>2, <1>3, <2>1 DEF TimersInOrder
<1>4. CASE OpenConnection
  <2>1. PICK a \in ConnectFrom(0), slot \in Slots(now) :
          conn' = [conn EXCEPT ![cursor] = Connect(Limits[cursor], a, slot, now)]
    BY <1>4 DEF OpenConnection
  <2>2. cursor \in Conns /\ Limits[cursor] \in Nat
    BY <1>4, LimitsAssumption DEF OpenConnection, Conns
  <2>3. WellTimed(Connect(Limits[cursor], a, slot, now), now)
    BY <1>1, <2>2, ConnectTiming
  <2>4. \A b \in Conns : ~conn'[b].done => WellTimed(conn'[b], now)
    BY <1>1, <2>1, <2>2, <2>3 DEF TimersInOrder, Live
  <2>5. deadlines' = {} /\ pacing' = {} /\ pc' = "connect"
    BY <1>1, <1>4 DEF OpenConnection, timers
  <2>6. QED
    BY <1>3, <2>4, <2>5
<1>5. CASE OpenGivesUpAtDeadline \/ OpenFails
  <2>1. conn' = conn /\ deadlines' = {} /\ pacing' = {} /\ pc' \in {"connect", "ok"}
    BY <1>1, <1>5 DEF OpenGivesUpAtDeadline, OpenFails, timers
  <2>2. \A b \in Conns : ~conn'[b].done => WellTimed(conn'[b], now)
    BY <2>1 DEF TimersInOrder, Live
  <2>3. QED
    BY <1>3, <2>1, <2>2
<1>6. CASE EnterLoop
  <2> DEFINE live == {b \in Conns : Live(b)}
  <2>1. /\ conn' = conn /\ pc' = "poll"
        /\ deadlines' = UNION {DeadlineEntry(b, conn[b]) : b \in live}
        /\ pacing' = UNION {PacingEntry(b, conn[b]) : b \in live}
    BY <1>6 DEF EnterLoop
  <2>2. ASSUME NEW b \in Conns
        PROVE  EntriesAgree(b)'
    <3>1. b \in Conns /\ conn[b].timer_generation \in Nat
      BY <1>1, FieldTypes
    <3>2. ASSUME NEW e \in deadlines', e.token = b
          PROVE  e.generation = conn[b].timer_generation /\ e.at = NextDeadline(conn[b])
      BY <2>1, <3>2, EntryOf
    <3>3. ASSUME NEW e \in pacing', e.token = b
          PROVE  e.generation = conn[b].timer_generation /\ e.at = PacingDeadline(conn[b])
      BY <2>1, <3>3, EntryOf
    <3>4. QED
      BY <2>1, <3>1, <3>2, <3>3 DEF EntriesAgree
  <2>3. ASSUME NEW b \in Conns, Live(b)
        PROVE  /\ ~conn[b].awaiting_pace => HasDeadline(b)'
               /\ conn[b].awaiting_pace => HasPacing(b)'
    <3> DEFINE k == conn[b]
    <3>1. /\ ~k.awaiting_pace => NextDeadline(k) # NoTime
          /\ k.awaiting_pace => PacingDeadline(k) # NoTime
      BY <1>1, <2>3, OneTimer DEF TimersInOrder, Live
    <3>2. DeadlineEntry(b, k) \subseteq deadlines' /\ PacingEntry(b, k) \subseteq pacing'
      BY <2>1, <2>3
    <3>3. ~k.awaiting_pace => HasDeadline(b)'
      <4>1. HAVE ~k.awaiting_pace
      <4>2. PICK e \in deadlines' :
              e = [at |-> NextDeadline(k), token |-> b, generation |-> k.timer_generation]
        BY <3>1, <3>2, <4>1, EntryMade
      <4>3. e.token = b /\ e.at = NextDeadline(conn'[b]) /\ Current(e)'
        BY <2>1, <2>3, <4>2 DEF Current, Live
      <4>4. QED
        BY <4>2, <4>3, Zenon DEF HasDeadline
    <3>4. k.awaiting_pace => HasPacing(b)'
      <4>1. HAVE k.awaiting_pace
      <4>2. PICK e \in pacing' :
              e = [at |-> PacingDeadline(k), token |-> b, generation |-> k.timer_generation]
        BY <3>1, <3>2, <4>1, EntryMade
      <4>3. e.token = b /\ CurrentPace(e)'
        BY <2>1, <2>3, <4>2 DEF CurrentPace, Current, Live
      <4>4. QED
        BY <4>2, <4>3, Zenon DEF HasPacing
    <3>5. QED
      BY <3>3, <3>4
  <2>4. ASSUME NEW b \in Conns
        PROVE  IsAwaited(b)' /\ (Live(b)' => WellTimed(conn'[b], now'))
    BY <1>1, <2>1, <2>3 DEF IsAwaited, TimersInOrder, Live
  <2>5. QED
    BY <1>2, <2>1, <2>2, <2>4 DEF TimersInOrder
<1>7. QED
  BY <1>4, <1>5, <1>6 DEF Opening

\* The invariant holds at the start: nothing is open and the heaps are empty.
LEMMA InitTimers == Init => TimersInOrder
<1>1. SUFFICES ASSUME Init PROVE TimersInOrder
  OBVIOUS
<1>2. ASSUME NEW c \in Conns
      PROVE  ~Live(c) /\ EntriesAgree(c) /\ IsAwaited(c) /\ ReadinessIsFresh(c)
  <2>1. conn[c] = Unopened(Limits[c]) /\ batch[c] = {} /\ deadlines = {} /\ pacing = {}
    BY <1>1 DEF Init
  <2>2. ~Live(c)
    BY <2>1 DEF Live, Unopened
  <2>3. QED
    BY <2>1, <2>2 DEF EntriesAgree, IsAwaited, ReadinessIsFresh
<1>3. QED
  BY <1>1, <1>2 DEF TimersInOrder, Init

\* Every step keeps the timers in order.
LEMMA NextTimers == TypeOK /\ TypeOK' /\ TimersInOrder /\ [Next]_vars => TimersInOrder'
<1>1. SUFFICES ASSUME TypeOK, TypeOK', TimersInOrder, [Next]_vars
      PROVE  TimersInOrder'
  OBVIOUS
<1>2. CASE Opening
  BY <1>1, <1>2, OpeningTimers
<1>3. CASE Idles
  BY <1>1, <1>3, IdlesKeeps
<1>4. ASSUME NEW c \in Conns, NEW r \in ConnectionType, Steps(c, r)
      PROVE  TimersInOrder'
  BY <1>1, <1>4, RetimedKeeps DEF Steps
<1>5. QED
  BY <1>1, <1>2, <1>3, <1>4, TimerShapes

\* Every current timer is the one its connection asks for, every live connection has one
\* or is past its slot, and no readiness outlives its stream: for every worker.
THEOREM TimersKept == Spec => []TimersInOrder
<1>1. TypeOK /\ TimersInOrder /\ [Next]_vars /\ TypeOK' => TimersInOrder'
  BY NextTimers
<1>2. QED
  BY <1>1, InitTimers, TypeCorrect, PTL DEF Spec

(***************************************************************************)
(* The properties.                                                         *)
(***************************************************************************)
\* Back in poll, every live connection has a current timer of its own or is past its
\* slot, whatever the events, failures and timers before.
THEOREM WakeupsNotLost == Spec => []NoLostWakeup
<1>1. TimersInOrder => NoLostWakeup
  BY DEF TimersInOrder, IsAwaited, SlotHasCome, InLoop, NoLostWakeup
<1>2. QED
  BY <1>1, TimersKept, PTL

\* A connection that waits for its slot is woken for it, or asks a connected socket for
\* writability once the slot has come.
THEOREM ParkedAreWoken == Spec => []ParkedIsWoken
<1>1. TypeOK /\ TimersInOrder => ParkedIsWoken
  <2>1. SUFFICES ASSUME TypeOK, TimersInOrder, pc = "poll", NEW c \in Conns,
                        Live(c), conn[c].awaiting_pace, ~HasPacing(c)
        PROVE  ~SlotAhead(conn[c], now) /\ "W" \in conn[c].interest /\ conn[c].established
    BY DEF ParkedIsWoken
  <2>2. AsksToWrite(conn[c], now) /\ WellTimed(conn[c], now)
    BY <2>1 DEF TimersInOrder, IsAwaited, InLoop
  <2>3. QED
    BY <2>1, <2>2 DEF AsksToWrite, WellTimed
<1>2. QED
  BY <1>1, TimersKept, TypeCorrect, PTL

\* The counters of a connection are numbers.
LEMMA ErrorTypes ==
  ASSUME TypeOK, NEW c \in Conns
  PROVE  \A kind \in Kinds : errors[c][kind] \in Nat
  BY DEF TypeOK

\* A timeout is counted only against a request, or a stream, that is that old.
THEOREM TimeoutsEarned == Spec => TimeoutsAreEarned
<1> DEFINE Earns(c) ==
             /\ errors'[c]["timeout"] > errors[c]["timeout"] =>
                  HasStarted(conn[c]) /\ conn[c].started + Timeout <= now
             /\ pc = "deadlines" /\ errors'[c]["connect"] > errors[c]["connect"] =>
                  ~HasStarted(conn[c]) /\ conn[c].connected_at + Timeout <= now
<1>1. TypeOK /\ TypeOK' /\ TimersInOrder /\ [Next]_vars => \A c \in Conns : Earns(c)
  <2>1. SUFFICES ASSUME TypeOK, TypeOK', TimersInOrder, [Next]_vars, NEW c \in Conns
        PROVE  Earns(c)
    OBVIOUS
  <2>2. /\ errors[c]["timeout"] \in Nat /\ errors[c]["connect"] \in Nat
        /\ errors \in [Conns -> [Kinds -> Nat]]
    BY <2>1, ErrorTypes DEF Kinds, TypeOK
  <2>3. CASE Opening
    <3>1. pc = "connect" /\ errors'[c]["timeout"] = errors[c]["timeout"]
      BY <2>2, <2>3 DEF Opening, OpenConnection, OpenGivesUpAtDeadline, OpenFails, EnterLoop,
                        counters, Kinds
    <3>2. QED
      BY <2>2, <3>1
  <2>4. CASE Idles
    BY <2>2, <2>4 DEF Idles
  <2>5. ASSUME NEW d \in Conns, NEW r \in ConnectionType, Steps(d, r)
        PROVE  Earns(c)
    <3>1. CASE c = d
      BY <2>2, <2>5, <3>1 DEF Steps, Earned
    <3>2. CASE c # d
      <4>1. errors'[c] = errors[c]
        BY <2>5, <3>2 DEF Steps
      <4>2. QED
        BY <2>2, <4>1
    <3>3. QED
      BY <3>1, <3>2
  <2>6. QED
    BY <2>1, <2>3, <2>4, <2>5, TimerShapes
<1>2. TypeOK /\ TypeOK' /\ TimersInOrder /\ [Next]_vars => [\A c \in Conns : Earns(c)]_vars
  BY <1>1
<1>3. QED
  BY <1>2, TimersKept, TypeCorrect, PTL DEF Spec, TimeoutsAreEarned

\* A request of a plain-HTTP duration run is started by a step that began before the
\* deadline, whatever the clock does between the test and the stamp.
THEOREM StartsChecked == Spec => StartsAreChecked
<1> DEFINE Starts(c) == HasStarted(conn'[c]) /\ conn'[c].started # conn[c].started =>
                          now < Deadline /\ conn'[c].started \in now..now'
           Act == ~Fixed /\ ~Tls => \A c \in Conns : Starts(c)
<1>1. TypeOK /\ TypeOK' /\ TimersInOrder /\ [Next]_vars => Act
  <2>1. SUFFICES ASSUME TypeOK, TypeOK', TimersInOrder, [Next]_vars, ~Fixed, ~Tls, NEW c \in Conns
        PROVE  Starts(c)
    OBVIOUS
  <2>2. conn \in [Conns -> ConnectionType] /\ now \in Nat
    BY <2>1 DEF TypeOK
  <2>3. CASE OpenConnection
    <3>1. PICK a \in ConnectFrom(0), slot \in Slots(now) :
            conn' = [conn EXCEPT ![cursor] = Connect(Limits[cursor], a, slot, now)]
      BY <2>3 DEF OpenConnection
    <3>2. cursor \in Conns /\ Limits[cursor] \in Nat
      BY <2>3, LimitsAssumption DEF OpenConnection, Conns
    <3>3. ~HasStarted(Connect(Limits[cursor], a, slot, now))
      BY <2>2, <3>2, ConnectTiming
    <3>4. QED
      BY <2>2, <3>1, <3>2, <3>3
  <2>4. CASE OpenGivesUpAtDeadline \/ OpenFails \/ EnterLoop \/ Idles
    <3>1. conn' = conn
      BY <2>4 DEF OpenGivesUpAtDeadline, OpenFails, EnterLoop, Idles
    <3>2. QED
      BY <3>1
  <2>5. ASSUME NEW d \in Conns, NEW r \in ConnectionType, Steps(d, r)
        PROVE  Starts(c)
    <3>1. conn' = [conn EXCEPT ![d] = r] /\ Prompt(d, r)
      BY <2>5 DEF Steps, Retimed
    <3>2. QED
      BY <2>1, <2>2, <3>1 DEF Prompt
  <2>6. QED
    BY <2>1, <2>3, <2>4, <2>5, TimerShapes DEF Opening
<1>2. TypeOK /\ TypeOK' /\ TimersInOrder /\ [Next]_vars => [Act]_vars
  BY <1>1
<1>3. QED
  BY <1>2, TimersKept, TypeCorrect, PTL DEF Spec, StartsAreChecked

\* In a fixed-request run a failure that gives a live connection a new stream is counted
\* as a recovery attempt.  (In a duration run retry_address counts none.)
THEOREM RecoveryCounted ==
  ASSUME Fixed
  PROVE  Spec => RecoveryIsCounted
<1> DEFINE Counts(c) == (/\ Live(c) /\ ~conn'[c].done /\ ~conn'[c].reconnect_at_pace
                         /\ Failures(c)' > Failures(c)) => recovered'[c] > recovered[c]
<1>1. Inv /\ TypeOK /\ TypeOK' /\ TimersInOrder /\ [Next]_vars => \A c \in Conns : Counts(c)
  <2>1. SUFFICES ASSUME Inv, TypeOK, TypeOK', TimersInOrder, [Next]_vars, NEW c \in Conns
        PROVE  Counts(c)
    OBVIOUS
  <2>2. /\ conn \in [Conns -> ConnectionType] /\ errors \in [Conns -> [Kinds -> Nat]]
        /\ Failures(c) \in Nat
    <3>1. \A kind \in Kinds : errors[c][kind] \in Nat
      BY <2>1, ErrorTypes
    <3>2. QED
      BY <2>1, <3>1 DEF TypeOK, Failures, Kinds
  <2>3. errors'[c] = errors[c] => Counts(c)
    BY <2>2 DEF Failures
  <2>4. CASE OpenConnection \/ EnterLoop \/ OpenGivesUpAtDeadline \/ Idles
    BY <2>3, <2>4 DEF OpenConnection, EnterLoop, OpenGivesUpAtDeadline, Idles, IsPastDeadline,
                      counters
  <2>5. CASE OpenFails
    <3>1. ASSUME c # cursor
          PROVE  errors'[c] = errors[c]
      BY <2>2, <2>5, <3>1 DEF OpenFails
    <3>2. c = cursor => ~Live(c)
      <4>1. cursor \in Nat
        BY <2>1 DEF TypeOK
      <4>2. QED
        BY <2>1, <4>1 DEF Inv, Accounting, OpenedInOrder
    <3>3. QED
      BY <2>3, <3>1, <3>2
  <2>6. ASSUME NEW d \in Conns, NEW r \in ConnectionType, Steps(d, r)
        PROVE  Counts(c)
    <3>1. CASE c = d
      <4>1. conn'[c] = r /\ CountedRecovery(c, r)
        BY <2>2, <2>6, <3>1 DEF Steps, Retimed
      <4>2. QED
        BY <2>3, <4>1 DEF CountedRecovery
    <3>2. CASE c # d
      BY <2>3, <2>6, <3>2 DEF Steps
    <3>3. QED
      BY <3>1, <3>2
  <2>7. QED
    BY <2>1, <2>4, <2>5, <2>6, TimerShapes DEF Opening
<1>2. Inv /\ TypeOK /\ TypeOK' /\ TimersInOrder /\ [Next]_vars => [\A c \in Conns : Counts(c)]_vars
  BY <1>1
<1>3. QED
  BY <1>2, TimersKept, TypeCorrect, InvHolds, PTL DEF Spec, RecoveryIsCounted
=============================================================================
