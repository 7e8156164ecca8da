--------------------------- MODULE Worker_proofs ---------------------------
(***************************************************************************)
(* Type correctness and the request accounting of a worker, for every      *)
(* number of connections, every limit, budget, timeout, deadline and pace. *)
(*                                                                         *)
(* The argument: every step of the worker is one of the four opening       *)
(* steps, a step that only moves control, or a Touch, which changes one    *)
(* live connection in one of three ways that the accounting tells apart    *)
(* (lemma NextShapes).  The inductive invariant is then preserved by each  *)
(* shape.                                                                  *)
(***************************************************************************)
EXTENDS Worker, FiniteSetTheorems, TLAPS

(***************************************************************************)
(* The connection, what its methods preserve: the record stays well        *)
(* formed, and its accounting fields change as the worker relies on.       *)
(***************************************************************************)
\* r has the same accounting as k: a method that only moves bytes or waits.
SameAccount(k, r) ==
  /\ r.limit = k.limit
  /\ r.done = k.done
  /\ r.completed = k.completed
  /\ r.drawn = k.drawn
  /\ r.recovery_attempts = k.recovery_attempts

\* The fields of a well-formed connection have their types.
LEMMA FieldTypes ==
  ASSUME NEW k \in ConnectionType
  PROVE  /\ k.limit \in Nat
         /\ k.done \in BOOLEAN
         /\ k.completed \in Nat
         /\ k.recovery_attempts \in 0..RecoveryBudget
         /\ k.timer_generation \in Nat
         /\ k.address_index \in 0..(Addresses - 1)
         /\ k.connected_at \in Nat
         /\ k.started \in Instants
         /\ k.write_offset \in 0..RequestLen
         /\ k.not_before \in Instants
         /\ k.awaiting_pace \in BOOLEAN
         /\ k.interest \in Interests
         /\ k.handshaking \in BOOLEAN
         /\ k.drawn \in Nat
  BY DEF ConnectionType

\* The three registrations a connection ever has are interests.
LEMMA BothDirections == {"R", "W"} \in Interests /\ {"R"} \in Interests /\ {} \in Interests
  BY DEF Interests

\* Replacing the stream of a connection keeps it well formed.
LEMMA StreamUpdate ==
  ASSUME NEW k \in ConnectionType, NEW a \in 0..(Addresses - 1), NEW t \in Nat,
         NEW b \in BOOLEAN, NEW g \in Nat, NEW i \in Interests, NEW w \in 0..RequestLen
  PROVE  [ k EXCEPT !.address_index = a, !.connected_at = t, !.handshaking = b,
                    !.established = FALSE, !.awaiting_pace = FALSE,
                    !.reconnect_at_pace = FALSE, !.timer_generation = g,
                    !.interest = i, !.sent_from = w ] \in ConnectionType
  BY DEF ConnectionType

\* A new stream leaves the accounting alone and starts a new timer generation.
LEMMA NewStreamFacts ==
  ASSUME NEW k \in ConnectionType, NEW a \in 0..(Addresses - 1), NEW t \in Nat
  PROVE  /\ NewStream(k, a, t) \in ConnectionType
         /\ SameAccount(k, NewStream(k, a, t))
<1>1. k.timer_generation + 1 \in Nat /\ k.write_offset \in 0..RequestLen
  BY FieldTypes
<1>2. NewStream(k, a, t) \in ConnectionType
  BY <1>1, BothDirections, TlsAssumption, StreamUpdate DEF NewStream
<1>3. SameAccount(k, NewStream(k, a, t))
  BY DEF NewStream, SameAccount, ConnectionType
<1>4. QED
  BY <1>2, <1>3

\* stop_if_expired marks the connection done and leaves its account alone.
LEMMA StoppedFacts ==
  ASSUME NEW k \in ConnectionType
  PROVE  /\ Stopped(k) \in ConnectionType
         /\ Stopped(k).done
         /\ Stopped(k).limit = k.limit
         /\ Stopped(k).completed = k.completed
         /\ Stopped(k).drawn = k.drawn
         /\ Stopped(k).recovery_attempts = k.recovery_attempts
<1>1. Stopped(k) \in ConnectionType
  BY BothDirections DEF Stopped, ConnectionType
<1>2. QED
  BY <1>1 DEF Stopped, ConnectionType

\* How a reconnection ends.  "yes": the connection lives on, charged for its attempts.
\* "no": it is done and its budget is spent, or the deadline has passed and it is as it was.
Reconnected(k, o, t) ==
  /\ o.ret \in {"yes", "no", "err"}
  /\ o.attempts \in Nat
  /\ o.ret # "err" => /\ o.conn \in ConnectionType
                      /\ o.conn.limit = k.limit
                      /\ o.conn.completed = k.completed
                      /\ o.conn.drawn = k.drawn
                      /\ Fixed => o.conn.recovery_attempts = k.recovery_attempts + o.attempts
  /\ o.ret = "yes" => o.conn.done = k.done
  /\ o.ret = "no" => \/ Fixed /\ o.conn.done /\ o.conn.recovery_attempts = RecoveryBudget
                     \/ IsPastDeadline(t) /\ o.conn = k
  /\ Fixed => o.ret # "err"

\* The connect loop of a fixed run ends as Reconnected says: it never exceeds the budget
\* and gives up only when the budget is spent.
LEMMA ReconnectWithinBudgetFacts ==
  ASSUME NEW k \in ConnectionType, NEW f \in ConnectionType, NEW s \in Nat, NEW t \in Nat,
         SameAccount(k, f), Fixed,
         NEW o \in ReconnectWithinBudget(k, f, s, t)
  PROVE  Reconnected(k, o, t)
<1> DEFINE left == RecoveryBudget - k.recovery_attempts
<1>1. k.recovery_attempts \in 0..RecoveryBudget /\ left \in 0..RecoveryBudget
  BY FieldTypes, BudgetAssumption
<1>2. CASE \E n \in 1..left, a \in ConnectFrom(s) :
             o = Outcome([NewStream(f, a, t) EXCEPT !.recovery_attempts = @ + n], "yes", n)
  <2>1. PICK n \in 1..left, a \in ConnectFrom(s) :
             o = Outcome([NewStream(f, a, t) EXCEPT !.recovery_attempts = @ + n], "yes", n)
    BY <1>2
  <2> DEFINE u == NewStream(f, a, t)
  <2>2. a \in 0..(Addresses - 1)
    BY AddressesAssumption DEF ConnectFrom
  <2>3. u \in ConnectionType /\ SameAccount(f, u)
    BY <2>2, NewStreamFacts
  <2>4. u.recovery_attempts + n \in 0..RecoveryBudget
    BY <2>3, <1>1, BudgetAssumption DEF SameAccount
  <2>5. /\ o.ret = "yes" /\ o.attempts = n
        /\ o.conn = [u EXCEPT !.recovery_attempts = u.recovery_attempts + n]
    BY <2>1 DEF Outcome
  <2> HIDE DEF u
  <2>6. o.conn \in ConnectionType
    BY <2>3, <2>4, <2>5 DEF ConnectionType
  <2>7. /\ o.conn.limit = u.limit /\ o.conn.completed = u.completed
        /\ o.conn.drawn = u.drawn /\ o.conn.done = u.done
        /\ o.conn.recovery_attempts = u.recovery_attempts + n
    BY <2>3, <2>5 DEF ConnectionType
  <2>8. QED
    BY <2>3, <2>5, <2>6, <2>7 DEF Reconnected, SameAccount
<1>3. CASE o = Outcome([Stopped(k) EXCEPT !.recovery_attempts = RecoveryBudget], "no", left)
  <2>1. /\ o.ret = "no" /\ o.attempts = left
        /\ o.conn = [Stopped(k) EXCEPT !.recovery_attempts = RecoveryBudget]
    BY <1>3 DEF Outcome
  <2>2. RecoveryBudget \in 0..RecoveryBudget
    BY BudgetAssumption
  <2>3. o.conn \in ConnectionType
    BY <2>1, <2>2, StoppedFacts DEF ConnectionType
  <2>4. /\ o.conn.limit = k.limit /\ o.conn.completed = k.completed
        /\ o.conn.drawn = k.drawn /\ o.conn.done
        /\ o.conn.recovery_attempts = RecoveryBudget
    BY <2>1, StoppedFacts DEF ConnectionType
  <2>5. QED
    BY <1>1, <2>1, <2>3, <2>4, BudgetAssumption DEF Reconnected
<1>4. QED
  BY <1>2, <1>3 DEF ReconnectWithinBudget

\* retry_address ends as Reconnected says; in a duration run it never just gives up.
LEMMA RetryAddressFacts ==
  ASSUME NEW k \in ConnectionType, NEW t \in Nat, NEW o \in RetryAddress(k, t)
  PROVE  Reconnected(k, o, t) /\ (~Fixed => o.ret # "no")
<1> DEFINE next == (k.address_index + 1) % Addresses
<1>1. next \in Nat
  BY FieldTypes, AddressesAssumption
<1>2. CASE Fixed /\ k.recovery_attempts >= RecoveryBudget
  <2>1. o = Outcome(Stopped(k), "no", 0)
    BY <1>2 DEF RetryAddress
  <2>2. k.recovery_attempts = RecoveryBudget
    BY <1>2, FieldTypes, BudgetAssumption
  <2>3. QED
    BY <1>2, <2>1, <2>2, StoppedFacts, FieldTypes DEF Outcome, Reconnected
<1>3. CASE Fixed /\ ~(k.recovery_attempts >= RecoveryBudget)
  <2>1. o \in ReconnectWithinBudget(k, k, next, t)
    BY <1>3 DEF RetryAddress
  <2>2. QED
    BY <1>1, <1>3, <2>1, ReconnectWithinBudgetFacts DEF SameAccount
<1>4. CASE ~Fixed
  <2>1. CASE o = Outcome(Deregistered(k), "err", 0)
    BY <1>4, <2>1 DEF Outcome, Reconnected
  <2>2. ASSUME NEW a \in ConnectFrom(next), o = Outcome(NewStream(k, a, t), "yes", 0)
        PROVE  Reconnected(k, o, t) /\ o.ret = "yes"
    <3>1. a \in 0..(Addresses - 1)
      BY <1>1, AddressesAssumption DEF ConnectFrom
    <3>2. QED
      BY <1>4, <2>2, <3>1, NewStreamFacts DEF Outcome, Reconnected, SameAccount
  <2>3. QED
    BY <1>4, <2>1, <2>2 DEF RetryAddress, Outcome
<1>5. QED
  BY <1>2, <1>3, <1>4

\* recover_request ends as Reconnected says.
LEMMA RecoverRequestFacts ==
  ASSUME NEW k \in ConnectionType, NEW t \in Nat, NEW u \in Nat,
         NEW o \in RecoverRequest(k, t, u)
  PROVE  Reconnected(k, o, u)
<1> DEFINE fresh == [k EXCEPT !.write_offset = 0, !.started = NoTime]
<1>1. fresh \in ConnectionType
  <2>1. 0 \in 0..RequestLen /\ NoTime \in Instants
    BY RequestLenAssumption DEF Instants
  <2>2. QED
    BY <2>1 DEF ConnectionType
<1>2. SameAccount(k, fresh)
  BY DEF SameAccount, ConnectionType
<1>3. CASE Fixed /\ k.recovery_attempts >= RecoveryBudget
  <2>1. o = Outcome(Stopped(k), "no", 0)
    BY <1>3 DEF RecoverRequest
  <2>2. k.recovery_attempts = RecoveryBudget
    BY <1>3, FieldTypes, BudgetAssumption
  <2>3. QED
    BY <1>3, <2>1, <2>2, StoppedFacts, FieldTypes DEF Outcome, Reconnected
<1>4. CASE Fixed /\ ~(k.recovery_attempts >= RecoveryBudget)
  <2>1. o \in ReconnectWithinBudget(k, fresh, 0, u)
    BY <1>4 DEF RecoverRequest
  <2>2. QED
    BY <1>1, <1>2, <1>4, <2>1, ReconnectWithinBudgetFacts
<1>5. CASE ~Fixed
  <2> HIDE DEF fresh
  <2>1. CASE o = Outcome(k, "no", 0) /\ Deadline <= u
    BY <1>5, <2>1 DEF Outcome, Reconnected, IsPastDeadline
  <2>2. CASE o = Outcome(Deregistered(k), "err", 1)
    BY <1>5, <2>2 DEF Outcome, Reconnected
  <2>3. ASSUME NEW a \in ConnectFrom(0), o = Outcome(NewStream(fresh, a, u), "yes", 1)
        PROVE  Reconnected(k, o, u)
    <3>1. a \in 0..(Addresses - 1)
      BY DEF ConnectFrom
    <3>2. NewStream(fresh, a, u) \in ConnectionType /\ SameAccount(fresh, NewStream(fresh, a, u))
      BY <1>1, <3>1, NewStreamFacts
    <3>3. QED
      BY <1>2, <1>5, <2>3, <3>2 DEF Outcome, Reconnected, SameAccount
  <2>4. QED
    BY <1>5, <2>1, <2>2, <2>3 DEF RecoverRequest, fresh
<1>6. QED
  BY <1>3, <1>4, <1>5

\* defer_reconnect_until_pace leaves the account alone.
LEMMA DeferReconnectFacts ==
  ASSUME NEW k \in ConnectionType
  PROVE  DeferReconnect(k) \in ConnectionType /\ SameAccount(k, DeferReconnect(k))
<1>1. k.timer_generation + 1 \in Nat
  BY FieldTypes
<1>2. Deregistered(k) \in ConnectionType /\ SameAccount(k, Deregistered(k))
      /\ Deregistered(k).timer_generation = k.timer_generation
  BY BothDirections DEF Deregistered, ConnectionType, SameAccount
<1>3. DeferReconnect(k) = [Deregistered(k) EXCEPT !.awaiting_pace = TRUE,
             !.reconnect_at_pace = TRUE, !.timer_generation = k.timer_generation + 1]
  BY <1>2 DEF DeferReconnect
<1>4. DeferReconnect(k) \in ConnectionType
  BY <1>1, <1>2, <1>3 DEF ConnectionType
<1>5. SameAccount(k, DeferReconnect(k))
  BY <1>2, <1>3 DEF ConnectionType, SameAccount
<1>6. QED
  BY <1>4, <1>5

\* refresh_interest leaves the account alone.
LEMMA RefreshInterestFacts ==
  ASSUME NEW k \in ConnectionType, NEW t \in Nat, NEW r \in RefreshInterest(k, t)
  PROVE  r \in ConnectionType /\ SameAccount(k, r)
<1>1. PICK i \in Interests : r = [k EXCEPT !.interest = i]
  BY BothDirections DEF RefreshInterest
<1>2. QED
  BY <1>1 DEF ConnectionType, SameAccount

\* resume_at_pace leaves the account alone, whether or not it reconnects.
LEMMA ResumeAtPaceFacts ==
  ASSUME NEW k \in ConnectionType, NEW t \in Nat, NEW o \in ResumeAtPace(k, t)
  PROVE  o.conn \in ConnectionType /\ SameAccount(k, o.conn)
<1>1. CASE \E a \in ConnectFrom(0) : o = Outcome(NewStream(k, a, t), "ok", 0)
  BY <1>1, NewStreamFacts DEF ConnectFrom, Outcome
<1>2. CASE o = Outcome(k, "err", 0)
  BY <1>2 DEF Outcome, SameAccount
<1>3. CASE \E r \in RefreshInterest(k, t) : o = Outcome(r, "ok", 0)
  BY <1>3, RefreshInterestFacts DEF Outcome
<1>4. QED
  BY <1>1, <1>2, <1>3 DEF ResumeAtPace

\* Writing a part of the request leaves the account alone.
LEMMA SendRequestFacts ==
  ASSUME NEW k \in ConnectionType, NEW t \in Nat, NEW o \in SendRequest(k, t)
  PROVE  /\ o.conn \in ConnectionType /\ SameAccount(k, o.conn)
         /\ o.ret \in {"ok", "io"}
<1> DEFINE begun == IF HasStarted(k) THEN [k EXCEPT !.awaiting_pace = FALSE]
                    ELSE [k EXCEPT !.awaiting_pace = FALSE, !.started = t,
                                   !.timer_generation = @ + 1]
<1>1. k.timer_generation + 1 \in Nat /\ t \in Instants
  BY FieldTypes DEF Instants
<1>2. begun \in ConnectionType
  BY <1>1 DEF ConnectionType
<1>3. SameAccount(k, begun)
  BY DEF ConnectionType, SameAccount
<1>4. o.ret \in {"ok", "io"} /\ \E w \in 0..RequestLen : o.conn = [begun EXCEPT !.write_offset = w]
  <2>1. /\ k.write_offset..RequestLen \subseteq 0..RequestLen
        /\ k.write_offset..(RequestLen - 1) \subseteq 0..RequestLen
    BY FieldTypes, RequestLenAssumption
  <2>2. \E w \in 0..RequestLen, r \in {"ok", "io"} :
          o = Outcome([begun EXCEPT !.write_offset = w], r, 0)
    BY <2>1, Zenon DEF SendRequest
  <2> HIDE DEF begun
  <2>3. QED
    BY <2>2 DEF Outcome
<1> HIDE DEF begun
<1>5. PICK w \in 0..RequestLen : o.conn = [begun EXCEPT !.write_offset = w]
  BY <1>4
<1>6. o.conn \in ConnectionType /\ SameAccount(begun, o.conn)
  BY <1>2, <1>5 DEF ConnectionType, SameAccount
<1>7. QED
  BY <1>3, <1>4, <1>6 DEF SameAccount

\* write_request leaves the account alone on every path.
LEMMA WriteRequestFacts ==
  ASSUME NEW k \in ConnectionType, NEW t \in Nat, NEW u \in Nat,
         NEW o \in WriteRequest(k, t, u)
  PROVE  /\ o.conn \in ConnectionType /\ SameAccount(k, o.conn)
         /\ o.ret \in {"ok", "io", "tls"}
<1> DEFINE open == [k EXCEPT !.handshaking = FALSE]
<1>1. open \in ConnectionType /\ SameAccount(k, open)
  BY DEF ConnectionType, SameAccount
<1>2. AwaitPace(open) \in ConnectionType /\ SameAccount(k, AwaitPace(open))
  <2>1. open.timer_generation + 1 \in Nat
    BY <1>1, FieldTypes
  <2> HIDE DEF open
  <2>2. AwaitPace(open) \in ConnectionType
    BY <1>1, <2>1 DEF AwaitPace, ConnectionType
  <2>3. SameAccount(open, AwaitPace(open))
    BY <1>1 DEF AwaitPace, ConnectionType, SameAccount
  <2>4. QED
    BY <1>1, <2>2, <2>3 DEF SameAccount
<1>3. \/ o \in {Outcome(k, r, 0) : r \in {"ok", "io", "tls"}}
      \/ o = Outcome(AwaitPace(open), "ok", 0)
      \/ o \in SendRequest(open, u)
  BY DEF WriteRequest, FinishHandshake
<1> HIDE DEF open
<1>4. CASE o \in {Outcome(k, r, 0) : r \in {"ok", "io", "tls"}}
  BY <1>4 DEF Outcome, SameAccount
<1>5. CASE o = Outcome(AwaitPace(open), "ok", 0)
  BY <1>2, <1>5 DEF Outcome
<1>6. CASE o \in SendRequest(open, u)
  BY <1>1, <1>6, SendRequestFacts DEF SameAccount
<1>7. QED
  BY <1>3, <1>4, <1>5, <1>6

\* read_response leaves the account alone: the caller counts the response.
LEMMA ReadResponseFacts ==
  ASSUME NEW k \in ConnectionType, NEW o \in ReadResponse(k)
  PROVE  o.conn \in ConnectionType /\ SameAccount(k, o.conn)
<1> DEFINE open == [k EXCEPT !.handshaking = FALSE]
<1>1. \E r : o = Outcome(k, r, 0) \/ o = Outcome(open, r, 0)
  <2> HIDE DEF open
  <2>1. CASE ~k.established
    BY <2>1, Zenon DEF ReadResponse
  <2>2. CASE k.established
    BY <2>2, Zenon DEF ReadResponse, open
  <2>3. QED
    BY <2>1, <2>2
<1> HIDE DEF open
<1>2. o.conn = k \/ o.conn = open
  BY <1>1 DEF Outcome
<1>3. QED
  BY <1>2 DEF ConnectionType, SameAccount, open

\* A new connection has drawn one request and answered none.
LEMMA ConnectFacts ==
  ASSUME NEW l \in Nat, NEW a \in ConnectFrom(0), NEW t \in Nat, NEW s \in Slots(t)
  PROVE  LET k == Connect(l, a, s, t)
         IN  /\ k \in ConnectionType
             /\ k.limit = l /\ ~k.done /\ k.completed = 0
             /\ k.drawn = 1 /\ k.recovery_attempts = 0
<1>1. a \in 0..(Addresses - 1) /\ s \in Instants
  BY PaceAssumption DEF ConnectFrom, Slots, Instants
<1>2. /\ 0 \in 0..(Addresses - 1) /\ 0 \in 0..RequestLen /\ 0 \in 0..RecoveryBudget
      /\ NoTime \in Instants
  BY AddressesAssumption, RequestLenAssumption, BudgetAssumption DEF Instants
<1>3. Unopened(l) \in ConnectionType
  BY <1>2, BothDirections DEF Unopened, ConnectionType
<1>4. Connect(l, a, s, t) \in ConnectionType
  BY <1>1, <1>3, BothDirections, TlsAssumption DEF Connect, ConnectionType
<1>5. QED
  BY <1>4 DEF Connect, Unopened

\* A connection that is not open has drawn nothing.
LEMMA UnopenedFacts ==
  ASSUME NEW l \in Nat
  PROVE  /\ Unopened(l) \in ConnectionType
         /\ Unopened(l).limit = l /\ Unopened(l).done /\ Unopened(l).completed = 0
         /\ Unopened(l).drawn = 0 /\ Unopened(l).recovery_attempts = 0
<1>1. /\ 0 \in 0..(Addresses - 1) /\ 0 \in 0..RequestLen /\ 0 \in 0..RecoveryBudget
      /\ NoTime \in Instants
  BY AddressesAssumption, RequestLenAssumption, BudgetAssumption DEF Instants
<1>2. QED
  BY <1>1, BothDirections DEF Unopened, ConnectionType

\* A response is one more completion; the next request is drawn only when the limit
\* leaves one.
Answered(k, f, t) ==
  /\ f.conn \in ConnectionType
  /\ f.ret \in {"done", "more", "err"}
  /\ f.conn.limit = k.limit
  /\ f.conn.completed = k.completed + 1
  /\ f.conn.recovery_attempts = 0
  /\ f.ret = "done" => /\ f.conn.done /\ f.conn.drawn = k.drawn
                       /\ Fixed => k.completed + 1 >= k.limit
                       /\ ~Fixed => IsPastDeadline(t)
  /\ f.ret = "more" => /\ f.conn.done = k.done /\ f.conn.drawn = k.drawn + 1
                       /\ Fixed => k.completed + 1 < k.limit

\* finish_response ends as Answered says.
LEMMA FinishResponseFacts ==
  ASSUME NEW k \in ConnectionType, NEW close \in BOOLEAN, NEW t \in Nat, NEW u \in Nat,
         NEW f \in FinishResponse(k, close, t, u)
  PROVE  Answered(k, f, u)
<1> DEFINE answered == [k EXCEPT !.completed = @ + 1, !.recovery_attempts = 0]
           blank == [answered EXCEPT !.write_offset = 0, !.started = NoTime]
           installed(slot) == InstallNextRequest(blank, slot)
           reused(slot) == [installed(slot) EXCEPT !.timer_generation = @ + 1, !.sent_from = 0]
<1>0. 0 \in 0..RecoveryBudget /\ 0 \in 0..RequestLen /\ NoTime \in Instants
  BY BudgetAssumption, RequestLenAssumption DEF Instants
<1>1. /\ answered \in ConnectionType
      /\ answered.limit = k.limit /\ answered.completed = k.completed + 1
      /\ answered.recovery_attempts = 0 /\ answered.drawn = k.drawn /\ answered.done = k.done
  <2>1. k.completed + 1 \in Nat
    BY FieldTypes
  <2>2. answered \in ConnectionType
    BY <1>0, <2>1 DEF ConnectionType
  <2>3. QED
    BY <2>2 DEF ConnectionType
<1>2. blank \in ConnectionType /\ SameAccount(answered, blank)
  <2> HIDE DEF answered
  <2>1. QED
    BY <1>0, <1>1 DEF ConnectionType, SameAccount
<1>3. ASSUME NEW v \in Nat, NEW slot \in Slots(v)
      PROVE  /\ installed(slot) \in ConnectionType
             /\ reused(slot) \in ConnectionType
             /\ \A r \in {installed(slot), reused(slot)} :
                  /\ r.limit = k.limit /\ r.completed = k.completed + 1 /\ r.done = k.done
                  /\ r.recovery_attempts = 0 /\ r.drawn = k.drawn + 1
  <2>1. slot \in Instants /\ blank.drawn + 1 \in Nat
    BY <1>2, FieldTypes, PaceAssumption DEF Slots, Instants
  <2> DEFINE ins == installed(slot)
  <2> HIDE DEF answered, blank
  <2>2. ins \in ConnectionType
    BY <1>2, <2>1 DEF InstallNextRequest, ConnectionType
  <2>3. /\ ins.limit = blank.limit /\ ins.completed = blank.completed /\ ins.done = blank.done
        /\ ins.recovery_attempts = blank.recovery_attempts /\ ins.drawn = blank.drawn + 1
    BY <1>2 DEF InstallNextRequest, ConnectionType
  <2>4. ins.timer_generation + 1 \in Nat
    BY <2>2, FieldTypes
  <2> HIDE DEF installed
  <2>5. reused(slot) \in ConnectionType
    BY <1>0, <2>2, <2>4 DEF ConnectionType
  <2>6. SameAccount(ins, reused(slot))
    BY <2>2 DEF ConnectionType, SameAccount
  <2>7. QED
    BY <1>1, <1>2, <2>2, <2>3, <2>5, <2>6 DEF SameAccount
<1> HIDE DEF answered, blank, installed, reused
<1> DEFINE closed(slot) ==
             { Outcome(NewStream(installed(slot), a, u), "more", 0) : a \in ConnectFrom(0) }
             \cup { Outcome(Deregistered(installed(slot)), "err", 0) }
           written(o) == IF o.ret = "ok"
                         THEN { Outcome(r, "more", 0) : r \in RefreshInterest(o.conn, u) }
                         ELSE { Outcome(o.conn, "err", 0) }
           kept(slot, v) == UNION { written(o) : o \in WriteRequest(reused(slot), v, u) }
           next(slot, v) == IF close THEN closed(slot) ELSE kept(slot, v)
           nexts == UNION { UNION { next(slot, v) : slot \in Slots(v) } : v \in t..u }
<1>7. \/ ~ShouldContinue(answered, u) /\ f = Outcome(Stopped(answered), "done", 0)
      \/ ShouldContinue(answered, t) /\ f \in nexts
  <2>1. FinishResponse(k, close, t, u) =
          (IF ShouldContinue(answered, u) THEN {} ELSE { Outcome(Stopped(answered), "done", 0) })
          \cup (IF ShouldContinue(answered, t) THEN nexts ELSE {})
    BY DEF FinishResponse, answered, blank, installed, reused
  <2> HIDE DEF nexts
  <2>2. QED
    BY <2>1
<1> HIDE DEF closed, written, kept, next, nexts
<1>4. CASE ~ShouldContinue(answered, u) /\ f = Outcome(Stopped(answered), "done", 0)
  <2>2. (Fixed => k.completed + 1 >= k.limit) /\ (~Fixed => IsPastDeadline(u))
    BY <1>1, <1>4, FieldTypes, DeadlineAssumption
    DEF ShouldContinue, IsPastDeadline, Fixed
  <2>3. QED
    BY <1>1, <1>4, <2>2, StoppedFacts DEF Outcome, Answered
<1>5. CASE ShouldContinue(answered, t) /\ f \in nexts
  <2>1. Fixed => k.completed + 1 < k.limit
    BY <1>1, <1>5, FieldTypes DEF ShouldContinue
  <2>0. PICK v \in t..u : f \in UNION { next(slot, v) : slot \in Slots(v) }
    BY <1>5 DEF nexts
  <2>9. PICK slot \in Slots(v) : f \in next(slot, v)
    BY <2>0
  <2>10. v \in Nat
    OBVIOUS
  <2>2. \/ \E a \in ConnectFrom(0) : f = Outcome(NewStream(installed(slot), a, u), "more", 0)
        \/ f = Outcome(Deregistered(installed(slot)), "err", 0)
        \/ \E o \in WriteRequest(reused(slot), v, u) :
             \/ \E r \in RefreshInterest(o.conn, u) : f = Outcome(r, "more", 0)
             \/ f = Outcome(o.conn, "err", 0)
    <3>3. CASE f \in closed(slot)
      BY <3>3 DEF closed
    <3>4. CASE f \in kept(slot, v)
      <4>1. PICK o \in WriteRequest(reused(slot), v, u) : f \in written(o)
        BY <3>4 DEF kept
      <4>2. \/ \E r \in RefreshInterest(o.conn, u) : f = Outcome(r, "more", 0)
            \/ f = Outcome(o.conn, "err", 0)
        BY <4>1 DEF written
      <4>3. QED
        BY <4>2
    <3>5. QED
      BY <2>9, <3>3, <3>4 DEF next
  <2> DEFINE ins == installed(slot)
             reu == reused(slot)
  <2>3. /\ ins \in ConnectionType /\ reu \in ConnectionType
        /\ ins.limit = k.limit /\ ins.completed = k.completed + 1 /\ ins.done = k.done
        /\ ins.recovery_attempts = 0 /\ ins.drawn = k.drawn + 1
        /\ reu.limit = k.limit /\ reu.completed = k.completed + 1 /\ reu.done = k.done
        /\ reu.recovery_attempts = 0 /\ reu.drawn = k.drawn + 1
    BY <1>3, <2>10
  <2> HIDE DEF ins, reu
  <2>4. ASSUME NEW a \in ConnectFrom(0), f = Outcome(NewStream(ins, a, u), "more", 0)
        PROVE  Answered(k, f, u)
    <3>1. NewStream(ins, a, u) \in ConnectionType /\ SameAccount(ins, NewStream(ins, a, u))
      BY <2>3, NewStreamFacts DEF ConnectFrom
    <3>2. QED
      BY <2>1, <2>3, <2>4, <3>1 DEF Outcome, Answered, SameAccount
  <2>5. CASE f = Outcome(Deregistered(ins), "err", 0)
    <3>1. Deregistered(ins) \in ConnectionType /\ SameAccount(ins, Deregistered(ins))
      BY <2>3, BothDirections DEF Deregistered, ConnectionType, SameAccount
    <3>2. QED
      BY <2>3, <2>5, <3>1 DEF Outcome, Answered, SameAccount
  <2>6. ASSUME NEW o \in WriteRequest(reu, v, u), NEW r \in RefreshInterest(o.conn, u),
               f = Outcome(r, "more", 0)
        PROVE  Answered(k, f, u)
    <3>1. o.conn \in ConnectionType /\ SameAccount(reu, o.conn)
      BY <2>3, <2>10, WriteRequestFacts
    <3>2. r \in ConnectionType /\ SameAccount(o.conn, r)
      BY <3>1, RefreshInterestFacts
    <3>3. QED
      BY <2>1, <2>3, <2>6, <3>1, <3>2 DEF Outcome, Answered, SameAccount
  <2>7. ASSUME NEW o \in WriteRequest(reu, v, u), f = Outcome(o.conn, "err", 0)
        PROVE  Answered(k, f, u)
    <3>1. o.conn \in ConnectionType /\ SameAccount(reu, o.conn)
      BY <2>3, <2>10, WriteRequestFacts
    <3>2. QED
      BY <2>3, <2>7, <3>1 DEF Outcome, Answered, SameAccount
  <2>8. QED
    BY <2>2, <2>4, <2>5, <2>6, <2>7 DEF ins, reu
<1>6. QED
  BY <1>4, <1>5, <1>7

\* A timer is at an instant or absent.
LEMMA TimerFacts ==
  ASSUME NEW k \in ConnectionType
  PROVE  /\ NextDeadline(k) \in Instants
         /\ PacingDeadline(k) \in Instants
  BY FieldTypes, DeadlineAssumption, TimeoutAssumption
  DEF NextDeadline, PacingDeadline, HasStarted, Instants, Earlier, Fixed, NoTime

(***************************************************************************)
(* The worker.                                                             *)
(***************************************************************************)
\* The variables no accounting fact depends on have their types.
Surroundings ==
  /\ batch \in [Conns -> SUBSET {"E", "W", "R"}]
  /\ deadlines \subseteq Timers
  /\ pacing \subseteq Timers
  /\ now \in Nat

\* A step that moves control, readiness, timers or the clock only.
Control ==
  /\ UNCHANGED <<cursor, attempts, conn, active, errors, abandoned, recovered>>
  /\ Surroundings'
  /\ \/ pc' = pc /\ now <= now'
     \/ /\ InLoop /\ now <= now'
        /\ pc' \in {"poll", "events", "deadlines", "pacing",
                    "io_error", "tls_error", "protocol_error"}
     \/ InLoop /\ UNCHANGED now /\ active = 0 /\ pc' = "ok"

\* r is k with n more recovery attempts and the same request in hand; when it is done
\* its budget is spent and `lost` requests are abandoned.
SameRequest(k, r, n, lost) ==
  /\ r.completed = k.completed
  /\ r.drawn = k.drawn
  /\ Fixed => r.recovery_attempts = k.recovery_attempts + n
  /\ IF r.done THEN Fixed => r.recovery_attempts = RecoveryBudget
                             /\ lost = UnfinishedRequests(r)
     ELSE lost = 0

\* r is k stopped because its limit is reached or its time is up.
RanOut(k, r, n, lost) ==
  /\ Fixed => k.completed >= k.limit
  /\ n = 0 /\ lost = 0 /\ r.done
  /\ r.completed = k.completed /\ r.drawn = k.drawn

\* r is k with one more response.
OneMore(k, r, n, lost) ==
  /\ n = 0 /\ lost = 0
  /\ r.completed = k.completed + 1
  /\ r.recovery_attempts = 0
  /\ IF r.done THEN r.drawn = k.drawn /\ (Fixed => k.completed + 1 >= k.limit)
     ELSE r.drawn = k.drawn + 1 /\ (Fixed => k.completed + 1 < k.limit)

Changes(k, r, n, lost) ==
  /\ r.limit = k.limit
  /\ SameRequest(k, r, n, lost) \/ RanOut(k, r, n, lost) \/ OneMore(k, r, n, lost)

\* A timer entry made for a well-formed connection is a timer entry.
LEMMA EntryFacts ==
  ASSUME NEW c \in Conns, NEW k \in ConnectionType
  PROVE  DeadlineEntry(c, k) \subseteq Timers /\ PacingEntry(c, k) \subseteq Timers
<1>1. k.timer_generation \in Nat
  BY FieldTypes
<1>2. {NextDeadline(k)} \ {NoTime} \subseteq Nat /\ {PacingDeadline(k)} \ {NoTime} \subseteq Nat
  BY TimerFacts DEF Instants
<1>3. QED
  BY <1>1, <1>2 DEF DeadlineEntry, PacingEntry, Timers

\* Count moves the counters of connection c only, and keeps their types.
LEMMA CountFacts ==
  ASSUME TypeOK, NEW c \in Conns, NEW kind \in Kinds, NEW n \in Nat, NEW lost \in Nat,
         Count(c, kind, n, lost)
  PROVE  /\ errors' \in [Conns -> [Kinds -> Nat]]
         /\ \A d \in Conns \ {c} : errors'[d] = errors[d]
         /\ recovered' = [recovered EXCEPT ![c] = @ + n]
         /\ abandoned' = [abandoned EXCEPT ![c] = @ + lost]
<1>1. errors \in [Conns -> [Kinds -> Nat]]
  BY DEF TypeOK
<1>2. errors[c][kind] + 1 \in Nat
  BY <1>1
<1>3. errors' = [errors EXCEPT ![c] = [errors[c] EXCEPT ![kind] = errors[c][kind] + 1]]
  BY <1>1 DEF Count
<1>4. [errors[c] EXCEPT ![kind] = errors[c][kind] + 1] \in [Kinds -> Nat]
  BY <1>1, <1>2
<1>5. QED
  BY <1>1, <1>3, <1>4 DEF Count

\* In a duration run nothing is abandoned, and a connection is done only when the time
\* is up.
InTime(r, lost) == ~Fixed => lost = 0 /\ (r.done => IsPastDeadline(now'))

\* A handler turns connection c into r.
Becomes(c, r, n, lost) ==
  /\ Changes(conn[c], r, n, lost)
  /\ InTime(r, lost)
  /\ conn' = [conn EXCEPT ![c] = r]
  /\ active' = IF r.done THEN active - 1 ELSE active
  /\ errors' \in [Conns -> [Kinds -> Nat]]
  /\ \A d \in Conns \ {c} : errors'[d] = errors[d]
  /\ recovered' = [recovered EXCEPT ![c] = @ + n]
  /\ abandoned' = [abandoned EXCEPT ![c] = @ + lost]
  /\ deadlines' \subseteq Timers
  /\ pacing' \subseteq Timers
  /\ pc' = pc

\* A step that turns the live connection c into r.
Touch(c, r, n, lost) ==
  /\ Live(c)
  /\ Becomes(c, r, n, lost)
  /\ InLoop \/ (pc = "connect" /\ ~r.done)
  /\ Surroundings'
  /\ now <= now'
  /\ UNCHANGED <<cursor, attempts>>

\* What a handler of connection c may do.
Handled(c) ==
  \/ /\ pc' \in {"io_error", "tls_error", "protocol_error"}
     /\ UNCHANGED <<conn, active, deadlines, pacing, errors, abandoned, recovered>>
  \/ \E r \in ConnectionType, n, lost \in Nat : Becomes(c, r, n, lost)

\* The clock does not run backwards.
Advances == now' \in Nat /\ now <= now'

\* UnfinishedRequests is a number of requests.
LEMMA UnfinishedFacts ==
  ASSUME NEW k \in ConnectionType
  PROVE  UnfinishedRequests(k) \in Nat
  BY FieldTypes DEF UnfinishedRequests

\* Recover: the connection lives on with the same request, is retired with what it owes
\* abandoned, or the worker aborts with the I/O error; the last `return Err` is dead.
LEMMA RecoverFacts ==
  ASSUME TypeOK, NEW c \in Conns, NEW k \in ConnectionType, SameAccount(conn[c], k), Live(c),
         NEW kind \in Kinds, NEW d, d \subseteq Timers, NEW t \in Nat, Advances,
         Recover(c, k, kind, d, t)
  PROVE  Handled(c)
<1>1. PICK o \in RecoverRequest(k, t, now') :
    \/ /\ o.ret = "yes"
       /\ Rearm(c, o.conn, d, pacing)
       /\ Count(c, kind, o.attempts, 0)
       /\ UNCHANGED <<pc, active>>
    \/ /\ o.ret = "no" /\ (IsPastDeadline(now') \/ o.conn.done)
       /\ Retire(c, IF IsPastDeadline(now') THEN Stopped(o.conn) ELSE o.conn, d)
       /\ Count(c, kind, o.attempts, UnfinishedRequests(o.conn))
    \/ /\ o.ret = "no" /\ ~IsPastDeadline(now') /\ ~o.conn.done
       /\ Abort("fell_through")
    \/ /\ o.ret = "err"
       /\ Abort("io_error")
  BY Zenon DEF Recover
<1>2. now' \in Nat /\ pacing \subseteq Timers /\ conn[c] \in ConnectionType
  BY DEF TypeOK, Advances
<1>3. Reconnected(k, o, now')
  BY <1>2, RecoverRequestFacts
<1>4. CASE o.ret = "yes"
  <2>1. /\ o.conn \in ConnectionType /\ o.attempts \in Nat /\ ~o.conn.done
        /\ Changes(conn[c], o.conn, o.attempts, 0)
    BY <1>3, <1>4 DEF Reconnected, SameAccount, Live, Changes, SameRequest
  <2>2. Rearm(c, o.conn, d, pacing) /\ Count(c, kind, o.attempts, 0) /\ UNCHANGED <<pc, active>>
    BY <1>1, <1>4
  <2>3. deadlines' \subseteq Timers /\ pacing' \subseteq Timers
    BY <1>2, <2>1, <2>2, EntryFacts DEF Rearm
  <2>4. Becomes(c, o.conn, o.attempts, 0)
    BY <2>1, <2>2, <2>3, CountFacts DEF Becomes, Rearm, InTime
  <2>5. QED
    BY <2>1, <2>4 DEF Handled
<1>5. CASE o.ret = "no"
  <2> DEFINE r == IF IsPastDeadline(now') THEN Stopped(o.conn) ELSE o.conn
             lost == UnfinishedRequests(o.conn)
  <2>1. /\ o.conn \in ConnectionType /\ o.attempts \in Nat
        /\ IsPastDeadline(now') \/ o.conn.done
    BY <1>3, <1>5 DEF Reconnected
  <2>2. lost \in Nat
    BY <2>1, UnfinishedFacts
  <2>3. r \in ConnectionType /\ r.done
    BY <2>1, StoppedFacts
  <2>4. Changes(conn[c], r, o.attempts, lost)
    <3>1. CASE Fixed
      <4>1. ~IsPastDeadline(now')
        BY <3>1 DEF IsPastDeadline
      <4>2. QED
        BY <1>3, <1>5, <3>1, <4>1 DEF Reconnected, SameAccount, Changes, SameRequest
    <3>2. CASE ~Fixed
      <4>1. IsPastDeadline(now') /\ o.conn = k
        BY <1>3, <1>5, <3>2 DEF Reconnected
      <4>2. QED
        BY <3>2, <4>1, StoppedFacts DEF SameAccount, Changes, SameRequest
    <3>3. QED
      BY <3>1, <3>2
  <2>5. Retire(c, r, d) /\ Count(c, kind, o.attempts, lost)
    BY <1>1, <1>5, <2>1
  <2>9. InTime(r, lost)
    BY <1>3, <1>5 DEF InTime, Reconnected, UnfinishedRequests
  <2> HIDE DEF r, lost
  <2>6. deadlines' \subseteq Timers /\ pacing' \subseteq Timers
    BY <1>2, <2>5 DEF Retire
  <2>7. Becomes(c, r, o.attempts, lost)
    BY <2>1, <2>2, <2>3, <2>4, <2>5, <2>6, <2>9, CountFacts DEF Becomes, Retire
  <2>8. QED
    BY <2>1, <2>2, <2>3, <2>7 DEF Handled
<1>6. CASE o.ret = "err"
  BY <1>1, <1>6 DEF Abort, Handled, timers, counters
<1>7. QED
  BY <1>3, <1>4, <1>5, <1>6 DEF Reconnected

\* Retry: as Recover, for a failed connect.
LEMMA RetryFacts ==
  ASSUME TypeOK, NEW c \in Conns, NEW k \in ConnectionType, SameAccount(conn[c], k), Live(c),
         NEW d, d \subseteq Timers, Advances, Retry(c, k, d)
  PROVE  Handled(c)
<1>1. PICK o \in RetryAddress(k, now') :
    \/ /\ o.ret = "yes"
       /\ Rearm(c, o.conn, d, pacing)
       /\ Count(c, "connect", o.attempts, 0)
       /\ UNCHANGED <<pc, active>>
    \/ /\ o.ret = "no"
       /\ Retire(c, o.conn, d)
       /\ Count(c, "connect", o.attempts, UnfinishedRequests(o.conn))
    \/ /\ o.ret = "err"
       /\ Abort("io_error")
  BY Zenon DEF Retry
<1>2. now' \in Nat /\ pacing \subseteq Timers /\ conn[c] \in ConnectionType
      /\ "connect" \in Kinds /\ 0 \in Nat
  BY DEF TypeOK, Kinds, Advances
<1>3. Reconnected(k, o, now') /\ (~Fixed => o.ret # "no")
  BY <1>2, RetryAddressFacts
<1>4. CASE o.ret = "yes"
  <2>1. /\ o.conn \in ConnectionType /\ o.attempts \in Nat /\ ~o.conn.done
        /\ Changes(conn[c], o.conn, o.attempts, 0)
    BY <1>3, <1>4 DEF Reconnected, SameAccount, Live, Changes, SameRequest
  <2>2. /\ Rearm(c, o.conn, d, pacing) /\ Count(c, "connect", o.attempts, 0)
        /\ UNCHANGED <<pc, active>>
    BY <1>1, <1>4
  <2>3. deadlines' \subseteq Timers /\ pacing' \subseteq Timers
    BY <1>2, <2>1, <2>2, EntryFacts DEF Rearm
  <2>4. Becomes(c, o.conn, o.attempts, 0)
    BY <1>2, <2>1, <2>2, <2>3, CountFacts DEF Becomes, Rearm, InTime
  <2>5. QED
    BY <2>1, <2>4 DEF Handled
<1>5. CASE o.ret = "no"
  <2> DEFINE lost == UnfinishedRequests(o.conn)
  <2>1. o.conn \in ConnectionType /\ o.attempts \in Nat /\ o.conn.done
    BY <1>3, <1>5 DEF Reconnected, IsPastDeadline
  <2>2. lost \in Nat
    BY <2>1, UnfinishedFacts
  <2>3. Changes(conn[c], o.conn, o.attempts, lost)
    BY <1>3, <1>5, <2>1 DEF Reconnected, SameAccount, Changes, SameRequest, IsPastDeadline
  <2>4. Retire(c, o.conn, d) /\ Count(c, "connect", o.attempts, lost)
    BY <1>1, <1>5
  <2>8. InTime(o.conn, lost)
    BY <1>3, <1>5 DEF InTime
  <2> HIDE DEF lost
  <2>5. deadlines' \subseteq Timers /\ pacing' \subseteq Timers
    BY <1>2, <2>4 DEF Retire
  <2>6. Becomes(c, o.conn, o.attempts, lost)
    BY <1>2, <2>1, <2>2, <2>3, <2>4, <2>5, <2>8, CountFacts DEF Becomes, Retire
  <2>7. QED
    BY <2>1, <2>2, <2>6 DEF Handled
<1>6. CASE o.ret = "err"
  BY <1>1, <1>6 DEF Abort, Handled, timers, counters
<1>7. QED
  BY <1>3, <1>4, <1>5, <1>6 DEF Reconnected

\* ConnectFailed: the certificate probe may abort, the reconnect may be put off to the
\* slot; otherwise as Retry.
LEMMA ConnectFailedFacts ==
  ASSUME TypeOK, NEW c \in Conns, NEW k \in ConnectionType, SameAccount(conn[c], k), Live(c),
         Advances, ConnectFailed(c, k)
  PROVE  Handled(c)
<1> DEFINE probe(t) ==
             IF k.handshaking THEN WriteRequest(k, now, t) ELSE {Outcome(k, "ok", 0)}
           parks(k2) == LET parked == DeferReconnect(k2)
                        IN  /\ conn' = [conn EXCEPT ![c] = parked]
                            /\ pacing' = pacing \cup PacingEntry(c, parked)
           ends(o) == \/ Abort("tls_error")
                      \/ /\ parks(o.conn)
                         /\ Count(c, "connect", 0, 0)
                         /\ UNCHANGED <<pc, active, deadlines>>
                      \/ Retry(c, o.conn, deadlines)
<1>0. PICK t \in now..now' : \E o \in probe(t) : ends(o)
  BY Zenon DEF ConnectFailed
<1>1. PICK o \in probe(t) : ends(o)
  BY <1>0
<1>2. /\ now \in Nat /\ t \in Nat /\ pacing \subseteq Timers /\ deadlines \subseteq Timers
      /\ "connect" \in Kinds /\ 0 \in Nat /\ conn[c] \in ConnectionType
  BY DEF TypeOK, Kinds, Advances
<1>3. o.conn \in ConnectionType /\ SameAccount(conn[c], o.conn)
  <2>1. CASE k.handshaking
    BY <1>2, <2>1, WriteRequestFacts DEF SameAccount
  <2>2. CASE ~k.handshaking
    BY <2>2 DEF Outcome
  <2>3. QED
    BY <2>1, <2>2
<1> HIDE DEF probe
<1>4. CASE Abort("tls_error")
  BY <1>4 DEF Abort, Handled, timers, counters
<1>5. CASE parks(o.conn) /\ Count(c, "connect", 0, 0) /\ UNCHANGED <<pc, active, deadlines>>
  <2> DEFINE parked == DeferReconnect(o.conn)
  <2>1. parked \in ConnectionType /\ SameAccount(conn[c], parked)
    BY <1>3, DeferReconnectFacts DEF SameAccount
  <2> HIDE DEF parked
  <2>2. /\ conn' = [conn EXCEPT ![c] = parked]
        /\ pacing' = pacing \cup PacingEntry(c, parked)
        /\ Count(c, "connect", 0, 0)
        /\ UNCHANGED <<pc, active, deadlines>>
    BY <1>5 DEF parked
  <2>3. deadlines' \subseteq Timers /\ pacing' \subseteq Timers
    BY <1>2, <2>1, <2>2, EntryFacts
  <2>4. ~parked.done /\ Changes(conn[c], parked, 0, 0)
    BY <1>2, <2>1, FieldTypes DEF SameAccount, Live, Changes, SameRequest
  <2>5. Becomes(c, parked, 0, 0)
    BY <1>2, <2>2, <2>3, <2>4, CountFacts DEF Becomes, InTime
  <2>6. QED
    BY <1>2, <2>1, <2>5 DEF Handled
<1>6. CASE Retry(c, o.conn, deadlines)
  BY <1>2, <1>3, <1>6, RetryFacts
<1>7. QED
  BY <1>1, <1>4, <1>5, <1>6

\* A connection changed without touching its account or the counters.
LEMMA Unaccounted ==
  ASSUME TypeOK, NEW c \in Conns, Live(c), NEW r \in ConnectionType, SameAccount(conn[c], r),
         conn' = [conn EXCEPT ![c] = r], UNCHANGED <<pc, active, errors, abandoned, recovered>>,
         deadlines' \subseteq Timers, pacing' \subseteq Timers
  PROVE  Becomes(c, r, 0, 0) /\ ~r.done
<1>1. /\ conn[c] \in ConnectionType /\ errors \in [Conns -> [Kinds -> Nat]]
      /\ recovered \in [Conns -> Nat] /\ abandoned \in [Conns -> Nat]
  BY DEF TypeOK
<1>2. ~r.done /\ Changes(conn[c], r, 0, 0)
  BY <1>1, FieldTypes DEF SameAccount, Live, Changes, SameRequest
<1>3. recovered' = [recovered EXCEPT ![c] = @ + 0] /\ abandoned' = [abandoned EXCEPT ![c] = @ + 0]
  BY <1>1
<1>4. QED
  BY <1>1, <1>2, <1>3 DEF Becomes, InTime

\* A connection retired because its time is up, or its limit reached, without a failure.
LEMMA Retired ==
  ASSUME TypeOK, NEW c \in Conns, NEW r \in ConnectionType, r.done,
         Changes(conn[c], r, 0, 0), InTime(r, 0),
         conn' = [conn EXCEPT ![c] = r], active' = active - 1,
         UNCHANGED <<pc, errors, abandoned, recovered>>,
         deadlines' \subseteq Timers, pacing' \subseteq Timers
  PROVE  Becomes(c, r, 0, 0)
<1>1. /\ errors \in [Conns -> [Kinds -> Nat]]
      /\ recovered \in [Conns -> Nat] /\ abandoned \in [Conns -> Nat]
  BY DEF TypeOK
<1>2. recovered' = [recovered EXCEPT ![c] = @ + 0] /\ abandoned' = [abandoned EXCEPT ![c] = @ + 0]
  BY <1>1
<1>3. QED
  BY <1>1, <1>2 DEF Becomes

\* A connection that may not continue has run out.
LEMMA StoppedRanOut ==
  ASSUME NEW k \in ConnectionType, now \in Nat, Advances, ~ShouldContinue(k, now)
  PROVE  Changes(k, Stopped(k), 0, 0) /\ InTime(Stopped(k), 0)
<1>1. Fixed => k.completed >= k.limit
  BY FieldTypes DEF ShouldContinue
<1>2. ~Fixed => IsPastDeadline(now')
  BY DeadlineAssumption DEF ShouldContinue, IsPastDeadline, Fixed, Advances
<1>3. QED
  BY <1>1, <1>2, StoppedFacts DEF Changes, RanOut, InTime

\* A handler that only changes connection c, not its account, is a Handled step.
LEMMA UnaccountedHandled ==
  ASSUME TypeOK, NEW c \in Conns, Live(c), NEW r \in ConnectionType, SameAccount(conn[c], r),
         conn' = [conn EXCEPT ![c] = r], UNCHANGED <<pc, active, errors, abandoned, recovered>>,
         deadlines' \subseteq Timers, pacing' \subseteq Timers
  PROVE  Handled(c)
<1>1. Becomes(c, r, 0, 0)
  BY Unaccounted
<1>2. 0 \in Nat
  OBVIOUS
<1>3. QED
  BY <1>1, <1>2 DEF Handled

\* Every branch of an event of a live connection is a Handled step.
LEMMA EventFacts ==
  ASSUME TypeOK, NEW c \in Conns, Event(c)
  PROVE  /\ Live(c) /\ InLoop /\ Handled(c)
         /\ batch' \in [Conns -> SUBSET {"E", "W", "R"}]
         /\ Advances /\ UNCHANGED <<cursor, attempts>>
<1> DEFINE k == conn[c]
           Framed == /\ Live(c) /\ pc = "events"
                     /\ Advances /\ UNCHANGED <<cursor, attempts>>
                     /\ batch' \in [Conns -> SUBSET {"E", "W", "R"}]
<1>1. /\ k \in ConnectionType /\ SameAccount(k, k) /\ now \in Nat
      /\ deadlines \subseteq Timers /\ pacing \subseteq Timers
      /\ batch \in [Conns -> SUBSET {"E", "W", "R"}]
      /\ conn = [conn EXCEPT ![c] = k] /\ conn \in [Conns -> ConnectionType]
      /\ "read" \in Kinds /\ "write" \in Kinds
  BY DEF TypeOK, SameAccount, Kinds
<1>2. ASSUME NEW flag, Handling(c, flag),
             EventEnds(c) \/ batch' = [batch EXCEPT ![c] = @ \ {flag}]
      PROVE  Framed
  <2>1. now' \in now..Earlier(now + MaxGap, MaxTime)
    BY <1>2 DEF Handling
  <2>2. Advances
    BY <1>1, <2>1, BoundsAssumption DEF Advances, Earlier
  <2>3. QED
    BY <1>1, <1>2, <2>2 DEF Handling, EventEnds
<1>3. CASE ErrorSpurious(c)
  <2>1. Framed /\ UNCHANGED <<pc, conn, active, deadlines, pacing, errors, abandoned, recovered>>
    BY <1>2, <1>3 DEF ErrorSpurious, timers, counters
  <2>2. Handled(c)
    BY <1>1, <2>1, UnaccountedHandled
  <2>3. QED
    BY <2>1, <2>2 DEF InLoop
<1>4. CASE ErrorRecovers(c)
  <2>1. Framed /\ Recover(c, k, IF RequestIsWritten(k) THEN "read" ELSE "write", deadlines, now)
    BY <1>2, <1>4 DEF ErrorRecovers
  <2>2. Handled(c)
    BY <1>1, <2>1, RecoverFacts
  <2>3. QED
    BY <2>1, <2>2 DEF InLoop
<1>5. CASE ErrorReconnects(c) \/ WritableError(c)
  <2>1. Framed /\ ConnectFailed(c, k)
    BY <1>2, <1>5 DEF ErrorReconnects, WritableError
  <2>2. Handled(c)
    BY <1>1, <2>1, ConnectFailedFacts
  <2>3. QED
    BY <2>1, <2>2 DEF InLoop
<1>6. CASE WritableStops(c)
  <2>1. /\ Framed /\ ~ShouldContinue(k, now)
        /\ Retire(c, Stopped(k), deadlines) /\ UNCHANGED <<errors, abandoned, recovered>>
    BY <1>2, <1>6 DEF WritableStops, IsExpired, counters
  <2>2. Becomes(c, Stopped(k), 0, 0)
    BY <1>1, <2>1, StoppedRanOut, StoppedFacts, Retired DEF Retire
  <2>3. Handled(c)
    BY <1>1, <2>2, StoppedFacts DEF Handled
  <2>4. QED
    BY <2>1, <2>3 DEF InLoop
<1>7. CASE WritableWrites(c)
  <2>1. Framed /\ UNCHANGED <<pc, active, errors, abandoned, recovered>>
    BY <1>2, <1>7 DEF WritableWrites, counters
  <2>0. PICK o \in WriteRequest(k, now, now') : \E r \in RefreshInterest(o.conn, now') :
          IF r.timer_generation # k.timer_generation
          THEN Rearm(c, r, deadlines, pacing)
          ELSE conn' = [conn EXCEPT ![c] = r] /\ UNCHANGED timers
    BY <1>7, Zenon DEF WritableWrites
  <2>2. PICK r \in RefreshInterest(o.conn, now') :
          IF r.timer_generation # k.timer_generation
          THEN Rearm(c, r, deadlines, pacing)
          ELSE conn' = [conn EXCEPT ![c] = r] /\ UNCHANGED timers
    BY <2>0, Zenon
  <2>8. now' \in Nat
    BY <2>1 DEF Advances
  <2>3. o.conn \in ConnectionType /\ SameAccount(k, o.conn)
    BY <1>1, <2>8, WriteRequestFacts
  <2>4. r \in ConnectionType /\ SameAccount(k, r)
    BY <1>1, <2>1, <2>3, RefreshInterestFacts DEF SameAccount, Advances
  <2>5. conn' = [conn EXCEPT ![c] = r] /\ deadlines' \subseteq Timers /\ pacing' \subseteq Timers
    BY <1>1, <2>2, <2>4, EntryFacts DEF Rearm, timers
  <2>6. Handled(c)
    BY <2>1, <2>4, <2>5, UnaccountedHandled
  <2>7. QED
    BY <2>1, <2>6 DEF InLoop
<1>8. CASE WritableFails(c)
  <2>1. Framed
    BY <1>2, <1>8 DEF WritableFails
  <2>0. PICK t \in now..now' : \E o \in WriteRequest(k, now, t) :
          \/ Abort("tls_error")
          \/ Retry(c, o.conn, deadlines)
          \/ Recover(c, o.conn, "write", deadlines, t)
    BY <1>8, Zenon DEF WritableFails
  <2>8. t \in Nat
    BY <1>1, <2>1 DEF Advances
  <2>2. PICK o \in WriteRequest(k, now, t) :
          \/ Abort("tls_error")
          \/ Retry(c, o.conn, deadlines)
          \/ Recover(c, o.conn, "write", deadlines, t)
    BY <2>0
  <2>3. o.conn \in ConnectionType /\ SameAccount(k, o.conn)
    BY <1>1, <2>8, WriteRequestFacts
  <2>4. CASE Abort("tls_error")
    BY <2>1, <2>4 DEF Abort, Handled, timers, counters, InLoop
  <2>5. CASE Retry(c, o.conn, deadlines)
    BY <1>1, <2>1, <2>3, <2>5, RetryFacts DEF InLoop
  <2>6. CASE Recover(c, o.conn, "write", deadlines, t)
    BY <1>1, <2>1, <2>3, <2>6, <2>8, RecoverFacts DEF InLoop
  <2>7. QED
    BY <2>2, <2>4, <2>5, <2>6
<1>9. CASE ReadableWaits(c)
  <2>1. Framed /\ UNCHANGED <<pc, active, deadlines, pacing, errors, abandoned, recovered>>
    BY <1>2, <1>9 DEF ReadableWaits, timers, counters
  <2>0. PICK o \in ReadResponse(k) :
          \E r \in RefreshInterest(o.conn, now') : conn' = [conn EXCEPT ![c] = r]
    BY <1>9, Zenon DEF ReadableWaits
  <2>2. PICK r \in RefreshInterest(o.conn, now') : conn' = [conn EXCEPT ![c] = r]
    BY <2>0, Zenon
  <2>3. o.conn \in ConnectionType /\ SameAccount(k, o.conn)
    BY <1>1, ReadResponseFacts
  <2>4. r \in ConnectionType /\ SameAccount(k, r)
    BY <1>1, <2>1, <2>3, RefreshInterestFacts DEF SameAccount, Advances
  <2>5. Handled(c)
    BY <1>1, <2>1, <2>2, <2>4, UnaccountedHandled
  <2>6. QED
    BY <2>1, <2>5 DEF InLoop
<1>10. CASE ReadableFails(c)
  <2>1. Framed
    BY <1>2, <1>10 DEF ReadableFails
  <2>2. PICK o \in ReadResponse(k) :
          ConnectFailed(c, o.conn) \/ Recover(c, o.conn, "read", deadlines, now)
    BY <1>10, Zenon DEF ReadableFails
  <2>3. o.conn \in ConnectionType /\ SameAccount(k, o.conn)
    BY <1>1, ReadResponseFacts
  <2>4. CASE ConnectFailed(c, o.conn)
    BY <1>1, <2>1, <2>3, <2>4, ConnectFailedFacts DEF InLoop
  <2>5. CASE Recover(c, o.conn, "read", deadlines, now)
    BY <1>1, <2>1, <2>3, <2>5, RecoverFacts DEF InLoop
  <2>6. QED
    BY <2>2, <2>4, <2>5
<1>11. CASE ReadableMalformed(c)
  <2>1. Framed /\ Abort("protocol_error")
    BY <1>2, <1>11 DEF ReadableMalformed
  <2>2. QED
    BY <2>1 DEF Abort, Handled, timers, counters, InLoop
<1>12. CASE ReadableCompletes(c)
  <2>1. Framed
    BY <1>2, <1>12 DEF ReadableCompletes
  <2>0. PICK o \in ReadResponse(k) : \E f \in FinishResponse(o.conn, o.ret = "close", now, now') :
          \/ f.ret = "done" /\ Retire(c, f.conn, deadlines) /\ UNCHANGED counters
          \/ f.ret = "more" /\ Rearm(c, f.conn, deadlines, pacing)
             /\ UNCHANGED <<pc, active, counters>>
          \/ f.ret = "err" /\ Abort("io_error")
    BY <1>12, Zenon DEF ReadableCompletes
  <2>2. PICK f \in FinishResponse(o.conn, o.ret = "close", now, now') :
          \/ f.ret = "done" /\ Retire(c, f.conn, deadlines) /\ UNCHANGED counters
          \/ f.ret = "more" /\ Rearm(c, f.conn, deadlines, pacing)
             /\ UNCHANGED <<pc, active, counters>>
          \/ f.ret = "err" /\ Abort("io_error")
    BY <2>0, Zenon
  <2>3. o.conn \in ConnectionType /\ SameAccount(k, o.conn)
    BY <1>1, ReadResponseFacts
  <2>4. (o.ret = "close") \in BOOLEAN
    OBVIOUS
  <2>5. Answered(o.conn, f, now')
    BY <1>1, <2>1, <2>3, <2>4, FinishResponseFacts DEF Advances
  <2>6. CASE f.ret = "done"
    <3>1. /\ f.conn \in ConnectionType /\ f.conn.done /\ Changes(k, f.conn, 0, 0)
          /\ InTime(f.conn, 0)
      BY <2>3, <2>5, <2>6 DEF Answered, SameAccount, Changes, OneMore, InTime
    <3>2. Retire(c, f.conn, deadlines) /\ UNCHANGED <<errors, abandoned, recovered>>
      BY <2>2, <2>6 DEF counters
    <3>3. Becomes(c, f.conn, 0, 0)
      BY <1>1, <3>1, <3>2, Retired DEF Retire
    <3>4. QED
      BY <2>1, <3>1, <3>3 DEF Handled, InLoop
  <2>7. CASE f.ret = "more"
    <3>1. f.conn \in ConnectionType /\ ~f.conn.done /\ Changes(k, f.conn, 0, 0)
      BY <2>1, <2>3, <2>5, <2>7 DEF Answered, SameAccount, Changes, OneMore, Live
    <3>2. Rearm(c, f.conn, deadlines, pacing)
          /\ UNCHANGED <<pc, active, errors, abandoned, recovered>>
      BY <2>2, <2>7 DEF counters
    <3>3. deadlines' \subseteq Timers /\ pacing' \subseteq Timers
      BY <1>1, <3>1, <3>2, EntryFacts DEF Rearm
    <3>4. /\ errors \in [Conns -> [Kinds -> Nat]]
          /\ recovered' = [recovered EXCEPT ![c] = @ + 0]
          /\ abandoned' = [abandoned EXCEPT ![c] = @ + 0]
      BY <3>2 DEF TypeOK
    <3>5. Becomes(c, f.conn, 0, 0)
      BY <3>1, <3>2, <3>3, <3>4 DEF Becomes, Rearm, InTime
    <3>6. QED
      BY <2>1, <3>1, <3>5 DEF Handled, InLoop
  <2>8. CASE f.ret = "err"
    BY <2>1, <2>2, <2>8 DEF Abort, Handled, timers, counters, InLoop
  <2>9. QED
    BY <2>5, <2>6, <2>7, <2>8 DEF Answered
<1>13. QED
  BY <1>3, <1>4, <1>5, <1>6, <1>7, <1>8, <1>9, <1>10, <1>11, <1>12 DEF Event

\* A Handled step inside the loop is one of the two shapes.
LEMMA HandledShape ==
  ASSUME TypeOK, NEW c \in Conns, Live(c), InLoop, Handled(c), Advances,
         UNCHANGED <<cursor, attempts>>,
         batch' \in [Conns -> SUBSET {"E", "W", "R"}]
  PROVE  Control \/ \E r \in ConnectionType, n, lost \in Nat : Touch(c, r, n, lost)
<1>1. now' \in Nat /\ now <= now' /\ deadlines \subseteq Timers /\ pacing \subseteq Timers
  BY DEF TypeOK, Advances
<1>2. CASE /\ pc' \in {"io_error", "tls_error", "protocol_error"}
           /\ UNCHANGED <<conn, active, deadlines, pacing, errors, abandoned, recovered>>
  BY <1>1, <1>2 DEF Control, Surroundings
<1>3. ASSUME NEW r \in ConnectionType, NEW n \in Nat, NEW lost \in Nat, Becomes(c, r, n, lost)
      PROVE  Touch(c, r, n, lost)
  BY <1>1, <1>3 DEF Touch, Becomes, Surroundings
<1>4. QED
  BY <1>2, <1>3, Zenon DEF Handled

\* Draining the heaps: every step moves control or touches the connection of the entry.
LEMMA DrainFacts ==
  ASSUME TypeOK, Draining
  PROVE  \/ Control
         \/ \E c \in Conns, r \in ConnectionType, n, lost \in Nat : Touch(c, r, n, lost)
<1>1. /\ now \in Nat /\ deadlines \subseteq Timers /\ pacing \subseteq Timers
      /\ batch \in [Conns -> SUBSET {"E", "W", "R"}] /\ conn \in [Conns -> ConnectionType]
      /\ "timeout" \in Kinds /\ 0 \in Nat
      /\ \A e \in Timers : e.token \in Conns
      /\ \A k : SameAccount(k, k)
  BY DEF TypeOK, Kinds, Timers, SameAccount
<1>2. CASE DeadlineStale \/ DeadlinesDone
  <2>1. deadlines' \subseteq Timers /\ pc = "deadlines" /\ pc' \in {pc, "pacing"}
        /\ UNCHANGED <<cursor, attempts, conn, active, batch, pacing, errors, abandoned,
                       recovered, now>>
    BY <1>1, <1>2 DEF DeadlineStale, DeadlinesDone, DeadlineDue, timers, counters
  <2>2. QED
    BY <1>1, <2>1 DEF Control, Surroundings, InLoop
<1>3. CASE PaceStale \/ PacingDone
  <2>1. pacing' \subseteq Timers /\ pc = "pacing" /\ pc' \in {pc, "poll"}
        /\ UNCHANGED <<cursor, attempts, conn, active, batch, deadlines, errors, abandoned,
                       recovered, now>>
    BY <1>1, <1>3 DEF PaceStale, PacingDone, PaceDue, timers, counters
  <2>2. QED
    BY <1>1, <2>1 DEF Control, Surroundings, InLoop
<1>4. ASSUME NEW c \in Conns, Live(c), InLoop, Handled(c), UNCHANGED <<cursor, attempts, batch, now>>
      PROVE  \/ Control
             \/ \E r \in ConnectionType, n, lost \in Nat : Touch(c, r, n, lost)
  BY <1>1, <1>4, HandledShape DEF Advances
<1>5. CASE DeadlineStops
  <2>1. PICK e \in deadlines :
          /\ DeadlineDue(e) /\ Current(e) /\ Expire(conn[e.token], now) = "stopped"
          /\ Retire(e.token, Stopped(conn[e.token]), deadlines \ {e})
          /\ UNCHANGED counters
    BY <1>5, Zenon DEF DeadlineStops
  <2> DEFINE c == e.token
  <2>2. /\ c \in Conns /\ Live(c) /\ InLoop /\ conn[c] \in ConnectionType
        /\ UNCHANGED <<cursor, attempts, batch, now, errors, abandoned, recovered>>
    BY <1>1, <2>1 DEF DeadlineDue, Current, InLoop, counters
  <2>3. ~ShouldContinue(conn[c], now)
    BY <2>1 DEF Expire
  <2>4. Retire(c, Stopped(conn[c]), deadlines \ {e})
    BY <2>1
  <2> HIDE DEF c
  <2>5. Becomes(c, Stopped(conn[c]), 0, 0)
    <3>1. Advances
      BY <1>1, <2>2 DEF Advances
    <3>2. Changes(conn[c], Stopped(conn[c]), 0, 0) /\ InTime(Stopped(conn[c]), 0)
      BY <1>1, <2>2, <2>3, <3>1, StoppedRanOut
    <3>3. QED
      BY <1>1, <2>2, <2>4, <3>2, StoppedFacts, Retired DEF Retire
  <2>6. Handled(c)
    BY <1>1, <2>2, <2>5, StoppedFacts DEF Handled
  <2>7. QED
    BY <1>4, <2>2, <2>6
<1>6. CASE RequestTimesOut
  <2>1. PICK e \in deadlines :
          /\ DeadlineDue(e) /\ Current(e)
          /\ Recover(e.token, conn[e.token], "timeout", deadlines \ {e}, now)
    BY <1>6, Zenon DEF RequestTimesOut
  <2> DEFINE c == e.token
  <2>2. /\ c \in Conns /\ Live(c) /\ InLoop /\ conn[c] \in ConnectionType
        /\ UNCHANGED <<cursor, attempts, batch, now>>
    BY <1>1, <2>1 DEF DeadlineDue, Current, InLoop
  <2>3. Recover(c, conn[c], "timeout", deadlines \ {e}, now) /\ deadlines \ {e} \subseteq Timers
    BY <1>1, <2>1
  <2> HIDE DEF c
  <2>4. Handled(c)
    BY <1>1, <2>2, <2>3, RecoverFacts DEF Advances
  <2>5. QED
    BY <1>4, <2>2, <2>4
<1>7. CASE ConnectionTimesOut
  <2>1. PICK e \in deadlines :
          /\ DeadlineDue(e) /\ Current(e)
          /\ Retry(e.token, conn[e.token], deadlines \ {e})
    BY <1>7, Zenon DEF ConnectionTimesOut
  <2> DEFINE c == e.token
  <2>2. /\ c \in Conns /\ Live(c) /\ InLoop /\ conn[c] \in ConnectionType
        /\ UNCHANGED <<cursor, attempts, batch, now>>
    BY <1>1, <2>1 DEF DeadlineDue, Current, InLoop
  <2>3. Retry(c, conn[c], deadlines \ {e}) /\ deadlines \ {e} \subseteq Timers
    BY <1>1, <2>1
  <2> HIDE DEF c
  <2>4. Handled(c)
    BY <1>1, <2>2, <2>3, RetryFacts DEF Advances
  <2>5. QED
    BY <1>4, <2>2, <2>4
<1>8. CASE PaceStops
  <2>1. PICK e \in pacing :
          /\ PaceDue(e) /\ Current(e) /\ IsExpired(conn[e.token], now)
          /\ conn' = [conn EXCEPT ![e.token] = Stopped(@)]
          /\ active' = active - 1
          /\ pacing' = pacing \ {e}
          /\ UNCHANGED pc
    BY <1>8, Zenon DEF PaceStops
  <2> DEFINE c == e.token
  <2>2. /\ c \in Conns /\ Live(c) /\ InLoop /\ conn[c] \in ConnectionType
        /\ UNCHANGED <<cursor, attempts, batch, now, deadlines, errors, abandoned, recovered>>
    BY <1>1, <2>1 DEF PaceDue, Current, InLoop, counters
  <2>3. ~ShouldContinue(conn[c], now)
    BY <2>1 DEF IsExpired
  <2>4. conn' = [conn EXCEPT ![c] = Stopped(conn[c])]
    BY <2>1
  <2> HIDE DEF c
  <2>5. Becomes(c, Stopped(conn[c]), 0, 0)
    <3>1. Advances
      BY <1>1, <2>2 DEF Advances
    <3>2. Changes(conn[c], Stopped(conn[c]), 0, 0) /\ InTime(Stopped(conn[c]), 0)
      BY <1>1, <2>2, <2>3, <3>1, StoppedRanOut
    <3>3. QED
      BY <1>1, <2>1, <2>2, <2>4, <3>2, StoppedFacts, Retired
  <2>6. Handled(c)
    BY <1>1, <2>2, <2>5, StoppedFacts DEF Handled
  <2>7. QED
    BY <1>4, <2>2, <2>6
<1>9. CASE PaceResumes
  <2>1. PICK e \in pacing :
          /\ PaceDue(e) /\ Current(e)
          /\ pacing' = pacing \ {e}
          /\ UNCHANGED active
          /\ \E o \in ResumeAtPace(conn[e.token], now) :
               \/ o.ret = "ok" /\ conn' = [conn EXCEPT ![e.token] = o.conn] /\ UNCHANGED pc
               \/ o.ret = "err" /\ pc' = "io_error" /\ UNCHANGED conn
    BY <1>9, Zenon DEF PaceResumes
  <2> DEFINE c == e.token
  <2>2. /\ c \in Conns /\ Live(c) /\ InLoop /\ conn[c] \in ConnectionType
        /\ UNCHANGED <<cursor, attempts, batch, now, deadlines, active, errors, abandoned, recovered>>
        /\ deadlines' \subseteq Timers /\ pacing' \subseteq Timers
    BY <1>1, <2>1 DEF PaceDue, Current, InLoop, counters
  <2>3. PICK o \in ResumeAtPace(conn[c], now) :
               \/ o.ret = "ok" /\ conn' = [conn EXCEPT ![c] = o.conn] /\ UNCHANGED pc
               \/ o.ret = "err" /\ pc' = "io_error" /\ UNCHANGED conn
    BY <2>1, Zenon
  <2> HIDE DEF c
  <2>4. o.conn \in ConnectionType /\ SameAccount(conn[c], o.conn)
    BY <1>1, <2>2, ResumeAtPaceFacts
  <2>5. CASE o.ret = "ok"
    <3>1. Handled(c)
      BY <2>2, <2>3, <2>4, <2>5, UnaccountedHandled
    <3>2. QED
      BY <1>4, <2>2, <3>1
  <2>6. CASE o.ret = "err"
    BY <1>1, <2>2, <2>3, <2>6 DEF Control, Surroundings
  <2>7. QED
    BY <2>3, <2>5, <2>6
<1>10. QED
  BY <1>2, <1>3, <1>5, <1>6, <1>7, <1>8, <1>9 DEF Draining

\* Every step of the specification has one of these shapes.
LEMMA NextShapes ==
  ASSUME TypeOK, [Next]_vars
  PROVE  \/ OpenConnection \/ OpenGivesUpAtDeadline \/ OpenFails \/ EnterLoop
         \/ Control
         \/ \E c \in Conns, r \in ConnectionType, n, lost \in Nat : Touch(c, r, n, lost)
<1>1. /\ now \in Nat /\ deadlines \subseteq Timers /\ pacing \subseteq Timers
      /\ batch \in [Conns -> SUBSET {"E", "W", "R"}] /\ conn \in [Conns -> ConnectionType]
  BY DEF TypeOK
<1>2. CASE LeaveLoop
  BY <1>1, <1>2 DEF LeaveLoop, Control, Surroundings, InLoop, timers, counters
<1>3. CASE Poll
  <2>1. deadlines' \subseteq Timers /\ pacing' \subseteq Timers
    BY <1>1, <1>3 DEF Poll, DiscardStaleDeadlines, DiscardStalePacing
  <2>2. batch' \in [Conns -> SUBSET {"E", "W", "R"}]
    BY <1>3 DEF Poll
  <2>3. QED
    BY <1>1, <1>3, <2>1, <2>2 DEF Poll, Control, Surroundings, InLoop, counters
<1>4. ASSUME NEW c \in Conns, Event(c)
      PROVE  \/ Control
             \/ \E d \in Conns, r \in ConnectionType, n, lost \in Nat : Touch(d, r, n, lost)
  <2>1. /\ Live(c) /\ InLoop /\ Handled(c) /\ Advances
        /\ UNCHANGED <<cursor, attempts>>
        /\ batch' \in [Conns -> SUBSET {"E", "W", "R"}]
    BY <1>4, EventFacts
  <2>2. QED
    BY <2>1, HandledShape
<1>5. CASE EventsDone
  BY <1>1, <1>5 DEF EventsDone, Control, Surroundings, InLoop, timers, counters
<1>6. CASE Tick
  BY <1>1, <1>6 DEF Tick, Control, Surroundings, timers, counters
<1>7. CASE Finished \/ UNCHANGED vars
  BY <1>1, <1>7 DEF Finished, vars, Control, Surroundings
<1>8. ASSUME NEW c \in Conns, Establish(c)
      PROVE  \E r \in ConnectionType, n, lost \in Nat : Touch(c, r, n, lost)
  <2> DEFINE r == [conn[c] EXCEPT !.established = TRUE]
  <2>1. conn[c] \in ConnectionType
    BY <1>1
  <2>2. r \in ConnectionType /\ SameAccount(conn[c], r)
    BY <2>1 DEF ConnectionType, SameAccount
  <2>3. /\ Live(c) /\ conn' = [conn EXCEPT ![c] = r]
        /\ UNCHANGED <<pc, cursor, attempts, active, batch, deadlines, pacing, errors,
                       abandoned, recovered, now>>
    BY <1>8 DEF Establish, timers, counters
  <2> HIDE DEF r
  <2>4. Becomes(c, r, 0, 0) /\ ~r.done
    BY <1>1, <2>2, <2>3, Unaccounted
  <2>5. Touch(c, r, 0, 0)
    BY <1>1, <1>8, <2>3, <2>4 DEF Touch, Surroundings, Establish, TimePasses, InLoop
  <2>6. QED
    BY <2>2, <2>5
<1>9. QED
  BY <1>2, <1>3, <1>4, <1>5, <1>6, <1>7, <1>8, DrainFacts DEF Next, Work, Opening

(***************************************************************************)
(* Type correctness.                                                       *)
(***************************************************************************)
\* The initial state is well typed.
LEMMA InitTypes == Init => TypeOK
<1> SUFFICES ASSUME Init PROVE TypeOK
  OBVIOUS
<1>1. \A c \in Conns : Unopened(Limits[c]) \in ConnectionType
  BY LimitsAssumption, UnopenedFacts DEF Conns
<1>2. conn \in [Conns -> ConnectionType]
  BY <1>1 DEF Init
<1>3. QED
  BY <1>2 DEF Init, TypeOK

\* Every step keeps the types.
LEMMA NextTypes == TypeOK /\ [Next]_vars => TypeOK'
<1> SUFFICES ASSUME TypeOK, [Next]_vars PROVE TypeOK'
  OBVIOUS
<1>1. CASE OpenConnection
  <2>1. PICK a \in ConnectFrom(0), slot \in Slots(now) :
          conn' = [conn EXCEPT ![cursor] = Connect(Limits[cursor], a, slot, now)]
    BY <1>1, Zenon DEF OpenConnection
  <2>2. cursor \in Conns /\ Limits[cursor] \in Nat /\ now \in Nat
    BY <1>1, LimitsAssumption DEF OpenConnection, Conns, TypeOK
  <2>3. Connect(Limits[cursor], a, slot, now) \in ConnectionType
    BY <2>2, ConnectFacts
  <2>4. conn' \in [Conns -> ConnectionType]
    BY <2>1, <2>3 DEF TypeOK
  <2>5. QED
    BY <1>1, <2>4 DEF OpenConnection, TypeOK, timers, counters
<1>2. CASE OpenGivesUpAtDeadline \/ OpenFails
  <2>1. cursor \in Conns /\ Limits[cursor] \in Nat /\ "connect" \in Kinds
    BY <1>2, LimitsAssumption DEF OpenGivesUpAtDeadline, OpenFails, Conns, Kinds
  <2>2. errors' = [errors EXCEPT ![cursor]["connect"] = @ + 1]
    BY <1>2 DEF OpenGivesUpAtDeadline, OpenFails
  <2>3. errors' \in [Conns -> [Kinds -> Nat]]
    BY <2>1, <2>2 DEF TypeOK
  <2>4. abandoned' \in [Conns -> Nat] /\ cursor' \in Nat \ {0} /\ attempts' \in Nat
    BY <1>2, <2>1 DEF OpenGivesUpAtDeadline, OpenFails, TypeOK
  <2>5. /\ UNCHANGED <<conn, active, batch, deadlines, pacing, recovered, now>>
        /\ pc' \in {pc, "ok"}
    BY <1>2 DEF OpenGivesUpAtDeadline, OpenFails, timers
  <2>6. QED
    BY <2>3, <2>4, <2>5 DEF TypeOK, Returned
<1>3. CASE EnterLoop
  <2>1. \A c \in Conns : /\ DeadlineEntry(c, conn[c]) \subseteq Timers
                         /\ PacingEntry(c, conn[c]) \subseteq Timers
    BY EntryFacts DEF TypeOK
  <2>2. deadlines' \subseteq Timers /\ pacing' \subseteq Timers
    BY <1>3, <2>1 DEF EnterLoop
  <2>3. active' \in Int
    <3>1. IsFiniteSet(Conns) /\ {c \in Conns : Live(c)} \subseteq Conns
      BY LimitsAssumption, FS_Interval DEF Conns
    <3>2. Cardinality({c \in Conns : Live(c)}) \in Nat
      BY <3>1, FS_Subset, FS_CardinalityType
    <3>3. QED
      BY <1>3, <3>2 DEF EnterLoop
  <2>4. QED
    BY <1>3, <2>2, <2>3 DEF EnterLoop, TypeOK, counters
<1>4. CASE Control
  BY <1>4 DEF Control, Surroundings, TypeOK, Returned, Errors
<1>5. ASSUME NEW c \in Conns, NEW r \in ConnectionType, NEW n \in Nat, NEW lost \in Nat,
             Touch(c, r, n, lost)
      PROVE  TypeOK'
  <2>1. conn' \in [Conns -> ConnectionType]
    BY <1>5 DEF Touch, Becomes, TypeOK
  <2>2. recovered' \in [Conns -> Nat] /\ abandoned' \in [Conns -> Nat]
    BY <1>5 DEF Touch, Becomes, TypeOK
  <2>3. active' \in Int
    BY <1>5 DEF Touch, Becomes, TypeOK
  <2>4. QED
    BY <1>5, <2>1, <2>2, <2>3 DEF Touch, Becomes, TypeOK, Surroundings
<1>6. QED
  BY <1>1, <1>2, <1>3, <1>4, <1>5, NextShapes

\* A worker keeps the types of its variables and well-formed connections (in particular
\* recovery_attempts never exceeds the budget and write_offset never the request).
THEOREM TypeCorrect == Spec => []TypeOK
<1>1. QED
  BY InitTypes, NextTypes, PTL DEF Spec

(***************************************************************************)
(* The accounting.                                                         *)
(***************************************************************************)
\* The inductive invariant.
Inv == TypeOK /\ Accounting /\ ActiveIsLive /\ NeverFallsThrough

\* One more answered request adds one budget.
LEMMA BudgetGrows ==
  ASSUME NEW b \in Nat, NEW n \in Nat
  PROVE  b * n \in Nat /\ b * (n + 1) = b * n + b
  OBVIOUS

\* The connections that are not done.
LiveConns == {c \in Conns : Live(c)}

\* The live connections can be counted.
LEMMA LiveConnsFinite == IsFiniteSet(LiveConns) /\ Cardinality(LiveConns) \in Nat
<1>1. IsFiniteSet(Conns) /\ LiveConns \subseteq Conns
  BY LimitsAssumption, FS_Interval DEF Conns, LiveConns
<1>2. QED
  BY <1>1, FS_Subset, FS_CardinalityType

\* When the count of live connections is zero, none is live.
LEMMA NoneLive == Cardinality(LiveConns) = 0 => \A c \in Conns : ~Live(c)
  BY LiveConnsFinite, FS_EmptySet DEF LiveConns

\* The account of the touched connection still balances.
LEMMA TouchBalances ==
  ASSUME Inv, Fixed, NEW c \in Conns, NEW r \in ConnectionType, NEW n \in Nat, NEW lost \in Nat,
         Touch(c, r, n, lost)
  PROVE  AccountOf(c)' /\ Opened(c)' /\ Opened(c)
<1> DEFINE k == conn[c]
<1>1. k \in ConnectionType /\ abandoned[c] \in Nat /\ recovered[c] \in Nat
  BY DEF Inv, TypeOK
<1>2. AccountOf(c) /\ Live(c)
  BY DEF Inv, Accounting, Touch
<1>3. /\ k.limit = Limits[c] /\ k.completed < k.limit /\ abandoned[c] = 0
      /\ k.drawn = k.completed + 1
      /\ recovered[c] <= RecoveryBudget * k.completed + k.recovery_attempts
  BY <1>2 DEF AccountOf
<1>4. /\ conn'[c] = r /\ abandoned'[c] = lost /\ recovered'[c] = recovered[c] + n
      /\ Changes(k, r, n, lost)
  BY <1>1, <1>3 DEF Touch, Becomes, Inv, TypeOK
<1>5. /\ k.completed \in Nat /\ k.limit \in Nat /\ k.drawn \in Nat
      /\ k.recovery_attempts \in 0..RecoveryBudget /\ r.recovery_attempts \in 0..RecoveryBudget
      /\ r.completed \in Nat /\ r.limit \in Nat /\ r.drawn \in Nat
      /\ RecoveryBudget \in Nat
  BY <1>1, FieldTypes, BudgetAssumption
<1>6. /\ RecoveryBudget * k.completed \in Nat
      /\ RecoveryBudget * (k.completed + 1) = RecoveryBudget * k.completed + RecoveryBudget
  BY <1>5, BudgetGrows
<1> HIDE DEF k
<1>7. CASE SameRequest(k, r, n, lost)
  <2>1. /\ r.completed = k.completed /\ r.drawn = k.drawn /\ r.limit = k.limit
        /\ r.recovery_attempts = k.recovery_attempts + n
        /\ r.done => r.recovery_attempts = RecoveryBudget /\ lost = k.limit - k.completed
        /\ ~r.done => lost = 0
    BY <1>3, <1>4, <1>7 DEF SameRequest, Changes, UnfinishedRequests
  <2>2. recovered[c] + n <= RecoveryBudget * r.completed + r.recovery_attempts
    BY <1>1, <1>3, <1>5, <1>6, <2>1
  <2>3. r.done => r.completed + lost = r.limit /\ r.drawn = Earlier(r.completed + 1, r.limit)
    <3>1. r.done => r.completed + lost = r.limit
      BY <1>3, <1>5, <2>1
    <3>2. r.drawn = r.completed + 1 /\ r.completed + 1 <= r.limit
      BY <1>3, <1>5, <2>1
    <3>3. QED
      BY <3>1, <3>2 DEF Earlier
  <2>4. Opened(c)' /\ Opened(c)
    BY <1>3, <1>4, <1>5, <2>1 DEF Opened, k
  <2>5. ~r.done => r.completed < r.limit /\ lost = 0 /\ r.drawn = r.completed + 1
    BY <1>3, <1>5, <2>1
  <2>6. r.limit = Limits[c] /\ (lost > 0 /\ r.done => r.recovery_attempts = RecoveryBudget)
    BY <1>3, <2>1
  <2>7. AccountOf(c)'
    BY <1>4, <2>2, <2>3, <2>5, <2>6, Zenon DEF AccountOf, Live
  <2>8. QED
    BY <2>4, <2>7
<1>8. CASE RanOut(k, r, n, lost)
  BY <1>3, <1>5, <1>8 DEF RanOut
<1>9. CASE OneMore(k, r, n, lost)
  <2>1. /\ r.completed = k.completed + 1 /\ r.recovery_attempts = 0 /\ r.limit = k.limit
        /\ n = 0 /\ lost = 0
        /\ r.done => r.drawn = k.drawn /\ k.completed + 1 >= k.limit
        /\ ~r.done => r.drawn = k.drawn + 1 /\ k.completed + 1 < k.limit
    BY <1>4, <1>9 DEF OneMore, Changes
  <2>2. recovered[c] + n <= RecoveryBudget * r.completed + r.recovery_attempts
    BY <1>1, <1>3, <1>5, <1>6, <2>1
  <2>3. r.done => r.completed + lost = r.limit /\ r.drawn = Earlier(r.completed + 1, r.limit)
    <3>1. r.done => r.completed = r.limit /\ lost = 0 /\ r.drawn = r.limit
      <4>1. k.completed + 1 <= k.limit
        BY <1>3, <1>5
      <4>2. r.done => r.completed = r.limit
        BY <1>5, <2>1, <4>1
      <4>3. r.done => r.drawn = k.completed + 1
        BY <1>3, <2>1
      <4>4. QED
        BY <2>1, <4>2, <4>3
    <3>2. ~(r.limit + 1 <= r.limit)
      BY <1>5
    <3>3. QED
      BY <1>5, <3>1, <3>2 DEF Earlier
  <2>4. Opened(c)' /\ Opened(c)
    BY <1>3, <1>4, <1>5, <2>1 DEF Opened, k
  <2>5. ~r.done => r.completed < r.limit /\ lost = 0 /\ r.drawn = r.completed + 1
    BY <1>3, <1>5, <2>1
  <2>6. r.limit = Limits[c] /\ (lost > 0 /\ r.done => r.recovery_attempts = RecoveryBudget)
    BY <1>3, <2>1
  <2>7. AccountOf(c)'
    BY <1>4, <2>2, <2>3, <2>5, <2>6, Zenon DEF AccountOf, Live
  <2>8. QED
    BY <2>4, <2>7
<1>10. QED
  BY <1>4, <1>7, <1>8, <1>9 DEF Changes

\* The initial state satisfies the inductive invariant.
LEMMA InitInv == Init => Inv
<1> SUFFICES ASSUME Init PROVE Inv
  OBVIOUS
<1>1. TypeOK
  BY InitTypes
<1>2. ASSUME NEW c \in Conns
      PROVE  /\ conn[c].limit = Limits[c] /\ conn[c].done /\ conn[c].completed = 0
             /\ conn[c].drawn = 0 /\ conn[c].recovery_attempts = 0
             /\ abandoned[c] = 0 /\ recovered[c] = 0 /\ errors[c]["connect"] = 0
             /\ c \in Nat /\ c >= 1
  <2>1. Limits[c] \in Nat /\ conn[c] = Unopened(Limits[c])
    BY LimitsAssumption DEF Init, Conns
  <2>2. QED
    BY <2>1, UnopenedFacts DEF Init, Kinds, Conns
<1>3. ASSUME NEW c \in Conns PROVE AccountOf(c)
  <2>1. RecoveryBudget * 0 = 0
    BY BudgetAssumption
  <2>2. QED
    BY <1>2, <2>1 DEF AccountOf, Live, Opened
<1>4. ASSUME NEW c \in Conns PROVE UnopenedAccount(c)
  BY <1>2 DEF UnopenedAccount, Live, Init
<1>5. pc = "connect" /\ OpenedInOrder
  BY <1>2 DEF OpenedInOrder, Opened, Live, Init
<1>6. QED
  BY <1>1, <1>3, <1>4, <1>5 DEF Inv, Accounting, ActiveIsLive, InLoop, NeverFallsThrough

\* Opening a connection, failing to, or giving it up.
LEMMA OpeningPreserves ==
  ASSUME Inv, TypeOK', OpenConnection \/ OpenFails
  PROVE  Inv'
<1>1. /\ pc = "connect" /\ pc' = "connect" /\ cursor \in Conns /\ cursor \in Nat
      /\ Limits[cursor] \in Nat \ {0}
  BY LimitsAssumption DEF OpenConnection, OpenFails, Conns
<1>2. /\ \A c \in Conns : c \in Nat
      /\ conn \in [Conns -> ConnectionType] /\ abandoned \in [Conns -> Nat]
      /\ recovered \in [Conns -> Nat] /\ errors \in [Conns -> [Kinds -> Nat]]
      /\ now \in Nat /\ attempts \in Nat /\ "connect" \in Kinds
  BY DEF Conns, Inv, TypeOK, Kinds
<1>0. PICK p \in Conns : p = cursor
  BY <1>1
<1>3. ~Opened(p) /\ (Fixed => AccountOf(p) /\ UnopenedAccount(p))
  BY <1>0, <1>1 DEF Inv, Accounting, OpenedInOrder
<1>4. /\ cursor' \in {cursor, cursor + 1}
      /\ \A c \in Conns \ {p} :
           /\ conn'[c] = conn[c] /\ abandoned'[c] = abandoned[c]
           /\ recovered'[c] = recovered[c] /\ errors'[c] = errors[c]
  BY <1>0, <1>2 DEF OpenConnection, OpenFails, counters
<1>6. ASSUME Fixed, NEW c \in Conns \ {p}
      PROVE  AccountOf(c)' /\ UnopenedAccount(c)'
  <2>0. c \in Nat /\ c # cursor
    BY <1>0, <1>2
  <2>1. AccountOf(c) /\ UnopenedAccount(c)
    BY <1>6 DEF Inv, Accounting
  <2>2. AccountOf(c)'
    BY <1>4, <2>1 DEF AccountOf, Live, Opened
  <2>3. UnopenedAccount(c)'
    <3>1. CASE cursor' = cursor
      BY <1>4, <2>0, <2>1, <3>1 DEF UnopenedAccount, Live, Opened
    <3>2. CASE cursor' = cursor + 1
      <4>1. attempts' = 0
        BY <1>1, <3>2 DEF OpenConnection, OpenFails
      <4>2. c < cursor <=> c < cursor'
        BY <1>1, <2>0, <3>2
      <4>3. ~Opened(c)' => ~Live(c)' /\ conn'[c].completed = 0 /\ conn'[c].recovery_attempts = 0
        BY <1>4, <2>1 DEF UnopenedAccount, Live, Opened
      <4>4. CASE c < cursor
        BY <1>4, <2>1, <4>2, <4>4 DEF UnopenedAccount, Live, Opened
      <4>5. CASE ~(c < cursor)
        BY <1>4, <2>0, <2>1, <4>1, <4>2, <4>3, <4>5 DEF UnopenedAccount, Opened
      <4>6. QED
        BY <4>4, <4>5
    <3>3. QED
      BY <1>4, <3>1, <3>2
  <2>4. QED
    BY <2>2, <2>3
<1>7. CASE OpenConnection
  <2>1. PICK a \in ConnectFrom(0), slot \in Slots(now) :
          conn' = [conn EXCEPT ![cursor] = Connect(Limits[cursor], a, slot, now)]
    BY <1>7, Zenon DEF OpenConnection
  <2> DEFINE r == Connect(Limits[cursor], a, slot, now)
  <2>2. /\ r.limit = Limits[cursor] /\ ~r.done /\ r.completed = 0 /\ r.drawn = 1
        /\ r.recovery_attempts = 0
    BY <1>1, <1>2, ConnectFacts
  <2> HIDE DEF r
  <2>3. conn'[p] = r
    BY <1>0, <1>1, <1>2, <2>1 DEF r
  <2>4. cursor' = cursor + 1 /\ UNCHANGED <<abandoned, recovered>>
    BY <1>7 DEF OpenConnection, counters
  <2>5. ASSUME Fixed PROVE AccountOf(p)' /\ UnopenedAccount(p)'
    <3>1. abandoned[p] = 0 /\ recovered[p] <= 0
      <4>1. abandoned[p] = 0 /\ conn[p].completed = 0 /\ conn[p].recovery_attempts = 0
        BY <1>0, <1>1, <1>3, <2>5 DEF UnopenedAccount
      <4>2. recovered[p] <= RecoveryBudget * 0 + 0
        BY <1>3, <2>5, <4>1 DEF AccountOf
      <4>3. QED
        BY <1>2, <4>1, <4>2, BudgetAssumption
    <3>2. RecoveryBudget * 0 + 0 = 0
      BY BudgetAssumption
    <3>3. AccountOf(p)'
      BY <1>0, <1>1, <2>2, <2>3, <2>4, <3>1, <3>2 DEF AccountOf, Live, Opened
    <3>4. UnopenedAccount(p)'
      BY <2>2, <2>3 DEF UnopenedAccount, Opened
    <3>5. QED
      BY <3>3, <3>4
  <2>6. OpenedInOrder'
    <3>1. ASSUME NEW c \in Conns, c >= cursor' PROVE ~Opened(c)'
      <4>1. c \in Conns \ {p} /\ c >= cursor
        BY <1>0, <1>1, <1>2, <2>4, <3>1
      <4>2. QED
        BY <1>4, <4>1 DEF Inv, Accounting, OpenedInOrder, Opened
    <3>2. ASSUME NEW c \in Conns, Live(c)' PROVE Opened(c)'
      <4>1. CASE c = p
        BY <2>2, <2>3, <4>1 DEF Opened
      <4>2. CASE c # p
        BY <1>4, <3>2, <4>2 DEF Inv, Accounting, OpenedInOrder, Opened, Live
      <4>3. QED
        BY <4>1, <4>2
    <3>3. QED
      BY <1>1, <3>1, <3>2 DEF OpenedInOrder
  <2>7. Accounting'
    BY <1>0, <1>1, <1>6, <2>5, <2>6 DEF Accounting
  <2>8. QED
    BY <1>1, <2>7 DEF Inv, ActiveIsLive, InLoop, NeverFallsThrough
<1>8. CASE OpenFails
  <2>1. UNCHANGED <<conn, recovered>>
    BY <1>8 DEF OpenFails
  <2>2. OpenedInOrder'
    <3>1. cursor' = cursor \/ cursor' = cursor + 1
      BY <1>8, Zenon DEF OpenFails
    <3>2. ASSUME NEW c \in Conns, c >= cursor' PROVE c >= cursor
      BY <1>0, <1>1, <1>2, <3>1, <3>2 DEF Conns
    <3>3. OpenedInOrder
      BY DEF Inv, Accounting
    <3>4. \A c \in Conns : Opened(c)' = Opened(c) /\ Live(c)' = Live(c)
      BY <2>1 DEF Opened, Live
    <3>5. pc' = "connect"
      BY <1>1
    <3>6. QED
      BY <3>2, <3>3, <3>4, <3>5 DEF OpenedInOrder
  <2>3. ASSUME Fixed PROVE AccountOf(p)' /\ UnopenedAccount(p)'
    <3>1. /\ abandoned[p] = 0 /\ ~Live(p) /\ conn[p].completed = 0
          /\ errors[p]["connect"] = attempts /\ conn[p].recovery_attempts = 0
      BY <1>0, <1>1, <1>3, <2>3 DEF UnopenedAccount
    <3>2. AccountOf(p)'
      BY <1>3, <2>1, <2>3, <3>1 DEF AccountOf, Live, Opened
    <3>3. errors'[p]["connect"] = attempts + 1
      BY <1>0, <1>1, <1>2, <1>8, <3>1 DEF OpenFails
    <3>4. CASE attempts + 1 = ConnectionAttempts
      <4>1. cursor' = cursor + 1 /\ abandoned'[p] = Limits[p] /\ p < cursor'
        BY <1>0, <1>1, <1>2, <1>8, <2>3, <3>1, <3>4 DEF OpenFails
      <4>2. UnopenedAccount(p)'
        BY <2>1, <3>1, <3>3, <3>4, <4>1 DEF UnopenedAccount, Live, Opened
      <4>3. QED
        BY <3>2, <4>2
    <3>5. CASE attempts + 1 # ConnectionAttempts
      <4>1. cursor' = cursor /\ abandoned' = abandoned /\ attempts' = attempts + 1
            /\ ~(p < cursor) /\ p = cursor
        BY <1>0, <1>1, <1>8, <2>3, <3>5 DEF OpenFails
      <4>2. UnopenedAccount(p)'
        BY <2>1, <3>1, <3>3, <4>1 DEF UnopenedAccount, Live, Opened
      <4>3. QED
        BY <3>2, <4>2
    <3>6. QED
      BY <3>4, <3>5
  <2>4. Accounting'
    BY <1>1, <1>6, <2>2, <2>3 DEF Accounting
  <2>5. QED
    BY <1>1, <2>4 DEF Inv, ActiveIsLive, InLoop, NeverFallsThrough
<1>9. QED
  BY <1>7, <1>8

\* Touching one connection.
LEMMA TouchPreserves ==
  ASSUME Inv, TypeOK', NEW c \in Conns, NEW r \in ConnectionType, NEW n \in Nat, NEW lost \in Nat,
         Touch(c, r, n, lost)
  PROVE  Inv'
<1>1. /\ Live(c) /\ UNCHANGED <<pc, cursor, attempts>>
      /\ conn \in [Conns -> ConnectionType] /\ abandoned \in [Conns -> Nat]
      /\ recovered \in [Conns -> Nat] /\ active \in Int
  BY DEF Touch, Becomes, Inv, TypeOK
<1>2. conn'[c] = r /\ (\A d \in Conns \ {c} :
           /\ conn'[d] = conn[d] /\ abandoned'[d] = abandoned[d]
           /\ recovered'[d] = recovered[d] /\ errors'[d] = errors[d])
  BY <1>1 DEF Touch, Becomes
<1>3. ASSUME Fixed, NEW d \in Conns
      PROVE  AccountOf(d)' /\ UnopenedAccount(d)'
  <2>1. CASE d = c
    BY <1>3, <2>1, TouchBalances DEF UnopenedAccount
  <2>2. CASE d # c
    BY <1>1, <1>2, <1>3, <2>2
    DEF Inv, Accounting, AccountOf, UnopenedAccount, Live, Opened
  <2>3. QED
    BY <2>1, <2>2
<1>4. OpenedInOrder'
  <2>1. ASSUME NEW d \in Conns, d >= cursor PROVE ~Opened(d)'
    <3>1. ~Opened(d)
      BY <2>1 DEF Inv, Accounting, OpenedInOrder
    <3>2. d # c
      BY <1>1, <3>1 DEF Inv, Accounting, OpenedInOrder
    <3>3. QED
      BY <1>2, <3>1, <3>2 DEF Opened
  <2>2. ASSUME NEW d \in Conns, Live(d)' PROVE Opened(d)'
    <3>1. CASE d # c
      BY <1>2, <2>2, <3>1 DEF Inv, Accounting, OpenedInOrder, Opened, Live
    <3>2. CASE d = c
      <4>1. ~r.done /\ conn[c].drawn > 0 /\ conn[c].drawn \in Nat
        BY <1>1, <1>2, <2>2, <3>2, FieldTypes DEF Live, Inv, Accounting, OpenedInOrder, Opened
      <4>2. r.drawn = conn[c].drawn \/ r.drawn = conn[c].drawn + 1
        BY <4>1 DEF Touch, Becomes, Changes, SameRequest, RanOut, OneMore
      <4>3. QED
        BY <1>2, <3>2, <4>1, <4>2 DEF Opened
    <3>3. QED
      BY <3>1, <3>2
  <2>3. QED
    BY <1>1, <2>1, <2>2 DEF OpenedInOrder, Inv, Accounting
<1>5. Fixed /\ pc' = "ok" => \A d \in Conns : ~Live(d)'
  BY <1>1 DEF Inv, Accounting
<1>6. Accounting'
  BY <1>3, <1>4, <1>5 DEF Accounting
<1>7. ActiveIsLive'
  <2>1. SUFFICES ASSUME InLoop' PROVE active' = Cardinality(LiveConns)'
    BY DEF ActiveIsLive, LiveConns
  <2>2. active = Cardinality(LiveConns)
    BY <1>1, <2>1 DEF Inv, ActiveIsLive, InLoop, LiveConns
  <2>3. CASE r.done
    <3>1. LiveConns' = LiveConns \ {c} /\ c \in LiveConns
      BY <1>1, <1>2, <2>3 DEF LiveConns, Live
    <3>2. Cardinality(LiveConns \ {c}) = Cardinality(LiveConns) - 1
      BY <3>1, LiveConnsFinite, FS_RemoveElement
    <3>3. QED
      BY <2>2, <2>3, <3>1, <3>2 DEF Touch, Becomes
  <2>4. CASE ~r.done
    <3>1. LiveConns' = LiveConns
      BY <1>1, <1>2, <2>4 DEF LiveConns, Live
    <3>2. QED
      BY <2>2, <2>4, <3>1 DEF Touch, Becomes
  <2>5. QED
    BY <2>3, <2>4
<1>8. QED
  BY <1>1, <1>6, <1>7 DEF Inv, NeverFallsThrough

\* Every step preserves the inductive invariant.
LEMMA NextInv == Inv /\ [Next]_vars => Inv'
<1> SUFFICES ASSUME Inv, [Next]_vars PROVE Inv'
  OBVIOUS
<1>1. TypeOK'
  BY NextTypes DEF Inv
<1>2. CASE OpenConnection \/ OpenFails
  BY <1>1, <1>2, OpeningPreserves
<1>3. CASE OpenGivesUpAtDeadline
  <2>1. ~Fixed /\ pc' = "ok" /\ UNCHANGED <<cursor, conn>>
    BY <1>3 DEF OpenGivesUpAtDeadline, IsPastDeadline
  <2>2. Accounting'
    BY <2>1 DEF Inv, Accounting, OpenedInOrder, Opened, Live, Fixed
  <2>3. QED
    BY <1>1, <2>1, <2>2 DEF Inv, ActiveIsLive, InLoop, NeverFallsThrough
<1>4. CASE EnterLoop
  <2>1. /\ pc = "connect" /\ cursor \notin Conns /\ pc' = "poll"
        /\ active' = Cardinality({c \in Conns : Live(c)})
        /\ UNCHANGED <<cursor, attempts, conn, errors, abandoned, recovered>>
    BY <1>4 DEF EnterLoop, counters
  <2>2. Accounting'
    BY <2>1 DEF Inv, Accounting, AccountOf, UnopenedAccount, OpenedInOrder, Opened, Live
  <2>3. ActiveIsLive'
    BY <2>1 DEF ActiveIsLive, Live
  <2>4. QED
    BY <1>1, <2>1, <2>2, <2>3 DEF Inv, NeverFallsThrough
<1>5. CASE Control
  <2>1. /\ UNCHANGED <<cursor, attempts, conn, active, errors, abandoned, recovered>>
        /\ \/ pc' = pc
           \/ InLoop /\ pc' \in {"poll", "events", "deadlines", "pacing",
                                 "io_error", "tls_error", "protocol_error"}
           \/ InLoop /\ active = 0 /\ pc' = "ok"
    BY <1>5 DEF Control
  <2>2. ActiveIsLive'
    BY <2>1 DEF Inv, ActiveIsLive, InLoop, Live
  <2>3. Fixed => \A c \in Conns : AccountOf(c)' /\ UnopenedAccount(c)'
    BY <2>1 DEF Inv, Accounting, AccountOf, UnopenedAccount, Opened, Live
  <2>4. OpenedInOrder'
    BY <2>1 DEF Inv, Accounting, OpenedInOrder, Opened, Live, InLoop
  <2>5. Fixed /\ pc' = "ok" => \A c \in Conns : ~Live(c)'
    <3>1. InLoop /\ active = 0 => \A c \in Conns : ~Live(c)
      BY NoneLive DEF Inv, ActiveIsLive, LiveConns
    <3>2. QED
      BY <2>1, <3>1 DEF Inv, Accounting, Live
  <2>6. Accounting'
    BY <2>3, <2>4, <2>5 DEF Accounting
  <2>7. NeverFallsThrough'
    BY <2>1 DEF Inv, NeverFallsThrough
  <2>8. QED
    BY <1>1, <2>2, <2>6, <2>7 DEF Inv
<1>6. ASSUME NEW c \in Conns, NEW r \in ConnectionType, NEW n \in Nat, NEW lost \in Nat,
             Touch(c, r, n, lost)
      PROVE  Inv'
  BY <1>1, <1>6, TouchPreserves
<1>7. QED
  BY <1>2, <1>3, <1>4, <1>5, <1>6, NextShapes DEF Inv

\* The inductive invariant holds: in every state of every run, each request is answered,
\* abandoned or still owed, and `active` counts the live connections.
THEOREM InvHolds == Spec => []Inv
<1>1. QED
  BY InitInv, NextInv, PTL DEF Spec

\* The inductive invariant implies each of the properties TLC checks.
LEMMA InvImplies ==
  Inv => /\ NothingLost /\ RecoveryWithinBudget /\ AbandonedOnlyExhausted
         /\ RetriesKeepTheRequest /\ ActiveIsLive /\ NeverFallsThrough /\ Accounting
<1> SUFFICES ASSUME Inv
             PROVE  /\ NothingLost /\ RecoveryWithinBudget /\ AbandonedOnlyExhausted
                    /\ RetriesKeepTheRequest
  BY Zenon DEF Inv
<1>1. ASSUME Fixed, NEW c \in Conns PROVE AccountOf(c) /\ UnopenedAccount(c)
  BY <1>1 DEF Inv, Accounting
<1>2. ASSUME Fixed, NEW c \in Conns
      PROVE  /\ conn[c].completed \in Nat /\ conn[c].limit \in Nat /\ conn[c].limit = Limits[c]
             /\ abandoned[c] \in Nat /\ cursor \in Nat \ {0} /\ c \in Nat
  <2>1. /\ conn[c] \in ConnectionType /\ abandoned[c] \in Nat /\ cursor \in Nat \ {0}
        /\ c \in Nat
    BY DEF Inv, TypeOK, Conns
  <2>2. conn[c].limit = Limits[c]
    BY <1>1, <1>2, Zenon DEF AccountOf
  <2>3. QED
    BY <2>1, <2>2, FieldTypes
<1>3. NothingLost
  <2>1. SUFFICES ASSUME Fixed, pc = "ok", NEW c \in Conns
                 PROVE  conn[c].completed + abandoned[c] = Limits[c]
    BY DEF NothingLost
  <2>2. ~Live(c) /\ cursor \notin Conns
    BY <2>1 DEF Inv, Accounting, OpenedInOrder
  <2>3. c < cursor
    BY <1>2, <2>1, <2>2, LimitsAssumption DEF Conns
  <2>4. CASE Opened(c)
    BY <1>1, <1>2, <2>1, <2>2, <2>4 DEF AccountOf
  <2>5. CASE ~Opened(c)
    <3>1. conn[c].completed = 0 /\ abandoned[c] = Limits[c]
      BY <1>1, <2>1, <2>3, <2>5 DEF UnopenedAccount
    <3>2. QED
      BY <1>2, <2>1, <3>1
  <2>6. QED
    BY <2>4, <2>5
<1>4. RecoveryWithinBudget
  BY <1>1, Zenon DEF RecoveryWithinBudget, AccountOf
<1>5. AbandonedOnlyExhausted
  <2>1. SUFFICES ASSUME Fixed, NEW c \in Conns, abandoned[c] > 0
                 PROVE  IF Opened(c) THEN conn[c].recovery_attempts = RecoveryBudget
                        ELSE errors[c]["connect"] = ConnectionAttempts
    BY DEF AbandonedOnlyExhausted
  <2>2. CASE Opened(c)
    BY <1>1, <1>2, <2>1, <2>2 DEF AccountOf
  <2>3. CASE ~Opened(c)
    BY <1>1, <1>2, <2>1, <2>3 DEF UnopenedAccount
  <2>4. QED
    BY <2>2, <2>3
<1>6. RetriesKeepTheRequest
  <2>1. SUFFICES ASSUME Fixed, NEW c \in Conns, Opened(c)
                 PROVE  conn[c].drawn = Earlier(conn[c].completed + 1, conn[c].limit)
    BY DEF RetriesKeepTheRequest
  <2>2. CASE Live(c)
    <3>1. conn[c].drawn = conn[c].completed + 1 /\ conn[c].completed + 1 <= conn[c].limit
      BY <1>1, <1>2, <2>1, <2>2 DEF AccountOf
    <3>2. QED
      BY <3>1 DEF Earlier
  <2>3. CASE ~Live(c)
    BY <1>1, <2>1, <2>3 DEF AccountOf
  <2>4. QED
    BY <2>2, <2>3
<1>7. QED
  BY <1>3, <1>4, <1>5, <1>6

\* A fixed-request worker that returns its summary has answered or abandoned every
\* request of every connection, whatever failed on the way (run_worker).
THEOREM RequestsAccounted == Spec => []NothingLost
<1>1. QED
  BY InvHolds, InvImplies, PTL

\* In every state each request is answered, abandoned or still owed.
THEOREM AccountsBalance == Spec => []Accounting
<1>1. QED
  BY InvHolds, InvImplies, PTL

\* The reported recovery_attempts stay within RecoveryBudget per logical request.
THEOREM RecoveryBounded == Spec => []RecoveryWithinBudget
<1>1. QED
  BY InvHolds, InvImplies, PTL

\* Nothing is abandoned before its budget, or the tries at opening, are used up.
THEOREM AbandonmentEarned == Spec => []AbandonedOnlyExhausted
<1>1. QED
  BY InvHolds, InvImplies, PTL

\* No retry or reconnect draws another request from the shared sequence.
THEOREM RequestsKept == Spec => []RetriesKeepTheRequest
<1>1. QED
  BY InvHolds, InvImplies, PTL

\* `while active > 0` is a test of whether any connection is live.
THEOREM ActiveCountsLive == Spec => []ActiveIsLive
<1>1. QED
  BY InvHolds, InvImplies, PTL

\* The `return Err` behind a failed recovery is unreachable.
THEOREM RecoveryNeverFallsThrough == Spec => []NeverFallsThrough
<1>1. QED
  BY InvHolds, InvImplies, PTL

(***************************************************************************)
(* The worker implements its contract, for every number of connections,    *)
(* limit, budget, timeout, deadline and pace: WorkerContract's initial     *)
(* states and steps are what the initial states and steps of Worker map    *)
(* to.                                                                     *)
(*                                                                         *)
(* The accounting invariant settles fixed-request runs.  A duration run    *)
(* needs one thing more (Timely): a connection that is done was stopped by *)
(* the deadline, so a loop with no live connection left ends after it.     *)
(***************************************************************************)
Timely ==
  /\ \A c \in Conns : ~Opened(c) => conn[c].completed = 0
  /\ ~Fixed => /\ \A c \in Conns : Opened(c) /\ ~Live(c) => IsPastDeadline(now)
               /\ \A c \in Conns : c < cursor => Opened(c)
               /\ InLoop => cursor \notin Conns

\* Time that is up stays up.
LEMMA PastStaysPast ==
  ASSUME now \in Nat, now' \in Nat, now <= now', IsPastDeadline(now)
  PROVE  IsPastDeadline(now)'
  BY DeadlineAssumption DEF IsPastDeadline, Fixed

\* Before anything is opened.
LEMMA InitTimely == Init => Timely
<1> SUFFICES ASSUME Init PROVE Timely
  OBVIOUS
<1>1. ASSUME NEW c \in Conns
      PROVE  conn[c].completed = 0 /\ ~Opened(c) /\ ~(c < cursor)
  <2>1. Limits[c] \in Nat /\ conn[c] = Unopened(Limits[c]) /\ cursor = 1
    BY LimitsAssumption DEF Init, Conns
  <2>2. QED
    BY <2>1, UnopenedFacts DEF Opened, Conns
<1>2. QED
  BY <1>1 DEF Timely, Init, InLoop

\* Touching one connection.
LEMMA TouchTimely ==
  ASSUME Inv, Timely, NEW c \in Conns, NEW r \in ConnectionType, NEW n \in Nat,
         NEW lost \in Nat, Touch(c, r, n, lost)
  PROVE  Timely'
<1>1. /\ conn \in [Conns -> ConnectionType] /\ conn' = [conn EXCEPT ![c] = r]
      /\ UNCHANGED <<pc, cursor>> /\ Changes(conn[c], r, n, lost) /\ InTime(r, lost)
      /\ Live(c) /\ now \in Nat /\ now' \in Nat /\ now <= now'
  BY DEF Touch, Becomes, Inv, TypeOK, Surroundings
<1>2. conn[c].drawn > 0 /\ conn[c].drawn \in Nat /\ r.drawn \in Nat
  BY <1>1, FieldTypes DEF Inv, Accounting, OpenedInOrder, Opened
<1>3. r.drawn > 0
  BY <1>1, <1>2 DEF Changes, SameRequest, RanOut, OneMore
<1>4. /\ conn'[c] = r
      /\ \A d \in Conns \ {c} : conn'[d] = conn[d]
  BY <1>1
<1>5. \A d \in Conns : ~Opened(d)' => conn'[d].completed = 0
  BY <1>3, <1>4 DEF Timely, Opened
<1>6. ASSUME ~Fixed
      PROVE  \A d \in Conns : Opened(d)' /\ ~Live(d)' => IsPastDeadline(now)'
  <2>1. IsPastDeadline(now) => IsPastDeadline(now)'
    BY <1>1, PastStaysPast
  <2>2. IsPastDeadline(now') <=> IsPastDeadline(now)'
    BY DEF IsPastDeadline
  <2>3. QED
    BY <1>1, <1>4, <1>6, <2>1, <2>2 DEF Timely, Opened, Live, InTime
<1>7. ASSUME ~Fixed PROVE \A d \in Conns : d < cursor' => Opened(d)'
  BY <1>1, <1>3, <1>4, <1>7 DEF Timely, Opened
<1>8. ~Fixed => (InLoop' => cursor' \notin Conns)
  BY <1>1 DEF Timely, InLoop
<1>9. QED
  BY <1>5, <1>6, <1>7, <1>8 DEF Timely

\* Every step keeps Timely.
LEMMA NextTimely == Inv /\ Timely /\ [Next]_vars => Timely'
<1> SUFFICES ASSUME Inv, Timely, [Next]_vars PROVE Timely'
  OBVIOUS
<1>0. /\ conn \in [Conns -> ConnectionType] /\ now \in Nat /\ cursor \in Nat \ {0}
      /\ \A c \in Conns : c \in Nat
  BY DEF Inv, TypeOK, Conns
<1>1. CASE OpenConnection
  <2>1. PICK a \in ConnectFrom(0), slot \in Slots(now) :
          conn' = [conn EXCEPT ![cursor] = Connect(Limits[cursor], a, slot, now)]
    BY <1>1, Zenon DEF OpenConnection
  <2>2. /\ cursor \in Conns /\ Limits[cursor] \in Nat /\ cursor' = cursor + 1
        /\ pc = "connect" /\ UNCHANGED <<pc, now>>
    BY <1>1, LimitsAssumption DEF OpenConnection, Conns
  <2> DEFINE r == Connect(Limits[cursor], a, slot, now)
  <2>3. ~r.done /\ r.completed = 0 /\ r.drawn = 1
    BY <1>0, <2>2, ConnectFacts
  <2> HIDE DEF r
  <2>4. conn'[cursor] = r /\ \A d \in Conns \ {cursor} : conn'[d] = conn[d]
    BY <1>0, <2>1, <2>2 DEF r
  <2>5. \A d \in Conns : ~Opened(d)' => conn'[d].completed = 0
    BY <2>3, <2>4 DEF Timely, Opened
  <2>6. ~Fixed => \A d \in Conns : Opened(d)' /\ ~Live(d)' => IsPastDeadline(now)'
    BY <2>2, <2>3, <2>4 DEF Timely, Opened, Live, IsPastDeadline
  <2>7. ~Fixed => \A d \in Conns : d < cursor' => Opened(d)'
    BY <1>0, <2>2, <2>3, <2>4 DEF Timely, Opened
  <2>8. QED
    BY <2>2, <2>5, <2>6, <2>7 DEF Timely, InLoop
<1>2. CASE OpenGivesUpAtDeadline
  BY <1>2 DEF OpenGivesUpAtDeadline, Timely, Opened, Live, InLoop, IsPastDeadline
<1>3. CASE OpenFails
  BY <1>3 DEF OpenFails, Timely, Opened, Live, InLoop, IsPastDeadline
<1>4. CASE EnterLoop
  BY <1>4 DEF EnterLoop, Timely, Opened, Live, InLoop, IsPastDeadline
<1>5. CASE Control
  <2>1. /\ UNCHANGED <<cursor, conn>> /\ now' \in Nat /\ now <= now'
        /\ InLoop' => InLoop
    BY <1>0, <1>5 DEF Control, Surroundings, InLoop
  <2>2. IsPastDeadline(now) => IsPastDeadline(now)'
    BY <1>0, <2>1, PastStaysPast
  <2>3. QED
    BY <2>1, <2>2 DEF Timely, Opened, Live
<1>6. ASSUME NEW c \in Conns, NEW r \in ConnectionType, NEW n \in Nat, NEW lost \in Nat,
             Touch(c, r, n, lost)
      PROVE  Timely'
  BY <1>6, TouchTimely
<1>7. QED
  BY <1>1, <1>2, <1>3, <1>4, <1>5, <1>6, NextShapes DEF Inv

(***************************************************************************)
(* The refinement mapping.                                                 *)
(***************************************************************************)
\* Responses recorded, as the contract sees them.
Answers == [c \in Conns |-> conn[c].completed]

\* The next answers, when connection c becomes r.
LEMMA AnswersStep ==
  ASSUME TypeOK, NEW c \in Conns, NEW r \in ConnectionType, conn' = [conn EXCEPT ![c] = r]
  PROVE  /\ r.completed = conn[c].completed => Answers' = Answers
         /\ r.completed = conn[c].completed + 1 => Answers' = [Answers EXCEPT ![c] = @ + 1]
<1>1. conn \in [Conns -> ConnectionType]
  BY DEF TypeOK
<1>2. \A d \in Conns : conn'[d] = IF d = c THEN r ELSE conn[d]
  BY <1>1
<1>3. Answers' = [d \in Conns |-> IF d = c THEN r.completed ELSE conn[d].completed]
  <2>1. \A d \in Conns : conn'[d].completed = IF d = c THEN r.completed ELSE conn[d].completed
    BY <1>2
  <2>2. Answers' = [d \in Conns |-> conn'[d].completed]
    BY DEF Answers, Conns
  <2>3. QED
    BY <2>1, <2>2
<1>4. ASSUME r.completed = conn[c].completed PROVE Answers' = Answers
  BY <1>3, <1>4 DEF Answers
<1>5. ASSUME r.completed = conn[c].completed + 1
      PROVE  Answers' = [Answers EXCEPT ![c] = @ + 1]
  BY <1>3, <1>5 DEF Answers
<1>6. QED
  BY <1>4, <1>5

\* A step that changes nothing the contract sees.
Unseen ==
  /\ Answers' = Answers /\ abandoned' = abandoned
  /\ IsPastDeadline(now)' = IsPastDeadline(now) /\ Status' = Status

\* It is a stutter of the contract.
LEMMA UnseenStutters == Unseen => UNCHANGED Contract!vars
  BY DEF Unseen, Contract!vars, Answers, IsPastDeadline

\* A step that changes nothing the contract sees except, perhaps, that time runs out.
LEMMA QuietStep ==
  ASSUME now \in Nat, now' \in Nat, now <= now',
         Answers' = Answers, abandoned' = abandoned, Status' = Status
  PROVE  Contract!RunOut \/ UNCHANGED Contract!vars
<1>1. CASE IsPastDeadline(now)' = IsPastDeadline(now)
  BY <1>1, UnseenStutters DEF Unseen
<1>2. CASE IsPastDeadline(now)' # IsPastDeadline(now)
  <2>1. ~IsPastDeadline(now) /\ IsPastDeadline(now)'
    BY <1>2, PastStaysPast DEF IsPastDeadline
  <2>2. Contract!RunOut
    BY <2>1 DEF Contract!RunOut, Answers, IsPastDeadline, Fixed
  <2>3. QED
    BY <2>2
<1>3. QED
  BY <1>1, <1>2

\* The clock goes on as the contract says it may.
LEMMA ClockGoesOn ==
  ASSUME now \in Nat, now' \in Nat, now <= now'
  PROVE  Contract!TimeGoesOn
<1>1. IsPastDeadline(now) => IsPastDeadline(now)'
  BY PastStaysPast
<1>2. QED
  BY <1>1 DEF Contract!TimeGoesOn, IsPastDeadline, Fixed

\* The worker is running until it returns.
LEMMA RunningStatus ==
  /\ pc = "connect" \/ InLoop => Status = "running"
  /\ pc' = "connect" \/ InLoop' => Status' = "running"
  BY DEF Status, InLoop, Errors

\* What a live connection of a fixed-request worker owes.
LEMMA LiveOwes ==
  ASSUME Inv, Fixed, NEW c \in Conns, Live(c)
  PROVE  /\ abandoned[c] = 0 /\ Contract!Owed(c) = conn[c].limit - conn[c].completed
         /\ Contract!Owed(c) > 0
<1>1. /\ conn[c].limit = Limits[c] /\ conn[c].completed < conn[c].limit /\ abandoned[c] = 0
  BY DEF Inv, Accounting, AccountOf
<1>2. conn[c].completed \in Nat /\ conn[c].limit \in Nat
  BY FieldTypes DEF Inv, TypeOK
<1>3. QED
  BY <1>1, <1>2 DEF Contract!Owed

\* The initial state of the worker is one of the contract's.
LEMMA InitRefines == Init => Contract!Init
<1> SUFFICES ASSUME Init PROVE Contract!Init
  OBVIOUS
<1>1. ASSUME NEW c \in Conns PROVE conn[c].completed = 0
  <2>1. Limits[c] \in Nat /\ conn[c] = Unopened(Limits[c])
    BY LimitsAssumption, <1>1 DEF Init, Conns
  <2>2. QED
    BY <2>1, UnopenedFacts
<1>2. Status = "running"
  BY DEF Init, Status, Errors
<1>3. (~Fixed /\ Deadline <= now) \in {FALSE, ~Fixed}
  OBVIOUS
<1>4. QED
  BY <1>1, <1>2, <1>3 DEF Contract!Init, Init

\* Touching a connection is an answer, a giving up or nothing to the contract.
LEMMA TouchRefines ==
  ASSUME Inv, NEW c \in Conns, NEW r \in ConnectionType, NEW n \in Nat,
         NEW lost \in Nat, Touch(c, r, n, lost)
  PROVE  Contract!Next \/ UNCHANGED Contract!vars
<1>1. /\ TypeOK /\ Live(c) /\ conn' = [conn EXCEPT ![c] = r] /\ UNCHANGED pc
      /\ now \in Nat /\ now' \in Nat /\ now <= now'
      /\ Changes(conn[c], r, n, lost) /\ InTime(r, lost)
      /\ abandoned' = [abandoned EXCEPT ![c] = @ + lost]
      /\ abandoned \in [Conns -> Nat] /\ conn[c] \in ConnectionType
      /\ pc = "connect" \/ InLoop
  BY DEF Touch, Becomes, Inv, TypeOK, Surroundings
<1>2. Status = "running" /\ Status' = Status /\ Contract!TimeGoesOn
  BY <1>1, RunningStatus, ClockGoesOn DEF Status
<1>3. ASSUME lost = 0 PROVE abandoned' = abandoned
  BY <1>1, <1>3
<1>4. CASE OneMore(conn[c], r, n, lost)
  <2>1. Answers' = [Answers EXCEPT ![c] = @ + 1] /\ abandoned' = abandoned
    BY <1>1, <1>3, <1>4, AnswersStep DEF OneMore
  <2>2. ~Fixed \/ Contract!Owed(c) > 0
    BY <1>1, LiveOwes
  <2>3. Contract!Answer(c)
    BY <1>2, <2>1, <2>2 DEF Contract!Answer, Answers, IsPastDeadline
  <2>4. QED
    BY <2>3 DEF Contract!Next
<1>5. CASE RanOut(conn[c], r, n, lost) \/ (SameRequest(conn[c], r, n, lost) /\ lost = 0)
  <2>1. Answers' = Answers /\ abandoned' = abandoned
    BY <1>1, <1>3, <1>5, AnswersStep DEF RanOut, SameRequest
  <2>2. QED
    BY <1>1, <1>2, <2>1, QuietStep DEF Contract!Next
<1>6. CASE SameRequest(conn[c], r, n, lost) /\ lost # 0
  <2>1. Fixed /\ r.done /\ lost = UnfinishedRequests(r) /\ r.completed = conn[c].completed
        /\ r.limit = conn[c].limit
    BY <1>1, <1>6 DEF SameRequest, InTime, Changes
  <2>2. Answers' = Answers
    BY <1>1, <2>1, AnswersStep
  <2>3. abandoned[c] = 0 /\ Contract!Owed(c) = conn[c].limit - conn[c].completed
        /\ Contract!Owed(c) > 0
    BY <1>1, <2>1, LiveOwes
  <2>4. conn[c].completed \in Nat /\ conn[c].limit \in Nat
    BY <1>1, FieldTypes
  <2>5. lost = Contract!Owed(c)
    BY <1>6, <2>1, <2>3, <2>4 DEF UnfinishedRequests
  <2>6. Contract!GiveUp(c)
    BY <1>1, <1>2, <2>1, <2>2, <2>3, <2>5 DEF Contract!GiveUp, Answers, Fixed
  <2>7. QED
    BY <2>6 DEF Contract!Next
<1>7. QED
  BY <1>1, <1>4, <1>5, <1>6 DEF Changes

\* NothingLost, of the next state.
LEMMA NothingLostNext == Inv' => NothingLost'
<1>1. Inv => NothingLost
  BY InvImplies
<1>2. QED
  BY <1>1, PTL

\* In the loop, with no live connection left, the worker may return.
LEMMA NothingOwed ==
  ASSUME Inv, Inv', Timely, Control, InLoop, UNCHANGED now, active = 0, pc' = "ok"
  PROVE  Contract!Return
<1>1. /\ UNCHANGED <<conn, abandoned>> /\ Status = "running" /\ Status' = "ok"
  BY RunningStatus DEF Control, Status
<1>2. \A c \in Conns : ~Live(c)
  BY NoneLive DEF Inv, ActiveIsLive, LiveConns
<1>3. ASSUME Fixed, NEW c \in Conns PROVE Contract!Owed(c) = 0
  <2>1. NothingLost'
    BY NothingLostNext
  <2>2. conn[c].completed + abandoned[c] = Limits[c]
    BY <1>1, <1>3, <2>1 DEF NothingLost, Fixed
  <2>3. conn[c].completed \in Nat /\ abandoned[c] \in Nat
    BY FieldTypes DEF Inv, TypeOK
  <2>4. QED
    BY <2>2, <2>3 DEF Contract!Owed
<1>4. ASSUME ~Fixed PROVE Deadline <= now
  <2>1. 1 \in Conns /\ cursor \notin Conns /\ cursor \in Nat \ {0}
    BY <1>4, LimitsAssumption DEF Timely, Conns, Inv, TypeOK
  <2>2. Opened(1)
    BY <1>4, <2>1 DEF Timely
  <2>3. QED
    BY <1>2, <1>4, <2>1, <2>2 DEF Timely, IsPastDeadline
<1>5. UNCHANGED <<Answers, abandoned, IsPastDeadline(now)>>
  BY <1>1 DEF Answers, IsPastDeadline
<1>6. QED
  BY <1>1, <1>3, <1>4, <1>5 DEF Contract!Return, Answers, IsPastDeadline

\* Every step of the worker is a step of the contract or a stutter.
LEMMA StepRefines ==
  Inv /\ Inv' /\ Timely /\ [Next]_vars => Contract!Next \/ UNCHANGED Contract!vars
<1> SUFFICES ASSUME Inv, Inv', Timely, [Next]_vars
             PROVE  Contract!Next \/ UNCHANGED Contract!vars
  OBVIOUS
<1>0. /\ TypeOK /\ conn \in [Conns -> ConnectionType] /\ now \in Nat /\ cursor \in Nat \ {0}
      /\ abandoned \in [Conns -> Nat]
  BY DEF Inv, TypeOK
<1>1. CASE OpenConnection
  <2>1. PICK a \in ConnectFrom(0), slot \in Slots(now) :
          conn' = [conn EXCEPT ![cursor] = Connect(Limits[cursor], a, slot, now)]
    BY <1>1, Zenon DEF OpenConnection
  <2>2. /\ cursor \in Conns /\ Limits[cursor] \in Nat
        /\ UNCHANGED <<pc, now, abandoned>>
    BY <1>1, LimitsAssumption DEF OpenConnection, Conns, counters
  <2> DEFINE r == Connect(Limits[cursor], a, slot, now)
  <2>3. r \in ConnectionType /\ r.completed = 0
    BY <1>0, <2>2, ConnectFacts
  <2>4. conn[cursor].completed = 0
    <3>1. ~Opened(cursor)
      BY <1>0, <2>2 DEF Inv, Accounting, OpenedInOrder
    <3>2. QED
      BY <2>2, <3>1 DEF Timely
  <2> HIDE DEF r
  <2>5. Answers' = Answers
    BY <1>0, <2>1, <2>2, <2>3, <2>4, AnswersStep DEF r
  <2>6. QED
    BY <2>2, <2>5, UnseenStutters DEF Unseen, Status, IsPastDeadline
<1>2. CASE OpenGivesUpAtDeadline
  <2>1. /\ pc = "connect" /\ IsPastDeadline(now) /\ pc' = "ok"
        /\ UNCHANGED <<conn, abandoned, now>>
    BY <1>2 DEF OpenGivesUpAtDeadline
  <2>2. Status = "running" /\ Status' = "ok"
    BY <2>1 DEF Status, Errors
  <2>3. Contract!Return
    BY <2>1, <2>2 DEF Contract!Return, IsPastDeadline
  <2>4. QED
    BY <2>3 DEF Contract!Next
<1>3. CASE OpenFails
  <2>1. /\ pc = "connect" /\ cursor \in Conns /\ UNCHANGED <<pc, conn, now>>
    BY <1>3 DEF OpenFails
  <2>2. CASE abandoned' = abandoned
    BY <2>1, <2>2, UnseenStutters DEF Unseen, Answers, Status, IsPastDeadline
  <2>3. CASE abandoned' # abandoned
    <3>1. Fixed /\ abandoned' = [abandoned EXCEPT ![cursor] = @ + Limits[cursor]]
      BY <1>3, <2>3 DEF OpenFails
    <3>2. ~Opened(cursor)
      BY <1>0, <2>1 DEF Inv, Accounting, OpenedInOrder
    <3>3. abandoned[cursor] = 0 /\ conn[cursor].completed = 0
      BY <1>0, <2>1, <3>1, <3>2 DEF Inv, Accounting, UnopenedAccount
    <3>4. Contract!Owed(cursor) = Limits[cursor] /\ Limits[cursor] \in Nat \ {0}
      BY <2>1, <3>3, LimitsAssumption DEF Contract!Owed, Conns
    <3>5. Status = "running" /\ Status' = Status /\ Answers' = Answers
      BY <2>1 DEF Status, Answers, Errors
    <3>6. Contract!GiveUp(cursor)
      BY <2>1, <3>1, <3>4, <3>5 DEF Contract!GiveUp, Answers
    <3>7. QED
      BY <2>1, <3>6 DEF Contract!Next
  <2>4. QED
    BY <2>2, <2>3
<1>4. CASE EnterLoop
  <2>1. pc = "connect" /\ pc' = "poll" /\ UNCHANGED <<conn, abandoned, now>>
    BY <1>4 DEF EnterLoop, counters
  <2>2. QED
    BY <2>1, UnseenStutters DEF Unseen, Answers, Status, IsPastDeadline, Errors
<1>5. CASE Control
  <2>1. UNCHANGED <<conn, abandoned>> /\ now' \in Nat /\ Answers' = Answers
    BY <1>5 DEF Control, Surroundings, Answers
  <2>2. CASE pc' = pc /\ now <= now'
    BY <1>0, <2>1, <2>2, QuietStep DEF Status, Contract!Next
  <2>3. CASE InLoop /\ now <= now' /\ pc' \in {"poll", "events", "deadlines", "pacing"}
    BY <1>0, <2>1, <2>3, QuietStep, RunningStatus DEF InLoop, Contract!Next
  <2>4. CASE InLoop /\ now <= now' /\ pc' \in {"io_error", "tls_error", "protocol_error"}
    <3>1. Status = "running" /\ Status' = "error"
      BY <2>4, RunningStatus DEF Status, Errors
    <3>2. Contract!TimeGoesOn
      BY <1>0, <2>1, <2>4, ClockGoesOn
    <3>3. Contract!Fail
      BY <2>1, <3>1, <3>2 DEF Contract!Fail, Answers
    <3>4. QED
      BY <3>3 DEF Contract!Next
  <2>5. CASE InLoop /\ UNCHANGED now /\ active = 0 /\ pc' = "ok"
    BY <1>5, <2>5, NothingOwed DEF Contract!Next
  <2>6. QED
    BY <1>5, <2>2, <2>3, <2>4, <2>5 DEF Control
<1>6. ASSUME NEW c \in Conns, NEW r \in ConnectionType, NEW n \in Nat, NEW lost \in Nat,
             Touch(c, r, n, lost)
      PROVE  Contract!Next \/ UNCHANGED Contract!vars
  BY <1>6, TouchRefines
<1>7. QED
  BY <1>0, <1>1, <1>2, <1>3, <1>4, <1>5, <1>6, NextShapes

\* run_worker implements its contract: at most one answer per request, all that is owed
\* reported when a connection gives up, no summary while anything is owed and none from
\* a duration run before its deadline.
THEOREM WorkerKeepsContract == Spec => KeepsContract
<1>1. Init => Inv /\ Timely
  BY InitInv, InitTimely
<1>2. Inv /\ Timely /\ [Next]_vars => (Inv /\ Timely)'
  BY NextInv, NextTimely
<1>3. Inv /\ Timely /\ (Inv /\ Timely)' /\ [Next]_vars => [Contract!Next]_(Contract!vars)
  BY StepRefines
<1>4. QED
  BY <1>1, <1>2, <1>3, InitRefines, PTL DEF Spec, KeepsContract, Contract!Spec
=============================================================================
