--------------------------- MODULE RequestSequence ---------------------------
(***************************************************************************)
(* The request sequence every worker draws from (src/request_sequence.rs)  *)
(* and the pacer that gives each request its slot (src/pacer.rs).          *)
(*                                                                         *)
(* A call of RequestSequence::next is three steps of a thread: it selects  *)
(* an entry, reads the clock, and reserves a slot with the instant it      *)
(* read.  Other threads and the clock move between the steps, so a pacer   *)
(* may be given an instant older than one it has already seen.  Each       *)
(* selection and each reservation is atomic: one fetch_add, or one         *)
(* critical section.  Under timestamp pacing the cursor's mutex is held    *)
(* over all three steps.                                                   *)
(*                                                                         *)
(* Entries are numbered from 1.  Rates are given as intervals in ticks.    *)
(***************************************************************************)
EXTENDS Integers, Sequences, FiniteSets

CONSTANTS
  Threads,     \* the workers
  NoThread,    \* nobody holds the cursor's mutex
  Stamps,      \* the entries: the log timestamp of each
  Speed,       \* the replay speed
  Interval,    \* between two slots at the fixed rate
  Stages,      \* [duration, interval] of each rate stage
  Configured,  \* the replay options a run may be given
  \* Bounds of the model:
  MaxCalls,    \* calls of next
  MaxTime      \* the clock stops here

NoTime == -1

(***************************************************************************)
(* validate_replay_options, without the seed and the rounds: the pacers    *)
(* exclude each other, timestamps require the sequential order.            *)
(***************************************************************************)
ReplayOptions ==
  [ order : {"sequential", "shuffle", "random"},
    rate : BOOLEAN, timestamps : BOOLEAN, stages : BOOLEAN ]

IsValid(o) ==
  /\ o.timestamps => o.order = "sequential"
  /\ ~(o.timestamps /\ o.rate)
  /\ ~(o.stages /\ (o.rate \/ o.timestamps))

ASSUME StampsAssumption ==
  /\ Stamps \in Seq(Nat) /\ Len(Stamps) > 0
  /\ \A i, j \in 1..Len(Stamps) : i <= j => Stamps[i] <= Stamps[j]
ASSUME SpeedAssumption == Speed \in Nat \ {0}
ASSUME IntervalAssumption == Interval \in Nat
ASSUME StagesAssumption ==
  Stages \in Seq([duration : Nat \ {0}, interval : Nat]) /\ Len(Stages) > 0
ASSUME ThreadsAssumption == NoThread \notin Threads
ASSUME ConfiguredAssumption == Configured \subseteq ReplayOptions
ASSUME BoundsAssumption == MaxCalls \in Nat /\ MaxTime \in Nat

Entries == 1..Len(Stamps)

VARIABLES
  options,      \* the replay options of the run
  next,         \* AtomicUsize of Selection::Sequential and Selection::Random
  indices,      \* ShuffleState: a permutation of the entries ...
  offset,       \* ... and how many of them this round has used
  cursor,       \* timestamp_cursor ...
  holder,       \* ... and the thread that holds its mutex
  pacer,        \* Pacer::next
  previous,     \* TimestampState::previous_micros ...
  resume,       \* ... and its next
  stage,        \* StageState: [started, next]
  pc, entry, asked,   \* each thread: its step, its entry, the instant it read
  log,          \* the calls that returned, in the order of their reservations
  drawn,        \* [Entries -> Nat]: selections of each entry
  now

vars == <<options, next, indices, offset, cursor, holder, pacer, previous, resume,
          stage, pc, entry, asked, log, drawn, now>>
selection == <<next, indices, offset, cursor>>
pacers == <<pacer, previous, resume, stage>>

Later(a, b) == IF a >= b THEN a ELSE b

(***************************************************************************)
(* reshuffle: Fisher-Yates from the last position down, every choice of    *)
(* the random state.                                                       *)
(***************************************************************************)
Swap(s, i, j) == [s EXCEPT ![i] = s[j], ![j] = s[i]]

\* Mutant of Reshuffles: the swap forgets one half.
Reshuffles_HalfSwap(s) ==
  LET after[i \in 2..(Len(s) + 1)] ==
        IF i > Len(s) THEN {s}
        ELSE {[t EXCEPT ![i] = t[j]] : t \in after[i + 1], j \in 1..i}
  IN  IF Len(s) < 2 THEN {s} ELSE after[2]

Reshuffles(s) ==
  LET after[i \in 2..(Len(s) + 1)] ==
        IF i > Len(s) THEN {s}
        ELSE {Swap(t, i, j) : t \in after[i + 1], j \in 1..i}
  IN  IF Len(s) < 2 THEN {s} ELSE after[2]

Init ==
  /\ options \in {o \in Configured : IsValid(o)}
  /\ next = 0
  /\ indices \in IF options.order = "shuffle"
                 THEN Reshuffles([i \in Entries |-> i]) ELSE {[i \in Entries |-> i]}
  /\ offset = 0
  /\ cursor = 1
  /\ holder = NoThread
  /\ pacer = 0
  /\ previous = NoTime
  /\ resume = 0
  /\ stage = [started |-> NoTime, next |-> NoTime]
  /\ pc = [t \in Threads |-> "idle"]
  /\ entry = [t \in Threads |-> 1]
  /\ asked = [t \in Threads |-> 0]
  /\ log = <<>>
  /\ drawn = [i \in Entries |-> 0]
  /\ now = 0

(***************************************************************************)
(* Selecting an entry.                                                     *)
(***************************************************************************)
Calls == Len(log) + Cardinality({t \in Threads : pc[t] # "idle"})

Selects(t, i) ==
  /\ pc[t] = "idle" /\ Calls < MaxCalls
  /\ pc' = [pc EXCEPT ![t] = "selected"]
  /\ entry' = [entry EXCEPT ![t] = i]
  /\ drawn' = [drawn EXCEPT ![i] = @ + 1]
  /\ UNCHANGED <<options, pacers, asked, log, now>>

SelectSequential(t) ==
  /\ options.order = "sequential" /\ ~options.timestamps
  /\ Selects(t, (next % Len(Stamps)) + 1)
  /\ next' = next + 1
  /\ UNCHANGED <<indices, offset, cursor, holder>>

SelectRandom(t) ==
  /\ options.order = "random"
  /\ \E i \in Entries : Selects(t, i)
  /\ next' = next + 1
  /\ UNCHANGED <<indices, offset, cursor, holder>>

SelectShuffle(t) ==
  /\ options.order = "shuffle"
  /\ IF offset = Len(indices)
     THEN indices' \in Reshuffles(indices) /\ offset' = 1
     ELSE indices' = indices /\ offset' = offset + 1
  /\ Selects(t, indices'[offset'])
  /\ UNCHANGED <<next, cursor, holder>>

\* Mutant of SelectTimestamp: the cursor's mutex is released at once.
SelectTimestamp_Unlocked(t) ==
  /\ options.timestamps
  /\ Selects(t, cursor)
  /\ cursor' = (cursor % Len(Stamps)) + 1
  /\ UNCHANGED <<next, indices, offset, holder>>

SelectTimestamp(t) ==
  /\ options.timestamps /\ holder = NoThread
  /\ Selects(t, cursor)
  /\ cursor' = (cursor % Len(Stamps)) + 1
  /\ holder' = t
  /\ UNCHANGED <<next, indices, offset>>

ReadClock(t) ==
  /\ pc[t] = "selected"
  /\ pc' = [pc EXCEPT ![t] = "clocked"]
  /\ asked' = [asked EXCEPT ![t] = now]
  /\ UNCHANGED <<options, selection, holder, pacers, entry, log, drawn, now>>

(***************************************************************************)
(* Reserving a slot.                                                       *)
(***************************************************************************)
Reserves(t, slot) ==
  /\ pc[t] = "clocked"
  /\ pc' = [pc EXCEPT ![t] = "idle"]
  /\ log' = Append(log, [entry |-> entry[t], asked |-> asked[t], slot |-> slot])
  /\ UNCHANGED <<options, selection, entry, asked, drawn, now>>

Unpaced(t) ==
  /\ ~options.rate /\ ~options.timestamps /\ ~options.stages
  /\ Reserves(t, NoTime)
  /\ UNCHANGED <<holder, pacers>>

\* Mutant of ReserveRate: the next slot is counted from the caller's instant.
ReserveRate_FromNow(t) ==
  /\ options.rate
  /\ Reserves(t, Later(pacer, asked[t]))
  /\ pacer' = asked[t] + Interval
  /\ UNCHANGED <<holder, previous, resume, stage>>

ReserveRate(t) ==
  /\ options.rate
  /\ LET scheduled == Later(pacer, asked[t])
     IN  Reserves(t, scheduled) /\ pacer' = scheduled + Interval
  /\ UNCHANGED <<holder, previous, resume, stage>>

\* The wait the log asks for between two timestamps; none at the wrap-around.
Gap(before, stamp) ==
  IF before # NoTime /\ stamp >= before THEN (stamp - before) \div Speed ELSE 0

ReserveTimestamp(t) ==
  /\ options.timestamps
  /\ resume' = Later(resume, asked[t]) + Gap(previous, Stamps[entry[t]])
  /\ Reserves(t, resume')
  /\ previous' = Stamps[entry[t]]
  /\ holder' = NoThread
  /\ UNCHANGED <<pacer, stage>>

(***************************************************************************)
(* StagePacer.  Boundary[i] is where stage i ends, from the first call on; *)
(* after the last stage its rate stays.                                    *)
(***************************************************************************)
Boundary[i \in 0..Len(Stages)] == IF i = 0 THEN 0 ELSE Boundary[i - 1] + Stages[i].duration

StageAt(elapsed) ==
  CHOOSE i \in 1..(Len(Stages) + 1) :
    /\ i > Len(Stages) \/ elapsed < Boundary[i]
    /\ \A j \in 1..(i - 1) : elapsed >= Boundary[j]

\* Mutant of StageNext: the stage is looked up when the caller asks, not at its slot.
StageNext_AtCall(started, scheduled, at) ==
  LET i == StageAt(Later(0, at - started))
  IN  IF i > Len(Stages) THEN scheduled + Stages[Len(Stages)].interval
      ELSE IF scheduled + Stages[i].interval <= started + Boundary[i]
           THEN scheduled + Stages[i].interval ELSE started + Boundary[i]

\* The slot after `scheduled`, for a caller that asked at `at`.
StageNext(started, scheduled, at) ==
  LET i == StageAt(Later(0, scheduled - started))
  IN  IF i > Len(Stages) THEN scheduled + Stages[Len(Stages)].interval
      ELSE IF scheduled + Stages[i].interval <= started + Boundary[i]
           THEN scheduled + Stages[i].interval ELSE started + Boundary[i]

ReserveStage(t) ==
  /\ options.stages
  /\ LET started == IF stage.started = NoTime THEN asked[t] ELSE stage.started
         scheduled == Later(IF stage.next = NoTime THEN asked[t] ELSE stage.next, asked[t])
     IN  /\ Reserves(t, scheduled)
         /\ stage' = [started |-> started, next |-> StageNext(started, scheduled, asked[t])]
  /\ UNCHANGED <<holder, pacer, previous, resume>>

Tick ==
  /\ now < MaxTime
  /\ now' = now + 1
  /\ UNCHANGED <<options, selection, holder, pacers, pc, entry, asked, log, drawn>>

Step(t) ==
  \/ SelectSequential(t) \/ SelectRandom(t) \/ SelectShuffle(t) \/ SelectTimestamp(t)
  \/ ReadClock(t)
  \/ Unpaced(t) \/ ReserveRate(t) \/ ReserveTimestamp(t) \/ ReserveStage(t)

Next == (\E t \in Threads : Step(t)) \/ Tick

Spec == Init /\ [][Next]_vars

(***************************************************************************)
(* Properties.                                                             *)
(***************************************************************************)
\* Sequential and shuffle orders use every entry once per round, whoever draws: no
\* entry is ever two draws ahead of another.
RoundsAreEven ==
  options.order # "random" => \A i, j \in Entries : drawn[i] <= drawn[j] + 1

\* The fixed rate is global: two slots in a row are an interval apart, although the
\* callers' instants reach the pacer out of order.
SlotsAreSpaced ==
  options.rate =>
    \A k \in 1..(Len(log) - 1) : log[k].slot + Interval <= log[k + 1].slot

\* Timestamp replay gives out the entries in log order and keeps the log's gaps.
LogOrderIsKept ==
  options.timestamps =>
    \A k \in 1..(Len(log) - 1) :
      /\ log[k + 1].entry = (log[k].entry % Len(Stamps)) + 1
      /\ log[k + 1].slot >= log[k].slot + Gap(Stamps[log[k].entry], Stamps[log[k + 1].entry])

SlotsOfStage(i) ==
  {k \in 1..Len(log) :
     LET elapsed == log[k].slot - stage.started
     IN  Boundary[i - 1] <= elapsed /\ elapsed < Boundary[i]}

\* A stage gives out no more slots than its rate allows in its duration, and its slots
\* are an interval apart: a transition neither starts early nor makes a burst.
StageQuota ==
  options.stages /\ stage.started # NoTime =>
    \A i \in 1..Len(Stages) :
      /\ \A j, k \in SlotsOfStage(i) :
           j < k => log[j].slot + Stages[i].interval <= log[k].slot
      /\ \A k \in 1..(Len(log) - 1) :
           log[k].slot < stage.started + Boundary[i]
             /\ log[k + 1].slot > stage.started + Boundary[i]
           => log[k + 1].slot = log[k + 1].asked
=============================================================================
