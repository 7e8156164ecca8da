------------------------ MODULE RequestSequence_proofs ------------------------
(***************************************************************************)
(* Theorems about module RequestSequence, for any number of threads,       *)
(* entries, stages, calls and ticks: the slots of the fixed rate are an    *)
(* interval apart, timestamp replay keeps the log's order and gaps, the    *)
(* rate stages keep their quotas, and the rounds of the sequential and of  *)
(* the shuffled order use every entry once.                                *)
(***************************************************************************)
EXTENDS RequestSequence, WellFoundedInduction, TLAPS

\* The last reservation: an invariant of the pacers speaks of it only.
Last == log[Len(log)]

LEMMA EntryAfter ==
  ASSUME NEW i \in Entries
  PROVE  (i % Len(Stamps)) + 1 \in Entries
<1>1. Len(Stamps) \in Nat \ {0} /\ i \in Nat
  BY StampsAssumption DEF Entries
<1>2. i % Len(Stamps) \in 0..(Len(Stamps) - 1)
  BY <1>1
<1>3. QED
  BY <1>1, <1>2 DEF Entries

\* The wait between two timestamps is never negative, whatever came before.
LEMMA GapType ==
  ASSUME NEW before \in Nat \cup {NoTime}, NEW i \in Entries
  PROVE  Gap(before, Stamps[i]) \in Nat
<1>1. Stamps[i] \in Nat
  BY StampsAssumption DEF Entries
<1>2. CASE before # NoTime /\ Stamps[i] >= before
  <2>1. Stamps[i] - before \in Nat
    BY <1>1, <1>2
  <2>2. QED
    BY <1>2, <2>1, SpeedAssumption DEF Gap
<1>3. CASE ~(before # NoTime /\ Stamps[i] >= before)
  BY <1>3 DEF Gap
<1>4. QED
  BY <1>2, <1>3

\* What appending a reservation does to the log.  The entries a shuffle hands out are not
\* followed here, so the elements of the log have no type.
IsSeq(s) == \E S : s \in Seq(S)

LEMMA AppendFacts ==
  ASSUME NEW s, IsSeq(s), NEW x
  PROVE  /\ IsSeq(Append(s, x)) /\ Len(s) \in Nat /\ Len(Append(s, x)) = Len(s) + 1
         /\ Append(s, x) # <<>>
         /\ Append(s, x)[Len(s) + 1] = x
         /\ \A k \in 1..Len(s) : Append(s, x)[k] = s[k]
         /\ s # <<>> => Len(s) \in 1..Len(s)
<1>1. PICK S : s \in Seq(S)
  BY DEF IsSeq
<1> DEFINE T == S \cup {x}
<1>2. s \in Seq(T) /\ x \in T
  BY <1>1
<1> HIDE DEF T
<1>3. Append(s, x) \in Seq(T)
  BY <1>2
<1>4. IsSeq(Append(s, x))
  BY <1>3 DEF IsSeq
<1>5. Len(s) \in Nat /\ (s # <<>> => Len(s) \in 1..Len(s))
  BY <1>2
<1>6. Len(Append(s, x)) = Len(s) + 1 /\ Append(s, x)[Len(s) + 1] = x
  BY <1>2
<1>7. \A k \in 1..Len(s) : Append(s, x)[k] = s[k]
  BY <1>2
<1>8. Append(s, x) # <<>>
  <2>1. Len(Append(s, x)) # 0
    BY <1>5, <1>6
  <2>2. Len(<<>>) = 0
    OBVIOUS
  <2>3. ASSUME NEW r, Len(r) # 0 PROVE r # <<>>
    BY <2>2, <2>3
  <2>4. QED
    BY <2>1, <2>3, Zenon
<1>9. QED
  BY <1>4, <1>5, <1>6, <1>7, <1>8

(***************************************************************************)
(* What the pacers keep.                                                   *)
(***************************************************************************)
PacerTypes ==
  /\ options \in {o \in Configured : IsValid(o)}
  /\ cursor \in Entries
  /\ pacer \in Nat
  /\ resume \in Nat
  /\ previous \in Nat \cup {NoTime}
  /\ pc \in [Threads -> {"idle", "selected", "clocked"}]
  /\ DOMAIN entry = Threads
  /\ asked \in [Threads -> Nat]
  /\ now \in Nat
  /\ IsSeq(log)
  /\ options.rate => \A k \in 1..Len(log) : log[k].slot \in Nat

(***************************************************************************)
(* The fixed rate: the pacer is an interval past the last slot given out.  *)
(***************************************************************************)
RateInv ==
  options.rate =>
    /\ log # <<>> => Last.slot + Interval <= pacer
    /\ SlotsAreSpaced

(***************************************************************************)
(* Timestamps: between the selection and the reservation the cursor's      *)
(* mutex keeps every other thread idle, so the next reservation is for the *)
(* entry after the last one.                                               *)
(***************************************************************************)
Follows(i) == IF log = <<>> THEN TRUE ELSE i = (Last.entry % Len(Stamps)) + 1

CursorInv ==
  options.timestamps =>
    /\ \A t \in Threads : pc[t] # "idle" => holder = t
    /\ \A t \in Threads : pc[t] # "idle" =>
         entry[t] \in Entries /\ Follows(entry[t]) /\ cursor = (entry[t] % Len(Stamps)) + 1
    /\ holder = NoThread => Follows(cursor)
    /\ log # <<>> =>
         Last.entry \in Entries /\ previous = Stamps[Last.entry] /\ resume = Last.slot
    /\ LogOrderIsKept

IInv == PacerTypes /\ RateInv /\ CursorInv

LEMMA InitIInv == Init => IInv
<1> SUFFICES ASSUME Init PROVE IInv
  OBVIOUS
<1>1. log = <<>> /\ IsSeq(log) /\ Len(log) = 0
  <2>1. log = <<>> /\ <<>> \in Seq({})
    BY DEF Init
  <2>2. QED
    BY <2>1 DEF IsSeq
<1>2. PacerTypes
  BY <1>1, StampsAssumption DEF Init, PacerTypes, Entries
<1>3. RateInv
  BY <1>1 DEF RateInv, SlotsAreSpaced
<1>4. CursorInv
  BY <1>1 DEF Init, CursorInv, Follows, LogOrderIsKept
<1>5. QED
  BY <1>2, <1>3, <1>4 DEF IInv

\* At most one pacer is configured: validate_replay_options.
LEMMA OnePacer ==
  ASSUME PacerTypes
  PROVE  /\ ~(options.timestamps /\ options.rate)
         /\ ~(options.stages /\ options.rate) /\ ~(options.stages /\ options.timestamps)
         /\ options.timestamps => options.order = "sequential"
BY DEF PacerTypes, IsValid

\* Choosing an entry without the cursor, and the clock, touch nothing the pacers keep.
LEMMA SelectKeeps ==
  ASSUME IInv, NEW t \in Threads, SelectSequential(t) \/ SelectRandom(t) \/ SelectShuffle(t)
  PROVE  IInv'
<1>1. PacerTypes /\ RateInv
  BY DEF IInv
<1>2. ~options.timestamps
  BY <1>1, OnePacer DEF SelectSequential, SelectRandom, SelectShuffle
<1>3. PICK i : Selects(t, i)
  BY DEF SelectSequential, SelectRandom, SelectShuffle
<1>4. UNCHANGED <<options, cursor, pacer, previous, resume, asked, log, now>>
  BY <1>3 DEF SelectSequential, SelectRandom, SelectShuffle, Selects, pacers
<1>5. pc' \in [Threads -> {"idle", "selected", "clocked"}] /\ DOMAIN entry' = Threads
  BY <1>1, <1>3 DEF Selects, PacerTypes
<1>6. PacerTypes'
  BY <1>1, <1>4, <1>5 DEF PacerTypes
<1>7. RateInv'
  BY <1>1, <1>4 DEF RateInv, SlotsAreSpaced, Last
<1>8. CursorInv'
  BY <1>2, <1>4 DEF CursorInv
<1>9. QED
  BY <1>6, <1>7, <1>8 DEF IInv

LEMMA SelectTimestampKeeps ==
  ASSUME IInv, NEW t \in Threads, SelectTimestamp(t)
  PROVE  IInv'
<1>1. PacerTypes /\ CursorInv
  BY DEF IInv
<1>2. options.timestamps /\ ~options.rate /\ holder = NoThread
  BY <1>1, OnePacer DEF SelectTimestamp
<1>3. /\ UNCHANGED <<options, pacer, previous, resume, asked, log, now>>
      /\ pc' = [pc EXCEPT ![t] = "selected"] /\ entry' = [entry EXCEPT ![t] = cursor]
      /\ cursor' = (cursor % Len(Stamps)) + 1 /\ holder' = t
  BY DEF SelectTimestamp, Selects, pacers
<1>4. cursor \in Entries /\ cursor' \in Entries
  BY <1>1, <1>3, EntryAfter DEF PacerTypes
<1>5. PacerTypes'
  BY <1>1, <1>2, <1>3, <1>4 DEF PacerTypes
<1>6. RateInv'
  BY <1>2, <1>3 DEF RateInv
<1>7. \A u \in Threads : pc[u] = "idle"
  BY <1>1, <1>2, ThreadsAssumption DEF CursorInv
<1>8. \A u \in Threads : u # t => pc'[u] = "idle"
  BY <1>1, <1>3, <1>7 DEF PacerTypes
<1>9. entry'[t] = cursor
  BY <1>1, <1>3 DEF PacerTypes
<1>10. Follows(cursor)
  BY <1>1, <1>2 DEF CursorInv
<1>11. ASSUME NEW u \in Threads, pc'[u] # "idle"
       PROVE  /\ holder' = u /\ entry'[u] \in Entries /\ Follows(entry[u])'
              /\ cursor' = (entry'[u] % Len(Stamps)) + 1
  <2>1. u = t
    BY <1>8, <1>11
  <2>2. Follows(entry[t])'
    BY <1>3, <1>9, <1>10 DEF Follows, Last
  <2>3. QED
    BY <1>3, <1>4, <1>9, <2>1, <2>2
<1>12. holder' # NoThread
  BY <1>3, ThreadsAssumption
<1>13. CursorInv'
  <2>1. (log # <<>> =>
           Last.entry \in Entries /\ previous = Stamps[Last.entry] /\ resume = Last.slot)'
    BY <1>1, <1>2, <1>3 DEF CursorInv, Last
  <2>2. LogOrderIsKept'
    BY <1>1, <1>2, <1>3 DEF CursorInv, LogOrderIsKept
  <2>3. QED
    BY <1>11, <1>12, <2>1, <2>2 DEF CursorInv
<1>14. QED
  BY <1>5, <1>6, <1>13 DEF IInv

LEMMA ReadClockKeeps ==
  ASSUME IInv, NEW t \in Threads, ReadClock(t)
  PROVE  IInv'
<1>1. PacerTypes /\ RateInv /\ CursorInv
  BY DEF IInv
<1>2. /\ UNCHANGED <<options, cursor, holder, pacer, previous, resume, entry, log, now>>
      /\ pc' = [pc EXCEPT ![t] = "clocked"] /\ asked' = [asked EXCEPT ![t] = now]
      /\ pc[t] = "selected"
  BY DEF ReadClock, pacers, selection
<1>3. PacerTypes'
  BY <1>1, <1>2 DEF PacerTypes
<1>4. RateInv'
  BY <1>1, <1>2 DEF RateInv, SlotsAreSpaced, Last
<1>5. \A u \in Threads : pc'[u] # "idle" => pc[u] # "idle"
  BY <1>1, <1>2 DEF PacerTypes
<1>6. CursorInv'
  BY <1>1, <1>2, <1>5 DEF CursorInv, Follows, LogOrderIsKept, Last
<1>7. QED
  BY <1>3, <1>4, <1>6 DEF IInv

\* What every reservation does to the log and to the threads.
LEMMA ReservesFacts ==
  ASSUME PacerTypes, NEW t \in Threads, NEW slot, Reserves(t, slot)
  PROVE  /\ UNCHANGED <<options, cursor, entry, asked, now>>
         /\ pc' \in [Threads -> {"idle", "selected", "clocked"}] /\ pc[t] = "clocked"
         /\ pc'[t] = "idle" /\ \A u \in Threads : u # t => pc'[u] = pc[u]
         /\ IsSeq(log') /\ Len(log) \in Nat /\ Len(log') = Len(log) + 1 /\ log' # <<>>
         /\ log'[Len(log')] = [entry |-> entry[t], asked |-> asked[t], slot |-> slot]
         /\ \A k \in 1..Len(log) : log'[k] = log[k]
         /\ log # <<>> => Len(log) \in 1..Len(log)
<1> DEFINE x == [entry |-> entry[t], asked |-> asked[t], slot |-> slot]
<1>1. log' = Append(log, x)
  BY DEF Reserves
<1> HIDE DEF x
<1>2. /\ IsSeq(log') /\ Len(log) \in Nat /\ Len(log') = Len(log) + 1 /\ log' # <<>>
      /\ log'[Len(log) + 1] = x
      /\ \A k \in 1..Len(log) : log'[k] = log[k]
      /\ log # <<>> => Len(log) \in 1..Len(log)
  BY <1>1, AppendFacts DEF PacerTypes
<1>3. /\ UNCHANGED <<options, cursor, entry, asked, now>>
      /\ pc' = [pc EXCEPT ![t] = "idle"] /\ pc[t] = "clocked"
  BY DEF Reserves, selection
<1>4. /\ pc' \in [Threads -> {"idle", "selected", "clocked"}]
      /\ pc'[t] = "idle" /\ \A u \in Threads : u # t => pc'[u] = pc[u]
  BY <1>3 DEF PacerTypes
<1>5. QED
  BY <1>2, <1>3, <1>4 DEF x

\* Without a pacer, or with stages, neither invariant claims anything of the log.
LEMMA OtherReserveKeeps ==
  ASSUME IInv, NEW t \in Threads, Unpaced(t) \/ ReserveStage(t)
  PROVE  IInv'
<1>1. PacerTypes
  BY DEF IInv
<1>2. ~options.rate /\ ~options.timestamps
  BY <1>1, OnePacer DEF Unpaced, ReserveStage
<1>3. PICK slot : Reserves(t, slot)
  BY DEF Unpaced, ReserveStage
<1>4. UNCHANGED <<pacer, previous, resume>>
  BY DEF Unpaced, ReserveStage, pacers
<1>5. /\ UNCHANGED <<options, cursor, entry, asked, now>> /\ IsSeq(log')
      /\ pc' \in [Threads -> {"idle", "selected", "clocked"}]
  BY <1>1, <1>3, ReservesFacts
<1>6. PacerTypes'
  BY <1>1, <1>2, <1>4, <1>5 DEF PacerTypes
<1>7. RateInv' /\ CursorInv'
  BY <1>2, <1>5 DEF RateInv, CursorInv
<1>8. QED
  BY <1>6, <1>7 DEF IInv

\* The slot is not before pacer, which is an interval past the last one.
LEMMA ReserveRateKeeps ==
  ASSUME IInv, NEW t \in Threads, ReserveRate(t)
  PROVE  IInv'
<1>1. PacerTypes /\ RateInv
  BY DEF IInv
<1>2. options.rate /\ ~options.timestamps
  BY <1>1, OnePacer DEF ReserveRate
<1> DEFINE scheduled == Later(pacer, asked[t])
<1>3. pacer \in Nat /\ asked[t] \in Nat
  BY <1>1 DEF PacerTypes
<1>4. scheduled \in Nat /\ pacer <= scheduled
  BY <1>3 DEF Later
<1>5. Reserves(t, scheduled) /\ pacer' = scheduled + Interval /\ UNCHANGED <<previous, resume>>
  BY DEF ReserveRate
<1> HIDE DEF scheduled
<1>6. /\ UNCHANGED <<options, cursor, entry, asked, now>>
      /\ pc' \in [Threads -> {"idle", "selected", "clocked"}]
      /\ IsSeq(log') /\ Len(log) \in Nat /\ Len(log') = Len(log) + 1 /\ log' # <<>>
      /\ \A k \in 1..Len(log) : log'[k] = log[k]
      /\ log # <<>> => Len(log) \in 1..Len(log)
  BY <1>1, <1>5, ReservesFacts
<1>7. log'[Len(log')].slot = scheduled
  <2>1. log'[Len(log')] = [entry |-> entry[t], asked |-> asked[t], slot |-> scheduled]
    BY <1>1, <1>5, ReservesFacts
  <2>2. QED
    BY <2>1
<1>8. ASSUME NEW k \in 1..Len(log') PROVE log'[k].slot \in Nat
  <2>1. CASE k = Len(log')
    BY <1>4, <1>7, <2>1
  <2>2. CASE k # Len(log')
    <3>1. k \in 1..Len(log)
      BY <1>6, <2>2
    <3>2. QED
      BY <1>1, <1>2, <1>6, <3>1 DEF PacerTypes
  <2>3. QED
    BY <2>1, <2>2
<1>9. PacerTypes'
  <2>1. pacer' \in Nat
    BY <1>4, <1>5, IntervalAssumption
  <2>2. QED
    BY <1>1, <1>5, <1>6, <1>8, <2>1 DEF PacerTypes
<1>10. ASSUME NEW k \in 1..(Len(log') - 1) PROVE log'[k].slot + Interval <= log'[k + 1].slot
  <2>1. CASE k = Len(log)
    <3>1. k \in 1..Len(log) /\ log # <<>> /\ k + 1 = Len(log')
      <4>1. k \in 1..Len(log) /\ k + 1 = Len(log')
        BY <1>6, <2>1
      <4>2. Len(log) # 0
        BY <1>6, <4>1
      <4>3. QED
        BY <4>1, <4>2
    <3>2. log[k].slot + Interval <= pacer /\ log[k].slot \in Nat
      BY <1>1, <1>2, <2>1, <3>1 DEF RateInv, Last, PacerTypes
    <3>3. log'[k].slot = log[k].slot /\ log'[k + 1].slot = scheduled
      BY <1>6, <1>7, <3>1
    <3>4. QED
      BY <1>3, <1>4, <3>2, <3>3, IntervalAssumption
  <2>2. CASE k # Len(log)
    <3>1. k \in 1..(Len(log) - 1) /\ k \in 1..Len(log) /\ k + 1 \in 1..Len(log)
      BY <1>6, <2>2
    <3>2. log[k].slot + Interval <= log[k + 1].slot
      BY <1>1, <1>2, <3>1 DEF RateInv, SlotsAreSpaced
    <3>3. QED
      BY <1>6, <3>1, <3>2
  <2>3. QED
    BY <2>1, <2>2
<1>11. SlotsAreSpaced'
  BY <1>10 DEF SlotsAreSpaced
<1>12. (log # <<>> => Last.slot + Interval <= pacer)'
  <2>1. Last' = log'[Len(log')]
    BY DEF Last
  <2>2. QED
    BY <1>4, <1>5, <1>7, <2>1, IntervalAssumption
<1>13. RateInv'
  BY <1>11, <1>12 DEF RateInv
<1>14. CursorInv'
  BY <1>2, <1>6 DEF CursorInv
<1>15. QED
  BY <1>9, <1>13, <1>14 DEF IInv

\* The thread that holds the cursor reserves for the entry after the last one.
LEMMA ReserveTimestampKeeps ==
  ASSUME IInv, NEW t \in Threads, ReserveTimestamp(t)
  PROVE  IInv'
<1>1. PacerTypes /\ CursorInv
  BY DEF IInv
<1>2. options.timestamps /\ ~options.rate
  BY <1>1, OnePacer DEF ReserveTimestamp
<1> DEFINE e == entry[t]
           gap == Gap(previous, Stamps[e])
<1>3. /\ Reserves(t, resume') /\ resume' = Later(resume, asked[t]) + gap
      /\ previous' = Stamps[e] /\ holder' = NoThread /\ pacer' = pacer
  BY DEF ReserveTimestamp
<1>4. /\ UNCHANGED <<options, cursor, entry, asked, now>>
      /\ pc' \in [Threads -> {"idle", "selected", "clocked"}] /\ pc[t] = "clocked"
      /\ pc'[t] = "idle" /\ \A u \in Threads : u # t => pc'[u] = pc[u]
      /\ IsSeq(log') /\ Len(log) \in Nat /\ Len(log') = Len(log) + 1 /\ log' # <<>>
      /\ \A k \in 1..Len(log) : log'[k] = log[k]
      /\ log # <<>> => Len(log) \in 1..Len(log)
  BY <1>1, <1>3, ReservesFacts
<1>5. log'[Len(log')] = [entry |-> e, asked |-> asked[t], slot |-> resume']
  BY <1>1, <1>3, ReservesFacts
<1>6. log'[Len(log')].entry = e /\ log'[Len(log')].slot = resume'
  BY <1>5
<1>7. /\ holder = t /\ e \in Entries /\ Follows(e) /\ cursor = (e % Len(Stamps)) + 1
  BY <1>1, <1>2, <1>4 DEF CursorInv
<1>8. gap \in Nat /\ Stamps[e] \in Nat
  <2>1. previous \in Nat \cup {NoTime}
    BY <1>1 DEF PacerTypes
  <2>2. Stamps[e] \in Nat
    BY <1>7, StampsAssumption DEF Entries
  <2>3. gap \in Nat
    BY <1>7, <2>1, GapType
  <2>4. QED
    BY <2>2, <2>3
<1>9. resume \in Nat /\ asked[t] \in Nat
  BY <1>1 DEF PacerTypes
<1>10. resume' \in Nat /\ resume' >= resume + gap
  <2> HIDE DEF gap
  <2>1. QED
    BY <1>3, <1>8, <1>9 DEF Later
<1>11. PacerTypes'
  BY <1>1, <1>2, <1>3, <1>4, <1>8, <1>10 DEF PacerTypes
<1>12. RateInv'
  BY <1>2, <1>4 DEF RateInv
<1>13. \A u \in Threads : pc'[u] = "idle"
  <2>1. \A u \in Threads : u # t => pc[u] = "idle"
    BY <1>1, <1>2, <1>7 DEF CursorInv
  <2>2. QED
    BY <1>4, <2>1
<1>14. Last' = log'[Len(log')]
  BY DEF Last
<1>15. Follows(cursor)'
  BY <1>4, <1>6, <1>7, <1>14 DEF Follows
<1>16. (log # <<>> =>
          Last.entry \in Entries /\ previous = Stamps[Last.entry] /\ resume = Last.slot)'
  BY <1>3, <1>6, <1>7, <1>14
<1>17. ASSUME NEW k \in 1..(Len(log') - 1)
       PROVE  /\ log'[k + 1].entry = (log'[k].entry % Len(Stamps)) + 1
              /\ log'[k + 1].slot
                   >= log'[k].slot + Gap(Stamps[log'[k].entry], Stamps[log'[k + 1].entry])
  <2>1. CASE k = Len(log)
    <3>1. k \in 1..Len(log) /\ log # <<>> /\ k + 1 = Len(log')
      <4>1. k \in 1..Len(log) /\ k + 1 = Len(log')
        BY <1>4, <2>1
      <4>2. Len(log) # 0
        BY <1>4, <4>1
      <4>3. QED
        BY <4>1, <4>2
    <3>2. /\ log[k].entry \in Entries /\ previous = Stamps[log[k].entry]
          /\ resume = log[k].slot /\ e = (log[k].entry % Len(Stamps)) + 1
      BY <1>1, <1>2, <1>7, <2>1, <3>1 DEF CursorInv, Last, Follows
    <3>3. log'[k] = log[k] /\ log'[k + 1].entry = e /\ log'[k + 1].slot = resume'
      BY <1>4, <1>6, <3>1
    <3>4. gap = Gap(Stamps[log'[k].entry], Stamps[log'[k + 1].entry])
      BY <3>2, <3>3
    <3> HIDE DEF gap
    <3>5. QED
      BY <1>10, <3>2, <3>3, <3>4
  <2>2. CASE k # Len(log)
    <3>1. k \in 1..(Len(log) - 1) /\ k \in 1..Len(log) /\ k + 1 \in 1..Len(log)
      BY <1>4, <2>2
    <3>2. /\ log[k + 1].entry = (log[k].entry % Len(Stamps)) + 1
          /\ log[k + 1].slot
               >= log[k].slot + Gap(Stamps[log[k].entry], Stamps[log[k + 1].entry])
      BY <1>1, <1>2, <3>1 DEF CursorInv, LogOrderIsKept
    <3>3. log'[k] = log[k] /\ log'[k + 1] = log[k + 1]
      BY <1>4, <3>1
    <3>4. QED
      BY <3>2, <3>3
  <2>3. QED
    BY <2>1, <2>2
<1>18. LogOrderIsKept'
  BY <1>17 DEF LogOrderIsKept
<1>19. CursorInv'
  BY <1>13, <1>15, <1>16, <1>18 DEF CursorInv
<1>20. QED
  BY <1>11, <1>12, <1>19 DEF IInv

LEMMA NextIInv ==
  ASSUME IInv, [Next]_vars
  PROVE  IInv'
<1>1. CASE UNCHANGED vars
  BY <1>1 DEF vars, IInv, PacerTypes, RateInv, CursorInv, SlotsAreSpaced, LogOrderIsKept,
              Follows, Last
<1>2. CASE Tick
  <2>1. /\ UNCHANGED <<options, cursor, holder, pacer, previous, resume, pc, entry, asked, log>>
        /\ now' = now + 1
    BY <1>2 DEF Tick, selection, pacers
  <2>2. PacerTypes'
    BY <2>1 DEF IInv, PacerTypes
  <2>3. RateInv' /\ CursorInv'
    BY <2>1 DEF IInv, RateInv, CursorInv, SlotsAreSpaced, LogOrderIsKept, Follows, Last
  <2>4. QED
    BY <2>2, <2>3 DEF IInv
<1>3. ASSUME NEW t \in Threads, Step(t) PROVE IInv'
  <2>1. CASE SelectSequential(t) \/ SelectRandom(t) \/ SelectShuffle(t)
    BY <2>1, SelectKeeps
  <2>2. CASE SelectTimestamp(t)
    BY <2>2, SelectTimestampKeeps
  <2>3. CASE ReadClock(t)
    BY <2>3, ReadClockKeeps
  <2>4. CASE Unpaced(t) \/ ReserveStage(t)
    BY <2>4, OtherReserveKeeps
  <2>5. CASE ReserveRate(t)
    BY <2>5, ReserveRateKeeps
  <2>6. CASE ReserveTimestamp(t)
    BY <2>6, ReserveTimestampKeeps
  <2>7. QED
    BY <1>3, <2>1, <2>2, <2>3, <2>4, <2>5, <2>6 DEF Step
<1>4. QED
  BY <1>1, <1>2, <1>3 DEF Next

LEMMA PacersKeepInvariant == Spec => []IInv
<1>1. IInv /\ [Next]_vars => IInv'
  BY NextIInv
<1>2. QED
  BY <1>1, InitIInv, PTL DEF Spec

\* At a fixed rate two slots in a row are an interval apart, in whatever order the threads'
\* instants reach the pacer: Pacer::reserve.
THEOREM RateIsGlobal == Spec => []SlotsAreSpaced
<1>1. IInv => SlotsAreSpaced
  BY DEF IInv, RateInv, SlotsAreSpaced
<1>2. QED
  BY <1>1, PacersKeepInvariant, PTL

\* Timestamp replay reserves the entries in the order of the log, at least the log's gaps
\* apart, because the cursor stays locked until the slot is reserved: RequestSequence::next.
THEOREM TimestampsInOrder == Spec => []LogOrderIsKept
<1>1. IInv => LogOrderIsKept
  BY DEF IInv, CursorInv, LogOrderIsKept
<1>2. QED
  BY <1>1, PacersKeepInvariant, PTL

(***************************************************************************)
(* The rate stages.  Boundary is a recursive function: that it exists, and *)
(* what it adds up, is shown at the least index where it would not.        *)
(***************************************************************************)
LEMMA LeastNatural ==
  ASSUME NEW T \in SUBSET Nat, T # {}
  PROVE  \E m \in T : \A n \in T : m <= n
<1> DEFINE R == OpToRel(<, Nat)
<1>1. IsWellFoundedOn(R, Nat)
  BY NatLessThanWellFounded
<1> HIDE DEF R
<1>2. PICK m \in T : \A n \in T : ~(<<n, m>> \in R)
  BY <1>1, WFMin
<1>3. ASSUME NEW n \in T PROVE m <= n
  <2>1. m \in Nat /\ n \in Nat /\ <<n, m>> \notin R
    BY <1>2, <1>3
  <2>2. ~(n < m)
    BY <2>1 DEF R, OpToRel
  <2>3. QED
    BY <2>1, <2>2
<1>4. QED
  BY <1>2, <1>3

LEMMA StagesType ==
  /\ Len(Stages) \in Nat \ {0}
  /\ \A i \in 1..Len(Stages) : Stages[i].duration \in Nat \ {0} /\ Stages[i].interval \in Nat
<1>1. Len(Stages) \in Nat \ {0}
  BY StagesAssumption
<1>2. ASSUME NEW i \in 1..Len(Stages)
      PROVE  Stages[i].duration \in Nat \ {0} /\ Stages[i].interval \in Nat
  <2> DEFINE S == [duration : Nat \ {0}, interval : Nat]
  <2>1. Stages \in Seq(S)
    BY StagesAssumption
  <2> HIDE DEF S
  <2>2. Stages[i] \in S
    BY <2>1
  <2>3. QED
    BY <2>2 DEF S
<1>3. QED
  BY <1>1, <1>2

\* g adds up the durations of the first n stages.
AddsUp(g, n) == g = [i \in 0..n |-> IF i = 0 THEN 0 ELSE g[i - 1] + Stages[i].duration]

LEMMA BoundaryExists == \E g : AddsUp(g, Len(Stages))
<1> DEFINE L == Len(Stages)
           Bad == {n \in 0..L : ~\E g : AddsUp(g, n)}
<1>1. L \in Nat
  BY StagesAssumption
<1> HIDE DEF L
<1>2. SUFFICES ASSUME Bad # {} PROVE FALSE
  <2>1. Bad = {} => L \notin Bad /\ L \in 0..L
    BY <1>1
  <2>2. QED
    BY <1>2, <2>1 DEF L
<1>3. Bad \in SUBSET Nat
  BY <1>1
<1>4. PICK m \in Bad : \A n \in Bad : m <= n
  BY <1>2, <1>3, LeastNatural
<1>5. m \in 0..L /\ ~\E g : AddsUp(g, m)
  BY <1>4
<1>6. m # 0
  <2>1. AddsUp([i \in 0..0 |-> 0], 0)
    BY DEF AddsUp
  <2>2. QED
    BY <1>5, <2>1
<1>7. m - 1 \in 0..L /\ m - 1 \notin Bad
  <2>1. m - 1 \in 0..L /\ ~(m <= m - 1)
    BY <1>1, <1>5, <1>6
  <2>2. QED
    BY <1>4, <2>1
<1>8. PICK g : AddsUp(g, m - 1)
  BY <1>7
<1> DEFINE h == [i \in 0..m |-> IF i = m THEN g[m - 1] + Stages[m].duration ELSE g[i]]
<1>9. \A i \in 0..m : h[i] = IF i = 0 THEN 0 ELSE h[i - 1] + Stages[i].duration
  <2> SUFFICES ASSUME NEW i \in 0..m
               PROVE  h[i] = IF i = 0 THEN 0 ELSE h[i - 1] + Stages[i].duration
    OBVIOUS
  <2>1. \A k \in 0..(m - 1) : g[k] = IF k = 0 THEN 0 ELSE g[k - 1] + Stages[k].duration
    BY <1>8 DEF AddsUp
  <2>2. i = 0 \/ (i - 1 \in 0..m /\ i - 1 # m)
    BY <1>5
  <2>3. CASE i = m
    BY <1>6, <2>2, <2>3
  <2>4. CASE i # m
    <3>1. i \in 0..(m - 1)
      BY <1>5, <2>4
    <3>2. QED
      BY <2>1, <2>2, <2>4, <3>1
  <2>5. QED
    BY <2>3, <2>4
<1>10. AddsUp(h, m)
  BY <1>9 DEF AddsUp
<1>11. QED
  BY <1>5, <1>10

LEMMA BoundaryUnfolds ==
  /\ Boundary[0] = 0
  /\ \A i \in 1..Len(Stages) : Boundary[i] = Boundary[i - 1] + Stages[i].duration
<1>1. Boundary = CHOOSE g : AddsUp(g, Len(Stages))
  BY DEF Boundary, AddsUp
<1>2. AddsUp(Boundary, Len(Stages))
  BY <1>1, BoundaryExists
<1>3. Len(Stages) \in Nat
  BY StagesAssumption
<1>4. QED
  BY <1>2, <1>3 DEF AddsUp

LEMMA BoundaryType == \A i \in 0..Len(Stages) : Boundary[i] \in Nat
<1> DEFINE Bad == {i \in 0..Len(Stages) : Boundary[i] \notin Nat}
<1>1. Len(Stages) \in Nat /\ \A i \in 1..Len(Stages) : Stages[i].duration \in Nat
  BY StagesType
<1>2. SUFFICES ASSUME Bad # {} PROVE FALSE
  OBVIOUS
<1>3. Bad \in SUBSET Nat
  BY <1>1
<1>4. PICK m \in Bad : \A n \in Bad : m <= n
  BY <1>2, <1>3, LeastNatural
<1>5. m \in 0..Len(Stages) /\ m # 0 /\ Boundary[m] \notin Nat
  BY <1>4, BoundaryUnfolds
<1>6. m \in 1..Len(Stages) /\ m - 1 \in 0..Len(Stages) /\ ~(m <= m - 1)
  BY <1>1, <1>5
<1>7. Boundary[m - 1] \in Nat
  BY <1>4, <1>6
<1>8. QED
  BY <1>1, <1>5, <1>6, <1>7, BoundaryUnfolds

\* A later stage does not end earlier.
LEMMA BoundaryGrows ==
  ASSUME NEW i \in 0..Len(Stages), NEW j \in 0..Len(Stages), i <= j
  PROVE  Boundary[i] <= Boundary[j]
<1> DEFINE Bad == {k \in i..Len(Stages) : ~(Boundary[i] <= Boundary[k])}
<1>1. Len(Stages) \in Nat /\ \A k \in 1..Len(Stages) : Stages[k].duration \in Nat
  BY StagesType
<1>2. j \in i..Len(Stages)
  BY <1>1
<1>3. SUFFICES ASSUME Bad # {} PROVE FALSE
  BY <1>2
<1>4. Bad \in SUBSET Nat
  BY <1>1
<1>5. PICK m \in Bad : \A n \in Bad : m <= n
  BY <1>3, <1>4, LeastNatural
<1>6. m \in i..Len(Stages) /\ ~(Boundary[i] <= Boundary[m])
  BY <1>5
<1>7. m # i
  BY <1>6, BoundaryType
<1>8. /\ m \in 1..Len(Stages) /\ m - 1 \in i..Len(Stages) /\ m - 1 \in 0..Len(Stages)
      /\ m \in 0..Len(Stages) /\ ~(m <= m - 1)
  BY <1>1, <1>6, <1>7
<1>9. Boundary[i] <= Boundary[m - 1]
  BY <1>5, <1>8
<1>10. Boundary[m] = Boundary[m - 1] + Stages[m].duration
  BY <1>8, BoundaryUnfolds
<1>11. Boundary[m - 1] \in Nat /\ Boundary[i] \in Nat /\ Stages[m].duration \in Nat
  BY <1>1, <1>8, BoundaryType
<1>12. QED
  BY <1>6, <1>9, <1>10, <1>11

\* The stage of an instant: what CHOOSE in StageAt picks, for there is one to pick.
IsStageAt(elapsed, i) ==
  /\ i > Len(Stages) \/ elapsed < Boundary[i]
  /\ \A j \in 1..(i - 1) : elapsed >= Boundary[j]

LEMMA StageAtFacts ==
  ASSUME NEW elapsed \in Nat
  PROVE  StageAt(elapsed) \in 1..(Len(Stages) + 1) /\ IsStageAt(elapsed, StageAt(elapsed))
<1>1. Len(Stages) \in Nat
  BY StagesAssumption
<1>2. \E i \in 1..(Len(Stages) + 1) : IsStageAt(elapsed, i)
  <2> DEFINE Open == {i \in 1..Len(Stages) : elapsed < Boundary[i]}
  <2>1. CASE Open = {}
    <3>1. \A j \in 1..Len(Stages) : elapsed >= Boundary[j]
      <4>1. \A j \in 1..Len(Stages) : j \in 0..Len(Stages) /\ ~(elapsed < Boundary[j])
        BY <1>1, <2>1
      <4>2. QED
        BY <4>1, BoundaryType
    <3>2. IsStageAt(elapsed, Len(Stages) + 1) /\ Len(Stages) + 1 \in 1..(Len(Stages) + 1)
      BY <1>1, <3>1 DEF IsStageAt
    <3>3. QED
      BY <3>2
  <2>2. CASE Open # {}
    <3>1. Open \in SUBSET Nat
      BY <1>1
    <3>2. PICK i \in Open : \A n \in Open : i <= n
      BY <2>2, <3>1, LeastNatural
    <3>3. i \in 1..Len(Stages) /\ elapsed < Boundary[i]
      BY <3>2
    <3>4. ASSUME NEW j \in 1..(i - 1) PROVE elapsed >= Boundary[j]
      <4>1. j \in 1..Len(Stages) /\ j \in 0..Len(Stages) /\ ~(i <= j)
        BY <1>1, <3>3, <3>4
      <4>2. ~(elapsed < Boundary[j])
        BY <3>2, <4>1
      <4>3. QED
        BY <4>1, <4>2, BoundaryType
    <3>5. IsStageAt(elapsed, i) /\ i \in 1..(Len(Stages) + 1)
      BY <1>1, <3>3, <3>4 DEF IsStageAt
    <3>6. QED
      BY <3>5
  <2>3. QED
    BY <2>1, <2>2
<1>3. StageAt(elapsed) = CHOOSE i \in 1..(Len(Stages) + 1) : IsStageAt(elapsed, i)
  BY DEF StageAt, IsStageAt
<1>4. QED
  BY <1>2, <1>3

\* The slot after `scheduled` is not earlier, goes no further than the end of a stage that
\* `scheduled` is not past, and within the stage of `scheduled` is an interval later.
LEMMA StageNextFacts ==
  ASSUME NEW started \in Nat, NEW scheduled \in Nat, started <= scheduled, NEW at
  PROVE  /\ StageNext(started, scheduled, at) \in Nat
         /\ scheduled <= StageNext(started, scheduled, at)
         /\ \A i \in 1..Len(Stages) :
              scheduled < started + Boundary[i]
                => StageNext(started, scheduled, at) <= started + Boundary[i]
         /\ \A i \in 1..Len(Stages) :
              started + Boundary[i - 1] <= scheduled
                /\ StageNext(started, scheduled, at) < started + Boundary[i]
              => scheduled + Stages[i].interval <= StageNext(started, scheduled, at)
<1> DEFINE L == Len(Stages)
           elapsed == Later(0, scheduled - started)
           s == StageAt(elapsed)
           n == StageNext(started, scheduled, at)
<1>1. elapsed = scheduled - started /\ elapsed \in Nat
  BY DEF Later
<1>2. s \in 1..(L + 1) /\ IsStageAt(elapsed, s)
  <2> HIDE DEF elapsed
  <2>1. QED
    BY <1>1, StageAtFacts
<1>3. L \in Nat \ {0} /\ L \in 1..L /\ Stages[L].interval \in Nat
  BY StagesType
<1>4. n = IF s > L THEN scheduled + Stages[L].interval
          ELSE IF scheduled + Stages[s].interval <= started + Boundary[s]
               THEN scheduled + Stages[s].interval ELSE started + Boundary[s]
  BY DEF StageNext
<1> HIDE DEF elapsed, s, n, L
<1>5. CASE s > L
  <2>1. n = scheduled + Stages[L].interval
    BY <1>4, <1>5
  <2>2. ASSUME NEW i \in 1..L PROVE started + Boundary[i] <= scheduled
    <3>1. i \in 1..(s - 1) /\ i \in 0..L
      BY <1>2, <1>3, <1>5
    <3>2. elapsed >= Boundary[i] /\ Boundary[i] \in Nat
      BY <1>2, <3>1, BoundaryType DEF IsStageAt, L
    <3>3. QED
      BY <1>1, <3>2
  <2>3. \A i \in 1..L : Boundary[i] \in Nat
    BY <1>3, BoundaryType DEF L
  <2>4. n \in Nat /\ scheduled <= n
    BY <1>3, <2>1
  <2>5. \A i \in 1..L : ~(scheduled < started + Boundary[i]) /\ ~(n < started + Boundary[i])
    BY <2>2, <2>3, <2>4
  <2>6. QED
    BY <2>4, <2>5 DEF n, L
<1>6. CASE ~(s > L)
  <2>1. s \in 1..L /\ s \in 0..L /\ elapsed < Boundary[s] /\ Boundary[s] \in Nat
        /\ Stages[s].interval \in Nat
    <3>1. s \in 1..L /\ s \in 0..L
      BY <1>2, <1>3, <1>6
    <3>2. QED
      BY <1>2, <1>6, <3>1, StagesType, BoundaryType DEF IsStageAt, L
  <2>2. scheduled < started + Boundary[s]
    BY <1>1, <2>1
  <2>3. n \in Nat /\ scheduled <= n /\ n <= started + Boundary[s]
    BY <1>4, <1>6, <2>1, <2>2
  <2>4. ASSUME NEW i \in 1..L, scheduled < started + Boundary[i]
        PROVE  n <= started + Boundary[i]
    <3>1. i \in 0..L /\ Boundary[i] \in Nat
      BY <1>3, BoundaryType DEF L
    <3>2. CASE s <= i
      <4>1. Boundary[s] <= Boundary[i]
        BY <2>1, <3>1, <3>2, BoundaryGrows DEF L
      <4>2. QED
        BY <2>1, <2>3, <3>1, <4>1
    <3>3. CASE ~(s <= i)
      <4>1. i \in 1..(s - 1)
        BY <2>1, <3>3
      <4>2. elapsed >= Boundary[i]
        BY <1>2, <4>1 DEF IsStageAt
      <4>3. QED
        BY <1>1, <2>4, <3>1, <4>2
    <3>4. QED
      BY <3>2, <3>3
  <2>5. ASSUME NEW i \in 1..L, started + Boundary[i - 1] <= scheduled,
               n < started + Boundary[i]
        PROVE  scheduled + Stages[i].interval <= n
    <3>1. i \in 0..L /\ i - 1 \in 0..L /\ Boundary[i] \in Nat /\ Boundary[i - 1] \in Nat
      <4>1. i \in 0..L /\ i - 1 \in 0..L
        BY <1>3
      <4>2. QED
        BY <4>1, BoundaryType DEF L
    <3>2. ~(s < i)
      <4>1. SUFFICES ASSUME s < i PROVE FALSE
        OBVIOUS
      <4>2. s <= i - 1
        BY <2>1, <4>1
      <4>3. Boundary[s] <= Boundary[i - 1]
        BY <2>1, <3>1, <4>2, BoundaryGrows DEF L
      <4>4. QED
        BY <2>1, <2>2, <2>5, <3>1, <4>3
    <3>3. ~(i < s)
      <4>1. SUFFICES ASSUME i < s PROVE FALSE
        OBVIOUS
      <4>2. i \in 1..(s - 1)
        BY <2>1, <4>1
      <4>3. elapsed >= Boundary[i]
        BY <1>2, <4>2 DEF IsStageAt
      <4>4. QED
        BY <1>1, <2>3, <2>5, <3>1, <4>3
    <3>4. i = s
      BY <2>1, <3>2, <3>3
    <3>5. QED
      BY <1>4, <1>6, <2>1, <2>5, <3>4
  <2>6. QED
    BY <2>3, <2>4, <2>5 DEF n, L
<1>7. QED
  BY <1>5, <1>6

(***************************************************************************)
(* What the stage pacer keeps: the slots never go back, the next one is    *)
(* bounded by every boundary the last one is not past, and within the      *)
(* stage of the last one it is an interval later.                          *)
(***************************************************************************)
Ends(i) == stage.started + Boundary[i]

StageSlots ==
  /\ stage.started \in Nat /\ stage.next \in Nat
  /\ \A k \in 1..Len(log) :
       /\ log[k].slot \in Nat /\ stage.started <= log[k].slot
       /\ log[k].slot <= Last.slot
  /\ Last.slot <= stage.next

StageAhead ==
  \A i \in 1..Len(Stages) :
    /\ Last.slot < Ends(i) => stage.next <= Ends(i)
    /\ Ends(i - 1) <= Last.slot /\ stage.next < Ends(i)
         => Last.slot + Stages[i].interval <= stage.next

StageSpaced ==
  \A i \in 1..Len(Stages) : \A j, k \in 1..Len(log) :
    j < k /\ Ends(i - 1) <= log[j].slot /\ log[k].slot < Ends(i)
      => log[j].slot + Stages[i].interval <= log[k].slot

StageCrossed ==
  \A i \in 1..Len(Stages) : \A k \in 1..(Len(log) - 1) :
    log[k].slot < Ends(i) /\ log[k + 1].slot > Ends(i) => log[k + 1].slot = log[k + 1].asked

StageInv ==
  options.stages =>
    /\ log = <<>> => stage.started = NoTime /\ stage.next = NoTime
    /\ log # <<>> => StageSlots /\ StageAhead /\ StageSpaced /\ StageCrossed

LEMMA ReserveStageKeeps ==
  ASSUME PacerTypes, StageInv, NEW t \in Threads, ReserveStage(t)
  PROVE  StageInv'
<1> DEFINE started == IF stage.started = NoTime THEN asked[t] ELSE stage.started
           scheduled == Later(IF stage.next = NoTime THEN asked[t] ELSE stage.next, asked[t])
           n == StageNext(started, scheduled, asked[t])
<1>1. /\ options.stages /\ Reserves(t, scheduled)
      /\ stage' = [started |-> started, next |-> n]
  BY DEF ReserveStage
<1>2. stage'.started = started /\ stage'.next = n
  BY <1>1
<1>3. asked[t] \in Nat
  BY DEF PacerTypes
<1>4. /\ started \in Nat /\ scheduled \in Nat /\ started <= scheduled
      /\ asked[t] <= scheduled
      /\ log # <<>> => /\ started = stage.started /\ Last.slot <= stage.next
                       /\ stage.next <= scheduled
                       /\ (scheduled = stage.next \/ scheduled = asked[t])
  <2>1. CASE log = <<>>
    BY <1>1, <1>3, <2>1 DEF StageInv, Later
  <2>2. CASE log # <<>>
    <3>1. /\ stage.started \in Nat /\ stage.next \in Nat /\ Last.slot <= stage.next
          /\ stage.started <= Last.slot /\ Last.slot \in Nat
      <4>1. Len(log) \in 1..Len(log)
        BY <1>1, <2>2, ReservesFacts
      <4>2. QED
        BY <1>1, <2>2, <4>1 DEF StageInv, StageSlots, Last
    <3>2. stage.started # NoTime /\ stage.next # NoTime
      BY <3>1 DEF NoTime
    <3>3. started = stage.started /\ scheduled = Later(stage.next, asked[t])
      BY <3>2
    <3> HIDE DEF started, scheduled
    <3>4. QED
      BY <1>3, <3>1, <3>3 DEF Later
  <2>3. QED
    BY <2>1, <2>2
<1> HIDE DEF started, scheduled
<1>5. /\ n \in Nat /\ scheduled <= n
      /\ \A i \in 1..Len(Stages) : scheduled < started + Boundary[i] => n <= started + Boundary[i]
      /\ \A i \in 1..Len(Stages) :
           started + Boundary[i - 1] <= scheduled /\ n < started + Boundary[i]
             => scheduled + Stages[i].interval <= n
  BY <1>4, StageNextFacts
<1> HIDE DEF n
<1>6. /\ UNCHANGED options /\ IsSeq(log') /\ Len(log) \in Nat /\ Len(log') = Len(log) + 1
      /\ log' # <<>> /\ \A k \in 1..Len(log) : log'[k] = log[k]
      /\ log # <<>> => Len(log) \in 1..Len(log)
  BY <1>1, ReservesFacts
<1>7. log'[Len(log')].slot = scheduled /\ log'[Len(log')].asked = asked[t]
  <2>1. log'[Len(log')] = [entry |-> entry[t], asked |-> asked[t], slot |-> scheduled]
    BY <1>1, ReservesFacts
  <2>2. QED
    BY <2>1
<1>8. Last' = log'[Len(log')]
  BY DEF Last
<1>9. ASSUME NEW k \in 1..Len(log)
      PROVE  /\ log # <<>> /\ log'[k] = log[k] /\ log[k].slot \in Nat
             /\ started <= log[k].slot /\ log[k].slot <= Last.slot /\ Last.slot \in Nat
             /\ started = stage.started
  <2>1. log # <<>>
    <3>1. Len(log) # 0
      BY <1>6, <1>9
    <3>2. QED
      BY <3>1
  <2>2. QED
    BY <1>1, <1>4, <1>6, <1>9, <2>1 DEF StageInv, StageSlots, Last
<1>10. \A i \in 1..Len(Stages) :
         Boundary[i] \in Nat /\ Boundary[i - 1] \in Nat /\ Stages[i].interval \in Nat
  <2>1. \A i \in 1..Len(Stages) : i \in 0..Len(Stages) /\ i - 1 \in 0..Len(Stages)
    BY StagesType
  <2>2. QED
    BY <2>1, BoundaryType, StagesType
<1>11. \A i : Ends(i)' = started + Boundary[i]
  BY <1>2 DEF Ends
<1>12. StageSlots'
  <2>1. ASSUME NEW k \in 1..Len(log')
        PROVE  log'[k].slot \in Nat /\ started <= log'[k].slot /\ log'[k].slot <= scheduled
    <3>1. CASE k = Len(log')
      BY <1>4, <1>7, <3>1
    <3>2. CASE k # Len(log')
      <4>1. k \in 1..Len(log)
        BY <1>6, <3>2
      <4>2. stage.next \in Nat
        BY <1>1, <1>9, <4>1 DEF StageInv, StageSlots
      <4>3. QED
        BY <1>4, <1>9, <4>1, <4>2
    <3>3. QED
      BY <3>1, <3>2
  <2>2. QED
    BY <1>2, <1>4, <1>5, <1>7, <1>8, <2>1 DEF StageSlots
<1>13. StageAhead'
  BY <1>2, <1>5, <1>7, <1>8, <1>11 DEF StageAhead
<1>14. StageSpaced'
  <2> SUFFICES ASSUME NEW i \in 1..Len(Stages), NEW j \in 1..Len(log'), NEW k \in 1..Len(log'),
                      j < k, started + Boundary[i - 1] <= log'[j].slot,
                      log'[k].slot < started + Boundary[i]
               PROVE  log'[j].slot + Stages[i].interval <= log'[k].slot
    BY <1>11 DEF StageSpaced
  <2>1. j \in 1..Len(log)
    BY <1>6
  <2>2. /\ log # <<>> /\ log'[j] = log[j] /\ log[j].slot \in Nat /\ log[j].slot <= Last.slot
        /\ Last.slot \in Nat /\ started = stage.started
    BY <1>9, <2>1
  <2>3. StageSlots /\ StageAhead /\ StageSpaced /\ stage.next \in Nat
    BY <1>1, <2>2 DEF StageInv, StageSlots
  <2>4. \A m : Ends(m) = started + Boundary[m]
    BY <2>2 DEF Ends
  <2>5. CASE k # Len(log')
    <3>1. k \in 1..Len(log)
      BY <1>6, <2>5
    <3>2. QED
      BY <1>9, <2>1, <2>2, <2>3, <2>4, <3>1 DEF StageSpaced
  <2>6. CASE k = Len(log')
    <3>1. log'[k].slot = scheduled
      BY <1>7, <2>6
    <3>2. /\ Boundary[i] \in Nat /\ Boundary[i - 1] \in Nat /\ Stages[i].interval \in Nat
      BY <1>10
    <3>3. /\ started + Boundary[i - 1] <= Last.slot /\ stage.next < started + Boundary[i]
      <4>1. started + Boundary[i - 1] <= log[j].slot /\ log[j].slot <= Last.slot
        BY <2>2
      <4>2. stage.next <= scheduled /\ scheduled < started + Boundary[i]
        BY <1>4, <2>2, <3>1
      <4>3. started + Boundary[i - 1] \in Nat /\ started + Boundary[i] \in Nat
        <5>1. started \in Nat
          BY <1>4
        <5>2. QED
          BY <3>2, <5>1
      <4>4. log[j].slot \in Nat /\ Last.slot \in Nat
        BY <2>2
      <4>5. started + Boundary[i - 1] <= Last.slot
        BY <4>1, <4>3, <4>4
      <4>6. stage.next < started + Boundary[i]
        BY <1>4, <2>3, <4>2, <4>3
      <4>7. QED
        BY <4>5, <4>6
    <3>4. Last.slot + Stages[i].interval <= stage.next
      BY <2>3, <2>4, <3>3 DEF StageAhead
    <3>5. log[j].slot + Stages[i].interval <= stage.next
      BY <2>2, <2>3, <3>2, <3>4
    <3>6. /\ log[j].slot \in Nat /\ stage.next <= scheduled /\ log'[j].slot = log[j].slot
          /\ scheduled \in Nat /\ stage.next \in Nat
      BY <1>4, <2>2, <2>3
    <3>7. log[j].slot + Stages[i].interval <= scheduled
      BY <3>2, <3>5, <3>6
    <3>8. QED
      BY <3>1, <3>6, <3>7
  <2>7. QED
    BY <2>5, <2>6
<1>15. StageCrossed'
  <2> SUFFICES ASSUME NEW i \in 1..Len(Stages), NEW k \in 1..(Len(log') - 1),
                      log'[k].slot < started + Boundary[i],
                      log'[k + 1].slot > started + Boundary[i]
               PROVE  log'[k + 1].slot = log'[k + 1].asked
    BY <1>11 DEF StageCrossed
  <2>1. k \in 1..Len(log)
    BY <1>6
  <2>2. log # <<>> /\ log'[k] = log[k] /\ started = stage.started
    BY <1>9, <2>1
  <2>3. StageSlots /\ StageAhead /\ StageCrossed /\ stage.next \in Nat
    BY <1>1, <2>2 DEF StageInv, StageSlots
  <2>4. \A m : Ends(m) = started + Boundary[m]
    BY <2>2 DEF Ends
  <2>5. CASE k = Len(log)
    <3>1. log[k] = Last /\ k + 1 = Len(log')
      BY <1>6, <2>5 DEF Last
    <3>2. stage.next <= started + Boundary[i]
      BY <2>2, <2>3, <2>4, <3>1 DEF StageAhead
    <3>3. scheduled > started + Boundary[i] /\ Boundary[i] \in Nat
      BY <1>7, <1>10, <3>1
    <3>4. scheduled # stage.next
      BY <1>4, <2>3, <3>2, <3>3
    <3>5. QED
      BY <1>4, <1>7, <2>2, <3>1, <3>4
  <2>6. CASE k # Len(log)
    <3>1. k \in 1..(Len(log) - 1) /\ k + 1 \in 1..Len(log)
      BY <1>6, <2>1, <2>6
    <3>2. log'[k + 1] = log[k + 1]
      BY <1>6, <3>1
    <3>3. QED
      BY <2>2, <2>3, <2>4, <3>1, <3>2 DEF StageCrossed
  <2>7. QED
    BY <2>5, <2>6
<1>16. QED
  BY <1>6, <1>12, <1>13, <1>14, <1>15 DEF StageInv

LEMMA NextStageInv ==
  ASSUME PacerTypes, StageInv, [Next]_vars
  PROVE  StageInv'
<1>1. ASSUME UNCHANGED <<options, stage, log>> PROVE StageInv'
  BY <1>1 DEF StageInv, StageSlots, StageAhead, StageSpaced, StageCrossed, Ends, Last
<1>2. CASE UNCHANGED vars
  BY <1>1, <1>2 DEF vars
<1>3. CASE Tick
  BY <1>1, <1>3 DEF Tick, pacers
<1>4. ASSUME NEW t \in Threads, Step(t) PROVE StageInv'
  <2>1. CASE \E i : Selects(t, i)
    BY <1>1, <2>1 DEF Selects, pacers
  <2>2. CASE ReadClock(t)
    BY <1>1, <2>2 DEF ReadClock, pacers
  <2>3. CASE Unpaced(t) \/ ReserveRate(t) \/ ReserveTimestamp(t)
    <3>1. ~options.stages /\ options' = options
      BY <2>3, OnePacer DEF Unpaced, ReserveRate, ReserveTimestamp, Reserves
    <3>2. QED
      BY <3>1 DEF StageInv
  <2>4. CASE ReserveStage(t)
    BY <2>4, ReserveStageKeeps
  <2>5. QED
    BY <1>4, <2>1, <2>2, <2>3, <2>4
       DEF Step, SelectSequential, SelectRandom, SelectShuffle, SelectTimestamp
<1>5. QED
  BY <1>2, <1>3, <1>4 DEF Next

LEMMA StageInvQuota ==
  ASSUME PacerTypes, StageInv
  PROVE  StageQuota
<1> SUFFICES ASSUME options.stages, stage.started # NoTime, NEW i \in 1..Len(Stages)
             PROVE  /\ \A j, k \in SlotsOfStage(i) :
                         j < k => log[j].slot + Stages[i].interval <= log[k].slot
                    /\ \A k \in 1..(Len(log) - 1) :
                         log[k].slot < stage.started + Boundary[i]
                           /\ log[k + 1].slot > stage.started + Boundary[i]
                         => log[k + 1].slot = log[k + 1].asked
  BY DEF StageQuota
<1>1. StageSlots /\ StageSpaced /\ StageCrossed
  BY DEF StageInv
<1>2. Boundary[i] \in Nat /\ Boundary[i - 1] \in Nat
  <2>1. i \in 0..Len(Stages) /\ i - 1 \in 0..Len(Stages)
    BY StagesType
  <2>2. QED
    BY <2>1, BoundaryType
<1>3. ASSUME NEW j \in SlotsOfStage(i)
      PROVE  j \in 1..Len(log) /\ Ends(i - 1) <= log[j].slot /\ log[j].slot < Ends(i)
  <2>1. /\ j \in 1..Len(log) /\ Boundary[i - 1] <= log[j].slot - stage.started
        /\ log[j].slot - stage.started < Boundary[i]
    BY <1>3 DEF SlotsOfStage
  <2>2. log[j].slot \in Nat /\ stage.started \in Nat
    BY <1>1, <2>1 DEF StageSlots
  <2>3. QED
    BY <1>2, <2>1, <2>2 DEF Ends
<1>4. \A j, k \in SlotsOfStage(i) : j < k => log[j].slot + Stages[i].interval <= log[k].slot
  BY <1>1, <1>3 DEF StageSpaced
<1>5. QED
  BY <1>1, <1>4 DEF StageCrossed, Ends

\* A stage gives out no more slots than its rate allows, an interval apart, and the first slot
\* beyond its end is at the end unless the caller came later: StagePacer::reserve.
THEOREM StagesKeepRate == Spec => []StageQuota
<1>1. Init => StageInv
  <2>1. Init => log = <<>> /\ stage.started = NoTime /\ stage.next = NoTime
    BY DEF Init
  <2>2. QED
    BY <2>1 DEF StageInv
<1>2. IInv /\ StageInv /\ [Next]_vars => StageInv'
  BY NextStageInv DEF IInv
<1>3. IInv /\ StageInv => StageQuota
  BY StageInvQuota DEF IInv
<1>4. QED
  BY <1>1, <1>2, <1>3, PacersKeepInvariant, PTL DEF Spec

(***************************************************************************)
(* The rounds.  An order is a permutation of the entries; the first p of   *)
(* them are one draw ahead of the others.                                  *)
(***************************************************************************)
IsPermutation(f) ==
  /\ f \in [Entries -> Entries]
  /\ \A a, b \in Entries : f[a] = f[b] => a = b
  /\ \A i \in Entries : \E a \in Entries : f[a] = i

InRound(d, f, p, round) ==
  \A a \in Entries : d[f[a]] = IF a <= p THEN round + 1 ELSE round

Even(d, f, p) == d \in [Entries -> Nat] /\ \E round \in Nat : InRound(d, f, p, round)

InOrder == [i \in Entries |-> i]

LEMMA InOrderPermutes == IsPermutation(InOrder)
BY DEF IsPermutation, InOrder

LEMMA SwapPermutes ==
  ASSUME NEW f, IsPermutation(f), NEW i \in Entries, NEW j \in Entries
  PROVE  IsPermutation(Swap(f, i, j))
<1> DEFINE g == Swap(f, i, j)
<1>1. f \in [Entries -> Entries] /\ \A a, b \in Entries : f[a] = f[b] => a = b
  BY DEF IsPermutation
<1>2. /\ g \in [Entries -> Entries] /\ g[j] = f[i] /\ (i # j => g[i] = f[j])
      /\ (i = j => g[i] = f[j])
      /\ \A a \in Entries : a # i /\ a # j => g[a] = f[a]
  BY <1>1 DEF Swap
<1>3. \A a, b \in Entries : g[a] = g[b] => a = b
  <2> HIDE DEF g
  <2>1. QED
    BY <1>1, <1>2
<1>4. ASSUME NEW e \in Entries PROVE \E a \in Entries : g[a] = e
  <2> HIDE DEF g
  <2>1. PICK a \in Entries : f[a] = e
    BY DEF IsPermutation
  <2>2. CASE a = i
    BY <1>2, <2>1, <2>2
  <2>3. CASE a = j
    BY <1>2, <2>1, <2>3
  <2>4. CASE a # i /\ a # j
    BY <1>2, <2>1, <2>4
  <2>5. QED
    BY <2>2, <2>3, <2>4
<1>5. QED
  BY <1>2, <1>3, <1>4 DEF IsPermutation

LEMMA PermutationLen ==
  ASSUME NEW f, IsPermutation(f)
  PROVE  f \in Seq(Entries) /\ Len(f) = Len(Stamps) /\ Len(Stamps) \in Nat \ {0}
<1>1. Len(Stamps) \in Nat \ {0}
  BY StampsAssumption
<1>2. f \in [1..Len(Stamps) -> Entries]
  BY DEF IsPermutation, Entries
<1>3. QED
  BY <1>1, <1>2

\* The shuffles after the positions from L down to m have been swapped.
SwapsAt(i, S) == {Swap(t, i, j) : t \in S, j \in 1..i}

Swapped(g, s, m) ==
  g = [i \in m..(Len(s) + 1) |-> IF i > Len(s) THEN {s} ELSE SwapsAt(i, g[i + 1])]

LEMMA SwappedExists ==
  ASSUME NEW s, Len(s) \in Nat, Len(s) >= 2
  PROVE  \E g : Swapped(g, s, 2)
<1> DEFINE L == Len(s)
           Bad == {n \in 0..L : ~\E g : Swapped(g, s, L + 1 - n)}
<1>1. L \in Nat /\ L >= 2
  OBVIOUS
<1> HIDE DEF L
<1>2. SUFFICES ASSUME Bad # {} PROVE FALSE
  <2>1. Bad = {} => \E g : Swapped(g, s, L + 1 - (L - 1))
    <3>1. L - 1 \in 0..L
      BY <1>1
    <3>2. QED
      BY <3>1
  <2>2. L + 1 - (L - 1) = 2
    BY <1>1
  <2>3. QED
    BY <1>2, <2>1, <2>2
<1>3. Bad \in SUBSET Nat
  BY <1>1
<1>4. PICK m \in Bad : \A n \in Bad : m <= n
  BY <1>2, <1>3, LeastNatural
<1>5. m \in 0..L /\ ~\E g : Swapped(g, s, L + 1 - m)
  BY <1>4
<1>6. m # 0
  <2>1. Swapped([i \in (L + 1)..(L + 1) |-> {s}], s, L + 1)
    BY <1>1 DEF Swapped, L
  <2>2. L + 1 - 0 = L + 1
    BY <1>1
  <2>3. QED
    BY <1>5, <2>1, <2>2
<1>7. m - 1 \in 0..L /\ m - 1 \notin Bad
  <2>1. m - 1 \in 0..L /\ ~(m <= m - 1)
    BY <1>1, <1>5, <1>6
  <2>2. QED
    BY <1>4, <2>1
<1>8. PICK g : Swapped(g, s, L + 1 - (m - 1))
  BY <1>7
<1> DEFINE p == L + 1 - m
<1>9. p \in Int /\ L + 1 - (m - 1) = p + 1 /\ p <= L
  BY <1>1, <1>5, <1>6
<1> HIDE DEF p
<1>10. Swapped(g, s, p + 1)
  BY <1>8, <1>9
<1> DEFINE h == [i \in p..(L + 1) |-> IF i = p THEN SwapsAt(p, g[p + 1]) ELSE g[i]]
<1>11. \A i \in (p + 1)..(L + 1) : g[i] = IF i > L THEN {s} ELSE SwapsAt(i, g[i + 1])
  BY <1>1, <1>9, <1>10 DEF Swapped, L
<1>12. ASSUME NEW i \in p..(L + 1)
       PROVE  h[i] = IF i > L THEN {s} ELSE SwapsAt(i, h[i + 1])
  <2>1. CASE i = p
    <3>1. p + 1 \in p..(L + 1) /\ p + 1 # p /\ ~(i > L)
      BY <1>1, <1>9, <2>1
    <3>2. h[p + 1] = g[p + 1]
      BY <3>1
    <3>3. QED
      BY <2>1, <3>1, <3>2
  <2>2. CASE i # p
    <3>1. i \in (p + 1)..(L + 1) /\ h[i] = g[i]
      BY <1>1, <1>9, <2>2
    <3>2. ~(i > L) => i + 1 \in p..(L + 1) /\ i + 1 # p
      BY <1>1, <1>9, <2>2
    <3>3. ~(i > L) => h[i + 1] = g[i + 1]
      BY <3>2
    <3>4. QED
      BY <1>11, <3>1, <3>3
  <2>3. QED
    BY <2>1, <2>2
<1>13. h = [i \in p..(L + 1) |-> IF i > L THEN {s} ELSE SwapsAt(i, h[i + 1])]
  BY <1>12
<1>14. Swapped(h, s, p)
  <2> HIDE DEF h
  <2>1. QED
    BY <1>13 DEF Swapped, L
<1>15. QED
  BY <1>5, <1>14 DEF p

\* reshuffle only ever permutes: whatever the random state chooses, no entry is lost.
LEMMA ReshufflesPermute ==
  ASSUME NEW s, IsPermutation(s), NEW u \in Reshuffles(s)
  PROVE  IsPermutation(u)
<1> DEFINE L == Len(s)
           g == CHOOSE f : Swapped(f, s, 2)
<1>1. L \in Nat \ {0} /\ Entries = 1..L
  BY PermutationLen DEF Entries
<1>2. CASE L < 2
  <2>1. u = s
    BY <1>2 DEF Reshuffles
  <2>2. QED
    BY <2>1
<1>3. CASE ~(L < 2)
  <2>1. Reshuffles(s) = g[2]
    BY <1>3 DEF Reshuffles, Swapped, SwapsAt
  <2>2. Swapped(g, s, 2)
    BY <1>1, <1>3, SwappedExists
  <2> HIDE DEF g, L
  <2>3. \A i \in 2..(L + 1) : g[i] = IF i > L THEN {s} ELSE SwapsAt(i, g[i + 1])
    BY <2>2 DEF Swapped, L
  <2> DEFINE Bad == {n \in 0..(L - 1) : \E v \in g[L + 1 - n] : ~IsPermutation(v)}
  <2>4. Bad = {}
    <3> SUFFICES ASSUME Bad # {} PROVE FALSE
      OBVIOUS
    <3>1. Bad \in SUBSET Nat
      BY <1>1
    <3>2. PICK m \in Bad : \A n \in Bad : m <= n
      BY <3>1, LeastNatural
    <3>3. PICK v \in g[L + 1 - m] : ~IsPermutation(v)
      BY <3>2
    <3>4. m \in 0..(L - 1)
      BY <3>2
    <3> DEFINE i == L + 1 - m
    <3>5. i \in 2..(L + 1) /\ (m # 0 => i <= L) /\ (m = 0 => i > L)
      BY <1>1, <3>4
    <3> HIDE DEF i
    <3>6. m # 0
      <4>1. ASSUME m = 0 PROVE v = s
        <5>1. v \in {s}
          BY <1>1, <2>3, <3>3, <3>5, <4>1 DEF i
        <5>2. QED
          BY <5>1
      <4>2. QED
        BY <3>3, <4>1
    <3>7. L + 1 - (m - 1) = i + 1 /\ m - 1 \in 0..(L - 1) /\ ~(m <= m - 1) /\ ~(i > L)
      BY <1>1, <3>4, <3>5, <3>6 DEF i
    <3>8. \A w \in g[i + 1] : IsPermutation(w)
      <4>1. m - 1 \notin Bad
        BY <3>2, <3>7
      <4>2. \A w \in g[L + 1 - (m - 1)] : IsPermutation(w)
        BY <3>7, <4>1
      <4>3. QED
        BY <3>7, <4>2
    <3>9. v \in SwapsAt(i, g[i + 1])
      <4>1. v \in g[i]
        BY <3>3 DEF i
      <4>2. QED
        BY <2>3, <3>5, <3>7, <4>1
    <3>10. PICK w \in g[i + 1], j \in 1..i : v = Swap(w, i, j)
      BY <3>9 DEF SwapsAt
    <3>11. i \in Entries /\ j \in Entries /\ IsPermutation(w)
      BY <1>1, <3>5, <3>7, <3>8, <3>10
    <3>12. QED
      BY <3>3, <3>10, <3>11, SwapPermutes
  <2>5. L - 1 \in 0..(L - 1) /\ L + 1 - (L - 1) = 2
    BY <1>1, <1>3
  <2>6. \A v \in g[L + 1 - (L - 1)] : IsPermutation(v)
    BY <2>4, <2>5
  <2>7. QED
    BY <2>1, <2>5, <2>6
<1>4. QED
  BY <1>2, <1>3

\* Drawing the next entry of the order moves the round one entry on.
LEMMA DrawInRound ==
  ASSUME NEW d, NEW f, IsPermutation(f), NEW p \in Nat, Even(d, f, p), p + 1 \in Entries
  PROVE  Even([d EXCEPT ![f[p + 1]] = @ + 1], f, p + 1)
<1> DEFINE e == f[p + 1]
           after == [d EXCEPT ![e] = @ + 1]
<1>1. PICK round \in Nat : InRound(d, f, p, round)
  BY DEF Even
<1>2. d \in [Entries -> Nat] /\ e \in Entries /\ f \in [Entries -> Entries]
  BY DEF Even, IsPermutation
<1>3. after \in [Entries -> Nat]
  BY <1>2
<1>4. ASSUME NEW a \in Entries
      PROVE  after[f[a]] = IF a <= p + 1 THEN round + 1 ELSE round
  <2>1. a \in Nat /\ f[a] \in Entries /\ d[f[a]] = IF a <= p THEN round + 1 ELSE round
    BY <1>1, <1>2 DEF InRound, Entries
  <2>2. CASE a = p + 1
    <3>1. after[f[a]] = d[f[a]] + 1
      BY <1>2, <2>2
    <3> HIDE DEF after
    <3>2. QED
      BY <2>1, <2>2, <3>1
  <2>3. CASE a # p + 1
    <3>1. f[a] # e
      BY <2>3 DEF IsPermutation
    <3>2. after[f[a]] = d[f[a]]
      BY <1>2, <2>1, <3>1
    <3> HIDE DEF after
    <3>3. a <= p + 1 <=> a <= p
      BY <2>1, <2>3
    <3>4. QED
      BY <2>1, <3>2, <3>3
  <2>4. QED
    BY <2>2, <2>3
<1>5. InRound(after, f, p + 1, round)
  BY <1>4 DEF InRound
<1>6. QED
  BY <1>3, <1>5 DEF Even

\* When every entry has been drawn the next round may take them in any order.
LEMMA RoundEnds ==
  ASSUME NEW d, NEW f, IsPermutation(f), NEW g, IsPermutation(g), Even(d, f, Len(Stamps))
  PROVE  Even(d, g, 0)
<1>1. PICK round \in Nat : InRound(d, f, Len(Stamps), round)
  BY DEF Even
<1>2. \A a \in Entries : a <= Len(Stamps) /\ a \in Nat /\ ~(a <= 0)
  BY StampsAssumption DEF Entries
<1>3. \A a \in Entries : d[f[a]] = round + 1
  BY <1>1, <1>2 DEF InRound
<1>4. \A i \in Entries : d[i] = round + 1
  BY <1>3 DEF IsPermutation
<1>5. InRound(d, g, 0, round + 1)
  BY <1>2, <1>4 DEF InRound, IsPermutation
<1>6. round + 1 \in Nat
  BY <1>1
<1>7. QED
  BY <1>5, <1>6 DEF Even

Leaves(n, L, r) == \E q \in Int : n = L * q + r

LEMMA Division ==
  ASSUME NEW n \in Int, NEW L \in Int, L > 0, NEW r \in Int, r = n % L
  PROVE  Leaves(n, L, r)
BY SMTT(20) DEF Leaves

\* The counter of the sequential order, modulo the entries.
LEMMA NextRemainder ==
  ASSUME NEW n \in Nat, NEW L \in Nat \ {0}
  PROVE  /\ n % L \in 0..(L - 1)
         /\ (n + 1) % L = IF (n % L) + 1 = L THEN 0 ELSE (n % L) + 1
<1> DEFINE r == n % L
           y == (n + 1) % L
<1>1. r \in 0..(L - 1) /\ y \in 0..(L - 1)
  OBVIOUS
<1>2. r = n % L /\ y = (n + 1) % L
  OBVIOUS
<1> HIDE DEF r, y
<1>3. n \in Int /\ n + 1 \in Int /\ r \in Int /\ y \in Int /\ L \in Int /\ L > 0
  BY <1>1
<1>4. PICK q \in Int : n = L * q + r
  <2>1. Leaves(n, L, r)
    BY <1>2, <1>3, Division
  <2>2. QED
    BY <2>1 DEF Leaves
<1>5. PICK x \in Int : n + 1 = L * x + y
  <2>1. Leaves(n + 1, L, y)
    BY <1>2, <1>3, Division
  <2>2. QED
    BY <2>1 DEF Leaves
<1>6. L * (x - q) = r + 1 - y
  BY <1>1, <1>4, <1>5
<1>7. x - q \in {0, 1}
  <2>1. ASSUME x - q >= 2 PROVE FALSE
    <3>1. L * (x - q) >= L * 2
      BY <1>1, <2>1
    <3>2. QED
      BY <1>1, <1>6, <3>1
  <2>2. ASSUME x - q <= -1 PROVE FALSE
    <3>1. L * (x - q) <= L * (-1)
      BY <1>1, <2>2
    <3>2. QED
      BY <1>1, <1>6, <3>1
  <2>3. QED
    BY <1>1, <2>1, <2>2
<1>8. CASE x - q = 0
  <2>1. L * (x - q) = 0
    BY <1>1, <1>8
  <2>2. y = r + 1 /\ r + 1 # L
    BY <1>1, <1>6, <2>1
  <2>3. QED
    BY <1>1, <2>2 DEF r, y
<1>9. CASE x - q = 1
  <2>1. L * (x - q) = L
    BY <1>1, <1>9
  <2>2. y = 0 /\ r + 1 = L
    BY <1>1, <1>6, <2>1
  <2>3. QED
    BY <1>1, <2>2 DEF r, y
<1>10. QED
  BY <1>7, <1>8, <1>9

(***************************************************************************)
(* What the selections keep.                                               *)
(***************************************************************************)
SequentialInv ==
  options.order = "sequential" /\ ~options.timestamps =>
    next \in Nat /\ Even(drawn, InOrder, next % Len(Stamps))

TimestampInv == options.timestamps => Even(drawn, InOrder, cursor - 1)

ShuffleInv ==
  options.order = "shuffle" =>
    /\ IsPermutation(indices) /\ offset \in 0..Len(Stamps)
    /\ Even(drawn, indices, offset)

RoundInv == SequentialInv /\ TimestampInv /\ ShuffleInv

LEMMA InitRoundInv == Init => RoundInv
<1> SUFFICES ASSUME Init PROVE RoundInv
  OBVIOUS
<1>1. drawn = [i \in Entries |-> 0] /\ next = 0 /\ cursor = 1 /\ offset = 0
  BY DEF Init
<1>2. Len(Stamps) \in Nat \ {0} /\ \A a \in Entries : ~(a <= 0)
  BY StampsAssumption DEF Entries
<1>3. ASSUME NEW f, IsPermutation(f) PROVE Even(drawn, f, 0)
  <2>1. InRound(drawn, f, 0, 0) /\ drawn \in [Entries -> Nat]
    BY <1>1, <1>2, <1>3 DEF InRound, IsPermutation
  <2>2. QED
    BY <2>1 DEF Even
<1>4. SequentialInv
  <2>1. 0 % Len(Stamps) = 0
    BY <1>2
  <2>2. QED
    BY <1>1, <1>3, <2>1, InOrderPermutes DEF SequentialInv
<1>5. TimestampInv
  <2>1. cursor - 1 = 0
    BY <1>1
  <2>2. QED
    BY <1>3, <2>1, InOrderPermutes DEF TimestampInv
<1>6. ShuffleInv
  <2>1. SUFFICES ASSUME options.order = "shuffle" PROVE IsPermutation(indices)
    BY <1>1, <1>2, <1>3 DEF ShuffleInv
  <2>2. indices \in Reshuffles(InOrder)
    BY <2>1 DEF Init, InOrder
  <2>3. QED
    BY <2>2, InOrderPermutes, ReshufflesPermute
<1>7. QED
  BY <1>4, <1>5, <1>6 DEF RoundInv

LEMMA SelectSequentialRounds ==
  ASSUME PacerTypes, RoundInv, NEW t \in Threads, SelectSequential(t)
  PROVE  RoundInv'
<1> DEFINE L == Len(Stamps)
           r == next % L
<1>1. /\ options.order = "sequential" /\ ~options.timestamps /\ options' = options
      /\ next' = next + 1 /\ drawn' = [drawn EXCEPT ![r + 1] = @ + 1]
  BY DEF SelectSequential, Selects
<1>2. next \in Nat /\ Even(drawn, InOrder, r)
  BY <1>1 DEF RoundInv, SequentialInv
<1>3. L \in Nat \ {0}
  BY StampsAssumption
<1>4. r \in 0..(L - 1) /\ next' % L = IF r + 1 = L THEN 0 ELSE r + 1
  BY <1>1, <1>2, <1>3, NextRemainder
<1> HIDE DEF r
<1>5. r \in Nat /\ r + 1 \in Entries
  BY <1>3, <1>4 DEF Entries
<1>6. InOrder[r + 1] = r + 1
  BY <1>5 DEF InOrder
<1>7. Even(drawn', InOrder, r + 1)
  BY <1>1, <1>2, <1>5, <1>6, DrawInRound, InOrderPermutes
<1>8. Even(drawn', InOrder, next' % L)
  <2>1. CASE r + 1 = L
    BY <1>4, <1>7, <2>1, RoundEnds, InOrderPermutes
  <2>2. CASE r + 1 # L
    BY <1>4, <1>7, <2>2
  <2>3. QED
    BY <2>1, <2>2
<1>9. SequentialInv'
  BY <1>1, <1>2, <1>8 DEF SequentialInv
<1>10. QED
  BY <1>1, <1>9 DEF RoundInv, TimestampInv, ShuffleInv

LEMMA SelectTimestampRounds ==
  ASSUME PacerTypes, RoundInv, NEW t \in Threads, SelectTimestamp(t)
  PROVE  RoundInv'
<1> DEFINE L == Len(Stamps)
<1>1. /\ options.timestamps /\ options' = options
      /\ cursor' = (cursor % L) + 1 /\ drawn' = [drawn EXCEPT ![cursor] = @ + 1]
  BY DEF SelectTimestamp, Selects
<1>2. options.order = "sequential"
  BY <1>1, OnePacer
<1>3. L \in Nat \ {0} /\ cursor \in 1..L
  BY StampsAssumption DEF PacerTypes, Entries
<1> DEFINE p == cursor - 1
<1>4. p \in Nat /\ p + 1 = cursor /\ p + 1 \in Entries
  BY <1>3 DEF Entries
<1>5. Even(drawn, InOrder, p)
  BY <1>1 DEF RoundInv, TimestampInv
<1> HIDE DEF p
<1>6. InOrder[p + 1] = cursor
  BY <1>4 DEF InOrder
<1>7. Even(drawn', InOrder, p + 1)
  BY <1>1, <1>4, <1>5, <1>6, DrawInRound, InOrderPermutes
<1>8. Even(drawn', InOrder, cursor' - 1)
  <2>1. CASE cursor = L
    <3>1. cursor % L = 0
      BY <1>3, <2>1
    <3>2. cursor' - 1 = 0 /\ p + 1 = L
      BY <1>1, <1>4, <2>1, <3>1
    <3>3. QED
      BY <1>7, <3>2, RoundEnds, InOrderPermutes
  <2>2. CASE cursor # L
    <3>1. cursor % L = cursor
      BY <1>3, <2>2
    <3>2. cursor' - 1 = p + 1
      BY <1>1, <1>3, <1>4, <3>1
    <3>3. QED
      BY <1>7, <3>2
  <2>3. QED
    BY <2>1, <2>2
<1>9. TimestampInv'
  BY <1>8 DEF TimestampInv
<1>10. QED
  BY <1>1, <1>2, <1>9 DEF RoundInv, SequentialInv, ShuffleInv

LEMMA SelectShuffleRounds ==
  ASSUME PacerTypes, RoundInv, NEW t \in Threads, SelectShuffle(t)
  PROVE  RoundInv'
<1> DEFINE L == Len(Stamps)
           p == offset' - 1
<1>1. /\ options.order = "shuffle" /\ options' = options
      /\ drawn' = [drawn EXCEPT ![indices'[offset']] = @ + 1]
      /\ IF offset = Len(indices)
         THEN indices' \in Reshuffles(indices) /\ offset' = 1
         ELSE indices' = indices /\ offset' = offset + 1
  BY DEF SelectShuffle, Selects
<1>2. IsPermutation(indices) /\ offset \in 0..L /\ Even(drawn, indices, offset)
  BY <1>1 DEF RoundInv, ShuffleInv
<1>3. Len(indices) = L /\ L \in Nat \ {0}
  BY <1>2, PermutationLen
<1>4. /\ IsPermutation(indices') /\ p \in Nat /\ p + 1 = offset' /\ p + 1 \in 1..L
      /\ Even(drawn, indices', p)
  <2>1. CASE offset = L
    <3>1. offset' = 1 /\ IsPermutation(indices')
      BY <1>1, <1>2, <1>3, <2>1, ReshufflesPermute
    <3>2. p = 0 /\ p \in Nat /\ p + 1 = offset' /\ p + 1 \in 1..L
      BY <1>3, <3>1
    <3>3. Even(drawn, indices', 0)
      BY <1>2, <2>1, <3>1, RoundEnds
    <3> HIDE DEF p
    <3>4. QED
      BY <3>1, <3>2, <3>3
  <2>2. CASE offset # L
    <3>1. indices' = indices /\ offset' = offset + 1
      BY <1>1, <1>3, <2>2
    <3>2. p = offset /\ p \in Nat /\ p + 1 = offset' /\ p + 1 \in 1..L
      BY <1>2, <1>3, <2>2, <3>1
    <3> HIDE DEF p
    <3>3. QED
      BY <1>2, <3>1, <3>2
  <2>3. QED
    BY <2>1, <2>2
<1> HIDE DEF p
<1>5. Even(drawn', indices', p + 1)
  <2>1. p + 1 \in Entries
    BY <1>4 DEF Entries
  <2>2. QED
    BY <1>1, <1>4, <2>1, DrawInRound
<1>6. ShuffleInv'
  BY <1>3, <1>4, <1>5 DEF ShuffleInv
<1>7. QED
  <2>1. options.order # "sequential" /\ ~options.timestamps
    BY <1>1, OnePacer
  <2>2. QED
    BY <1>1, <1>6, <2>1 DEF RoundInv, SequentialInv, TimestampInv

LEMMA NextRoundInv ==
  ASSUME PacerTypes, RoundInv, [Next]_vars
  PROVE  RoundInv'
<1>1. ASSUME UNCHANGED <<options, next, indices, offset, cursor, drawn>> PROVE RoundInv'
  BY <1>1 DEF RoundInv, SequentialInv, TimestampInv, ShuffleInv
<1>2. CASE UNCHANGED vars
  BY <1>1, <1>2 DEF vars
<1>3. CASE Tick
  BY <1>1, <1>3 DEF Tick, selection
<1>4. ASSUME NEW t \in Threads, Step(t) PROVE RoundInv'
  <2>1. CASE SelectSequential(t)
    BY <2>1, SelectSequentialRounds
  <2>2. CASE SelectRandom(t)
    <3>1. options.order = "random" /\ ~options.timestamps /\ options' = options
      BY <2>2, OnePacer DEF SelectRandom, Selects
    <3>2. QED
      BY <3>1 DEF RoundInv, SequentialInv, TimestampInv, ShuffleInv
  <2>3. CASE SelectShuffle(t)
    BY <2>3, SelectShuffleRounds
  <2>4. CASE SelectTimestamp(t)
    BY <2>4, SelectTimestampRounds
  <2>5. CASE ReadClock(t) \/ Unpaced(t) \/ ReserveRate(t) \/ ReserveTimestamp(t) \/ ReserveStage(t)
    BY <1>1, <2>5
       DEF ReadClock, Unpaced, ReserveRate, ReserveTimestamp, ReserveStage, Reserves, selection
  <2>6. QED
    BY <1>4, <2>1, <2>2, <2>3, <2>4, <2>5 DEF Step
<1>5. QED
  BY <1>2, <1>3, <1>4 DEF Next

LEMMA EvenDraws ==
  ASSUME NEW d, NEW f, IsPermutation(f), NEW p, Even(d, f, p),
         NEW i \in Entries, NEW j \in Entries
  PROVE  d[i] <= d[j] + 1
<1>1. PICK round \in Nat : InRound(d, f, p, round)
  BY DEF Even
<1>2. PICK a \in Entries : f[a] = i
  BY DEF IsPermutation
<1>3. PICK b \in Entries : f[b] = j
  BY DEF IsPermutation
<1>4. d[i] \in {round, round + 1} /\ d[j] \in {round, round + 1}
  BY <1>1, <1>2, <1>3 DEF InRound
<1>5. QED
  BY <1>1, <1>4

LEMMA RoundInvEven ==
  ASSUME PacerTypes, RoundInv
  PROVE  RoundsAreEven
<1> SUFFICES ASSUME options.order # "random", NEW i \in Entries, NEW j \in Entries
             PROVE  drawn[i] <= drawn[j] + 1
  BY DEF RoundsAreEven
<1>1. options.order \in {"sequential", "shuffle"}
  BY ConfiguredAssumption DEF PacerTypes, ReplayOptions
<1>2. CASE options.order = "shuffle"
  <2>1. IsPermutation(indices) /\ Even(drawn, indices, offset)
    BY <1>2 DEF RoundInv, ShuffleInv
  <2>2. QED
    BY <2>1, EvenDraws
<1>3. CASE options.order = "sequential" /\ ~options.timestamps
  <2>1. Even(drawn, InOrder, next % Len(Stamps))
    BY <1>3 DEF RoundInv, SequentialInv
  <2>2. QED
    BY <2>1, EvenDraws, InOrderPermutes
<1>4. CASE options.timestamps
  <2>1. Even(drawn, InOrder, cursor - 1)
    BY <1>4 DEF RoundInv, TimestampInv
  <2>2. QED
    BY <2>1, EvenDraws, InOrderPermutes
<1>5. QED
  BY <1>1, <1>2, <1>3, <1>4

\* In the sequential and in the shuffled order no entry is ever two draws ahead of another,
\* whatever the shuffles choose and whichever threads draw: Selection::next, reshuffle.
THEOREM RoundsStayEven == Spec => []RoundsAreEven
<1>1. IInv /\ RoundInv /\ [Next]_vars => RoundInv'
  BY NextRoundInv DEF IInv
<1>2. IInv /\ RoundInv => RoundsAreEven
  BY RoundInvEven DEF IInv
<1>3. QED
  BY <1>1, <1>2, InitRoundInv, PacersKeepInvariant, PTL DEF Spec
=============================================================================
