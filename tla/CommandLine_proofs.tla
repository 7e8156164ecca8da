------------------------ MODULE CommandLine_proofs ------------------------
(***************************************************************************)
(* Theorems about the command line and the profile, for every command:     *)
(* what passes the checks of the program passes those of the library, no   *)
(* option is dropped on the way there, the tables of a summary agree with  *)
(* the responses of its run, and the exit status is right about them.      *)
(***************************************************************************)
EXTENDS CommandLine, Sums_proofs

(***************************************************************************)
(* Settings.                                                               *)
(***************************************************************************)
LEMMA WithSettings ==
  ASSUME NEW options, NEW settings
  PROVE  /\ DOMAIN With(options, settings) = DOMAIN options
         /\ \A n \in DOMAIN options :
              \/ /\ \A s \in settings : s[1] # n
                 /\ With(options, settings)[n] = options[n]
              \/ \E s \in settings : s[1] = n /\ With(options, settings)[n] = s[2]
<1>1. DOMAIN With(options, settings) = DOMAIN options
  BY DEF With
<1>2. ASSUME NEW n \in DOMAIN options
      PROVE  \/ /\ \A s \in settings : s[1] # n
                /\ With(options, settings)[n] = options[n]
             \/ \E s \in settings : s[1] = n /\ With(options, settings)[n] = s[2]
  <2>1. With(options, settings)[n] =
          IF \E s \in settings : s[1] = n THEN (CHOOSE s \in settings : s[1] = n)[2] ELSE options[n]
    BY DEF With
  <2>2. CASE \E s \in settings : s[1] = n
    <3> DEFINE t == CHOOSE s \in settings : s[1] = n
    <3>1. t \in settings /\ t[1] = n
      BY <2>2
    <3>2. With(options, settings)[n] = t[2]
      BY <2>1, <2>2
    <3> HIDE DEF t
    <3>3. QED
      BY <3>1, <3>2
  <2>3. CASE ~\E s \in settings : s[1] = n
    BY <2>1, <2>3
  <2>4. QED
    BY <2>2, <2>3
<1>3. QED
  BY <1>1, <1>2

(***************************************************************************)
(* No option is zero where the library refuses zero.                       *)
(***************************************************************************)
Positive(n, v) ==
  /\ n \in {"--replay-rounds", "--replay-speed"} => v # 0
  /\ n = "--stages" => \A i \in DOMAIN v : v[i] # 0

Options == Flags \cup Lists \cup Once \cup Values

\* All of them are there, and positive.
PositiveOptions(options) ==
  DOMAIN options = Options /\ \A n \in Options : Positive(n, options[n])

LEMMA PositiveWith ==
  ASSUME NEW options, NEW settings, DOMAIN options = Options,
         \A s \in settings : Positive(s[1], s[2]),
         \A n \in Options : (\E s \in settings : s[1] = n) \/ Positive(n, options[n])
  PROVE  PositiveOptions(With(options, settings))
<1> DEFINE h == With(options, settings)
<1>1. DOMAIN h = Options
  BY WithSettings
<1>2. ASSUME NEW n \in Options PROVE Positive(n, h[n])
  <2>1. CASE (\A s \in settings : s[1] # n) /\ h[n] = options[n]
    BY <2>1
  <2>2. CASE \E s \in settings : s[1] = n /\ h[n] = s[2]
    BY <2>2
  <2>3. QED
    BY <2>1, <2>2, WithSettings
<1> HIDE DEF h
<1>3. PositiveOptions(h)
  BY <1>1, <1>2 DEF PositiveOptions
<1>4. QED
  BY <1>3 DEF h

LEMMA PositiveDefaults == PositiveOptions(Defaults)
<1> DEFINE options == [n \in Options |-> IF n \in Flags THEN FALSE ELSE IF n \in Lists THEN <<>> ELSE Unset]
           settings == {<<"--connections", 10>>, <<"--threads", 2>>, <<"--timeout", 2 * Second>>,
                        <<"--replay-order", "sequential">>, <<"--replay-speed", 1>>,
                        <<"--stages", <<>>>>, <<"--output-format", "text">>, <<"--request", "GET">>}
<1>1. Defaults = With(options, settings)
  BY DEF Defaults, Options
<1>2. \A s \in settings : Positive(s[1], s[2])
  BY DEF Positive
<1>3. ASSUME NEW n \in Options PROVE (\E s \in settings : s[1] = n) \/ Positive(n, options[n])
  <2>1. CASE n = "--stages"
    BY <2>1
  <2>2. CASE n # "--stages"
    <3>0. Unset # 0
      BY UnsetAssumption
    <3>1. options[n] # 0 \/ n \in Flags \/ n \in Lists
      BY <3>0
    <3>2. n \in {"--replay-rounds", "--replay-speed"} => n \notin Flags /\ n \notin Lists
      BY DEF Flags, Lists
    <3>3. QED
      BY <2>2, <3>1, <3>2 DEF Positive
  <2>3. QED
    BY <2>1, <2>2
<1>4. DOMAIN options = Options
  OBVIOUS
<1> HIDE DEF options, settings
<1>5. QED
  BY <1>1, <1>2, <1>3, <1>4, PositiveWith

\* What a profile sets has been looked at when it was loaded.
LEMMA PositiveProfile ==
  ASSUME ValidProfile, NEW s \in FromProfile
  PROVE  Positive(s[1], s[2])
<1>1. CASE s \in RunnerSettings
  BY <1>1 DEF RunnerSettings, Positive
<1>2. CASE UseStatic /\ s \in StaticSettings(profile.static)
  BY <1>2 DEF StaticSettings, Positive
<1>3. CASE UseReplay /\ s \in ReplaySettings(profile.replay)
  <2> DEFINE r == profile.replay
  <2>1. ValidReplay(r)
    BY <1>3 DEF UseReplay, ValidProfile
  <2> HIDE DEF r
  <2>2. CASE s \in PacingFrom(r)
    <3> DEFINE p == r.pacing
    <3>1. ValidPacing(p) /\ s \in PacingSettings(p)
      BY <2>1, <2>2 DEF PacingFrom, ValidReplay
    <3> HIDE DEF p
    <3>2. CASE p.mode = "rate"
      BY <3>1, <3>2 DEF PacingSettings, Positive
    <3>3. CASE p.mode = "timestamp"
      <4> DEFINE speed == IF p.speed = Unset THEN 1 ELSE p.speed
                 yes == TRUE
      <4>1. speed # 0
        BY <3>1, <3>3 DEF ValidPacing
      <4>2. s = <<"--replay-timestamps", yes>> \/ s = <<"--replay-speed", speed>>
        BY <3>1, <3>3 DEF PacingSettings
      <4> HIDE DEF speed, yes
      <4>3. s[1] = "--replay-timestamps" \/ (s[1] = "--replay-speed" /\ s[2] = speed)
        BY <4>2
      <4>4. QED
        BY <4>1, <4>3 DEF Positive
    <3>4. CASE p.mode = "stages"
      <4>1. \A i \in DOMAIN p.stages : p.stages[i] # 0
        BY <3>1, <3>4 DEF ValidPacing
      <4>2. s = <<"--stages", p.stages>>
        BY <3>1, <3>4 DEF PacingSettings
      <4>3. s[1] = "--stages" /\ s[2] = p.stages
        BY <4>2
      <4>4. QED
        BY <4>1, <4>3 DEF Positive
    <3>5. CASE p.mode \notin {"rate", "timestamp", "stages"}
      BY <3>1, <3>5 DEF PacingSettings
    <3>6. QED
      BY <3>2, <3>3, <3>4, <3>5
  <2>3. CASE s \notin PacingFrom(r)
    <3>1. r.rounds # 0
      BY <2>1 DEF ValidReplay
    <3>2. s \in ReplaySettings(r)
      BY <1>3 DEF r
    <3>3. QED
      BY <2>3, <3>1, <3>2 DEF ReplaySettings, Positive
  <2>4. QED
    BY <2>2, <2>3
<1>4. QED
  BY <1>1, <1>2, <1>3 DEF FromProfile

(***************************************************************************)
(* What has become of the i-th of the first n - 1 arguments.               *)
(***************************************************************************)
Kept(args, n, options, i) ==
  /\ args[i].name \in Flags => options[args[i].name] = TRUE
  /\ args[i].name \in Lists \ {"--assert"} => args[i].value \in Range(options[args[i].name])
  /\ args[i].name \in Once \cup Values =>
       /\ args[i].value # Unset
       /\ \/ options[Slot(args[i].name)] = args[i].value
          \/ /\ args[i].name \in Values
             /\ \E j \in (i + 1)..(n - 1) :
                  args[j].name \in Values /\ Slot(args[j].name) = Slot(args[i].name)

AllKept(args, n, options) == \A i \in 1..(n - 1) : Kept(args, n, options, i)

ValuesIn(args) == {args[i].value : i \in 1..Len(args)}

\* The lists hold values of the arguments, as long as nothing else has been looked at.
ListsOf(args, options) == \A l \in Lists : options[l] \in Seq(ValuesIn(args))

LEMMA AppendRange ==
  ASSUME NEW T, NEW s \in Seq(T), NEW v \in T
  PROVE  /\ Append(s, v) \in Seq(T)
         /\ v \in Range(Append(s, v))
         /\ \A w \in Range(s) : w \in Range(Append(s, v))
<1> DEFINE t == Append(s, v)
<1>1. t \in Seq(T) /\ Len(t) = Len(s) + 1 /\ Len(s) \in Nat
  OBVIOUS
<1>2. DOMAIN t = 1..(Len(s) + 1) /\ DOMAIN s = 1..Len(s)
  BY <1>1
<1>3. t[Len(s) + 1] = v /\ \A k \in 1..Len(s) : t[k] = s[k]
  OBVIOUS
<1>4. Len(s) + 1 \in DOMAIN t /\ \A k \in DOMAIN s : k \in DOMAIN t /\ t[k] = s[k]
  BY <1>1, <1>2, <1>3
<1> HIDE DEF t
<1>5. v \in Range(t) /\ \A w \in Range(s) : w \in Range(t)
  BY <1>3, <1>4 DEF Range
<1>6. QED
  BY <1>1, <1>5 DEF t

\* Options that are of one kind are of no other.
LEMMA OptionKinds ==
  /\ Flags \cap (Lists \cup Once \cup Values) = {} /\ Lists \cap (Once \cup Values) = {}
  /\ Once \cap Values = {}
  /\ \A n \in Options : Slot(n) \in Options
  /\ \A n \in Flags \cup Lists \cup Once : Slot(n) = n
  /\ \A n \in Values : Slot(n) \in Values
  /\ \A n \in Options : Slot(n) = "--stages" <=> n \in {"--stages", "--replay-stages"}
  /\ \A n \in Options : Slot(n) # "--stages" => Slot(n) = n
BY DEF Flags, Lists, Once, Values, Options, Slot

\* What an argument changes.
Taken(a, old, new) ==
  /\ DOMAIN new = Options
  /\ \A m \in Options : m # Slot(a.name) => new[m] = old[m]
  /\ a.name \in Flags => new[Slot(a.name)] = TRUE
  /\ a.name \in Lists => new[Slot(a.name)] = Append(old[Slot(a.name)], a.value)
  /\ a.name \in Once \cup Values => new[Slot(a.name)] = a.value

\* One more argument.
LEMMA KeepsArguments ==
  ASSUME NEW args, Len(args) \in Nat, NEW n \in 1..Len(args), NEW old, NEW new,
         DOMAIN old = Options, AllKept(args, n, old), ListsOf(args, old),
         args[n].name \in Options,
         args[n].name \in Once \cup Values => args[n].value # Unset,
         args[n].name \in Once => old[args[n].name] = Unset,
         Taken(args[n], old, new)
  PROVE  AllKept(args, n + 1, new) /\ ListsOf(args, new)
<1> DEFINE a == args[n]
           slot == Slot(a.name)
<1>1. slot \in Options /\ a.name \in Options
  BY OptionKinds
<1>2. DOMAIN new = Options /\ \A m \in Options : m # slot => new[m] = old[m]
  BY DEF Taken
<1>3. /\ a.name \in Flags => new[slot] = TRUE
      /\ a.name \in Lists => new[slot] = Append(old[slot], a.value)
      /\ a.name \in Once \cup Values => new[slot] = a.value
  BY DEF Taken
<1>4. a.value \in ValuesIn(args)
  BY DEF ValuesIn
<1>5. a.name \in Lists =>
        /\ slot = a.name /\ new[slot] \in Seq(ValuesIn(args))
        /\ a.value \in Range(new[slot]) /\ \A w \in Range(old[slot]) : w \in Range(new[slot])
  <2> SUFFICES ASSUME a.name \in Lists
               PROVE  /\ slot = a.name /\ new[slot] \in Seq(ValuesIn(args))
                      /\ a.value \in Range(new[slot]) /\ \A w \in Range(old[slot]) : w \in Range(new[slot])
    OBVIOUS
  <2>1. slot = a.name
    BY OptionKinds
  <2>2. old[slot] \in Seq(ValuesIn(args))
    BY <2>1 DEF ListsOf
  <2> HIDE DEF slot, a
  <2>3. QED
    BY <1>3, <1>4, <2>1, <2>2, AppendRange
<1>6. ListsOf(args, new)
  <2> SUFFICES ASSUME NEW l \in Lists PROVE new[l] \in Seq(ValuesIn(args))
    BY DEF ListsOf
  <2>1. CASE l = slot
    <3>1. a.name \in Lists
      BY <1>1, <2>1, OptionKinds DEF Options
    <3>2. QED
      BY <1>5, <2>1, <3>1
  <2>2. CASE l # slot
    BY <1>2, <2>2 DEF ListsOf, Options
  <2>3. QED
    BY <2>1, <2>2
<1> HIDE DEF slot
<1>7. Kept(args, n + 1, new, n)
  <2>1. a.name \in Flags => new[a.name] = TRUE
    BY <1>3, OptionKinds DEF slot
  <2>2. a.name \in Lists => a.value \in Range(new[a.name])
    BY <1>5
  <2>3. a.name \in Once \cup Values => a.value # Unset /\ new[Slot(a.name)] = a.value
    BY <1>3 DEF slot
  <2>4. QED
    BY <2>1, <2>2, <2>3 DEF Kept
<1>8. ASSUME NEW i \in 1..(n - 1) PROVE Kept(args, n + 1, new, i)
  <2> DEFINE b == args[i]
  <2>1. Kept(args, n, old, i)
    BY DEF AllKept
  <2>2. b.name \in Flags => new[b.name] = TRUE
    <3> SUFFICES ASSUME b.name \in Flags PROVE new[b.name] = TRUE
      OBVIOUS
    <3>1. old[b.name] = TRUE /\ b.name \in Options
      BY <2>1 DEF Kept, Options
    <3>2. CASE b.name = slot
      <4>1. a.name \in Flags
        BY <1>1, <3>2, OptionKinds DEF slot, Options
      <4>2. QED
        BY <1>3, <3>2, <4>1
    <3>3. CASE b.name # slot
      BY <1>2, <3>1, <3>3
    <3>4. QED
      BY <3>2, <3>3
  <2>3. b.name \in Lists \ {"--assert"} => b.value \in Range(new[b.name])
    <3> SUFFICES ASSUME b.name \in Lists \ {"--assert"} PROVE b.value \in Range(new[b.name])
      OBVIOUS
    <3>1. b.value \in Range(old[b.name]) /\ b.name \in Options
      BY <2>1 DEF Kept, Options
    <3>2. CASE b.name = slot
      <4>1. a.name \in Lists
        BY <1>1, <3>2, OptionKinds DEF slot, Options
      <4>2. QED
        BY <1>5, <3>1, <3>2, <4>1
    <3>3. CASE b.name # slot
      BY <1>2, <3>1, <3>3
    <3>4. QED
      BY <3>2, <3>3
  <2>4. ASSUME b.name \in Once \cup Values
        PROVE  /\ b.value # Unset
               /\ \/ new[Slot(b.name)] = b.value
                  \/ /\ b.name \in Values
                     /\ \E j \in (i + 1)..((n + 1) - 1) :
                          args[j].name \in Values /\ Slot(args[j].name) = Slot(b.name)
    <3>1. /\ b.value # Unset
          /\ \/ old[Slot(b.name)] = b.value
             \/ /\ b.name \in Values
                /\ \E j \in (i + 1)..(n - 1) : args[j].name \in Values /\ Slot(args[j].name) = Slot(b.name)
      BY <2>1, <2>4 DEF Kept
    <3>2. (i + 1)..(n - 1) \subseteq (i + 1)..((n + 1) - 1) /\ n \in (i + 1)..((n + 1) - 1)
      OBVIOUS
    <3>3. b.name \in Options /\ Slot(b.name) \in Options
      BY <2>4, OptionKinds DEF Options
    <3>4. CASE b.name \in Values /\ \E j \in (i + 1)..(n - 1) : args[j].name \in Values /\ Slot(args[j].name) = Slot(b.name)
      BY <3>1, <3>2, <3>4
    <3>5. CASE old[Slot(b.name)] = b.value /\ Slot(b.name) # slot
      BY <1>2, <3>1, <3>3, <3>5
    <3>6. CASE old[Slot(b.name)] = b.value /\ Slot(b.name) = slot
      <4>1. CASE b.name \in Once
        <5>1. a.name \in Once /\ a.name = b.name /\ Slot(b.name) = b.name
          BY <1>1, <3>3, <3>6, <4>1, OptionKinds DEF slot, Options
        <5>2. old[a.name] = Unset
          BY <5>1
        <5>3. QED
          BY <3>1, <3>6, <5>1, <5>2
      <4>2. CASE b.name \in Values
        <5>1. a.name \in Values /\ Slot(a.name) = Slot(b.name)
          BY <1>1, <3>3, <3>6, <4>2, OptionKinds DEF slot, Options
        <5>2. QED
          BY <3>1, <3>2, <4>2, <5>1
      <4>3. QED
        BY <2>4, <4>1, <4>2
    <3>7. QED
      BY <3>1, <3>4, <3>5, <3>6
  <2>5. QED
    BY <2>2, <2>3, <2>4 DEF Kept
<1>9. \A i \in 1..((n + 1) - 1) : i = n \/ i \in 1..(n - 1)
  OBVIOUS
<1>10. AllKept(args, n + 1, new)
  BY <1>7, <1>8, <1>9 DEF AllKept
<1>11. QED
  BY <1>6, <1>10

(***************************************************************************)
(* A profile leaves the arguments alone.                                   *)
(***************************************************************************)
LEMMA ProfileLeavesGiven ==
  ASSUME NEW s \in FromProfile
  PROVE  /\ ~Given(s[1]) /\ s[1] # "--assert"
         /\ s[1] = "--stages" => ~Given("--replay-stages")
<1>1. ~Given(s[1])
  BY DEF FromProfile
<1>2. CASE s \in RunnerSettings
  BY <1>1, <1>2 DEF RunnerSettings
<1>3. CASE UseStatic /\ s \in StaticSettings(profile.static)
  BY <1>1, <1>3 DEF StaticSettings
<1>4. CASE UseReplay /\ s \in ReplaySettings(profile.replay)
  <2> DEFINE r == profile.replay
  <2>1. s \in ReplaySettings(r)
    BY <1>4
  <2> HIDE DEF r
  <2>2. CASE s \in PacingFrom(r)
    <3>1. ~Given("--replay-stages") /\ s \in PacingSettings(r.pacing)
      BY <2>2 DEF PacingFrom, AnyGiven
    <3> DEFINE p == r.pacing
               yes == TRUE
    <3>2. CASE p.mode = "timestamp"
      <4>1. s = <<"--replay-timestamps", yes>> \/ s = <<"--replay-speed", IF p.speed = Unset THEN 1 ELSE p.speed>>
        BY <3>1, <3>2 DEF PacingSettings
      <4> HIDE DEF yes, p
      <4>2. s[1] \in {"--replay-timestamps", "--replay-speed"}
        BY <4>1
      <4>3. QED
        BY <1>1, <4>2
    <3>3. CASE p.mode = "rate"
      BY <1>1, <3>1, <3>3 DEF PacingSettings
    <3>4. CASE p.mode = "stages"
      BY <1>1, <3>1, <3>4 DEF PacingSettings
    <3>5. CASE p.mode \notin {"rate", "timestamp", "stages"}
      BY <3>1, <3>5 DEF PacingSettings
    <3>6. QED
      BY <3>2, <3>3, <3>4, <3>5
  <2>3. CASE s \notin PacingFrom(r)
    BY <1>1, <2>1, <2>3 DEF ReplaySettings
  <2>4. QED
    BY <2>2, <2>3
<1>5. QED
  BY <1>2, <1>3, <1>4 DEF FromProfile

LEMMA ProfileKeepsArguments ==
  ASSUME NEW n, n = Len(argv) + 1, Len(argv) \in Nat, DOMAIN argv = 1..Len(argv),
         DOMAIN opt = Options, AllKept(argv, n, opt), NEW new,
         DOMAIN new = Options, \A m \in Options \ {"--assert"} : new[m] = With(opt, FromProfile)[m]
  PROVE  AllKept(argv, n, new)
<1> SUFFICES ASSUME NEW i \in 1..(n - 1) PROVE Kept(argv, n, new, i)
  BY DEF AllKept
<1> DEFINE a == argv[i]
<1>1. Kept(argv, n, opt, i)
  BY DEF AllKept
<1>2. i \in DOMAIN argv
  OBVIOUS
<1>3. Given(a.name)
  BY <1>2 DEF Given
<1>4. ASSUME NEW m \in Options, m # "--assert",
             m = a.name \/ (m = "--stages" /\ a.name = "--replay-stages")
      PROVE  new[m] = opt[m]
  <2>1. \A s \in FromProfile : s[1] # m
    <3> SUFFICES ASSUME NEW s \in FromProfile, s[1] = m PROVE FALSE
      OBVIOUS
    <3>1. ~Given(m) /\ (m = "--stages" => ~Given("--replay-stages"))
      BY ProfileLeavesGiven
    <3>2. QED
      BY <1>3, <1>4, <3>1
  <2>2. With(opt, FromProfile)[m] = opt[m]
    BY <2>1, WithSettings
  <2>3. QED
    BY <1>4, <2>2
<1>5. a.name \in Flags => new[a.name] = opt[a.name]
  BY <1>4 DEF Options, Flags
<1>6. a.name \in Lists \ {"--assert"} => new[a.name] = opt[a.name]
  BY <1>4 DEF Options
<1>7. a.name \in Once \cup Values => new[Slot(a.name)] = opt[Slot(a.name)]
  <2> SUFFICES ASSUME a.name \in Once \cup Values PROVE new[Slot(a.name)] = opt[Slot(a.name)]
    OBVIOUS
  <2>1. Slot(a.name) \in Options /\ Slot(a.name) # "--assert"
    BY OptionKinds DEF Options, Lists, Once, Values, Slot
  <2>2. Slot(a.name) = a.name \/ (Slot(a.name) = "--stages" /\ a.name = "--replay-stages")
    BY DEF Slot
  <2>3. QED
    BY <1>4, <2>1, <2>2
<1>8. QED
  BY <1>1, <1>5, <1>6, <1>7 DEF Kept

(***************************************************************************)
(* What passes the checks is in effect.                                    *)
(***************************************************************************)
\* What is left of an argument that no later one overrides.
InOptions(a) ==
  /\ Given(a.name)
  /\ a.name \in Flags => opt[a.name] = TRUE
  /\ a.name \in Lists \ {"--assert"} => a.value \in Range(opt[a.name])
  /\ a.name \in Once \cup Values => a.value # Unset /\ opt[Slot(a.name)] = a.value

LEMMA NotOverridden ==
  ASSUME Len(argv) \in Nat, DOMAIN argv = 1..Len(argv), AllKept(argv, Len(argv) + 1, opt), ~Refused,
         NEW i \in DOMAIN argv
  PROVE  \/ \E j \in (i + 1)..Len(argv) : argv[j].name = argv[i].name /\ argv[i].name \in Values
         \/ InOptions(argv[i])
<1> DEFINE n == Len(argv) + 1
           a == argv[i]
<1>1. n - 1 = Len(argv) /\ i \in 1..(n - 1)
  OBVIOUS
<1>2. Kept(argv, n, opt, i)
  BY <1>1 DEF AllKept
<1>3. \A j \in DOMAIN argv : Given(argv[j].name)
  BY DEF Given
<1>4. ~(Given("--stages") /\ Given("--replay-stages"))
  BY DEF Refused, Contradictory, PacingConflict
<1>5. ASSUME NEW j \in (i + 1)..(n - 1), argv[j].name \in Values, Slot(argv[j].name) = Slot(a.name),
             a.name \in Values
      PROVE  argv[j].name = a.name
  <2>1. j \in DOMAIN argv
    BY <1>1
  <2>2. Given(argv[j].name) /\ Given(a.name)
    BY <1>3, <2>1
  <2>3. QED
    BY <1>4, <1>5, <2>2 DEF Slot
<1>6. QED
  BY <1>1, <1>2, <1>3, <1>5 DEF Kept, InOptions

\* What the library is called with, by the options.
Dispatched ==
  /\ config' = Configuration /\ job' = Job /\ command' = command /\ opt' = opt
  /\ ~Refused

LEMMA ReplayOnly ==
  ASSUME Dispatched
  PROVE  /\ Misplaced => job'.source # "request"
         /\ opt["--access-log"] # Unset => job'.source = "access_log"
         /\ opt["--request-file"] # Unset => job'.source = "request_file"
<1>1. job'.source = IF opt["--access-log"] # Unset THEN "access_log"
                    ELSE IF opt["--request-file"] # Unset THEN "request_file" ELSE "request"
  BY DEF Dispatched, Job
<1>2. (Misplaced => IsReplay) /\ ~Contradictory
  BY DEF Dispatched, Refused
<1>3. ~(opt["--access-log"] # Unset /\ opt["--request-file"] # Unset)
  BY <1>2 DEF Contradictory
<1>4. QED
  BY <1>1, <1>2, <1>3 DEF IsReplay

LEMMA ListNotEmpty ==
  ASSUME NEW s, NEW v \in Range(s)
  PROVE  s # <<>>
<1>1. Range(<<>>) = {}
  BY DEF Range
<1>2. QED
  BY <1>1

LEMMA ArgumentsTakeEffect ==
  ASSUME Dispatched, NEW a, InOptions(a)
  PROVE  InEffect(a)'
<1>0. /\ a.name \in Flags => opt[a.name] = TRUE
      /\ a.name \in Lists \ {"--assert"} => a.value \in Range(opt[a.name])
      /\ a.name \in Once \cup Values => a.value # Unset /\ opt[Slot(a.name)] = a.value
  BY DEF InOptions
<1>1. CASE a.name = "--header"
  BY <1>0, <1>1 DEF InEffect, Dispatched, Configuration, Lists
<1>2. CASE a.name = "--data"
  <2>1. a.value \in Range(opt["--data"]) /\ opt["--data"] # <<>>
    BY <1>0, <1>2, ListNotEmpty DEF Lists
  <2>2. opt["--data-binary"] = Unset
    BY <2>1 DEF Dispatched, Refused, Contradictory
  <2>3. QED
    BY <1>2, <2>1, <2>2 DEF InEffect, Dispatched, Configuration
<1>3. CASE a.name = "--data-binary"
  <2>1. a.value # Unset /\ opt["--data-binary"] = a.value
    BY <1>0, <1>3 DEF Once, Slot
  <2>2. config'.body = <<a.value>>
    BY <2>1 DEF Dispatched, Configuration
  <2>3. a.value \in Range(<<a.value>>)
    <3>1. 1 \in DOMAIN <<a.value>> /\ <<a.value>>[1] = a.value
      OBVIOUS
    <3>2. QED
      BY <3>1 DEF Range
  <2>4. QED
    BY <1>3, <2>2, <2>3 DEF InEffect
<1>4. CASE a.name \in {"--allowed-methods", "--allowed-uris"}
  <2>1. a.value \in Range(opt[a.name]) /\ opt[a.name] # <<>>
    BY <1>0, <1>4, ListNotEmpty DEF Lists
  <2>2. job'.source # "request"
    BY <1>4, <2>1, ReplayOnly DEF Misplaced, Whitelist
  <2>3. job'.methods = Range(opt["--allowed-methods"]) /\ job'.patterns = opt["--allowed-uris"]
    BY DEF Dispatched, Job
  <2>4. QED
    BY <1>4, <2>1, <2>2, <2>3 DEF InEffect, Allowed
<1>5. CASE a.name \in {"--access-log", "--request-file", "--request-schema"}
  <2>1. opt[a.name] # Unset
    BY <1>0, <1>5 DEF Values, Slot
  <2>2. a.name = "--request-schema" => opt["--request-file"] # Unset
    BY <2>1 DEF Dispatched, Refused, Incomplete
  <2>3. QED
    BY <1>5, <2>1, <2>2, ReplayOnly DEF InEffect
<1>6. CASE a.name = "--skip-invalid-records"
  <2>1. opt["--skip-invalid-records"] = TRUE
    BY <1>0, <1>6 DEF Flags
  <2>2. opt["--request-file"] # Unset
    BY <2>1 DEF Dispatched, Refused, Incomplete
  <2>3. job'.skip = TRUE
    BY <2>1 DEF Dispatched, Job
  <2>4. QED
    BY <1>6, <2>2, <2>3, ReplayOnly DEF InEffect
<1>7. CASE a.name = "--replay-timestamps"
  <2>1. opt["--replay-timestamps"] = TRUE
    BY <1>0, <1>7 DEF Flags
  <2>2. job'.source # "request"
    BY <2>1, ReplayOnly DEF Misplaced
  <2>3. job'.timestamps = TRUE
    BY <2>1 DEF Dispatched, Job
  <2>4. QED
    BY <1>7, <2>2, <2>3 DEF InEffect
<1>8. CASE a.name \in {"--replay-order", "--seed", "--replay-rate", "--replay-speed",
                       "--replay-rounds", "--replay-stages"}
  <2>1. a.value # Unset /\ opt[Slot(a.name)] = a.value /\ Given(a.name)
    BY <1>0, <1>8 DEF Values, InOptions
  <2>2. a.name = "--replay-speed" => opt["--replay-timestamps"]
    BY <2>1 DEF Dispatched, Refused, Incomplete
  <2>3. Misplaced
    BY <1>8, <2>1, <2>2 DEF Misplaced, AnyGiven, Slot
  <2>4. job'.source # "request"
    BY <2>3, ReplayOnly
  <2>5. /\ job'.order = opt["--replay-order"] /\ job'.seed = opt["--seed"]
        /\ job'.rate = opt["--replay-rate"] /\ job'.speed = opt["--replay-speed"]
        /\ job'.rounds = opt["--replay-rounds"] /\ job'.stages = opt["--stages"]
    BY DEF Dispatched, Job
  <2>6. a.name = "--replay-speed" => job'.timestamps
    BY <2>2 DEF Dispatched, Job
  <2>7. Effective(a.name)' = a.value
    BY <1>8, <2>1, <2>5, <2>6 DEF Effective, Slot
  <2>8. QED
    BY <1>8, <2>4, <2>7 DEF InEffect
<1>9. CASE a.name \in {"URL", "--requests", "--duration", "--connections", "--threads", "--timeout",
                       "--request", "--stages"}
  <2>1. a.value # Unset /\ opt[a.name] = a.value /\ Given(a.name)
    BY <1>0, <1>9 DEF Values, Once, Slot, InOptions
  <2>2. /\ config'.url = opt["URL"] /\ config'.connections = opt["--connections"]
        /\ config'.threads = opt["--threads"] /\ config'.timeout = opt["--timeout"]
        /\ job'.stages = opt["--stages"]
        /\ Given("--request") => config'.method = opt["--request"]
        /\ Given("--requests") => config'.limit = opt["--requests"]
    BY DEF Dispatched, Job, Configuration, MethodSet
  <2>3. a.name = "--duration" => config'.duration = opt["--duration"]
    <3> SUFFICES ASSUME a.name = "--duration" PROVE config'.duration = opt["--duration"]
      OBVIOUS
    <3>1. ~Given("--requests")
      BY <2>1 DEF Dispatched, Refused, Contradictory
    <3>2. QED
      BY <2>1, <3>1 DEF Dispatched, Configuration
  <2>4. Effective(a.name)' = a.value
    BY <1>9, <2>1, <2>2, <2>3 DEF Effective
  <2>5. QED
    BY <1>9, <2>4 DEF InEffect
<1>10. CASE a.name \notin
              {"--header", "--data", "--data-binary", "--allowed-methods", "--allowed-uris",
               "--access-log", "--request-file", "--request-schema", "--skip-invalid-records",
               "--replay-timestamps", "--replay-order", "--seed", "--replay-rate", "--replay-speed",
               "--replay-rounds", "--replay-stages", "URL", "--requests", "--duration",
               "--connections", "--threads", "--timeout", "--request", "--stages",
               "--output-beauty", "--output-html", "--output-format"}
  BY <1>10 DEF InEffect
<1>11. CASE a.name \in {"--output-beauty", "--output-html", "--output-format"}
  <2>1. /\ a.name = "--output-beauty" => opt[a.name] = TRUE
        /\ a.name # "--output-beauty" => opt[a.name] = a.value
    BY <1>0, <1>11 DEF Flags, Values, Slot
  <2>2. opt' = opt /\ ~(opt["--output-beauty"] /\ opt["--output-format"] = "json")
    BY DEF Dispatched, Refused, Contradictory
  <2>3. QED
    BY <1>11, <2>1, <2>2 DEF InEffect, OutputFormat
<1>12. QED
  BY <1>1, <1>2, <1>3, <1>4, <1>5, <1>6, <1>7, <1>8, <1>9, <1>10, <1>11

(***************************************************************************)
(* The invariant.                                                          *)
(***************************************************************************)
CommandInv ==
  /\ PositiveOptions(opt)
  /\ phase # "library" => command \in Commands
  /\ phase = "arguments" =>
       next \in 1..(Len(argv) + 1) /\ AllKept(argv, next, opt) /\ ListsOf(argv, opt)
  /\ phase \in {"profile", "checks"} => AllKept(argv, Len(argv) + 1, opt)
  /\ EngineAgrees
  /\ NothingIgnored

LEMMA DefaultLists ==
  ASSUME NEW l \in Lists
  PROVE  Defaults[l] = <<>>
<1> DEFINE options == [n \in Options |-> IF n \in Flags THEN FALSE ELSE IF n \in Lists THEN <<>> ELSE Unset]
           settings == {<<"--connections", 10>>, <<"--threads", 2>>, <<"--timeout", 2 * Second>>,
                        <<"--replay-order", "sequential">>, <<"--replay-speed", 1>>,
                        <<"--stages", <<>>>>, <<"--output-format", "text">>, <<"--request", "GET">>}
<1>1. Defaults = With(options, settings)
  BY DEF Defaults, Options
<1>2. l \in Options /\ l \notin Flags
  BY OptionKinds DEF Options
<1>3. options[l] = <<>>
  BY <1>2
<1>4. \A s \in settings : s[1] # l
  BY DEF Lists
<1>5. DOMAIN options = Options
  OBVIOUS
<1> HIDE DEF options, settings
<1>6. QED
  BY <1>1, <1>2, <1>3, <1>4, <1>5, WithSettings

LEMMA InvInit == CommandInit => CommandInv
<1> SUFFICES ASSUME CommandInit PROVE CommandInv
  OBVIOUS
<1>1. phase # "run" /\ phase \notin {"profile", "checks"} /\ opt = Defaults /\ next = 1
  BY DEF CommandInit
<1>2. PositiveOptions(opt)
  BY <1>1, PositiveDefaults
<1>3. phase # "library" => command \in Commands
  BY DEF CommandInit
<1>4. ASSUME phase = "arguments"
      PROVE  next \in 1..(Len(argv) + 1) /\ AllKept(argv, next, opt) /\ ListsOf(argv, opt)
  <2>1. Len(argv) \in Nat
    BY <1>3, <1>4, ArgumentsAssumption DEF argv
  <2>2. next \in 1..(Len(argv) + 1) /\ 1..(next - 1) = {}
    BY <1>1, <2>1
  <2>3. ASSUME NEW l \in Lists PROVE opt[l] \in Seq(ValuesIn(argv))
    <3>1. opt[l] = <<>>
      BY <1>1, DefaultLists
    <3>2. <<>> \in Seq(ValuesIn(argv))
      OBVIOUS
    <3>3. QED
      BY <3>1, <3>2
  <2>4. QED
    BY <2>2, <2>3 DEF AllKept, ListsOf
<1>5. QED
  BY <1>1, <1>2, <1>3, <1>4 DEF CommandInv, EngineAgrees, NothingIgnored

LEMMA PositiveArgument ==
  ASSUME PositiveOptions(opt), ~IsZero, argument.name \in Options, NEW new,
         new = [opt EXCEPT ![Slot(argument.name)] =
                  IF argument.name \in Flags THEN TRUE
                  ELSE IF argument.name \in Lists THEN Append(@, argument.value)
                  ELSE argument.value]
  PROVE  PositiveOptions(new)
<1> DEFINE a == argument
           slot == Slot(a.name)
<1>1. DOMAIN opt = Options /\ \A n \in Options : Positive(n, opt[n])
  BY DEF PositiveOptions
<1>2. slot \in Options
  BY OptionKinds
<1>3. DOMAIN new = Options /\ \A n \in Options : n # slot => new[n] = opt[n]
  BY <1>1, <1>2
<1>4. a.name \in Values => new[slot] = a.value
  BY <1>1, <1>2, OptionKinds
<1>5. slot \in {"--replay-rounds", "--replay-speed"} => a.name = slot /\ a.name \in Values /\ a.value # 0
  BY DEF Slot, Values, IsZero
<1>6. slot = "--stages" => a.name \in Values /\ \A i \in DOMAIN a.value : a.value[i] # 0
  BY DEF Slot, Values, IsZero
<1> HIDE DEF slot
<1>7. Positive(slot, new[slot])
  BY <1>4, <1>5, <1>6 DEF Positive
<1>8. \A n \in Options : Positive(n, new[n])
  BY <1>1, <1>3, <1>7
<1>9. QED
  BY <1>3, <1>8 DEF PositiveOptions

LEMMA ParseStep ==
  ASSUME CommandInv, ParseArgument
  PROVE  CommandInv'
<1> DEFINE a == argument
<1>1. /\ phase = "arguments" /\ phase' = phase /\ command' = command /\ next' = next + 1
      /\ next <= Len(argv) /\ a.name # "--help"
      /\ a.name \in Known /\ ~IsZero
      /\ a.name \in Once \cup Values => a.value # Unset
      /\ a.name \in Once => opt[a.name] = Unset
  BY DEF ParseArgument, Parsing, Refusable
<1>2. /\ PositiveOptions(opt) /\ command \in Commands /\ next \in 1..(Len(argv) + 1)
      /\ AllKept(argv, next, opt) /\ ListsOf(argv, opt)
  BY <1>1 DEF CommandInv
<1>3. Len(argv) \in Nat /\ argv' = argv
  BY <1>1, <1>2, ArgumentsAssumption DEF argv
<1>4. next \in 1..Len(argv) /\ next' \in 1..(Len(argv) + 1)
  BY <1>1, <1>2, <1>3
<1>5. a = argv[next]
  BY DEF argument
<1>6. DOMAIN opt = Options
  BY <1>2 DEF PositiveOptions
<1> HIDE DEF a
<1>7. PositiveOptions(opt') /\ AllKept(argv, next + 1, opt') /\ ListsOf(argv, opt')
  <2>1. CASE a.name = "--latency"
    <3>1. opt' = opt
      BY <2>1 DEF ParseArgument, a
    <3>2. \A i \in 1..((next + 1) - 1) : i = next \/ i \in 1..(next - 1)
      BY <1>4
    <3>3. Kept(argv, next + 1, opt, next)
      BY <1>5, <2>1 DEF Kept, Flags, Lists, Once, Values
    <3>4. ASSUME NEW i \in 1..(next - 1) PROVE Kept(argv, next + 1, opt, i)
      <4>1. Kept(argv, next, opt, i)
        BY <1>2 DEF AllKept
      <4>2. (i + 1)..(next - 1) \subseteq (i + 1)..((next + 1) - 1)
        BY <1>4
      <4>3. QED
        BY <4>1, <4>2 DEF Kept
    <3>5. AllKept(argv, next + 1, opt)
      BY <3>2, <3>3, <3>4 DEF AllKept
    <3>6. QED
      BY <1>2, <3>1, <3>5
  <2>2. CASE a.name # "--latency"
    <3>1. a.name \in Options
      BY <1>1, <2>2 DEF Known, Options
    <3>2. opt' = [opt EXCEPT ![Slot(a.name)] =
                    IF a.name \in Flags THEN TRUE
                    ELSE IF a.name \in Lists THEN Append(@, a.value)
                    ELSE a.value]
      BY <2>2 DEF ParseArgument, a
    <3>3. PositiveOptions(opt')
      BY <1>1, <1>2, <3>1, <3>2, PositiveArgument DEF a
    <3>4. AllKept(argv, next + 1, opt') /\ ListsOf(argv, opt')
      <4>1. Slot(a.name) \in Options
        BY <3>1, OptionKinds
      <4>2. Taken(a, opt, opt')
        BY <1>6, <3>1, <3>2, <4>1, OptionKinds DEF Taken
      <4> DEFINE args == argv
      <4>3. /\ Len(args) \in Nat /\ next \in 1..Len(args)
            /\ AllKept(args, next, opt) /\ ListsOf(args, opt)
        BY <1>2, <1>3, <1>4
      <4>4. /\ args[next].name \in Options
            /\ args[next].name \in Once \cup Values => args[next].value # Unset
            /\ args[next].name \in Once => opt[args[next].name] = Unset
            /\ Taken(args[next], opt, opt')
        BY <1>1, <1>5, <3>1, <4>2
      <4> HIDE DEF args
      <4>5. AllKept(args, next + 1, opt') /\ ListsOf(args, opt')
        BY <1>6, <4>3, <4>4, KeepsArguments
      <4>6. QED
        BY <4>5 DEF args
    <3>5. QED
      BY <3>3, <3>4
  <2>3. QED
    BY <2>1, <2>2
<1>8. QED
  BY <1>1, <1>2, <1>3, <1>4, <1>7 DEF CommandInv, EngineAgrees, NothingIgnored

LEMMA ProfileStep ==
  ASSUME CommandInv, ApplyProfile
  PROVE  CommandInv'
<1> DEFINE h == With(opt, FromProfile)
<1>1. /\ phase = "profile" /\ phase' = "checks" /\ command' = command /\ ValidProfile
      /\ opt' = [h EXCEPT !["--assert"] = @ \o profile.assertions]
  BY DEF ApplyProfile
<1>2. PositiveOptions(opt) /\ command \in Commands /\ AllKept(argv, Len(argv) + 1, opt)
  BY <1>1 DEF CommandInv
<1>3. Len(argv) \in Nat /\ DOMAIN argv = 1..Len(argv) /\ argv' = argv
  BY <1>1, <1>2, ArgumentsAssumption DEF argv
<1>4. DOMAIN opt = Options /\ \A n \in Options : Positive(n, opt[n])
  BY <1>2 DEF PositiveOptions
<1>5. PositiveOptions(h)
  BY <1>1, <1>4, PositiveProfile, PositiveWith
<1>6. DOMAIN h = Options /\ \A n \in Options : Positive(n, h[n])
  BY <1>5 DEF PositiveOptions
<1>7. DOMAIN opt' = Options /\ \A m \in Options \ {"--assert"} : opt'[m] = With(opt, FromProfile)[m]
  BY <1>1, <1>6
<1> HIDE DEF h
<1>8. \A n \in Options : Positive(n, opt'[n])
  <2> SUFFICES ASSUME NEW n \in Options PROVE Positive(n, opt'[n])
    OBVIOUS
  <2>1. CASE n = "--assert"
    BY <2>1 DEF Positive
  <2>2. CASE n # "--assert"
    BY <1>6, <1>7, <2>2 DEF h
  <2>3. QED
    BY <2>1, <2>2
<1>9. AllKept(argv, Len(argv) + 1, opt')
  BY <1>2, <1>3, <1>4, <1>7, ProfileKeepsArguments
<1>10. PositiveOptions(opt')
  BY <1>7, <1>8 DEF PositiveOptions
<1>11. QED
  BY <1>1, <1>2, <1>3, <1>9, <1>10 DEF CommandInv, EngineAgrees, NothingIgnored

LEMMA DispatchStep ==
  ASSUME CommandInv, Dispatch
  PROVE  CommandInv'
<1>1. /\ phase = "checks" /\ phase' = "run" /\ command' = command /\ opt' = opt /\ ~Refused
      /\ config' = Configuration /\ job' = Job
  BY DEF Dispatch
<1>2. PositiveOptions(opt) /\ command \in Commands /\ AllKept(argv, Len(argv) + 1, opt)
  BY <1>1 DEF CommandInv
<1>3. Len(argv) \in Nat /\ DOMAIN argv = 1..Len(argv) /\ argv' = argv
  BY <1>1, <1>2, ArgumentsAssumption DEF argv
<1>4. Dispatched
  BY <1>1 DEF Dispatched
<1>5. EngineAgrees'
  <2> SUFFICES ASSUME ~TooLong(job'.stages) PROVE ValidOptions'
    BY DEF EngineAgrees
  <2>1. /\ job'.order = opt["--replay-order"] /\ job'.seed = opt["--seed"]
        /\ job'.rate = opt["--replay-rate"] /\ job'.speed = opt["--replay-speed"]
        /\ job'.rounds = opt["--replay-rounds"] /\ job'.stages = opt["--stages"]
        /\ job'.timestamps = opt["--replay-timestamps"]
    BY <1>1 DEF Job
  <2>2. /\ opt["--replay-rounds"] # 0 /\ opt["--replay-speed"] # 0
        /\ \A i \in DOMAIN opt["--stages"] : opt["--stages"][i] # 0
    BY <1>2 DEF PositiveOptions, Positive, Options, Values
  <2>3. ~Contradictory
    BY <1>1 DEF Refused
  <2>4. QED
    BY <2>1, <2>2, <2>3 DEF ValidOptions, Contradictory, PacingConflict
<1>6. NothingIgnored'
  <2> SUFFICES ASSUME NEW i \in DOMAIN argv
               PROVE  \/ \E j \in (i + 1)..Len(argv) :
                           argv[j].name = argv[i].name /\ argv[i].name \in Values
                      \/ InEffect(argv[i])'
    BY <1>3 DEF NothingIgnored
  <2>1. CASE InOptions(argv[i])
    <3>1. PICK a : a = argv[i]
      OBVIOUS
    <3>2. InOptions(a)
      BY <2>1, <3>1
    <3>3. InEffect(a)'
      BY <1>4, <3>2, ArgumentsTakeEffect
    <3>4. argv'[i] = a
      BY <1>3, <3>1
    <3>5. QED
      BY <3>3, <3>4 DEF InEffect, Effective, Allowed, OutputFormat
  <2>2. CASE ~InOptions(argv[i])
    BY <1>1, <1>2, <1>3, <2>2, NotOverridden
  <2>3. QED
    BY <2>1, <2>2
<1>7. QED
  BY <1>1, <1>2, <1>5, <1>6 DEF CommandInv

\* The library does not come back to the options, and keeps them as they are.
LEMMA LoadStep ==
  ASSUME CommandInv, Load
  PROVE  CommandInv'
<1>1. /\ command' = command /\ next' = next /\ opt' = opt /\ config' = config /\ phase' = phase
      /\ phase \in {"run", "library"}
  BY DEF Load, commandVars
<1>2. job' = job /\ pc' # "options"
  BY DEF Load, Next, ValidateOptions, Open, ReadLine, ReadFails, EndOfFile, ApplyFilter,
         ValidateTimestamps, SetLimit, Fail
<1>3. PositiveOptions(opt') /\ (phase' # "library" => command' \in Commands)
  BY <1>1 DEF CommandInv
<1>4. EngineAgrees'
  BY <1>2 DEF EngineAgrees
<1>5. NothingIgnored' = NothingIgnored
  BY <1>1, <1>2 DEF NothingIgnored, InEffect, Effective, argv, Allowed, OutputFormat
<1>6. QED
  BY <1>1, <1>3, <1>4, <1>5 DEF CommandInv

\* A step to a later phase that changes nothing the invariant is about.
LEMMA EnterStep ==
  ASSUME CommandInv, command' = command, opt' = opt, next' = next, phase # "library",
         \/ phase' \in {"success", "failure", "gate", "report"}
         \/ phase = "arguments" /\ next = Len(argv) + 1 /\ phase' = "profile"
         \/ phase = "profile" /\ phase' = "checks"
  PROVE  CommandInv'
<1>1. PositiveOptions(opt') /\ command' \in Commands /\ argv' = argv
  BY DEF CommandInv, argv
<1>2. phase' # "run" /\ phase' # "arguments"
  OBVIOUS
<1>3. phase' \in {"profile", "checks"} => AllKept(argv, Len(argv) + 1, opt)
  BY DEF CommandInv
<1>4. QED
  BY <1>1, <1>2, <1>3 DEF CommandInv, EngineAgrees, NothingIgnored

LEMMA InvNext == CommandInv /\ [CommandNext]_allVars => CommandInv'
<1> SUFFICES ASSUME CommandInv, [CommandNext]_allVars PROVE CommandInv'
  OBVIOUS
<1>1. CASE ParseArgument
  BY <1>1, ParseStep
<1>2. CASE BadArgument
  BY <1>2, EnterStep DEF BadArgument, Parsing, Enter
<1>3. CASE Help
  BY <1>3, EnterStep DEF Help, Parsing, Enter
<1>4. CASE EndOfArguments
  <2>1. phase = "arguments" /\ next > Len(argv) /\ Enter("profile")
    BY <1>4 DEF EndOfArguments
  <2>2. next \in 1..(Len(argv) + 1) /\ Len(argv) \in Nat
    BY <2>1, ArgumentsAssumption DEF CommandInv, argv
  <2>3. next = Len(argv) + 1
    BY <2>1, <2>2
  <2>4. QED
    BY <2>1, <2>3, EnterStep DEF Enter
<1>5. CASE ApplyProfile
  BY <1>5, ProfileStep
<1>6. CASE BadProfile
  BY <1>6, EnterStep DEF BadProfile, Enter
<1>7. CASE NoProfile
  BY <1>7, EnterStep DEF NoProfile, Enter
<1>8. CASE Version
  BY <1>8, EnterStep DEF Version, Enter
<1>9. CASE Refuse
  BY <1>9, EnterStep DEF Refuse, Enter
<1>10. CASE Dispatch
  BY <1>10, DispatchStep
<1>11. CASE Load
  BY <1>11, LoadStep
<1>12. CASE LoadFails
  BY <1>12, EnterStep DEF LoadFails, Enter
<1>13. CASE RunEnds
  <2>1. /\ phase = "run" /\ command' = command /\ opt' = opt /\ next' = next
        /\ phase' \in {"failure", "gate"}
    BY <1>13 DEF RunEnds
  <2>2. QED
    BY <2>1, EnterStep
<1>14. CASE Gate
  BY <1>14, EnterStep DEF Gate, Enter
<1>15. CASE Report
  BY <1>15, EnterStep DEF Report, Enter
<1>16. CASE UNCHANGED allVars
  <2>1. /\ command' = command /\ next' = next /\ opt' = opt /\ config' = config /\ phase' = phase
        /\ job' = job /\ pc' = pc
    BY <1>16 DEF allVars, commandVars, vars
  <2>2. argv' = argv
    BY <2>1 DEF argv
  <2>3. EngineAgrees' = EngineAgrees
    BY <2>1 DEF EngineAgrees, ValidOptions
  <2>4. NothingIgnored' = NothingIgnored
    BY <2>1, <2>2 DEF NothingIgnored, InEffect, Effective, Allowed, OutputFormat
  <2>5. QED
    BY <2>1, <2>2, <2>3, <2>4 DEF CommandInv
<1>17. QED
  BY <1>1, <1>2, <1>3, <1>4, <1>5, <1>6, <1>7, <1>8, <1>9, <1>10, <1>11, <1>12, <1>13, <1>14, <1>15,
     <1>16 DEF CommandNext

(***************************************************************************)
(* The theorems.                                                           *)
(***************************************************************************)
\* For every command, with or without a profile: once the checks of execute have let it
\* through, validate_replay_options has nothing to refuse.
THEOREM EngineNeverRefuses == CommandSpec => []EngineAgrees
<1>1. CommandInv => EngineAgrees
  BY DEF CommandInv
<1>2. QED
  BY <1>1, InvInit, InvNext, PTL DEF CommandSpec

\* For every command, with or without a profile: each argument is in effect in the run that
\* execute starts, or a later one of the same name takes its place.
THEOREM NoOptionIsDropped == CommandSpec => []NothingIgnored
<1>1. CommandInv => NothingIgnored
  BY DEF CommandInv
<1>2. QED
  BY <1>1, InvInit, InvNext, PTL DEF CommandSpec

(***************************************************************************)
(* Counters.                                                               *)
(***************************************************************************)
\* The bag counts the members of X by their keys.
Counts(bag, key, X) ==
  /\ bag = [v \in DOMAIN bag |-> bag[v]]
  /\ \A v \in DOMAIN bag : bag[v] \in Nat \ {0}
  /\ \A v : F!Copies(v, bag) = Cardinality(Keyed(X, key, {v}))

LEMMA KeyedPart ==
  ASSUME NEW X, IsFiniteSet(X), NEW key, NEW S
  PROVE  /\ Keyed(X, key, S) \subseteq X /\ IsFiniteSet(Keyed(X, key, S))
         /\ Cardinality(Keyed(X, key, S)) \in Nat
<1> DEFINE A == Keyed(X, key, S)
<1>1. A \subseteq X
  BY DEF Keyed
<1> HIDE DEF A
<1>2. IsFiniteSet(A) /\ Cardinality(A) \in Nat
  BY <1>1, FS_Subset, FS_CardinalityType
<1>3. QED
  BY <1>1, <1>2 DEF A

LEMMA KeyedUnion ==
  ASSUME NEW X, IsFiniteSet(X), NEW Y, IsFiniteSet(Y), X \cap Y = {}, NEW key
  PROVE  \A S : Cardinality(Keyed(X \cup Y, key, S)) =
                 Cardinality(Keyed(X, key, S)) + Cardinality(Keyed(Y, key, S))
<1> SUFFICES ASSUME NEW S
             PROVE  Cardinality(Keyed(X \cup Y, key, S)) =
                      Cardinality(Keyed(X, key, S)) + Cardinality(Keyed(Y, key, S))
  OBVIOUS
<1> DEFINE A == Keyed(X, key, S)
           B == Keyed(Y, key, S)
<1>1. Keyed(X \cup Y, key, S) = A \cup B /\ A \cap B = {} /\ A \subseteq X /\ B \subseteq Y
  BY DEF Keyed
<1> HIDE DEF A, B
<1>2. IsFiniteSet(A) /\ IsFiniteSet(B)
  BY <1>1, FS_Subset
<1>3. Cardinality(A) \in Nat /\ Cardinality(B) \in Nat /\ Cardinality(A \cap B) = 0
  BY <1>1, <1>2, FS_CardinalityType, FS_EmptySet
<1>4. Cardinality(A \cup B) = Cardinality(A) + Cardinality(B) - Cardinality(A \cap B)
  BY <1>2, FS_Union
<1>5. Cardinality(A \cup B) = Cardinality(A) + Cardinality(B)
  BY <1>3, <1>4
<1>6. QED
  BY <1>1, <1>5 DEF A, B

LEMMA PlusCopies ==
  ASSUME NEW b, \A v \in DOMAIN b : b[v] \in Nat \ {0},
         NEW c, \A v \in DOMAIN c : c[v] \in Nat \ {0}
  PROVE  /\ \A v \in DOMAIN F!Plus(b, c) : F!Plus(b, c)[v] \in Nat \ {0}
         /\ \A v : F!Copies(v, F!Plus(b, c)) = F!Copies(v, b) + F!Copies(v, c)
BY DEF F!Plus, F!Copies

LEMMA PlusCounts ==
  ASSUME NEW X, IsFiniteSet(X), NEW Y, IsFiniteSet(Y), X \cap Y = {}, NEW key,
         NEW b, Counts(b, key, X), NEW c, Counts(c, key, Y)
  PROVE  Counts(F!Plus(b, c), key, X \cup Y)
<1> DEFINE p == F!Plus(b, c)
<1>1. /\ \A v \in DOMAIN p : p[v] \in Nat \ {0}
      /\ \A v : F!Copies(v, p) = F!Copies(v, b) + F!Copies(v, c)
  BY PlusCopies DEF Counts
<1> HIDE DEF p
<1>2. ASSUME NEW v PROVE F!Copies(v, p) = Cardinality(Keyed(X \cup Y, key, {v}))
  <2>1. F!Copies(v, b) = Cardinality(Keyed(X, key, {v})) /\ F!Copies(v, c) = Cardinality(Keyed(Y, key, {v}))
    BY DEF Counts
  <2>2. Cardinality(Keyed(X \cup Y, key, {v})) =
          Cardinality(Keyed(X, key, {v})) + Cardinality(Keyed(Y, key, {v}))
    BY KeyedUnion
  <2>3. QED
    BY <1>1, <2>1, <2>2
<1>3. p = [v \in DOMAIN p |-> p[v]]
  BY DEF p, F!Plus
<1>4. Counts(p, key, X \cup Y)
  BY <1>1, <1>2, <1>3 DEF Counts
<1>5. QED
  BY <1>4 DEF p

LEMMA OnceCounts ==
  ASSUME NEW x, NEW key
  PROVE  Counts(F!Once(key[x]), key, {x})
<1>1. \A v : Keyed({x}, key, {v}) = IF v = key[x] THEN {x} ELSE {}
  BY DEF Keyed
<1>2. Cardinality({x}) = 1 /\ Cardinality({}) = 0
  BY FS_Singleton, FS_EmptySet
<1>3. \A v : F!Copies(v, F!Once(key[x])) = IF v = key[x] THEN 1 ELSE 0
  BY DEF F!Copies, F!Once
<1>4. /\ \A v \in DOMAIN F!Once(key[x]) : F!Once(key[x])[v] \in Nat \ {0}
      /\ F!Once(key[x]) = [v \in DOMAIN F!Once(key[x]) |-> F!Once(key[x])[v]]
  BY DEF F!Once
<1>5. QED
  BY <1>1, <1>2, <1>3, <1>4 DEF Counts

LEMMA NoneCounts ==
  ASSUME NEW key
  PROVE  Counts(F!None, key, {})
<1>1. \A v : Keyed({}, key, {v}) = {}
  BY DEF Keyed
<1>2. QED
  BY <1>1, FS_EmptySet DEF Counts, F!None, F!Copies

(***************************************************************************)
(* What a summary says of the responses X of a log.  A log gives to each   *)
(* of its members, a worker and a number, a response.                      *)
(***************************************************************************)
LatencyOf(log) == [x \in DOMAIN log |-> log[x].latency]
RecordedOf(log) == [x \in DOMAIN log |-> F!Cell(log[x].latency)]
StatusOf(log) == [x \in DOMAIN log |-> log[x].status]
MethodOf(log) == [x \in DOMAIN log |-> log[x].method]

Failing == {code \in Nat : code >= 400}
Beyond == {latency \in Nat : latency > MaxLatency}

HasCounters(r) ==
  /\ {"completed", "status_errors", "latencies"} \subseteq DOMAIN r
  /\ {"samples", "overflow"} \subseteq DOMAIN r.latencies

\* The counters of a method, or those of a summary.
Tally(r, log, X) ==
  /\ HasCounters(r)
  /\ r.completed = Cardinality(X)
  /\ r.status_errors = Cardinality(Keyed(X, StatusOf(log), Failing))
  /\ Counts(r.latencies.samples, RecordedOf(log), X)
  /\ r.latencies.overflow = Cardinality(Keyed(X, LatencyOf(log), Beyond))

Added(t, r, q) ==
  /\ HasCounters(t)
  /\ t.completed = r.completed + q.completed
  /\ t.status_errors = r.status_errors + q.status_errors
  /\ t.latencies.samples = F!Plus(r.latencies.samples, q.latencies.samples)
  /\ t.latencies.overflow = r.latencies.overflow + q.latencies.overflow

LEMMA TallyAdds ==
  ASSUME NEW log, NEW X, IsFiniteSet(X), NEW Y, IsFiniteSet(Y), X \cap Y = {},
         NEW r, Tally(r, log, X), NEW q, Tally(q, log, Y), NEW t, Added(t, r, q)
  PROVE  Tally(t, log, X \cup Y)
<1>1. Cardinality(X \cup Y) = Cardinality(X) + Cardinality(Y)
  <2>1. Cardinality(X \cup Y) = Cardinality(X) + Cardinality(Y) - Cardinality(X \cap Y)
    BY FS_Union
  <2>2. Cardinality(X) \in Nat /\ Cardinality(Y) \in Nat /\ Cardinality(X \cap Y) = 0
    BY FS_CardinalityType, FS_EmptySet
  <2>3. QED
    BY <2>1, <2>2
<1>2. Cardinality(Keyed(X \cup Y, StatusOf(log), Failing)) =
        Cardinality(Keyed(X, StatusOf(log), Failing)) + Cardinality(Keyed(Y, StatusOf(log), Failing))
  BY KeyedUnion
<1>3. Cardinality(Keyed(X \cup Y, LatencyOf(log), Beyond)) =
        Cardinality(Keyed(X, LatencyOf(log), Beyond)) + Cardinality(Keyed(Y, LatencyOf(log), Beyond))
  BY KeyedUnion
<1>4. Counts(F!Plus(r.latencies.samples, q.latencies.samples), RecordedOf(log), X \cup Y)
  BY PlusCounts DEF Tally
<1>5. QED
  BY <1>1, <1>2, <1>3, <1>4 DEF Tally, Added

\* A counter that has counted one response.
OneOf(r) ==
  [completed |-> 1, status_errors |-> F!Errors(r.status),
   latencies |->
     [samples |-> F!Once(F!Cell(r.latency)), overflow |-> IF r.latency > MaxLatency THEN 1 ELSE 0]]

LEMMA KeyedOne ==
  ASSUME NEW x, NEW key, NEW S
  PROVE  Cardinality(Keyed({x}, key, S)) = IF key[x] \in S THEN 1 ELSE 0
<1>1. Keyed({x}, key, S) = IF key[x] \in S THEN {x} ELSE {}
  BY DEF Keyed
<1>2. Cardinality({x}) = 1 /\ Cardinality({}) = 0
  BY FS_Singleton, FS_EmptySet
<1>3. QED
  BY <1>1, <1>2

LEMMA TallyOne ==
  ASSUME NEW log, NEW x \in DOMAIN log, log[x].status \in Nat, log[x].latency \in Nat
  PROVE  Tally(OneOf(log[x]), log, {x})
<1> DEFINE r == OneOf(log[x])
<1>1. /\ HasCounters(r) /\ r.completed = 1 /\ r.status_errors = F!Errors(log[x].status)
      /\ r.latencies.samples = F!Once(F!Cell(log[x].latency))
      /\ r.latencies.overflow = IF log[x].latency > MaxLatency THEN 1 ELSE 0
  BY DEF OneOf, HasCounters
<1> HIDE DEF r
<1>2. /\ StatusOf(log)[x] = log[x].status /\ LatencyOf(log)[x] = log[x].latency
      /\ RecordedOf(log)[x] = F!Cell(log[x].latency)
  BY DEF StatusOf, LatencyOf, RecordedOf
<1>3. r.status_errors = Cardinality(Keyed({x}, StatusOf(log), Failing))
  <2>1. StatusOf(log)[x] \in Failing <=> log[x].status >= 400
    BY <1>2 DEF Failing
  <2>2. Cardinality(Keyed({x}, StatusOf(log), Failing)) = IF StatusOf(log)[x] \in Failing THEN 1 ELSE 0
    BY KeyedOne
  <2>3. F!Errors(log[x].status) = IF log[x].status >= 400 THEN 1 ELSE 0
    BY DEF F!Errors
  <2>4. QED
    BY <1>1, <2>1, <2>2, <2>3
<1>4. r.latencies.overflow = Cardinality(Keyed({x}, LatencyOf(log), Beyond))
  <2>1. LatencyOf(log)[x] \in Beyond <=> log[x].latency > MaxLatency
    BY <1>2 DEF Beyond
  <2>2. Cardinality(Keyed({x}, LatencyOf(log), Beyond)) = IF LatencyOf(log)[x] \in Beyond THEN 1 ELSE 0
    BY KeyedOne
  <2>3. QED
    BY <1>1, <2>1, <2>2
<1>5. Counts(r.latencies.samples, RecordedOf(log), {x})
  BY <1>1, <1>2, OnceCounts
<1>6. Cardinality({x}) = 1
  BY FS_Singleton
<1>7. Tally(r, log, {x})
  BY <1>1, <1>3, <1>4, <1>5, <1>6 DEF Tally
<1>8. QED
  BY <1>7 DEF r

LEMMA TallyNone ==
  ASSUME NEW log, NEW r, HasCounters(r), r.completed = 0, r.status_errors = 0,
         r.latencies.samples = F!None, r.latencies.overflow = 0
  PROVE  Tally(r, log, {})
<1>1. Keyed({}, StatusOf(log), Failing) = {} /\ Keyed({}, LatencyOf(log), Beyond) = {}
  BY DEF Keyed
<1>2. QED
  BY <1>1, NoneCounts, FS_EmptySet DEF Tally

SummaryFields ==
  {"completed", "abandoned", "recoveries", "status_errors", "socket_errors", "latencies", "methods",
   "statuses", "filtered", "skipped", "rounds", "interval", "runtime", "load", "drain"}

\* A summary and its tables describe the responses X of a log.
Describes(s, log, X) ==
  /\ DOMAIN s = SummaryFields /\ s.interval = Unset
  /\ Tally(s, log, X)
  /\ DOMAIN s.methods = Methods
  /\ \A m \in Methods : Tally(s.methods[m], log, Keyed(X, MethodOf(log), {m}))
  /\ Counts(s.statuses, StatusOf(log), X)

LEMMA DescribesNone ==
  ASSUME NEW log, NEW s, DOMAIN s = SummaryFields, s.interval = Unset, s.completed = 0,
         s.status_errors = 0,
         s.latencies = F!NoLatencies, s.methods = [m \in Methods |-> F!NoMethod],
         s.statuses = F!None
  PROVE  Describes(s, log, {})
<1>1. HasCounters(s) /\ s.latencies.samples = F!None /\ s.latencies.overflow = 0
  BY DEF HasCounters, SummaryFields, F!NoLatencies
<1>2. Tally(s, log, {})
  BY <1>1, TallyNone
<1>3. ASSUME NEW m \in Methods PROVE Tally(s.methods[m], log, Keyed({}, MethodOf(log), {m}))
  <2> DEFINE r == s.methods[m]
  <2>1. r = F!NoMethod
    OBVIOUS
  <2>2. HasCounters(r) /\ r.completed = 0 /\ r.status_errors = 0 /\ r.latencies.samples = F!None
        /\ r.latencies.overflow = 0
    BY <2>1 DEF HasCounters, F!NoMethod, F!NoLatencies
  <2>3. Keyed({}, MethodOf(log), {m}) = {}
    BY DEF Keyed
  <2> HIDE DEF r
  <2>4. Tally(r, log, {})
    BY <2>2, TallyNone
  <2>5. QED
    BY <2>3, <2>4 DEF r
<1>4. Counts(s.statuses, StatusOf(log), {})
  BY NoneCounts
<1>5. QED
  BY <1>2, <1>3, <1>4 DEF Describes

LEMMA KeyedParts ==
  ASSUME NEW X, IsFiniteSet(X), NEW Y, IsFiniteSet(Y), X \cap Y = {}, NEW key, NEW S
  PROVE  /\ Keyed(X \cup Y, key, S) = Keyed(X, key, S) \cup Keyed(Y, key, S)
         /\ Keyed(X, key, S) \cap Keyed(Y, key, S) = {}
         /\ IsFiniteSet(Keyed(X, key, S)) /\ IsFiniteSet(Keyed(Y, key, S))
<1>1. /\ Keyed(X \cup Y, key, S) = Keyed(X, key, S) \cup Keyed(Y, key, S)
      /\ Keyed(X, key, S) \cap Keyed(Y, key, S) = {}
  BY DEF Keyed
<1>2. IsFiniteSet(Keyed(X, key, S)) /\ IsFiniteSet(Keyed(Y, key, S))
  BY KeyedPart
<1>3. QED
  BY <1>1, <1>2

\* The tables of two disjoint sets of responses, added.
LEMMA DescribesUnion ==
  ASSUME NEW log, NEW X, IsFiniteSet(X), NEW Y, IsFiniteSet(Y), X \cap Y = {},
         NEW s, Describes(s, log, X), NEW q, Describes(q, log, Y),
         NEW t, DOMAIN t = SummaryFields, t.interval = Unset, Added(t, s, q),
         DOMAIN t.methods = Methods,
         \A m \in Methods : Added(t.methods[m], s.methods[m], q.methods[m]),
         t.statuses = F!Plus(s.statuses, q.statuses)
  PROVE  Describes(t, log, X \cup Y)
<1>1. Tally(t, log, X \cup Y)
  BY TallyAdds DEF Describes
<1>2. ASSUME NEW m \in Methods PROVE Tally(t.methods[m], log, Keyed(X \cup Y, MethodOf(log), {m}))
  <2> DEFINE S == {m}
             A == Keyed(X, MethodOf(log), S)
             B == Keyed(Y, MethodOf(log), S)
  <2>1. Tally(s.methods[m], log, A) /\ Tally(q.methods[m], log, B) /\ Added(t.methods[m], s.methods[m], q.methods[m])
    BY DEF Describes
  <2> HIDE DEF S
  <2>2. Keyed(X \cup Y, MethodOf(log), S) = A \cup B /\ A \cap B = {} /\ IsFiniteSet(A) /\ IsFiniteSet(B)
    BY KeyedParts
  <2> HIDE DEF A, B
  <2>3. Tally(t.methods[m], log, A \cup B)
    BY <2>1, <2>2, TallyAdds
  <2>4. QED
    BY <2>2, <2>3 DEF S
<1>3. Counts(t.statuses, StatusOf(log), X \cup Y)
  BY PlusCounts DEF Describes
<1>4. QED
  BY <1>1, <1>2, <1>3 DEF Describes

LEMMA RecordAdds ==
  ASSUME NEW r, HasCounters(r), NEW response, NEW t, HasCounters(t),
         t.completed = r.completed + 1,
         t.status_errors = r.status_errors + F!Errors(response.status),
         t.latencies = F!Record(r.latencies, response.latency),
         r.latencies.overflow \in Nat
  PROVE  Added(t, r, OneOf(response))
<1> DEFINE q == OneOf(response)
<1>1. /\ q.completed = 1 /\ q.status_errors = F!Errors(response.status)
      /\ q.latencies.samples = F!Once(F!Cell(response.latency))
      /\ q.latencies.overflow = IF response.latency > MaxLatency THEN 1 ELSE 0
  BY DEF OneOf
<1>2. /\ t.latencies.samples = F!Plus(r.latencies.samples, F!Once(F!Cell(response.latency)))
      /\ t.latencies.overflow = IF response.latency > MaxLatency THEN r.latencies.overflow + 1
                                ELSE r.latencies.overflow
  BY DEF F!Record
<1> HIDE DEF q
<1>3. Added(t, r, q)
  BY <1>1, <1>2 DEF Added
<1>4. QED
  BY <1>3 DEF q

LEMMA TallyTypes ==
  ASSUME NEW log, NEW X, IsFiniteSet(X), NEW r, Tally(r, log, X)
  PROVE  /\ HasCounters(r) /\ r.completed \in Nat /\ r.status_errors \in Nat
         /\ r.latencies.overflow \in Nat
<1>1. Cardinality(X) \in Nat
  BY FS_CardinalityType
<1>2. Cardinality(Keyed(X, StatusOf(log), Failing)) \in Nat
  BY KeyedPart
<1>3. Cardinality(Keyed(X, LatencyOf(log), Beyond)) \in Nat
  BY KeyedPart
<1>4. QED
  BY <1>1, <1>2, <1>3 DEF Tally

IsResponse(r) == r.latency \in Nat /\ r.status \in 0..999 /\ r.method \in Methods

\* The fields of a summary that the responses do not enter.
SameCounts(t, s) ==
  t.abandoned = s.abandoned /\ t.recoveries = s.recoveries /\ t.socket_errors = s.socket_errors

LEMMA RecordDescribes ==
  ASSUME NEW log, NEW X, IsFiniteSet(X), NEW x \in DOMAIN log, x \notin X, IsResponse(log[x]),
         NEW s, Describes(s, log, X)
  PROVE  /\ Describes(F!RecordResponse(s, log[x]), log, X \cup {x})
         /\ SameCounts(F!RecordResponse(s, log[x]), s)
<1> DEFINE t == F!RecordResponse(s, log[x])
           k == log[x].method
           q == OneOf(log[x])
<1>1. /\ DOMAIN t = SummaryFields /\ t.interval = Unset
      /\ t.completed = s.completed + 1
      /\ t.status_errors = s.status_errors + F!Errors(log[x].status)
      /\ t.latencies = F!Record(s.latencies, log[x].latency)
      /\ t.statuses = F!Plus(s.statuses, F!Once(log[x].status))
      /\ SameCounts(t, s)
  BY DEF F!RecordResponse, Describes, SummaryFields, IsResponse, SameCounts
<1>2. /\ DOMAIN t.methods = Methods /\ k \in Methods
      /\ t.methods[k] = F!RecordForMethod(s.methods[k], log[x])
      /\ \A m \in Methods \ {k} : t.methods[m] = s.methods[m]
  BY DEF F!RecordResponse, Describes, SummaryFields, IsResponse
<1> HIDE DEF t
<1>3. Tally(q, log, {x})
  <2>1. log[x].status \in Nat /\ log[x].latency \in Nat
    BY DEF IsResponse
  <2>2. QED
    BY <2>1, TallyOne
<1>4. IsFiniteSet({x}) /\ X \cap {x} = {}
  BY FS_Singleton
<1>5. Tally(t, log, X \cup {x})
  <2>1. Tally(s, log, X)
    BY DEF Describes
  <2>2. HasCounters(s) /\ s.latencies.overflow \in Nat
    BY <2>1, TallyTypes
  <2>3. HasCounters(t)
    BY <1>1 DEF HasCounters, SummaryFields, F!Record
  <2>4. Added(t, s, q)
    BY <1>1, <2>2, <2>3, RecordAdds
  <2> DEFINE Y == {x}
  <2>5. IsFiniteSet(Y) /\ X \cap Y = {} /\ Tally(q, log, Y)
    BY <1>3, <1>4
  <2> HIDE DEF Y, q
  <2>6. Tally(t, log, X \cup Y)
    BY <2>1, <2>4, <2>5, TallyAdds
  <2>7. QED
    BY <2>6 DEF Y
<1>6. MethodOf(log)[x] = k
  BY DEF MethodOf
<1>7. ASSUME NEW m \in Methods PROVE Tally(t.methods[m], log, Keyed(X \cup {x}, MethodOf(log), {m}))
  <2> DEFINE A == Keyed(X, MethodOf(log), {m})
             Y == {x}
  <2>1. Tally(s.methods[m], log, A) /\ IsFiniteSet(A)
    BY KeyedPart DEF Describes
  <2>2. CASE m = k
    <3>1. Keyed(X \cup {x}, MethodOf(log), {m}) = A \cup Y /\ A \cap Y = {}
      BY <1>6, <2>2 DEF Keyed
    <3>2. IsFiniteSet(Y) /\ Tally(q, log, Y)
      BY <1>3, <1>4
    <3> HIDE DEF A, Y, q
    <3>3. HasCounters(s.methods[m]) /\ s.methods[m].latencies.overflow \in Nat
      BY <2>1, TallyTypes
    <3>4. /\ HasCounters(t.methods[m])
          /\ t.methods[m].completed = s.methods[m].completed + 1
          /\ t.methods[m].status_errors = s.methods[m].status_errors + F!Errors(log[x].status)
          /\ t.methods[m].latencies = F!Record(s.methods[m].latencies, log[x].latency)
      BY <1>2, <2>2 DEF HasCounters, F!RecordForMethod, F!Record
    <3>5. Added(t.methods[m], s.methods[m], q)
      BY <3>3, <3>4, RecordAdds DEF q
    <3>6. Tally(t.methods[m], log, A \cup Y)
      BY <2>1, <3>1, <3>2, <3>5, TallyAdds
    <3>7. QED
      BY <3>1, <3>6
  <2>3. CASE m # k
    <3>1. Keyed(X \cup {x}, MethodOf(log), {m}) = A
      BY <1>6, <2>3 DEF Keyed
    <3>2. t.methods[m] = s.methods[m]
      BY <1>2, <2>3
    <3>3. QED
      BY <2>1, <3>1, <3>2
  <2>4. QED
    BY <2>2, <2>3
<1>8. Counts(t.statuses, StatusOf(log), X \cup {x})
  <2> DEFINE Y == {x}
             c == F!Once(log[x].status)
  <2>1. StatusOf(log)[x] = log[x].status
    BY DEF StatusOf
  <2>2. Counts(c, StatusOf(log), Y) /\ IsFiniteSet(Y) /\ X \cap Y = {}
    BY <1>4, <2>1, OnceCounts
  <2>3. Counts(s.statuses, StatusOf(log), X) /\ t.statuses = F!Plus(s.statuses, c)
    BY <1>1 DEF Describes
  <2> HIDE DEF Y, c
  <2>4. Counts(F!Plus(s.statuses, c), StatusOf(log), X \cup Y)
    BY <2>2, <2>3, PlusCounts
  <2>5. QED
    BY <2>3, <2>4 DEF Y
<1>9. Describes(t, log, X \cup {x})
  BY <1>1, <1>2, <1>5, <1>7, <1>8 DEF Describes
<1>10. QED
  BY <1>1, <1>9 DEF t

\* What two summaries count of other things than responses, added.
AddedCounts(t, s, q) ==
  /\ t.abandoned = s.abandoned + q.abandoned
  /\ t.recoveries = s.recoveries + q.recoveries
  /\ t.socket_errors = s.socket_errors + q.socket_errors

LEMMA MergeDescribes ==
  ASSUME NEW log, NEW X, IsFiniteSet(X), NEW Y, IsFiniteSet(Y), X \cap Y = {},
         NEW s, Describes(s, log, X), NEW q, Describes(q, log, Y)
  PROVE  /\ Describes(F!MergeSummary(s, q), log, X \cup Y)
         /\ AddedCounts(F!MergeSummary(s, q), s, q)
<1> DEFINE t == F!MergeSummary(s, q)
<1>1. /\ DOMAIN t = SummaryFields /\ t.interval = Unset
      /\ t.completed = s.completed + q.completed
      /\ t.status_errors = s.status_errors + q.status_errors
      /\ t.latencies = F!Merge(s.latencies, q.latencies)
      /\ t.statuses = F!Plus(s.statuses, q.statuses)
      /\ t.methods = [m \in Methods |-> F!MergeMethod(s.methods[m], q.methods[m])]
  BY DEF F!MergeSummary, Describes, SummaryFields
<1>2. AddedCounts(t, s, q)
  BY DEF F!MergeSummary, Describes, SummaryFields, AddedCounts
<1> HIDE DEF t
<1>3. Added(t, s, q)
  BY <1>1 DEF Added, HasCounters, SummaryFields, F!Merge
<1>4. ASSUME NEW m \in Methods PROVE Added(t.methods[m], s.methods[m], q.methods[m])
  <2>1. t.methods[m] = F!MergeMethod(s.methods[m], q.methods[m])
    BY <1>1
  <2>2. QED
    BY <2>1 DEF Added, HasCounters, F!MergeMethod, F!Merge
<1>5. DOMAIN t.methods = Methods
  BY <1>1
<1>6. Describes(t, log, X \cup Y)
  BY <1>1, <1>3, <1>4, <1>5, DescribesUnion
<1>7. QED
  BY <1>2, <1>6 DEF t

(***************************************************************************)
(* The summary of a worker, after each of its responses.                   *)
(***************************************************************************)
IsRecording(w, g) == g = [n \in 0..Len(w.responses) |-> F!Recorded(w, g, n)]

LEMMA RecordingExists ==
  ASSUME NEW w, Len(w.responses) \in Nat
  PROVE  \E g : IsRecording(w, g)
<1> DEFINE L == Len(w.responses)
           Good(g, m) == \A n \in 0..L : n < m => g[n] = F!Recorded(w, g, n)
           Short == {m \in Nat : ~\E g : Good(g, m)}
<1>0. L \in Nat
  OBVIOUS
<1> HIDE DEF L
<1>1. ASSUME NEW n \in 0..L, NEW g, NEW h, n # 0 => g[n - 1] = h[n - 1]
      PROVE  F!Recorded(w, g, n) = F!Recorded(w, h, n)
  BY <1>1 DEF F!Recorded
<1>2. Short = {}
  <2> SUFFICES ASSUME Short # {} PROVE FALSE
    OBVIOUS
  <2>1. PICK m \in Short : \A y \in Nat : y < m => y \notin Short
    <3>1. Short \in SUBSET Nat
      OBVIOUS
    <3> HIDE DEF Short
    <3>2. QED
      BY <3>1, FirstFailure
  <2>2. m \in Nat /\ ~\E g : Good(g, m)
    BY <2>1
  <2>3. m # 0
    <3>1. \A n \in 0..L : ~(n < 0)
      BY <1>0
    <3>2. QED
      BY <2>2, <3>1
  <2>4. m - 1 \in Nat /\ m - 1 \notin Short
    <3>1. m - 1 \in Nat /\ m - 1 < m
      BY <2>2, <2>3
    <3> HIDE DEF Short
    <3>2. QED
      BY <2>1, <3>1
  <2>5. PICK g : Good(g, m - 1)
    <3> HIDE DEF Good
    <3>1. QED
      BY <2>4
  <2> DEFINE h == [n \in 0..L |-> F!Recorded(w, g, n)]
  <2>6. ASSUME NEW n \in 0..L, n < m PROVE h[n] = F!Recorded(w, h, n)
    <3>1. n # 0 => n - 1 \in 0..L /\ n - 1 < m - 1
      BY <1>0, <2>2, <2>6
    <3>2. n # 0 => g[n - 1] = h[n - 1]
      BY <2>5, <3>1
    <3>3. h[n] = F!Recorded(w, g, n)
      OBVIOUS
    <3> HIDE DEF h
    <3>4. F!Recorded(w, g, n) = F!Recorded(w, h, n)
      BY <1>1, <3>2
    <3>5. QED
      BY <3>3, <3>4
  <2> HIDE DEF h
  <2>7. QED
    BY <2>2, <2>6
<1>3. PICK g : Good(g, L + 1)
  <2> HIDE DEF Good
  <2>1. L + 1 \in Nat
    BY <1>0
  <2>2. QED
    BY <1>2, <2>1
<1>4. \A n \in 0..L : g[n] = F!Recorded(w, g, n)
  BY <1>0, <1>3
<1> DEFINE h == [n \in 0..L |-> g[n]]
<1>5. ASSUME NEW n \in 0..L PROVE h[n] = F!Recorded(w, h, n)
  <2>1. h[n] = g[n] /\ (n # 0 => g[n - 1] = h[n - 1])
    BY <1>0
  <2> HIDE DEF h
  <2>2. F!Recorded(w, g, n) = F!Recorded(w, h, n)
    BY <1>1, <2>1
  <2>3. QED
    BY <1>4, <2>1, <2>2
<1>6. h = [n \in 0..L |-> F!Recorded(w, h, n)]
  BY <1>5
<1> HIDE DEF h
<1>7. QED
  BY <1>6 DEF IsRecording, L

Recording(w) == CHOOSE g : IsRecording(w, g)

LEMMA RecordingIs ==
  ASSUME NEW w, Len(w.responses) \in Nat, NEW g, g = Recording(w)
  PROVE  /\ F!WorkerSummary(w) = g[Len(w.responses)]
         /\ \A n \in 0..Len(w.responses) : g[n] = F!Recorded(w, g, n)
<1>1. IsRecording(w, g)
  BY RecordingExists DEF Recording
<1>2. \A n \in 0..Len(w.responses) : g[n] = F!Recorded(w, g, n)
  BY <1>1 DEF IsRecording
<1>3. F!WorkerSummary(w) = g[Len(w.responses)]
  BY DEF F!WorkerSummary, Recording, IsRecording
<1>4. QED
  BY <1>2, <1>3

\* The first n responses of worker w.
Part(w, n) == {<<w, i>> : i \in 1..n}

LEMMA PartGrows ==
  ASSUME NEW w, NEW n \in Nat \ {0}
  PROVE  /\ Part(w, n) = Part(w, n - 1) \cup {<<w, n>>} /\ <<w, n>> \notin Part(w, n - 1)
         /\ Part(w, 0) = {}
<1>1. 1..n = 1..(n - 1) \cup {n} /\ 1..0 = {} /\ n \notin 1..(n - 1)
  OBVIOUS
<1> DEFINE A == 1..(n - 1)
<1>2. 1..n = A \cup {n} /\ n \notin A
  BY <1>1
<1> HIDE DEF A
<1>3. {<<w, i>> : i \in A \cup {n}} = {<<w, i>> : i \in A} \cup {<<w, n>>}
  OBVIOUS
<1>4. <<w, n>> \notin {<<w, i>> : i \in A}
  BY <1>2
<1>5. QED
  BY <1>1, <1>2, <1>3, <1>4 DEF A, Part

\* The log holds the responses of v as those of w.
Logged(log, w, v) ==
  \A i \in 1..Len(v.responses) :
    /\ <<w, i>> \in DOMAIN log /\ log[<<w, i>>] = v.responses[i] /\ IsResponse(v.responses[i])

LEMMA WorkerDescribes ==
  ASSUME NEW log, NEW w, NEW v, Len(v.responses) \in Nat, Logged(log, w, v)
  PROVE  /\ IsFiniteSet(Part(w, Len(v.responses)))
         /\ Describes(F!WorkerSummary(v), log, Part(w, Len(v.responses)))
         /\ SameCounts(F!WorkerSummary(v), v)
<1> DEFINE L == Len(v.responses)
           g == Recording(v)
           Right(n) == IsFiniteSet(Part(w, n)) /\ Describes(g[n], log, Part(w, n)) /\ SameCounts(g[n], v)
           Wrong == {n \in 0..L : ~Right(n)}
<1>1. F!WorkerSummary(v) = g[L] /\ \A n \in 0..L : g[n] = F!Recorded(v, g, n)
  BY RecordingIs
<1>2. L \in Nat
  OBVIOUS
<1>3. /\ Logged(log, w, v)
      /\ \A i \in 1..L : <<w, i>> \in DOMAIN log /\ log[<<w, i>>] = v.responses[i] /\ IsResponse(log[<<w, i>>])
  BY DEF Logged
<1> HIDE DEF L, g
<1>4. Right(0)
  <2>1. 0 \in 0..L
    BY <1>2
  <2>2. g[0] = F!Recorded(v, g, 0)
    BY <1>1, <2>1
  <2>3. /\ DOMAIN g[0] = SummaryFields /\ g[0].interval = Unset /\ g[0].completed = 0 /\ g[0].status_errors = 0
        /\ g[0].latencies = F!NoLatencies /\ g[0].methods = [m \in Methods |-> F!NoMethod]
        /\ g[0].statuses = F!None
        /\ g[0].abandoned = v.abandoned /\ g[0].recoveries = v.recoveries
        /\ g[0].socket_errors = v.socket_errors
    BY <2>2 DEF F!Recorded, F!NoSummary, SummaryFields
  <2>4. Describes(g[0], log, {})
    BY <2>3, DescribesNone
  <2>5. Part(w, 0) = {} /\ IsFiniteSet({})
    BY FS_EmptySet DEF Part
  <2>6. QED
    BY <2>3, <2>4, <2>5 DEF SameCounts
<1>5. ASSUME NEW n \in 1..L, Right(n - 1) PROVE Right(n)
  <2> DEFINE x == <<w, n>>
             X == Part(w, n - 1)
             s == g[n - 1]
  <2>1. g[n] = F!RecordResponse(s, log[x])
    <3>1. n \in 0..L /\ n # 0
      BY <1>2
    <3>2. log[x] = v.responses[n]
      BY <1>3
    <3>3. QED
      BY <1>1, <3>1, <3>2 DEF F!Recorded
  <2>2. x \in DOMAIN log /\ IsResponse(log[x])
    BY <1>3
  <2>3. Part(w, n) = X \cup {x} /\ x \notin X
    <3>1. n \in Nat \ {0}
      BY <1>2
    <3>2. QED
      BY <3>1, PartGrows
  <2>4. IsFiniteSet(X) /\ Describes(s, log, X) /\ SameCounts(s, v)
    BY <1>5
  <2> HIDE DEF x, X, s
  <2>5. Describes(g[n], log, X \cup {x}) /\ SameCounts(g[n], s)
    BY <2>1, <2>2, <2>3, <2>4, RecordDescribes
  <2>6. IsFiniteSet(X \cup {x})
    BY <2>4, FS_AddElement
  <2>7. QED
    BY <2>3, <2>4, <2>5, <2>6 DEF SameCounts
<1>6. Wrong = {}
  <2> SUFFICES ASSUME Wrong # {} PROVE FALSE
    OBVIOUS
  <2>1. PICK n \in Wrong : \A y \in Nat : y < n => y \notin Wrong
    <3>1. Wrong \in SUBSET Nat
      BY <1>2
    <3> HIDE DEF Wrong
    <3>2. QED
      BY <3>1, FirstFailure
  <2>2. n \in 0..L /\ ~Right(n)
    BY <2>1
  <2>3. n # 0
    BY <1>4, <2>2
  <2>4. n \in 1..L /\ n - 1 \in 0..L /\ n - 1 \in Nat /\ n - 1 < n
    BY <1>2, <2>2, <2>3
  <2>5. Right(n - 1)
    BY <2>1, <2>4
  <2> HIDE DEF Right
  <2>6. QED
    BY <1>5, <2>2, <2>4, <2>5
<1>7. Right(L)
  BY <1>2, <1>6
<1>8. QED
  BY <1>1, <1>7 DEF L

(***************************************************************************)
(* The summary of the run, after each worker.                              *)
(***************************************************************************)
IsJoining(workers, g) == g = [n \in 0..Len(workers) |-> F!Joined(workers, g, n)]

LEMMA JoiningExists ==
  ASSUME NEW workers, Len(workers) \in Nat
  PROVE  \E g : IsJoining(workers, g)
<1> DEFINE L == Len(workers)
           Good(g, m) == \A n \in 0..L : n < m => g[n] = F!Joined(workers, g, n)
           Short == {m \in Nat : ~\E g : Good(g, m)}
<1>0. L \in Nat
  OBVIOUS
<1> HIDE DEF L
<1>1. ASSUME NEW n \in 0..L, NEW g, NEW h, n # 0 => g[n - 1] = h[n - 1]
      PROVE  F!Joined(workers, g, n) = F!Joined(workers, h, n)
  BY <1>1 DEF F!Joined
<1>2. Short = {}
  <2> SUFFICES ASSUME Short # {} PROVE FALSE
    OBVIOUS
  <2>1. PICK m \in Short : \A y \in Nat : y < m => y \notin Short
    <3>1. Short \in SUBSET Nat
      OBVIOUS
    <3> HIDE DEF Short
    <3>2. QED
      BY <3>1, FirstFailure
  <2>2. m \in Nat /\ ~\E g : Good(g, m)
    BY <2>1
  <2>3. m # 0
    <3>1. \A n \in 0..L : ~(n < 0)
      BY <1>0
    <3>2. QED
      BY <2>2, <3>1
  <2>4. m - 1 \in Nat /\ m - 1 \notin Short
    <3>1. m - 1 \in Nat /\ m - 1 < m
      BY <2>2, <2>3
    <3> HIDE DEF Short
    <3>2. QED
      BY <2>1, <3>1
  <2>5. PICK g : Good(g, m - 1)
    <3> HIDE DEF Good
    <3>1. QED
      BY <2>4
  <2> DEFINE h == [n \in 0..L |-> F!Joined(workers, g, n)]
  <2>6. ASSUME NEW n \in 0..L, n < m PROVE h[n] = F!Joined(workers, h, n)
    <3>1. n # 0 => n - 1 \in 0..L /\ n - 1 < m - 1
      BY <1>0, <2>2, <2>6
    <3>2. n # 0 => g[n - 1] = h[n - 1]
      BY <2>5, <3>1
    <3>3. h[n] = F!Joined(workers, g, n)
      OBVIOUS
    <3> HIDE DEF h
    <3>4. F!Joined(workers, g, n) = F!Joined(workers, h, n)
      BY <1>1, <3>2
    <3>5. QED
      BY <3>3, <3>4
  <2> HIDE DEF h
  <2>7. QED
    BY <2>2, <2>6
<1>3. PICK g : Good(g, L + 1)
  <2> HIDE DEF Good
  <2>1. L + 1 \in Nat
    BY <1>0
  <2>2. QED
    BY <1>2, <2>1
<1>4. \A n \in 0..L : g[n] = F!Joined(workers, g, n)
  BY <1>0, <1>3
<1> DEFINE h == [n \in 0..L |-> g[n]]
<1>5. ASSUME NEW n \in 0..L PROVE h[n] = F!Joined(workers, h, n)
  <2>1. h[n] = g[n] /\ (n # 0 => g[n - 1] = h[n - 1])
    BY <1>0
  <2> HIDE DEF h
  <2>2. F!Joined(workers, g, n) = F!Joined(workers, h, n)
    BY <1>1, <2>1
  <2>3. QED
    BY <1>4, <2>1, <2>2
<1>6. h = [n \in 0..L |-> F!Joined(workers, h, n)]
  BY <1>5
<1> HIDE DEF h
<1>7. QED
  BY <1>6 DEF IsJoining, L

Joining(workers) == CHOOSE g : IsJoining(workers, g)

LEMMA JoiningIs ==
  ASSUME NEW workers, Len(workers) \in Nat, NEW g, g = Joining(workers)
  PROVE  /\ F!JoinWorkers(workers) = g[Len(workers)]
         /\ \A n \in 0..Len(workers) : g[n] = F!Joined(workers, g, n)
<1>1. IsJoining(workers, g)
  BY JoiningExists DEF Joining
<1>2. \A n \in 0..Len(workers) : g[n] = F!Joined(workers, g, n)
  BY <1>1 DEF IsJoining
<1>3. F!JoinWorkers(workers) = g[Len(workers)]
  BY DEF F!JoinWorkers, Joining, IsJoining
<1>4. QED
  BY <1>2, <1>3

LogOf(o) == [x \in Responses(o) |-> o.workers[x[1]].responses[x[2]]]

\* The responses of the first n workers.
PartsTo(workers, n) == UNION {Part(w, Len(workers[w].responses)) : w \in 1..n}

LEMMA PartsGrow ==
  ASSUME NEW workers, NEW n \in Nat \ {0}
  PROVE  /\ PartsTo(workers, 0) = {}
         /\ PartsTo(workers, n) = PartsTo(workers, n - 1) \cup Part(n, Len(workers[n].responses))
         /\ PartsTo(workers, n - 1) \cap Part(n, Len(workers[n].responses)) = {}
<1>1. ASSUME NEW k, NEW x
      PROVE  x \in PartsTo(workers, k) <=> \E w \in 1..k : x \in Part(w, Len(workers[w].responses))
  BY DEF PartsTo
<1>2. ASSUME NEW w, NEW x \in Part(w, Len(workers[w].responses)) PROVE x[1] = w
  BY DEF Part
<1>3. 1..n = 1..(n - 1) \cup {n} /\ n \notin 1..(n - 1) /\ 1..0 = {}
  OBVIOUS
<1>4. PartsTo(workers, 0) = {}
  <2>1. \A x : x \notin PartsTo(workers, 0)
    BY <1>1, <1>3
  <2>2. QED
    BY <2>1
<1>5. ASSUME NEW x
      PROVE  x \in PartsTo(workers, n) <=>
               x \in PartsTo(workers, n - 1) \/ x \in Part(n, Len(workers[n].responses))
  <2>1. /\ x \in PartsTo(workers, n) <=> \E w \in 1..n : x \in Part(w, Len(workers[w].responses))
        /\ x \in PartsTo(workers, n - 1) <=>
             \E w \in 1..(n - 1) : x \in Part(w, Len(workers[w].responses))
    BY <1>1
  <2>2. QED
    BY <1>3, <2>1
<1>6. ASSUME NEW x \in PartsTo(workers, n - 1) PROVE x \notin Part(n, Len(workers[n].responses))
  <2>1. PICK w \in 1..(n - 1) : x \in Part(w, Len(workers[w].responses))
    BY <1>1
  <2>2. x[1] = w /\ w # n
    BY <1>2, <1>3, <2>1
  <2>3. QED
    BY <1>2, <2>2
<1>7. QED
  BY <1>4, <1>5, <1>6

LEMMA WorkersAre ==
  ASSUME NEW o, o.workers \in Seq(WorkerType)
  PROVE  /\ Len(o.workers) \in Nat /\ DOMAIN o.workers = 1..Len(o.workers)
         /\ \A w \in 1..Len(o.workers) :
              /\ o.workers[w] \in WorkerType
              /\ Len(o.workers[w].responses) \in Nat
              /\ DOMAIN o.workers[w].responses = 1..Len(o.workers[w].responses)
              /\ \A i \in 1..Len(o.workers[w].responses) : IsResponse(o.workers[w].responses[i])
              /\ o.workers[w].abandoned \in Nat /\ o.workers[w].recoveries \in Nat
              /\ o.workers[w].socket_errors \in Nat
<1>1. Len(o.workers) \in Nat /\ DOMAIN o.workers = 1..Len(o.workers)
      /\ \A w \in 1..Len(o.workers) : o.workers[w] \in WorkerType
  OBVIOUS
<1>2. ASSUME NEW v \in WorkerType
      PROVE  /\ Len(v.responses) \in Nat /\ DOMAIN v.responses = 1..Len(v.responses)
             /\ \A i \in 1..Len(v.responses) : IsResponse(v.responses[i])
             /\ v.abandoned \in Nat /\ v.recoveries \in Nat /\ v.socket_errors \in Nat
  <2>1. v.responses \in Seq(ResponseType) /\ v.abandoned \in Nat /\ v.recoveries \in Nat
        /\ v.socket_errors \in Nat
    BY DEF WorkerType
  <2>2. \A i \in 1..Len(v.responses) : v.responses[i] \in ResponseType
    BY <2>1
  <2>3. \A r \in ResponseType : IsResponse(r)
    BY DEF ResponseType, IsResponse
  <2>4. QED
    BY <2>1, <2>2, <2>3
<1>3. QED
  BY <1>1, <1>2

LEMMA ResponsesAre ==
  ASSUME NEW o, o.workers \in Seq(WorkerType)
  PROVE  /\ Responses(o) = PartsTo(o.workers, Len(o.workers))
         /\ \A w \in 1..Len(o.workers) : Logged(LogOf(o), w, o.workers[w])
         /\ \A x \in Responses(o) : IsResponse(LogOf(o)[x])
<1> DEFINE L == Len(o.workers)
           R(w) == o.workers[w].responses
<1>1. DOMAIN o.workers = 1..L /\ \A w \in 1..L : DOMAIN R(w) = 1..Len(R(w))
  BY WorkersAre
<1>2. ASSUME NEW w \in 1..L PROVE {w} \X DOMAIN R(w) = Part(w, Len(R(w)))
  <2> DEFINE A == 1..Len(R(w))
  <2>1. DOMAIN R(w) = A
    BY <1>1
  <2> HIDE DEF A
  <2>2. {w} \X A = {<<w, i>> : i \in A}
    OBVIOUS
  <2>3. QED
    BY <2>1, <2>2 DEF A, Part
<1>3. Responses(o) = PartsTo(o.workers, L)
  BY <1>1, <1>2 DEF Responses, PartsTo
<1>4. ASSUME NEW w \in 1..L, NEW i \in 1..Len(R(w))
      PROVE  <<w, i>> \in Responses(o) /\ LogOf(o)[<<w, i>>] = R(w)[i] /\ IsResponse(R(w)[i])
  <2>1. <<w, i>> \in Responses(o)
    BY <1>1 DEF Responses
  <2>2. LogOf(o)[<<w, i>>] = R(w)[i]
    BY <2>1 DEF LogOf
  <2>3. IsResponse(R(w)[i])
    BY WorkersAre
  <2>4. QED
    BY <2>1, <2>2, <2>3
<1>5. DOMAIN LogOf(o) = Responses(o)
  BY DEF LogOf
<1>6. \A w \in 1..L : Logged(LogOf(o), w, o.workers[w])
  BY <1>4, <1>5 DEF Logged
<1>7. ASSUME NEW x \in Responses(o) PROVE IsResponse(LogOf(o)[x])
  <2>1. PICK w \in 1..L : x \in Part(w, Len(R(w)))
    BY <1>3 DEF PartsTo
  <2>2. PICK i \in 1..Len(R(w)) : x = <<w, i>>
    BY <2>1 DEF Part
  <2>3. QED
    BY <1>4, <2>2
<1>8. QED
  BY <1>3, <1>6, <1>7

LEMMA SumNext ==
  ASSUME NEW n \in Nat \ {0}, NEW f, \A i \in 1..n : f[i] \in Nat
  PROVE  /\ SumFunctionOnSet(f, 1..n) = SumFunctionOnSet(f, 1..(n - 1)) + f[n]
         /\ SumFunctionOnSet(f, 1..(n - 1)) \in Nat
<1>1. IsFiniteSet(1..n) /\ IsFiniteSet(1..(n - 1))
  BY FS_Interval
<1>2. n \in 1..n /\ (1..n) \ {n} = 1..(n - 1) /\ 1..(n - 1) \subseteq 1..n
  OBVIOUS
<1>3. SumFunctionOnSet(f, 1..n) = f[n] + SumFunctionOnSet(f, 1..(n - 1))
  BY <1>1, <1>2, SumRemoves
<1>4. SumFunctionOnSet(f, 1..(n - 1)) \in Nat
  BY <1>1, <1>2, SumType
<1>5. QED
  BY <1>2, <1>3, <1>4

\* What the workers together count of other things than responses.
CountsUpTo(s, workers, n) ==
  /\ s.abandoned = SumFunctionOnSet([w \in DOMAIN workers |-> workers[w].abandoned], 1..n)
  /\ s.recoveries = SumFunctionOnSet([w \in DOMAIN workers |-> workers[w].recoveries], 1..n)
  /\ s.socket_errors = SumFunctionOnSet([w \in DOMAIN workers |-> workers[w].socket_errors], 1..n)

LEMMA CountsNext ==
  ASSUME NEW o, o.workers \in Seq(WorkerType), NEW n \in 1..Len(o.workers),
         NEW s, CountsUpTo(s, o.workers, n - 1), NEW q, SameCounts(q, o.workers[n]),
         NEW t, AddedCounts(t, s, q)
  PROVE  CountsUpTo(t, o.workers, n)
<1> DEFINE a == [w \in DOMAIN o.workers |-> o.workers[w].abandoned]
           r == [w \in DOMAIN o.workers |-> o.workers[w].recoveries]
           e == [w \in DOMAIN o.workers |-> o.workers[w].socket_errors]
<1>1. /\ n \in Nat \ {0}
      /\ \A w \in 1..n : a[w] \in Nat /\ r[w] \in Nat /\ e[w] \in Nat
      /\ a[n] = o.workers[n].abandoned /\ r[n] = o.workers[n].recoveries
      /\ e[n] = o.workers[n].socket_errors
  <2>1. /\ Len(o.workers) \in Nat /\ DOMAIN o.workers = 1..Len(o.workers)
        /\ \A w \in 1..Len(o.workers) : o.workers[w] \in WorkerType
    BY WorkersAre
  <2>2. \A v \in WorkerType : v.abandoned \in Nat /\ v.recoveries \in Nat /\ v.socket_errors \in Nat
    BY DEF WorkerType
  <2>3. n \in Nat \ {0} /\ \A w \in 1..n : w \in DOMAIN o.workers /\ o.workers[w] \in WorkerType
    BY <2>1
  <2>4. \A w \in 1..n : a[w] \in Nat /\ r[w] \in Nat /\ e[w] \in Nat
    BY <2>2, <2>3
  <2>5. n \in 1..n
    BY <2>3
  <2>6. n \in DOMAIN o.workers
    BY <2>3, <2>5
  <2>7. /\ a[n] = o.workers[n].abandoned /\ r[n] = o.workers[n].recoveries
        /\ e[n] = o.workers[n].socket_errors
    BY <2>6
  <2> HIDE DEF a, r, e
  <2>8. QED
    BY <2>3, <2>4, <2>7
<1>2. CountsUpTo(s, o.workers, n - 1) <=>
        /\ s.abandoned = SumFunctionOnSet(a, 1..(n - 1))
        /\ s.recoveries = SumFunctionOnSet(r, 1..(n - 1))
        /\ s.socket_errors = SumFunctionOnSet(e, 1..(n - 1))
  BY DEF CountsUpTo
<1>3. CountsUpTo(t, o.workers, n) <=>
        /\ t.abandoned = SumFunctionOnSet(a, 1..n)
        /\ t.recoveries = SumFunctionOnSet(r, 1..n)
        /\ t.socket_errors = SumFunctionOnSet(e, 1..n)
  BY DEF CountsUpTo
<1> HIDE DEF a, r, e
<1>4. SumFunctionOnSet(a, 1..n) = SumFunctionOnSet(a, 1..(n - 1)) + a[n]
  BY <1>1, SumNext
<1>5. SumFunctionOnSet(r, 1..n) = SumFunctionOnSet(r, 1..(n - 1)) + r[n]
  BY <1>1, SumNext
<1>6. SumFunctionOnSet(e, 1..n) = SumFunctionOnSet(e, 1..(n - 1)) + e[n]
  BY <1>1, SumNext
<1>7. QED
  BY <1>1, <1>2, <1>3, <1>4, <1>5, <1>6 DEF SameCounts, AddedCounts

\* The summary that run_with_roots joins describes all responses of the workers.
LEMMA JoinDescribes ==
  ASSUME NEW o, o.workers \in Seq(WorkerType)
  PROVE  /\ IsFiniteSet(Responses(o))
         /\ Describes(F!JoinWorkers(o.workers), LogOf(o), Responses(o))
         /\ CountsUpTo(F!JoinWorkers(o.workers), o.workers, Len(o.workers))
<1> DEFINE workers == o.workers
           L == Len(workers)
           g == Joining(workers)
           log == LogOf(o)
           X(n) == PartsTo(workers, n)
           Right(n) == /\ IsFiniteSet(X(n)) /\ Describes(g[n], log, X(n))
                       /\ CountsUpTo(g[n], workers, n)
           Wrong == {n \in 0..L : ~Right(n)}
<1>1. L \in Nat /\ \A w \in 1..L : Len(workers[w].responses) \in Nat
  BY WorkersAre
<1>2. F!JoinWorkers(workers) = g[L] /\ \A n \in 0..L : g[n] = F!Joined(workers, g, n)
  BY <1>1, JoiningIs
<1>3. Responses(o) = X(L) /\ \A w \in 1..L : Logged(log, w, workers[w])
  BY ResponsesAre
<1> HIDE DEF g, log
<1>4. Right(0)
  <2>1. g[0] = F!NoSummary
    BY <1>1, <1>2 DEF F!Joined
  <2>2. /\ DOMAIN g[0] = SummaryFields /\ g[0].interval = Unset /\ g[0].completed = 0 /\ g[0].status_errors = 0
        /\ g[0].latencies = F!NoLatencies /\ g[0].methods = [m \in Methods |-> F!NoMethod]
        /\ g[0].statuses = F!None
        /\ g[0].abandoned = 0 /\ g[0].recoveries = 0 /\ g[0].socket_errors = 0
    BY <2>1 DEF F!NoSummary, SummaryFields
  <2>3. Describes(g[0], log, {})
    BY <2>2, DescribesNone
  <2>4. X(0) = {} /\ IsFiniteSet({})
    BY PartsGrow, FS_EmptySet
  <2>5. 1..0 = {}
    OBVIOUS
  <2>6. CountsUpTo(g[0], workers, 0)
    BY <2>2, <2>5, SumOfNone DEF CountsUpTo
  <2>7. QED
    BY <2>3, <2>4, <2>6
<1>5. ASSUME NEW n \in 1..L, Right(n - 1) PROVE Right(n)
  <2> DEFINE q == F!WorkerSummary(workers[n])
             Y == Part(n, Len(workers[n].responses))
             Z == X(n - 1)
             s == g[n - 1]
  <2>1. g[n] = F!MergeSummary(s, q)
    <3>1. n \in 0..L /\ n # 0
      BY <1>1
    <3>2. QED
      BY <1>2, <3>1 DEF F!Joined
  <2>2. IsFiniteSet(Y) /\ Describes(q, log, Y) /\ SameCounts(q, workers[n])
    <3>1. Len(workers[n].responses) \in Nat /\ Logged(log, n, workers[n])
      BY <1>1, <1>3
    <3>2. QED
      BY <3>1, WorkerDescribes
  <2>3. X(n) = Z \cup Y /\ Z \cap Y = {}
    <3>1. n \in Nat \ {0}
      BY <1>1
    <3>2. QED
      BY <3>1, PartsGrow
  <2>4. IsFiniteSet(Z) /\ Describes(s, log, Z) /\ CountsUpTo(s, workers, n - 1)
    BY <1>5
  <2> HIDE DEF q, Y, Z, s
  <2>5. Describes(g[n], log, Z \cup Y) /\ AddedCounts(g[n], s, q)
    <3>1. Z \cap Y = {}
      BY <2>3
    <3>2. Describes(F!MergeSummary(s, q), log, Z \cup Y) /\ AddedCounts(F!MergeSummary(s, q), s, q)
      BY <2>2, <2>4, <3>1, MergeDescribes
    <3>3. QED
      BY <2>1, <3>2
  <2>6. CountsUpTo(g[n], workers, n)
    BY <2>2, <2>4, <2>5, CountsNext
  <2>7. IsFiniteSet(Z \cup Y)
    BY <2>2, <2>4, FS_Union
  <2>8. QED
    BY <2>3, <2>5, <2>6, <2>7
<1>6. Wrong = {}
  <2> SUFFICES ASSUME Wrong # {} PROVE FALSE
    OBVIOUS
  <2>1. PICK n \in Wrong : \A y \in Nat : y < n => y \notin Wrong
    <3>1. Wrong \in SUBSET Nat
      BY <1>1
    <3> HIDE DEF Wrong
    <3>2. QED
      BY <3>1, FirstFailure
  <2>2. n \in 0..L /\ ~Right(n)
    BY <2>1
  <2>3. n # 0
    BY <1>4, <2>2
  <2>4. n \in 1..L /\ n - 1 \in 0..L /\ n - 1 \in Nat /\ n - 1 < n
    BY <1>1, <2>2, <2>3
  <2>5. Right(n - 1)
    BY <2>1, <2>4
  <2> HIDE DEF Right
  <2>6. QED
    BY <1>5, <2>2, <2>4, <2>5
<1>7. Right(L)
  BY <1>1, <1>6
<1>8. QED
  BY <1>2, <1>3, <1>7 DEF log

(***************************************************************************)
(* The tables by method add up to the totals.                              *)
(***************************************************************************)
LEMMA MethodsAreFinite == IsFiniteSet(Methods)
<1>1. IsFiniteSet({"GET"}) /\ IsFiniteSet({"GET"} \cup {"HEAD"})
  BY FS_Singleton, FS_AddElement
<1>2. IsFiniteSet({"GET"} \cup {"HEAD"} \cup {"POST"})
  BY <1>1, FS_AddElement
<1>3. IsFiniteSet({"GET"} \cup {"HEAD"} \cup {"POST"} \cup {"BREW"})
  BY <1>2, FS_AddElement
<1>4. Methods = {"GET"} \cup {"HEAD"} \cup {"POST"} \cup {"BREW"}
  BY DEF Methods
<1>5. QED
  BY <1>3, <1>4

\* g counts by method the responses of X whose key is in S.
ByMethod(g, log, X, key, S) ==
  \A m \in Methods : g[m] = Cardinality(Keyed(Keyed(X, MethodOf(log), {m}), key, S))

AllMethods(log, X) == \A x \in X : MethodOf(log)[x] \in Methods

LEMMA MethodsAddUp ==
  ASSUME NEW X, IsFiniteSet(X), NEW log, AllMethods(log, X), NEW key, NEW S, NEW g,
         ByMethod(g, log, X, key, S)
  PROVE  SumFunctionOnSet(g, Methods) = Cardinality(Keyed(X, key, S))
<1> DEFINE Y == Keyed(X, key, S)
           M == MethodOf(log)
<1>1. IsFiniteSet(Y)
  BY KeyedPart
<1>2. ASSUME NEW m PROVE Keyed(Y, M, {m}) = Keyed(Keyed(X, M, {m}), key, S)
  BY DEF Keyed
<1>3. CountsByKey(g, Y, M, Methods)
  BY <1>2 DEF CountsByKey, ByMethod
<1>4. Keyed(Y, M, Methods) = Y
  BY DEF Keyed, AllMethods
<1> HIDE DEF Y, M
<1>5. SumFunctionOnSet(g, Methods) = Cardinality(Keyed(Y, M, Methods))
  BY <1>1, <1>3, MethodsAreFinite, CountOfFibres
<1>6. QED
  BY <1>4, <1>5 DEF Y

InRange(key, X) == \A x \in X : key[x] \in Nat

LEMMA CountedValues ==
  ASSUME NEW X, IsFiniteSet(X), NEW key, NEW bag, Counts(bag, key, X)
  PROVE  /\ \A x \in X : key[x] \in DOMAIN bag
         /\ \A v \in DOMAIN bag :
              bag[v] = Cardinality(Keyed(X, key, {v})) /\ \E x \in X : v = key[x]
<1>1. ASSUME NEW v PROVE v \in DOMAIN bag <=> \E x \in X : key[x] = v
  <2> DEFINE A == Keyed(X, key, {v})
  <2>1. A # {} <=> \E x \in X : key[x] = v
    BY DEF Keyed
  <2>2. IsFiniteSet(A)
    BY KeyedPart
  <2>3. F!Copies(v, bag) = Cardinality(A)
    BY DEF Counts
  <2> HIDE DEF A
  <2>4. Cardinality(A) = 0 <=> A = {}
    BY <2>2, FS_EmptySet
  <2>5. v \in DOMAIN bag <=> F!Copies(v, bag) # 0
    BY DEF Counts, F!Copies
  <2>6. QED
    BY <2>1, <2>3, <2>4, <2>5
<1>2. ASSUME NEW v \in DOMAIN bag PROVE bag[v] = Cardinality(Keyed(X, key, {v}))
  <2>1. F!Copies(v, bag) = bag[v]
    BY DEF F!Copies
  <2>2. QED
    BY <2>1 DEF Counts
<1>3. QED
  BY <1>1, <1>2

\* Figures takes its sums from the same library.
LEMMA SameSums == \A f, S : F!SumFunctionOnSet(f, S) = SumFunctionOnSet(f, S)
BY DEF F!SumFunctionOnSet, F!FoldFunctionOnSet, F!MapThenFoldSet,
       SumFunctionOnSet, FoldFunctionOnSet, MapThenFoldSet

(***************************************************************************)
(* The samples of a histogram.  A sample <<x, k>> is response x or, for    *)
(* k > 0, the k-th that correction puts before it.                         *)
(***************************************************************************)
Firsts(X) == {<<x, 0>> : x \in X}
Laters(key, X, interval) == UNION {{<<x, k>> : k \in F!Rounds(key[x], interval)} : x \in X}

\* The values that the samples are counted by.
FirstValues(value, key, X) == \A x \in X : value[<<x, 0>>] = key[x]
LaterValues(value, key, X, interval) ==
  \A x \in X : \A k \in F!Rounds(key[x], interval) : value[<<x, k>>] = F!Highest(key[x] - k * interval)

LEMMA SameCount ==
  ASSUME NEW A, NEW B, IsFiniteSet(B), NEW f \in [A -> B],
         \A a, b \in A : f[a] = f[b] => a = b, \A b \in B : \E a \in A : f[a] = b
  PROVE  IsFiniteSet(A) /\ Cardinality(A) = Cardinality(B)
<1>1. f \in Injection(A, B) /\ f \in Surjection(A, B)
  BY DEF Injection, Surjection, IsInjective
<1>2. QED
  BY <1>1, FS_Injection

LEMMA ImageIsFinite ==
  ASSUME NEW X, IsFiniteSet(X), NEW key
  PROVE  IsFiniteSet({key[x] : x \in X})
<1> DEFINE T == {key[x] : x \in X}
           f == [x \in X |-> key[x]]
<1>1. f \in Surjection(X, T)
  BY DEF Surjection
<1> HIDE DEF T, f
<1>2. IsFiniteSet(T)
  BY <1>1, FS_Surjection
<1>3. QED
  BY <1>2 DEF T

\* The k-th samples of some responses.
LEMMA NumberedSamples ==
  ASSUME NEW A, IsFiniteSet(A), NEW k
  PROVE  IsFiniteSet({<<x, k>> : x \in A}) /\ Cardinality({<<x, k>> : x \in A}) = Cardinality(A)
<1> DEFINE B == {<<x, k>> : x \in A}
           f == [s \in B |-> s[1]]
<1>1. f \in [B -> A]
  OBVIOUS
<1>2. \A a, b \in B : f[a] = f[b] => a = b
  OBVIOUS
<1>3. ASSUME NEW x \in A PROVE \E a \in B : f[a] = x
  <2>1. <<x, k>> \in B /\ <<x, k>>[1] = x
    OBVIOUS
  <2>2. f[<<x, k>>] = x
    BY <2>1
  <2>3. QED
    BY <2>1, <2>2
<1> HIDE DEF B, f
<1>4. IsFiniteSet(B) /\ Cardinality(B) = Cardinality(A)
  BY <1>1, <1>2, <1>3, SameCount
<1>5. QED
  BY <1>4 DEF B

LEMMA FirstsAreCounted ==
  ASSUME NEW X, IsFiniteSet(X), NEW key, NEW bag, Counts(bag, key, X), NEW value,
         FirstValues(value, key, X)
  PROVE  IsFiniteSet(Firsts(X)) /\ Counts(bag, value, Firsts(X))
<1>1. IsFiniteSet(Firsts(X))
  BY NumberedSamples DEF Firsts
<1>2. ASSUME NEW v PROVE F!Copies(v, bag) = Cardinality(Keyed(Firsts(X), value, {v}))
  <2> DEFINE A == Keyed(X, key, {v})
  <2>1. Keyed(Firsts(X), value, {v}) = {<<x, 0>> : x \in A}
    BY DEF Keyed, Firsts, FirstValues
  <2>2. IsFiniteSet(A)
    BY KeyedPart
  <2>3. F!Copies(v, bag) = Cardinality(A)
    BY DEF Counts
  <2> HIDE DEF A
  <2>4. Cardinality({<<x, 0>> : x \in A}) = Cardinality(A)
    BY <2>2, NumberedSamples
  <2>5. QED
    BY <2>1, <2>3, <2>4
<1>3. QED
  BY <1>1, <1>2 DEF Counts

\* The recorded latencies and the rounds, one pair for each later sample.
Pairs(key, X, interval) == [s \in Laters(key, X, interval) |-> <<key[s[1]], s[2]>>]

LEMMA LatersArePairs ==
  ASSUME NEW X, IsFiniteSet(X), NEW key, NEW bag, Counts(bag, key, X), NEW interval, NEW y,
         NEW P, P = Laters(key, X, interval), NEW pair, pair = Pairs(key, X, interval)
  PROVE  /\ y \in F!Missed(bag, interval) <=> \E s \in P : pair[s] = y
         /\ y \in F!Missed(bag, interval) => bag[y[1]] = Cardinality(Keyed(P, pair, {y}))
<1>1. /\ \A x \in X : key[x] \in DOMAIN bag
      /\ \A v \in DOMAIN bag :
           bag[v] = Cardinality(Keyed(X, key, {v})) /\ \E x \in X : v = key[x]
  BY CountedValues
<1>2. \A s \in P : \E x \in X : \E k \in F!Rounds(key[x], interval) : s = <<x, k>>
  BY DEF Laters
<1>3. \A x \in X : \A k \in F!Rounds(key[x], interval) : <<x, k>> \in P /\ pair[<<x, k>>] = <<key[x], k>>
  BY DEF Laters, Pairs
<1>4. ASSUME NEW s \in P PROVE pair[s] \in F!Missed(bag, interval)
  <2>1. PICK x \in X : \E k \in F!Rounds(key[x], interval) : s = <<x, k>>
    BY <1>2
  <2>2. PICK k \in F!Rounds(key[x], interval) : s = <<x, k>>
    BY <2>1
  <2>3. pair[s] = <<key[x], k>>
    BY <1>3, <2>2
  <2>4. <<key[x], k>> \in {key[x]} \X F!Rounds(key[x], interval) /\ key[x] \in DOMAIN bag
    BY <1>1
  <2>5. QED
    BY <2>3, <2>4 DEF F!Missed
<1>5. ASSUME y \in F!Missed(bag, interval)
      PROVE  (\E s \in P : pair[s] = y) /\ bag[y[1]] = Cardinality(Keyed(P, pair, {y}))
  <2>1. PICK u \in DOMAIN bag : y \in {u} \X F!Rounds(u, interval)
    BY <1>5 DEF F!Missed
  <2>2. PICK k \in F!Rounds(u, interval) : y = <<u, k>>
    BY <2>1
  <2>3. PICK x \in X : u = key[x]
    BY <1>1
  <2>4. <<x, k>> \in P /\ pair[<<x, k>>] = y
    BY <1>3, <2>2, <2>3
  <2> DEFINE A == Keyed(X, key, {u})
  <2>5. Keyed(P, pair, {y}) = {<<z, k>> : z \in A}
    <3>1. ASSUME NEW s \in P, pair[s] = y PROVE s \in {<<z, k>> : z \in A}
      <4>1. PICK z \in X : \E l \in F!Rounds(key[z], interval) : s = <<z, l>>
        BY <1>2
      <4>2. PICK l \in F!Rounds(key[z], interval) : s = <<z, l>>
        BY <4>1
      <4>3. <<key[z], l>> = <<u, k>>
        BY <1>3, <2>2, <3>1, <4>2
      <4>4. key[z] = u /\ l = k
        BY <4>3
      <4>5. QED
        BY <4>2, <4>4 DEF Keyed
    <3>2. ASSUME NEW z \in A PROVE <<z, k>> \in P /\ pair[<<z, k>>] = y
      <4>1. z \in X /\ key[z] = u
        BY DEF Keyed
      <4>2. QED
        BY <1>3, <2>2, <4>1
    <3> HIDE DEF A
    <3>3. QED
      BY <3>1, <3>2 DEF Keyed
  <2>6. IsFiniteSet(A)
    BY KeyedPart
  <2>7. bag[u] = Cardinality(A)
    BY <1>1
  <2> HIDE DEF A
  <2>8. Cardinality({<<z, k>> : z \in A}) = Cardinality(A)
    BY <2>6, NumberedSamples
  <2>9. y[1] = u
    BY <2>2
  <2>10. QED
    BY <2>4, <2>5, <2>7, <2>8, <2>9
<1>6. QED
  BY <1>4, <1>5

LEMMA RoundsAre ==
  ASSUME NEW v \in Nat, NEW interval
  PROVE  F!Rounds(v, interval) \subseteq 1..v /\ IsFiniteSet(F!Rounds(v, interval))
<1>1. F!Rounds(v, interval) \subseteq 1..v
  BY DEF F!Rounds
<1>2. IsFiniteSet(1..v)
  BY FS_Interval
<1>3. QED
  BY <1>1, <1>2, FS_Subset

LEMMA LatersAreFinite ==
  ASSUME NEW X, IsFiniteSet(X), NEW key, InRange(key, X), NEW interval
  PROVE  IsFiniteSet(Laters(key, X, interval))
<1> DEFINE rounds == [x \in X |-> {<<x, k>> : k \in F!Rounds(key[x], interval)}]
           T == {rounds[x] : x \in X}
<1>1. Laters(key, X, interval) = UNION T
  BY DEF Laters
<1>2. ASSUME NEW x \in X PROVE IsFiniteSet(rounds[x])
  <2> DEFINE A == F!Rounds(key[x], interval)
             B == {<<x, k>> : k \in A}
             f == [s \in B |-> s[2]]
  <2>1. rounds[x] = B
    OBVIOUS
  <2>2. IsFiniteSet(A)
    BY RoundsAre DEF InRange
  <2> HIDE DEF A, rounds
  <2>3. f \in [B -> A] /\ \A a, b \in B : f[a] = f[b] => a = b
    OBVIOUS
  <2>4. ASSUME NEW k \in A PROVE \E a \in B : f[a] = k
    <3>1. <<x, k>> \in B /\ f[<<x, k>>] = k
      OBVIOUS
    <3>2. QED
      BY <3>1
  <2> HIDE DEF B, f
  <2>5. IsFiniteSet(B)
    BY <2>2, <2>3, <2>4, SameCount
  <2>6. QED
    BY <2>1, <2>5
<1> HIDE DEF rounds
<1>3. IsFiniteSet(T) /\ \A t \in T : IsFiniteSet(t)
  BY <1>2, ImageIsFinite
<1> HIDE DEF T
<1>4. QED
  BY <1>1, <1>3, FS_UNION

\* What correction adds is counted by the value that each later sample has.
LEMMA LatersAreCounted ==
  ASSUME NEW X, IsFiniteSet(X), NEW key, InRange(key, X), NEW bag, Counts(bag, key, X), NEW interval,
         NEW value, LaterValues(value, key, X, interval)
  PROVE  Counts(F!Missing(bag, interval), value, Laters(key, X, interval))
<1> DEFINE P == Laters(key, X, interval)
           pair == Pairs(key, X, interval)
           missing == F!Missing(bag, interval)
           U == F!Missed(bag, interval)
           Cells == {F!MissedCell(y, interval) : y \in U}
           From(c) == F!Sources(bag, interval, c)
           shares(c) == [y \in From(c) |-> bag[y[1]]]
<1>1. \A y : /\ y \in U <=> \E s \in P : pair[s] = y
             /\ y \in U => bag[y[1]] = Cardinality(Keyed(P, pair, {y}))
  BY LatersArePairs
<1>2. IsFiniteSet(P)
  BY LatersAreFinite
<1>3. ASSUME NEW s \in P PROVE value[s] = F!MissedCell(pair[s], interval)
  <2>1. PICK x \in X : \E k \in F!Rounds(key[x], interval) : s = <<x, k>>
    BY DEF Laters
  <2>2. PICK k \in F!Rounds(key[x], interval) : s = <<x, k>>
    BY <2>1
  <2>3. value[s] = F!Highest(key[x] - k * interval)
    BY <2>2 DEF LaterValues
  <2>4. pair[s] = <<key[x], k>>
    BY <2>2 DEF Pairs
  <2>5. QED
    BY <2>3, <2>4 DEF F!MissedCell
<1>4. missing = [c \in Cells |-> F!SumFunction(shares(c))]
  BY DEF F!Missing
<1>5. ASSUME NEW c PROVE F!SumFunction(shares(c)) = SumFunctionOnSet(shares(c), From(c))
  BY SameSums DEF F!SumFunction
<1>6. \A c : \A y : y \in From(c) <=> y \in U /\ F!MissedCell(y, interval) = c
  BY DEF F!Sources
<1>7. \A c : \A y \in From(c) : shares(c)[y] = bag[y[1]]
  OBVIOUS
<1>8. U = {pair[s] : s \in P}
  <2> HIDE DEF U, P, pair
  <2>1. QED
    BY <1>1
<1> HIDE DEF P, pair, U, From, shares, missing
<1>9. ASSUME NEW c PROVE Keyed(P, value, {c}) = Keyed(P, pair, From(c))
  BY <1>3, <1>6, <1>8 DEF Keyed
<1>10. ASSUME NEW c PROVE SumFunctionOnSet(shares(c), From(c)) = Cardinality(Keyed(P, value, {c}))
  <2>1. IsFiniteSet(U)
    BY <1>2, <1>8, ImageIsFinite
  <2>2. IsFiniteSet(From(c))
    <3>1. From(c) \in SUBSET U
      BY <1>6
    <3>2. QED
      BY <2>1, <3>1, FS_Subset
  <2>3. CountsByKey(shares(c), P, pair, From(c))
    BY <1>1, <1>6, <1>7 DEF CountsByKey
  <2>4. PICK S : S = From(c)
    OBVIOUS
  <2>5. PICK g : g = shares(c)
    OBVIOUS
  <2>6. SumFunctionOnSet(g, S) = Cardinality(Keyed(P, pair, S))
    BY <1>2, <2>2, <2>3, <2>4, <2>5, CountOfFibres
  <2>7. QED
    BY <1>9, <2>4, <2>5, <2>6
<1>11. DOMAIN missing = Cells /\ missing = [v \in DOMAIN missing |-> missing[v]]
  BY <1>4
<1>12. ASSUME NEW c \in Cells PROVE missing[c] = Cardinality(Keyed(P, value, {c}))
  BY <1>4, <1>5, <1>10
<1>13. ASSUME NEW c PROVE Keyed(P, value, {c}) = {} <=> c \notin Cells
  BY <1>3, <1>8 DEF Keyed
<1> HIDE DEF Cells
<1>14. ASSUME NEW c \in Cells PROVE missing[c] \in Nat \ {0}
  <2> DEFINE A == Keyed(P, value, {c})
  <2>1. IsFiniteSet(A) /\ A # {}
    BY <1>2, <1>13, KeyedPart
  <2> HIDE DEF A
  <2>2. Cardinality(A) \in Nat \ {0}
    BY <2>1, FS_CardinalityType, FS_EmptySet
  <2>3. QED
    BY <1>12, <2>2 DEF A
<1>15. ASSUME NEW c PROVE F!Copies(c, missing) = Cardinality(Keyed(P, value, {c}))
  <2>1. F!Copies(c, missing) = IF c \in Cells THEN missing[c] ELSE 0
    BY <1>11 DEF F!Copies
  <2>2. c \notin Cells => Cardinality(Keyed(P, value, {c})) = 0
    BY <1>13, FS_EmptySet
  <2>3. QED
    BY <1>12, <2>1, <2>2
<1>16. Counts(missing, value, P)
  BY <1>11, <1>14, <1>15 DEF Counts
<1>17. QED
  BY <1>16 DEF missing, P

(***************************************************************************)
(* The end of the run: the histograms with what correction adds to them.   *)
(***************************************************************************)
SamplesOf(key, X, interval) ==
  Firsts(X) \cup (IF interval = Unset THEN {} ELSE Laters(key, X, interval))
SampleValue(key, interval, s) ==
  IF s[2] = 0 THEN key[s[1]] ELSE F!Highest(key[s[1]] - s[2] * interval)
ValueOf(key, X, interval) ==
  [s \in SamplesOf(key, X, interval) |-> SampleValue(key, interval, s)]

\* The histogram counts the samples of the responses X, Unset when it is not corrected.
Holds(h, log, X, interval) ==
  Counts(h.samples, ValueOf(RecordedOf(log), X, interval), SamplesOf(RecordedOf(log), X, interval))

FinalTally(r, log, X, interval) ==
  /\ r.completed = Cardinality(X)
  /\ r.status_errors = Cardinality(Keyed(X, StatusOf(log), Failing))
  /\ r.latencies.overflow = Cardinality(Keyed(X, LatencyOf(log), Beyond))
  /\ Holds(r.latencies, log, X, interval)

LEMMA SampleValues ==
  ASSUME NEW X, NEW key, InRange(key, X), NEW interval, NEW value, value = ValueOf(key, X, interval)
  PROVE  /\ FirstValues(value, key, X)
         /\ interval # Unset => LaterValues(value, key, X, interval)
<1>1. ASSUME NEW x \in X PROVE value[<<x, 0>>] = key[x]
  <2>1. <<x, 0>> \in SamplesOf(key, X, interval)
    BY DEF SamplesOf, Firsts
  <2>2. value[<<x, 0>>] = SampleValue(key, interval, <<x, 0>>)
    BY <2>1 DEF ValueOf
  <2>3. QED
    BY <2>2 DEF SampleValue
<1>2. ASSUME interval # Unset, NEW x \in X, NEW k \in F!Rounds(key[x], interval)
      PROVE  value[<<x, k>>] = F!Highest(key[x] - k * interval)
  <2>1. <<x, k>> \in SamplesOf(key, X, interval)
    BY <1>2 DEF SamplesOf, Laters
  <2>2. value[<<x, k>>] = SampleValue(key, interval, <<x, k>>)
    BY <2>1 DEF ValueOf
  <2>3. k # 0
    <3>1. F!Rounds(key[x], interval) \subseteq 1..key[x] /\ key[x] \in Nat
      BY RoundsAre DEF InRange
    <3>2. QED
      BY <3>1
  <2>4. QED
    BY <2>2, <2>3 DEF SampleValue
<1>3. QED
  BY <1>1, <1>2 DEF FirstValues, LaterValues

LEMMA HoldsRecorded ==
  ASSUME NEW log, NEW X, IsFiniteSet(X), InRange(RecordedOf(log), X), NEW h,
         Counts(h.samples, RecordedOf(log), X)
  PROVE  Holds(h, log, X, Unset)
<1> DEFINE key == RecordedOf(log)
           value == ValueOf(key, X, Unset)
<1>1. SamplesOf(key, X, Unset) = Firsts(X)
  BY DEF SamplesOf
<1>2. FirstValues(value, key, X)
  BY SampleValues
<1> HIDE DEF value
<1>3. Counts(h.samples, value, Firsts(X))
  BY <1>2, FirstsAreCounted
<1>4. QED
  BY <1>1, <1>3 DEF Holds, value

LEMMA HoldsCorrected ==
  ASSUME NEW log, NEW X, IsFiniteSet(X), InRange(RecordedOf(log), X), NEW h,
         Counts(h.samples, RecordedOf(log), X), NEW interval, interval # Unset,
         NEW c, c.samples = F!Plus(h.samples, F!Missing(h.samples, interval))
  PROVE  Holds(c, log, X, interval)
<1> DEFINE key == RecordedOf(log)
           value == ValueOf(key, X, interval)
           Z == Firsts(X)
           P == Laters(key, X, interval)
           b == h.samples
           missing == F!Missing(b, interval)
<1>1. SamplesOf(key, X, interval) = Z \cup P
  BY DEF SamplesOf
<1>2. FirstValues(value, key, X) /\ LaterValues(value, key, X, interval)
  BY SampleValues
<1>3. Z \cap P = {}
  <2>1. \A s \in Z : s[2] = 0
    BY DEF Firsts
  <2>2. ASSUME NEW s \in P PROVE s[2] # 0
    <3>1. PICK x \in X : \E k \in F!Rounds(key[x], interval) : s = <<x, k>>
      BY DEF Laters
    <3>2. PICK k \in F!Rounds(key[x], interval) : s = <<x, k>>
      BY <3>1
    <3>3. F!Rounds(key[x], interval) \subseteq 1..key[x] /\ key[x] \in Nat
      BY RoundsAre DEF InRange
    <3>4. QED
      BY <3>2, <3>3
  <2> HIDE DEF Z, P
  <2>3. QED
    BY <2>1, <2>2
<1> HIDE DEF value
<1>4. IsFiniteSet(Z) /\ Counts(b, value, Z)
  BY <1>2, FirstsAreCounted
<1>5. IsFiniteSet(P) /\ Counts(missing, value, P)
  BY <1>2, LatersAreFinite, LatersAreCounted
<1>6. c.samples = F!Plus(b, missing)
  OBVIOUS
<1> HIDE DEF Z, P, missing, b, key
<1>7. Counts(F!Plus(b, missing), value, Z \cup P)
  BY <1>3, <1>4, <1>5, PlusCounts
<1>8. QED
  BY <1>1, <1>6, <1>7 DEF Holds, value, key

Final(t, log, X, interval) ==
  /\ FinalTally(t, log, X, interval)
  /\ DOMAIN t.methods = Methods
  /\ \A m \in Methods : FinalTally(t.methods[m], log, Keyed(X, MethodOf(log), {m}), interval)
  /\ Counts(t.statuses, StatusOf(log), X)

LEMMA TallyAsRecorded ==
  ASSUME NEW log, NEW X, IsFiniteSet(X), InRange(RecordedOf(log), X), NEW r, Tally(r, log, X)
  PROVE  FinalTally(r, log, X, Unset)
<1>1. Holds(r.latencies, log, X, Unset)
  BY HoldsRecorded DEF Tally
<1>2. QED
  BY <1>1 DEF Tally, FinalTally

LEMMA TallyCorrected ==
  ASSUME NEW log, NEW X, IsFiniteSet(X), InRange(RecordedOf(log), X), NEW r, Tally(r, log, X),
         NEW interval, interval # Unset,
         NEW t, t.completed = r.completed, t.status_errors = r.status_errors,
         t.latencies = F!Correct(r.latencies, interval)
  PROVE  FinalTally(t, log, X, interval)
<1>1. /\ t.latencies.samples = F!Plus(r.latencies.samples, F!Missing(r.latencies.samples, interval))
      /\ t.latencies.overflow = r.latencies.overflow
  BY DEF F!Correct, Tally, HasCounters
<1>2. Holds(t.latencies, log, X, interval)
  BY <1>1, HoldsCorrected DEF Tally
<1>3. QED
  BY <1>1, <1>2 DEF Tally, FinalTally

\* What Finish leaves of the histograms, and what it sets.
Finished(t, s, run, cycles, expected) ==
  /\ SameCounts(t, s) /\ t.completed = s.completed /\ t.status_errors = s.status_errors
  /\ t.statuses = s.statuses
  /\ t.load = IF run.duration = Unset THEN run.runtime ELSE F!Min({run.duration, run.runtime})
  /\ cycles = 0 => t.latencies = s.latencies /\ t.methods = s.methods /\ t.interval = s.interval
  /\ cycles # 0 =>
       /\ t.interval = expected
       /\ t.latencies = F!Correct(s.latencies, expected)
       /\ t.methods = F!CorrectMethodHistograms(s.methods, expected)

LEMMA FinishIs ==
  ASSUME NEW log, NEW X, NEW s, Describes(s, log, X), NEW run, NEW cycles, NEW expected,
         cycles = s.completed \div F!ConnectionCount(run), expected = F!Max({1, run.runtime \div cycles}),
         NEW t, t = F!Finish(s, run)
  PROVE  Finished(t, s, run, cycles, expected)
<1> USE DEF Finished
<1> DEFINE timed == F!Timed(s, run)
<1>1. t = IF cycles = 0 THEN timed
          ELSE [timed EXCEPT
                 !.interval = expected,
                 !.latencies = F!Correct(@, expected),
                 !.methods = F!CorrectMethodHistograms(@, expected)]
  BY DEF F!Finish
<1>2. DOMAIN s = SummaryFields
  BY DEF Describes
<1>3. /\ DOMAIN timed = SummaryFields
      /\ timed.completed = s.completed /\ timed.status_errors = s.status_errors
      /\ timed.latencies = s.latencies /\ timed.methods = s.methods /\ timed.interval = s.interval
      /\ timed.statuses = s.statuses
      /\ timed.abandoned = s.abandoned /\ timed.recoveries = s.recoveries
      /\ timed.socket_errors = s.socket_errors
      /\ timed.load = IF run.duration = Unset THEN run.runtime ELSE F!Min({run.duration, run.runtime})
  BY <1>2 DEF SummaryFields, F!Timed
<1> HIDE DEF timed
<1>4. CASE cycles = 0
  BY <1>1, <1>3, <1>4 DEF SameCounts
<1>5. CASE cycles # 0
  <2>1. t = [timed EXCEPT
              !.interval = expected,
              !.latencies = F!Correct(timed.latencies, expected),
              !.methods = F!CorrectMethodHistograms(timed.methods, expected)]
    BY <1>1, <1>5
  <2>2. /\ t.interval = expected /\ t.latencies = F!Correct(timed.latencies, expected)
        /\ t.methods = F!CorrectMethodHistograms(timed.methods, expected)
        /\ t.completed = timed.completed /\ t.status_errors = timed.status_errors
        /\ t.statuses = timed.statuses /\ t.load = timed.load /\ SameCounts(t, timed)
    BY <1>3, <2>1 DEF SummaryFields, SameCounts
  <2>3. QED
    BY <1>3, <1>5, <2>2 DEF SameCounts
<1>6. QED
  BY <1>4, <1>5

LEMMA LeastOf ==
  ASSUME NEW T \in SUBSET Nat, T # {}
  PROVE  F!Min(T) \in T /\ \A y \in T : F!Min(T) <= y
<1>1. PICK m \in T : \A y \in Nat : y < m => y \notin T
  BY FirstFailure
<1>2. \A y \in T : m <= y
  BY <1>1
<1>3. \E x \in T : \A y \in T : x <= y
  BY <1>2
<1>4. QED
  BY <1>3 DEF F!Min

LEMMA SmallerOfTwo ==
  ASSUME NEW a \in Nat, NEW b \in Nat
  PROVE  F!Min({a, b}) = IF b < a THEN b ELSE a
<1>1. {a, b} \in SUBSET Nat /\ {a, b} # {}
  OBVIOUS
<1>2. F!Min({a, b}) \in {a, b} /\ \A y \in {a, b} : F!Min({a, b}) <= y
  BY <1>1, LeastOf
<1>3. QED
  BY <1>2

IsInterval(interval) == interval = Unset \/ interval \in Nat \ {0}

\* The interval that requests of one connection are expected at.
LEMMA IntervalType ==
  ASSUME NEW completed \in Nat, NEW count \in Nat \ {0}, NEW runtime \in Nat,
         NEW cycles, cycles = completed \div count, cycles # 0,
         NEW interval, interval = F!Max({1, runtime \div cycles})
  PROVE  interval \in Nat \ {0}
<1>1. cycles \in Nat
  <2>1. PICK r : r = completed % count
    OBVIOUS
  <2>2. QED
    BY <2>1, Quotient
<1>2. PICK q : q = runtime \div cycles
  OBVIOUS
<1>3. q \in Nat
  <2>1. PICK r : r = runtime % cycles
    OBVIOUS
  <2>2. QED
    BY <1>1, <1>2, <2>1, Quotient
<1>4. \E x \in {1, q} : \A y \in {1, q} : x >= y
  BY <1>3
<1>5. F!Max({1, q}) \in {1, q} /\ F!Max({1, q}) >= 1
  BY <1>4 DEF F!Max
<1>6. QED
  BY <1>2, <1>3, <1>5

LEMMA FinishDescribes ==
  ASSUME NEW log, NEW X, IsFiniteSet(X), InRange(RecordedOf(log), X), NEW s, Describes(s, log, X),
         NEW run, run.runtime \in Nat, F!ConnectionCount(run) \in Nat \ {0},
         NEW t, t = F!Finish(s, run)
  PROVE  Final(t, log, X, t.interval) /\ IsInterval(t.interval)
<1> DEFINE cycles == s.completed \div F!ConnectionCount(run)
           expected == F!Max({1, run.runtime \div cycles})
           Of(m) == Keyed(X, MethodOf(log), {m})
<1>1. Finished(t, s, run, cycles, expected)
  <2> HIDE DEF cycles
  <2>1. cycles = s.completed \div F!ConnectionCount(run) /\ expected = F!Max({1, run.runtime \div cycles})
    BY DEF cycles
  <2> HIDE DEF expected
  <2>2. QED
    BY <2>1, FinishIs
<1>0. cycles # 0 => expected \in Nat \ {0}
  <2>1. PICK count \in Nat \ {0} : count = F!ConnectionCount(run)
    OBVIOUS
  <2>2. PICK completed \in Nat : completed = s.completed
    BY FS_CardinalityType DEF Describes, Tally
  <2>3. cycles = completed \div count /\ expected = F!Max({1, run.runtime \div cycles})
    BY <2>1, <2>2
  <2> HIDE DEF cycles, expected
  <2>4. QED
    BY <2>3, IntervalType
<1> HIDE DEF cycles, expected
<1>2. /\ Tally(s, log, X) /\ DOMAIN s.methods = Methods /\ Counts(s.statuses, StatusOf(log), X)
      /\ \A m \in Methods : Tally(s.methods[m], log, Of(m))
  BY DEF Describes
<1>3. ASSUME NEW m PROVE IsFiniteSet(Of(m)) /\ InRange(RecordedOf(log), Of(m))
  <2>1. IsFiniteSet(Of(m)) /\ Of(m) \subseteq X
    BY KeyedPart
  <2>2. QED
    BY <2>1 DEF InRange
<1> HIDE DEF Of
<1>4. CASE cycles = 0
  <2>1. FinalTally(s, log, X, Unset)
    BY <1>2, TallyAsRecorded
  <2>2. \A m \in Methods : FinalTally(s.methods[m], log, Of(m), Unset)
    BY <1>2, <1>3, TallyAsRecorded
  <2>3. FinalTally(t, log, X, Unset)
    BY <1>1, <1>4, <2>1 DEF FinalTally, Finished
  <2>4. Final(t, log, X, Unset)
    BY <1>1, <1>2, <1>4, <2>2, <2>3 DEF Final, Of, Finished
  <2>5. t.interval = Unset
    BY <1>1, <1>4 DEF Finished, Describes
  <2>6. QED
    BY <2>4, <2>5 DEF IsInterval
<1>5. CASE cycles # 0
  <2>0. expected \in Nat \ {0} /\ expected # Unset
    BY <1>0, <1>5, UnsetAssumption
  <2>1. t.latencies = F!Correct(s.latencies, expected) /\ t.interval = expected
        /\ t.methods = F!CorrectMethodHistograms(s.methods, expected)
    BY <1>1, <1>5 DEF Finished
  <2>2. FinalTally(t, log, X, expected)
    <3>1. t.completed = s.completed /\ t.status_errors = s.status_errors
      BY <1>1 DEF Finished
    <3>2. QED
      BY <1>2, <2>0, <2>1, <3>1, TallyCorrected
  <2>3. ASSUME NEW m \in Methods PROVE FinalTally(t.methods[m], log, Of(m), expected)
    <3>1. Tally(s.methods[m], log, Of(m))
      BY <1>2
    <3>2. /\ t.methods[m].completed = s.methods[m].completed
          /\ t.methods[m].status_errors = s.methods[m].status_errors
          /\ t.methods[m].latencies = F!Correct(s.methods[m].latencies, expected)
      BY <2>1, <3>1 DEF F!CorrectMethodHistograms, Tally, HasCounters
    <3>3. QED
      BY <1>3, <2>0, <3>1, <3>2, TallyCorrected
  <2>4. DOMAIN t.methods = Methods
    BY <2>1 DEF F!CorrectMethodHistograms
  <2>5. Final(t, log, X, expected)
    BY <1>1, <1>2, <2>2, <2>3, <2>4 DEF Final, Of, Finished
  <2>6. QED
    BY <2>0, <2>1, <2>5 DEF IsInterval
<1>6. QED
  BY <1>4, <1>5

(***************************************************************************)
(* The tables of the methods and the totals, at the end of the run.        *)
(***************************************************************************)
LEMMA SamplesAreFinite ==
  ASSUME NEW X, IsFiniteSet(X), NEW key, InRange(key, X), NEW interval
  PROVE  IsFiniteSet(SamplesOf(key, X, interval))
<1>1. IsFiniteSet(Firsts(X))
  BY NumberedSamples DEF Firsts
<1>2. IsFiniteSet(Laters(key, X, interval))
  BY LatersAreFinite
<1>3. IsFiniteSet(Firsts(X) \cup Laters(key, X, interval))
  BY <1>1, <1>2, FS_Union
<1>4. SamplesOf(key, X, interval) \in SUBSET (Firsts(X) \cup Laters(key, X, interval))
  BY DEF SamplesOf
<1>5. QED
  BY <1>3, <1>4, FS_Subset

LEMMA SamplesAreOf ==
  ASSUME NEW X, NEW key, NEW interval
  PROVE  \A s \in SamplesOf(key, X, interval) : s[1] \in X
BY DEF SamplesOf, Firsts, Laters

\* The samples of some of the responses.
OfPart(K, L, A) == K = {s \in L : s[1] \in A}

LEMMA PartOfSamples ==
  ASSUME NEW X, NEW A \in SUBSET X, NEW key, NEW interval, NEW v
  PROVE  OfPart(Keyed(SamplesOf(key, A, interval), ValueOf(key, A, interval), {v}),
                Keyed(SamplesOf(key, X, interval), ValueOf(key, X, interval), {v}), A)
<1> DEFINE S == SamplesOf(key, X, interval)
           T == SamplesOf(key, A, interval)
<1>1. \A s : s \in T <=> s \in S /\ s[1] \in A
  <2>1. \A s : s \in Firsts(A) <=> s \in Firsts(X) /\ s[1] \in A
    BY DEF Firsts
  <2>2. \A s : s \in Laters(key, A, interval) <=> s \in Laters(key, X, interval) /\ s[1] \in A
    BY DEF Laters
  <2>3. QED
    BY <2>1, <2>2 DEF SamplesOf
<1>2. /\ \A s \in S : ValueOf(key, X, interval)[s] = SampleValue(key, interval, s)
      /\ \A s \in T : ValueOf(key, A, interval)[s] = SampleValue(key, interval, s)
  BY DEF ValueOf
<1> HIDE DEF S, T
<1>3. QED
  BY <1>1, <1>2 DEF Keyed, S, T, OfPart

MethodsAgree(t) ==
  /\ t.completed = SumFunction([m \in Methods |-> t.methods[m].completed])
  /\ t.status_errors = SumFunction([m \in Methods |-> t.methods[m].status_errors])
  /\ t.latencies.overflow = SumFunction([m \in Methods |-> t.methods[m].latencies.overflow])
  /\ \A v :
       F!Copies(v, t.latencies.samples) =
         SumFunction([m \in Methods |-> F!Copies(v, t.methods[m].latencies.samples)])

LEMMA TablesAddUp ==
  ASSUME NEW log, NEW X, IsFiniteSet(X), InRange(RecordedOf(log), X), AllMethods(log, X),
         NEW interval, NEW t, Final(t, log, X, interval)
  PROVE  MethodsAgree(t)
<1> DEFINE Of(m) == Keyed(X, MethodOf(log), {m})
<1>1. /\ FinalTally(t, log, X, interval)
      /\ \A m \in Methods : FinalTally(t.methods[m], log, Of(m), interval)
  BY DEF Final
<1>2. t.completed = SumFunction([m \in Methods |-> t.methods[m].completed])
  <2> DEFINE g == [m \in Methods |-> t.methods[m].completed]
  <2>1. CountsByKey(g, X, MethodOf(log), Methods)
    BY <1>1 DEF CountsByKey, FinalTally
  <2>2. SumFunction(g) = SumFunctionOnSet(g, Methods)
    BY DEF SumFunction
  <2> HIDE DEF g
  <2>3. SumFunctionOnSet(g, Methods) = Cardinality(Keyed(X, MethodOf(log), Methods))
    BY <2>1, MethodsAreFinite, CountOfFibres
  <2>4. Keyed(X, MethodOf(log), Methods) = X
    BY DEF Keyed, AllMethods
  <2>5. t.completed = SumFunction(g)
    BY <1>1, <2>2, <2>3, <2>4 DEF FinalTally
  <2>6. QED
    BY <2>5 DEF g
<1>3. t.status_errors = SumFunction([m \in Methods |-> t.methods[m].status_errors])
  <2> DEFINE g == [m \in Methods |-> t.methods[m].status_errors]
  <2>1. ByMethod(g, log, X, StatusOf(log), Failing)
    BY <1>1 DEF ByMethod, FinalTally
  <2>2. SumFunction(g) = SumFunctionOnSet(g, Methods)
    BY DEF SumFunction
  <2> HIDE DEF g
  <2>3. SumFunctionOnSet(g, Methods) = Cardinality(Keyed(X, StatusOf(log), Failing))
    BY <2>1, MethodsAddUp
  <2>4. t.status_errors = SumFunction(g)
    BY <1>1, <2>2, <2>3 DEF FinalTally
  <2>5. QED
    BY <2>4 DEF g
<1>4. t.latencies.overflow = SumFunction([m \in Methods |-> t.methods[m].latencies.overflow])
  <2> DEFINE g == [m \in Methods |-> t.methods[m].latencies.overflow]
  <2>1. ByMethod(g, log, X, LatencyOf(log), Beyond)
    BY <1>1 DEF ByMethod, FinalTally
  <2>2. SumFunction(g) = SumFunctionOnSet(g, Methods)
    BY DEF SumFunction
  <2> HIDE DEF g
  <2>3. SumFunctionOnSet(g, Methods) = Cardinality(Keyed(X, LatencyOf(log), Beyond))
    BY <2>1, MethodsAddUp
  <2>4. t.latencies.overflow = SumFunction(g)
    BY <1>1, <2>2, <2>3 DEF FinalTally
  <2>5. QED
    BY <2>4 DEF g
<1>5. ASSUME NEW v
      PROVE  F!Copies(v, t.latencies.samples) =
               SumFunction([m \in Methods |-> F!Copies(v, t.methods[m].latencies.samples)])
  <2> DEFINE key == RecordedOf(log)
             S == SamplesOf(key, X, interval)
             Y == Keyed(S, ValueOf(key, X, interval), {v})
             method == [s \in S |-> MethodOf(log)[s[1]]]
             g == [m \in Methods |-> F!Copies(v, t.methods[m].latencies.samples)]
  <2>1. IsFiniteSet(S)
    BY SamplesAreFinite
  <2>2. IsFiniteSet(Y)
    BY <2>1, KeyedPart
  <2>3. ASSUME NEW m \in Methods PROVE g[m] = Cardinality(Keyed(Y, method, {m}))
    <3>1. g[m] = Cardinality(Keyed(SamplesOf(key, Of(m), interval), ValueOf(key, Of(m), interval), {v}))
      BY <1>1 DEF FinalTally, Holds, Counts
    <3>2. Of(m) \in SUBSET X
      BY DEF Keyed
    <3>3. PICK A \in SUBSET X : A = Of(m)
      BY <3>2
    <3>4. Keyed(SamplesOf(key, A, interval), ValueOf(key, A, interval), {v}) = {s \in Y : s[1] \in A}
      <4> HIDE DEF key
      <4>1. OfPart(Keyed(SamplesOf(key, A, interval), ValueOf(key, A, interval), {v}), Y, A)
        BY PartOfSamples
      <4> HIDE DEF Y
      <4>2. QED
        BY <4>1 DEF OfPart
    <3>5. \A s \in Y : s \in S /\ s[1] \in X
      BY SamplesAreOf DEF Keyed
    <3>6. \A s \in Y : s[1] \in A <=> method[s] = m
      BY <3>3, <3>5 DEF Keyed
    <3> HIDE DEF Y, method, g
    <3>7. Keyed(Y, method, {m}) = {s \in Y : s[1] \in A}
      BY <3>6 DEF Keyed
    <3>8. g[m] = Cardinality(Keyed(SamplesOf(key, A, interval), ValueOf(key, A, interval), {v}))
      BY <3>1, <3>3
    <3> HIDE DEF key, Of
    <3>9. QED
      BY <3>4, <3>7, <3>8
  <2>4. \A s \in Y : method[s] \in Methods
    <3>1. \A s \in Y : s \in S /\ s[1] \in X
      BY SamplesAreOf DEF Keyed
    <3>2. QED
      BY <3>1 DEF AllMethods
  <2>5. SumFunction(g) = SumFunctionOnSet(g, Methods)
    BY DEF SumFunction
  <2>6. F!Copies(v, t.latencies.samples) = Cardinality(Y)
    BY <1>1 DEF FinalTally, Holds, Counts
  <2> HIDE DEF Y, method, g
  <2>7. CountsByKey(g, Y, method, Methods)
    BY <2>3 DEF CountsByKey
  <2>8. SumFunctionOnSet(g, Methods) = Cardinality(Keyed(Y, method, Methods))
    BY <2>2, <2>7, MethodsAreFinite, CountOfFibres
  <2>9. Keyed(Y, method, Methods) = Y
    BY <2>4 DEF Keyed
  <2>10. F!Copies(v, t.latencies.samples) = SumFunction(g)
    BY <2>5, <2>6, <2>8, <2>9
  <2>11. QED
    BY <2>10 DEF g
<1>6. QED
  BY <1>2, <1>3, <1>4, <1>5 DEF MethodsAgree

(***************************************************************************)
(* The cells of a histogram.                                               *)
(***************************************************************************)
LEMMA GreatestExists ==
  ASSUME NEW T \in SUBSET Nat, T # {}, NEW n \in Nat, \A t \in T : t <= n
  PROVE  \E m \in T : \A t \in T : t <= m
<1> DEFINE U == {b \in Nat : \A t \in T : t <= b}
<1>1. U \in SUBSET Nat /\ U # {}
  OBVIOUS
<1>2. PICK m \in U : \A y \in Nat : y < m => y \notin U
  <2> HIDE DEF U
  <2>1. QED
    BY <1>1, FirstFailure
<1>3. m \in Nat /\ \A t \in T : t <= m
  BY <1>2
<1>4. m \in T
  <2> SUFFICES ASSUME m \notin T PROVE FALSE
    OBVIOUS
  <2>1. \A t \in T : t < m
    BY <1>3
  <2>2. PICK t \in T : TRUE
    OBVIOUS
  <2>3. m - 1 \in Nat /\ m - 1 < m
    BY <1>3, <2>1, <2>2
  <2>4. \A u \in T : u <= m - 1
    BY <1>3, <2>1
  <2>5. m - 1 \in U
    BY <2>3, <2>4
  <2> HIDE DEF U
  <2>6. QED
    BY <1>2, <2>3, <2>5
<1>5. QED
  BY <1>3, <1>4

LEMMA WidthType ==
  ASSUME NEW v \in Nat
  PROVE  F!Width(v) \in Nat \ {0}
<1> DEFINE T == {1} \cup {w \in 2..v : F!IsPowerOfTwo(w) /\ SubBuckets * w <= 2 * v}
<1>1. \A t \in T : t = 1 \/ t \in 2..v
  OBVIOUS
<1>2. 1 \in T /\ F!Width(v) = F!Max(T)
  BY DEF F!Width
<1> HIDE DEF T
<1>3. \A t \in T : t \in Nat \ {0} /\ t <= v + 1
  BY <1>1
<1>4. \E m \in T : \A t \in T : t <= m
  <2>1. T \in SUBSET Nat /\ T # {} /\ v + 1 \in Nat /\ \A t \in T : t <= v + 1
    BY <1>2, <1>3
  <2>2. QED
    BY <2>1, GreatestExists
<1>5. \E m \in T : \A t \in T : m >= t
  BY <1>3, <1>4
<1>6. F!Max(T) \in T
  BY <1>5 DEF F!Max
<1>7. QED
  BY <1>2, <1>3, <1>6

LEMMA HighestType ==
  ASSUME NEW v \in Nat
  PROVE  F!Highest(v) \in Nat
<1>1. PICK w \in Nat \ {0} : w = F!Width(v)
  BY WidthType
<1>2. PICK r : r = v % w
  OBVIOUS
<1>3. PICK q : q = v \div w
  OBVIOUS
<1>4. q \in Nat /\ r \in Nat /\ v = q * w + r
  <2>1. w \in Nat \ {0}
    BY <1>1
  <2>2. QED
    BY <1>2, <1>3, <2>1, Quotient
<1>5. q * w \in Nat
  BY <1>1, <1>4, TimesNext
<1>6. v - r + w - 1 \in Nat
  BY <1>1, <1>4, <1>5
<1>7. QED
  BY <1>1, <1>2, <1>6 DEF F!Highest

LEMMA CellType ==
  ASSUME NEW latency \in Nat
  PROVE  F!Cell(latency) \in Nat
<1>1. F!Clamp(latency) \in Nat
  BY UnitsAssumption DEF F!Clamp
<1>2. PICK v \in Nat : v = F!Clamp(latency)
  BY <1>1
<1>3. F!Highest(v) \in Nat
  BY HighestType
<1>4. QED
  BY <1>2, <1>3 DEF F!Cell

LEMMA LogType ==
  ASSUME NEW o, o.workers \in Seq(WorkerType)
  PROVE  /\ DOMAIN LogOf(o) = Responses(o)
         /\ InRange(RecordedOf(LogOf(o)), Responses(o)) /\ AllMethods(LogOf(o), Responses(o))
         /\ \A x \in Responses(o) : RecordedOf(LogOf(o))[x] = F!Cell(LogOf(o)[x].latency)
<1> DEFINE log == LogOf(o)
<1>1. DOMAIN log = Responses(o) /\ \A x \in Responses(o) : IsResponse(log[x])
  BY ResponsesAre DEF LogOf
<1> HIDE DEF log
<1>2. ASSUME NEW l \in Nat PROVE F!Cell(l) \in Nat
  BY CellType
<1>3. \A x \in Responses(o) : RecordedOf(log)[x] = F!Cell(log[x].latency)
  BY <1>1 DEF RecordedOf
<1>4. InRange(RecordedOf(log), Responses(o))
  BY <1>1, <1>2, <1>3 DEF InRange, IsResponse
<1>5. AllMethods(log, Responses(o))
  BY <1>1 DEF AllMethods, MethodOf, IsResponse
<1>6. QED
  BY <1>1, <1>3, <1>4, <1>5 DEF log

(***************************************************************************)
(* The figures of a histogram that counts the members of S by their keys.  *)
(***************************************************************************)
LEMMA SampleRange ==
  ASSUME NEW X, IsFiniteSet(X), NEW key, InRange(key, X), NEW interval, IsInterval(interval)
  PROVE  /\ IsFiniteSet(SamplesOf(key, X, interval))
         /\ InRange(ValueOf(key, X, interval), SamplesOf(key, X, interval))
<1> DEFINE S == SamplesOf(key, X, interval)
           value == ValueOf(key, X, interval)
<1>1. IsFiniteSet(S)
  BY SamplesAreFinite
<1>2. FirstValues(value, key, X) /\ (interval # Unset => LaterValues(value, key, X, interval))
  BY SampleValues
<1>3. ASSUME NEW s \in Firsts(X) PROVE value[s] \in Nat
  <2>1. PICK x \in X : s = <<x, 0>>
    BY <1>3 DEF Firsts
  <2> HIDE DEF value
  <2>2. QED
    BY <1>2, <2>1 DEF FirstValues, InRange
<1>4. ASSUME interval # Unset, NEW s \in Laters(key, X, interval) PROVE value[s] \in Nat
  <2>1. PICK x \in X : \E k \in F!Rounds(key[x], interval) : s = <<x, k>>
    BY <1>4 DEF Laters
  <2>2. PICK k \in F!Rounds(key[x], interval) : s = <<x, k>>
    BY <2>1
  <2> HIDE DEF value
  <2>3. value[s] = F!Highest(key[x] - k * interval)
    BY <1>2, <1>4, <2>2 DEF LaterValues
  <2>4. interval \in Nat \ {0}
    BY <1>4 DEF IsInterval
  <2>5. PICK u \in Nat : u = key[x]
    BY DEF InRange
  <2>6. k \in 1..u /\ u - k * interval > interval
    BY <2>5 DEF F!Rounds
  <2>7. k * interval \in Nat
    BY <2>4, <2>6, TimesNext
  <2>8. u - k * interval \in Nat
    BY <2>4, <2>6, <2>7
  <2>9. F!Highest(u - k * interval) \in Nat
    BY <2>8, HighestType
  <2>10. QED
    BY <2>3, <2>5, <2>9
<1>5. \A s \in S : s \in Firsts(X) \/ (interval # Unset /\ s \in Laters(key, X, interval))
  BY DEF SamplesOf
<1>6. InRange(value, S)
  BY <1>3, <1>4, <1>5 DEF InRange
<1>7. QED
  BY <1>1, <1>6

LEMMA FiniteBound ==
  ASSUME NEW D \in SUBSET Nat, IsFiniteSet(D)
  PROVE  \E n \in Nat : \A d \in D : d <= n
<1> DEFINE f == [d \in D |-> d]
           n == SumFunctionOnSet(f, D)
<1>1. \A d \in D : f[d] = d /\ f[d] \in Nat
  OBVIOUS
<1> HIDE DEF f
<1>2. n \in Nat
  BY <1>1, SumType
<1>3. ASSUME NEW d \in D PROVE d <= n
  <2> DEFINE m == SumFunctionOnSet(f, D \ {d})
  <2>1. n = f[d] + m
    BY <1>1, SumRemoves
  <2>2. IsFiniteSet(D \ {d})
    BY FS_Subset
  <2>3. m \in Nat
    BY <1>1, <2>2, SumType
  <2> HIDE DEF m, n
  <2>4. QED
    BY <1>1, <2>1, <2>3
<1>4. QED
  BY <1>2, <1>3

\* The members of S with a key up to v, and with a key below it.
Within(S, key, v) == {s \in S : key[s] <= v}
Below(S, key, v) == {s \in S : key[s] < v}

LEMMA CountedDomain ==
  ASSUME NEW S, IsFiniteSet(S), NEW key, InRange(key, S), NEW h, Counts(h.samples, key, S)
  PROVE  /\ DOMAIN h.samples = {key[s] : s \in S} /\ DOMAIN h.samples \subseteq Nat
         /\ IsFiniteSet(DOMAIN h.samples) /\ CountsByKey(h.samples, S, key, DOMAIN h.samples)
<1> DEFINE bag == h.samples
<1>1. /\ \A s \in S : key[s] \in DOMAIN bag
      /\ \A v \in DOMAIN bag :
           bag[v] = Cardinality(Keyed(S, key, {v})) /\ \E x \in S : v = key[x]
  BY CountedValues
<1>2. DOMAIN bag \subseteq Nat
  BY <1>1 DEF InRange
<1>3. IsFiniteSet(DOMAIN bag)
  <2>1. IsFiniteSet({key[s] : s \in S})
    BY ImageIsFinite
  <2>2. DOMAIN bag = {key[s] : s \in S}
    BY <1>1
  <2>3. QED
    BY <2>1, <2>2
<1>4. CountsByKey(bag, S, key, DOMAIN bag)
  BY <1>1 DEF CountsByKey
<1>5. QED
  BY <1>1, <1>2, <1>3, <1>4

LEMMA SizeIs ==
  ASSUME NEW S, IsFiniteSet(S), NEW key, InRange(key, S), NEW h, Counts(h.samples, key, S)
  PROVE  F!Size(h) = Cardinality(S)
<1> DEFINE bag == h.samples
           D == DOMAIN bag
<1>1. D = {key[s] : s \in S} /\ IsFiniteSet(D) /\ CountsByKey(bag, S, key, D)
  BY CountedDomain
<1>2. F!Size(h) = SumFunctionOnSet(bag, D)
  BY SameSums DEF F!Size, F!SumFunction
<1>3. Keyed(S, key, D) = S
  BY <1>1 DEF Keyed
<1> HIDE DEF D, bag
<1>4. SumFunctionOnSet(bag, D) = Cardinality(Keyed(S, key, D))
  BY <1>1, CountOfFibres
<1>5. QED
  BY <1>2, <1>3, <1>4

LEMMA UpToIs ==
  ASSUME NEW S, IsFiniteSet(S), NEW key, InRange(key, S), NEW h, Counts(h.samples, key, S), NEW v
  PROVE  F!UpTo(h, v) = Cardinality(Within(S, key, v))
<1> DEFINE bag == h.samples
           D == {w \in DOMAIN bag : w <= v}
<1>1. DOMAIN bag = {key[s] : s \in S} /\ IsFiniteSet(DOMAIN bag) /\ CountsByKey(bag, S, key, DOMAIN bag)
  BY CountedDomain
<1>2. F!UpTo(h, v) = SumFunctionOnSet(bag, D)
  BY SameSums DEF F!UpTo
<1>3. Keyed(S, key, D) = Within(S, key, v)
  BY <1>1 DEF Keyed, Within
<1>4. IsFiniteSet(D)
  BY <1>1, FS_Subset
<1>5. CountsByKey(bag, S, key, D)
  BY <1>1 DEF CountsByKey
<1> HIDE DEF D, bag
<1>6. SumFunctionOnSet(bag, D) = Cardinality(Keyed(S, key, D))
  BY <1>4, <1>5, CountOfFibres
<1>7. QED
  BY <1>2, <1>3, <1>6

\* p per cent of S are at v or below, and fewer are below.
IsQuantile(S, key, v, p) ==
  /\ 100 * Cardinality(Within(S, key, v)) >= p * Cardinality(S)
  /\ 100 * Cardinality(Below(S, key, v)) < p * Cardinality(S)

LEMMA PartsCount ==
  ASSUME NEW S, IsFiniteSet(S), NEW key, NEW v
  PROVE  /\ IsFiniteSet(Within(S, key, v)) /\ Cardinality(Within(S, key, v)) \in Nat
         /\ IsFiniteSet(Below(S, key, v)) /\ Cardinality(Below(S, key, v)) \in Nat
<1>1. Within(S, key, v) \in SUBSET S /\ Below(S, key, v) \in SUBSET S
  BY DEF Within, Below
<1>2. QED
  BY <1>1, FS_Subset, FS_CardinalityType

LEMMA QuantileIs ==
  ASSUME NEW S, IsFiniteSet(S), S # {}, NEW key, InRange(key, S), NEW h, Counts(h.samples, key, S),
         NEW p \in 1..100
  PROVE  \E q \in DOMAIN h.samples :
            /\ F!Percentile(h, p) = F!Min({MaxLatency, q})
            /\ \A v \in DOMAIN h.samples : IsQuantile(S, key, v, p) <=> v = q
<1> DEFINE D == DOMAIN h.samples
           N == Cardinality(S)
           W(v) == Cardinality(Within(S, key, v))
           B(v) == Cardinality(Below(S, key, v))
           Q == {v \in D : 100 * F!UpTo(h, v) >= p * F!Size(h)}
           m == F!Min(Q)
<1>1. D = {key[s] : s \in S} /\ D \subseteq Nat /\ IsFiniteSet(D)
  BY CountedDomain
<1>2. D \in SUBSET Nat /\ D \subseteq Nat /\ D # {}
  BY <1>1
<1>3. N \in Nat /\ N # 0
  BY FS_CardinalityType, FS_EmptySet
<1>4. \A v : W(v) \in Nat /\ B(v) \in Nat
  BY PartsCount
<1>5. F!Size(h) = N /\ \A v : F!UpTo(h, v) = W(v)
  BY SizeIs, UpToIs
<1>6. F!Percentile(h, p) = F!Min({MaxLatency, m})
  BY DEF F!Percentile
<1>7. \A s \in S : key[s] \in D
  BY <1>1
<1>8. \A v \in D : v \in Q <=> 100 * W(v) >= p * N
  BY <1>5
<1>9. Q \subseteq D
  OBVIOUS
<1> HIDE DEF D, Q
<1>10. PICK top \in D : \A v \in D : v <= top
  <2>1. PICK n \in Nat : \A v \in D : v <= n
    BY <1>1, <1>2, FiniteBound
  <2>2. QED
    BY <1>2, <2>1, GreatestExists
<1>11. W(top) = N
  <2>1. Within(S, key, top) = S
    BY <1>7, <1>10 DEF Within
  <2>2. QED
    BY <2>1
<1>12. top \in Q
  <2> HIDE DEF W, N
  <2>1. 100 * N >= p * N
    BY <1>3
  <2>2. QED
    BY <1>8, <1>10, <1>11, <2>1
<1>13. m \in Q /\ \A v \in Q : m <= v
  <2>1. Q \in SUBSET Nat /\ Q # {}
    BY <1>2, <1>9, <1>12
  <2>2. QED
    BY <2>1, LeastOf
<1> HIDE DEF m
<1>14. m \in D /\ m \in Nat
  BY <1>2, <1>9, <1>13
<1>15. 100 * B(m) < p * N
  <2> DEFINE T == {v \in D : v < m}
  <2>1. CASE T = {}
    <3>1. Below(S, key, m) = {}
      BY <1>7, <2>1 DEF Below
    <3>2. B(m) = 0
      BY <3>1, FS_EmptySet
    <3> HIDE DEF N, B
    <3>3. 0 < p * N
      BY <1>3
    <3>4. QED
      BY <3>2, <3>3
  <2>2. CASE T # {}
    <3>1. T \in SUBSET Nat /\ \A t \in T : t <= m
      <4>1. \A t \in T : t \in D /\ t < m
        OBVIOUS
      <4>2. \A t \in T : t \in Nat
        BY <1>2, <4>1
      <4> HIDE DEF T
      <4>3. QED
        BY <1>14, <4>1, <4>2
    <3> HIDE DEF T
    <3>2. PICK u \in T : \A t \in T : t <= u
      BY <1>14, <2>2, <3>1, GreatestExists
    <3>3. u \in D /\ u < m /\ u \in Nat /\ \A v \in D : v < m => v <= u
      BY <1>2, <3>2 DEF T
    <3>4. Below(S, key, m) = Within(S, key, u)
      <4>1. ASSUME NEW s \in S PROVE key[s] < m <=> key[s] <= u
        <5>1. key[s] \in D /\ key[s] \in Nat
          BY <1>2, <1>7
        <5>2. QED
          BY <1>14, <3>3, <5>1
      <4>2. QED
        BY <4>1 DEF Below, Within
    <3>5. B(m) = W(u)
      BY <3>4
    <3>6. u \notin Q
      BY <1>13, <1>14, <3>3
    <3> HIDE DEF W, B, N
    <3>7. ~(100 * W(u) >= p * N)
      BY <1>8, <3>3, <3>6
    <3>8. QED
      <4>1. 100 * W(u) \in Nat /\ p * N \in Nat
        BY <1>3, <1>4
      <4>2. QED
        BY <3>5, <3>7, <4>1
  <2>3. QED
    BY <2>1, <2>2
<1>16. IsQuantile(S, key, m, p)
  <2>1. 100 * W(m) >= p * N
    BY <1>8, <1>13, <1>14
  <2>2. QED
    BY <1>15, <2>1 DEF IsQuantile
<1>17. ASSUME NEW v \in D, IsQuantile(S, key, v, p) PROVE v = m
  <2>1. 100 * W(v) >= p * N /\ 100 * B(v) < p * N
    BY <1>17 DEF IsQuantile
  <2>2. v \in Q /\ v \in Nat
    BY <1>2, <1>8, <2>1
  <2>3. m <= v
    BY <1>13, <2>2
  <2>4. ASSUME m < v PROVE FALSE
    <3>1. Within(S, key, m) \in SUBSET Below(S, key, v)
      <4>1. ASSUME NEW s \in S, key[s] <= m PROVE key[s] < v
        <5>1. key[s] \in Nat
          BY <1>2, <1>7
        <5>2. QED
          BY <1>14, <2>2, <2>4, <4>1, <5>1
      <4>2. QED
        BY <4>1 DEF Within, Below
    <3>2. W(m) <= B(v)
      BY <3>1, PartsCount, FS_Subset
    <3>3. 100 * W(m) >= p * N
      BY <1>8, <1>13, <1>14
    <3>4. p * N \in Nat
      BY <1>3
    <3> HIDE DEF W, B, N
    <3>5. QED
      BY <1>4, <2>1, <3>2, <3>3, <3>4
  <2>5. QED
    BY <1>14, <2>2, <2>3, <2>4
<1>18. QED
  BY <1>6, <1>14, <1>16, <1>17 DEF D

(***************************************************************************)
(* The figures of a run that ended well.                                   *)
(***************************************************************************)
\* A run that Finish is called for, with its limit and its time.
RunOf(run, runtime, bound, duration) ==
  /\ run.runtime = runtime /\ runtime \in Nat /\ F!ConnectionCount(run) \in Nat \ {0}
  /\ IF bound = 0 THEN run.duration = duration /\ duration \in Nat ELSE run.duration = Unset

FiguresOf(t, o, bound, duration) ==
  /\ IsInterval(t.interval)
  /\ Final(t, LogOf(o), Responses(o), t.interval)
  /\ CountsUpTo(t, o.workers, Len(o.workers))
  /\ t.load = IF bound # 0 \/ o.runtime < duration THEN o.runtime ELSE duration

LEMMA EndedFigures ==
  ASSUME NEW o, o.workers \in Seq(WorkerType), NEW bound, NEW duration, NEW run,
         RunOf(run, o.runtime, bound, duration), NEW t, t = F!Finish(F!JoinWorkers(o.workers), run)
  PROVE  FiguresOf(t, o, bound, duration)
<1> DEFINE log == LogOf(o)
           X == Responses(o)
           j == F!JoinWorkers(o.workers)
           n == Len(o.workers)
<1>1. IsFiniteSet(X) /\ Describes(j, log, X) /\ CountsUpTo(j, o.workers, n) /\ InRange(RecordedOf(log), X)
  BY JoinDescribes, LogType
<1>2. t = F!Finish(j, run)
  OBVIOUS
<1> HIDE DEF log, X, j, n
<1>3. PICK cycles : cycles = j.completed \div F!ConnectionCount(run)
  OBVIOUS
<1>4. PICK expected : expected = F!Max({1, run.runtime \div cycles})
  OBVIOUS
<1>5. Finished(t, j, run, cycles, expected)
  BY <1>1, <1>2, <1>3, <1>4, FinishIs
<1>6. CountsUpTo(t, o.workers, n)
  BY <1>1, <1>5 DEF Finished, SameCounts, CountsUpTo
<1>7. t.load = IF bound # 0 \/ o.runtime < duration THEN o.runtime ELSE duration
  <2>1. t.load = IF run.duration = Unset THEN run.runtime ELSE F!Min({run.duration, run.runtime})
    BY <1>5 DEF Finished
  <2>2. CASE bound # 0
    <3>1. run.duration = Unset /\ run.runtime = o.runtime
      BY <2>2 DEF RunOf
    <3>2. QED
      BY <2>1, <2>2, <3>1
  <2>3. CASE bound = 0
    <3>1. run.duration = duration /\ duration \in Nat /\ run.runtime = o.runtime /\ o.runtime \in Nat
      BY <2>3 DEF RunOf
    <3>2. run.duration # Unset
      BY <3>1, UnsetAssumption
    <3>3. t.load = F!Min({duration, o.runtime})
      BY <2>1, <3>1, <3>2
    <3>4. t.load = IF o.runtime < duration THEN o.runtime ELSE duration
      BY <3>1, <3>3, SmallerOfTwo
    <3>5. QED
      BY <2>3, <3>4
  <2>4. QED
    BY <2>2, <2>3
<1>8. run.runtime \in Nat /\ F!ConnectionCount(run) \in Nat \ {0}
  BY DEF RunOf
<1>9. Final(t, log, X, t.interval) /\ IsInterval(t.interval)
  BY <1>1, <1>2, <1>8, FinishDescribes
<1>10. QED
  BY <1>6, <1>7, <1>9 DEF FiguresOf, log, X, n

StatusesAre(s, o) ==
  \A code :
    F!Copies(code, s.statuses) =
      Cardinality({x \in Responses(o) : o.workers[x[1]].responses[x[2]].status = code})

LEMMA TablesAreRight ==
  ASSUME NEW s, NEW o, o.workers \in Seq(WorkerType), NEW bound, NEW duration,
         FiguresOf(s, o, bound, duration)
  PROVE  MethodsAgree(s) /\ StatusesAre(s, o)
<1> DEFINE log == LogOf(o)
           X == Responses(o)
<1>1. IsFiniteSet(X) /\ DOMAIN log = X /\ InRange(RecordedOf(log), X) /\ AllMethods(log, X)
  BY JoinDescribes, LogType
<1>2. PICK interval : interval = s.interval
  OBVIOUS
<1>3. Final(s, log, X, interval)
  BY <1>2 DEF FiguresOf
<1> HIDE DEF log, X
<1>4. MethodsAgree(s)
  BY <1>1, <1>3, TablesAddUp
<1>5. ASSUME NEW code
      PROVE  F!Copies(code, s.statuses) =
               Cardinality({x \in X : o.workers[x[1]].responses[x[2]].status = code})
  <2>1. \A x \in X : StatusOf(log)[x] = o.workers[x[1]].responses[x[2]].status
    BY <1>1 DEF StatusOf, LogOf, log, X
  <2>2. Keyed(X, StatusOf(log), {code}) = {x \in X : o.workers[x[1]].responses[x[2]].status = code}
    BY <2>1 DEF Keyed
  <2>3. F!Copies(code, s.statuses) = Cardinality(Keyed(X, StatusOf(log), {code}))
    BY <1>3 DEF Final, Counts
  <2>4. QED
    BY <2>2, <2>3
<1>6. QED
  BY <1>4, <1>5 DEF X, StatusesAre

(***************************************************************************)
(* The reference looks at the same samples.                                *)
(***************************************************************************)
LEMMA ClampIs ==
  ASSUME NEW latency \in Nat
  PROVE  Max({1, Min({MaxLatency, latency})}) = F!Clamp(latency)
<1> DEFINE a == Min({MaxLatency, latency})
<1>1. MaxLatency \in Nat \ {0}
  BY UnitsAssumption
<1>2. \E x \in {MaxLatency, latency} : \A y \in {MaxLatency, latency} : x <= y
  BY <1>1
<1>3. a \in {MaxLatency, latency} /\ a <= MaxLatency /\ a <= latency
  BY <1>2 DEF Min
<1> HIDE DEF a
<1>4. a \in Nat
  BY <1>1, <1>3
<1>5. \E x \in {1, a} : \A y \in {1, a} : x >= y
  BY <1>4
<1>6. Max({1, a}) \in {1, a} /\ Max({1, a}) >= 1 /\ Max({1, a}) >= a
  BY <1>5 DEF Max
<1>7. Max({1, a}) = F!Clamp(latency)
  BY <1>1, <1>3, <1>4, <1>6 DEF F!Clamp
<1>8. QED
  BY <1>7 DEF a

\* The reference's samples are those of a log with some keys.
AreSamples(S, key) == S = Samples /\ DOMAIN key = S /\ \A s \in S : key[s] = Value(s)

LEMMA ReferenceIs ==
  ASSUME outcome.workers \in Seq(WorkerType)
  PROVE  LET key == RecordedOf(LogOf(outcome))
         IN  AreSamples(SamplesOf(key, Responses(outcome), summary.interval),
                        ValueOf(key, Responses(outcome), summary.interval))
<1> DEFINE log == LogOf(outcome)
           key == RecordedOf(log)
           X == Responses(outcome)
           i == summary.interval
           S == SamplesOf(key, X, i)
<1>1. \A x \in X : IsResponse(log[x]) /\ log[x] = Response(x)
  BY ResponsesAre DEF LogOf, Response
<1>2. InRange(key, X) /\ \A x \in X : key[x] = F!Cell(log[x].latency)
  BY LogType
<1>3. ASSUME NEW x \in X PROVE Latency(x) = key[x]
  <2>1. PICK l \in Nat : l = Response(x).latency
    BY <1>1 DEF IsResponse
  <2>2. Max({1, Min({MaxLatency, l})}) = F!Clamp(l)
    BY ClampIs
  <2>3. QED
    BY <1>1, <1>2, <2>1, <2>2 DEF Latency, F!Cell
<1>4. X = Responded
  BY DEF Responded
<1> HIDE DEF key, log, i, X
<1>5. ASSUME NEW x \in X, NEW k
      PROVE  k \in {j \in 0..Latency(x) : j # 0 => Waiting(x, j)} <=>
               k = 0 \/ (i # Unset /\ k \in F!Rounds(key[x], i))
  <2>1. PICK u \in Nat : u = key[x]
    BY <1>2 DEF InRange
  <2>2. \A j : Waiting(x, j) <=> i # Unset /\ u - j * i > i
    BY <1>3, <2>1 DEF Waiting, i
  <2>3. F!Rounds(u, i) = {j \in 1..u : u - j * i > i}
    BY DEF F!Rounds
  <2>4. \A j : j \in 0..u <=> j = 0 \/ j \in 1..u
    OBVIOUS
  <2>5. ~(0 \in 1..u)
    OBVIOUS
  <2>6. Latency(x) = u
    BY <1>3, <2>1
  <2>7. QED
    BY <2>1, <2>2, <2>3, <2>4, <2>5, <2>6
<1>6. ASSUME NEW s PROVE s \in Samples <=> s \in S
  <2>1. s \in Samples <=>
          \E x \in X : \E k \in {j \in 0..Latency(x) : j # 0 => Waiting(x, j)} : s = <<x, k>>
    BY <1>4 DEF Samples
  <2>2. s \in S <=>
          \/ \E x \in X : s = <<x, 0>>
          \/ i # Unset /\ \E x \in X : \E k \in F!Rounds(key[x], i) : s = <<x, k>>
    BY DEF SamplesOf, Firsts, Laters
  <2> HIDE DEF S
  <2>3. QED
    BY <1>5, <2>1, <2>2
<1>7. S = Samples
  <2> HIDE DEF S
  <2>1. QED
    BY <1>6
<1>8. DOMAIN ValueOf(key, X, i) = S /\ \A s \in S : ValueOf(key, X, i)[s] = SampleValue(key, i, s)
  BY DEF ValueOf
<1>9. ASSUME NEW s \in S PROVE Value(s) = SampleValue(key, i, s)
  <2>1. s[1] \in X
    BY SamplesAreOf
  <2>2. Latency(s[1]) = key[s[1]]
    BY <1>3, <2>1
  <2>3. QED
    BY <2>2 DEF Value, SampleValue, i
<1> HIDE DEF S
<1>10. AreSamples(S, ValueOf(key, X, i))
  BY <1>7, <1>8, <1>9 DEF AreSamples
<1>11. QED
  BY <1>10 DEF S, X, i, key, log

\* The histogram of the summary counts the samples of the reference.
Sampled(h, S, key) ==
  IsFiniteSet(S) /\ InRange(key, S) /\ Counts(h.samples, key, S) /\ AreSamples(S, key)

LEMMA SummarySampled ==
  ASSUME outcome.workers \in Seq(WorkerType), NEW bound, NEW duration,
         FiguresOf(summary, outcome, bound, duration)
  PROVE  \E S, key : Sampled(summary.latencies, S, key)
<1> DEFINE log == LogOf(outcome)
           key == RecordedOf(log)
           X == Responses(outcome)
           i == summary.interval
           S == SamplesOf(key, X, i)
           value == ValueOf(key, X, i)
           h == summary.latencies
<1>1. IsFiniteSet(X) /\ InRange(key, X)
  BY JoinDescribes, LogType
<1>2. IsInterval(i) /\ Holds(h, log, X, i)
  BY DEF FiguresOf, Final, FinalTally
<1>3. AreSamples(S, value)
  BY ReferenceIs
<1>4. Counts(h.samples, value, S)
  BY <1>2 DEF Holds
<1> HIDE DEF log, key, X, i, h
<1>5. IsFiniteSet(S) /\ InRange(value, S)
  BY <1>1, <1>2, SampleRange
<1> HIDE DEF S, value
<1>6. Sampled(h, S, value)
  BY <1>3, <1>4, <1>5 DEF Sampled
<1>7. QED
  BY <1>6 DEF h

\* What the reference measures is what metric_value says, where that is available.
Agrees(metric) ==
  Measured(metric) =
    IF metric \in F!LatencyMetrics /\ F!Size(summary.latencies) = 0 THEN {}
    ELSE {F!MetricValue(summary, metric)}

LEMMA SampledSize ==
  ASSUME NEW S, NEW key, Sampled(summary.latencies, S, key)
  PROVE  /\ F!Size(summary.latencies) = Cardinality(S) /\ Cardinality(S) \in Nat
         /\ Cardinality(S) = 0 <=> S = {}
<1>1. F!Size(summary.latencies) = Cardinality(S)
  BY SizeIs DEF Sampled
<1>2. QED
  BY <1>1, FS_CardinalityType, FS_EmptySet DEF Sampled

LEMMA PercentilesAgree ==
  ASSUME NEW S, NEW key, Sampled(summary.latencies, S, key), NEW metric \in DOMAIN F!Percent
  PROVE  Agrees(metric)
<1> DEFINE h == summary.latencies
           p == F!Percent[metric]
           D == DOMAIN h.samples
           Quantiles == {w \in {Value(s) : s \in Samples} : IsPercentile(w, p)}
<1>1. /\ p \in 1..100 /\ metric \in F!LatencyMetrics
      /\ metric \notin {"mean", "rps", "error_rate"} /\ metric \notin F!CountMetrics
  BY DEF F!Percent, F!LatencyMetrics, F!CountMetrics
<1>2. Measured(metric) = {<<Min({MaxLatency, v}), 1>> : v \in Quantiles}
  BY <1>1 DEF Measured, F!CountMetrics
<1>3. F!MetricValue(summary, metric) = <<F!Percentile(h, p), 1>>
  BY <1>1 DEF F!MetricValue
<1> HIDE DEF p
<1>4. IsFiniteSet(S) /\ InRange(key, S) /\ Counts(h.samples, key, S)
  BY DEF Sampled
<1>5. S = Samples /\ \A s \in S : key[s] = Value(s)
  BY DEF Sampled, AreSamples
<1>6. D = {Value(s) : s \in Samples}
  <2>1. D = {key[s] : s \in S}
    BY <1>4, CountedDomain
  <2>2. QED
    BY <1>5, <2>1
<1>7. ASSUME NEW v PROVE IsPercentile(v, p) <=> IsQuantile(S, key, v, p)
  <2>1. {s \in Samples : Value(s) <= v} = Within(S, key, v)
    BY <1>5 DEF Within
  <2>2. {s \in Samples : Value(s) < v} = Below(S, key, v)
    BY <1>5 DEF Below
  <2>3. QED
    BY <1>5, <2>1, <2>2 DEF IsPercentile, IsQuantile
<1>8. Quantiles = {w \in D : IsQuantile(S, key, w, p)}
  BY <1>6, <1>7
<1>9. F!Size(h) = 0 <=> S = {}
  BY SampledSize
<1> HIDE DEF Quantiles
<1>10. CASE S = {}
  <2>1. Quantiles = {}
    BY <1>5, <1>6, <1>8, <1>10
  <2>2. Measured(metric) = {}
    BY <1>2, <2>1
  <2>3. QED
    BY <1>1, <1>9, <1>10, <2>2 DEF Agrees
<1>11. CASE S # {}
  <2>1. PICK q \in D : /\ F!Percentile(h, p) = F!Min({MaxLatency, q})
                       /\ \A v \in D : IsQuantile(S, key, v, p) <=> v = q
    BY <1>1, <1>4, <1>11, QuantileIs
  <2>2. Quantiles = {q}
    BY <1>8, <2>1
  <2>3. Measured(metric) = {<<Min({MaxLatency, q}), 1>>}
    BY <1>2, <2>2
  <2>4. Min({MaxLatency, q}) = F!Min({MaxLatency, q})
    BY DEF Min, F!Min
  <2>5. QED
    BY <1>3, <1>9, <1>11, <2>1, <2>3, <2>4 DEF Agrees
<1>12. QED
  BY <1>10, <1>11

LEMMA MeansAgree ==
  ASSUME NEW S, NEW key, Sampled(summary.latencies, S, key)
  PROVE  Agrees("mean")
<1> DEFINE h == summary.latencies
           metric == "mean"
<1>1. metric \in F!LatencyMetrics /\ metric \notin DOMAIN F!Percent /\ metric \notin F!CountMetrics
  BY DEF F!Percent, F!LatencyMetrics, F!CountMetrics
<1>2. Measured(metric) = IF Samples = {} THEN {} ELSE {<<Average(Histogram), 1>>}
  BY <1>1 DEF Measured
<1>3. F!MetricValue(summary, metric) = <<Average(h.samples), 1>>
  BY <1>1 DEF F!MetricValue
<1>4. IsFiniteSet(S) /\ InRange(key, S) /\ Counts(h.samples, key, S)
  BY DEF Sampled
<1>5. S = Samples /\ \A s \in S : key[s] = Value(s)
  BY DEF Sampled, AreSamples
<1>6. h.samples = Histogram
  <2> DEFINE bag == h.samples
  <2>1. DOMAIN bag = {Value(s) : s \in Samples}
    <3>1. DOMAIN bag = {key[s] : s \in S}
      BY <1>4, CountedDomain
    <3>2. QED
      BY <1>5, <3>1
  <2>2. ASSUME NEW v \in DOMAIN bag PROVE bag[v] = Cardinality({s \in Samples : Value(s) = v})
    <3>1. bag[v] = Cardinality(Keyed(S, key, {v}))
      BY <1>4, CountedDomain DEF CountsByKey
    <3>2. Keyed(S, key, {v}) = {s \in Samples : Value(s) = v}
      BY <1>5 DEF Keyed
    <3>3. QED
      BY <3>1, <3>2
  <2>3. bag = [v \in DOMAIN bag |-> bag[v]]
    BY <1>4 DEF Counts
  <2> HIDE DEF bag
  <2>4. bag = [v \in {Value(s) : s \in Samples} |-> Cardinality({s \in Samples : Value(s) = v})]
    BY <2>1, <2>2, <2>3
  <2>5. QED
    BY <2>4 DEF Histogram, bag
<1>7. F!Size(h) = 0 <=> S = {}
  BY SampledSize
<1>8. Average(h.samples) = Average(Histogram)
  BY <1>6
<1>9. QED
  BY <1>1, <1>2, <1>3, <1>5, <1>7, <1>8 DEF Agrees

LEMMA CountsAgree ==
  ASSUME outcome.workers \in Seq(WorkerType),
         FiguresOf(summary, outcome, limit, config.duration)
  PROVE  /\ summary.completed = Cardinality(Responded) /\ summary.status_errors = Cardinality(Failed)
         /\ summary.socket_errors = SocketErrors /\ summary.abandoned = Abandoned(outcome)
         /\ summary.recoveries = Recoveries /\ summary.load = Span
<1> DEFINE log == LogOf(outcome)
           X == Responses(outcome)
           workers == outcome.workers
<1>1. /\ summary.completed = Cardinality(X)
      /\ summary.status_errors = Cardinality(Keyed(X, StatusOf(log), Failing))
      /\ CountsUpTo(summary, workers, Len(workers))
      /\ summary.load = IF limit # 0 \/ outcome.runtime < config.duration THEN outcome.runtime ELSE config.duration
  BY DEF FiguresOf, Final, FinalTally
<1>2. summary.load = Span
  BY <1>1 DEF Span
<1>3. X = Responded
  BY DEF Responded
<1>4. Keyed(X, StatusOf(log), Failing) = Failed
  <2>1. ASSUME NEW x \in X PROVE StatusOf(log)[x] \in Failing <=> Response(x).status >= 400
    <3>1. log[x] = Response(x) /\ x \in DOMAIN log /\ IsResponse(log[x])
      BY ResponsesAre DEF LogOf, Response
    <3>2. StatusOf(log)[x] = Response(x).status /\ Response(x).status \in Nat
      <4>1. StatusOf(log)[x] = log[x].status
        BY <3>1 DEF StatusOf
      <4>2. \A n \in 0..999 : n \in Nat
        OBVIOUS
      <4>3. log[x].status \in Nat
        BY <3>1, <4>2 DEF IsResponse
      <4>4. QED
        BY <3>1, <4>1, <4>3
    <3>3. QED
      BY <3>2 DEF Failing
  <2>2. QED
    BY <1>3, <2>1 DEF Keyed, Failed
<1>5. DOMAIN workers = 1..Len(workers)
  BY WorkersAre
<1>6. summary.abandoned = Abandoned(outcome)
  <2>1. summary.abandoned = SumFunctionOnSet([w \in DOMAIN workers |-> workers[w].abandoned], 1..Len(workers))
    BY <1>1 DEF CountsUpTo
  <2>2. QED
    BY <1>5, <2>1 DEF Abandoned, SumFunction
<1>7. summary.recoveries = Recoveries
  <2>1. summary.recoveries = SumFunctionOnSet([w \in DOMAIN workers |-> workers[w].recoveries], 1..Len(workers))
    BY <1>1 DEF CountsUpTo
  <2>2. QED
    BY <1>5, <2>1 DEF Recoveries, SumFunction
<1>8. summary.socket_errors = SocketErrors
  <2>1. summary.socket_errors =
          SumFunctionOnSet([w \in DOMAIN workers |-> workers[w].socket_errors], 1..Len(workers))
    BY <1>1 DEF CountsUpTo
  <2>2. QED
    BY <1>5, <2>1 DEF SocketErrors, SumFunction
<1>9. QED
  BY <1>1, <1>2, <1>3, <1>4, <1>6, <1>7, <1>8

LEMMA SocketErrorsType ==
  ASSUME outcome.workers \in Seq(WorkerType)
  PROVE  SocketErrors \in Nat
<1> DEFINE workers == outcome.workers
           e == [w \in DOMAIN workers |-> workers[w].socket_errors]
<1>1. /\ Len(workers) \in Nat /\ DOMAIN workers = 1..Len(workers)
      /\ \A w \in 1..Len(workers) : workers[w] \in WorkerType
  BY WorkersAre
<1>2. IsFiniteSet(DOMAIN workers)
  BY <1>1, FS_Interval
<1>3. \A w \in DOMAIN workers : e[w] \in Nat
  <2>1. \A v \in WorkerType : v.socket_errors \in Nat
    BY DEF WorkerType
  <2>2. QED
    BY <1>1, <2>1
<1>4. SocketErrors = SumFunctionOnSet(e, DOMAIN workers)
  BY DEF SocketErrors, SumFunction
<1> HIDE DEF e
<1>5. QED
  BY <1>2, <1>3, <1>4, SumType

LEMMA FiguresAgree ==
  ASSUME outcome.workers \in Seq(WorkerType),
         FiguresOf(summary, outcome, limit, config.duration), NEW metric \in F!Metrics
  PROVE  Agrees(metric)
<1>1. PICK S : \E key : Sampled(summary.latencies, S, key)
  BY SummarySampled
<1>2. PICK key : Sampled(summary.latencies, S, key)
  BY <1>1
<1>3. /\ summary.completed = Cardinality(Responded) /\ summary.status_errors = Cardinality(Failed)
      /\ summary.socket_errors = SocketErrors /\ summary.abandoned = Abandoned(outcome)
      /\ summary.recoveries = Recoveries /\ summary.load = Span
  BY CountsAgree
<1>4. CASE metric \in DOMAIN F!Percent
  BY <1>2, <1>4, PercentilesAgree
<1>5. CASE metric = "mean"
  BY <1>2, <1>5, MeansAgree
<1>6. ASSUME metric \notin F!LatencyMetrics, Measured(metric) = {F!MetricValue(summary, metric)}
      PROVE  Agrees(metric)
  BY <1>6 DEF Agrees
<1>7. CASE metric = "rps"
  <2>1. /\ metric \notin F!LatencyMetrics /\ metric \notin DOMAIN F!Percent
        /\ metric \notin F!CountMetrics
    BY <1>7 DEF F!LatencyMetrics, F!Percent, F!CountMetrics
  <2>2. Measured(metric) = {IF Span = 0 THEN <<0, 1>>
                             ELSE Divide(<<Cardinality(Responded), 1>>, InSeconds(Span))}
    BY <1>7, <2>1 DEF Measured
  <2>3. F!MetricValue(summary, metric) = F!Rate(summary.completed, summary.load)
    BY <1>7, <2>1 DEF F!MetricValue
  <2>4. QED
    BY <1>3, <1>6, <2>1, <2>2, <2>3 DEF F!Rate
<1>8. CASE metric = "error_rate"
  <2>1. /\ metric \notin F!LatencyMetrics /\ metric \notin DOMAIN F!Percent
        /\ metric \notin F!CountMetrics
    BY <1>8 DEF F!LatencyMetrics, F!Percent, F!CountMetrics
  <2>2. Measured(metric) =
          {IF Responded = {} /\ SocketErrors = 0 THEN <<0, 1>>
           ELSE Divide(<<Cardinality(Failed) + SocketErrors, 1>>,
                       <<Cardinality(Responded) + SocketErrors, 1>>)}
    BY <1>8, <2>1 DEF Measured
  <2>3. F!MetricValue(summary, metric) = F!ErrorRate(summary)
    BY <1>8, <2>1 DEF F!MetricValue
  <2>4. Cardinality(Responded) \in Nat /\ (Cardinality(Responded) = 0 <=> Responded = {})
    <3>1. IsFiniteSet(Responded)
      BY JoinDescribes DEF Responded
    <3>2. QED
      BY <3>1, FS_CardinalityType, FS_EmptySet
  <2>5. Cardinality(Responded) + SocketErrors = 0 <=> Responded = {} /\ SocketErrors = 0
    BY <2>4, SocketErrorsType
  <2>6. F!ErrorRate(summary) =
          IF Responded = {} /\ SocketErrors = 0 THEN <<0, 1>>
          ELSE Divide(<<Cardinality(Failed) + SocketErrors, 1>>,
                      <<Cardinality(Responded) + SocketErrors, 1>>)
    BY <1>3, <2>5 DEF F!ErrorRate
  <2>7. QED
    BY <1>6, <2>1, <2>2, <2>3, <2>6
<1>9. CASE metric \in F!CountMetrics
  <2>1. metric \notin F!LatencyMetrics /\ metric \notin DOMAIN F!Percent
        /\ metric \notin {"rps", "mean", "error_rate"}
    BY <1>9 DEF F!LatencyMetrics, F!Percent, F!CountMetrics
  <2>2. F!MetricValue(summary, metric) = <<summary[metric], 1>>
    BY <1>9, <2>1 DEF F!MetricValue
  <2>3. Measured(metric) = {<<summary[metric], 1>>}
    <3>1. CASE metric = "completed"
      BY <1>3, <2>1, <3>1 DEF Measured
    <3>2. CASE metric = "status_errors"
      BY <1>3, <2>1, <3>2 DEF Measured
    <3>3. CASE metric = "socket_errors"
      BY <1>3, <2>1, <3>3 DEF Measured
    <3>4. CASE metric = "abandoned"
      BY <1>3, <2>1, <3>4 DEF Measured
    <3>5. CASE metric = "recoveries"
      BY <1>3, <2>1, <3>5 DEF Measured
    <3>6. QED
      BY <1>9, <3>1, <3>2, <3>3, <3>4, <3>5 DEF F!CountMetrics
  <2>4. QED
    BY <1>6, <2>1, <2>2, <2>3
<1>10. QED
  BY <1>4, <1>5, <1>7, <1>8, <1>9 DEF F!Metrics, F!LatencyMetrics

\* evaluate says of an assertion what is true of the responses.
LEMMA AssertionsAreTrue ==
  ASSUME outcome.workers \in Seq(WorkerType),
         FiguresOf(summary, outcome, limit, config.duration), NEW a
  PROVE  F!Evaluate(summary, a) <=> IsTrue(a)
<1>1. CASE ~F!WellFormed(a)
  BY <1>1 DEF F!Evaluate, IsTrue
<1>2. CASE F!WellFormed(a)
  <2> DEFINE b == F!Expected(a)
             v == F!MetricValue(summary, a.metric)
             size == F!Size(summary.latencies)
  <2>1. PICK metric \in F!Metrics : metric = a.metric
    BY <1>2 DEF F!WellFormed
  <2>2. Agrees(metric)
    BY FiguresAgree
  <2>3. size \in Nat
    <3>1. PICK S : \E key : Sampled(summary.latencies, S, key)
      BY SummarySampled
    <3>2. PICK key : Sampled(summary.latencies, S, key)
      BY <3>1
    <3>3. QED
      BY <3>2, SampledSize
  <2>4. F!Evaluate(summary, a) <=> (a.metric \in F!LatencyMetrics => size > 0) /\ F!Compare(a.operator, v, b)
    BY <1>2 DEF F!Evaluate
  <2>5. IsTrue(a) <=> \E u \in Measured(a.metric) : F!Compare(a.operator, u, b)
    BY <1>2 DEF IsTrue
  <2>6. Measured(a.metric) = IF a.metric \in F!LatencyMetrics /\ size = 0 THEN {} ELSE {v}
    BY <2>1, <2>2 DEF Agrees
  <2> HIDE DEF b, v, size
  <2>7. CASE a.metric \in F!LatencyMetrics /\ size = 0
    BY <2>3, <2>4, <2>5, <2>6, <2>7
  <2>8. CASE ~(a.metric \in F!LatencyMetrics /\ size = 0)
    <3>1. Measured(a.metric) = {v}
      BY <2>6, <2>8
    <3>2. a.metric \in F!LatencyMetrics => size > 0
      BY <2>3, <2>8
    <3>3. QED
      BY <2>4, <2>5, <3>1, <3>2
  <2>9. QED
    BY <2>7, <2>8
<1>3. QED
  BY <1>1, <1>2

(***************************************************************************)
(* The numbers of the options and the assertions among them.               *)
(***************************************************************************)
Numbers(options) ==
  /\ options["--requests"] = Unset \/ options["--requests"] \in Nat \ {0}
  /\ options["--connections"] \in Nat
  /\ options["--duration"] = Unset \/ options["--duration"] \in Nat

LEMMA NumbersDefaults == Numbers(Defaults)
<1> DEFINE options == [n \in Options |-> IF n \in Flags THEN FALSE ELSE IF n \in Lists THEN <<>> ELSE Unset]
           settings == {<<"--connections", 10>>, <<"--threads", 2>>, <<"--timeout", 2 * Second>>,
                        <<"--replay-order", "sequential">>, <<"--replay-speed", 1>>,
                        <<"--stages", <<>>>>, <<"--output-format", "text">>, <<"--request", "GET">>}
<1>1. Defaults = With(options, settings) /\ DOMAIN options = Options
  BY DEF Defaults, Options
<1>2. /\ {"--requests", "--duration", "--connections"} \subseteq Options
      /\ "--requests" \notin Flags \cup Lists /\ "--duration" \notin Flags \cup Lists
  BY DEF Options, Flags, Lists, Values
<1>3. options["--requests"] = Unset /\ options["--duration"] = Unset
  BY <1>2
<1>4. \A s \in settings : s[1] # "--requests" /\ s[1] # "--duration"
  OBVIOUS
<1>5. \A s \in settings : s[1] = "--connections" => s[2] = 10
  OBVIOUS
<1>6. \E s \in settings : s[1] = "--connections"
  OBVIOUS
<1> HIDE DEF options, settings
<1>7. With(options, settings)["--requests"] = Unset /\ With(options, settings)["--duration"] = Unset
  BY <1>1, <1>2, <1>3, <1>4, WithSettings
<1>8. With(options, settings)["--connections"] = 10
  BY <1>1, <1>2, <1>5, <1>6, WithSettings
<1>9. QED
  BY <1>1, <1>7, <1>8 DEF Numbers

LEMMA NumbersTaken ==
  ASSUME NEW a, IsParsed(a.name, a.value), a.name \in Values => a.value \notin {Bad, Unset},
         NEW old, Numbers(old), NEW new, Taken(a, old, new)
  PROVE  Numbers(new)
<1> DEFINE three == {"--requests", "--connections", "--duration"}
<1>1. three \subseteq Options /\ three \subseteq Values
  BY DEF Options, Values
<1>2. \A m \in Options : m # Slot(a.name) => new[m] = old[m]
  BY DEF Taken
<1>3. \A m \in three : Slot(a.name) = m => a.name = m /\ new[m] = a.value
  BY <1>1 DEF Slot, Taken
<1>4. ASSUME NEW m \in three PROVE new[m] = old[m] \/ (a.name = m /\ a.name \in Values /\ new[m] = a.value)
  BY <1>1, <1>2, <1>3
<1>5. new["--requests"] = Unset \/ new["--requests"] \in Nat \ {0}
  BY <1>4 DEF Numbers, IsParsed
<1>6. new["--connections"] \in Nat
  BY <1>4 DEF Numbers, IsParsed
<1>7. new["--duration"] = Unset \/ new["--duration"] \in Nat
  BY <1>4 DEF Numbers, IsParsed
<1>8. QED
  BY <1>5, <1>6, <1>7 DEF Numbers

\* What a profile can set of these.
NumberSetting(s) ==
  /\ s[1] # "--requests"
  /\ s[1] = "--connections" => s[2] = profile.connections
  /\ s[1] = "--duration" => s[2] = profile.duration

LEMMA NumberSettings ==
  ASSUME NEW s \in FromProfile
  PROVE  NumberSetting(s)
<1>1. CASE s \in RunnerSettings
  BY <1>1 DEF RunnerSettings, NumberSetting
<1>2. CASE UseStatic /\ s \in StaticSettings(profile.static)
  BY <1>2 DEF StaticSettings, NumberSetting
<1>3. CASE UseReplay /\ s \in ReplaySettings(profile.replay)
  <2> DEFINE r == profile.replay
  <2>1. s \in ReplaySettings(r)
    BY <1>3
  <2> HIDE DEF r
  <2>2. CASE s \in PacingFrom(r)
    <3>1. s \in PacingSettings(r.pacing)
      BY <2>2 DEF PacingFrom
    <3> DEFINE p == r.pacing
               yes == TRUE
    <3>2. CASE p.mode = "timestamp"
      <4>1. s = <<"--replay-timestamps", yes>> \/ s = <<"--replay-speed", IF p.speed = Unset THEN 1 ELSE p.speed>>
        BY <3>1, <3>2 DEF PacingSettings
      <4> HIDE DEF yes, p
      <4>2. s[1] \in {"--replay-timestamps", "--replay-speed"}
        BY <4>1
      <4>3. QED
        BY <4>2 DEF NumberSetting
    <3>3. CASE p.mode = "rate"
      BY <3>1, <3>3 DEF PacingSettings, NumberSetting
    <3>4. CASE p.mode = "stages"
      BY <3>1, <3>4 DEF PacingSettings, NumberSetting
    <3>5. CASE p.mode \notin {"rate", "timestamp", "stages"}
      BY <3>1, <3>5 DEF PacingSettings
    <3>6. QED
      BY <3>2, <3>3, <3>4, <3>5
  <2>3. CASE s \notin PacingFrom(r)
    BY <2>1, <2>3 DEF ReplaySettings, NumberSetting
  <2>4. QED
    BY <2>2, <2>3
<1>4. QED
  BY <1>1, <1>2, <1>3 DEF FromProfile

LEMMA ProfileNumbers ==
  ASSUME command \in Commands, Given("--profile"), ValidProfile, ~BadSetting, DOMAIN opt = Options,
         Numbers(opt)
  PROVE  Numbers(With(opt, FromProfile))
<1> DEFINE h == With(opt, FromProfile)
           three == {"--requests", "--connections", "--duration"}
<1>1. three \subseteq Options
  BY DEF Options, Values
<1>2. ASSUME NEW n \in three
      PROVE  h[n] = opt[n] \/ \E s \in FromProfile : s[1] = n /\ h[n] = s[2]
  BY <1>1, WithSettings
<1>3. profile.connections \in {Bad} \cup Nat /\ profile.duration \in {Bad, Unset} \cup Nat
  BY ProfileAssumption DEF Given, ValidProfile, profile, argv
<1>4. \A s \in FromProfile : s[2] # Bad /\ NumberSetting(s)
  BY NumberSettings DEF BadSetting
<1> HIDE DEF h
<1>5. h["--requests"] = Unset \/ h["--requests"] \in Nat \ {0}
  BY <1>2, <1>4 DEF Numbers, NumberSetting
<1>6. h["--connections"] \in Nat
  BY <1>2, <1>3, <1>4 DEF Numbers, NumberSetting
<1>7. h["--duration"] = Unset \/ h["--duration"] \in Nat
  BY <1>2, <1>3, <1>4 DEF Numbers, NumberSetting
<1>8. QED
  BY <1>5, <1>6, <1>7 DEF Numbers, h

(***************************************************************************)
(* The assertions among the options, and the number of requests.           *)
(***************************************************************************)
LEMMA AppendedRange ==
  ASSUME NEW T, NEW s \in Seq(T), NEW v \in T
  PROVE  Range(Append(s, v)) = Range(s) \cup {v}
<1> DEFINE t == Append(s, v)
<1>1. t \in Seq(T) /\ Len(t) = Len(s) + 1 /\ Len(s) \in Nat
  OBVIOUS
<1>2. DOMAIN t = 1..(Len(s) + 1) /\ DOMAIN s = 1..Len(s)
  BY <1>1
<1>3. t[Len(s) + 1] = v /\ \A k \in 1..Len(s) : t[k] = s[k]
  OBVIOUS
<1>4. \A k \in DOMAIN t : k = Len(s) + 1 \/ k \in DOMAIN s
  BY <1>1, <1>2
<1>5. Len(s) + 1 \in DOMAIN t /\ \A k \in DOMAIN s : k \in DOMAIN t /\ t[k] = s[k]
  BY <1>1, <1>2, <1>3
<1> HIDE DEF t
<1>6. Range(t) = Range(s) \cup {v}
  BY <1>3, <1>4, <1>5 DEF Range
<1>7. QED
  BY <1>6 DEF t

LEMMA ConcatenatedRange ==
  ASSUME NEW S, NEW T, NEW s \in Seq(S), NEW r \in Seq(T)
  PROVE  Range(s \o r) = Range(s) \cup Range(r)
<1>0. PICK U : U = S \cup T
  OBVIOUS
<1>1. s \in Seq(U) /\ r \in Seq(U)
  BY <1>0
<1>2. s \o r \in Seq(U)
  BY <1>1
<1> DEFINE t == s \o r
<1>3. /\ Len(s) \in Nat /\ Len(r) \in Nat /\ Len(t) = Len(s) + Len(r)
      /\ DOMAIN t = 1..Len(t) /\ DOMAIN s = 1..Len(s) /\ DOMAIN r = 1..Len(r)
  BY <1>1, <1>2
<1>4. \A k \in 1..(Len(s) + Len(r)) : t[k] = IF k <= Len(s) THEN s[k] ELSE r[k - Len(s)]
  BY <1>1, <1>2
<1>5. \A k \in DOMAIN t : (k \in DOMAIN s /\ t[k] = s[k]) \/ \E i \in DOMAIN r : t[k] = r[i]
  <2> SUFFICES ASSUME NEW k \in DOMAIN t, k \notin DOMAIN s PROVE k - Len(s) \in DOMAIN r /\ t[k] = r[k - Len(s)]
    BY <1>3, <1>4
  <2>1. QED
    BY <1>3, <1>4
<1>6. \A k \in DOMAIN s : k \in DOMAIN t /\ t[k] = s[k]
  BY <1>3, <1>4
<1>7. \A i \in DOMAIN r : \E k \in DOMAIN t : t[k] = r[i]
  <2> SUFFICES ASSUME NEW i \in DOMAIN r PROVE \E k \in DOMAIN t : t[k] = r[i]
    OBVIOUS
  <2>1. Len(s) + i \in DOMAIN t /\ t[Len(s) + i] = r[i]
    BY <1>3, <1>4
  <2>2. QED
    BY <2>1
<1> HIDE DEF t
<1>8. Range(t) = Range(s) \cup Range(r)
  BY <1>5, <1>6, <1>7 DEF Range
<1>9. QED
  BY <1>8 DEF t

\* The assertions among the first n - 1 arguments.
Asserted(args, n) == {args[i].value : i \in {j \in 1..(n - 1) : args[j].name = "--assert"}}

\* A number of requests among them has been taken.
RequestsKept(args, n, options) ==
  (\E i \in 1..(n - 1) : args[i].name = "--requests") => options["--requests"] # Unset

LEMMA AssertedNext ==
  ASSUME NEW args, NEW n \in Nat \ {0}
  PROVE  Asserted(args, n + 1) =
           Asserted(args, n) \cup (IF args[n].name = "--assert" THEN {args[n].value} ELSE {})
<1>1. \A i \in 1..((n + 1) - 1) : i = n \/ i \in 1..(n - 1)
  OBVIOUS
<1>2. n \in 1..((n + 1) - 1) /\ \A i \in 1..(n - 1) : i \in 1..((n + 1) - 1)
  OBVIOUS
<1>3. \A v : v \in Asserted(args, n + 1) <=>
             v \in Asserted(args, n) \cup (IF args[n].name = "--assert" THEN {args[n].value} ELSE {})
  <2> TAKE v
  <2>1. v \in Asserted(args, n + 1) <=>
          \E i \in 1..((n + 1) - 1) : args[i].name = "--assert" /\ v = args[i].value
    BY DEF Asserted
  <2>2. v \in Asserted(args, n) <=> \E i \in 1..(n - 1) : args[i].name = "--assert" /\ v = args[i].value
    BY DEF Asserted
  <2>3. QED
    BY <1>1, <1>2, <2>1, <2>2
<1>4. QED
  BY <1>3

\* One more argument.
LEMMA AssertedTaken ==
  ASSUME NEW args, Len(args) \in Nat, NEW n \in 1..Len(args), NEW old, NEW new,
         old["--assert"] \in Seq(ValuesIn(args)),
         Range(old["--assert"]) = Asserted(args, n), RequestsKept(args, n, old),
         args[n].name \in Values => args[n].value # Unset,
         Taken(args[n], old, new)
  PROVE  Range(new["--assert"]) = Asserted(args, n + 1) /\ RequestsKept(args, n + 1, new)
<1> DEFINE a == args[n]
<1>0. n \in Nat \ {0}
  OBVIOUS
<1>1. "--assert" \in Options /\ "--assert" \in Lists /\ "--requests" \in Options /\ "--requests" \in Values
  BY DEF Options, Lists, Values
<1>2. \A m \in Options : m # Slot(a.name) => new[m] = old[m]
  BY DEF Taken
<1>3. (Slot(a.name) = "--assert" <=> a.name = "--assert") /\ (Slot(a.name) = "--requests" <=> a.name = "--requests")
  BY DEF Slot
<1>4. a.name = "--assert" => new["--assert"] = Append(old["--assert"], a.value)
  BY <1>1, <1>3 DEF Taken
<1>5. a.name = "--requests" => new["--requests"] = a.value /\ a.value # Unset
  BY <1>1, <1>3 DEF Taken
<1>6. Range(new["--assert"]) = Asserted(args, n + 1)
  <2>1. Asserted(args, n + 1) = Asserted(args, n) \cup (IF a.name = "--assert" THEN {a.value} ELSE {})
    BY <1>0, AssertedNext
  <2>2. CASE a.name = "--assert"
    <3>1. a.value \in ValuesIn(args)
      BY DEF ValuesIn
    <3> HIDE DEF a
    <3>2. Range(Append(old["--assert"], a.value)) = Range(old["--assert"]) \cup {a.value}
      BY <3>1, AppendedRange
    <3>3. QED
      BY <1>4, <2>1, <2>2, <3>2
  <2>3. CASE a.name # "--assert"
    BY <1>1, <1>2, <1>3, <2>1, <2>3
  <2>4. QED
    BY <2>2, <2>3
<1>7. RequestsKept(args, n + 1, new)
  <2>1. CASE a.name = "--requests"
    BY <1>5, <2>1 DEF RequestsKept
  <2>2. CASE a.name # "--requests"
    <3>1. new["--requests"] = old["--requests"]
      BY <1>1, <1>2, <1>3, <2>2
    <3>2. \A i \in 1..((n + 1) - 1) : args[i].name = "--requests" => i \in 1..(n - 1)
      BY <2>2
    <3>3. QED
      BY <3>1, <3>2 DEF RequestsKept
  <2>3. QED
    BY <2>1, <2>2
<1>8. QED
  BY <1>6, <1>7

(***************************************************************************)
(* The options on their way to the library.                                *)
(***************************************************************************)
OptionsInv ==
  /\ Numbers(opt)
  /\ phase = "arguments" =>
       Range(opt["--assert"]) = Asserted(argv, next) /\ RequestsKept(argv, next, opt)
  /\ phase = "profile" =>
       /\ opt["--assert"] \in Seq(ValuesIn(argv))
       /\ Range(opt["--assert"]) = Asserted(argv, Len(argv) + 1)
  /\ phase \in {"profile", "checks"} => RequestsKept(argv, Len(argv) + 1, opt)
  /\ phase \in {"checks", "run", "gate", "report"} => Range(opt["--assert"]) = Claims

LEMMA ClaimsAre ==
  ASSUME Len(argv) \in Nat, DOMAIN argv = 1..Len(argv)
  PROVE  Claims = Asserted(argv, Len(argv) + 1)
                    \cup (IF Given("--profile") THEN Range(profile.assertions) ELSE {})
<1>1. 1..((Len(argv) + 1) - 1) = DOMAIN argv
  OBVIOUS
<1>2. QED
  BY <1>1 DEF Claims, Asserted

LEMMA OptionsInit == CommandInit => OptionsInv
<1> SUFFICES ASSUME CommandInit PROVE OptionsInv
  OBVIOUS
<1>1. opt = Defaults /\ next = 1 /\ phase \in {"library", "arguments"}
  BY DEF CommandInit
<1>2. opt["--assert"] = <<>>
  BY <1>1, DefaultLists DEF Lists
<1>3. Range(<<>>) = {}
  BY DEF Range
<1>4. 1..(next - 1) = {}
  BY <1>1
<1>5. Asserted(argv, next) = {} /\ RequestsKept(argv, next, opt)
  BY <1>4 DEF Asserted, RequestsKept
<1>6. QED
  BY <1>1, <1>2, <1>3, <1>5, NumbersDefaults DEF OptionsInv

LEMMA OptionsParse ==
  ASSUME CommandInv, OptionsInv, ParseArgument
  PROVE  OptionsInv'
<1> DEFINE a == argument
<1>1. /\ phase = "arguments" /\ phase' = phase /\ command' = command /\ next' = next + 1
      /\ next <= Len(argv) /\ a.name # "--help" /\ a.name \in Known
      /\ a.name \in Values => a.value \notin {Bad, Unset}
  BY DEF ParseArgument, Parsing, Refusable
<1>2. /\ DOMAIN opt = Options /\ command \in Commands /\ next \in 1..(Len(argv) + 1)
      /\ opt["--assert"] \in Seq(ValuesIn(argv))
  BY <1>1 DEF CommandInv, PositiveOptions, ListsOf, Lists
<1>3. Len(argv) \in Nat /\ DOMAIN argv = 1..Len(argv) /\ argv' = argv
  BY <1>1, <1>2, ArgumentsAssumption DEF argv
<1>4. next \in 1..Len(argv) /\ next \in Nat \ {0}
  BY <1>1, <1>2, <1>3
<1>5. a = argv[next]
  BY DEF argument
<1>6. IsParsed(a.name, a.value)
  BY <1>2, <1>3, <1>4, <1>5, NumbersAssumption DEF argv
<1>7. Range(opt["--assert"]) = Asserted(argv, next) /\ RequestsKept(argv, next, opt) /\ Numbers(opt)
  BY <1>1 DEF OptionsInv
<1> HIDE DEF a
<1>8. /\ Numbers(opt') /\ Range(opt'["--assert"]) = Asserted(argv, next + 1)
      /\ RequestsKept(argv, next + 1, opt')
  <2>1. CASE a.name = "--latency"
    <3>1. opt' = opt
      BY <2>1 DEF ParseArgument, a
    <3>2. Asserted(argv, next + 1) = Asserted(argv, next)
      <4>1. PICK args : args = argv
        OBVIOUS
      <4>2. Asserted(args, next + 1) = Asserted(args, next) \cup {}
        <5>1. args[next].name # "--assert"
          BY <1>5, <2>1, <4>1
        <5>2. QED
          BY <1>4, <5>1, AssertedNext
      <4>3. QED
        BY <4>1, <4>2
    <3>3. \A i \in 1..((next + 1) - 1) : argv[i].name = "--requests" => i \in 1..(next - 1)
      BY <1>4, <1>5, <2>1
    <3>4. QED
      BY <1>7, <3>1, <3>2, <3>3 DEF RequestsKept
  <2>2. CASE a.name # "--latency"
    <3>1. a.name \in Options
      BY <1>1, <2>2 DEF Known, Options
    <3>2. opt' = [opt EXCEPT ![Slot(a.name)] =
                    IF a.name \in Flags THEN TRUE
                    ELSE IF a.name \in Lists THEN Append(@, a.value)
                    ELSE a.value]
      BY <2>2 DEF ParseArgument, a
    <3>3. Slot(a.name) \in Options
      BY <3>1, OptionKinds
    <3>4. Taken(a, opt, opt')
      BY <1>2, <3>1, <3>2, <3>3, OptionKinds DEF Taken
    <3>5. Numbers(opt')
      BY <1>1, <1>6, <1>7, <3>4, NumbersTaken
    <3>6. PICK args : args = argv
      OBVIOUS
    <3>7. /\ Len(args) \in Nat /\ next \in 1..Len(args) /\ opt["--assert"] \in Seq(ValuesIn(args))
          /\ Range(opt["--assert"]) = Asserted(args, next) /\ RequestsKept(args, next, opt)
          /\ args[next].name \in Values => args[next].value # Unset
          /\ Taken(args[next], opt, opt')
      BY <1>1, <1>2, <1>3, <1>4, <1>5, <1>7, <3>4, <3>6
    <3>8. Range(opt'["--assert"]) = Asserted(args, next + 1) /\ RequestsKept(args, next + 1, opt')
      BY <3>7, AssertedTaken
    <3>9. QED
      BY <3>5, <3>6, <3>8
  <2>3. QED
    BY <2>1, <2>2
<1>9. QED
  BY <1>1, <1>3, <1>8 DEF OptionsInv

LEMMA OptionsProfile ==
  ASSUME CommandInv, OptionsInv, ApplyProfile
  PROVE  OptionsInv'
<1> DEFINE h == With(opt, FromProfile)
<1>1. /\ phase = "profile" /\ phase' = "checks" /\ command' = command /\ ValidProfile /\ ~BadSetting
      /\ Given("--profile") /\ opt' = [h EXCEPT !["--assert"] = @ \o profile.assertions]
  BY DEF ApplyProfile
<1>2. DOMAIN opt = Options /\ command \in Commands
  BY <1>1 DEF CommandInv, PositiveOptions
<1>3. Len(argv) \in Nat /\ DOMAIN argv = 1..Len(argv) /\ argv' = argv
  BY <1>1, <1>2, ArgumentsAssumption DEF argv
<1>4. /\ Numbers(opt) /\ opt["--assert"] \in Seq(ValuesIn(argv))
      /\ Range(opt["--assert"]) = Asserted(argv, Len(argv) + 1)
      /\ RequestsKept(argv, Len(argv) + 1, opt)
  BY <1>1 DEF OptionsInv
<1>5. Numbers(h)
  BY <1>1, <1>2, <1>4, ProfileNumbers
<1>6. DOMAIN h = Options
  BY <1>2 DEF With
<1>7. {"--assert", "--requests", "--connections", "--duration"} \subseteq Options
  BY DEF Options, Lists, Values
<1>8. h["--assert"] = opt["--assert"]
  <2>1. \A s \in FromProfile : s[1] # "--assert"
    BY ProfileLeavesGiven
  <2>2. QED
    BY <1>2, <1>7, <2>1, WithSettings
<1>9. h["--requests"] = opt["--requests"]
  <2>1. \A s \in FromProfile : s[1] # "--requests"
    BY NumberSettings DEF NumberSetting
  <2>2. QED
    BY <1>2, <1>7, <2>1, WithSettings
<1> HIDE DEF h
<1>10. /\ opt'["--assert"] = h["--assert"] \o profile.assertions
       /\ \A n \in Options \ {"--assert"} : opt'[n] = h[n]
  BY <1>1, <1>6, <1>7
<1>11. Numbers(opt')
  BY <1>5, <1>7, <1>10 DEF Numbers
<1>12. profile.assertions \in Seq(Range(profile.assertions))
  BY <1>1, <1>2, ProfileAssumption DEF Given, ValidProfile, profile, argv
<1>13. Range(opt'["--assert"]) = Claims
  <2>1. PICK s : s = opt["--assert"]
    OBVIOUS
  <2>2. PICK r : r = profile.assertions
    OBVIOUS
  <2>3. PICK S : S = ValuesIn(argv)
    OBVIOUS
  <2>4. PICK T : T = Range(r)
    OBVIOUS
  <2>5. s \in Seq(S) /\ r \in Seq(T)
    BY <1>4, <1>12, <2>1, <2>2, <2>3, <2>4
  <2>6. Range(s \o r) = Range(s) \cup Range(r)
    BY <2>5, ConcatenatedRange
  <2>7. Claims = Range(s) \cup Range(r)
    BY <1>1, <1>3, <1>4, <2>1, <2>2, ClaimsAre
  <2>8. QED
    BY <1>8, <1>10, <2>1, <2>2, <2>6, <2>7
<1>14. Claims' = Claims
  BY <1>1, <1>3 DEF Claims, Given, profile
<1>15. RequestsKept(argv, Len(argv) + 1, opt')
  BY <1>4, <1>7, <1>9, <1>10 DEF RequestsKept
<1>16. QED
  BY <1>1, <1>3, <1>11, <1>13, <1>14, <1>15 DEF OptionsInv

\* A step that keeps the options.
LEMMA OptionsEnter ==
  ASSUME CommandInv, OptionsInv, command' = command, opt' = opt, next' = next,
         \/ phase' = phase
         \/ phase' \in {"success", "failure"}
         \/ phase = "arguments" /\ next = Len(argv) + 1 /\ phase' = "profile"
         \/ phase = "profile" /\ ~Given("--profile") /\ phase' = "checks"
         \/ phase \in {"checks", "run", "gate"} /\ phase' \in {"run", "gate", "report"}
  PROVE  OptionsInv'
<1>1. argv' = argv /\ Claims' = Claims
  BY DEF argv, Claims, Given, profile
<1>2. CASE phase' = phase
  BY <1>1, <1>2 DEF OptionsInv
<1>3. CASE phase' \in {"success", "failure"}
  BY <1>3 DEF OptionsInv
<1>4. CASE phase = "arguments" /\ next = Len(argv) + 1 /\ phase' = "profile"
  <2>1. opt["--assert"] \in Seq(ValuesIn(argv))
    BY <1>4 DEF CommandInv, ListsOf, Lists
  <2>2. QED
    BY <1>1, <1>4, <2>1 DEF OptionsInv
<1>5. CASE phase = "profile" /\ ~Given("--profile") /\ phase' = "checks"
  <2>1. Len(argv) \in Nat /\ DOMAIN argv = 1..Len(argv)
    BY <1>5, ArgumentsAssumption DEF CommandInv, argv
  <2>2. Claims = Asserted(argv, Len(argv) + 1)
    BY <1>5, <2>1, ClaimsAre
  <2>3. QED
    BY <1>1, <1>5, <2>2 DEF OptionsInv
<1>6. CASE phase \in {"checks", "run", "gate"} /\ phase' \in {"run", "gate", "report"}
  BY <1>1, <1>6 DEF OptionsInv
<1>7. QED
  BY <1>2, <1>3, <1>4, <1>5, <1>6

LEMMA OptionsNext == CommandInv /\ OptionsInv /\ [CommandNext]_allVars => OptionsInv'
<1> SUFFICES ASSUME CommandInv, OptionsInv, [CommandNext]_allVars PROVE OptionsInv'
  OBVIOUS
<1>1. CASE ParseArgument
  BY <1>1, OptionsParse
<1>2. CASE ApplyProfile
  BY <1>2, OptionsProfile
<1>3. CASE EndOfArguments
  <2>1. phase = "arguments" /\ next > Len(argv) /\ Enter("profile")
    BY <1>3 DEF EndOfArguments
  <2>2. next \in 1..(Len(argv) + 1) /\ Len(argv) \in Nat
    BY <2>1, ArgumentsAssumption DEF CommandInv, argv
  <2>3. next = Len(argv) + 1
    BY <2>1, <2>2
  <2>4. QED
    BY <2>1, <2>3, OptionsEnter DEF Enter
<1>4. CASE BadArgument \/ Help \/ BadProfile \/ Version \/ Refuse \/ LoadFails
  BY <1>4, OptionsEnter DEF BadArgument, Help, BadProfile, Version, Refuse, LoadFails, Enter
<1>5. CASE NoProfile
  BY <1>5, OptionsEnter DEF NoProfile, Enter
<1>6. CASE Dispatch
  BY <1>6, OptionsEnter DEF Dispatch
<1>7. CASE Load
  BY <1>7, OptionsEnter DEF Load, commandVars
<1>8. CASE RunEnds
  <2>1. /\ phase = "run" /\ command' = command /\ opt' = opt /\ next' = next
        /\ phase' \in {"failure", "gate"}
    BY <1>8 DEF RunEnds
  <2>2. QED
    BY <2>1, OptionsEnter
<1>9. CASE Gate
  BY <1>9, OptionsEnter DEF Gate, Enter
<1>10. CASE Report
  BY <1>10, OptionsEnter DEF Report, Enter
<1>11. CASE UNCHANGED allVars
  BY <1>11, OptionsEnter DEF allVars, commandVars
<1>12. QED
  BY <1>1, <1>2, <1>3, <1>4, <1>5, <1>6, <1>7, <1>8, <1>9, <1>10, <1>11 DEF CommandNext

(***************************************************************************)
(* The run that is started: its connections, and its end by a number of    *)
(* requests or by a time.                                                  *)
(***************************************************************************)
JobInv ==
  phase = "run" =>
    /\ config.connections \in Nat
    /\ job.sound => config.connections # 0
    /\ config.duration \in Nat \/ (job.rounds = Unset /\ job.limit # 0)
    /\ pc = "ready" => job.sound /\ limit = Requested

LEMMA JobDispatched ==
  ASSUME CommandInv, OptionsInv, Dispatch
  PROVE  JobInv'
<1>1. /\ phase = "checks" /\ ~Contradictory
      /\ config' = Configuration /\ job' = Job /\ pc' # "ready"
  BY DEF Dispatch, Refused
<1>2. command \in Commands /\ Numbers(opt) /\ RequestsKept(argv, Len(argv) + 1, opt)
  BY <1>1 DEF CommandInv, OptionsInv
<1>3. Len(argv) \in Nat /\ DOMAIN argv = 1..Len(argv)
  BY <1>2, ArgumentsAssumption DEF argv
<1>4. Given("--requests") => opt["--requests"] # Unset
  <2>1. 1..((Len(argv) + 1) - 1) = DOMAIN argv
    BY <1>3
  <2>2. QED
    BY <1>2, <2>1 DEF RequestsKept, Given
<1>5. config'.connections \in Nat
  BY <1>1, <1>2 DEF Configuration, Numbers
<1>6. job'.sound => config'.connections # 0
  <2>1. job'.sound => Sound(Configuration)
    BY <1>1 DEF Job
  <2>2. Sound(Configuration) => Configuration.connections # 0
    BY DEF Sound
  <2>3. QED
    BY <1>1, <2>1, <2>2
<1>7. config'.duration \in Nat \/ (job'.rounds = Unset /\ job'.limit # 0)
  <2>1. CASE Given("--requests")
    <3>1. job'.limit = opt["--requests"] /\ job'.rounds = opt["--replay-rounds"]
      BY <1>1, <2>1 DEF Job, Configuration
    <3>2. opt["--requests"] # 0
      BY <1>2, <1>4, <2>1 DEF Numbers
    <3>3. opt["--replay-rounds"] = Unset
      BY <1>1, <2>1 DEF Contradictory
    <3>4. QED
      BY <3>1, <3>2, <3>3
  <2>2. CASE ~Given("--requests")
    <3>1. config'.duration = IF opt["--duration"] = Unset THEN 10 * Second ELSE opt["--duration"]
      BY <1>1, <2>2 DEF Configuration
    <3>2. 10 * Second \in Nat
      BY UnitsAssumption
    <3>3. QED
      BY <1>2, <3>1, <3>2 DEF Numbers
  <2>3. QED
    BY <2>1, <2>2
<1>8. QED
  BY <1>1, <1>5, <1>6, <1>7 DEF JobInv

LEMMA JobLoaded ==
  ASSUME JobInv, Load
  PROVE  JobInv'
<1>1. config' = config /\ phase' = phase
  BY DEF Load, commandVars
<1>2. job' = job
  BY DEF Load, Next, ValidateOptions, Open, ReadLine, ReadFails, EndOfFile, ApplyFilter,
         ValidateTimestamps, SetLimit, Fail
<1>3. pc' = "ready" => job.sound /\ limit' = Requested /\ requests' = requests
  BY DEF Load, Next, ValidateOptions, Open, ReadLine, ReadFails, EndOfFile, ApplyFilter,
         ValidateTimestamps, SetLimit, Fail
<1>4. QED
  BY <1>1, <1>2, <1>3 DEF JobInv, Requested

LEMMA JobNext == CommandInv /\ OptionsInv /\ JobInv /\ [CommandNext]_allVars => JobInv'
<1> SUFFICES ASSUME CommandInv, OptionsInv, JobInv, [CommandNext]_allVars PROVE JobInv'
  OBVIOUS
<1>1. CASE Dispatch
  BY <1>1, JobDispatched
<1>2. CASE Load
  BY <1>2, JobLoaded
<1>3. CASE UNCHANGED allVars
  BY <1>3 DEF JobInv, Requested, allVars, commandVars, vars
<1>4. CASE CommandNext /\ ~Dispatch /\ ~Load
  <2>1. phase' # "run"
    BY <1>4 DEF CommandNext, ParseArgument, BadArgument, Help, EndOfArguments, ApplyProfile, BadProfile,
            NoProfile, Version, Refuse, LoadFails, RunEnds, Gate, Report, Enter, Parsing
  <2>2. QED
    BY <2>1 DEF JobInv
<1>5. QED
  BY <1>1, <1>2, <1>3, <1>4

(***************************************************************************)
(* The end of the run.                                                     *)
(***************************************************************************)
LEMMA AbandonedType ==
  ASSUME NEW o, o.workers \in Seq(WorkerType)
  PROVE  Abandoned(o) \in Nat
<1> DEFINE workers == o.workers
           e == [w \in DOMAIN workers |-> workers[w].abandoned]
<1>1. /\ Len(workers) \in Nat /\ DOMAIN workers = 1..Len(workers)
      /\ \A w \in 1..Len(workers) : workers[w] \in WorkerType
  BY WorkersAre
<1>2. IsFiniteSet(DOMAIN workers)
  BY <1>1, FS_Interval
<1>3. \A w \in DOMAIN workers : e[w] \in Nat
  <2>1. \A v \in WorkerType : v.abandoned \in Nat
    BY DEF WorkerType
  <2>2. QED
    BY <1>1, <2>1
<1>4. Abandoned(o) = SumFunctionOnSet(e, DOMAIN workers)
  BY DEF Abandoned, SumFunction
<1> HIDE DEF e
<1>5. QED
  BY <1>2, <1>3, <1>4, SumType

\* The summary s reckons with what the workers of the run have returned.
Reckoned(s, o, bound, duration) ==
  o.workers \in Seq(WorkerType) /\ FiguresOf(s, o, bound, duration)

LEMMA RunIsReckoned ==
  ASSUME CommandInv, JobInv, RunEnds, ~outcome'.failed
  PROVE  Reckoned(summary', outcome', limit', config'.duration)
<1>1. /\ phase = "run" /\ pc = "ready" /\ outcome' \in Outcomes(command) /\ Possible(outcome')
      /\ summary' = F!Finish(F!JoinWorkers(outcome'.workers), Facts)
      /\ limit' = limit /\ config' = config
  BY DEF RunEnds, vars
<1>2. /\ command \in Commands /\ config.connections \in Nat /\ config.connections # 0
      /\ config.duration \in Nat \/ (job.rounds = Unset /\ job.limit # 0)
      /\ limit = Requested
  BY <1>1 DEF CommandInv, JobInv
<1>3. PICK o : o = outcome'
  OBVIOUS
<1>4. o.workers \in Seq(WorkerType) /\ o.runtime \in Nat
  BY <1>1, <1>2, <1>3, OutcomesAssumption
<1>5. PICK run : run = Facts
  OBVIOUS
<1>6. /\ run.limit = limit /\ run.connections = config.connections /\ run.runtime = o.runtime
      /\ run.duration = IF limit = 0 THEN config.duration ELSE Unset
  BY <1>3, <1>5 DEF Facts
<1>7. PICK bound : bound = limit
  OBVIOUS
<1>8. PICK duration : duration = config.duration
  OBVIOUS
<1>9. ASSUME bound = 0 PROVE RunOf(run, o.runtime, bound, duration)
  <2>1. duration \in Nat
    BY <1>2, <1>7, <1>8, <1>9 DEF Requested
  <2>2. duration # Unset
    BY <2>1, UnsetAssumption
  <2>3. F!ConnectionCount(run) = config.connections
    BY <1>6, <1>7, <1>8, <1>9, <2>2 DEF F!ConnectionCount
  <2>4. QED
    BY <1>2, <1>4, <1>6, <1>7, <1>8, <1>9, <2>1, <2>3 DEF RunOf
<1>10. ASSUME bound # 0 PROVE RunOf(run, o.runtime, bound, duration)
  <2>1. bound = Cardinality(Responses(o)) + Abandoned(o)
    BY <1>1, <1>3, <1>7, <1>10 DEF Possible
  <2>2. bound \in Nat \ {0}
    <3>1. IsFiniteSet(Responses(o))
      BY <1>4, JoinDescribes
    <3>2. Cardinality(Responses(o)) \in Nat /\ Abandoned(o) \in Nat
      BY <1>4, <3>1, FS_CardinalityType, AbandonedType
    <3>3. QED
      BY <1>10, <2>1, <3>2
  <2>3. F!ConnectionCount(run) = F!Min({config.connections, bound})
    BY <1>6, <1>7, <1>10 DEF F!ConnectionCount
  <2>4. F!ConnectionCount(run) \in Nat \ {0}
    <3>1. PICK c \in Nat : c = config.connections
      BY <1>2
    <3>2. F!Min({c, bound}) \in {c, bound}
      BY <2>2, SmallerOfTwo
    <3>3. QED
      BY <1>2, <2>2, <2>3, <3>1, <3>2
  <2>5. QED
    BY <1>4, <1>6, <1>7, <1>10, <2>4 DEF RunOf
<1>11. PICK t : t = summary'
  OBVIOUS
<1>12. t = F!Finish(F!JoinWorkers(o.workers), run)
  BY <1>1, <1>3, <1>5, <1>11
<1>13. FiguresOf(t, o, bound, duration)
  BY <1>4, <1>9, <1>10, <1>12, EndedFigures
<1>14. Reckoned(t, o, bound, duration)
  BY <1>4, <1>13 DEF Reckoned
<1>15. QED
  BY <1>1, <1>3, <1>7, <1>8, <1>11, <1>14

(***************************************************************************)
(* The exit status.                                                        *)
(***************************************************************************)
EndInv ==
  /\ phase \notin {"gate", "report", "success", "failure"} => outcome = Unset /\ summary = Unset
  /\ summary # Unset => Reckoned(summary, outcome, limit, config.duration)
  /\ outcome # Unset =>
       /\ outcome.failed => phase = "failure"
       /\ ~outcome.failed =>
            /\ Reckoned(summary, outcome, limit, config.duration)
            /\ Range(opt["--assert"]) = Claims
       /\ phase \in {"report", "success"} => AllHold
       /\ phase = "success" => opt["--output-html"] = Unset \/ command.report
       /\ phase = "failure" =>
            outcome.failed \/ ~AllHold \/ (opt["--output-html"] # Unset /\ ~command.report)

\* What the loop over the assertions finds is what is true of the responses.
LEMMA AllHoldIsRight ==
  ASSUME Reckoned(summary, outcome, limit, config.duration), Range(opt["--assert"]) = Claims
  PROVE  AllHold <=> \A a \in Claims : IsTrue(a)
<1>1. outcome.workers \in Seq(WorkerType)
  BY DEF Reckoned
<1>2. FiguresOf(summary, outcome, limit, config.duration)
  BY DEF Reckoned
<1>3. \A a : F!Evaluate(summary, a) <=> IsTrue(a)
  BY <1>1, <1>2, AssertionsAreTrue
<1>4. PICK s : s = opt["--assert"]
  OBVIOUS
<1>5. AllHold <=> \A i \in DOMAIN s : IsTrue(s[i])
  BY <1>3, <1>4 DEF AllHold
<1>6. \A a : a \in Claims <=> \E i \in DOMAIN s : a = s[i]
  BY <1>4 DEF Range
<1>7. QED
  BY <1>5, <1>6

LEMMA EndInvTables == EndInv => TablesAgree
<1> SUFFICES ASSUME EndInv, summary # Unset PROVE TablesAgree
  BY DEF TablesAgree
<1>1. Reckoned(summary, outcome, limit, config.duration)
  BY DEF EndInv
<1>2. MethodsAgree(summary) /\ StatusesAre(summary, outcome)
  BY <1>1, TablesAreRight DEF Reckoned
<1>3. QED
  BY <1>2 DEF TablesAgree, MethodsAgree, StatusesAre, Responded, Response

LEMMA EndInvHolds == EndInv => GateHolds
<1> SUFFICES ASSUME EndInv, outcome # Unset PROVE GateHolds
  BY DEF GateHolds
<1>1. CASE outcome.failed
  BY <1>1 DEF EndInv, GateHolds
<1>2. CASE ~outcome.failed
  <2>1. AllHold <=> \A a \in Claims : IsTrue(a)
    BY <1>2, AllHoldIsRight DEF EndInv
  <2>2. QED
    BY <1>2, <2>1 DEF EndInv, GateHolds
<1>3. QED
  BY <1>1, <1>2

LEMMA EndNext == CommandInv /\ OptionsInv /\ JobInv /\ EndInv /\ [CommandNext]_allVars => EndInv'
<1> SUFFICES ASSUME CommandInv, OptionsInv, JobInv, EndInv, [CommandNext]_allVars PROVE EndInv'
  OBVIOUS
<1>1. CASE RunEnds
  <2>1. /\ phase = "run" /\ command' = command /\ opt' = opt
        /\ outcome'.failed => phase' = "failure" /\ summary' = summary
        /\ ~outcome'.failed => phase' = "gate"
    BY <1>1 DEF RunEnds
  <2>2. Range(opt'["--assert"]) = Claims'
    <3>1. Range(opt["--assert"]) = Claims
      BY <2>1 DEF OptionsInv
    <3>2. QED
      BY <2>1, <3>1 DEF Claims, argv, profile, Given
  <2>3. ~outcome'.failed => Reckoned(summary', outcome', limit', config'.duration)
    BY <1>1, RunIsReckoned
  <2>4. summary = Unset
    BY <2>1 DEF EndInv
  <2>5. QED
    BY <2>1, <2>2, <2>3, <2>4 DEF EndInv
<1>2. CASE phase \in {"gate", "report", "success", "failure"} /\ ~RunEnds
  <2>1. UNCHANGED <<command, opt, config, outcome, summary, vars>>
    BY <1>2 DEF CommandNext, ParseArgument, BadArgument, Help, EndOfArguments, ApplyProfile, BadProfile,
            NoProfile, Version, Refuse, Dispatch, Load, LoadFails, Gate, Report, Enter, Parsing, allVars,
            commandVars
  <2>2. \/ phase' = phase
        \/ phase = "gate" /\ AllHold /\ phase' = "report"
        \/ phase = "gate" /\ ~AllHold /\ phase' = "failure"
        \/ phase = "report" /\ (opt["--output-html"] = Unset \/ command.report) /\ phase' = "success"
        \/ phase = "report" /\ ~(opt["--output-html"] = Unset \/ command.report) /\ phase' = "failure"
    BY <1>2 DEF CommandNext, ParseArgument, BadArgument, Help, EndOfArguments, ApplyProfile, BadProfile,
            NoProfile, Version, Refuse, Dispatch, Load, LoadFails, Gate, Report, Enter, Parsing, allVars,
            commandVars
  <2>3. AllHold' = AllHold /\ Claims' = Claims /\ limit' = limit
    BY <2>1 DEF AllHold, Claims, argv, profile, Given, vars
  <2>4. QED
    BY <1>2, <2>1, <2>2, <2>3 DEF EndInv
<1>3. CASE phase \notin {"gate", "report", "success", "failure"} /\ ~RunEnds
  <2>1. outcome' = outcome /\ summary' = summary
    BY <1>3 DEF CommandNext, ParseArgument, BadArgument, Help, EndOfArguments, ApplyProfile, BadProfile,
            NoProfile, Version, Refuse, Dispatch, Load, LoadFails, Gate, Report, Enter, allVars, commandVars
  <2>2. QED
    BY <1>3, <2>1 DEF EndInv
<1>4. QED
  BY <1>1, <1>2, <1>3

AllInv == CommandInv /\ OptionsInv /\ JobInv /\ EndInv

LEMMA AllInvInit == CommandInit => AllInv
<1>1. CommandInit => JobInv /\ EndInv
  BY DEF CommandInit, JobInv, EndInv
<1>2. QED
  BY <1>1, InvInit, OptionsInit DEF AllInv

LEMMA AllInvNext == AllInv /\ [CommandNext]_allVars => AllInv'
BY InvNext, OptionsNext, JobNext, EndNext DEF AllInv

\* For every run that ends well, of any command and any number of workers and responses: the
\* table by method and the table by status that RunSummary keeps are about the responses that
\* the totals are about, and the histograms of the methods hold what the histogram of the run
\* holds, after merge and after both have been corrected.
THEOREM TablesStayInAgreement == CommandSpec => []TablesAgree
<1>1. AllInv => TablesAgree
  BY EndInvTables DEF AllInv
<1>2. QED
  BY <1>1, AllInvInit, AllInvNext, PTL DEF CommandSpec

\* For every command, with or without a profile, for any number of workers and responses, any
\* resolution of the histogram and any arithmetic of f64: when a run has ended, execute exits
\* with success exactly when the run ended well, every assertion is true of the responses
\* looked at one by one, and the report was written. The percentiles, the mean, the rates and
\* the counters that evaluate reads off RunSummary are those of the responses, each latency
\* clamped, corrected for coordinated omission and read as the highest one of its cell.
THEOREM GateIsRight == CommandSpec => []GateHolds
<1>1. AllInv => GateHolds
  BY EndInvHolds DEF AllInv
<1>2. QED
  BY <1>1, AllInvInit, AllInvNext, PTL DEF CommandSpec
=============================================================================
