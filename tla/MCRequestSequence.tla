------------------------- MODULE MCRequestSequence -------------------------
(* RequestSequence for TLC: three entries of which two share a timestamp,   *)
(* two stages, of which the first is not a whole number of intervals.       *)
EXTENDS RequestSequence, TLC

ThreeStamps == <<0, 3, 3>>
TwoStages == <<[duration |-> 3, interval |-> 2], [duration |-> 2, interval |-> 1]>>
Plain == [order |-> "sequential", rate |-> FALSE, timestamps |-> FALSE, stages |-> FALSE]
\* Each order unpaced, and each pacer in sequential order.
\* The invalid combination of a rate and timestamps is refused by Init.
SomeOptions ==
  {[Plain EXCEPT !.order = o] : o \in {"sequential", "shuffle", "random"}}
  \cup {[Plain EXCEPT !.rate = TRUE], [Plain EXCEPT !.timestamps = TRUE],
        [Plain EXCEPT !.stages = TRUE], [Plain EXCEPT !.rate = TRUE, !.timestamps = TRUE]}
AnyThread == Permutations(Threads)
=============================================================================
