------------------------------- MODULE UriTop -------------------------------
(***************************************************************************)
(* The bounded URI statistics of a RunSummary: UriTop of src/metrics.rs, a *)
(* Space-Saving list of at most Capacity entries.                          *)
(*                                                                         *)
(* A list is a function from the URIs it tracks to their estimated request *)
(* count and maximum error.  The Vec behind it has an order, which decides *)
(* only between entries with equal estimates (which one is replaced, which *)
(* one survives a merge): here any of them may be chosen, so an operation  *)
(* maps a list to the set of its possible results.                         *)
(***************************************************************************)
EXTENDS Integers, FiniteSets

CONSTANTS Uris, Capacity

ASSUME UrisAssumption == IsFiniteSet(Uris)
ASSUME CapacityAssumption == Capacity \in Nat \ {0}

Statistic == [estimated : Nat, error : Nat]

Tops == UNION {[tracked -> Statistic] : tracked \in SUBSET Uris}

EmptyTop == [u \in {} |-> [estimated |-> 0, error |-> 0]]

IsFull(top) == Cardinality(DOMAIN top) >= Capacity

IsLeast(u, top) ==
  u \in DOMAIN top /\ \A v \in DOMAIN top : top[u].estimated <= top[v].estimated

\* top with u tracked as s instead of what `gone` holds
Replaced(top, gone, u, s) ==
  [v \in (DOMAIN top \ gone) \cup {u} |-> IF v = u THEN s ELSE top[v]]

\* Mutant of Record: a newcomer starts from nothing and admits no error.
Record_NoError(top, u) ==
  IF u \in DOMAIN top
  THEN {[top EXCEPT ![u].estimated = @ + 1]}
  ELSE IF ~IsFull(top)
  THEN {Replaced(top, {}, u, [estimated |-> 1, error |-> 0])}
  ELSE {Replaced(top, {v}, u, [estimated |-> 1, error |-> 0]) :
          v \in {v \in DOMAIN top : IsLeast(v, top)}}

\* record and record_weight: a newcomer takes the place and the count of a least entry.
Record(top, u) ==
  IF u \in DOMAIN top
  THEN {[top EXCEPT ![u].estimated = @ + 1]}
  ELSE IF ~IsFull(top)
  THEN {Replaced(top, {}, u, [estimated |-> 1, error |-> 0])}
  ELSE {Replaced(top, {v}, u, [estimated |-> top[v].estimated + 1,
                               error |-> top[v].estimated]) :
          v \in {v \in DOMAIN top : IsLeast(v, top)}}

\* minimum_count: what an untracked URI may have been counted for
MinimumCount(top) ==
  IF IsFull(top) THEN top[CHOOSE u \in DOMAIN top : IsLeast(u, top)].estimated ELSE 0

\* What a list says of u when it is merged.
Share(top, u) ==
  IF u \in DOMAIN top THEN top[u]
  ELSE [estimated |-> MinimumCount(top), error |-> MinimumCount(top)]

Combined(a, b) ==
  [u \in DOMAIN a \cup DOMAIN b |->
     [estimated |-> Share(a, u).estimated + Share(b, u).estimated,
      error |-> Share(a, u).error + Share(b, u).error]]

\* Mutant of Truncations: the list is cut before it is sorted.
Truncations_Unsorted(top) ==
  IF Cardinality(DOMAIN top) <= Capacity THEN {top}
  ELSE {[u \in kept |-> top[u]] :
          kept \in {k \in SUBSET DOMAIN top : Cardinality(k) = Capacity}}

\* The Capacity best entries of a list: sort and truncate.
Truncations(top) ==
  IF Cardinality(DOMAIN top) <= Capacity THEN {top}
  ELSE {[u \in kept |-> top[u]] :
          kept \in {k \in SUBSET DOMAIN top :
                      /\ Cardinality(k) = Capacity
                      /\ \A u \in k, v \in DOMAIN top \ k :
                           top[u].estimated >= top[v].estimated}}

\* Mutant of Merge: a URI that one list does not track counts as unseen there.
Merge_MissingIsZero(a, b) ==
  Truncations([u \in DOMAIN a \cup DOMAIN b |->
    IF u \notin DOMAIN b THEN a[u]
    ELSE IF u \notin DOMAIN a THEN b[u]
    ELSE [estimated |-> a[u].estimated + b[u].estimated, error |-> a[u].error + b[u].error]])

Merge(a, b) == Truncations(Combined(a, b))

(***************************************************************************)
(* What a list promises about the true counts.                             *)
(***************************************************************************)
BoundsHold(top, count) ==
  \A u \in Uris :
    IF u \in DOMAIN top
    THEN top[u].estimated - top[u].error <= count[u] /\ count[u] <= top[u].estimated
    ELSE IF IsFull(top) THEN \A v \in DOMAIN top : count[u] <= top[v].estimated
    ELSE count[u] = 0
=============================================================================
