--------------------------- MODULE WorkerContract ---------------------------
(***************************************************************************)
(* What run_worker (src/engine/mod.rs) promises its coordinator, and no    *)
(* more: no sockets, no timers, no loop.                                   *)
(*                                                                         *)
(* A worker with a fixed number of requests answers each request of each   *)
(* of its clients at most once.  When a client gives up, all it still owes *)
(* is reported as lost, at once, and it answers nothing any more.  The     *)
(* worker returns its summary only when nothing is owed.  A worker with a  *)
(* duration answers what it can and loses nothing; it returns a summary    *)
(* only after its time has run out.  Either may fail at any moment.        *)
(***************************************************************************)
EXTENDS Naturals

CONSTANTS
  Clients,  \* the connections of the worker
  Share,    \* [Clients -> Nat]: the requests each is given
  Timed     \* whether the worker runs for a duration instead

VARIABLES
  answered,  \* [Clients -> Nat]: responses recorded
  lost,      \* [Clients -> Nat]: requests reported as abandoned
  expired,   \* the duration has passed
  status     \* "running", "ok" or "error"

vars == <<answered, lost, expired, status>>

Owed(c) == Share[c] - (answered[c] + lost[c])

Init ==
  /\ answered = [c \in Clients |-> 0]
  /\ lost = [c \in Clients |-> 0]
  /\ expired \in {FALSE, Timed}
  /\ status = "running"

\* The duration may run out in the course of any step.
TimeGoesOn == expired' \in {expired, Timed}

Answer(c) ==
  /\ status = "running"
  /\ Timed \/ Owed(c) > 0
  /\ answered' = [answered EXCEPT ![c] = @ + 1]
  /\ TimeGoesOn
  /\ UNCHANGED <<lost, status>>

GiveUp(c) ==
  /\ status = "running"
  /\ ~Timed /\ Owed(c) > 0
  /\ lost' = [lost EXCEPT ![c] = @ + Owed(c)]
  /\ UNCHANGED <<answered, expired, status>>

RunOut ==
  /\ Timed /\ ~expired
  /\ expired' = TRUE
  /\ UNCHANGED <<answered, lost, status>>

Return ==
  /\ status = "running"
  /\ IF Timed THEN expired ELSE \A c \in Clients : Owed(c) = 0
  /\ status' = "ok"
  /\ UNCHANGED <<answered, lost, expired>>

Fail ==
  /\ status = "running"
  /\ status' = "error"
  /\ TimeGoesOn
  /\ UNCHANGED <<answered, lost>>

Next == (\E c \in Clients : Answer(c) \/ GiveUp(c)) \/ RunOut \/ Return \/ Fail

Spec == Init /\ [][Next]_vars
=============================================================================
