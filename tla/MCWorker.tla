------------------------------ MODULE MCWorker ------------------------------
(***************************************************************************)
(* Instances of Worker for TLC: the limits of one or two connections, and  *)
(* the deadline of a fixed-request run.                                    *)
(***************************************************************************)
EXTENDS Worker
OneRequest == <<1>>
TwoRequests == <<2>>
OneEach == <<1, 1>>
Never == NoTime
=============================================================================
