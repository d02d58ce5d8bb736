----------------------------- MODULE MCScheduler -----------------------------
(* Instances of Scheduler for TLC.                                         *)
EXTENDS Scheduler, TLC

CONSTANTS q1, q2, q3, s1

Auto == [numGPU |-> -1, rest |-> 0]

\* Two requests for one model, a third for another.
ModelsShared == [q \in Req |-> IF q = q3 THEN 2 ELSE 1]
OptsAuto == [q \in Req |-> Auto]
DurMixed == [q \in Req |-> CASE q = q1 -> NoDuration [] q = q2 -> 0 [] q = q3 -> 2]
DurKept == [q \in Req |-> CASE q = q1 -> 2 [] q = q2 -> NoDuration [] q = q3 -> 0]
StopFirst == [s \in Stop |-> 1]
=============================================================================
