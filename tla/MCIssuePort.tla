---------------------------- MODULE MCIssuePort ----------------------------
(* Callers of IssuePort for TLC: three threads compete for the FIFO of     *)
(* gemms while two of them use the other controllers too, or one of them   *)
(* is scheduler C and runs its schedule.                                   *)
EXTENDS ScheduleC, TLC

CONSTANTS c1, c2

Op(op) == [call |-> "issue", op |-> op]
WaitFor(k) == [call |-> "wait", of |-> k]

Contention ==
  (c1 :> << Op("Gemm"), Op("Mvin"), WaitFor(1), WaitFor(2) >>)
  @@ (c2 :> << Op("Gemm"), Op("Mvin"), Op("Gemm"), WaitFor(2) >>)
  @@ (scheduler :> << Op("Gemm"), Op("Drain"), WaitFor(1) >>)

MCScripts == {Contention, ScheduleScript}

(* What the proofs about the schedule start from is true of the list. *)
ASSUME OrderAssumption == HasScheduler /\ CallsFollowOrder /\ WaitsSuffice /\ WaitsForAll
=============================================================================
