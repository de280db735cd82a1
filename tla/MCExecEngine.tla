---------------------------- MODULE MCExecEngine ----------------------------
(* A program of ExecEngine for TLC: a chain of two gemms on psum 0, then a *)
(* chain on psum 1 that may accumulate while psum 0 is drained, and then   *)
(* scheduler C's overlap: another chain on psum 1 behind the drain of that *)
(* buffer, which does not wait for it.                                     *)
EXTENDS ExecEngine

Gemm(buf)  == [op |-> "gemm", psum_index |-> buf, is_flush |-> FALSE]
Flush(buf) == [op |-> "gemm", psum_index |-> buf, is_flush |-> TRUE]
Drain(buf) == [op |-> "drain", psum_index |-> buf, is_flush |-> FALSE]

MCProgram == << Gemm(0), Gemm(0), Flush(0), Drain(0),
                Gemm(1), Flush(1), Drain(1),
                Gemm(1), Flush(1), Drain(1) >>

(* Scheduler C issues a drain after its chain's flush and the drain before *)
(* it, and the buffer's next gemm without waiting for the drain.           *)
MCAfter == [NoOverlap EXCEPT ![7] = {4, 6}, ![8] = {}, ![9] = {}, ![10] = {9}]

(* Nothing else uses the bank of C while the gemms follow the drain.       *)
MCMaxQueuedC == [id \in Drains |-> IF id = 7 THEN 0 ELSE 1]
=============================================================================
