----------------------------- MODULE ScheduleC -----------------------------
(***************************************************************************)
(* The hand-written order of testbench/scheduling/scheduler_c.h: 72        *)
(* instructions, each issued after the ones it names have completed.  One  *)
(* thread, scheduler, makes these calls through the interface of IssuePort *)
(* in a script of its own.                                                 *)
(*                                                                         *)
(* An entry is <<instruction, after>>.  The instruction at place i of the  *)
(* order has id i.                                                         *)
(***************************************************************************)
EXTENDS IssuePort, SequencesExt

CONSTANT scheduler

(* The test's three tiles in each dimension *)
Dims == 0 .. 2

(* Mutant: issue_gemm leaves out psum_index. *)
G_NoPsum(mt, kt, nt, p) ==
  [op |-> "Gemm", of |-> <<mt, nt>>, kt |-> kt, psum |-> 0, is_flush |-> FALSE]

(* mvin of a tile of A or of B, gemm, its flush, drain and mvout *)
A(mt, kt)        == [op |-> "Mvin",  of |-> <<"A", mt, kt>>]
B(kt, nt)        == [op |-> "Mvin",  of |-> <<"B", kt, nt>>]
G(mt, kt, nt, p) == [op |-> "Gemm",  of |-> <<mt, nt>>, kt |-> kt, psum |-> p, is_flush |-> FALSE]
F(mt, nt, p)     == [op |-> "Gemm",  of |-> <<mt, nt>>, psum |-> p, is_flush |-> TRUE]
D(mt, nt, p)     == [op |-> "Drain", of |-> <<mt, nt>>, psum |-> p]
C(mt, nt)        == [op |-> "Mvout", of |-> <<mt, nt>>]

Tile_0_0 == <<
  <<A(0, 0), << >>>>, <<B(0, 0), << >>>>, <<A(0, 1), << >>>>,
  <<G(0, 0, 0, 0), <<A(0, 0), B(0, 0)>>>>,
  <<B(1, 0), << >>>>, <<A(0, 2), << >>>>,
  <<G(0, 1, 0, 0), <<A(0, 1), B(1, 0)>>>>,
  <<B(2, 0), << >>>>, <<A(1, 0), << >>>>,
  <<G(0, 2, 0, 0), <<A(0, 2), B(2, 0)>>>>,
  <<A(1, 2), << >>>>, <<A(1, 1), << >>>>,
  <<F(0, 0, 0), << >>>> >>

Tile_1_0 == <<
  <<G(1, 0, 0, 1), <<A(1, 0), B(0, 0)>>>>,
  <<B(0, 2), << >>>>,
  <<G(1, 1, 0, 1), <<A(1, 1), B(1, 0)>>>>,
  <<B(1, 2), << >>>>,
  <<G(1, 2, 0, 1), <<A(1, 2), B(2, 0)>>>>,
  <<F(1, 0, 1), << >>>>,
  <<B(2, 2), << >>>>,
  <<D(0, 0, 0), <<G(1, 1, 0, 1), F(0, 0, 0)>>>> >>

Tile_0_2 == <<
  <<G(0, 1, 2, 0), <<A(0, 1), B(1, 2)>>>>,
  <<A(2, 1), <<G(0, 1, 2, 0)>>>>,
  <<G(0, 0, 2, 0), <<A(0, 0), B(0, 2)>>>>,
  <<G(0, 2, 2, 0), <<A(0, 2), B(2, 2)>>>>,
  <<F(0, 2, 0), <<G(0, 2, 2, 0)>>>>,
  <<A(2, 0), << >>>>, <<B(1, 1), << >>>>,
  <<D(1, 0, 1), <<F(1, 0, 1)>>>> >>

Tile_1_2 == <<
  <<G(1, 0, 2, 1), <<A(1, 0), B(0, 2)>>>>,
  <<D(0, 2, 0), <<G(1, 0, 2, 1), F(0, 2, 0)>>>>,
  <<G(1, 1, 2, 1), <<A(1, 1), B(1, 2)>>>>,
  <<A(2, 2), <<G(1, 1, 2, 1)>>>>,
  <<G(1, 2, 2, 1), <<A(1, 2), B(2, 2)>>>>,
  <<F(1, 2, 1), <<G(1, 2, 2, 1)>>>>,
  <<B(0, 1), << >>>> >>

Tile_2_0 == <<
  <<G(2, 0, 0, 0), <<A(2, 0), B(0, 0)>>>>,
  <<D(1, 2, 1), <<G(2, 0, 0, 0), F(1, 2, 1)>>>>,
  <<G(2, 1, 0, 0), <<A(2, 1), B(1, 0)>>>>,
  <<B(2, 1), <<G(2, 1, 0, 0)>>>>,
  <<G(2, 2, 0, 0), <<A(2, 2), B(2, 0)>>>>,
  <<F(2, 0, 0), <<G(2, 2, 0, 0)>>>> >>

Tile_0_1 == <<
  <<G(0, 0, 1, 1), <<A(0, 0), B(0, 1)>>>>,
  <<D(2, 0, 0), <<F(2, 0, 0)>>>>,
  <<G(0, 1, 1, 1), <<A(0, 1), B(1, 1)>>>>,
  <<G(0, 2, 1, 1), <<A(0, 2), B(2, 1)>>>>,
  <<F(0, 1, 1), << >>>>,
  <<C(1, 0), <<G(0, 2, 1, 1), D(1, 0, 1)>>>>,
  <<C(0, 0), <<D(0, 0, 0)>>>> >>

Tile_1_1 == <<
  <<G(1, 0, 1, 0), <<A(1, 0), B(0, 1)>>>>,
  <<D(0, 1, 1), <<F(0, 1, 1)>>>>,
  <<G(1, 1, 1, 0), <<A(1, 1), B(1, 1)>>>>,
  <<G(1, 2, 1, 0), <<A(1, 2), B(2, 1)>>>>,
  <<F(1, 1, 0), << >>>>,
  <<C(0, 2), <<G(1, 2, 1, 0), D(0, 2, 0)>>>>,
  <<C(1, 2), <<D(1, 2, 1)>>>> >>

Tile_2_1 == <<
  <<G(2, 0, 1, 1), <<A(2, 0), B(0, 1)>>>>,
  <<D(1, 1, 0), <<G(2, 0, 1, 1), F(1, 1, 0)>>>>,
  <<G(2, 1, 1, 1), <<A(2, 1), B(1, 1)>>>>,
  <<C(2, 0), <<G(2, 1, 1, 1), D(2, 0, 0)>>>>,
  <<C(0, 1), <<D(0, 1, 1)>>>>,
  <<G(2, 2, 1, 1), <<A(2, 2), B(2, 1)>>>>,
  <<F(2, 1, 1), << >>>> >>

Tile_2_2 == <<
  <<G(2, 0, 2, 0), <<A(2, 0), B(0, 2)>>>>,
  <<G(2, 1, 2, 0), <<A(2, 1), B(1, 2)>>>>,
  <<G(2, 2, 2, 0), <<A(2, 2), B(2, 2)>>>>,
  <<C(1, 1), <<G(2, 2, 2, 0), D(1, 1, 0)>>>>,
  <<F(2, 2, 0), << >>>>,
  <<D(2, 1, 1), <<F(2, 1, 1)>>>>,
  <<C(2, 1), <<D(2, 1, 1)>>>>,
  <<D(2, 2, 0), <<F(2, 2, 0)>>>>,
  <<C(2, 2), <<D(2, 2, 0)>>>> >>

Order == Tile_0_0 \o Tile_1_0 \o Tile_0_2 \o Tile_1_2 \o Tile_2_0
           \o Tile_0_1 \o Tile_1_1 \o Tile_2_1 \o Tile_2_2

Instr(id) == Order[id][1]

IdOf(instr) == CHOOSE id \in DOMAIN Order : Instr(id) = instr

LastWait == <<C(1, 0), C(0, 0), C(0, 2), C(1, 2), C(2, 0), C(0, 1), C(1, 1), C(2, 1), C(2, 2)>>

(* The calls of schedule(): an entry waits for what it names, then issues. *)
(* The issue of entry i is call CallOf(i), behind the waits up to it.      *)
CallOf(i) == i + FoldSeq(LAMBDA e, n : n + Len(e[2]), 0, SubSeq(Order, 1, i))

WaitCalls(after) == [j \in 1 .. Len(after) |-> [call |-> "wait", of |-> CallOf(IdOf(after[j]))]]

ScheduleCalls ==
  FlattenSeq([i \in DOMAIN Order |->
                Append(WaitCalls(Order[i][2]), [call |-> "issue", op |-> Instr(i).op])])
  \o WaitCalls(LastWait)

(* SchedulerC's thread makes these calls, and no other thread any. *)
ScheduleScript == [c \in Callers |-> IF c = scheduler THEN ScheduleCalls ELSE << >>]

(* This is a way to use the interface. *)
HasScheduler == scheduler \in Callers /\ ScheduleScript \in Scripts

RunsSchedule == script = ScheduleScript
-----------------------------------------------------------------------------
Finished(instr) ==
  \E id \in Ids : Instr(id) = instr /\ id \notin Unfinished(instr.op)

(* What an instruction works on must be there before it begins. *)
Inputs(instr) ==
  CASE instr.op = "Mvin"  -> {}
    [] instr.op = "Gemm"  -> IF instr.is_flush
                             THEN {G(instr.of[1], kt, instr.of[2], instr.psum) : kt \in Dims}
                             ELSE {A(instr.of[1], instr.kt), B(instr.kt, instr.of[2])}
    [] instr.op = "Drain" -> {F(instr.of[1], instr.of[2], instr.psum)}
    [] instr.op = "Mvout" -> {d \in {D(instr.of[1], instr.of[2], p) : p \in 0 .. 1} :
                                \E i \in DOMAIN Order : Instr(i) = d}

(* The list of calls is the order: entry i is issued by call CallOf(i),    *)
(* behind the entries before it, and nothing else is issued.               *)
CallsFollowOrder ==
  /\ \A i \in DOMAIN Order :
       /\ CallOf(i) \in DOMAIN ScheduleCalls
       /\ ScheduleCalls[CallOf(i)] = [call |-> "issue", op |-> Instr(i).op]
  /\ \A i, j \in DOMAIN Order : i < j => CallOf(i) < CallOf(j)
  /\ \A k \in DOMAIN ScheduleCalls :
       ScheduleCalls[k].call = "issue" => \E i \in DOMAIN Order : CallOf(i) = k

(* schedule() waits for entry i before its call k. *)
AwaitedBefore(k, i) ==
  \E w \in 1 .. k - 1 : ScheduleCalls[w] = [call |-> "wait", of |-> CallOf(i)]

(* Entry i is in the FIFO of entry j, not behind it. *)
AheadInFifo(i, j) == i <= j /\ Instr(i).op = Instr(j).op /\ Instr(j).op \in OneAtATime

(* An entry waits for each of its inputs, unless it is behind it in its    *)
(* FIFO.                                                                   *)
WaitsSuffice ==
  \A j \in DOMAIN Order : \A x \in Inputs(Instr(j)) :
    \E i \in 1 .. j - 1 :
      Instr(i) = x /\ (AwaitedBefore(CallOf(j), i) \/ AheadInFifo(i, j))

(* The entries are the instructions of the product, and each is waited for *)
(* or ahead in its FIFO of one that is.                                    *)
Entries == {Instr(i) : i \in DOMAIN Order}

WaitsForAll ==
  /\ \A i, j \in Dims : {A(i, j), B(i, j), C(i, j)} \subseteq Entries
  /\ \A mt, nt \in Dims : \E p \in 0 .. 1 :
       {F(mt, nt, p), D(mt, nt, p)} \cup {G(mt, kt, nt, p) : kt \in Dims} \subseteq Entries
  /\ Len(Order) = 5 * Cardinality(Dims \X Dims) + Cardinality(Dims \X Dims \X Dims)
  /\ \A i \in DOMAIN Order : \E j \in DOMAIN Order :
       AwaitedBefore(Len(ScheduleCalls) + 1, j) /\ (i = j \/ AheadInFifo(i, j))

(* No instruction begins before those whose results it works on are        *)
(* complete: with no scoreboard, the waits written by hand and the order   *)
(* of each FIFO are all that ensures it.                                   *)
OperandsReady ==
  RunsSchedule =>
    \A op \in Ops : \A id \in under_way[op] :
      \A x \in Inputs(Instr(id)) : Finished(x)

(* When a gemm accumulates into a buffer, every tile accumulated there     *)
(* before it has been given to the exec controller to drain.               *)
BufferHandedOver ==
  RunsSchedule =>
    \A id \in under_way["Gemm"] : \A i \in 1 .. id - 1 :
      LET instr == Instr(id)
          prev  == Instr(i)
      IN  prev.op = "Gemm" /\ prev.psum = instr.psum /\ prev.of # instr.of =>
            \E d \in 1 .. id - 1 : Instr(d) = D(prev.of[1], prev.of[2], prev.psum)

(* schedule() returns once every instruction of the product has completed  *)
(* ("returns once all of them have completed", scheduler_base.h:23), each  *)
(* of them issued once, though it waits at the end for the mvouts only.    *)
ReturnsWhenComplete ==
  RunsSchedule /\ at[scheduler] > Len(ScheduleCalls) =>
    /\ \A i, j \in Dims : Finished(A(i, j)) /\ Finished(B(i, j)) /\ Finished(C(i, j))
    /\ \A mt, nt \in Dims : \E p \in 0 .. 1 :
         /\ Finished(F(mt, nt, p)) /\ Finished(D(mt, nt, p))
         /\ \A kt \in Dims : Finished(G(mt, kt, nt, p))
    /\ next_instr_id = 5 * Cardinality(Dims \X Dims) + Cardinality(Dims \X Dims \X Dims)
=============================================================================
