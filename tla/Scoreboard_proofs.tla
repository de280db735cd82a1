-------------------------- MODULE Scoreboard_proofs --------------------------
(***************************************************************************)
(* Theorems about Scoreboard, for every set of programs and every size of  *)
(* pending and of the FIFOs.                                               *)
(*                                                                         *)
(* ConflictsOrdered is not inductive: try_dispatch looks for conflicts in  *)
(* pending and in_flight only, so it rests on these two vectors holding    *)
(* every instruction issued and not complete, whichever thread changed     *)
(* them last, and on the FIFOs holding an instruction once.  BoardInv      *)
(* states that.                                                            *)
(***************************************************************************)
EXTENDS Scoreboard, FiniteSetTheorems, TLAPS

(* The scheduler's thread is at an instruction of the program whenever it  *)
(* waits, and only then can progress wake it.                              *)
ThreadState ==
  /\ next_op \in 1 .. Len(program) + 1
  /\ waiting => next_op \in Ops
  /\ "run_thread" \in runnable => waiting

(* Of the instructions issued so far, pending holds those that were not    *)
(* dispatched and in_flight at least those that are not complete.          *)
BoardState ==
  /\ pending \subseteq Ops /\ in_flight \subseteq Ops
  /\ phase \in [Ops -> Phases]
  /\ \A op \in pending : phase[op] = "none" /\ op < next_op
  /\ \A op \in Commands : phase[op] = "none" /\ op < next_op => op \in pending
  /\ \A op \in Ops : op >= next_op => phase[op] = "none"
  /\ \A op \in Ops : phase[op] \notin {"none", "complete"} => op \in in_flight

(* A FIFO holds instructions of its kind that wait in it, each once. *)
QueueState ==
  /\ instr_queue \in [Kinds -> Seq(Ops)]
  /\ \A k \in Kinds : \A n \in 1 .. Len(instr_queue[k]) :
       phase[instr_queue[k][n]] = "queued" /\ program[instr_queue[k][n]].kind = k
  /\ \A k \in Kinds : \A m, n \in 1 .. Len(instr_queue[k]) :
       instr_queue[k][m] = instr_queue[k][n] => m = n

BoardInv ==
  /\ program \in Seq(Op)
  /\ ThreadState
  /\ BoardState
  /\ QueueState
  /\ ConflictsOrdered
  /\ FenceMeansDone
-----------------------------------------------------------------------------
(* The invariant holds before the first instruction is issued. *)
LEMMA InitBoard == Init => BoardInv
<1> SUFFICES ASSUME Init PROVE BoardInv
  OBVIOUS
<1>1. program \in Seq(Op)
  BY ProgramAssumption DEF Init
<1>2. ThreadState
  BY <1>1 DEF Init, ThreadState, Ops
<1>3. BoardState
  BY <1>1 DEF Init, BoardState, Ops, Commands, Phases
<1>4. QueueState
  BY <1>1 DEF Init, QueueState
<1>5. ConflictsOrdered
  BY DEF Init, ConflictsOrdered, Commands
<1>6. FenceMeansDone
  BY <1>1 DEF Init, FenceMeansDone, Ops
<1>7. QED
  BY <1>1, <1>2, <1>3, <1>4, <1>5, <1>6 DEF BoardInv

(* Conflicts are symmetric. *)
LEMMA ConflictSymmetric ==
  ASSUME NEW a, NEW b, ops_conflict(a, b) PROVE ops_conflict(b, a)
  BY DEF ops_conflict

(* What a thread hands to try_dispatch: the vectors with everything issued *)
(* and not complete in one of them.                                        *)
Covers(queue, flight, issued) ==
  /\ queue \subseteq Ops /\ flight \subseteq Ops
  /\ \A op \in queue : phase[op] = "none" /\ op < issued
  /\ \A op \in Commands : phase[op] = "none" /\ op < issued => op \in queue
  /\ \A op \in Ops : op >= issued => phase[op] = "none"
  /\ \A op \in Ops : phase[op] \notin {"none", "complete"} => op \in flight

(* try_dispatch on vectors that cover what is not complete leaves the board *)
(* in order.                                                                *)
LEMMA DispatchKeepsBoard ==
  ASSUME BoardInv, NEW queue, NEW flight, Covers(queue, flight, next_op'),
         next_op' \in 1 .. Len(program) + 1,
         try_dispatch(queue, flight), program' = program
  PROVE  BoardState' /\ QueueState' /\ ConflictsOrdered'
         /\ \A op \in Ops : phase[op] = "complete" => phase'[op] = "complete"
<1> DEFINE taken == Taken(queue, flight)
           ofKind(k) == {op \in taken : program[op].kind = k}
<1>1. /\ Ops' = Ops /\ Commands' = Commands
      /\ Ops \subseteq Nat
      /\ phase \in [Ops -> Phases]
  BY DEF BoardInv, BoardState, Ops, Commands
<1>2. taken \subseteq queue /\ \A j \in taken : ~ blocked(j, queue, flight)
  BY DEF Taken, Unblocked
<1>3. /\ pending' = queue \ taken
      /\ in_flight' = flight \cup taken
      /\ phase' = [op \in Ops |-> IF op \in taken THEN "queued" ELSE phase[op]]
  BY DEF try_dispatch
<1>4. PICK dispatched \in [Kinds -> UNION {InOrder(ofKind(k)) : k \in Kinds}] :
        /\ \A k \in Kinds : dispatched[k] \in InOrder(ofKind(k))
        /\ instr_queue' = [k \in Kinds |-> instr_queue[k] \o dispatched[k]]
  BY DEF try_dispatch
<1>5. taken \subseteq Ops /\ \A op \in taken : phase[op] = "none"
  BY <1>2 DEF Covers
<1> HIDE DEF taken
<1>6. BoardState'
  <2>1. pending' \subseteq Ops /\ in_flight' \subseteq Ops
    BY <1>3, <1>5 DEF Covers
  <2>2. phase' \in [Ops -> Phases]
    BY <1>1, <1>3 DEF Phases
  <2>3. \A op \in pending' : phase'[op] = "none" /\ op < next_op'
    BY <1>3, <2>1 DEF Covers
  <2>4. \A op \in Commands : phase'[op] = "none" /\ op < next_op' => op \in pending'
    BY <1>3 DEF Covers, Commands
  <2>5. \A op \in Ops : op >= next_op' => phase'[op] = "none"
    <3>1. \A op \in taken : op < next_op'
      BY <1>2 DEF Covers
    <3>2. next_op' \in Nat
      BY DEF BoardInv
    <3>3. \A op \in Ops : op >= next_op' => op \notin taken
      BY <3>1, <3>2, <1>1
    <3>4. QED
      BY <3>3, <1>3 DEF Covers
  <2>6. \A op \in Ops : phase'[op] \notin {"none", "complete"} => op \in in_flight'
    BY <1>3 DEF Covers
  <2>7. QED
    BY <2>1, <2>2, <2>3, <2>4, <2>5, <2>6, <1>1 DEF BoardState
<1>7. QueueState'
  <2>1. ASSUME NEW k \in Kinds
        PROVE  /\ Cardinality(ofKind(k)) \in Nat
               /\ dispatched[k] \in Seq(Ops)
               /\ \A i \in 1 .. Len(dispatched[k]) : dispatched[k][i] \in ofKind(k)
               /\ \A i, j \in 1 .. Len(dispatched[k]) :
                    i < j => dispatched[k][i] < dispatched[k][j]
    <3>1. IsFiniteSet(Ops)
      BY FS_Interval DEF Ops, BoardInv
    <3>2. ofKind(k) \subseteq Ops
      BY <1>5
    <3>3. Cardinality(ofKind(k)) \in Nat
      BY <3>1, <3>2, FS_Subset, FS_CardinalityType
    <3>4. dispatched[k] \in InOrder(ofKind(k))
      BY <1>4
    <3>5. /\ dispatched[k] \in [1 .. Cardinality(ofKind(k)) -> ofKind(k)]
          /\ \A i, j \in DOMAIN dispatched[k] :
               i < j => dispatched[k][i] < dispatched[k][j]
      BY <3>4 DEF InOrder
    <3> HIDE DEF ofKind
    <3>6. dispatched[k] \in [1 .. Cardinality(ofKind(k)) -> Ops]
      BY <3>2, <3>5
    <3>7. QED
      BY <3>3, <3>5, <3>6
  <2>2. ASSUME NEW k \in Kinds
        PROVE  /\ instr_queue[k] \in Seq(Ops)
               /\ dispatched[k] \in Seq(Ops)
               /\ instr_queue'[k] = instr_queue[k] \o dispatched[k]
    <3>1. instr_queue[k] \in Seq(Ops)
      BY DEF BoardInv, QueueState
    <3>2. QED
      BY <3>1, <1>4, <2>1
  <2>3. instr_queue' \in [Kinds -> Seq(Ops)]
    BY <1>4, <2>2
  <2>4. ASSUME NEW k \in Kinds, NEW n \in 1 .. Len(instr_queue'[k])
        PROVE  phase'[instr_queue'[k][n]] = "queued"
               /\ program[instr_queue'[k][n]].kind = k
    <3>1. CASE n <= Len(instr_queue[k])
      <4>1. instr_queue'[k][n] = instr_queue[k][n] /\ instr_queue[k][n] \in Ops
        BY <2>2, <3>1
      <4>2. phase[instr_queue[k][n]] = "queued" /\ program[instr_queue[k][n]].kind = k
        BY <3>1, <2>2 DEF BoardInv, QueueState
      <4>3. QED
        BY <4>1, <4>2, <1>3, <1>5
    <3>2. CASE n > Len(instr_queue[k])
      <4>1. n - Len(instr_queue[k]) \in 1 .. Len(dispatched[k])
            /\ instr_queue'[k][n] = dispatched[k][n - Len(instr_queue[k])]
        BY <2>2, <3>2
      <4>2. instr_queue'[k][n] \in ofKind(k)
        BY <4>1, <2>1
      <4>3. QED
        BY <4>2, <1>3, <1>5
    <3>3. QED
      BY <3>1, <3>2, <2>2
  <2>5. ASSUME NEW k \in Kinds, NEW m \in 1 .. Len(instr_queue'[k]),
               NEW n \in 1 .. Len(instr_queue'[k]),
               instr_queue'[k][m] = instr_queue'[k][n]
        PROVE  m = n
    <3> DEFINE old == instr_queue[k]
               new == dispatched[k]
    <3>1. /\ old \in Seq(Ops) /\ new \in Seq(Ops) /\ instr_queue'[k] = old \o new
          /\ Len(new) \in Nat /\ Len(old) \in Nat
      BY <2>2
    <3>2. \A x \in 1 .. Len(old) : phase[old[x]] = "queued"
      BY DEF BoardInv, QueueState
    <3>3. \A x \in 1 .. Len(new) : new[x] \in Nat /\ phase[new[x]] = "none"
      <4>1. \A x \in 1 .. Len(new) : new[x] \in taken
        BY <2>1
      <4>2. QED
        BY <4>1, <1>5, <1>1
    <3>4. \A x, y \in 1 .. Len(old) : old[x] = old[y] => x = y
      BY DEF BoardInv, QueueState
    <3>5. \A x, y \in 1 .. Len(new) : new[x] = new[y] => x = y
      <4>1. \A x, y \in 1 .. Len(new) : x < y => new[x] < new[y]
        BY <2>1
      <4>2. \A x, y \in 1 .. Len(new) : x # y => x < y \/ y < x
        BY <3>1
      <4> HIDE DEF new
      <4>3. QED
        BY <4>1, <4>2, <3>3
    <3> DEFINE all == old \o new
    <3>6. /\ m \in 1 .. Len(old) + Len(new) /\ n \in 1 .. Len(old) + Len(new)
          /\ all[m] = all[n]
      BY <3>1, <2>5
    <3>7. \A x \in 1 .. Len(old) + Len(new) :
            all[x] = IF x <= Len(old) THEN old[x] ELSE new[x - Len(old)]
      BY <3>1
    <3> HIDE DEF old, new, all
    <3>8. CASE m <= Len(old) /\ n <= Len(old)
      BY <3>1, <3>4, <3>6, <3>7, <3>8
    <3>9. CASE m > Len(old) /\ n > Len(old)
      <4>1. /\ m - Len(old) \in 1 .. Len(new) /\ n - Len(old) \in 1 .. Len(new)
            /\ new[m - Len(old)] = new[n - Len(old)]
        BY <3>1, <3>6, <3>7, <3>9
      <4>2. m - Len(old) = n - Len(old)
        BY <4>1, <3>5
      <4>3. QED
        BY <4>2, <3>1
    <3>10. ASSUME NEW x \in 1 .. Len(old) + Len(new)
           PROVE  phase[all[x]] = IF x <= Len(old) THEN "queued" ELSE "none"
      <4>1. CASE x <= Len(old)
        BY <3>1, <3>2, <3>7, <4>1
      <4>2. CASE x > Len(old)
        <5>1. x - Len(old) \in 1 .. Len(new) /\ all[x] = new[x - Len(old)]
          BY <3>1, <3>7, <4>2
        <5>2. QED
          BY <3>1, <3>3, <4>2, <5>1
      <4>3. QED
        BY <3>1, <4>1, <4>2
    <3>11. (m <= Len(old)) = (n <= Len(old))
      BY <3>6, <3>10
    <3>12. QED
      BY <3>8, <3>9, <3>10, <3>11, <3>6, <3>1
  <2>6. QED
    BY <2>3, <2>4, <2>5, <1>1 DEF QueueState
<1>8. ConflictsOrdered'
  <2> SUFFICES ASSUME NEW i \in Commands, NEW j \in Commands,
                      i < j, ops_conflict(i, j), phase'[j] # "none"
               PROVE  phase'[i] = "complete"
    BY <1>1 DEF ConflictsOrdered, ops_conflict
  <2>1. i \in Ops /\ j \in Ops
    BY DEF Commands
  <2>2. CASE j \in taken
    <3>1. i \notin flight /\ i \notin queue
      BY <2>1, <2>2, <1>2, ConflictSymmetric DEF blocked
    <3>2. i < next_op' /\ next_op' \in Nat
      BY <2>1, <2>2, <1>1, <1>2 DEF Covers, BoardInv
    <3>3. phase[i] = "complete"
      BY <2>1, <3>1, <3>2, <1>1 DEF Covers, Phases
    <3>4. QED
      BY <3>3, <2>1, <1>3, <1>5
  <2>3. CASE j \notin taken
    <3>1. phase[i] = "complete"
      BY <2>1, <2>3, <1>3 DEF BoardInv, ConflictsOrdered
    <3>2. QED
      BY <3>1, <2>1, <1>3, <1>5
  <2>4. QED
    BY <2>2, <2>3
<1>9. QED
  BY <1>3, <1>5, <1>6, <1>7, <1>8

(* A fence is passed only with both vectors empty, and what is complete    *)
(* stays complete.                                                         *)
LEMMA FenceKept ==
  ASSUME BoardInv, program' = program, BoardState',
         \A op \in Ops : phase[op] = "complete" => phase'[op] = "complete",
         next_op' = next_op
           \/ /\ next_op' = next_op + 1
              /\ program[next_op].kind = "fence" => pending' = {} /\ in_flight' = {}
  PROVE  FenceMeansDone'
<1>1. Ops' = Ops /\ Commands' = Commands /\ Commands \subseteq Ops
      /\ Ops \subseteq Nat /\ next_op \in Nat
  BY DEF Ops, Commands, BoardInv, ThreadState
<1> SUFFICES ASSUME NEW f \in Ops, program[f].kind = "fence", f < next_op',
                    NEW op \in Commands, op < f
             PROVE  phase'[op] = "complete"
  BY <1>1 DEF FenceMeansDone
<1>2. CASE f < next_op
  <2>1. phase[op] = "complete"
    BY <1>2 DEF BoardInv, FenceMeansDone
  <2>2. QED
    BY <2>1, <1>1
<1>3. CASE f >= next_op
  <2>1. f = next_op /\ next_op' = next_op + 1
    BY <1>1, <1>3
  <2>2. pending' = {} /\ in_flight' = {}
    <3>1. next_op' # next_op
      BY <2>1, <1>1
    <3>2. QED
      BY <3>1, <2>1
  <2>3. op < next_op'
    BY <2>1, <1>1
  <2>4. phase'[op] # "none"
    BY <2>2, <2>3, <1>1 DEF BoardState
  <2>5. QED
    BY <2>2, <2>4, <1>1 DEF BoardState
<1>4. QED
  BY <1>2, <1>3, <1>1

(* Every call of try_dispatch, by either thread, keeps the invariant. *)
LEMMA DispatchKeepsInv ==
  ASSUME BoardInv, NEW queue, NEW flight, Covers(queue, flight, next_op'),
         try_dispatch(queue, flight), program' = program, ThreadState',
         next_op' = next_op
           \/ /\ next_op' = next_op + 1
              /\ program[next_op].kind = "fence" => pending' = {} /\ in_flight' = {}
  PROVE  BoardInv'
<1>1. next_op' \in 1 .. Len(program) + 1
  BY DEF ThreadState
<1>2. BoardState' /\ QueueState' /\ ConflictsOrdered'
      /\ \A op \in Ops : phase[op] = "complete" => phase'[op] = "complete"
  BY <1>1, DispatchKeepsBoard
<1>3. FenceMeansDone'
  BY <1>2, FenceKept
<1>4. QED
  BY <1>2, <1>3 DEF BoardInv

(* The vectors that issue, fence and dispatch_loop hand to try_dispatch     *)
(* cover everything not complete.                                           *)
LEMMA FlightCovers ==
  ASSUME BoardInv, NEW flight,
         flight = in_flight \/ flight = StillFlying
  PROVE  /\ Covers(pending, flight, next_op)
         /\ next_op \in Ops /\ program[next_op].kind = "fence" =>
              Covers(pending, flight, next_op + 1)
         /\ next_op \in Ops => Covers(pending \cup {next_op}, flight, next_op + 1)
<1>1. /\ flight \subseteq Ops
      /\ \A op \in Ops : phase[op] \notin {"none", "complete"} => op \in flight
  BY DEF BoardInv, BoardState, StillFlying, is_complete
<1>2. Ops \subseteq Nat /\ next_op \in Nat /\ Commands \subseteq Ops
  BY DEF Ops, Commands, BoardInv, ThreadState
<1>3. Covers(pending, flight, next_op)
  BY <1>1 DEF Covers, BoardInv, BoardState
<1>4. ASSUME next_op \in Ops PROVE \A op \in Ops : op < next_op + 1 <=> op < next_op \/ op = next_op
  BY <1>2
<1>5. \A op \in Ops : op >= next_op + 1 => op >= next_op
  BY <1>2
<1>6. ASSUME next_op \in Ops, program[next_op].kind = "fence"
      PROVE  Covers(pending, flight, next_op + 1)
  <2>1. \A op \in Commands : op # next_op
    BY <1>6 DEF Commands
  <2>2. QED
    BY <1>1, <1>2, <1>4, <1>5, <1>6, <2>1 DEF Covers, BoardInv, BoardState
<1>7. ASSUME next_op \in Ops
      PROVE  Covers(pending \cup {next_op}, flight, next_op + 1)
  <2>1. phase[next_op] = "none"
    BY <1>2, <1>7 DEF BoardInv, BoardState
  <2>2. QED
    BY <1>1, <1>2, <1>4, <1>5, <1>7, <2>1 DEF Covers, BoardInv, BoardState
<1>8. QED
  BY <1>3, <1>6, <1>7
-----------------------------------------------------------------------------
(* Each step of the scheduler's thread, dispatch_loop and the kernel keeps *)
(* the invariant.                                                          *)

(* issue with room in pending *)
LEMMA IssueKeeps == BoardInv /\ Issue => BoardInv'
<1> SUFFICES ASSUME BoardInv, Issue PROVE BoardInv'
  OBVIOUS
<1>1. /\ ~ waiting /\ next_op \in Ops /\ program[next_op].kind # "fence"
      /\ next_op' = next_op + 1 /\ program' = program
      /\ waiting' = waiting /\ runnable' = runnable
      /\ try_dispatch(pending \cup {next_op}, in_flight)
  BY DEF Issue
<1>2. Covers(pending \cup {next_op}, in_flight, next_op')
  BY <1>1, FlightCovers
<1>3. ThreadState'
  BY <1>1 DEF BoardInv, ThreadState, Ops
<1>4. QED
  BY <1>1, <1>2, <1>3, DispatchKeepsInv

(* reap_and_dispatch where the fence is decided afterwards, or not at all *)
LEMMA ReapKeeps ==
  ASSUME BoardInv, reap_and_dispatch, program' = program, ThreadState',
         next_op' = next_op
           \/ /\ next_op' = next_op + 1 /\ next_op \in Ops
              /\ program[next_op].kind = "fence"
              /\ pending' = {} /\ in_flight' = {}
  PROVE  BoardInv'
<1>1. Covers(pending, StillFlying, next_op')
  BY FlightCovers
<1>2. try_dispatch(pending, StillFlying)
  BY DEF reap_and_dispatch
<1>3. QED
  BY <1>1, <1>2, DispatchKeepsInv

(* The loop condition of fence decides where the thread is next. *)
LEMMA FenceDecidesThread ==
  ASSUME BoardInv, FenceDecides, program' = program, next_op \in Ops,
         runnable' \subseteq runnable, "run_thread" \notin runnable'
  PROVE  /\ ThreadState'
         /\ \/ next_op' = next_op
            \/ next_op' = next_op + 1 /\ pending' = {} /\ in_flight' = {}
  BY DEF BoardInv, FenceDecides, ThreadState, Ops

(* The first look of fence *)
LEMMA CallFenceKeeps == BoardInv /\ CallFence => BoardInv'
<1> SUFFICES ASSUME BoardInv, CallFence PROVE BoardInv'
  OBVIOUS
<1>1. /\ ~ waiting /\ next_op \in Ops /\ program[next_op].kind = "fence"
      /\ reap_and_dispatch /\ FenceDecides
      /\ program' = program /\ runnable' = runnable
  BY DEF CallFence
<1>2. "run_thread" \notin runnable'
  BY <1>1 DEF BoardInv, ThreadState
<1>3. QED
  BY <1>1, <1>2, FenceDecidesThread, ReapKeeps

(* The scheduler's thread after a wait *)
LEMMA RunThreadKeeps == BoardInv /\ RunThread => BoardInv'
<1> SUFFICES ASSUME BoardInv, RunThread PROVE BoardInv'
  OBVIOUS
<1>1. /\ "run_thread" \in runnable
      /\ runnable' = runnable \ {"run_thread"}
      /\ reap_and_dispatch
      /\ program' = program
      /\ IF program[next_op].kind = "fence"
         THEN FenceDecides
         ELSE waiting' = (Cardinality(pending') >= queue_depth) /\ next_op' = next_op
  BY DEF RunThread
<1>2. waiting /\ next_op \in Ops
  BY <1>1 DEF BoardInv, ThreadState
<1>3. CASE program[next_op].kind = "fence"
  BY <1>1, <1>2, <1>3, FenceDecidesThread, ReapKeeps
<1>4. CASE program[next_op].kind # "fence"
  <2>1. ThreadState'
    BY <1>1, <1>2, <1>4 DEF BoardInv, ThreadState, Ops
  <2>2. QED
    BY <1>1, <1>4, <2>1, ReapKeeps
<1>5. QED
  BY <1>3, <1>4

(* One turn of dispatch_loop *)
LEMMA DispatchLoopKeeps == BoardInv /\ DispatchLoop => BoardInv'
<1> SUFFICES ASSUME BoardInv, DispatchLoop PROVE BoardInv'
  OBVIOUS
<1>1. /\ reap_and_dispatch /\ program' = program /\ next_op' = next_op
      /\ waiting' = waiting /\ runnable' \subseteq runnable
  BY DEF DispatchLoop
<1>2. ThreadState'
  BY <1>1 DEF BoardInv, ThreadState, Ops
<1>3. QED
  BY <1>1, <1>2, ReapKeeps

(* Waiting and waking leave the instructions alone. *)
LEMMA WaitKeeps ==
  ASSUME BoardInv, ThreadState',
         UNCHANGED <<program, next_op, pending, in_flight, instr_queue, phase>>
  PROVE  BoardInv'
<1>1. Ops' = Ops /\ Commands' = Commands
  BY DEF Ops, Commands
<1>2. BoardState'
  BY <1>1 DEF BoardInv, BoardState
<1>3. QueueState'
  BY <1>1 DEF BoardInv, QueueState
<1>4. ConflictsOrdered'
  BY <1>1 DEF BoardInv, ConflictsOrdered, ops_conflict
<1>5. FenceMeansDone'
  BY <1>1 DEF BoardInv, FenceMeansDone
<1>6. QED
  BY <1>2, <1>3, <1>4, <1>5 DEF BoardInv

(* issue with pending full *)
LEMMA IssueWaitsKeeps == BoardInv /\ IssueWaits => BoardInv'
<1> SUFFICES ASSUME BoardInv, IssueWaits PROVE BoardInv'
  OBVIOUS
<1>1. ThreadState'
  BY DEF BoardInv, ThreadState, IssueWaits, Ops
<1>2. QED
  BY <1>1, WaitKeeps DEF IssueWaits, machineVars

(* The kernel waking the waiting threads *)
LEMMA ProgressFiresKeeps == BoardInv /\ ProgressFires => BoardInv'
<1> SUFFICES ASSUME BoardInv, ProgressFires PROVE BoardInv'
  OBVIOUS
<1>1. /\ UNCHANGED <<program, next_op, waiting, pending, in_flight, instr_queue, phase>>
      /\ runnable' = {"dispatch_loop"} \cup (IF waiting THEN {"run_thread"} ELSE {})
  BY DEF ProgressFires, boardVars, machineVars
<1>2. ThreadState'
  BY <1>1 DEF BoardInv, ThreadState, Ops
<1>3. QED
  BY <1>1, <1>2, WaitKeeps
-----------------------------------------------------------------------------
(* The accelerator's steps move one instruction on from a phase in which   *)
(* it is in in_flight.                                                     *)
LEMMA PhaseMoves ==
  ASSUME BoardInv, NEW op \in Ops, NEW p \in {"begun", "read", "complete"},
         phase[op] \in {"queued", "begun", "read"},
         phase' = [phase EXCEPT ![op] = p],
         UNCHANGED <<program, next_op, waiting, runnable, pending, in_flight>>,
         QueueState'
  PROVE  BoardInv'
<1>1. Ops' = Ops /\ Commands' = Commands /\ Commands \subseteq Ops
  BY DEF Ops, Commands
<1>2. ThreadState'
  BY <1>1 DEF BoardInv, ThreadState
<1>3. /\ phase \in [Ops -> Phases]
      /\ \A o \in Ops : phase'[o] = IF o = op THEN p ELSE phase[o]
      /\ phase' \in [Ops -> Phases]
  BY DEF BoardInv, BoardState, Phases
<1>4. BoardState'
  BY <1>1, <1>3 DEF BoardInv, BoardState
<1>5. ConflictsOrdered'
  <2> SUFFICES ASSUME NEW i \in Commands, NEW j \in Commands,
                      i < j, ops_conflict(i, j), phase'[j] # "none"
               PROVE  phase'[i] = "complete"
    BY <1>1 DEF ConflictsOrdered, ops_conflict
  <2>1. phase[j] # "none"
    BY <1>1, <1>3
  <2>2. phase[i] = "complete"
    BY <2>1 DEF BoardInv, ConflictsOrdered
  <2>3. QED
    BY <2>2, <1>1, <1>3
<1>6. FenceMeansDone'
  <2>1. \A o \in Ops : phase[o] = "complete" => phase'[o] = "complete"
    BY <1>3
  <2>2. QED
    BY <2>1, <1>4, FenceKept
<1>7. QED
  BY <1>2, <1>4, <1>5, <1>6 DEF BoardInv

(* A controller taking the next instruction from its FIFO *)
LEMMA BeginKeeps == ASSUME BoardInv, NEW k \in Kinds, Begin(k) PROVE BoardInv'
<1> DEFINE q == instr_queue[k]
           op == Head(q)
<1>1. /\ q \in Seq(Ops) /\ q # << >>
      /\ instr_queue' = [instr_queue EXCEPT ![k] = Tail(q)]
      /\ phase' = [phase EXCEPT ![op] = "begun"]
      /\ UNCHANGED <<program, next_op, waiting, runnable, pending, in_flight>>
  BY DEF Begin, BoardInv, QueueState, boardVars
<1>2. /\ Len(q) \in Nat /\ Len(q) >= 1 /\ op = q[1] /\ op \in Ops
      /\ Tail(q) \in Seq(Ops) /\ Len(Tail(q)) = Len(q) - 1
      /\ \A n \in 1 .. Len(Tail(q)) : n + 1 \in 1 .. Len(q) /\ Tail(q)[n] = q[n + 1]
  BY <1>1
<1>3. phase[op] = "queued" /\ program[op].kind = k
  BY <1>2 DEF BoardInv, QueueState
<1>4. /\ \A n \in 1 .. Len(q) : phase[q[n]] = "queued" /\ program[q[n]].kind = k
      /\ \A m, n \in 1 .. Len(q) : q[m] = q[n] => m = n
  BY DEF BoardInv, QueueState
<1>5. phase \in [Ops -> Phases] /\ instr_queue \in [Kinds -> Seq(Ops)] /\ Ops' = Ops
  BY <1>1 DEF BoardInv, BoardState, QueueState, Ops
<1> HIDE DEF op, q
<1>6. QueueState'
  <2>1. /\ instr_queue'[k] = Tail(q)
        /\ \A l \in Kinds \ {k} : instr_queue'[l] = instr_queue[l]
        /\ instr_queue' \in [Kinds -> Seq(Ops)]
    BY <1>1, <1>2, <1>5
  <2>2. ASSUME NEW l \in Kinds, NEW n \in 1 .. Len(instr_queue'[l])
        PROVE  phase'[instr_queue'[l][n]] = "queued" /\ program[instr_queue'[l][n]].kind = l
    <3>1. CASE l = k
      <4>1. /\ n \in 1 .. Len(Tail(q)) /\ n + 1 \in 1 .. Len(q) /\ n + 1 # 1
            /\ instr_queue'[l][n] = q[n + 1]
        BY <2>1, <1>2, <3>1
      <4>2. q[n + 1] # op /\ q[n + 1] \in Ops
        BY <4>1, <1>1, <1>2, <1>4
      <4>3. QED
        BY <4>1, <4>2, <1>1, <1>4, <1>5, <3>1
    <3>2. CASE l # k
      <4>1. /\ instr_queue'[l][n] = instr_queue[l][n] /\ instr_queue[l][n] \in Ops
            /\ phase[instr_queue[l][n]] = "queued" /\ program[instr_queue[l][n]].kind = l
        BY <2>1, <3>2, <1>5 DEF BoardInv, QueueState
      <4>2. instr_queue[l][n] # op
        BY <4>1, <3>2, <1>3
      <4>3. QED
        BY <4>1, <4>2, <1>1, <1>5
    <3>3. QED
      BY <3>1, <3>2
  <2>3. ASSUME NEW l \in Kinds, NEW m \in 1 .. Len(instr_queue'[l]),
               NEW n \in 1 .. Len(instr_queue'[l]),
               instr_queue'[l][m] = instr_queue'[l][n]
        PROVE  m = n
    <3>1. CASE l = k
      BY <2>1, <2>3, <3>1, <1>2, <1>4
    <3>2. CASE l # k
      BY <2>1, <2>3, <3>2 DEF BoardInv, QueueState
    <3>3. QED
      BY <3>1, <3>2
  <2>4. program' = program
    BY <1>1
  <2>5. QED
    BY <2>1, <2>2, <2>3, <2>4, <1>5 DEF QueueState
<1>7. QED
  BY <1>1, <1>2, <1>3, <1>6, PhaseMoves

(* The accelerator executing an instruction *)
LEMMA MachineKeeps == ASSUME BoardInv, NEW op \in Ops, Machine(op) PROVE BoardInv'
<1>1. PICK p \in {"begun", "read", "complete"} :
        /\ phase[op] \in {"begun", "read"}
        /\ phase' = [phase EXCEPT ![op] = p]
        /\ UNCHANGED <<program, next_op, waiting, runnable, pending, in_flight, instr_queue>>
  BY DEF Machine, ReadCells, Complete, boardVars
<1>2. QueueState'
  <2>1. \A k \in Kinds : \A n \in 1 .. Len(instr_queue[k]) :
          instr_queue[k][n] \in Ops /\ instr_queue[k][n] # op
    BY <1>1 DEF BoardInv, QueueState
  <2>2. \A o \in Ops : o # op => phase'[o] = phase[o]
    BY <1>1 DEF BoardInv, BoardState
  <2>3. QueueState /\ Ops' = Ops /\ program' = program /\ instr_queue' = instr_queue
    BY <1>1 DEF BoardInv, Ops
  <2>4. \A k \in Kinds : \A n \in 1 .. Len(instr_queue[k]) :
          phase'[instr_queue[k][n]] = "queued" /\ program[instr_queue[k][n]].kind = k
    BY <2>1, <2>2, <2>3 DEF QueueState
  <2>5. QED
    BY <2>3, <2>4 DEF QueueState
<1>3. QED
  BY <1>1, <1>2, PhaseMoves

(* Every step keeps the invariant. *)
LEMMA BoardInductive == BoardInv /\ [Next]_vars => BoardInv'
<1> SUFFICES ASSUME BoardInv, [Next]_vars PROVE BoardInv'
  OBVIOUS
<1>1. CASE Scheduler
  BY <1>1, IssueKeeps, IssueWaitsKeeps, CallFenceKeeps, RunThreadKeeps DEF Scheduler
<1>2. CASE DispatchLoop
  BY <1>2, DispatchLoopKeeps
<1>3. CASE ProgressFires
  BY <1>3, ProgressFiresKeeps
<1>4. ASSUME NEW k \in Kinds, Begin(k) PROVE BoardInv'
  BY <1>4, BeginKeeps
<1>5. ASSUME NEW op \in Ops, Machine(op) PROVE BoardInv'
  BY <1>5, MachineKeeps
<1>6. CASE UNCHANGED vars
  <2>1. ThreadState'
    BY <1>6 DEF BoardInv, ThreadState, vars, boardVars, Ops
  <2>2. QED
    BY <1>6, <2>1, WaitKeeps DEF vars, boardVars, machineVars
<1>7. QED
  BY <1>1, <1>2, <1>3, <1>4, <1>5, <1>6 DEF Next

(* pending and in_flight together hold every instruction that was issued   *)
(* and is not complete, and the FIFOs each queued one once                 *)
(* (scoreboard.h, try_dispatch and reap_and_dispatch).                     *)
THEOREM BoardAlways == SafeSpec => []BoardInv
  BY InitBoard, BoardInductive, PTL DEF SafeSpec

(* No instruction is dispatched while an earlier one that it conflicts     *)
(* with is not complete, for every program and every interleaving of the   *)
(* scheduler's thread with dispatch_loop (scoreboard.h, blocked).          *)
THEOREM ConflictsAlwaysOrdered == SafeSpec => []ConflictsOrdered
<1>1. BoardInv => ConflictsOrdered
  BY DEF BoardInv
<1>2. QED
  BY <1>1, BoardAlways, PTL

(* When fence returns, everything issued before it is complete             *)
(* (scoreboard.h, fence).                                                  *)
THEOREM FenceWaitsForAll == SafeSpec => []FenceMeansDone
<1>1. BoardInv => FenceMeansDone
  BY DEF BoardInv
<1>2. QED
  BY <1>1, BoardAlways, PTL
-----------------------------------------------------------------------------
(* From here on: every instruction reads what it would read if the program *)
(* were run in order.  What the scoreboard records of an instruction.      *)
Recorded(o, c, is_write) == [cell |-> c, is_write |-> is_write] \in o.accesses

(* Every cell an instruction reads or writes is recorded, and as written   *)
(* if it is, except the buffer that a drain clears.                        *)
WellRecorded(o) ==
  /\ \A c \in o.reads \cup o.writes : Recorded(o, c, TRUE) \/ Recorded(o, c, FALSE)
  /\ \A c \in o.writes : \/ Recorded(o, c, TRUE)
                         \/ o.kind = "Drain" /\ c \in o.reads
  /\ o.kind = "fence" => o.reads \cup o.writes = {}

LEMMA AccessRecords ==
  ASSUME NEW cells, NEW is_write, NEW c \in cells
  PROVE  [cell |-> c, is_write |-> is_write] \in Access(cells, is_write)
  BY DEF Access

LEMMA MethodsRecord ==
  ASSUME NEW R, NEW W, NEW psum
  PROVE  /\ WellRecorded(Fence)
         /\ WellRecorded(Mvin(W, R))
         /\ WellRecorded(Mvout(R, W))
         /\ WellRecorded(Gemm(R, {}, psum))
         /\ WellRecorded(Drain(W, psum))
<1>1. WellRecorded(Fence)
  BY DEF Fence, WellRecorded
<1>2. WellRecorded(Mvin(W, R))
  BY AccessRecords DEF Mvin, WellRecorded, Recorded
<1>3. WellRecorded(Mvout(R, W))
  BY AccessRecords DEF Mvout, WellRecorded, Recorded
<1>4. WellRecorded(Gemm(R, {}, psum))
  BY AccessRecords DEF Gemm, WellRecorded, Recorded
<1>5. WellRecorded(Drain(W, psum))
  BY AccessRecords DEF Drain, WellRecorded, Recorded
<1>6. QED
  BY <1>1, <1>2, <1>3, <1>4, <1>5

LEMMA InstrRecorded == ASSUME NEW o, IsInstr(o) PROVE WellRecorded(o)
<1>1. CASE o = Fence
  BY <1>1, MethodsRecord, Zenon
<1>2. CASE o = Mvin(o.writes, o.reads)
  BY <1>2, MethodsRecord, Zenon
<1>3. CASE o = Mvout(o.reads, o.writes)
  BY <1>3, MethodsRecord, Zenon
<1>4. ASSUME NEW psum, o = Gemm(o.reads \ {psum, array}, {}, psum) PROVE WellRecorded(o)
  BY <1>4, MethodsRecord, Zenon
<1>5. ASSUME NEW psum, o = Drain(o.writes \ {psum}, psum) PROVE WellRecorded(o)
  BY <1>5, MethodsRecord, Zenon
<1>6. QED
  BY <1>1, <1>2, <1>3, <1>4, <1>5 DEF IsInstr

LEMMA RecordOf ==
  ASSUME NEW o, IsInstr(o), NEW c
  PROVE  /\ c \in o.reads \cup o.writes => Recorded(o, c, TRUE) \/ Recorded(o, c, FALSE)
         /\ c \in o.writes => \/ Recorded(o, c, TRUE)
                              \/ o.kind = "Drain" /\ c \in o.reads
         /\ c \in o.reads \cup o.writes => o.kind # "fence"
  BY InstrRecorded DEF WellRecorded

(* Two instructions that record a cell, one of them as written, conflict.  *)
LEMMA RecordsConflict ==
  ASSUME NEW i, NEW j, NEW c, NEW v, NEW w,
         Recorded(program[i], c, v), Recorded(program[j], c, w), v \/ w
  PROVE  ops_conflict(i, j)
  BY DEF Recorded, ops_conflict

(* A program the scheduler may issue *)
LEMMA ProgramIsScheduled ==
  ASSUME BoardInv, program \in Programs
  PROVE  /\ \A i \in Ops : IsInstr(program[i]) /\ program[i] \in Op
         /\ DrainsClosedChains(program)
         /\ PsumsAreNoTiles(program)
<1>1. program \in Seq(Op) /\ DOMAIN program = Ops
  BY DEF BoardInv, Ops
<1>2. QED
  BY <1>1, ScheduleAssumption DEF Ops

(* Does j depend on i, which is before it, through cell c?                 *)
Hazard(i, j, c) ==
  \/ c \in program[i].writes /\ c \in program[j].reads \cup program[j].writes
  \/ c \in program[i].reads /\ c \in program[j].writes

(* Two such instructions conflict, or they drain the same buffer.          *)
LEMMA ConflictOrTwoDrains ==
  ASSUME BoardInv, program \in Programs, NEW i \in Ops, NEW j \in Ops, NEW c,
         Hazard(i, j, c)
  PROVE  \/ ops_conflict(i, j)
         \/ /\ program[i].kind = "Drain"
            /\ c \in program[i].writes
            /\ program[j].kind = "Drain"
            /\ c \in program[j].reads
<1>1. /\ IsInstr(program[i]) /\ IsInstr(program[j])
      /\ PsumsAreNoTiles(program)
      /\ DOMAIN program = Ops
  BY ProgramIsScheduled DEF BoardInv, Ops
<1>2. CASE Recorded(program[i], c, TRUE) \/ Recorded(program[j], c, TRUE)
  <2>1. /\ Recorded(program[i], c, TRUE) \/ Recorded(program[i], c, FALSE)
        /\ Recorded(program[j], c, TRUE) \/ Recorded(program[j], c, FALSE)
    BY <1>1, RecordOf DEF Hazard
  <2>2. QED
    BY <1>2, <2>1, RecordsConflict
<1>3. CASE ~ (Recorded(program[i], c, TRUE) \/ Recorded(program[j], c, TRUE))
  <2>1. c \in program[i].writes => program[i].kind = "Drain" /\ c \in program[i].reads
    BY <1>1, <1>3, RecordOf
  <2>2. c \in program[j].writes => program[j].kind = "Drain" /\ c \in program[j].reads
    BY <1>1, <1>3, RecordOf
  <2>3. CASE c \in program[i].writes
    <3>1. c \in program[j].writes
      BY <1>1, <2>1, <2>3 DEF Hazard, PsumsAreNoTiles
    <3>2. QED
      BY <2>1, <2>2, <2>3, <3>1
  <2>4. CASE c \in program[i].reads /\ c \in program[j].writes
    <3>1. c \in program[i].writes
      BY <1>1, <2>2, <2>4 DEF PsumsAreNoTiles
    <3>2. QED
      BY <2>1, <2>2, <2>4, <3>1
  <2>5. QED
    BY <2>3, <2>4 DEF Hazard
<1>4. QED
  BY <1>2, <1>3

(* An instruction is dispatched only once all it depends on is complete.   *)
(* Between two drains of a buffer is a flush that conflicts with both.     *)
LEMMA HazardsOrdered ==
  ASSUME BoardInv, program \in Programs,
         NEW i \in Ops, NEW j \in Ops, i < j, NEW c, Hazard(i, j, c),
         phase[j] # "none"
  PROVE  phase[i] = "complete"
<1>1. Ops \subseteq Nat /\ DOMAIN program = Ops
  BY DEF BoardInv, Ops
<1>2. i \in Commands /\ j \in Commands
  <2>1. IsInstr(program[i]) /\ IsInstr(program[j])
    BY ProgramIsScheduled
  <2>2. /\ c \in program[i].reads \cup program[i].writes
        /\ c \in program[j].reads \cup program[j].writes
    BY DEF Hazard
  <2>3. QED
    BY <2>1, <2>2, RecordOf DEF Commands
<1>3. CASE ops_conflict(i, j)
  BY <1>2, <1>3 DEF BoardInv, ConflictsOrdered
<1>4. CASE /\ program[i].kind = "Drain" /\ c \in program[i].writes
           /\ program[j].kind = "Drain" /\ c \in program[j].reads
  <2>1. PICK f \in 1 .. j - 1 : /\ program[f] = GemmFlush(c)
                                /\ \A k \in f + 1 .. j - 1 : c \notin program[k].writes
    BY <1>1, <1>4, ProgramIsScheduled DEF DrainsClosedChains
  <2>2. f \in Ops /\ f < j
    BY <2>1 DEF Ops, BoardInv
  <2>3. program[f].kind = "Gemm" /\ Recorded(program[f], c, TRUE)
    BY <2>1 DEF GemmFlush, Access, Recorded
  <2>4. i < f
    <3>1. i # f
      BY <1>4, <2>3
    <3>2. ~ (f < i)
      BY <1>1, <1>4, <2>1, <2>2
    <3>3. QED
      BY <1>1, <2>2, <3>1, <3>2
  <2>5. f \in Commands
    BY <2>2, <2>3 DEF Commands
  <2>6. ops_conflict(i, f) /\ ops_conflict(f, j)
    <3>1. /\ Recorded(program[i], c, TRUE) \/ Recorded(program[i], c, FALSE)
          /\ Recorded(program[j], c, TRUE) \/ Recorded(program[j], c, FALSE)
      BY <1>4, ProgramIsScheduled, RecordOf
    <3>2. QED
      BY <2>3, <3>1, RecordsConflict
  <2>7. phase[f] = "complete"
    BY <1>2, <2>2, <2>5, <2>6 DEF BoardInv, ConflictsOrdered
  <2>8. QED
    BY <1>2, <2>4, <2>5, <2>6, <2>7 DEF BoardInv, ConflictsOrdered
<1>5. QED
  BY <1>3, <1>4, ConflictOrTwoDrains

(* A cell holds the last instruction in program order that wrote it and is *)
(* complete: later ones cannot have overtaken it.                          *)
CellState ==
  /\ cell \in [Cells -> Nat]
  /\ \A c \in Cells : cell[c] # 0 =>
       cell[c] \in Ops /\ phase[cell[c]] = "complete" /\ c \in program[cell[c]].writes
  /\ \A c \in Cells : \A w \in Ops :
       phase[w] = "complete" /\ c \in program[w].writes => w <= cell[c]

ReadsInv ==
  /\ program \in Programs
  /\ DOMAIN seen = Ops
  /\ CellState
  /\ ReadsProgramOrder

LEMMA InitReads == Init => ReadsInv
<1> SUFFICES ASSUME Init PROVE ReadsInv
  OBVIOUS
<1>1. CellState
  BY DEF Init, CellState
<1>2. ReadsProgramOrder
  BY DEF Init, ReadsProgramOrder, Commands
<1>3. QED
  BY <1>1, <1>2 DEF Init, ReadsInv

(* A step that only moves instructions towards their controllers           *)
LEMMA QueueingKeepsReads ==
  ASSUME BoardInv, ReadsInv,
         program' = program, cell' = cell, seen' = seen,
         \A o \in Ops : \/ phase'[o] = phase[o]
                        \/ /\ phase[o] \notin {"read", "complete"}
                           /\ phase'[o] \notin {"read", "complete"}
  PROVE  ReadsInv'
<1>1. Ops' = Ops /\ Commands' = Commands
  BY DEF Ops, Commands
<1>2. CellState'
  BY <1>1 DEF ReadsInv, CellState
<1>3. \A op \in Ops : \A c : LastWriter(op, c)' = LastWriter(op, c)
  BY DEF LastWriter
<1>4. ReadsProgramOrder'
  BY <1>1, <1>3 DEF ReadsInv, ReadsProgramOrder, Commands
<1>5. QED
  BY <1>1, <1>2, <1>4 DEF ReadsInv

LEMMA DispatchKeepsReads ==
  ASSUME BoardInv, ReadsInv,
         program' = program, cell' = cell, seen' = seen,
         NEW queue, NEW flight, \A o \in queue \cap Ops : phase[o] = "none",
         try_dispatch(queue, flight)
  PROVE  ReadsInv'
<1>1. phase' = [o \in Ops |-> IF o \in Taken(queue, flight) THEN "queued" ELSE phase[o]]
  BY DEF try_dispatch
<1>2. \A o \in Taken(queue, flight) : o \in queue
  BY DEF Taken, Unblocked
<1>3. \A o \in Ops : \/ phase'[o] = phase[o]
                     \/ phase[o] = "none" /\ phase'[o] = "queued"
  BY <1>1, <1>2
<1>4. QED
  BY <1>3, QueueingKeepsReads

(* What op reads: the program determines it.                               *)
LEMMA LastWriterIs ==
  ASSUME NEW op \in Nat, NEW c, NEW w \in Nat,
         w # 0 => w < op /\ c \in program[w].writes,
         \A v \in 1 .. op - 1 : c \in program[v].writes => v <= w
  PROVE  LastWriter(op, c) = w
<1> DEFINE writers == {v \in 1 .. op - 1 : c \in program[v].writes}
<1>1. LastWriter(op, c) =
        IF writers = {} THEN 0 ELSE CHOOSE u \in writers : \A v \in writers : v <= u
  BY DEF LastWriter
<1>2. CASE w = 0
  <2>1. writers = {}
    BY <1>2
  <2>2. QED
    BY <1>1, <1>2, <2>1
<1>3. CASE w # 0
  <2>1. w \in writers /\ \A v \in writers : v <= w
    BY <1>3
  <2>2. \A u \in writers : (\A v \in writers : v <= u) => u = w
    BY <2>1
  <2>3. QED
    BY <1>1, <2>1, <2>2
<1>4. QED
  BY <1>2, <1>3

(* Reading: every earlier writer is complete, no later one has started.    *)
LEMMA ReadsWhatItShould ==
  ASSUME BoardInv, ReadsInv, NEW op \in Ops, phase[op] = "begun",
         NEW c \in program[op].reads
  PROVE  c \in Cells /\ cell[c] = LastWriter(op, c)
<1>1. Ops \subseteq Nat \ {0} /\ \A v \in 1 .. op - 1 : v \in Ops /\ v < op
  BY DEF BoardInv, Ops
<1>2. c \in Cells
  BY ProgramIsScheduled DEF ReadsInv, Op
<1>3. cell[c] \in Nat
  BY <1>2 DEF ReadsInv, CellState
<1>4. ASSUME NEW v \in 1 .. op - 1, c \in program[v].writes PROVE v <= cell[c]
  <2>1. Hazard(v, op, c)
    BY <1>4 DEF Hazard
  <2>2. phase[v] = "complete"
    BY <1>1, <2>1, HazardsOrdered DEF ReadsInv
  <2>3. QED
    BY <1>1, <1>2, <1>4, <2>2 DEF ReadsInv, CellState
<1>5. ASSUME cell[c] # 0 PROVE cell[c] < op /\ c \in program[cell[c]].writes
  <2>1. cell[c] \in Ops /\ phase[cell[c]] = "complete" /\ c \in program[cell[c]].writes
    BY <1>2, <1>5 DEF ReadsInv, CellState
  <2>2. Hazard(op, cell[c], c)
    BY <2>1 DEF Hazard
  <2>3. ~ (op < cell[c])
    BY <2>1, <2>2, HazardsOrdered DEF ReadsInv
  <2>4. cell[c] # op
    BY <2>1
  <2>5. QED
    BY <1>1, <1>3, <2>1, <2>3, <2>4, op \in Nat
<1>6. QED
  BY <1>1, <1>2, <1>3, <1>4, <1>5, LastWriterIs

LEMMA ReadCellsKeepsReads ==
  ASSUME BoardInv, ReadsInv, NEW op \in Ops, ReadCells(op)
  PROVE  ReadsInv'
<1>1. /\ phase[op] = "begun"
      /\ phase' = [phase EXCEPT ![op] = "read"]
      /\ seen' = [seen EXCEPT ![op] = [c \in program[op].reads |-> cell[c]]]
      /\ program' = program /\ cell' = cell
  BY DEF ReadCells
<1>2. Ops' = Ops /\ Commands' = Commands /\ phase \in [Ops -> Phases]
  BY <1>1 DEF Ops, Commands, BoardInv, BoardState
<1>3. CellState'
  BY <1>1, <1>2 DEF ReadsInv, CellState
<1>4. \A o \in Ops : \A c : LastWriter(o, c)' = LastWriter(o, c)
  BY <1>1 DEF LastWriter
<1>5. ASSUME NEW o \in Commands, phase'[o] \in {"read", "complete"},
             NEW c \in program[o].reads
      PROVE  seen'[o][c] = LastWriter(o, c)
  <2>1. CASE o = op
    BY <1>1, <1>5, <2>1, ReadsWhatItShould DEF ReadsInv
  <2>2. CASE o # op
    BY <1>1, <1>2, <1>5, <2>2 DEF ReadsInv, ReadsProgramOrder, Commands
  <2>3. QED
    BY <2>1, <2>2
<1>6. ReadsProgramOrder'
  BY <1>1, <1>2, <1>4, <1>5 DEF ReadsProgramOrder, Commands
<1>7. QED
  BY <1>1, <1>2, <1>3, <1>6 DEF ReadsInv

(* Writing: no later writer of the cell is complete before.                *)
LEMMA CompleteKeepsReads ==
  ASSUME BoardInv, ReadsInv, NEW op \in Ops, Complete(op)
  PROVE  ReadsInv'
<1>1. /\ phase[op] = "read"
      /\ phase' = [phase EXCEPT ![op] = "complete"]
      /\ cell' = [c \in Cells |-> IF c \in program[op].writes THEN op ELSE cell[c]]
      /\ program' = program /\ seen' = seen
  BY DEF Complete
<1>2. Ops' = Ops /\ Commands' = Commands /\ phase \in [Ops -> Phases]
  BY <1>1 DEF Ops, Commands, BoardInv, BoardState
<1>3. Ops \subseteq Nat
  BY DEF BoardInv, Ops
<1>4. ASSUME NEW c \in program[op].writes, NEW w \in Ops,
             phase'[w] = "complete", c \in program[w].writes
      PROVE  w <= op
  <2>1. CASE op < w
    <3>1. Hazard(op, w, c)
      BY <1>4 DEF Hazard
    <3>2. phase[w] = "complete"
      BY <1>1, <1>2, <1>3, <1>4, <2>1
    <3>3. phase[op] = "complete"
      BY <2>1, <3>1, <3>2, HazardsOrdered DEF ReadsInv
    <3>4. QED
      BY <1>1, <3>3
  <2>2. QED
    BY <1>3, <2>1
<1>5. CellState'
  <2>1. cell' \in [Cells -> Nat]
    BY <1>1, <1>3 DEF ReadsInv, CellState
  <2>2. ASSUME NEW c \in Cells, cell'[c] # 0
        PROVE  /\ cell'[c] \in Ops /\ phase'[cell'[c]] = "complete"
               /\ c \in program[cell'[c]].writes
    BY <1>1, <1>2, <2>2 DEF ReadsInv, CellState
  <2>3. ASSUME NEW c \in Cells, NEW w \in Ops,
               phase'[w] = "complete", c \in program[w].writes
        PROVE  w <= cell'[c]
    <3>1. CASE c \in program[op].writes
      BY <1>1, <1>4, <2>3, <3>1
    <3>2. CASE c \notin program[op].writes
      BY <1>1, <1>2, <2>3, <3>2 DEF ReadsInv, CellState
    <3>3. QED
      BY <3>1, <3>2
  <2>4. QED
    BY <1>1, <1>2, <2>1, <2>2, <2>3 DEF CellState
<1>6. \A o \in Ops : \A c : LastWriter(o, c)' = LastWriter(o, c)
  BY <1>1 DEF LastWriter
<1>7. \A o \in Ops : phase'[o] \in {"read", "complete"} =>
                    phase[o] \in {"read", "complete"}
  BY <1>1, <1>2
<1>8. ReadsProgramOrder'
  BY <1>1, <1>2, <1>6, <1>7 DEF ReadsInv, ReadsProgramOrder, Commands
<1>9. QED
  BY <1>1, <1>2, <1>5, <1>8 DEF ReadsInv

LEMMA ReadsInductive == BoardInv /\ ReadsInv /\ [Next]_vars => ReadsInv'
<1> SUFFICES ASSUME BoardInv, ReadsInv, [Next]_vars PROVE ReadsInv'
  OBVIOUS
<1>1. \A o \in pending : phase[o] = "none"
  BY DEF BoardInv, BoardState
<1>2. CASE Issue
  <2>1. next_op \in Ops /\ phase[next_op] = "none"
    BY <1>2 DEF Issue, BoardInv, BoardState, Ops
  <2>2. QED
    BY <1>1, <1>2, <2>1, DispatchKeepsReads DEF Issue
<1>3. CASE CallFence
  BY <1>1, <1>3, DispatchKeepsReads DEF CallFence, reap_and_dispatch
<1>4. CASE RunThread
  BY <1>1, <1>4, DispatchKeepsReads DEF RunThread, reap_and_dispatch
<1>5. CASE DispatchLoop
  BY <1>1, <1>5, DispatchKeepsReads DEF DispatchLoop, reap_and_dispatch
<1>6. CASE IssueWaits \/ ProgressFires \/ UNCHANGED vars
  BY <1>6, QueueingKeepsReads DEF IssueWaits, ProgressFires, vars, boardVars, machineVars
<1>7. ASSUME NEW k \in Kinds, Begin(k) PROVE ReadsInv'
  <2>1. /\ instr_queue[k] # << >>
        /\ phase' = [phase EXCEPT ![Head(instr_queue[k])] = "begun"]
        /\ program' = program /\ cell' = cell /\ seen' = seen
    BY <1>7 DEF Begin
  <2>2. instr_queue[k] \in Seq(Ops) /\ phase \in [Ops -> Phases]
    BY DEF BoardInv, BoardState, QueueState
  <2>3. Head(instr_queue[k]) \in Ops /\ phase[Head(instr_queue[k])] = "queued"
    BY <2>1, <2>2 DEF BoardInv, QueueState
  <2>4. QED
    BY <2>1, <2>2, <2>3, QueueingKeepsReads
<1>8. ASSUME NEW op \in Ops, Machine(op) PROVE ReadsInv'
  BY <1>8, ReadCellsKeepsReads, CompleteKeepsReads DEF Machine
<1>9. QED
  BY <1>2, <1>3, <1>4, <1>5, <1>6, <1>7, <1>8 DEF Next, Scheduler

(* Every instruction reads what it would read if the program were run one  *)
(* instruction at a time, in order, for every program and interleaving     *)
(* (scoreboard.h, ops_conflict and what each method records).              *)
THEOREM ReadsInProgramOrder == SafeSpec => []ReadsProgramOrder
<1>1. ReadsInv => ReadsProgramOrder
  BY DEF ReadsInv
<1>2. Init => BoardInv /\ ReadsInv
  BY InitBoard, InitReads
<1>3. BoardInv /\ ReadsInv /\ [Next]_vars => BoardInv' /\ ReadsInv'
  BY BoardInductive, ReadsInductive
<1>4. QED
  BY <1>1, <1>2, <1>3, PTL DEF SafeSpec
=============================================================================
