----------------------------- MODULE Scoreboard -----------------------------
(***************************************************************************)
(* The scoreboard (testbench/helper/scoreboard.h) in front of the          *)
(* accelerator (TopModule and its controllers).                            *)
(*                                                                         *)
(* The scheduler's thread issues a program one instruction at a time.  An  *)
(* instruction waits in pending until no earlier one still conflicts with  *)
(* it and its controller has room, then it is dispatched and stays in      *)
(* in_flight until it is found complete.  Two threads do this work on the  *)
(* same two vectors: the scheduler's, inside issue and fence, and          *)
(* dispatch_loop; both wait for top.progress.                              *)
(*                                                                         *)
(* SystemC threads are not preempted: an action is what a thread does from *)
(* one wait to the next (of the scheduler's thread, at most one            *)
(* instruction at a time).  progress is a delta notification: pending      *)
(* until it fires, and lost to a thread that does not wait then.           *)
(*                                                                         *)
(* The accelerator is what TopModule, the controllers and isa.h promise:   *)
(* a FIFO per kind of instruction, loads and stores in any number at once, *)
(* gemms and drains one at a time each, no order between the four.  The    *)
(* places an instruction reads and writes are sets of cells: a row of DRAM *)
(* or of the scratchpad, a psum buffer, or the PE array.  The value of a   *)
(* cell is the instruction that wrote it last.                             *)
(***************************************************************************)
EXTENDS Naturals, Sequences, FiniteSets

CONSTANTS
  Cells,             \* places instructions read and write
  array,             \* the cell that is the PE array
  Programs,          \* the sequences of instructions the scheduler may issue
  queue_depth,       \* capacity of pending
  INSTR_QUEUE_SIZE   \* capacity of each controller's FIFO

Kinds == {"Mvin", "Mvout", "Gemm", "Drain"}

Access(cells, is_write) == {[cell |-> c, is_write |-> is_write] : c \in cells}

(* PendingOp for each public method: its kind and the accesses it records, *)
(* and, from isa.h, the cells the instruction reads and writes.            *)
Mvin(spad_dst, dram_src) ==
  [kind     |-> "Mvin",
   accesses |-> Access(spad_dst, TRUE) \cup Access(dram_src, FALSE),
   reads    |-> dram_src,
   writes   |-> spad_dst]

Mvout(spad_src, dram_dst) ==
  [kind     |-> "Mvout",
   accesses |-> Access(spad_src, FALSE) \cup Access(dram_dst, TRUE),
   reads    |-> spad_src,
   writes   |-> dram_dst]

(* Mutant: the tiles a gemm reads are not recorded. *)
Gemm_NoTiles(A_addr, B_addr, psum) ==
  [kind     |-> "Gemm",
   accesses |-> Access({psum, array}, TRUE),
   reads    |-> A_addr \cup B_addr \cup {psum, array},
   writes   |-> {psum, array}]

Gemm(A_addr, B_addr, psum) ==
  [kind     |-> "Gemm",
   accesses |-> Access(A_addr \cup B_addr, FALSE) \cup Access({psum, array}, TRUE),
   reads    |-> A_addr \cup B_addr \cup {psum, array},
   writes   |-> {psum, array}]

GemmFlush(psum) ==
  [kind     |-> "Gemm",
   accesses |-> Access({psum, array}, TRUE),
   reads    |-> {psum, array},
   writes   |-> {psum, array}]

(* A drain leaves the buffer cleared (isa.h); the scoreboard records its   *)
(* access to the buffer as a read.                                         *)
Drain(C_addr, psum) ==
  [kind     |-> "Drain",
   accesses |-> Access(C_addr, TRUE) \cup Access({psum}, FALSE),
   reads    |-> {psum},
   writes   |-> C_addr \cup {psum}]

Fence == [kind |-> "fence", accesses |-> {}, reads |-> {}, writes |-> {}]

Op == [kind : Kinds \cup {"fence"},
       accesses : SUBSET [cell : Cells, is_write : BOOLEAN],
       reads : SUBSET Cells,
       writes : SUBSET Cells]

(* What the scoreboard's methods make.  A flush is a gemm without tiles.   *)
IsInstr(o) ==
  \/ o = Fence
  \/ o = Mvin(o.writes, o.reads)
  \/ o = Mvout(o.reads, o.writes)
  \/ \E psum \in o.writes : o = Gemm(o.reads \ {psum, array}, {}, psum)
  \/ \E psum \in o.reads : o = Drain(o.writes \ {psum}, psum)

(* isa.h: a drain is only valid once a flush has closed the buffer's chain. *)
DrainsClosedChains(p) ==
  \A d \in DOMAIN p : p[d].kind = "Drain" =>
    \A psum \in p[d].reads : \E f \in 1 .. d - 1 :
      /\ p[f] = GemmFlush(psum)
      /\ \A k \in f + 1 .. d - 1 : psum \notin p[k].writes

(* A psum buffer is no tile: what reads it, a gemm or a drain, writes it.  *)
PsumsAreNoTiles(p) ==
  \A d \in DOMAIN p : p[d].kind = "Drain" =>
    \A psum \in p[d].reads : \A k \in DOMAIN p :
      psum \in p[k].reads => psum \in p[k].writes

ASSUME ProgramAssumption == Programs \subseteq Seq(Op)
ASSUME ScheduleAssumption ==
  \A p \in Programs : /\ \A i \in DOMAIN p : IsInstr(p[i])
                      /\ DrainsClosedChains(p)
                      /\ PsumsAreNoTiles(p)
ASSUME SizeAssumption == queue_depth \in Nat \ {0} /\ INSTR_QUEUE_SIZE \in Nat \ {0}

VARIABLES
  program,        \* the program this run issues
  (* the scheduler's thread and the scoreboard *)
  next_op,        \* the instruction (or fence) the scheduler is at
  waiting,        \* does the scheduler's thread wait for top.progress?
  pending,        \* issued and not dispatched, in program order: a set
                  \* of places in the program
  in_flight,      \* dispatched and not yet found complete
  (* the kernel *)
  progress,       \* pending delta notification of top.progress
  runnable,       \* threads it woke that have not run yet
  (* the accelerator *)
  instr_queue,    \* instr_queue[kind]
  phase,          \* phase[op], where the accelerator is with it
  cell,           \* cell[c], the instruction that wrote c last, 0 at first
  seen            \* seen[op][c], what op read from c

boardVars   == <<next_op, waiting, pending, in_flight>>
machineVars == <<phase, cell, seen>>
vars == <<program, boardVars, progress, runnable, instr_queue, machineVars>>

Ops == 1 .. Len(program)
Phases == {"none", "queued", "begun", "read", "complete"}

Init ==
  /\ program \in Programs
  /\ next_op = 1
  /\ waiting = FALSE
  /\ pending = {}
  /\ in_flight = {}
  /\ progress = FALSE
  /\ runnable = {}
  /\ instr_queue = [k \in Kinds |-> << >>]
  /\ phase = [op \in Ops |-> "none"]
  /\ cell = [c \in Cells |-> 0]
  /\ seen = [op \in Ops |-> [c \in program[op].reads |-> 0]]
-----------------------------------------------------------------------------
(* TopModule::is_complete and TopModule::has_room *)
is_complete(op) == phase[op] = "complete"

room(k) == INSTR_QUEUE_SIZE - Len(instr_queue[k])

ops_conflict(a, b) ==
  \E x \in program[a].accesses, y \in program[b].accesses :
    (x.is_write \/ y.is_write) /\ x.cell = y.cell

(* Mutant: only the dispatched instructions are looked at. *)
blocked_InFlightOnly(op, queue, flight) ==
  \E other \in flight : ops_conflict(op, other)

(* Does op conflict with an instruction in flight or ahead of it in pending? *)
blocked(op, queue, flight) ==
  \E other \in flight \cup {ahead \in queue : ahead < op} : ops_conflict(op, other)

(* The loop of try_dispatch takes pending front to back.  What it takes    *)
(* moves from ahead of an instruction to in flight, so the loop does not   *)
(* change who is blocked: it takes the unblocked instructions, of each     *)
(* kind as many as its FIFO has room for.                                  *)
Unblocked(queue, flight) == {op \in queue : ~ blocked(op, queue, flight)}

Taken(queue, flight) ==
  LET sameKindAhead(op) == {other \in Unblocked(queue, flight) :
                              other < op /\ program[other].kind = program[op].kind}
  IN  {op \in Unblocked(queue, flight) :
         Cardinality(sameKindAhead(op)) < room(program[op].kind)}

(* A set of instructions in program order *)
InOrder(ops) ==
  {s \in [1 .. Cardinality(ops) -> ops] :
     \A i, j \in DOMAIN s : i < j => s[i] < s[j]}

(* try_dispatch with the vectors as given: dispatch is TopModule's mvin,   *)
(* mvout, gemm or drain, which writes to the FIFO.                         *)
try_dispatch(queue, flight) ==
  LET taken == Taken(queue, flight)
      orders(k) == InOrder({op \in taken : program[op].kind = k})
  IN  /\ pending' = queue \ taken
      /\ in_flight' = flight \cup taken
      /\ \E dispatched \in [Kinds -> UNION {orders(k) : k \in Kinds}] :
           /\ \A k \in Kinds : dispatched[k] \in orders(k)
           /\ instr_queue' = [k \in Kinds |-> instr_queue[k] \o dispatched[k]]
      /\ phase' = [op \in Ops |-> IF op \in taken THEN "queued" ELSE phase[op]]

StillFlying == {f \in in_flight : ~ is_complete(f)}

(* Mutant: an instruction is reaped as soon as its controller began it. *)
reap_and_dispatch_Begun ==
  try_dispatch(pending, {f \in in_flight : phase[f] = "queued"})

reap_and_dispatch == try_dispatch(pending, StillFlying)
-----------------------------------------------------------------------------
(* issue of the scheduler's next instruction when pending has room *)
Issue ==
  /\ ~ waiting
  /\ next_op \in Ops
  /\ program[next_op].kind # "fence"
  /\ Cardinality(pending) < queue_depth
  /\ next_op' = next_op + 1
  /\ try_dispatch(pending \cup {next_op}, in_flight)
  /\ UNCHANGED <<program, waiting, progress, runnable, cell, seen>>

(* issue waits for progress while pending is full. *)
IssueWaits ==
  /\ ~ waiting
  /\ next_op \in Ops
  /\ program[next_op].kind # "fence"
  /\ Cardinality(pending) >= queue_depth
  /\ waiting' = TRUE
  /\ UNCHANGED <<program, next_op, pending, in_flight, progress, runnable,
                 instr_queue, machineVars>>

(* Mutant: fence returns when pending is empty. *)
FenceDecides_PendingOnly ==
  IF pending' = {}
  THEN waiting' = FALSE /\ next_op' = next_op + 1
  ELSE waiting' = TRUE /\ UNCHANGED next_op

(* The loop condition of fence, after a reap_and_dispatch *)
FenceDecides ==
  IF pending' = {} /\ in_flight' = {}
  THEN waiting' = FALSE /\ next_op' = next_op + 1
  ELSE waiting' = TRUE /\ UNCHANGED next_op

CallFence ==
  /\ ~ waiting
  /\ next_op \in Ops
  /\ program[next_op].kind = "fence"
  /\ reap_and_dispatch
  /\ FenceDecides
  /\ UNCHANGED <<program, progress, runnable, cell, seen>>

(* top.progress fires and wakes the threads that wait for it. *)
ProgressFires ==
  /\ progress
  /\ runnable = {}
  /\ progress' = FALSE
  /\ runnable' = {"dispatch_loop"} \cup (IF waiting THEN {"run_thread"} ELSE {})
  /\ UNCHANGED <<program, boardVars, instr_queue, machineVars>>

DispatchLoop ==
  /\ "dispatch_loop" \in runnable
  /\ runnable' = runnable \ {"dispatch_loop"}
  /\ reap_and_dispatch
  /\ UNCHANGED <<program, next_op, waiting, progress, cell, seen>>

(* The scheduler's thread after its wait in issue or fence *)
RunThread ==
  /\ "run_thread" \in runnable
  /\ runnable' = runnable \ {"run_thread"}
  /\ reap_and_dispatch
  /\ IF program[next_op].kind = "fence"
     THEN FenceDecides
     ELSE waiting' = (Cardinality(pending') >= queue_depth) /\ UNCHANGED next_op
  /\ UNCHANGED <<program, progress, cell, seen>>
-----------------------------------------------------------------------------
(* A controller dequeues an instruction and notifies room_freed, which is  *)
(* in progress.  gemm_thread and drain_thread finish one before the next.  *)
Begin(k) ==
  /\ instr_queue[k] # << >>
  /\ k \in {"Gemm", "Drain"} =>
       \A op \in Ops : program[op].kind = k => phase[op] \notin {"begun", "read"}
  /\ instr_queue' = [instr_queue EXCEPT ![k] = Tail(@)]
  /\ phase' = [phase EXCEPT ![Head(instr_queue[k])] = "begun"]
  /\ progress' = TRUE
  /\ UNCHANGED <<program, boardVars, runnable, cell, seen>>

(* The instruction has read what it reads. *)
ReadCells(op) ==
  /\ phase[op] = "begun"
  /\ phase' = [phase EXCEPT ![op] = "read"]
  /\ seen' = [seen EXCEPT ![op] = [c \in program[op].reads |-> cell[c]]]
  /\ UNCHANGED <<program, boardVars, progress, runnable, instr_queue, cell>>

(* Mutant: completion is not notified. *)
Complete_NoNotify(op) ==
  /\ phase[op] = "read"
  /\ phase' = [phase EXCEPT ![op] = "complete"]
  /\ cell' = [c \in Cells |-> IF c \in program[op].writes THEN op ELSE cell[c]]
  /\ UNCHANGED <<program, boardVars, progress, runnable, instr_queue, seen>>

(* It has written what it writes, is complete and notifies completed.      *)
Complete(op) ==
  /\ phase[op] = "read"
  /\ phase' = [phase EXCEPT ![op] = "complete"]
  /\ cell' = [c \in Cells |-> IF c \in program[op].writes THEN op ELSE cell[c]]
  /\ progress' = TRUE
  /\ UNCHANGED <<program, boardVars, runnable, instr_queue, seen>>

Scheduler == Issue \/ IssueWaits \/ CallFence \/ RunThread
Machine(op) == ReadCells(op) \/ Complete(op)

Next ==
  \/ Scheduler \/ DispatchLoop \/ ProgressFires
  \/ \E k \in Kinds : Begin(k)
  \/ \E op \in Ops : Machine(op)

SafeSpec == Init /\ [][Next]_vars

(* The kernel runs every thread that can run and the controllers finish    *)
(* what they begin.                                                        *)
Fairness ==
  /\ WF_vars(Scheduler) /\ WF_vars(RunThread)
  /\ WF_vars(DispatchLoop) /\ WF_vars(ProgressFires)
  /\ \A k \in Kinds : WF_vars(Begin(k))
  /\ WF_vars(\E op \in Ops : Machine(op))

Spec == SafeSpec /\ Fairness
-----------------------------------------------------------------------------
Commands == {op \in Ops : program[op].kind # "fence"}

(* The variables hold values of their types. *)
TypeOK ==
  /\ program \in Programs
  /\ next_op \in 1 .. Len(program) + 1
  /\ waiting \in BOOLEAN
  /\ pending \subseteq Ops /\ Cardinality(pending) <= queue_depth
  /\ in_flight \subseteq Ops
  /\ progress \in BOOLEAN
  /\ runnable \subseteq {"dispatch_loop", "run_thread"}
  /\ instr_queue \in [Kinds -> Seq(Ops)]
  /\ \A k \in Kinds : Len(instr_queue[k]) <= INSTR_QUEUE_SIZE
  /\ phase \in [Ops -> Phases]
  /\ cell \in [Cells -> 0 .. Len(program)]
  /\ \A op \in Ops : seen[op] \in [program[op].reads -> 0 .. Len(program)]

(* RAW, WAW and WAR: an instruction is handed to the accelerator only once *)
(* every earlier one it conflicts with has completed, whichever of the two *)
(* threads dispatched which.                                               *)
ConflictsOrdered ==
  \A i, j \in Commands :
    i < j /\ ops_conflict(i, j) /\ phase[j] # "none" => phase[i] = "complete"

(* The last instruction before op, in program order, that writes c, or 0 *)
LastWriter(op, c) ==
  LET writers == {w \in 1 .. op - 1 : c \in program[w].writes}
  IN  IF writers = {} THEN 0 ELSE CHOOSE w \in writers : \A v \in writers : v <= w

(* Every instruction reads what it would read if the program were run one  *)
(* instruction at a time, in order.                                        *)
ReadsProgramOrder ==
  \A op \in Commands : phase[op] \in {"read", "complete"} =>
    \A c \in program[op].reads : seen[op][c] = LastWriter(op, c)

(* fence returns only when every instruction issued before it completed.   *)
FenceMeansDone ==
  \A f \in Ops : program[f].kind = "fence" /\ f < next_op =>
    \A op \in Commands : op < f => phase[op] = "complete"

(* Neither a full pending, full FIFOs nor a wait for progress ever stops   *)
(* the program: every instruction is issued and completes.                 *)
ProgramCompletes ==
  <>[](next_op = Len(program) + 1 /\ \A op \in Commands : is_complete(op))
=============================================================================
