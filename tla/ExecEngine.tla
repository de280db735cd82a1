----------------------------- MODULE ExecEngine -----------------------------
(***************************************************************************)
(* The exec controller (src/module/exec_controller.cpp) and the pipeline   *)
(* it feeds: two skew buffers, the PE array with its two psum buffers, and *)
(* the scaler, joined by FIFOs of depth one (top_module.h).                *)
(*                                                                         *)
(*    gemm_thread -> a_to_skew_a -> skew_a -> skew_a_to_pe_array \         *)
(*        \--------> b_to_skew_b -> skew_b -> skew_b_to_pe_array -> array  *)
(*    drain_thread <- scaler_to_c <- scaler <- pe_array_to_scaler <- array *)
(*                                                                         *)
(* Time matters: a gemm is reported complete when its last row has been    *)
(* handed on, and a flush when its own count of cycles says that the array *)
(* must have accumulated everything.  Time is discrete: a thread sleeps a  *)
(* number of ticks, and time passes only when every thread waits or        *)
(* sleeps.  Threads that can run at the same time run in any order, one    *)
(* blocking operation at a time.                                           *)
(*                                                                         *)
(* A row of a tile is its name, <<gemm, index in the tile>>.  A psum is    *)
(* the bag of the pairs <<row of A, row of B>> whose elements were         *)
(* multiplied into it; a product with ZERO, a row of a flush or an empty   *)
(* register, adds nothing.  A scratchpad request is answered after the     *)
(* access time and at most MAX_QUEUED ticks in the arbiter's queue, or     *)
(* MAX_QUEUED_C where it writes C.                                         *)
(***************************************************************************)
EXTENDS Naturals, Sequences, Bags

CONSTANTS
  DIM,               \* array dimension and rows of a tile
  Program,           \* gemms and drains, [op, psum_index, is_flush], in issue order
  After,             \* After[id]: what the issuer lets complete before it issues id
  INSTR_QUEUE_SIZE,  \* depth of each instruction queue
  CYCLE_TIME, BANK_ACCESS_TIME, PE_MAC_TIME, PE_DRAIN_TIME,
  SCALER_SCALE_TIME, SKEW_BUF_SHIFT_TIME,
  MAX_QUEUED,        \* bound on the ticks a read of A and B waits in the arbiter
  MAX_QUEUED_C,      \* MAX_QUEUED_C[id], the same for the writes of drain id
  ZERO,              \* a row of zeros
  NULL               \* a row not written

Ids    == 1 .. Len(Program)
Gemms  == {id \in Ids : Program[id].op = "gemm"}
Drains == {id \in Ids : Program[id].op = "drain"}
Lanes  == 0 .. DIM - 1

Times == <<CYCLE_TIME, BANK_ACCESS_TIME, PE_MAC_TIME, PE_DRAIN_TIME,
           SCALER_SCALE_TIME, SKEW_BUF_SHIFT_TIME>>
ASSUME ProgramAssumption ==
  Program \in Seq([op : {"gemm", "drain"}, psum_index : {0, 1}, is_flush : BOOLEAN])
ASSUME SizeAssumption == DIM \in Nat /\ DIM >= 2 /\ INSTR_QUEUE_SIZE \in Nat \ {0}
ASSUME WaitAssumption == \A id \in Ids : After[id] \subseteq 1 .. id - 1
ASSUME QueueAssumption == MAX_QUEUED \in Nat /\ \A id \in Drains : MAX_QUEUED_C[id] \in Nat
ASSUME TimeAssumption == \A k \in DOMAIN Times : Times[k] \in Nat \ {0}

(* A row of zeros is no row of a tile. *)
ASSUME ZeroAssumption == ZERO \notin Gemms \X Lanes

(* isa.h: a chain of gemms is flushed before a gemm of another chain       *)
(* follows, and before its buffer is drained.                              *)
Latest(op, before) ==
  LET earlier == {e \in 1 .. before - 1 : Program[e].op = op}
  IN  IF earlier = {} THEN 0 ELSE CHOOSE e \in earlier : \A f \in earlier : f <= e

ASSUME ChainsClosed ==
  /\ \A g \in Gemms : LET e == Latest("gemm", g)
       IN  e # 0 => \/ Program[e].is_flush
                    \/ Program[e].psum_index = Program[g].psum_index
  /\ \A d \in Drains : LET e == Latest("gemm", d)
       IN  e # 0 => \/ Program[e].is_flush
                    \/ Program[e].psum_index # Program[d].psum_index

(* Of the waits the scoreboard makes for an issuer, those between a gemm   *)
(* and a drain on one psum buffer: the later waits for the earlier.        *)
NoOverlap ==
  [id \in Ids |-> {e \in 1 .. id - 1 : /\ Program[e].psum_index = Program[id].psum_index
                                      /\ Program[e].op # Program[id].op}]

Chans == {"a_to_skew_a", "b_to_skew_b", "skew_a_to_pe_array",
          "skew_b_to_pe_array", "pe_array_to_scaler", "scaler_to_c"}
Cmds  == {"gemm_cmd", "skew_a_cmd", "skew_b_cmd", "drain_cmd", "scaler_cmd"}
Stages == {"skew_a", "skew_b", "array_gemm", "array_drain", "scaler"}
Threads == Stages \cup {"gemm", "drain"}

VARIABLES
  issued,                  \* the last instruction issued, 0 at first
  (* ExecController *)
  gemm_instr_queue, drain_instr_queue,
  gemm, drain,             \* gemm_thread and drain_thread: [id, row, step],
                           \* where step is what the thread does next
  last_gemm_completed_id, last_drain_completed_id,
  (* TopModule's FIFOs *)
  chan, cmd,
  (* the threads of the stages: [cmd, row, held], where held is << >> or   *)
  (* what the thread has read or computed and not passed on                *)
  stage,
  regs,                    \* SkewBufLogic: regs[stage][lane]
  a_reg, b_reg, psum,      \* PEArrayLogic
  C,                       \* C[drain][row] in the scratchpad
  sleep                    \* ticks until the thread's wait(time) ends

execVars == <<gemm_instr_queue, drain_instr_queue, gemm, drain,
              last_gemm_completed_id, last_drain_completed_id>>
logicVars == <<regs, a_reg, b_reg, psum>>
vars == <<issued, execVars, chan, cmd, stage, logicVars, C, sleep>>

gemmVars  == <<gemm_instr_queue, gemm, last_gemm_completed_id>>
drainVars == <<drain_instr_queue, drain, last_drain_completed_id, C>>

Idle == [id |-> 0, row |-> 0, step |-> "dequeue"]
NoCmd == [psum_index |-> 0, rows |-> 0, id |-> 0]

Init ==
  /\ issued = 0
  /\ gemm_instr_queue = << >> /\ drain_instr_queue = << >>
  /\ gemm = Idle /\ drain = Idle
  /\ last_gemm_completed_id = 0 /\ last_drain_completed_id = 0
  /\ chan = [c \in Chans |-> << >>]
  /\ cmd = [c \in Cmds |-> << >>]
  /\ stage = [s \in Stages |-> [cmd |-> NoCmd, row |-> 0, held |-> << >>]]
  /\ regs = [s \in {"skew_a", "skew_b"} |->
               [lane \in Lanes |-> [k \in 1 .. lane |-> ZERO]]]
  /\ a_reg = [i \in Lanes |-> [j \in Lanes |-> ZERO]]
  /\ b_reg = [i \in Lanes |-> [j \in Lanes |-> ZERO]]
  /\ psum = [buf \in {0, 1} |-> [i \in Lanes |-> [j \in Lanes |-> EmptyBag]]]
  /\ C = [d \in Drains |-> [row \in Lanes |-> NULL]]
  /\ sleep = [t \in Threads |-> 0]
-----------------------------------------------------------------------------
is_gemm_complete(id)  == id <= last_gemm_completed_id
is_drain_complete(id) == id <= last_drain_completed_id

is_complete(id) ==
  IF Program[id].op = "gemm" THEN is_gemm_complete(id) ELSE is_drain_complete(id)

(* has_gemm_room and has_drain_room *)
has_room(queue) == Len(queue) < INSTR_QUEUE_SIZE

(* issue, called by TopModule::gemm or drain once the queue has room.      *)
Issue ==
  /\ issued < Len(Program)
  /\ LET id == issued + 1
     IN  /\ \A e \in After[id] : is_complete(e)
         /\ issued' = id
         /\ \/ /\ Program[id].op = "gemm"
               /\ has_room(gemm_instr_queue)
               /\ gemm_instr_queue' = Append(gemm_instr_queue, id)
               /\ UNCHANGED drain_instr_queue
            \/ /\ Program[id].op = "drain"
               /\ has_room(drain_instr_queue)
               /\ drain_instr_queue' = Append(drain_instr_queue, id)
               /\ UNCHANGED gemm_instr_queue
  /\ UNCHANGED <<gemm, drain, last_gemm_completed_id, last_drain_completed_id,
                 chan, cmd, stage, logicVars, C, sleep>>

Awake(t) == sleep[t] = 0

SleepFor(t, ticks) == sleep' = [sleep EXCEPT ![t] = ticks]
-----------------------------------------------------------------------------
(* ExecController::gemm_thread *)

(* Mutants: one zero row too few; as many zero rows as a gemm has rows. *)
GemmRows_ShortFlush(id) == IF Program[id].is_flush THEN 2 * DIM - 3 ELSE DIM

GemmRows_DimFlush(id) == DIM

GemmRows(id) == IF Program[id].is_flush THEN 2 * DIM - 2 ELSE DIM

GemmDequeue ==
  /\ gemm.step = "dequeue"
  /\ gemm_instr_queue # << >>
  /\ gemm' = [id |-> Head(gemm_instr_queue), row |-> 0, step |-> "gemm_cmd"]
  /\ gemm_instr_queue' = Tail(gemm_instr_queue)
  /\ UNCHANGED <<issued, last_gemm_completed_id, drainVars, chan, cmd, stage,
                 logicVars, sleep>>

GemmCmd(id) ==
  [psum_index |-> Program[id].psum_index, rows |-> GemmRows(id), id |-> id]

GemmCommand ==
  /\ gemm.step \in {"gemm_cmd", "skew_a_cmd", "skew_b_cmd"}
  /\ cmd[gemm.step] = << >>
  /\ cmd' = [cmd EXCEPT ![gemm.step] = <<GemmCmd(gemm.id)>>]
  /\ gemm' = [gemm EXCEPT !.step = CASE @ = "gemm_cmd"   -> "skew_a_cmd"
                                     [] @ = "skew_a_cmd" -> "skew_b_cmd"
                                     [] @ = "skew_b_cmd" -> "row"]
  /\ UNCHANGED <<issued, gemm_instr_queue, last_gemm_completed_id, drainVars,
                 chan, stage, logicVars, sleep>>

(* Mutant: a flush hands over its zero rows without waiting a cycle. *)
GemmRow_NoPace ==
  /\ gemm.step = "row"
  /\ gemm' = [gemm EXCEPT !.step = "a_to_skew_a"]
  /\ \/ /\ Program[gemm.id].is_flush
        /\ UNCHANGED sleep
     \/ /\ ~ Program[gemm.id].is_flush
        /\ \E queued \in 0 .. MAX_QUEUED : SleepFor("gemm", BANK_ACCESS_TIME + queued)
  /\ UNCHANGED <<issued, gemm_instr_queue, last_gemm_completed_id, drainVars,
                 chan, cmd, stage, logicVars>>

(* A flush waits a cycle for each row; a gemm asks the scratchpad for a    *)
(* row of A and one of B and waits for both, the later of them queued.     *)
GemmRow ==
  /\ gemm.step = "row"
  /\ gemm' = [gemm EXCEPT !.step = "a_to_skew_a"]
  /\ \/ /\ Program[gemm.id].is_flush
        /\ SleepFor("gemm", CYCLE_TIME)
     \/ /\ ~ Program[gemm.id].is_flush
        /\ \E queued \in 0 .. MAX_QUEUED : SleepFor("gemm", BANK_ACCESS_TIME + queued)
  /\ UNCHANGED <<issued, gemm_instr_queue, last_gemm_completed_id, drainVars,
                 chan, cmd, stage, logicVars>>

RowOf(id, row) == IF Program[id].is_flush THEN ZERO ELSE <<id, row>>

(* a_out->write, b_out->write and the end of the loop's body *)
GemmWrite ==
  /\ gemm.step \in {"a_to_skew_a", "b_to_skew_b"}
  /\ Awake("gemm")
  /\ chan[gemm.step] = << >>
  /\ chan' = [chan EXCEPT ![gemm.step] = <<RowOf(gemm.id, gemm.row)>>]
  /\ \/ /\ gemm.step = "a_to_skew_a"
        /\ gemm' = [gemm EXCEPT !.step = "b_to_skew_b"]
        /\ UNCHANGED sleep
     \/ /\ gemm.step = "b_to_skew_b"
        /\ gemm' = [gemm EXCEPT !.row = @ + 1,
                      !.step = IF gemm.row + 1 < GemmRows(gemm.id) THEN "row" ELSE "end"]
        /\ IF Program[gemm.id].is_flush /\ gemm.row + 1 = GemmRows(gemm.id)
           THEN SleepFor("gemm", PE_MAC_TIME)
           ELSE UNCHANGED sleep
  /\ UNCHANGED <<issued, gemm_instr_queue, last_gemm_completed_id, drainVars, cmd,
                 stage, logicVars>>

GemmEnd ==
  /\ gemm.step = "end"
  /\ Awake("gemm")
  /\ last_gemm_completed_id' = gemm.id
  /\ gemm' = Idle
  /\ UNCHANGED <<issued, gemm_instr_queue, drainVars, chan, cmd, stage, logicVars,
                 sleep>>
-----------------------------------------------------------------------------
(* ExecController::drain_thread *)

DrainDequeue ==
  /\ drain.step = "dequeue"
  /\ drain_instr_queue # << >>
  /\ drain' = [id |-> Head(drain_instr_queue), row |-> 0, step |-> "drain_cmd"]
  /\ drain_instr_queue' = Tail(drain_instr_queue)
  /\ UNCHANGED <<issued, gemmVars, last_drain_completed_id, C, chan, cmd, stage,
                 logicVars, sleep>>

DrainCmd(id) == [psum_index |-> Program[id].psum_index, rows |-> DIM, id |-> id]

DrainCommand ==
  /\ drain.step \in {"drain_cmd", "scaler_cmd"}
  /\ cmd[drain.step] = << >>
  /\ cmd' = [cmd EXCEPT ![drain.step] = <<DrainCmd(drain.id)>>]
  /\ drain' = [drain EXCEPT !.step = IF @ = "drain_cmd" THEN "scaler_cmd" ELSE "scaler_to_c"]
  /\ UNCHANGED <<issued, gemmVars, drain_instr_queue, last_drain_completed_id, C,
                 chan, stage, logicVars, sleep>>

(* c_vec_buf = c_in->read() and the request to the scratchpad, which       *)
(* writes the row before it answers                                        *)
DrainRow ==
  /\ drain.step = "scaler_to_c"
  /\ chan["scaler_to_c"] # << >>
  /\ C' = [C EXCEPT ![drain.id][drain.row] = Head(chan["scaler_to_c"])]
  /\ chan' = [chan EXCEPT !["scaler_to_c"] = << >>]
  /\ drain' = [drain EXCEPT !.step = "c_done"]
  /\ \E queued \in 0 .. MAX_QUEUED_C[drain.id] : SleepFor("drain", BANK_ACCESS_TIME + queued)
  /\ UNCHANGED <<issued, gemmVars, drain_instr_queue, last_drain_completed_id, cmd,
                 stage, logicVars>>

(* From wait(c_done) on: the next row, or the end *)
DrainNext ==
  /\ drain.step = "c_done"
  /\ Awake("drain")
  /\ \/ /\ drain.row + 1 < DIM
        /\ drain' = [drain EXCEPT !.row = @ + 1, !.step = "scaler_to_c"]
        /\ UNCHANGED last_drain_completed_id
     \/ /\ drain.row + 1 = DIM
        /\ drain' = Idle
        /\ last_drain_completed_id' = drain.id
  /\ UNCHANGED <<issued, gemmVars, drain_instr_queue, C, chan, cmd, stage, logicVars,
                 sleep>>
-----------------------------------------------------------------------------
(* The threads of SkewBufModule, PEArrayModule and ScalerModule: read a    *)
(* command, then for each of its rows read, compute, write and wait.       *)

CmdOf(s) == CASE s = "skew_a"      -> "skew_a_cmd"
              [] s = "skew_b"      -> "skew_b_cmd"
              [] s = "array_gemm"  -> "gemm_cmd"
              [] s = "array_drain" -> "drain_cmd"
              [] s = "scaler"      -> "scaler_cmd"

InputOf(s) == CASE s = "skew_a" -> "a_to_skew_a"
                [] s = "skew_b" -> "b_to_skew_b"
                [] s = "scaler" -> "pe_array_to_scaler"

OutputOf(s) == CASE s = "skew_a"      -> "skew_a_to_pe_array"
                 [] s = "skew_b"      -> "skew_b_to_pe_array"
                 [] s = "array_drain" -> "pe_array_to_scaler"
                 [] s = "scaler"      -> "scaler_to_c"

TimeOf(s) == CASE s \in {"skew_a", "skew_b"} -> SKEW_BUF_SHIFT_TIME
               [] s = "array_gemm"           -> PE_MAC_TIME
               [] s = "array_drain"          -> PE_DRAIN_TIME
               [] s = "scaler"               -> SCALER_SCALE_TIME

InRowLoop(s) == Awake(s) /\ stage[s].row < stage[s].cmd.rows

StageCommand(s) ==
  /\ Awake(s)
  /\ stage[s].row = stage[s].cmd.rows
  /\ cmd[CmdOf(s)] # << >>
  /\ stage' = [stage EXCEPT ![s] = [cmd |-> Head(cmd[CmdOf(s)]), row |-> 0, held |-> << >>]]
  /\ cmd' = [cmd EXCEPT ![CmdOf(s)] = << >>]
  /\ UNCHANGED <<issued, execVars, chan, logicVars, C, sleep>>

(* The write of a stage and its wait(time) *)
StageWrite(s) ==
  /\ s # "array_gemm"
  /\ Awake(s)
  /\ stage[s].held # << >>
  /\ chan[OutputOf(s)] = << >>
  /\ chan' = [chan EXCEPT ![OutputOf(s)] = stage[s].held]
  /\ stage' = [stage EXCEPT ![s].held = << >>, ![s].row = @ + 1]
  /\ SleepFor(s, TimeOf(s))
  /\ UNCHANGED <<issued, execVars, cmd, logicVars, C>>

(* SkewBufModule reads a row and shifts it: lane i comes out i shifts later. *)
SkewShift(s) ==
  /\ s \in {"skew_a", "skew_b"}
  /\ InRowLoop(s) /\ stage[s].held = << >>
  /\ chan[InputOf(s)] # << >>
  /\ LET line(lane) == chan[InputOf(s)] \o regs[s][lane]
     IN  /\ stage' = [stage EXCEPT ![s].held = <<[lane \in Lanes |-> line(lane)[lane + 1]]>>]
         /\ regs' = [regs EXCEPT ![s] = [lane \in Lanes |-> SubSeq(line(lane), 1, lane)]]
  /\ chan' = [chan EXCEPT ![InputOf(s)] = << >>]
  /\ UNCHANGED <<issued, execVars, cmd, a_reg, b_reg, psum, C, sleep>>

(* PEArrayModule::gemm_thread reads a row of A ... *)
ArrayReadA ==
  /\ InRowLoop("array_gemm") /\ stage["array_gemm"].held = << >>
  /\ chan["skew_a_to_pe_array"] # << >>
  /\ stage' = [stage EXCEPT !["array_gemm"].held = chan["skew_a_to_pe_array"]]
  /\ chan' = [chan EXCEPT !["skew_a_to_pe_array"] = << >>]
  /\ UNCHANGED <<issued, execVars, cmd, logicVars, C, sleep>>

(* PEArrayLogic::shift_in: A moves right, B moves down, and every PE adds  *)
(* the product of what it holds.                                           *)
shift_in(a_vec, b_vec, buf) ==
  LET a == [i \in Lanes |-> [j \in Lanes |-> IF j = 0 THEN a_vec[i] ELSE a_reg[i][j - 1]]]
      b == [i \in Lanes |-> [j \in Lanes |-> IF i = 0 THEN b_vec[j] ELSE b_reg[i - 1][j]]]
  IN  /\ a_reg' = a
      /\ b_reg' = b
      /\ psum' = [psum EXCEPT ![buf] =
           [i \in Lanes |-> [j \in Lanes |->
              IF ZERO \in {a[i][j], b[i][j]} THEN psum[buf][i][j]
              ELSE psum[buf][i][j] (+) SetToBag({<<a[i][j], b[i][j]>>})]]]

(* ... and one of B, and shifts them in. *)
ArrayShift ==
  /\ InRowLoop("array_gemm") /\ stage["array_gemm"].held # << >>
  /\ chan["skew_b_to_pe_array"] # << >>
  /\ shift_in(Head(stage["array_gemm"].held), Head(chan["skew_b_to_pe_array"]),
              stage["array_gemm"].cmd.psum_index)
  /\ chan' = [chan EXCEPT !["skew_b_to_pe_array"] = << >>]
  /\ stage' = [stage EXCEPT !["array_gemm"].held = << >>, !["array_gemm"].row = @ + 1]
  /\ SleepFor("array_gemm", PE_MAC_TIME)
  /\ UNCHANGED <<issued, execVars, cmd, regs, C>>

(* Mutant: the buffer is not cleared. *)
ArrayShiftOut_KeepsPsum ==
  LET s == stage["array_drain"]
  IN  /\ InRowLoop("array_drain") /\ s.held = << >>
      /\ stage' = [stage EXCEPT !["array_drain"].held = <<psum[s.cmd.psum_index][s.row]>>]
      /\ UNCHANGED <<issued, execVars, chan, cmd, logicVars, C, sleep>>

(* PEArrayLogic::shift_out, in PEArrayModule::drain_thread *)
ArrayShiftOut ==
  LET s == stage["array_drain"]
  IN  /\ InRowLoop("array_drain") /\ s.held = << >>
      /\ stage' = [stage EXCEPT !["array_drain"].held = <<psum[s.cmd.psum_index][s.row]>>]
      /\ psum' = [psum EXCEPT ![s.cmd.psum_index][s.row] = [j \in Lanes |-> EmptyBag]]
      /\ UNCHANGED <<issued, execVars, chan, cmd, regs, a_reg, b_reg, C, sleep>>

(* ScalerModule reads a row and scales it by its command's factor. *)
ScalerScale ==
  LET s == stage["scaler"]
  IN  /\ InRowLoop("scaler") /\ s.held = << >>
      /\ chan["pe_array_to_scaler"] # << >>
      /\ stage' = [stage EXCEPT !["scaler"].held =
                     <<[acc |-> Head(chan["pe_array_to_scaler"]), scale_factor |-> s.cmd.id]>>]
      /\ chan' = [chan EXCEPT !["pe_array_to_scaler"] = << >>]
      /\ UNCHANGED <<issued, execVars, cmd, logicVars, C, sleep>>
-----------------------------------------------------------------------------
GemmThread  == GemmDequeue \/ GemmCommand \/ GemmRow \/ GemmWrite \/ GemmEnd
DrainThread == DrainDequeue \/ DrainCommand \/ DrainRow \/ DrainNext
ArrayThreads == ArrayReadA \/ ArrayShift \/ ArrayShiftOut
StageThread(s) == StageCommand(s) \/ StageWrite(s) \/ SkewShift(s)

Step ==
  \/ GemmThread \/ DrainThread \/ ArrayThreads \/ ScalerScale
  \/ \E s \in Stages : StageThread(s)

(* A thread that neither sleeps nor waits for a FIFO can run. *)
GemmCanRun ==
  \/ gemm.step = "dequeue" /\ gemm_instr_queue # << >>
  \/ gemm.step \in Cmds /\ cmd[gemm.step] = << >>
  \/ gemm.step = "row"
  \/ gemm.step \in Chans /\ Awake("gemm") /\ chan[gemm.step] = << >>
  \/ gemm.step = "end" /\ Awake("gemm")

DrainCanRun ==
  \/ drain.step = "dequeue" /\ drain_instr_queue # << >>
  \/ drain.step \in Cmds /\ cmd[drain.step] = << >>
  \/ drain.step = "scaler_to_c" /\ chan["scaler_to_c"] # << >>
  \/ drain.step = "c_done" /\ Awake("drain")

(* What a stage's thread reads in its row loop has arrived. *)
HasInput(s) ==
  CASE s \in {"skew_a", "skew_b", "scaler"} -> stage[s].held = << >> /\ chan[InputOf(s)] # << >>
    [] s = "array_gemm"  -> IF stage[s].held = << >> THEN chan["skew_a_to_pe_array"] # << >>
                                                     ELSE chan["skew_b_to_pe_array"] # << >>
    [] s = "array_drain" -> stage[s].held = << >>

StageCanRun(s) ==
  /\ Awake(s)
  /\ \/ stage[s].row = stage[s].cmd.rows /\ cmd[CmdOf(s)] # << >>
     \/ s # "array_gemm" /\ stage[s].held # << >> /\ chan[OutputOf(s)] = << >>
     \/ InRowLoop(s) /\ HasInput(s)

(* Time passes when no thread can run. *)
Tick ==
  /\ ~ GemmCanRun /\ ~ DrainCanRun /\ \A s \in Stages : ~ StageCanRun(s)
  /\ \E t \in Threads : sleep[t] > 0
  /\ sleep' = [t \in Threads |-> IF sleep[t] > 0 THEN sleep[t] - 1 ELSE 0]
  /\ UNCHANGED <<issued, execVars, chan, cmd, stage, logicVars, C>>

Next == Issue \/ Step \/ Tick

(* The kernel runs every thread that can run and advances time. *)
Spec == Init /\ [][Next]_vars /\ WF_vars(Step) /\ WF_vars(Tick)
-----------------------------------------------------------------------------
(* The rows of all tiles *)
Rows == Gemms \X Lanes

(* The variables hold values of their types and no queue overflows. *)
TypeOK ==
  /\ issued \in 0 .. Len(Program)
  /\ Len(gemm_instr_queue) <= INSTR_QUEUE_SIZE /\ Len(drain_instr_queue) <= INSTR_QUEUE_SIZE
  /\ gemm.id \in Gemms \cup {0} /\ gemm.row \in 0 .. 2 * DIM
  /\ drain.id \in Drains \cup {0} /\ drain.row \in Lanes
  /\ last_gemm_completed_id \in Gemms \cup {0}
  /\ last_drain_completed_id \in Drains \cup {0}
  /\ \A c \in {"a_to_skew_a", "b_to_skew_b"} : chan[c] \in Seq(Rows \cup {ZERO})
  /\ \A s \in Stages : stage[s].row \in 0 .. stage[s].cmd.rows
  /\ \A i, j \in Lanes : a_reg[i][j] \in Rows \cup {ZERO} /\ b_reg[i][j] \in Rows \cup {ZERO}
  /\ \A buf \in {0, 1}, i, j \in Lanes : BagToSet(psum[buf][i][j]) \subseteq Rows \X Rows
  /\ \A t \in Threads : sleep[t] \in Nat

(* The comment in gemm_thread: the stream into the skew buffers never      *)
(* carries two rows in one cycle, so no row waits for room in a FIFO and   *)
(* gemm_thread's own count of cycles is the array's.                       *)
StreamNeverStalls ==
  Awake("gemm") /\ gemm.step \in {"a_to_skew_a", "b_to_skew_b"} => chan[gemm.step] = << >>

(* An instruction is complete for a caller as soon as is_complete says so. *)
Array == INSTANCE TileProduct WITH
  completed <- {id \in 1 .. issued : is_complete(id)}

(* A row written is not a row not written. *)
ASSUME NullAssumption == \A d \in Drains : Array!ProductRow(d) # NULL

(* A flush is reported complete only when the array has accumulated the    *)
(* whole chain: until the drain takes its first row, the buffer holds the  *)
(* product of every gemm since the last drain.                             *)
FlushClosesChain ==
  \A d \in Drains :
    /\ \A e \in 1 .. d - 1 :
         Program[e].psum_index = Program[d].psum_index => is_complete(e)
    /\ drain.id # d /\ ~ is_drain_complete(d)
    => \A i, j \in Lanes : psum[Program[d].psum_index][i][j] = Array!Product(d)

(* Every drain writes each row of its chain's product, scaled by its own   *)
(* factor, into the scratchpad and is complete only then; gemms and drains *)
(* on the two buffers do not disturb each other, and everything issued     *)
(* completes.                                                              *)
ImplementsTileProduct == Array!Spec
=============================================================================
