--------------------------- MODULE ExecEngine_proofs ---------------------------
(***************************************************************************)
(* Theorems about ExecEngine, for every size of the array, every program   *)
(* and all times and delays, under two hypotheses:                         *)
(*                                                                         *)
(*   Paced        a row takes a skew buffer and the array no longer than   *)
(*                gemm_thread takes for the next one, a cycle or an access *)
(*   IssuerWaits  a gemm and a drain on one psum buffer do not overlap,    *)
(*                which is what the scoreboard and schedulers A and B see  *)
(*                to                                                       *)
(*                                                                         *)
(* The inductive invariant follows one row through the pipeline.  At most  *)
(* one is under way, and no time passes while it is (InPace), so that      *)
(* gemm_thread's count of cycles is the array's (FlushWaits).  Then the    *)
(* array's registers are the last rows of the stream, one diagonal each    *)
(* (Diagonals), and the skew buffers hold their beginnings (Skews); those  *)
(* of one chain at a time (InArray).  A psum is the sum of the rows that   *)
(* have passed its place since the last drain of its row of the buffer     *)
(* (Accumulated), and a row of C is the scaled product of its chain once   *)
(* drain_thread has written it (Drained).  The counts of rows that each    *)
(* stage has still to pass on (Balanced, DrainBalanced) tie the stages'    *)
(* commands to the threads' instructions (ArrayAt, DrainAt).               *)
(***************************************************************************)
EXTENDS ExecEngine, SequenceTheorems, FunctionTheorems, FiniteSetTheorems, TLAPS

(* What config.h chooses: all of these times are a cycle.  The run         *)
(* SlowMac.cfg shows what goes wrong without.                              *)
Paced ==
  /\ SKEW_BUF_SHIFT_TIME <= CYCLE_TIME /\ SKEW_BUF_SHIFT_TIME <= BANK_ACCESS_TIME
  /\ PE_MAC_TIME <= CYCLE_TIME /\ PE_MAC_TIME <= BANK_ACCESS_TIME

(* Scheduler C's order is outside: the run MCExecEngine.cfg is about it.   *)
IssuerWaits == \A id \in Ids : NoOverlap[id] \subseteq After[id]
-----------------------------------------------------------------------------
(* What the invariant is made of *)

(* A FIFO of depth one *)
OneOrNone(q) == q = << >> \/ q = <<Head(q)>>
Full(q) == IF q = << >> THEN 0 ELSE 1

GemmSteps == {"dequeue", "gemm_cmd", "skew_a_cmd", "skew_b_cmd", "row",
              "a_to_skew_a", "b_to_skew_b", "end"}
DrainSteps == {"dequeue", "drain_cmd", "scaler_cmd", "scaler_to_c", "c_done"}
Commands == [psum_index : {0, 1}, rows : Nat, id : Ids \cup {0}]

StageTypes ==
  /\ stage = [s \in Stages |-> [cmd |-> stage[s].cmd, row |-> stage[s].row, held |-> stage[s].held]]
  /\ \A s \in Stages : /\ stage[s].cmd \in Commands
                       /\ stage[s].row \in 0 .. stage[s].cmd.rows
                       /\ OneOrNone(stage[s].held)
                       /\ stage[s].held # << >> => stage[s].row < stage[s].cmd.rows

EngineTypes ==
  /\ issued \in 0 .. Len(Program)
  /\ gemm_instr_queue \in Seq(Gemms) /\ drain_instr_queue \in Seq(Drains)
  /\ gemm \in [id : Gemms \cup {0}, row : Nat, step : GemmSteps]
  /\ drain \in [id : Drains \cup {0}, row : Nat, step : DrainSteps]
  /\ last_gemm_completed_id \in Gemms \cup {0}
  /\ last_drain_completed_id \in Drains \cup {0}
  /\ chan = [c \in Chans |-> chan[c]] /\ \A c \in Chans : OneOrNone(chan[c])
  /\ cmd = [c \in Cmds |-> cmd[c]]
  /\ \A c \in Cmds : OneOrNone(cmd[c]) /\ (cmd[c] # << >> => Head(cmd[c]) \in Commands)
  /\ StageTypes
  /\ sleep \in [Threads -> Nat]

(* Where gemm_thread is in its instruction *)
GemmPlace ==
  /\ gemm.step = "dequeue" <=> gemm.id = 0
  /\ gemm.step \in {"gemm_cmd", "skew_a_cmd", "skew_b_cmd"} => gemm.row = 0
  /\ gemm.step \in {"row", "a_to_skew_a", "b_to_skew_b"} => gemm.row < GemmRows(gemm.id)
  /\ gemm.step = "end" => gemm.row = GemmRows(gemm.id)

(* Rows a stage has still to pass on for its command, and for the command  *)
(* behind it                                                               *)
Left(s) == stage[s].cmd.rows - stage[s].row
Ordered(c) == IF cmd[c] = << >> THEN 0 ELSE Head(cmd[c]).rows

(* Rows gemm_thread has still to write for the commands that it has given  *)
ToWrite(steps) ==
  IF gemm.step \in steps THEN GemmRows(gemm.id) - gemm.row ELSE 0
WrittenA == IF gemm.step = "b_to_skew_b" THEN 1 ELSE 0

InSkewA == Full(chan["a_to_skew_a"]) + Full(stage["skew_a"].held)
InSkewB == Full(chan["b_to_skew_b"]) + Full(stage["skew_b"].held)
FlightA == InSkewA + Full(chan["skew_a_to_pe_array"]) + Full(stage["array_gemm"].held)
FlightB == InSkewB + Full(chan["skew_b_to_pe_array"])

Loop == {"row", "a_to_skew_a", "b_to_skew_b"}

Balanced ==
  /\ Left("skew_a") + Ordered("skew_a_cmd") + WrittenA = ToWrite({"skew_b_cmd"} \cup Loop) + InSkewA
  /\ Left("skew_b") + Ordered("skew_b_cmd") = ToWrite(Loop) + InSkewB
  /\ Left("array_gemm") + Ordered("gemm_cmd") + WrittenA
       = ToWrite({"skew_a_cmd", "skew_b_cmd"} \cup Loop) + FlightA

(* The shortest time between two rows of the stream *)
Pace == IF CYCLE_TIME <= BANK_ACCESS_TIME THEN CYCLE_TIME ELSE BANK_ACCESS_TIME

(* No time after which the next row is written is shorter. *)
UntilA == IF gemm.step = "a_to_skew_a" THEN sleep["gemm"] ELSE Pace
UntilB == IF gemm.step \in {"a_to_skew_a", "b_to_skew_b"} THEN sleep["gemm"] ELSE Pace

(* At most one row is under way, and no time has passed since it was       *)
(* written; the stages before it are awake in time for the next.           *)
InPace ==
  /\ FlightA <= 1 /\ FlightA = FlightB + WrittenA
  /\ FlightA = 1 => UntilA >= Pace /\ sleep["array_gemm"] = 0
  /\ InSkewA = 1 => sleep["skew_a"] = 0
  /\ InSkewB = 1 => sleep["skew_b"] = 0
  /\ sleep["skew_a"] <= UntilA /\ sleep["array_gemm"] <= UntilA /\ sleep["skew_b"] <= UntilB
  /\ gemm.step = "b_to_skew_b" => sleep["gemm"] = 0

(* What is issued and not dequeued is in the queue, in order. *)
Ahead(S, front, last) == {id \in S : front < id /\ id <= last}
InOrder(S, front, last, queue) ==
  /\ front <= last
  /\ {queue[k] : k \in 1 .. Len(queue)} = Ahead(S, front, last)
  /\ \A k, l \in 1 .. Len(queue) : k < l => queue[k] < queue[l]
NoneBetween(S, first, last) == first < last /\ \A id \in S : ~ (first < id /\ id < last)

GemmFront == IF gemm.id = 0 THEN last_gemm_completed_id ELSE gemm.id
DrainFront == IF drain.id = 0 THEN last_drain_completed_id ELSE drain.id

GemmsInOrder ==
  /\ InOrder(Gemms, GemmFront, issued, gemm_instr_queue)
  /\ gemm.id # 0 => NoneBetween(Gemms, last_gemm_completed_id, gemm.id)
DrainsInOrder ==
  /\ InOrder(Drains, DrainFront, issued, drain_instr_queue)
  /\ drain.id # 0 => NoneBetween(Drains, last_drain_completed_id, drain.id)
WaitedFor == \A id \in 1 .. issued : \A e \in After[id] : is_complete(e)

Orders == GemmsInOrder /\ DrainsInOrder /\ WaitedFor

ArrayAt ==
  /\ cmd["gemm_cmd"] # << >> =>
       gemm.step \notin {"dequeue", "gemm_cmd"} /\ Head(cmd["gemm_cmd"]) = GemmCmd(gemm.id)
  /\ stage["array_gemm"].cmd.id =
       IF gemm.step \in {"dequeue", "gemm_cmd"} \/ cmd["gemm_cmd"] # << >>
       THEN last_gemm_completed_id ELSE gemm.id
  /\ stage["array_gemm"].cmd =
       IF stage["array_gemm"].cmd.id = 0 THEN NoCmd ELSE GemmCmd(stage["array_gemm"].cmd.id)

IsFlush(id) == id # 0 /\ Program[id].is_flush

FlushWaits ==
  /\ gemm.step = "end" /\ IsFlush(gemm.id) => sleep["gemm"] >= 1 \/ FlightA = 0
  /\ IsFlush(last_gemm_completed_id) /\ stage["array_gemm"].cmd.id = last_gemm_completed_id
       => Left("array_gemm") = 0

Hist(k) == IF k < DIM THEN a_reg[0][k] ELSE a_reg[k - DIM + 1][DIM - 1]

Diagonals ==
  /\ a_reg = [i \in Lanes |-> [j \in Lanes |-> Hist(i + j)]]
  /\ b_reg = [i \in Lanes |-> [j \in Lanes |-> Hist(i + j)]]

NextRow ==
  IF Left("array_gemm") > 0 THEN RowOf(stage["array_gemm"].cmd.id, stage["array_gemm"].row)
                            ELSE RowOf(Head(cmd["gemm_cmd"]).id, 0)

(* What lane's shift register holds, and what comes out behind row x *)
AtRest(s) == regs[s] = [lane \in Lanes |-> [k \in 1 .. lane |-> Hist(k - 1)]]
OneAhead(s) ==
  regs[s] = [lane \in Lanes |-> [k \in 1 .. lane |-> IF k = 1 THEN NextRow ELSE Hist(k - 2)]]
SkewedRow == [lane \in Lanes |-> IF lane = 0 THEN NextRow ELSE Hist(lane - 1)]

Side(s, in, places) ==
  /\ in # << >> => in = <<NextRow>>
  /\ \A q \in places : q # << >> => q = <<SkewedRow>>
  /\ IF \A q \in places : q = << >> THEN AtRest(s) ELSE OneAhead(s)

Skews ==
  /\ regs = [s \in {"skew_a", "skew_b"} |-> regs[s]]
  /\ Side("skew_a", chan["a_to_skew_a"],
          {stage["skew_a"].held, chan["skew_a_to_pe_array"], stage["array_gemm"].held})
  /\ Side("skew_b", chan["b_to_skew_b"], {stage["skew_b"].held, chan["skew_b_to_pe_array"]})

Shifted(r) ==
  \/ r[1] < stage["array_gemm"].cmd.id
  \/ r[1] = stage["array_gemm"].cmd.id /\ r[2] < stage["array_gemm"].row

Steps == 0 .. 2 * DIM - 3

(* Rows of the chain, one flush not yet through *)
InArray ==
  \A k \in Steps : Hist(k) # ZERO =>
    LET r == Hist(k)
    IN  /\ r \in Rows /\ ~ IsFlush(r[1]) /\ Shifted(r)
        /\ Program[r[1]].psum_index = stage["array_gemm"].cmd.psum_index
        /\ \A f \in Gemms : IsFlush(f) /\ r[1] < f =>
             /\ f >= stage["array_gemm"].cmd.id
             /\ f = stage["array_gemm"].cmd.id => stage["array_gemm"].row <= k
        /\ \A l \in Steps : Hist(l) = r => l = k

(* Where drain_thread is in its instruction *)
DrainPlace ==
  /\ drain.step = "dequeue" <=> drain.id = 0
  /\ drain.step \in {"drain_cmd", "scaler_cmd"} => drain.row = 0
  /\ drain.step \in {"scaler_to_c", "c_done"} => drain.row < DIM

ToRead(steps) ==
  IF drain.step \in steps THEN DIM - drain.row - (IF drain.step = "c_done" THEN 1 ELSE 0) ELSE 0

DrainBalanced ==
  /\ Left("array_drain") + Ordered("drain_cmd") + Full(chan["pe_array_to_scaler"])
       + Full(stage["scaler"].held) + Full(chan["scaler_to_c"])
     = ToRead({"scaler_cmd", "scaler_to_c", "c_done"})
  /\ Left("scaler") + Ordered("scaler_cmd") + Full(chan["scaler_to_c"])
     = ToRead({"scaler_to_c", "c_done"})

CommandAt(c, s, steps) ==
  /\ cmd[c] # << >> => drain.step \notin steps /\ Head(cmd[c]) = DrainCmd(drain.id)
  /\ stage[s].cmd.id =
       IF drain.step \in steps \/ cmd[c] # << >> THEN last_drain_completed_id ELSE drain.id
  /\ stage[s].cmd = IF stage[s].cmd.id = 0 THEN NoCmd ELSE DrainCmd(stage[s].cmd.id)

DrainAt ==
  /\ CommandAt("drain_cmd", "array_drain", {"dequeue", "drain_cmd"})
  /\ CommandAt("scaler_cmd", "scaler", {"dequeue", "drain_cmd", "scaler_cmd"})

PassedBy(e, i) ==
  LET s == stage["array_drain"]
  IN  e < s.cmd.id \/ (e = s.cmd.id /\ (i < s.row \/ (i = s.row /\ s.held # << >>)))

Arrived(p, i) ==
  {r \in Rows : /\ Program[r[1]].psum_index = p /\ ~ IsFlush(r[1]) /\ Shifted(r)
                /\ \A e \in Drains : Program[e].psum_index = p /\ PassedBy(e, i) => e < r[1]}
Behind(n) == {Hist(k) : k \in 0 .. n - 1}
Sums(S) == SetToBag({<<r, r>> : r \in S})
Accumulated ==
  psum = [p \in {0, 1} |-> [i \in Lanes |-> [j \in Lanes |-> Sums(Arrived(p, i) \ Behind(i + j))]]]

ProductOf(d) == [j \in Lanes |-> Array!Product(d)]
Written(d, row) ==
  \/ d <= last_drain_completed_id
  \/ d = drain.id /\ (row < drain.row \/ (row = drain.row /\ drain.step = "c_done"))
UnderWay ==
  /\ stage["array_drain"].held # << >> => stage["array_drain"].held = <<ProductOf(drain.id)>>
  /\ chan["pe_array_to_scaler"] # << >> => chan["pe_array_to_scaler"] = <<ProductOf(drain.id)>>
  /\ stage["scaler"].held # << >> => stage["scaler"].held = <<Array!ProductRow(drain.id)>>
  /\ chan["scaler_to_c"] # << >> => chan["scaler_to_c"] = <<Array!ProductRow(drain.id)>>

Drained ==
  /\ UnderWay
  /\ C = [d \in Drains |-> [row \in Lanes |->
            IF Written(d, row) THEN Array!ProductRow(d) ELSE NULL]]

-----------------------------------------------------------------------------
(* The constants *)

LEMMA Programs ==
  ASSUME NEW id \in Ids
  PROVE  /\ id \in Nat \ {0} /\ Program[id].psum_index \in {0, 1}
         /\ Program[id].op \in {"gemm", "drain"} /\ Program[id].is_flush \in BOOLEAN
         /\ GemmRows(id) \in Nat /\ GemmRows(id) >= 2
         /\ id \in Gemms \/ id \in Drains
<1>1. id \in Nat \ {0} /\ id \in 1 .. Len(Program)
  BY ProgramAssumption DEF Ids
<1>2. Program[id] \in [op : {"gemm", "drain"}, psum_index : {0, 1}, is_flush : BOOLEAN]
  BY <1>1, ProgramAssumption, ElementOfSeq
<1>3. /\ Program[id].psum_index \in {0, 1} /\ Program[id].op \in {"gemm", "drain"}
      /\ Program[id].is_flush \in BOOLEAN
  BY <1>2
<1>4. GemmRows(id) \in Nat /\ GemmRows(id) >= 2
  BY SizeAssumption DEF GemmRows
<1>5. QED
  BY <1>1, <1>3, <1>4 DEF Gemms, Drains

LEMMA TimesOf ==
  /\ CYCLE_TIME \in Nat \ {0} /\ BANK_ACCESS_TIME \in Nat \ {0} /\ PE_MAC_TIME \in Nat \ {0}
  /\ PE_DRAIN_TIME \in Nat \ {0} /\ SCALER_SCALE_TIME \in Nat \ {0}
  /\ SKEW_BUF_SHIFT_TIME \in Nat \ {0} /\ MAX_QUEUED \in Nat
  /\ Pace \in Nat \ {0} /\ Pace <= CYCLE_TIME /\ Pace <= BANK_ACCESS_TIME
<1>1. 1 \in DOMAIN Times /\ 2 \in DOMAIN Times /\ 3 \in DOMAIN Times /\ 4 \in DOMAIN Times
      /\ 5 \in DOMAIN Times /\ 6 \in DOMAIN Times
  BY DEF Times
<1>2. /\ Times[1] = CYCLE_TIME /\ Times[2] = BANK_ACCESS_TIME /\ Times[3] = PE_MAC_TIME
      /\ Times[4] = PE_DRAIN_TIME /\ Times[5] = SCALER_SCALE_TIME /\ Times[6] = SKEW_BUF_SHIFT_TIME
  BY DEF Times
<1>3. QED
  BY <1>1, <1>2, TimeAssumption, QueueAssumption DEF Pace

LEMMA TimesOfStages ==
  ASSUME NEW s \in Stages
  PROVE  TimeOf(s) \in Nat \ {0}
  BY TimesOf DEF Stages, TimeOf

LEMMA Wiring ==
  /\ CmdOf("skew_a") = "skew_a_cmd" /\ CmdOf("skew_b") = "skew_b_cmd"
  /\ CmdOf("array_gemm") = "gemm_cmd" /\ CmdOf("array_drain") = "drain_cmd"
  /\ CmdOf("scaler") = "scaler_cmd"
  /\ InputOf("skew_a") = "a_to_skew_a" /\ InputOf("skew_b") = "b_to_skew_b"
  /\ InputOf("scaler") = "pe_array_to_scaler"
  /\ OutputOf("skew_a") = "skew_a_to_pe_array" /\ OutputOf("skew_b") = "skew_b_to_pe_array"
  /\ OutputOf("array_drain") = "pe_array_to_scaler" /\ OutputOf("scaler") = "scaler_to_c"
  /\ TimeOf("skew_a") = SKEW_BUF_SHIFT_TIME /\ TimeOf("skew_b") = SKEW_BUF_SHIFT_TIME
  /\ \A s \in Stages : CmdOf(s) \in Cmds
  /\ \A s \in Stages \ {"array_gemm"} : OutputOf(s) \in Chans
  BY DEF CmdOf, InputOf, OutputOf, TimeOf, Stages, Cmds, Chans

-----------------------------------------------------------------------------
(* What a step of a stage's thread does to the stages *)

SetStage(s, command, row, held) ==
  /\ stage'[s].cmd = command /\ stage'[s].row = row /\ stage'[s].held = held
  /\ \A t \in Stages \ {s} : stage'[t] = stage[t]
  /\ stage' = [t \in Stages |-> [cmd |-> stage'[t].cmd, row |-> stage'[t].row, held |-> stage'[t].held]]

LEMMA StageSet ==
  ASSUME NEW s \in Stages, NEW command, NEW row, NEW held,
         stage = [t \in Stages |-> [cmd |-> stage[t].cmd, row |-> stage[t].row, held |-> stage[t].held]],
         stage'[s] = [cmd |-> command, row |-> row, held |-> held],
         \E v : stage' = [stage EXCEPT ![s] = v]
  PROVE  SetStage(s, command, row, held)
<1>1. stage' = [stage EXCEPT ![s] = stage'[s]]
  OBVIOUS
<1>2. \A t \in Stages \ {s} : stage'[t] = stage[t]
  BY <1>1
<1>3. stage' = [t \in Stages |-> stage'[t]]
  BY <1>1
<1>4. \A t \in Stages : stage'[t] = [cmd |-> stage'[t].cmd, row |-> stage'[t].row, held |-> stage'[t].held]
  <2>1. stage'[s] = [cmd |-> stage'[s].cmd, row |-> stage'[s].row, held |-> stage'[s].held]
    OBVIOUS
  <2>2. QED
    BY <1>2, <2>1
<1>5. QED
  BY <1>2, <1>3, <1>4 DEF SetStage

LEMMA HeldSet ==
  ASSUME EngineTypes, NEW s \in Stages, NEW held, stage' = [stage EXCEPT ![s].held = held]
  PROVE  SetStage(s, stage[s].cmd, stage[s].row, held)
<1>1. /\ stage = [t \in Stages |-> [cmd |-> stage[t].cmd, row |-> stage[t].row, held |-> stage[t].held]]
      /\ stage[s] = [cmd |-> stage[s].cmd, row |-> stage[s].row, held |-> stage[s].held]
  BY DEF EngineTypes, StageTypes
<1>2. stage'[s] = [cmd |-> stage[s].cmd, row |-> stage[s].row, held |-> held]
  BY <1>1
<1>3. QED
  BY <1>1, <1>2, StageSet

LEMMA PassedOnSet ==
  ASSUME EngineTypes, NEW s \in Stages, NEW held,
         stage' = [stage EXCEPT ![s].held = held, ![s].row = @ + 1]
  PROVE  SetStage(s, stage[s].cmd, stage[s].row + 1, held)
<1>1. /\ stage = [t \in Stages |-> [cmd |-> stage[t].cmd, row |-> stage[t].row, held |-> stage[t].held]]
      /\ stage[s] = [cmd |-> stage[s].cmd, row |-> stage[s].row, held |-> stage[s].held]
  BY DEF EngineTypes, StageTypes
<1>2. stage'[s] = [cmd |-> stage[s].cmd, row |-> stage[s].row + 1, held |-> held]
  BY <1>1
<1>3. QED
  BY <1>1, <1>2, StageSet

LEMMA CommandSet ==
  ASSUME EngineTypes, NEW s \in Stages, NEW command,
         stage' = [stage EXCEPT ![s] = [cmd |-> command, row |-> 0, held |-> << >>]]
  PROVE  SetStage(s, command, 0, << >>)
<1>1. stage = [t \in Stages |-> [cmd |-> stage[t].cmd, row |-> stage[t].row, held |-> stage[t].held]]
  BY DEF EngineTypes, StageTypes
<1>2. stage'[s] = [cmd |-> command, row |-> 0, held |-> << >>]
  BY <1>1
<1>3. QED
  BY <1>1, <1>2, StageSet

LEMMA SetStageTypes ==
  ASSUME EngineTypes, NEW s \in Stages, NEW command \in Commands, NEW row \in 0 .. command.rows,
         NEW held, OneOrNone(held), held # << >> => row < command.rows,
         SetStage(s, command, row, held)
  PROVE  StageTypes'
  BY DEF EngineTypes, StageTypes, SetStage

(* A queue for one gets or gives up its entry. *)
SetChan(c, entry) ==
  /\ chan' = [x \in Chans |-> chan'[x]] /\ chan'[c] = entry
  /\ \A x \in Chans \ {c} : chan'[x] = chan[x]

LEMMA ChanSet ==
  ASSUME EngineTypes, NEW c \in Chans, NEW entry, OneOrNone(entry), chan' = [chan EXCEPT ![c] = entry]
  PROVE  SetChan(c, entry) /\ \A x \in Chans : OneOrNone(chan'[x])
  BY DEF EngineTypes, SetChan, OneOrNone

SetCmd(c, entry) ==
  /\ cmd' = [x \in Cmds |-> cmd'[x]] /\ cmd'[c] = entry
  /\ \A x \in Cmds \ {c} : cmd'[x] = cmd[x]

LEMMA CmdSet ==
  ASSUME EngineTypes, NEW c \in Cmds, NEW entry, OneOrNone(entry),
         entry # << >> => Head(entry) \in Commands, cmd' = [cmd EXCEPT ![c] = entry]
  PROVE  /\ SetCmd(c, entry)
         /\ \A x \in Cmds : OneOrNone(cmd'[x]) /\ (cmd'[x] # << >> => Head(cmd'[x]) \in Commands)
  BY DEF EngineTypes, SetCmd, OneOrNone

LEMMA Singles ==
  /\ OneOrNone(<< >>) /\ Full(<< >>) = 0
  /\ \A v : OneOrNone(<<v>>) /\ <<v>> # << >> /\ Full(<<v>>) = 1 /\ Head(<<v>>) = v
  /\ \A q : Full(q) \in 0 .. 1 /\ (Full(q) = 0 <=> q = << >>)
  BY DEF OneOrNone, Full

LEMMA AccessTimes ==
  CYCLE_TIME \in Nat /\ \A most \in Nat : \A queued \in 0 .. most : BANK_ACCESS_TIME + queued \in Nat
  BY TimesOf

LEMMA SleepSet ==
  ASSUME EngineTypes, NEW t \in Threads, NEW ticks \in Nat, SleepFor(t, ticks)
  PROVE  /\ sleep' \in [Threads -> Nat] /\ sleep'[t] = ticks
         /\ \A u \in Threads \ {t} : sleep'[u] = sleep[u]
  BY DEF EngineTypes, SleepFor

-----------------------------------------------------------------------------
(* Types *)

LEMMA IssueTypes == EngineTypes /\ Issue => EngineTypes'
<1> SUFFICES ASSUME EngineTypes, Issue PROVE EngineTypes'
  OBVIOUS
<1>1. issued' \in 0 .. Len(Program) /\ issued + 1 \in Ids
  BY ProgramAssumption DEF EngineTypes, Issue, Ids
<1>2. gemm_instr_queue' \in Seq(Gemms) /\ drain_instr_queue' \in Seq(Drains)
  <2>1. CASE Program[issued + 1].op = "gemm"
    <3>1. issued + 1 \in Gemms
      BY <1>1, <2>1 DEF Gemms
    <3>2. QED
      <4>1. /\ gemm_instr_queue' = Append(gemm_instr_queue, issued + 1)
            /\ drain_instr_queue' = drain_instr_queue
        BY <2>1 DEF Issue
      <4>2. QED
        BY <3>1, <4>1, AppendProperties DEF EngineTypes
  <2>2. CASE Program[issued + 1].op = "drain"
    <3>1. issued + 1 \in Drains
      BY <1>1, <2>2 DEF Drains
    <3>2. QED
      <4>1. /\ drain_instr_queue' = Append(drain_instr_queue, issued + 1)
            /\ gemm_instr_queue' = gemm_instr_queue
        BY <2>2 DEF Issue
      <4>2. QED
        BY <3>1, <4>1, AppendProperties DEF EngineTypes
  <2>3. QED
    BY <1>1, <2>1, <2>2, Programs
<1>3. StageTypes'
  BY DEF EngineTypes, StageTypes, Issue
<1>4. QED
  BY <1>1, <1>2, <1>3 DEF EngineTypes, Issue

LEMMA GemmThreadTypes == EngineTypes /\ GemmPlace /\ GemmThread => EngineTypes'
<1> SUFFICES ASSUME EngineTypes, GemmPlace, GemmThread PROVE EngineTypes'
  OBVIOUS
<1> USE DEF EngineTypes
<1>1. CASE GemmDequeue
  <2>1. Head(gemm_instr_queue) \in Gemms /\ Tail(gemm_instr_queue) \in Seq(Gemms)
    BY <1>1 DEF GemmDequeue
  <2>2. gemm' \in [id : Gemms \cup {0}, row : Nat, step : GemmSteps]
    BY <1>1, <2>1 DEF GemmDequeue, GemmSteps
  <2>3. QED
    BY <1>1, <2>1, <2>2 DEF GemmDequeue, drainVars, StageTypes
<1>2. CASE GemmCommand
  <2>1. gemm.step \in Cmds /\ gemm.id \in Gemms /\ gemm.id \in Ids
    BY <1>2 DEF GemmCommand, GemmPlace, Cmds, Gemms
  <2>2. GemmCmd(gemm.id) \in Commands
    BY <2>1, Programs DEF GemmCmd, Commands
  <2>3. gemm' \in [id : Gemms \cup {0}, row : Nat, step : GemmSteps]
    BY <1>2 DEF GemmCommand, GemmSteps
  <2>4. /\ cmd' = [x \in Cmds |-> cmd'[x]]
        /\ \A x \in Cmds : OneOrNone(cmd'[x]) /\ (cmd'[x] # << >> => Head(cmd'[x]) \in Commands)
    BY <1>2, <2>1, <2>2, CmdSet, Singles DEF GemmCommand, SetCmd
  <2>5. QED
    BY <1>2, <2>3, <2>4 DEF GemmCommand, drainVars, StageTypes
<1>3. CASE GemmRow
  <2>1. gemm' \in [id : Gemms \cup {0}, row : Nat, step : GemmSteps]
    BY <1>3 DEF GemmRow, GemmSteps
  <2>2. sleep' \in [Threads -> Nat]
    <3>1. PICK ticks \in Nat : SleepFor("gemm", ticks)
      <4>1. CYCLE_TIME \in Nat /\ \A queued \in 0 .. MAX_QUEUED : BANK_ACCESS_TIME + queued \in Nat
        BY AccessTimes, TimesOf, Zenon
      <4>2. QED
        BY <1>3, <4>1, Zenon DEF GemmRow
    <3>2. QED
      BY <3>1, SleepSet DEF Threads
  <2>3. UNCHANGED <<issued, gemm_instr_queue, last_gemm_completed_id, drainVars, chan, cmd, stage>>
    BY <1>3 DEF GemmRow
  <2>4. StageTypes'
    BY <2>3 DEF StageTypes
  <2>5. QED
    BY <2>1, <2>2, <2>3, <2>4 DEF drainVars
<1>4. CASE GemmWrite
  <2>1. gemm' \in [id : Gemms \cup {0}, row : Nat, step : GemmSteps]
    <3>1. CASE gemm.step = "a_to_skew_a"
      BY <1>4, <3>1 DEF GemmWrite, GemmSteps
    <3>2. CASE gemm.step = "b_to_skew_b"
      <4>1. PICK step : /\ step = IF gemm.row + 1 < GemmRows(gemm.id) THEN "row" ELSE "end"
                        /\ gemm' = [gemm EXCEPT !.row = @ + 1, !.step = step]
        BY <1>4, <3>2 DEF GemmWrite
      <4>2. step \in GemmSteps
        BY <4>1 DEF GemmSteps
      <4>3. gemm' = [id |-> gemm.id, row |-> gemm.row + 1, step |-> step]
        BY <4>1
      <4>4. QED
        BY <4>2, <4>3
    <3>3. QED
      BY <1>4, <3>1, <3>2 DEF GemmWrite
  <2>2. sleep' \in [Threads -> Nat]
    BY <1>4, TimesOf, SMTT(30) DEF GemmWrite, SleepFor, Threads
  <2>3. chan' = [c \in Chans |-> chan'[c]] /\ \A c \in Chans : OneOrNone(chan'[c])
    BY <1>4, ChanSet, Singles DEF GemmWrite, SetChan, Chans
  <2>4. QED
    BY <1>4, <2>1, <2>2, <2>3 DEF GemmWrite, drainVars, StageTypes
<1>5. CASE GemmEnd
  <2>1. gemm' \in [id : Gemms \cup {0}, row : Nat, step : GemmSteps]
    BY <1>5 DEF GemmEnd, GemmSteps, Idle
  <2>2. QED
    BY <1>5, <2>1 DEF GemmEnd, drainVars, StageTypes
<1>6. QED
  BY <1>1, <1>2, <1>3, <1>4, <1>5 DEF GemmThread

LEMMA DrainThreadTypes ==
  EngineTypes /\ (drain.step # "dequeue" => drain.id # 0) /\ DrainThread => EngineTypes'
<1> SUFFICES ASSUME EngineTypes, drain.step # "dequeue" => drain.id # 0, DrainThread
             PROVE  EngineTypes'
  OBVIOUS
<1> USE DEF EngineTypes
<1>1. CASE DrainDequeue
  <2>1. Head(drain_instr_queue) \in Drains /\ Tail(drain_instr_queue) \in Seq(Drains)
    BY <1>1 DEF DrainDequeue
  <2>2. drain' \in [id : Drains \cup {0}, row : Nat, step : DrainSteps]
    BY <1>1, <2>1 DEF DrainDequeue, DrainSteps
  <2>3. QED
    BY <1>1, <2>1, <2>2 DEF DrainDequeue, gemmVars, StageTypes
<1>2. CASE DrainCommand
  <2>1. drain.step \in Cmds /\ drain.id \in Drains /\ drain.id \in Ids
    BY <1>2 DEF DrainCommand, Cmds, Drains
  <2>2. DrainCmd(drain.id) \in Commands
    BY <2>1, Programs, SizeAssumption DEF DrainCmd, Commands
  <2>3. drain' \in [id : Drains \cup {0}, row : Nat, step : DrainSteps]
    BY <1>2 DEF DrainCommand, DrainSteps
  <2>4. /\ cmd' = [x \in Cmds |-> cmd'[x]]
        /\ \A x \in Cmds : OneOrNone(cmd'[x]) /\ (cmd'[x] # << >> => Head(cmd'[x]) \in Commands)
    BY <1>2, <2>1, <2>2, CmdSet, Singles DEF DrainCommand, SetCmd
  <2>5. QED
    BY <1>2, <2>3, <2>4 DEF DrainCommand, gemmVars, StageTypes
<1>3. CASE DrainRow
  <2>1. drain' \in [id : Drains \cup {0}, row : Nat, step : DrainSteps]
    BY <1>3 DEF DrainRow, DrainSteps
  <2>2. MAX_QUEUED_C[drain.id] \in Nat
    BY <1>3, QueueAssumption DEF DrainRow
  <2>3. sleep' \in [Threads -> Nat]
    <3>1. PICK ticks \in Nat : SleepFor("drain", ticks)
      <4>1. \A queued \in 0 .. MAX_QUEUED_C[drain.id] : BANK_ACCESS_TIME + queued \in Nat
        BY <2>2, AccessTimes, Zenon
      <4>2. QED
        BY <1>3, <4>1, Zenon DEF DrainRow
    <3>2. QED
      BY <3>1, SleepSet DEF Threads
  <2>4. chan' = [c \in Chans |-> chan'[c]] /\ \A c \in Chans : OneOrNone(chan'[c])
    BY <1>3, ChanSet, Singles DEF DrainRow, SetChan, Chans
  <2>5. QED
    BY <1>3, <2>1, <2>3, <2>4 DEF DrainRow, gemmVars, StageTypes
<1>4. CASE DrainNext
  <2>1. drain' \in [id : Drains \cup {0}, row : Nat, step : DrainSteps]
    <3>1. CASE drain.row + 1 < DIM
      <4>1. drain.row + 1 # DIM
        BY <3>1, SizeAssumption
      <4>2. drain' = [id |-> drain.id, row |-> drain.row + 1, step |-> "scaler_to_c"]
        BY <1>4, <4>1 DEF DrainNext
      <4>3. QED
        BY <4>2 DEF DrainSteps
    <3>2. CASE drain' = Idle
      BY <3>2 DEF DrainSteps, Idle
    <3>3. QED
      BY <1>4, <3>1, <3>2 DEF DrainNext
  <2>2. last_drain_completed_id' \in Drains \cup {0}
    BY <1>4 DEF DrainNext
  <2>3. QED
    BY <1>4, <2>1, <2>2 DEF DrainNext, gemmVars, StageTypes
<1>5. QED
  BY <1>1, <1>2, <1>3, <1>4 DEF DrainThread

LEMMA StageTypesOf ==
  ASSUME EngineTypes, NEW s \in Stages
  PROVE  /\ stage[s].cmd \in Commands /\ stage[s].row \in 0 .. stage[s].cmd.rows
         /\ stage[s].cmd.rows \in Nat /\ stage[s].row \in Nat /\ OneOrNone(stage[s].held)
         /\ Left(s) \in Nat /\ s \in Threads
         /\ stage[s].held # << >> => stage[s].row < stage[s].cmd.rows
  BY DEF EngineTypes, StageTypes, Commands, Left, Threads

LEMMA StageThreadTypes ==
  ASSUME EngineTypes, NEW s \in Stages, StageThread(s) PROVE EngineTypes'
<1>1. CASE StageCommand(s)
  <2>1. CmdOf(s) \in Cmds /\ Head(cmd[CmdOf(s)]) \in Commands
    BY <1>1, Wiring DEF StageCommand, EngineTypes
  <2>2. StageTypes'
    <3>1. SetStage(s, Head(cmd[CmdOf(s)]), 0, << >>)
      BY <1>1, CommandSet DEF StageCommand
    <3>2. 0 \in 0 .. Head(cmd[CmdOf(s)]).rows
      BY <2>1 DEF Commands
    <3>3. QED
      BY <2>1, <3>1, <3>2, Singles, SetStageTypes
  <2>3. /\ cmd' = [x \in Cmds |-> cmd'[x]]
        /\ \A x \in Cmds : OneOrNone(cmd'[x]) /\ (cmd'[x] # << >> => Head(cmd'[x]) \in Commands)
    BY <1>1, <2>1, CmdSet, Singles DEF StageCommand, SetCmd
  <2>4. QED
    BY <1>1, <2>2, <2>3 DEF StageCommand, execVars, EngineTypes
<1>2. CASE StageWrite(s)
  <2>1. OutputOf(s) \in Chans
    BY <1>2, Wiring DEF StageWrite
  <2>2. StageTypes'
    <3>1. SetStage(s, stage[s].cmd, stage[s].row + 1, << >>)
      BY <1>2, PassedOnSet DEF StageWrite
    <3>2. stage[s].row + 1 \in 0 .. stage[s].cmd.rows
      <4>1. stage[s].row < stage[s].cmd.rows
        BY <1>2, StageTypesOf DEF StageWrite
      <4>2. QED
        BY <4>1, StageTypesOf
    <3>3. QED
      BY <3>1, <3>2, Singles, SetStageTypes, StageTypesOf
  <2>3. sleep' \in [Threads -> Nat]
    BY <1>2, TimesOfStages, StageTypesOf, SleepSet DEF StageWrite
  <2>4. chan' = [c \in Chans |-> chan'[c]] /\ \A c \in Chans : OneOrNone(chan'[c])
    BY <1>2, <2>1, ChanSet, StageTypesOf DEF StageWrite, SetChan
  <2>5. QED
    BY <1>2, <2>2, <2>3, <2>4 DEF StageWrite, execVars, EngineTypes
<1>3. CASE SkewShift(s)
  <2>1. InputOf(s) \in Chans
    BY <1>3 DEF SkewShift, InputOf, Chans
  <2>2. PICK held : OneOrNone(held) /\ stage' = [stage EXCEPT ![s].held = held]
    BY <1>3, Singles DEF SkewShift
  <2>3. StageTypes'
    <3>1. SetStage(s, stage[s].cmd, stage[s].row, held)
      BY <2>2, HeldSet
    <3>2. stage[s].row < stage[s].cmd.rows
      BY <1>3 DEF SkewShift, InRowLoop
    <3>3. QED
      BY <2>2, <3>1, <3>2, SetStageTypes, StageTypesOf
  <2>4. chan' = [c \in Chans |-> chan'[c]] /\ \A c \in Chans : OneOrNone(chan'[c])
    BY <1>3, <2>1, ChanSet, Singles DEF SkewShift, SetChan
  <2>5. QED
    BY <1>3, <2>3, <2>4 DEF SkewShift, execVars, EngineTypes
<1>4. QED
  BY <1>1, <1>2, <1>3 DEF StageThread

LEMMA ArrayThreadsTypes == EngineTypes /\ (ArrayThreads \/ ScalerScale) => EngineTypes'
<1> SUFFICES ASSUME EngineTypes, ArrayThreads \/ ScalerScale PROVE EngineTypes'
  OBVIOUS
<1>1. "array_gemm" \in Stages /\ "array_drain" \in Stages /\ "scaler" \in Stages
  BY DEF Stages
<1>2. CASE ArrayReadA
  <2>1. "skew_a_to_pe_array" \in Chans
    BY DEF Chans
  <2>2. OneOrNone(chan["skew_a_to_pe_array"])
    BY <2>1 DEF EngineTypes
  <2>3. SetStage("array_gemm", stage["array_gemm"].cmd, stage["array_gemm"].row, chan["skew_a_to_pe_array"])
    BY <1>1, <1>2, HeldSet DEF ArrayReadA
  <2>4. StageTypes'
    BY <1>1, <1>2, <2>2, <2>3, SetStageTypes, StageTypesOf DEF ArrayReadA, InRowLoop
  <2>5. chan' = [c \in Chans |-> chan'[c]] /\ \A c \in Chans : OneOrNone(chan'[c])
    BY <1>2, <2>1, ChanSet, Singles DEF ArrayReadA, SetChan
  <2>6. QED
    BY <1>2, <2>4, <2>5 DEF ArrayReadA, execVars, EngineTypes
<1>3. CASE ArrayShift
  <2>1. "skew_b_to_pe_array" \in Chans
    BY DEF Chans
  <2>2. SetStage("array_gemm", stage["array_gemm"].cmd, stage["array_gemm"].row + 1, << >>)
    BY <1>1, <1>3, PassedOnSet DEF ArrayShift
  <2>3. stage["array_gemm"].row + 1 \in 0 .. stage["array_gemm"].cmd.rows
    BY <1>1, <1>3, StageTypesOf DEF ArrayShift, InRowLoop
  <2>4. StageTypes'
    BY <1>1, <2>2, <2>3, Singles, SetStageTypes, StageTypesOf
  <2>5. chan' = [c \in Chans |-> chan'[c]] /\ \A c \in Chans : OneOrNone(chan'[c])
    BY <1>3, <2>1, ChanSet, Singles DEF ArrayShift, SetChan
  <2>6. sleep' \in [Threads -> Nat]
    BY <1>1, <1>3, TimesOf, StageTypesOf, SleepSet DEF ArrayShift
  <2>7. QED
    BY <1>3, <2>4, <2>5, <2>6 DEF ArrayShift, execVars, EngineTypes
<1>4. CASE ArrayShiftOut
  <2>1. PICK held : OneOrNone(held) /\ stage' = [stage EXCEPT !["array_drain"].held = held]
    BY <1>4, Singles DEF ArrayShiftOut
  <2>2. SetStage("array_drain", stage["array_drain"].cmd, stage["array_drain"].row, held)
    BY <1>1, <2>1, HeldSet
  <2>3. StageTypes'
    BY <1>1, <1>4, <2>1, <2>2, SetStageTypes, StageTypesOf DEF ArrayShiftOut, InRowLoop
  <2>4. QED
    BY <1>4, <2>3 DEF ArrayShiftOut, execVars, EngineTypes
<1>5. CASE ScalerScale
  <2>1. PICK held : OneOrNone(held) /\ stage' = [stage EXCEPT !["scaler"].held = held]
    BY <1>5, Singles DEF ScalerScale
  <2>2. SetStage("scaler", stage["scaler"].cmd, stage["scaler"].row, held)
    BY <1>1, <2>1, HeldSet
  <2>3. StageTypes'
    BY <1>1, <1>5, <2>1, <2>2, SetStageTypes, StageTypesOf DEF ScalerScale, InRowLoop
  <2>4. "pe_array_to_scaler" \in Chans
    BY DEF Chans
  <2>5. chan' = [c \in Chans |-> chan'[c]] /\ \A c \in Chans : OneOrNone(chan'[c])
    BY <1>5, <2>4, ChanSet, Singles DEF ScalerScale, SetChan
  <2>6. QED
    BY <1>5, <2>3, <2>5 DEF ScalerScale, execVars, EngineTypes
<1>6. QED
  BY <1>2, <1>3, <1>4, <1>5 DEF ArrayThreads

LEMMA TickTypes == EngineTypes /\ Tick => EngineTypes'
<1> SUFFICES ASSUME EngineTypes, Tick PROVE EngineTypes'
  OBVIOUS
<1>1. sleep' \in [Threads -> Nat]
  BY DEF EngineTypes, Tick
<1>2. QED
  BY <1>1 DEF EngineTypes, StageTypes, Tick, execVars

-----------------------------------------------------------------------------
(* The stream *)

(* What StreamInv speaks of *)
streamVars ==
  <<gemm, chan["a_to_skew_a"], chan["b_to_skew_b"], chan["skew_a_to_pe_array"],
    chan["skew_b_to_pe_array"], cmd["gemm_cmd"], cmd["skew_a_cmd"], cmd["skew_b_cmd"],
    stage["skew_a"], stage["skew_b"], stage["array_gemm"],
    sleep["gemm"], sleep["skew_a"], sleep["skew_b"], sleep["array_gemm"]>>

InStream == GemmPlace /\ Balanced /\ InPace

LEMMA StreamFrame == InStream /\ UNCHANGED streamVars => InStream'
<1> SUFFICES ASSUME InStream, UNCHANGED streamVars PROVE InStream'
  OBVIOUS
<1> USE DEF streamVars
<1>1. GemmPlace'
  BY DEF InStream, GemmPlace
<1>2. UNCHANGED <<InSkewA, InSkewB, WrittenA, FlightA, FlightB, UntilA, UntilB>>
  BY DEF InSkewA, InSkewB, WrittenA, FlightA, FlightB, UntilA, UntilB, Full
<1>3. /\ UNCHANGED <<Left("skew_a"), Left("skew_b"), Left("array_gemm")>>
      /\ UNCHANGED <<Ordered("skew_a_cmd"), Ordered("skew_b_cmd"), Ordered("gemm_cmd")>>
      /\ \A steps : ToWrite(steps)' = ToWrite(steps)
  BY DEF Left, Ordered, ToWrite
<1>4. Balanced'
  BY <1>2, <1>3 DEF InStream, Balanced
<1>5. InPace'
  BY <1>2 DEF InStream, InPace
<1>6. QED
  BY <1>1, <1>4, <1>5 DEF InStream

(* What the counts are of *)
LEMMA Counts ==
  ASSUME EngineTypes
  PROVE  /\ Left("skew_a") \in Nat /\ Left("skew_b") \in Nat /\ Left("array_gemm") \in Nat
         /\ Ordered("skew_a_cmd") \in Nat /\ Ordered("skew_b_cmd") \in Nat /\ Ordered("gemm_cmd") \in Nat
         /\ \A t \in Threads : sleep[t] \in Nat
         /\ gemm.row \in Nat /\ gemm.id \in Gemms \cup {0} /\ gemm.step \in GemmSteps
         /\ \A q : Full(q) \in 0 .. 1
<1>1. Left("skew_a") \in Nat /\ Left("skew_b") \in Nat /\ Left("array_gemm") \in Nat
  BY StageTypesOf DEF Stages
<1>2. ASSUME NEW c \in Cmds PROVE Ordered(c) \in Nat
  BY DEF EngineTypes, Ordered, Commands
<1>3. /\ Ordered("skew_a_cmd") \in Nat /\ Ordered("skew_b_cmd") \in Nat /\ Ordered("gemm_cmd") \in Nat
  BY <1>2 DEF Cmds
<1>4. QED
  BY <1>1, <1>3, Singles DEF EngineTypes

LEMMA GemmIdOf ==
  ASSUME EngineTypes, GemmPlace, gemm.step # "dequeue"
  PROVE  /\ gemm.id \in Gemms /\ gemm.id \in Ids /\ GemmRows(gemm.id) \in Nat /\ GemmRows(gemm.id) >= 2
         /\ gemm.id \in Nat \ {0}
<1>1. gemm.id \in Gemms
  BY DEF EngineTypes, GemmPlace
<1>2. QED
  BY <1>1, Programs DEF Gemms

(* What sleeps and steps of gemm_thread leave of the pipeline *)
pipeVars ==
  <<chan["a_to_skew_a"], chan["b_to_skew_b"], chan["skew_a_to_pe_array"],
    chan["skew_b_to_pe_array"], stage["skew_a"], stage["skew_b"], stage["array_gemm"]>>
cmdVars == <<cmd["gemm_cmd"], cmd["skew_a_cmd"], cmd["skew_b_cmd"]>>
stageSleeps == <<sleep["skew_a"], sleep["skew_b"], sleep["array_gemm"]>>

LEMMA PipeFrame ==
  ASSUME UNCHANGED pipeVars
  PROVE  UNCHANGED <<InSkewA, InSkewB, FlightB, FlightA, Left("skew_a"), Left("skew_b"), Left("array_gemm")>>
  BY DEF pipeVars, InSkewA, InSkewB, FlightA, FlightB, Full, Left

LEMMA CmdFrame ==
  ASSUME UNCHANGED cmdVars
  PROVE  UNCHANGED <<Ordered("skew_a_cmd"), Ordered("skew_b_cmd"), Ordered("gemm_cmd")>>
  BY DEF cmdVars, Ordered

LEMMA FlightTypes ==
  ASSUME EngineTypes
  PROVE  /\ InSkewA \in Nat /\ InSkewB \in Nat /\ FlightA \in Nat /\ FlightB \in Nat
         /\ InSkewA <= FlightA /\ InSkewB <= FlightB /\ WrittenA \in 0 .. 1
         /\ UntilA \in Nat /\ UntilB \in Nat
<1>1. /\ \A q : Full(q) \in 0 .. 1
      /\ sleep["gemm"] \in Nat
  BY Counts DEF Threads
<1>2. QED
  BY <1>1, TimesOf DEF InSkewA, InSkewB, FlightA, FlightB, WrittenA, UntilA, UntilB

LEMMA GemmDequeueStream == EngineTypes /\ InStream /\ GemmDequeue => InStream'
<1> SUFFICES ASSUME EngineTypes, InStream, GemmDequeue PROVE InStream'
  OBVIOUS
<1>1. /\ gemm'.id = Head(gemm_instr_queue) /\ gemm'.row = 0 /\ gemm'.step = "gemm_cmd"
      /\ gemm.step = "dequeue" /\ Head(gemm_instr_queue) \in Gemms
  BY DEF GemmDequeue, EngineTypes
<1>2. UNCHANGED pipeVars /\ UNCHANGED cmdVars /\ UNCHANGED stageSleeps /\ UNCHANGED sleep["gemm"]
  BY DEF GemmDequeue, pipeVars, cmdVars, stageSleeps
<1>3. GemmPlace'
  BY <1>1, Programs DEF GemmPlace, Gemms
<1>4. Balanced'
  BY <1>1, <1>2, PipeFrame, CmdFrame DEF InStream, Balanced, ToWrite, WrittenA, Loop
<1>5. InPace'
  BY <1>1, <1>2, PipeFrame DEF InStream, InPace, UntilA, UntilB, WrittenA, stageSleeps
<1>6. QED
  BY <1>3, <1>4, <1>5 DEF InStream

LEMMA GemmCommandStream == EngineTypes /\ InStream /\ GemmCommand => InStream'
<1> SUFFICES ASSUME EngineTypes, InStream, GemmCommand PROVE InStream'
  OBVIOUS
<1>1. /\ gemm.step \in {"gemm_cmd", "skew_a_cmd", "skew_b_cmd"} /\ cmd[gemm.step] = << >>
      /\ gemm'.id = gemm.id /\ gemm'.row = gemm.row
      /\ gemm'.step = CASE gemm.step = "gemm_cmd"   -> "skew_a_cmd"
                        [] gemm.step = "skew_a_cmd" -> "skew_b_cmd"
                        [] gemm.step = "skew_b_cmd" -> "row"
  BY DEF GemmCommand, EngineTypes
<1>2. UNCHANGED pipeVars /\ UNCHANGED stageSleeps /\ UNCHANGED sleep["gemm"]
  BY DEF GemmCommand, pipeVars, stageSleeps
<1>3. gemm.row = 0 /\ GemmRows(gemm.id) \in Nat /\ GemmRows(gemm.id) >= 2 /\ gemm.id # 0
  BY <1>1, GemmIdOf DEF InStream, GemmPlace
<1>4. GemmPlace'
  BY <1>1, <1>3 DEF GemmPlace
<1>5. /\ Ordered(gemm.step) = 0
      /\ \A c \in Cmds : Ordered(c)' = IF c = gemm.step THEN GemmRows(gemm.id) ELSE Ordered(c)
  <2>1. /\ gemm.step \in Cmds /\ cmd = [c \in Cmds |-> cmd[c]]
        /\ cmd' = [cmd EXCEPT ![gemm.step] = <<GemmCmd(gemm.id)>>]
    BY <1>1 DEF GemmCommand, EngineTypes, Cmds
  <2>2. <<GemmCmd(gemm.id)>> # << >> /\ Head(<<GemmCmd(gemm.id)>>).rows = GemmRows(gemm.id)
    BY DEF GemmCmd
  <2>3. \A c \in Cmds : cmd'[c] = IF c = gemm.step THEN <<GemmCmd(gemm.id)>> ELSE cmd[c]
    BY <2>1
  <2>4. QED
    BY <1>1, <2>2, <2>3 DEF Ordered
<1>6. Balanced'
  <2>1. CASE gemm.step = "gemm_cmd"
    <3>1. /\ WrittenA = 0 /\ WrittenA' = 0
          /\ ToWrite({"skew_b_cmd"} \cup Loop) = 0 /\ ToWrite({"skew_b_cmd"} \cup Loop)' = 0
          /\ ToWrite(Loop) = 0 /\ ToWrite(Loop)' = 0
          /\ ToWrite({"skew_a_cmd", "skew_b_cmd"} \cup Loop) = 0 /\ ToWrite({"skew_a_cmd", "skew_b_cmd"} \cup Loop)' = GemmRows(gemm.id)
      BY <1>1, <1>3, <2>1 DEF WrittenA, ToWrite, Loop
    <3>2. Ordered("gemm_cmd") = 0 /\ Ordered("gemm_cmd")' = GemmRows(gemm.id)
      BY <1>5, <2>1 DEF Cmds
    <3>3. UNCHANGED <<Ordered("skew_a_cmd"), Ordered("skew_b_cmd")>>
      BY <1>5, <2>1 DEF Cmds
    <3>4. QED
      BY <1>2, <1>3, <3>1, <3>2, <3>3, PipeFrame, Counts, FlightTypes DEF InStream, Balanced
  <2>2. CASE gemm.step = "skew_a_cmd"
    <3>1. /\ WrittenA = 0 /\ WrittenA' = 0
          /\ ToWrite({"skew_b_cmd"} \cup Loop) = 0 /\ ToWrite({"skew_b_cmd"} \cup Loop)' = GemmRows(gemm.id)
          /\ ToWrite(Loop) = 0 /\ ToWrite(Loop)' = 0
          /\ ToWrite({"skew_a_cmd", "skew_b_cmd"} \cup Loop) = GemmRows(gemm.id) /\ ToWrite({"skew_a_cmd", "skew_b_cmd"} \cup Loop)' = GemmRows(gemm.id)
      BY <1>1, <1>3, <2>2 DEF WrittenA, ToWrite, Loop
    <3>2. Ordered("skew_a_cmd") = 0 /\ Ordered("skew_a_cmd")' = GemmRows(gemm.id)
      BY <1>5, <2>2 DEF Cmds
    <3>3. UNCHANGED <<Ordered("gemm_cmd"), Ordered("skew_b_cmd")>>
      BY <1>5, <2>2 DEF Cmds
    <3>4. QED
      BY <1>2, <1>3, <3>1, <3>2, <3>3, PipeFrame, Counts, FlightTypes DEF InStream, Balanced
  <2>3. CASE gemm.step = "skew_b_cmd"
    <3>1. /\ WrittenA = 0 /\ WrittenA' = 0
          /\ ToWrite({"skew_b_cmd"} \cup Loop) = GemmRows(gemm.id) /\ ToWrite({"skew_b_cmd"} \cup Loop)' = GemmRows(gemm.id)
          /\ ToWrite(Loop) = 0 /\ ToWrite(Loop)' = GemmRows(gemm.id)
          /\ ToWrite({"skew_a_cmd", "skew_b_cmd"} \cup Loop) = GemmRows(gemm.id) /\ ToWrite({"skew_a_cmd", "skew_b_cmd"} \cup Loop)' = GemmRows(gemm.id)
      BY <1>1, <1>3, <2>3 DEF WrittenA, ToWrite, Loop
    <3>2. Ordered("skew_b_cmd") = 0 /\ Ordered("skew_b_cmd")' = GemmRows(gemm.id)
      BY <1>5, <2>3 DEF Cmds
    <3>3. UNCHANGED <<Ordered("gemm_cmd"), Ordered("skew_a_cmd")>>
      BY <1>5, <2>3 DEF Cmds
    <3>4. QED
      BY <1>2, <1>3, <3>1, <3>2, <3>3, PipeFrame, Counts, FlightTypes DEF InStream, Balanced
  <2>4. QED
    BY <1>1, <2>1, <2>2, <2>3
<1>7. InPace'
  BY <1>1, <1>2, PipeFrame DEF InStream, InPace, UntilA, UntilB, WrittenA, stageSleeps
<1>8. QED
  BY <1>4, <1>6, <1>7 DEF InStream

LEMMA GemmRowStream == EngineTypes /\ InStream /\ GemmRow => InStream'
<1> SUFFICES ASSUME EngineTypes, InStream, GemmRow PROVE InStream'
  OBVIOUS
<1>1. /\ gemm.step = "row" /\ gemm'.id = gemm.id /\ gemm'.row = gemm.row /\ gemm'.step = "a_to_skew_a"
  BY DEF GemmRow, EngineTypes
<1>2. UNCHANGED pipeVars /\ UNCHANGED cmdVars
  BY DEF GemmRow, pipeVars, cmdVars
<1>3. UNCHANGED stageSleeps /\ sleep'["gemm"] \in Nat /\ sleep'["gemm"] >= Pace
  <2>1. PICK ticks \in Nat : ticks >= Pace /\ SleepFor("gemm", ticks)
    <3>1. CASE Program[gemm.id].is_flush
      BY <3>1, TimesOf DEF GemmRow
    <3>2. CASE ~ Program[gemm.id].is_flush
      <4>1. PICK queued \in 0 .. MAX_QUEUED : SleepFor("gemm", BANK_ACCESS_TIME + queued)
        BY <3>2 DEF GemmRow
      <4>2. BANK_ACCESS_TIME + queued \in Nat /\ BANK_ACCESS_TIME + queued >= Pace
        BY TimesOf
      <4>3. QED
        BY <4>1, <4>2
    <3>3. QED
      BY <3>1, <3>2
  <2>2. QED
    BY <2>1, SleepSet DEF stageSleeps, Threads, Stages
<1>4. GemmPlace'
  BY <1>1 DEF InStream, GemmPlace
<1>5. Balanced'
  BY <1>1, <1>2, PipeFrame, CmdFrame DEF InStream, Balanced, ToWrite, WrittenA, Loop
<1>6. InPace'
  <2>1. /\ UntilA = Pace /\ UntilB = Pace /\ WrittenA = 0 /\ WrittenA' = 0
        /\ UntilA' >= Pace /\ UntilB' >= Pace /\ UntilA' \in Nat /\ UntilB' \in Nat
    BY <1>1, <1>3 DEF UntilA, UntilB, WrittenA
  <2>2. /\ sleep["skew_a"] \in Nat /\ sleep["skew_b"] \in Nat /\ sleep["array_gemm"] \in Nat
    BY Counts DEF Threads, Stages
  <2>3. QED
    BY <1>1, <1>2, <1>3, <2>1, <2>2, TimesOf, PipeFrame DEF InStream, InPace, stageSleeps
<1>7. QED
  BY <1>4, <1>5, <1>6 DEF InStream

(* The rows come no faster than the array takes them. *)
LEMMA RoomInPace ==
  ASSUME EngineTypes, InStream, Awake("gemm"), gemm.step \in {"a_to_skew_a", "b_to_skew_b"}
  PROVE  /\ chan[gemm.step] = << >>
         /\ gemm.step = "a_to_skew_a" =>
              /\ FlightA = 0 /\ FlightB = 0 /\ sleep["skew_b"] = 0
              /\ sleep["skew_a"] = 0 /\ sleep["array_gemm"] = 0
         /\ gemm.step = "b_to_skew_b" =>
              /\ FlightA = 1 /\ FlightB = 0 /\ sleep["skew_b"] = 0
<1>1. sleep["gemm"] = 0 /\ Pace > 0
  BY TimesOf DEF Awake
<1>2. /\ sleep["skew_a"] \in Nat /\ sleep["skew_b"] \in Nat /\ sleep["array_gemm"] \in Nat
  BY Counts DEF Threads, Stages
<1>3. CASE gemm.step = "a_to_skew_a"
  <2>1. UntilA = 0 /\ UntilB = 0 /\ WrittenA = 0
    BY <1>1, <1>3 DEF UntilA, UntilB, WrittenA
  <2>2. FlightA = 0 /\ FlightB = 0 /\ InSkewA = 0
    BY <1>1, <2>1, TimesOf, FlightTypes DEF InStream, InPace
  <2>3. Full(chan["a_to_skew_a"]) = 0
    BY <2>2, Counts DEF InSkewA
  <2>4. QED
    BY <1>2, <1>3, <2>1, <2>2, <2>3, Singles DEF InStream, InPace
<1>4. CASE gemm.step = "b_to_skew_b"
  <2>1. UntilB = 0 /\ WrittenA = 1
    BY <1>1, <1>4 DEF UntilB, WrittenA
  <2>2. FlightA = 1 /\ FlightB = 0 /\ InSkewB = 0
    BY <2>1, FlightTypes DEF InStream, InPace
  <2>3. Full(chan["b_to_skew_b"]) = 0
    BY <2>2, Counts DEF InSkewB
  <2>4. QED
    BY <1>2, <1>4, <2>1, <2>2, <2>3, Singles DEF InStream, InPace
<1>5. QED
  BY <1>3, <1>4

LEMMA GemmWriteStream == EngineTypes /\ InStream /\ GemmWrite => InStream'
<1> SUFFICES ASSUME EngineTypes, InStream, GemmWrite PROVE InStream'
  OBVIOUS
<1>1. /\ gemm.step \in {"a_to_skew_a", "b_to_skew_b"} /\ Awake("gemm") /\ chan[gemm.step] = << >>
      /\ gemm.step # "dequeue"
  BY DEF GemmWrite
<1>2. /\ UNCHANGED cmdVars /\ UNCHANGED stage
  BY DEF GemmWrite, cmdVars
<1>3. /\ \A c \in Chans \ {gemm.step} : chan'[c] = chan[c]
      /\ Full(chan[gemm.step]) = 0
      /\ \E row : chan'[gemm.step] = <<row>>
  <2>1. gemm.step \in Chans /\ chan = [c \in Chans |-> chan[c]]
    BY <1>1 DEF Chans, EngineTypes
  <2>2. QED
    BY <2>1, Singles DEF GemmWrite
<1>4. UNCHANGED stageSleeps /\ sleep'["gemm"] \in Nat
  <2>1. sleep' = sleep \/ SleepFor("gemm", PE_MAC_TIME)
    BY DEF GemmWrite
  <2>2. sleep \in [Threads -> Nat] /\ "gemm" \in Threads /\ Stages \subseteq Threads
    BY DEF EngineTypes, Threads
  <2>3. CASE sleep' = sleep
    BY <2>2, <2>3 DEF stageSleeps
  <2>4. CASE SleepFor("gemm", PE_MAC_TIME)
    <3>1. sleep'["gemm"] = PE_MAC_TIME /\ \A u \in Threads \ {"gemm"} : sleep'[u] = sleep[u]
      BY <2>2, <2>4, TimesOf, SleepSet
    <3>2. QED
      BY <3>1, TimesOf DEF stageSleeps, Threads, Stages
  <2>5. QED
    BY <2>1, <2>3, <2>4
<1>5. gemm.row \in Nat /\ gemm.row < GemmRows(gemm.id) /\ GemmRows(gemm.id) \in Nat /\ gemm.id # 0
  BY <1>1, GemmIdOf DEF InStream, GemmPlace, EngineTypes
<1>6. /\ sleep["skew_a"] \in Nat /\ sleep["skew_b"] \in Nat /\ sleep["array_gemm"] \in Nat
  BY Counts DEF Threads, Stages
<1>7. CASE gemm.step = "a_to_skew_a"
  <2>1. gemm'.id = gemm.id /\ gemm'.row = gemm.row /\ gemm'.step = "b_to_skew_b" /\ sleep' = sleep
    BY <1>7 DEF GemmWrite, EngineTypes
  <2>2. /\ InSkewA' = InSkewA + 1 /\ FlightA' = FlightA + 1
        /\ UNCHANGED <<InSkewB, FlightB, Left("skew_a"), Left("skew_b"), Left("array_gemm")>>
    <3>1. Full(chan["a_to_skew_a"]) = 0 /\ Full(chan["a_to_skew_a"])' = 1
      BY <1>3, <1>7, Singles DEF Full
    <3>2. UNCHANGED <<chan["b_to_skew_b"], chan["skew_a_to_pe_array"], chan["skew_b_to_pe_array"]>>
      BY <1>3, <1>7 DEF Chans
    <3>3. UNCHANGED <<Full(chan["b_to_skew_b"]), Full(chan["skew_a_to_pe_array"]),
                      Full(chan["skew_b_to_pe_array"]), Full(stage["skew_a"].held),
                      Full(stage["skew_b"].held), Full(stage["array_gemm"].held)>>
      BY <1>2, <3>2 DEF Full
    <3>4. QED
      BY <1>2, <3>1, <3>3, Counts DEF InSkewA, InSkewB, FlightA, FlightB, Left
  <2>3. GemmPlace'
    BY <1>5, <2>1 DEF GemmPlace
  <2>4. /\ WrittenA = 0 /\ WrittenA' = 1 /\ UntilA' = Pace /\ UntilB' = 0
        /\ \A steps : {"a_to_skew_a", "b_to_skew_b"} \subseteq steps => ToWrite(steps)' = ToWrite(steps)
    BY <1>1, <1>7, <2>1 DEF WrittenA, UntilA, UntilB, ToWrite, Awake
  <2>5. Balanced'
    <3>1. /\ ToWrite({"skew_b_cmd"} \cup Loop)' = ToWrite({"skew_b_cmd"} \cup Loop)
          /\ ToWrite(Loop)' = ToWrite(Loop)
          /\ ToWrite({"skew_a_cmd", "skew_b_cmd"} \cup Loop)' = ToWrite({"skew_a_cmd", "skew_b_cmd"} \cup Loop)
      BY <2>4 DEF Loop
    <3>2. /\ ToWrite({"skew_b_cmd"} \cup Loop) \in Nat /\ ToWrite(Loop) \in Nat
          /\ ToWrite({"skew_a_cmd", "skew_b_cmd"} \cup Loop) \in Nat
      BY <1>5, <1>7 DEF ToWrite, Loop
    <3>3. QED
      BY <1>2, <2>2, <2>4, <3>1, <3>2, CmdFrame, Counts, FlightTypes DEF InStream, Balanced
  <2>6. InPace'
    <3>1. /\ FlightA = 0 /\ FlightB = 0 /\ sleep["skew_b"] = 0
          /\ sleep["skew_a"] = 0 /\ sleep["array_gemm"] = 0
      BY <1>1, <1>7, RoomInPace
    <3>2. FlightA' = 1 /\ FlightB' = 0
      BY <2>2, <3>1
    <3>3. QED
      BY <1>1, <1>4, <2>1, <2>4, <3>1, <3>2, TimesOf DEF InPace, stageSleeps, Awake
  <2>7. QED
    BY <2>3, <2>5, <2>6 DEF InStream
<1>8. CASE gemm.step = "b_to_skew_b"
  <2>1. /\ gemm'.id = gemm.id /\ gemm'.row = gemm.row + 1
        /\ gemm'.step = IF gemm.row + 1 < GemmRows(gemm.id) THEN "row" ELSE "end"
    BY <1>8 DEF GemmWrite, EngineTypes
  <2>2. /\ InSkewB' = InSkewB + 1 /\ FlightB' = FlightB + 1
        /\ UNCHANGED <<InSkewA, FlightA, Left("skew_a"), Left("skew_b"), Left("array_gemm")>>
    <3>1. Full(chan["b_to_skew_b"]) = 0 /\ Full(chan["b_to_skew_b"])' = 1
      BY <1>3, <1>8, Singles DEF Full
    <3>2. UNCHANGED <<chan["a_to_skew_a"], chan["skew_a_to_pe_array"], chan["skew_b_to_pe_array"]>>
      BY <1>3, <1>8 DEF Chans
    <3>3. UNCHANGED <<Full(chan["a_to_skew_a"]), Full(chan["skew_a_to_pe_array"]),
                      Full(chan["skew_b_to_pe_array"]), Full(stage["skew_a"].held),
                      Full(stage["skew_b"].held), Full(stage["array_gemm"].held)>>
      BY <1>2, <3>2 DEF Full
    <3>4. QED
      BY <1>2, <3>1, <3>3, Counts DEF InSkewA, InSkewB, FlightA, FlightB, Left
  <2>3. GemmPlace'
    BY <1>5, <2>1 DEF GemmPlace
  <2>4. /\ WrittenA = 1 /\ WrittenA' = 0 /\ UntilA = Pace /\ UntilA' = Pace /\ UntilB' = Pace
        /\ gemm'.step # "b_to_skew_b"
    BY <1>8, <2>1 DEF WrittenA, UntilA, UntilB
  <2>5. \A steps : {"row", "b_to_skew_b"} \subseteq steps /\ "end" \notin steps =>
                     ToWrite(steps)' = ToWrite(steps) - 1
    <3>1. CASE gemm.row + 1 < GemmRows(gemm.id)
      BY <1>5, <1>8, <2>1, <3>1 DEF ToWrite
    <3>2. CASE ~ gemm.row + 1 < GemmRows(gemm.id)
      BY <1>5, <1>8, <2>1, <3>2 DEF ToWrite
    <3>3. QED
      BY <3>1, <3>2
  <2>6. Balanced'
    <3>1. /\ ToWrite({"skew_b_cmd"} \cup Loop)' = ToWrite({"skew_b_cmd"} \cup Loop) - 1
          /\ ToWrite(Loop)' = ToWrite(Loop) - 1
          /\ ToWrite({"skew_a_cmd", "skew_b_cmd"} \cup Loop)'
               = ToWrite({"skew_a_cmd", "skew_b_cmd"} \cup Loop) - 1
      BY <2>5 DEF Loop
    <3>2. /\ ToWrite({"skew_b_cmd"} \cup Loop) \in Nat /\ ToWrite(Loop) \in Nat
          /\ ToWrite({"skew_a_cmd", "skew_b_cmd"} \cup Loop) \in Nat
      BY <1>5, <1>8 DEF ToWrite, Loop
    <3>3. QED
      BY <1>2, <2>2, <2>4, <3>1, <3>2, CmdFrame, Counts, FlightTypes DEF InStream, Balanced
  <2>7. InPace'
    <3>1. FlightA = 1 /\ FlightB = 0 /\ sleep["skew_b"] = 0
      BY <1>1, <1>8, RoomInPace
    <3>2. FlightA' = 1 /\ FlightB' = 1
      BY <2>2, <3>1
    <3>3. QED
      BY <1>4, <1>6, <2>2, <2>4, <3>1, <3>2, TimesOf DEF InStream, InPace, stageSleeps
  <2>8. QED
    BY <2>3, <2>6, <2>7 DEF InStream
<1>9. QED
  BY <1>1, <1>7, <1>8

LEMMA GemmEndStream == EngineTypes /\ InStream /\ GemmEnd => InStream'
<1> SUFFICES ASSUME EngineTypes, InStream, GemmEnd PROVE InStream'
  OBVIOUS
<1>1. gemm.step = "end" /\ gemm'.id = 0 /\ gemm'.row = 0 /\ gemm'.step = "dequeue"
  BY DEF GemmEnd, Idle
<1>2. UNCHANGED pipeVars /\ UNCHANGED cmdVars /\ UNCHANGED stageSleeps /\ UNCHANGED sleep["gemm"]
  BY DEF GemmEnd, pipeVars, cmdVars, stageSleeps
<1>3. GemmPlace'
  BY <1>1 DEF GemmPlace
<1>4. Balanced'
  BY <1>1, <1>2, PipeFrame, CmdFrame DEF InStream, Balanced, ToWrite, WrittenA, Loop
<1>5. InPace'
  BY <1>1, <1>2, PipeFrame DEF InStream, InPace, UntilA, UntilB, WrittenA, stageSleeps
<1>6. QED
  BY <1>3, <1>4, <1>5 DEF InStream

(* A stage takes its next command. *)
LEMMA CommandTaken ==
  ASSUME EngineTypes, NEW s \in Stages, StageCommand(s)
  PROVE  /\ stage[s].row = stage[s].cmd.rows /\ stage[s].held = << >> /\ stage'[s].held = << >>
         /\ cmd[CmdOf(s)] # << >> /\ stage'[s].cmd = Head(cmd[CmdOf(s)]) /\ stage'[s].row = 0
         /\ Head(cmd[CmdOf(s)]) \in Commands
         /\ Left(s) = 0 /\ Left(s)' = Ordered(CmdOf(s)) /\ Ordered(CmdOf(s))' = 0
         /\ \A t \in Stages \ {s} : stage'[t] = stage[t]
         /\ cmd'[CmdOf(s)] = << >> /\ \A c \in Cmds \ {CmdOf(s)} : cmd'[c] = cmd[c]
<1>1. CmdOf(s) \in Cmds /\ Head(cmd[CmdOf(s)]) \in Commands /\ cmd[CmdOf(s)] # << >>
  BY Wiring DEF StageCommand, EngineTypes
<1>2. SetStage(s, Head(cmd[CmdOf(s)]), 0, << >>)
  BY CommandSet DEF StageCommand
<1>3. SetCmd(CmdOf(s), << >>)
  BY <1>1, CmdSet, Singles DEF StageCommand
<1>4. stage[s].row = stage[s].cmd.rows /\ stage[s].held = << >> /\ Left(s) = 0
  BY StageTypesOf DEF StageCommand, Left
<1>5. Head(cmd[CmdOf(s)]).rows \in Nat
  BY <1>1 DEF Commands
<1>6. Left(s)' = Ordered(CmdOf(s)) /\ Ordered(CmdOf(s))' = 0
  BY <1>1, <1>2, <1>3, <1>5 DEF Left, Ordered, SetStage, SetCmd
<1>7. QED
  BY <1>1, <1>2, <1>3, <1>4, <1>6 DEF SetStage, SetCmd

LEMMA StageCommandStream ==
  ASSUME EngineTypes, InStream, NEW s \in Stages, StageCommand(s) PROVE InStream'
<1>1. UNCHANGED <<gemm, chan, sleep>>
  BY DEF StageCommand, execVars
<1>2. CASE s \in {"array_drain", "scaler"}
  <2>1. CmdOf(s) \in {"drain_cmd", "scaler_cmd"}
    BY <1>2 DEF CmdOf
  <2>2. UNCHANGED streamVars
    BY <1>1, <1>2, <2>1, CommandTaken DEF streamVars, Stages, Cmds
  <2>3. QED
    BY <2>2, StreamFrame
<1>3. CASE s \in {"skew_a", "skew_b", "array_gemm"}
  <2>1. UNCHANGED <<stage["skew_a"].held, stage["skew_b"].held, stage["array_gemm"].held>>
    BY <1>3, CommandTaken DEF Stages
  <2>2. UNCHANGED <<InSkewA, InSkewB, FlightA, FlightB, WrittenA, UntilA, UntilB>>
    BY <1>1, <2>1 DEF InSkewA, InSkewB, FlightA, FlightB, WrittenA, UntilA, UntilB, Full
  <2>3. GemmPlace'
    BY <1>1 DEF InStream, GemmPlace
  <2>4. InPace'
    BY <1>1, <2>2 DEF InStream, InPace
  <2>5. /\ \A steps : ToWrite(steps)' = ToWrite(steps)
        /\ \A t \in Stages \ {s} : Left(t)' = Left(t)
        /\ \A c \in Cmds \ {CmdOf(s)} : Ordered(c)' = Ordered(c)
        /\ Left(s) = 0 /\ Left(s)' = Ordered(CmdOf(s)) /\ Ordered(CmdOf(s))' = 0
    BY <1>1, CommandTaken DEF ToWrite, Left, Ordered
  <2>6. Balanced'
    <3>1. CASE s = "skew_a"
      <4>1. /\ Left("skew_a") = 0 /\ Left("skew_a")' = Ordered("skew_a_cmd")
            /\ Ordered("skew_a_cmd")' = 0
        BY <2>5, <3>1, Wiring
      <4>2. UNCHANGED <<Left("skew_b"), Left("array_gemm"), Ordered("skew_b_cmd"), Ordered("gemm_cmd")>>
        BY <2>5, <3>1, Wiring DEF Stages, Cmds
      <4>3. QED
        BY <2>2, <2>5, <4>1, <4>2, Counts DEF InStream, Balanced
    <3>2. CASE s = "skew_b"
      <4>1. /\ Left("skew_b") = 0 /\ Left("skew_b")' = Ordered("skew_b_cmd")
            /\ Ordered("skew_b_cmd")' = 0
        BY <2>5, <3>2, Wiring
      <4>2. UNCHANGED <<Left("skew_a"), Left("array_gemm"), Ordered("skew_a_cmd"), Ordered("gemm_cmd")>>
        BY <2>5, <3>2, Wiring DEF Stages, Cmds
      <4>3. QED
        BY <2>2, <2>5, <4>1, <4>2, Counts DEF InStream, Balanced
    <3>3. CASE s = "array_gemm"
      <4>1. /\ Left("array_gemm") = 0 /\ Left("array_gemm")' = Ordered("gemm_cmd")
            /\ Ordered("gemm_cmd")' = 0
        BY <2>5, <3>3, Wiring
      <4>2. UNCHANGED <<Left("skew_a"), Left("skew_b"), Ordered("skew_a_cmd"), Ordered("skew_b_cmd")>>
        BY <2>5, <3>3, Wiring DEF Stages, Cmds
      <4>3. QED
        BY <2>2, <2>5, <4>1, <4>2, Counts DEF InStream, Balanced
    <3>4. QED
      BY <1>3, <3>1, <3>2, <3>3
  <2>7. QED
    BY <2>3, <2>4, <2>6 DEF InStream
<1>4. QED
  BY <1>2, <1>3 DEF Stages

(* A stage passes a row on. *)
LEMMA PassedOn ==
  ASSUME EngineTypes, NEW s \in Stages, StageWrite(s)
  PROVE  /\ stage[s].held # << >> /\ stage'[s].held = << >> /\ stage'[s].cmd = stage[s].cmd
         /\ stage'[s].row = stage[s].row + 1 /\ stage[s].row < stage[s].cmd.rows
         /\ Left(s)' = Left(s) - 1
         /\ \A t \in Stages \ {s} : stage'[t] = stage[t]
         /\ chan[OutputOf(s)] = << >> /\ chan'[OutputOf(s)] = stage[s].held
         /\ \A c \in Chans \ {OutputOf(s)} : chan'[c] = chan[c]
         /\ sleep[s] = 0 /\ sleep'[s] = TimeOf(s) /\ \A u \in Threads \ {s} : sleep'[u] = sleep[u]
<1>1. SetStage(s, stage[s].cmd, stage[s].row + 1, << >>)
  BY PassedOnSet DEF StageWrite
<1>2. OutputOf(s) \in Chans /\ SetChan(OutputOf(s), stage[s].held)
  BY Wiring, ChanSet, StageTypesOf DEF StageWrite
<1>3. sleep'[s] = TimeOf(s) /\ \A u \in Threads \ {s} : sleep'[u] = sleep[u]
  BY TimesOfStages, StageTypesOf, SleepSet DEF StageWrite
<1>4. stage[s].held # << >> /\ stage[s].row < stage[s].cmd.rows /\ sleep[s] = 0
      /\ chan[OutputOf(s)] = << >>
  BY StageTypesOf DEF StageWrite, Awake
<1>5. Left(s)' = Left(s) - 1
  BY <1>1, StageTypesOf DEF Left, SetStage
<1>6. QED
  BY <1>1, <1>2, <1>3, <1>4, <1>5 DEF SetStage, SetChan

toWrites == <<ToWrite({"skew_b_cmd"} \cup Loop), ToWrite(Loop),
              ToWrite({"skew_a_cmd", "skew_b_cmd"} \cup Loop)>>

LEMMA ToWriteTypes ==
  ASSUME EngineTypes, InStream
  PROVE  /\ ToWrite({"skew_b_cmd"} \cup Loop) \in Nat /\ ToWrite(Loop) \in Nat
         /\ ToWrite({"skew_a_cmd", "skew_b_cmd"} \cup Loop) \in Nat
<1>1. gemm.step \in {"skew_a_cmd", "skew_b_cmd"} \cup Loop
        => gemm.row \in Nat /\ GemmRows(gemm.id) \in Nat /\ gemm.row <= GemmRows(gemm.id)
  BY GemmIdOf, Counts DEF InStream, GemmPlace, Loop
<1>2. QED
  BY <1>1 DEF ToWrite

LEMMA StageWriteStream ==
  ASSUME Paced, EngineTypes, InStream, NEW s \in Stages, StageWrite(s) PROVE InStream'
<1>1. UNCHANGED gemm /\ UNCHANGED cmd /\ s # "array_gemm"
  BY DEF StageWrite, execVars
<1>2. CASE s \in {"array_drain", "scaler"}
  <2>1. OutputOf(s) \in {"pe_array_to_scaler", "scaler_to_c"}
    BY <1>2 DEF OutputOf
  <2>2. UNCHANGED streamVars
    BY <1>1, <1>2, <2>1, PassedOn DEF streamVars, Stages, Chans, Threads
  <2>3. QED
    BY <2>2, StreamFrame
<1>3. UNCHANGED cmdVars /\ UNCHANGED toWrites
  BY <1>1 DEF cmdVars, toWrites, ToWrite
<1>4. GemmPlace'
  BY <1>1 DEF InStream, GemmPlace
<1>5. s \in Stages \ {"array_gemm"} => Full(stage[s].held) = 1 /\ Full(stage'[s].held) = 0
      /\ Full(chan[OutputOf(s)]) = 0 /\ Full(chan'[OutputOf(s)]) = 1
  BY PassedOn, Singles DEF Full
<1>6. SKEW_BUF_SHIFT_TIME <= Pace
  BY TimesOf DEF Paced, Pace
<1>7. CASE s = "skew_a"
  <2>1. OutputOf(s) = "skew_a_to_pe_array" /\ TimeOf(s) = SKEW_BUF_SHIFT_TIME
    BY <1>7, Wiring
  <2>2. UNCHANGED <<sleep["gemm"], sleep["skew_b"], sleep["array_gemm"]>>
        /\ sleep["skew_a"] = 0 /\ sleep'["skew_a"] = SKEW_BUF_SHIFT_TIME
    BY <1>7, <2>1, PassedOn DEF Threads, Stages
  <2>3. UNCHANGED <<chan["a_to_skew_a"], chan["b_to_skew_b"], chan["skew_b_to_pe_array"],
                    stage["skew_b"], stage["array_gemm"]>>
    BY <1>7, <2>1, PassedOn DEF Chans, Stages
  <2>4. UNCHANGED <<WrittenA, UntilA, UntilB, Left("skew_b"), Left("array_gemm")>>
    BY <1>1, <2>2, <2>3 DEF WrittenA, UntilA, UntilB, Left
  <2>5. UNCHANGED <<Full(chan["a_to_skew_a"]), Full(chan["b_to_skew_b"]),
                    Full(chan["skew_b_to_pe_array"]), Full(stage["skew_b"].held),
                    Full(stage["array_gemm"].held)>>
    BY <2>3 DEF Full
  <2>6. /\ Full(stage["skew_a"].held) = 1 /\ Full(stage["skew_a"].held)' = 0
        /\ Full(chan["skew_a_to_pe_array"]) = 0 /\ Full(chan["skew_a_to_pe_array"])' = 1
    BY <1>5, <1>7, <2>1 DEF Stages, Full
  <2>7. UNCHANGED <<FlightA, FlightB, InSkewB>> /\ InSkewA' = InSkewA - 1
        /\ Left("skew_a")' = Left("skew_a") - 1
    BY <1>7, <2>5, <2>6, Counts, PassedOn DEF FlightA, FlightB, InSkewA, InSkewB
  <2>8. Balanced'
    <3>1. UNCHANGED <<Ordered("skew_a_cmd"), Ordered("skew_b_cmd"), Ordered("gemm_cmd")>>
      BY <1>3, CmdFrame
    <3>2. /\ InSkewA \in Nat /\ InSkewB \in Nat /\ FlightA \in Nat
          /\ Left("skew_a") \in Nat /\ Left("skew_b") \in Nat /\ Left("array_gemm") \in Nat
          /\ Ordered("skew_a_cmd") \in Nat /\ Ordered("skew_b_cmd") \in Nat
          /\ Ordered("gemm_cmd") \in Nat /\ WrittenA \in 0 .. 1
      BY Counts, FlightTypes
    <3>3. UNCHANGED <<ToWrite({"skew_b_cmd"} \cup Loop), ToWrite(Loop),
                      ToWrite({"skew_a_cmd", "skew_b_cmd"} \cup Loop)>>
      BY <1>3 DEF toWrites
    <3>4. Left("skew_b")' + Ordered("skew_b_cmd")' = ToWrite(Loop)' + InSkewB'
      <4>1. Left("skew_b") + Ordered("skew_b_cmd") = ToWrite(Loop) + InSkewB
        BY DEF InStream, Balanced
      <4>2. ToWrite(Loop) \in Nat
        BY ToWriteTypes
      <4>3. Ordered("skew_b_cmd")' = Ordered("skew_b_cmd") /\ ToWrite(Loop)' = ToWrite(Loop)
        BY <3>1, <3>3
      <4>4. QED
        BY <2>4, <2>7, <3>2, <4>1, <4>2, <4>3
    <3>5. Left("skew_a")' + Ordered("skew_a_cmd")' + WrittenA'
            = ToWrite({"skew_b_cmd"} \cup Loop)' + InSkewA'
      BY <2>4, <2>7, <3>1, <3>2, <3>3, ToWriteTypes DEF InStream, Balanced
    <3>6. Left("array_gemm")' + Ordered("gemm_cmd")' + WrittenA'
            = ToWrite({"skew_a_cmd", "skew_b_cmd"} \cup Loop)' + FlightA'
      BY <2>4, <2>7, <3>1, <3>2, <3>3, ToWriteTypes DEF InStream, Balanced
    <3>7. QED
      BY <3>4, <3>5, <3>6 DEF Balanced
  <2>9. InPace'
    <3>1. InSkewA >= 1
      BY <2>6, Counts DEF InSkewA
    <3>2. FlightA = 1 /\ InSkewA' = 0 /\ UntilA >= Pace
      BY <2>7, <3>1, FlightTypes DEF InStream, InPace
    <3>3. QED
      BY <1>1, <1>6, <2>2, <2>4, <2>7, <3>2, TimesOf, FlightTypes DEF InStream, InPace
  <2>10. QED
    BY <1>4, <2>8, <2>9 DEF InStream
<1>8. CASE s = "skew_b"
  <2>1. OutputOf(s) = "skew_b_to_pe_array" /\ TimeOf(s) = SKEW_BUF_SHIFT_TIME
    BY <1>8, Wiring
  <2>2. UNCHANGED <<sleep["gemm"], sleep["skew_a"], sleep["array_gemm"]>>
        /\ sleep["skew_b"] = 0 /\ sleep'["skew_b"] = SKEW_BUF_SHIFT_TIME
    BY <1>8, <2>1, PassedOn DEF Threads, Stages
  <2>3. UNCHANGED <<chan["a_to_skew_a"], chan["b_to_skew_b"], chan["skew_a_to_pe_array"],
                    stage["skew_a"], stage["array_gemm"]>>
    BY <1>8, <2>1, PassedOn DEF Chans, Stages
  <2>4. UNCHANGED <<WrittenA, UntilA, UntilB, Left("skew_a"), Left("array_gemm")>>
    BY <1>1, <2>2, <2>3 DEF WrittenA, UntilA, UntilB, Left
  <2>5. UNCHANGED <<Full(chan["a_to_skew_a"]), Full(chan["b_to_skew_b"]),
                    Full(chan["skew_a_to_pe_array"]), Full(stage["skew_a"].held),
                    Full(stage["array_gemm"].held)>>
    BY <2>3 DEF Full
  <2>6. /\ Full(stage["skew_b"].held) = 1 /\ Full(stage["skew_b"].held)' = 0
        /\ Full(chan["skew_b_to_pe_array"]) = 0 /\ Full(chan["skew_b_to_pe_array"])' = 1
    BY <1>5, <1>8, <2>1 DEF Stages, Full
  <2>7. UNCHANGED <<FlightA, FlightB, InSkewA>> /\ InSkewB' = InSkewB - 1
        /\ Left("skew_b")' = Left("skew_b") - 1
    BY <1>8, <2>5, <2>6, Counts, PassedOn DEF FlightA, FlightB, InSkewA, InSkewB
  <2>8. Balanced'
    <3>1. UNCHANGED <<Ordered("skew_a_cmd"), Ordered("skew_b_cmd"), Ordered("gemm_cmd")>>
      BY <1>3, CmdFrame
    <3>2. /\ InSkewA \in Nat /\ InSkewB \in Nat /\ FlightA \in Nat
          /\ Left("skew_a") \in Nat /\ Left("skew_b") \in Nat /\ Left("array_gemm") \in Nat
          /\ Ordered("skew_a_cmd") \in Nat /\ Ordered("skew_b_cmd") \in Nat
          /\ Ordered("gemm_cmd") \in Nat /\ WrittenA \in 0 .. 1
      BY Counts, FlightTypes
    <3>3. UNCHANGED <<ToWrite({"skew_b_cmd"} \cup Loop), ToWrite(Loop),
                      ToWrite({"skew_a_cmd", "skew_b_cmd"} \cup Loop)>>
      BY <1>3 DEF toWrites
    <3>4. Left("skew_b")' + Ordered("skew_b_cmd")' = ToWrite(Loop)' + InSkewB'
      <4>1. Left("skew_b") + Ordered("skew_b_cmd") = ToWrite(Loop) + InSkewB
        BY DEF InStream, Balanced
      <4>2. ToWrite(Loop) \in Nat
        BY ToWriteTypes
      <4>3. Ordered("skew_b_cmd")' = Ordered("skew_b_cmd") /\ ToWrite(Loop)' = ToWrite(Loop)
        BY <3>1, <3>3
      <4>4. QED
        BY <2>4, <2>7, <3>2, <4>1, <4>2, <4>3
    <3>5. Left("skew_a")' + Ordered("skew_a_cmd")' + WrittenA'
            = ToWrite({"skew_b_cmd"} \cup Loop)' + InSkewA'
      BY <2>4, <2>7, <3>1, <3>2, <3>3, ToWriteTypes DEF InStream, Balanced
    <3>6. Left("array_gemm")' + Ordered("gemm_cmd")' + WrittenA'
            = ToWrite({"skew_a_cmd", "skew_b_cmd"} \cup Loop)' + FlightA'
      BY <2>4, <2>7, <3>1, <3>2, <3>3, ToWriteTypes DEF InStream, Balanced
    <3>7. QED
      BY <3>4, <3>5, <3>6 DEF Balanced
  <2>9. InPace'
    <3>1. InSkewB >= 1
      BY <2>6, Counts DEF InSkewB
    <3>2. FlightB = 1 /\ FlightA = 1 /\ WrittenA = 0 /\ InSkewB' = 0 /\ UntilA >= Pace
      BY <2>7, <3>1, FlightTypes DEF InStream, InPace
    <3>3. gemm.step # "b_to_skew_b"
      BY <3>2 DEF WrittenA
    <3>4. UntilB >= Pace
      BY <3>2, <3>3, TimesOf DEF UntilA, UntilB
    <3>5. QED
      BY <1>1, <1>6, <2>2, <2>4, <2>7, <3>2, <3>4, TimesOf, FlightTypes DEF InStream, InPace
  <2>10. QED
    BY <1>4, <2>8, <2>9 DEF InStream
<1>9. QED
  BY <1>1, <1>2, <1>7, <1>8 DEF Stages

(* A skew buffer shifts a row through. *)
LEMMA Shifts ==
  ASSUME EngineTypes, NEW s \in Stages, SkewShift(s)
  PROVE  /\ s \in {"skew_a", "skew_b"} /\ sleep[s] = 0 /\ stage[s].row < stage[s].cmd.rows
         /\ stage[s].held = << >> /\ stage'[s].cmd = stage[s].cmd /\ stage'[s].row = stage[s].row
         /\ \E v : stage'[s].held = <<v>>
         /\ stage'[s].held = <<[lane \in Lanes |-> (chan[InputOf(s)] \o regs[s][lane])[lane + 1]]>>
         /\ \A t \in Stages \ {s} : stage'[t] = stage[t]
         /\ chan[InputOf(s)] # << >> /\ chan'[InputOf(s)] = << >>
         /\ \A c \in Chans \ {InputOf(s)} : chan'[c] = chan[c]
<1>1. s \in {"skew_a", "skew_b"} /\ InputOf(s) \in Chans
  BY DEF SkewShift, InputOf, Chans
<1>2. SetStage(s, stage[s].cmd, stage[s].row,
               <<[lane \in Lanes |-> (chan[InputOf(s)] \o regs[s][lane])[lane + 1]]>>)
  BY HeldSet DEF SkewShift
<1>3. SetChan(InputOf(s), << >>)
  BY <1>1, ChanSet, Singles DEF SkewShift
<1>4. stage[s].held = << >> /\ stage[s].row < stage[s].cmd.rows /\ sleep[s] = 0
      /\ chan[InputOf(s)] # << >>
  BY DEF SkewShift, InRowLoop, Awake
<1>5. /\ stage'[s].cmd = stage[s].cmd /\ stage'[s].row = stage[s].row
      /\ stage'[s].held = <<[lane \in Lanes |-> (chan[InputOf(s)] \o regs[s][lane])[lane + 1]]>>
      /\ \A t \in Stages \ {s} : stage'[t] = stage[t]
  BY <1>2, Zenon DEF SetStage
<1>6. chan'[InputOf(s)] = << >> /\ \A c \in Chans \ {InputOf(s)} : chan'[c] = chan[c]
  BY <1>3, Zenon DEF SetChan
<1>7. \E v : stage'[s].held = <<v>>
  BY <1>5, Zenon
<1>8. QED
  BY <1>1, <1>4, <1>5, <1>6, <1>7, Zenon

LEMMA SkewShiftStream ==
  ASSUME EngineTypes, InStream, NEW s \in Stages, SkewShift(s) PROVE InStream'
<1>1. UNCHANGED gemm /\ UNCHANGED cmdVars /\ UNCHANGED sleep
  BY DEF SkewShift, execVars, cmdVars
<1>2. /\ Full(chan[InputOf(s)]) = 1 /\ Full(chan'[InputOf(s)]) = 0
      /\ Full(stage[s].held) = 0 /\ Full(stage'[s].held) = 1
  BY Shifts, Singles, ZenonT(40) DEF Full
<1>3. UNCHANGED <<InSkewA, InSkewB, FlightA, FlightB>>
  <2>1. CASE s = "skew_a"
    <3>1. /\ Full(chan["a_to_skew_a"]) = 1 /\ Full(chan["a_to_skew_a"])' = 0
          /\ Full(stage["skew_a"].held) = 0 /\ Full(stage["skew_a"].held)' = 1
      BY <1>2, <2>1, Wiring DEF Full
    <3>2. UNCHANGED <<chan["b_to_skew_b"], chan["skew_a_to_pe_array"], chan["skew_b_to_pe_array"],
                      stage["skew_b"], stage["array_gemm"]>>
      BY <2>1, Shifts, Wiring DEF Chans, Stages
    <3>3. QED
      BY <3>1, <3>2 DEF InSkewA, InSkewB, FlightA, FlightB, Full
  <2>2. CASE s = "skew_b"
    <3>1. /\ Full(chan["b_to_skew_b"]) = 1 /\ Full(chan["b_to_skew_b"])' = 0
          /\ Full(stage["skew_b"].held) = 0 /\ Full(stage["skew_b"].held)' = 1
      BY <1>2, <2>2, Wiring DEF Full
    <3>2. UNCHANGED <<chan["a_to_skew_a"], chan["skew_a_to_pe_array"], chan["skew_b_to_pe_array"],
                      stage["skew_a"], stage["array_gemm"]>>
      BY <2>2, Shifts, Wiring DEF Chans, Stages
    <3>3. QED
      BY <3>1, <3>2 DEF InSkewA, InSkewB, FlightA, FlightB, Full
  <2>3. QED
    BY <2>1, <2>2, Shifts
<1>4. UNCHANGED <<Left("skew_a"), Left("skew_b"), Left("array_gemm"), WrittenA, UntilA, UntilB>>
  <2>1. \A t \in Stages : stage'[t].cmd = stage[t].cmd /\ stage'[t].row = stage[t].row
    BY Shifts
  <2>2. QED
    BY <1>1, <2>1 DEF Left, WrittenA, UntilA, UntilB, Stages
<1>5. UNCHANGED toWrites
  BY <1>1 DEF toWrites, ToWrite
<1>6. Balanced'
  BY <1>1, <1>3, <1>4, <1>5, CmdFrame DEF InStream, Balanced, toWrites
<1>7. InPace'
  BY <1>1, <1>3, <1>4 DEF InStream, InPace
<1>8. QED
  BY <1>1, <1>6, <1>7 DEF InStream, GemmPlace

(* The array takes a row of A, then one of B, and shifts. *)
LEMMA ReadsA ==
  ASSUME EngineTypes, ArrayReadA
  PROVE  /\ stage["array_gemm"].held = << >> /\ stage'["array_gemm"].held = chan["skew_a_to_pe_array"]
         /\ stage'["array_gemm"].cmd = stage["array_gemm"].cmd
         /\ stage'["array_gemm"].row = stage["array_gemm"].row
         /\ stage["array_gemm"].row < stage["array_gemm"].cmd.rows
         /\ \A t \in Stages \ {"array_gemm"} : stage'[t] = stage[t]
         /\ chan["skew_a_to_pe_array"] # << >> /\ chan'["skew_a_to_pe_array"] = << >>
         /\ \A c \in Chans \ {"skew_a_to_pe_array"} : chan'[c] = chan[c]
<1>1. "array_gemm" \in Stages /\ "skew_a_to_pe_array" \in Chans
  BY DEF Stages, Chans
<1>2. SetStage("array_gemm", stage["array_gemm"].cmd, stage["array_gemm"].row, chan["skew_a_to_pe_array"])
  BY <1>1, HeldSet DEF ArrayReadA
<1>3. SetChan("skew_a_to_pe_array", << >>)
  BY <1>1, ChanSet, Singles DEF ArrayReadA
<1>4. QED
  BY <1>2, <1>3 DEF SetStage, SetChan, ArrayReadA, InRowLoop

LEMMA ShiftsIn ==
  ASSUME EngineTypes, ArrayShift
  PROVE  /\ stage["array_gemm"].held # << >> /\ stage'["array_gemm"].held = << >>
         /\ stage'["array_gemm"].cmd = stage["array_gemm"].cmd
         /\ stage'["array_gemm"].row = stage["array_gemm"].row + 1
         /\ stage["array_gemm"].row < stage["array_gemm"].cmd.rows
         /\ Left("array_gemm")' = Left("array_gemm") - 1
         /\ \A t \in Stages \ {"array_gemm"} : stage'[t] = stage[t]
         /\ chan["skew_b_to_pe_array"] # << >> /\ chan'["skew_b_to_pe_array"] = << >>
         /\ \A c \in Chans \ {"skew_b_to_pe_array"} : chan'[c] = chan[c]
         /\ sleep["array_gemm"] = 0 /\ sleep'["array_gemm"] = PE_MAC_TIME
         /\ \A u \in Threads \ {"array_gemm"} : sleep'[u] = sleep[u]
<1>1. "array_gemm" \in Stages /\ "skew_b_to_pe_array" \in Chans /\ "array_gemm" \in Threads
  BY DEF Stages, Chans, Threads
<1>2. SetStage("array_gemm", stage["array_gemm"].cmd, stage["array_gemm"].row + 1, << >>)
  BY <1>1, PassedOnSet DEF ArrayShift
<1>3. SetChan("skew_b_to_pe_array", << >>)
  BY <1>1, ChanSet, Singles DEF ArrayShift
<1>4. /\ sleep'["array_gemm"] = PE_MAC_TIME /\ \A u \in Threads \ {"array_gemm"} : sleep'[u] = sleep[u]
  BY <1>1, SleepSet, TimesOf DEF ArrayShift
<1>5. Left("array_gemm")' = Left("array_gemm") - 1
  BY <1>1, <1>2, StageTypesOf DEF Left, SetStage
<1>6. QED
  BY <1>2, <1>3, <1>4, <1>5 DEF SetStage, SetChan, ArrayShift, InRowLoop, Awake

LEMMA ArrayReadAStream == EngineTypes /\ InStream /\ ArrayReadA => InStream'
<1> SUFFICES ASSUME EngineTypes, InStream, ArrayReadA PROVE InStream'
  OBVIOUS
<1>1. UNCHANGED gemm /\ UNCHANGED cmdVars /\ UNCHANGED sleep
  BY DEF ArrayReadA, execVars, cmdVars
<1>2. /\ Full(chan["skew_a_to_pe_array"]) = 1 /\ Full(chan["skew_a_to_pe_array"])' = 0
      /\ Full(stage["array_gemm"].held) = 0 /\ Full(stage["array_gemm"].held)' = 1
  BY ReadsA DEF Full
<1>3. UNCHANGED <<InSkewA, InSkewB, FlightA, FlightB>>
  <2>1. UNCHANGED <<chan["a_to_skew_a"], chan["b_to_skew_b"], chan["skew_b_to_pe_array"],
                    stage["skew_a"], stage["skew_b"]>>
    BY ReadsA DEF Chans, Stages
  <2>2. QED
    BY <1>2, <2>1 DEF InSkewA, InSkewB, FlightA, FlightB, Full
<1>4. UNCHANGED <<Left("skew_a"), Left("skew_b"), Left("array_gemm"), WrittenA, UntilA, UntilB>>
  BY <1>1, ReadsA DEF Left, WrittenA, UntilA, UntilB, Stages
<1>5. UNCHANGED toWrites
  BY <1>1 DEF toWrites, ToWrite
<1>6. Balanced'
  BY <1>1, <1>3, <1>4, <1>5, CmdFrame DEF InStream, Balanced, toWrites
<1>7. InPace'
  BY <1>1, <1>3, <1>4 DEF InStream, InPace
<1>8. QED
  BY <1>1, <1>6, <1>7 DEF InStream, GemmPlace

LEMMA ArrayShiftStream == Paced /\ EngineTypes /\ InStream /\ ArrayShift => InStream'
<1> SUFFICES ASSUME Paced, EngineTypes, InStream, ArrayShift PROVE InStream'
  OBVIOUS
<1>1. UNCHANGED gemm /\ UNCHANGED cmdVars
      /\ UNCHANGED <<sleep["gemm"], sleep["skew_a"], sleep["skew_b"]>>
  BY ShiftsIn DEF ArrayShift, execVars, cmdVars, Threads, Stages
<1>2. /\ Full(chan["skew_b_to_pe_array"]) = 1 /\ Full(chan["skew_b_to_pe_array"])' = 0
      /\ Full(stage["array_gemm"].held) = 1 /\ Full(stage["array_gemm"].held)' = 0
  BY ShiftsIn DEF Full
<1>3. UNCHANGED <<InSkewA, InSkewB>> /\ FlightA' = FlightA - 1 /\ FlightB' = FlightB - 1
  <2>1. UNCHANGED <<chan["a_to_skew_a"], chan["b_to_skew_b"], chan["skew_a_to_pe_array"],
                    stage["skew_a"], stage["skew_b"]>>
    BY ShiftsIn DEF Chans, Stages
  <2>2. UNCHANGED <<InSkewA, InSkewB, Full(chan["skew_a_to_pe_array"])>>
    BY <2>1 DEF InSkewA, InSkewB, Full
  <2>3. QED
    BY <1>2, <2>2, FlightTypes, Counts DEF FlightA, FlightB
<1>4. UNCHANGED <<Left("skew_a"), Left("skew_b"), WrittenA, UntilA, UntilB>>
      /\ Left("array_gemm")' = Left("array_gemm") - 1
  BY <1>1, ShiftsIn DEF Left, WrittenA, UntilA, UntilB, Stages
<1>5. UNCHANGED toWrites
  BY <1>1 DEF toWrites, ToWrite
<1>6. Balanced'
  <2>1. UNCHANGED <<Ordered("skew_a_cmd"), Ordered("skew_b_cmd"), Ordered("gemm_cmd")>>
    BY <1>1, CmdFrame
  <2>2. UNCHANGED <<ToWrite({"skew_b_cmd"} \cup Loop), ToWrite(Loop),
                    ToWrite({"skew_a_cmd", "skew_b_cmd"} \cup Loop)>>
    BY <1>5 DEF toWrites
  <2>3. Left("array_gemm") + Ordered("gemm_cmd") + WrittenA
          = ToWrite({"skew_a_cmd", "skew_b_cmd"} \cup Loop) + FlightA
    BY DEF InStream, Balanced
  <2>4. Left("array_gemm")' + Ordered("gemm_cmd")' + WrittenA'
          = ToWrite({"skew_a_cmd", "skew_b_cmd"} \cup Loop)' + FlightA'
    BY <1>3, <1>4, <2>1, <2>2, <2>3, ToWriteTypes, Counts, FlightTypes
  <2>5. QED
    BY <1>3, <1>4, <2>1, <2>2, <2>4 DEF InStream, Balanced
<1>7. InPace'
  <2>1. FlightA = 1 /\ FlightB = 1 /\ FlightA' = 0 /\ FlightB' = 0 /\ WrittenA = 0 /\ InSkewA = 0 /\ InSkewB = 0
    <3>1. FlightA >= 1 + InSkewA /\ FlightB >= 1 + InSkewB
      BY <1>2, FlightTypes, Counts DEF FlightA, FlightB
    <3>2. FlightA = 1 /\ FlightB = 1 /\ WrittenA = 0 /\ InSkewA = 0 /\ InSkewB = 0
      BY <3>1, FlightTypes DEF InStream, InPace
    <3>3. QED
      BY <1>3, <3>2
  <2>2. PE_MAC_TIME <= Pace
    BY TimesOf DEF Paced, Pace
  <2>3. QED
    BY <1>1, <1>3, <1>4, <2>1, <2>2, ShiftsIn, TimesOf, FlightTypes DEF InStream, InPace
<1>8. QED
  BY <1>1, <1>6, <1>7 DEF InStream, GemmPlace

(* Time passes only when no row is under way. *)
LEMMA QuietWhenTicking ==
  ASSUME EngineTypes, InStream, Tick
  PROVE  FlightA = 0
<1> SUFFICES ASSUME FlightA # 0 PROVE FALSE
  OBVIOUS
<1>1. /\ FlightA = 1 /\ sleep["array_gemm"] = 0 /\ FlightB \in 0 .. 1 /\ FlightA = FlightB + WrittenA
  BY FlightTypes DEF InStream, InPace
<1>2. /\ \A s \in Stages : ~ StageCanRun(s)
      /\ ~ GemmCanRun
  BY DEF Tick
<1>3. /\ WrittenA = 1 => ToWrite(Loop) >= 1 /\ ToWrite({"skew_b_cmd"} \cup Loop) >= 1
                         /\ ToWrite({"skew_a_cmd", "skew_b_cmd"} \cup Loop) >= 1
  <2>1. WrittenA = 1 => gemm.row \in Nat /\ GemmRows(gemm.id) \in Nat /\ gemm.row < GemmRows(gemm.id)
                        /\ gemm.step \in Loop
    BY GemmIdOf, Counts DEF InStream, GemmPlace, WrittenA, Loop
  <2>2. QED
    BY <2>1 DEF ToWrite
<1>4. Left("skew_a") + Ordered("skew_a_cmd") >= 1 \/ InSkewA = 0
  <2>1. Left("skew_a") + Ordered("skew_a_cmd") + WrittenA = ToWrite({"skew_b_cmd"} \cup Loop) + InSkewA
    BY DEF InStream, Balanced
  <2>2. QED
    BY <1>3, <2>1, ToWriteTypes, Counts, FlightTypes
<1>5. Left("skew_b") + Ordered("skew_b_cmd") >= 1 \/ InSkewB = 0
  <2>1. Left("skew_b") + Ordered("skew_b_cmd") = ToWrite(Loop) + InSkewB
    BY DEF InStream, Balanced
  <2>2. QED
    BY <2>1, ToWriteTypes, Counts, FlightTypes
<1>6. Left("array_gemm") + Ordered("gemm_cmd") >= 1
  <2>1. Left("array_gemm") + Ordered("gemm_cmd") + WrittenA
          = ToWrite({"skew_a_cmd", "skew_b_cmd"} \cup Loop) + FlightA
    BY DEF InStream, Balanced
  <2>2. QED
    BY <1>1, <1>3, <2>1, ToWriteTypes, Counts, FlightTypes
<1>7. ASSUME NEW s \in Stages, Awake(s), Left(s) + Ordered(CmdOf(s)) >= 1
      PROVE  InRowLoop(s) /\ ~ HasInput(s)
  <2>1. Left(s) = 0 => stage[s].row = stage[s].cmd.rows
    BY StageTypesOf DEF Left
  <2>2. cmd[CmdOf(s)] # << >> \/ Ordered(CmdOf(s)) = 0
    BY DEF Ordered
  <2>3. Left(s) # 0
    BY <1>2, <1>7, <2>1, <2>2, StageTypesOf DEF StageCanRun
  <2>4. stage[s].row < stage[s].cmd.rows
    BY <2>3, StageTypesOf DEF Left
  <2>5. QED
    BY <1>2, <1>7, <2>4 DEF StageCanRun, InRowLoop
<1>8. InSkewA = 0
  <2> SUFFICES ASSUME InSkewA # 0 PROVE FALSE
    OBVIOUS
  <2>1. InSkewA = 1 /\ sleep["skew_a"] = 0
    BY <1>1, FlightTypes DEF InStream, InPace
  <2>2. InRowLoop("skew_a") /\ ~ HasInput("skew_a")
    BY <1>4, <1>7, <2>1, Wiring DEF Awake, Stages
  <2>3. Full(chan["skew_a_to_pe_array"]) = 0
    BY <1>1, <2>1, Counts DEF FlightA
  <2>4. chan["skew_a_to_pe_array"] = << >>
    BY <2>3, Singles
  <2>5. stage["skew_a"].held = << >>
    BY <1>2, <2>1, <2>4, Wiring DEF StageCanRun, Awake, Stages
  <2>6. chan["a_to_skew_a"] = << >>
    BY <2>2, <2>5, Wiring DEF HasInput
  <2>7. QED
    BY <2>1, <2>5, <2>6, Singles DEF InSkewA
<1>9. InSkewB = 0
  <2> SUFFICES ASSUME InSkewB # 0 PROVE FALSE
    OBVIOUS
  <2>1. InSkewB = 1 /\ sleep["skew_b"] = 0
    BY <1>1, FlightTypes DEF InStream, InPace
  <2>2. InRowLoop("skew_b") /\ ~ HasInput("skew_b")
    BY <1>5, <1>7, <2>1, Wiring DEF Awake, Stages
  <2>3. Full(chan["skew_b_to_pe_array"]) = 0
    BY <1>1, <2>1, Counts DEF FlightB
  <2>4. chan["skew_b_to_pe_array"] = << >>
    BY <2>3, Singles
  <2>5. stage["skew_b"].held = << >>
    BY <1>2, <2>1, <2>4, Wiring DEF StageCanRun, Awake, Stages
  <2>6. chan["b_to_skew_b"] = << >>
    BY <2>2, <2>5, Wiring DEF HasInput
  <2>7. QED
    BY <2>1, <2>5, <2>6, Singles DEF InSkewB
<1>10. ~ HasInput("array_gemm")
  BY <1>1, <1>6, <1>7, Wiring DEF Awake, Stages
<1>11. Full(chan["skew_a_to_pe_array"]) + Full(stage["array_gemm"].held) = 1
  BY <1>1, <1>8, Counts DEF FlightA
<1>12. stage["array_gemm"].held # << >>
  <2> SUFFICES ASSUME stage["array_gemm"].held = << >> PROVE FALSE
    OBVIOUS
  <2>1. chan["skew_a_to_pe_array"] = << >>
    BY <1>10 DEF HasInput
  <2>2. QED
    BY <1>11, <2>1, Singles
<1>13. chan["skew_b_to_pe_array"] = << >>
  BY <1>10, <1>12 DEF HasInput
<1>14. FlightB = 0
  BY <1>9, <1>13, Singles DEF FlightB
<1>15. gemm.step = "b_to_skew_b" /\ sleep["gemm"] = 0
  BY <1>1, <1>14, FlightTypes DEF InStream, InPace, WrittenA
<1>16. chan["b_to_skew_b"] = << >>
  BY <1>9, Counts, Singles DEF InSkewB
<1>17. QED
  BY <1>2, <1>15, <1>16 DEF GemmCanRun, Chans, Awake

LEMMA TickStream == EngineTypes /\ InStream /\ Tick => InStream'
<1> SUFFICES ASSUME EngineTypes, InStream, Tick PROVE InStream'
  OBVIOUS
<1>1. UNCHANGED <<gemm, chan, cmd, stage>>
  BY DEF Tick, execVars
<1>2. UNCHANGED pipeVars /\ UNCHANGED cmdVars /\ UNCHANGED toWrites /\ UNCHANGED WrittenA
  BY <1>1 DEF pipeVars, cmdVars, toWrites, ToWrite, WrittenA
<1>3. Balanced'
  BY <1>2, PipeFrame, CmdFrame DEF InStream, Balanced, toWrites
<1>4. FlightA = 0 /\ FlightB = 0 /\ WrittenA = 0
  BY QuietWhenTicking, FlightTypes DEF InStream, InPace
<1>5. InSkewA = 0 /\ InSkewB = 0
  BY <1>4, FlightTypes
<1>6. InPace'
  <2>1. /\ FlightA' = 0 /\ FlightB' = 0 /\ WrittenA' = 0 /\ InSkewA' = 0 /\ InSkewB' = 0
    BY <1>2, <1>4, <1>5, PipeFrame
  <2>2. \A t \in Threads : sleep'[t] = IF sleep[t] > 0 THEN sleep[t] - 1 ELSE 0
    BY DEF Tick
  <2>3. /\ sleep["gemm"] \in Nat /\ sleep["skew_a"] \in Nat /\ sleep["skew_b"] \in Nat
        /\ sleep["array_gemm"] \in Nat
    BY Counts DEF Threads, Stages
  <2>4. /\ sleep'["gemm"] = IF sleep["gemm"] > 0 THEN sleep["gemm"] - 1 ELSE 0
        /\ sleep'["skew_a"] = IF sleep["skew_a"] > 0 THEN sleep["skew_a"] - 1 ELSE 0
        /\ sleep'["skew_b"] = IF sleep["skew_b"] > 0 THEN sleep["skew_b"] - 1 ELSE 0
        /\ sleep'["array_gemm"] = IF sleep["array_gemm"] > 0 THEN sleep["array_gemm"] - 1 ELSE 0
    BY <2>2 DEF Threads, Stages
  <2>5. gemm.step # "b_to_skew_b" /\ gemm'.step = gemm.step
    BY <1>1, <1>4 DEF WrittenA
  <2>6. sleep["skew_a"] <= UntilA /\ sleep["array_gemm"] <= UntilA /\ sleep["skew_b"] <= UntilB
    BY DEF InStream, InPace
  <2>7. sleep'["skew_a"] <= UntilA' /\ sleep'["array_gemm"] <= UntilA' /\ sleep'["skew_b"] <= UntilB'
    BY <2>3, <2>4, <2>5, <2>6, TimesOf DEF UntilA, UntilB
  <2>8. QED
    BY <2>1, <2>5, <2>7 DEF InPace
<1>7. QED
  BY <1>1, <1>3, <1>6 DEF InStream, GemmPlace

LEMMA DrainThreadStream == EngineTypes /\ InStream /\ DrainThread => InStream'
<1> SUFFICES ASSUME EngineTypes, InStream, DrainThread PROVE InStream'
  OBVIOUS
<1>1. UNCHANGED gemm /\ UNCHANGED stage
  BY DEF DrainThread, DrainDequeue, DrainCommand, DrainRow, DrainNext, gemmVars
<1>2. UNCHANGED cmdVars
  <2>1. CASE DrainCommand
    <3>1. drain.step \in {"drain_cmd", "scaler_cmd"} /\ cmd = [c \in Cmds |-> cmd[c]]
          /\ \E v : cmd' = [cmd EXCEPT ![drain.step] = v]
      BY <2>1 DEF DrainCommand, EngineTypes
    <3>2. QED
      BY <3>1 DEF cmdVars, Cmds
  <2>2. CASE ~ DrainCommand
    BY <2>2 DEF DrainThread, DrainDequeue, DrainRow, DrainNext, cmdVars
  <2>3. QED
    BY <2>1, <2>2
<1>3. UNCHANGED <<chan["a_to_skew_a"], chan["b_to_skew_b"], chan["skew_a_to_pe_array"],
                  chan["skew_b_to_pe_array"]>>
  <2>1. CASE DrainRow
    BY <2>1 DEF DrainRow, EngineTypes, Chans
  <2>2. CASE ~ DrainRow
    BY <2>2 DEF DrainThread, DrainDequeue, DrainCommand, DrainNext
  <2>3. QED
    BY <2>1, <2>2
<1>4. UNCHANGED <<sleep["gemm"], sleep["skew_a"], sleep["skew_b"], sleep["array_gemm"]>>
  <2>1. CASE DrainRow
    <3>1. PICK ticks : SleepFor("drain", ticks)
      BY <2>1 DEF DrainRow
    <3>2. QED
      BY <3>1 DEF SleepFor, EngineTypes, Threads, Stages
  <2>2. CASE ~ DrainRow
    BY <2>2 DEF DrainThread, DrainDequeue, DrainCommand, DrainNext
  <2>3. QED
    BY <2>1, <2>2
<1>5. UNCHANGED streamVars
  BY <1>1, <1>2, <1>3, <1>4 DEF streamVars, cmdVars
<1>6. QED
  BY <1>5, StreamFrame

LEMMA OthersStream ==
  EngineTypes /\ InStream /\ (Issue \/ ArrayShiftOut \/ ScalerScale) => InStream'
<1> SUFFICES ASSUME EngineTypes, InStream, Issue \/ ArrayShiftOut \/ ScalerScale PROVE InStream'
  OBVIOUS
<1>1. UNCHANGED <<gemm, cmd, sleep>>
  BY DEF Issue, ArrayShiftOut, ScalerScale, execVars
<1>2. UNCHANGED <<chan["a_to_skew_a"], chan["b_to_skew_b"], chan["skew_a_to_pe_array"],
                  chan["skew_b_to_pe_array"]>>
  <2>1. CASE ScalerScale
    BY <2>1 DEF ScalerScale, EngineTypes, Chans
  <2>2. CASE ~ ScalerScale
    BY <2>2 DEF Issue, ArrayShiftOut
  <2>3. QED
    BY <2>1, <2>2
<1>3. UNCHANGED <<stage["skew_a"], stage["skew_b"], stage["array_gemm"]>>
  <2>1. stage = [t \in Stages |-> stage[t]]
    BY DEF EngineTypes, StageTypes
  <2>2. \/ stage' = stage
        \/ \E held : stage' = [stage EXCEPT !["array_drain"].held = held]
        \/ \E held : stage' = [stage EXCEPT !["scaler"].held = held]
    BY DEF Issue, ArrayShiftOut, ScalerScale
  <2>3. QED
    BY <2>1, <2>2 DEF Stages
<1>4. UNCHANGED streamVars
  BY <1>1, <1>2, <1>3 DEF streamVars
<1>5. QED
  BY <1>4, StreamFrame

LEMMA StreamInit == Init => EngineTypes /\ InStream
<1> SUFFICES ASSUME Init PROVE EngineTypes /\ InStream
  OBVIOUS
<1>1. NoCmd \in Commands /\ NoCmd.rows = 0 /\ 0 \in 0 .. NoCmd.rows
  BY DEF NoCmd, Commands
<1>2. StageTypes /\ \A s \in Stages : Left(s) = 0 /\ stage[s].held = << >>
  BY <1>1, Singles DEF Init, StageTypes, Left
<1>3. \A c \in Chans : chan[c] = << >>
  BY DEF Init
<1>4. (\A c \in Cmds : cmd[c] = << >>) /\ \A t \in Threads : sleep[t] = 0
  BY DEF Init
<1>5. EngineTypes
  <2>1. gemm \in [id : Gemms \cup {0}, row : Nat, step : GemmSteps]
        /\ drain \in [id : Drains \cup {0}, row : Nat, step : DrainSteps]
    BY DEF Init, Idle, GemmSteps, DrainSteps
  <2>2. issued \in 0 .. Len(Program)
    BY ProgramAssumption DEF Init
  <2>3. /\ chan = [c \in Chans |-> chan[c]] /\ \A c \in Chans : OneOrNone(chan[c])
        /\ cmd = [c \in Cmds |-> cmd[c]]
        /\ \A c \in Cmds : OneOrNone(cmd[c]) /\ (cmd[c] # << >> => Head(cmd[c]) \in Commands)
    BY Singles DEF Init
  <2>4. sleep \in [Threads -> Nat]
    BY DEF Init
  <2>5. gemm_instr_queue \in Seq(Gemms) /\ drain_instr_queue \in Seq(Drains)
        /\ last_gemm_completed_id \in Gemms \cup {0} /\ last_drain_completed_id \in Drains \cup {0}
    BY DEF Init
  <2>6. QED
    BY <1>2, <2>1, <2>2, <2>3, <2>4, <2>5 DEF EngineTypes
<1>6. GemmPlace
  BY DEF Init, Idle, GemmPlace
<1>7. InSkewA = 0 /\ InSkewB = 0 /\ FlightA = 0 /\ FlightB = 0
  BY <1>2, <1>3, Singles DEF InSkewA, InSkewB, FlightA, FlightB, Chans, Stages
<1>8. gemm.step = "dequeue"
  BY DEF Init, Idle
<1>9. WrittenA = 0 /\ UntilA = Pace /\ UntilB = Pace
  BY <1>8 DEF WrittenA, UntilA, UntilB
<1>10. Balanced
  <2>1. ToWrite({"skew_b_cmd"} \cup Loop) = 0 /\ ToWrite(Loop) = 0
        /\ ToWrite({"skew_a_cmd", "skew_b_cmd"} \cup Loop) = 0
    BY <1>8 DEF ToWrite, Loop
  <2>2. Ordered("skew_a_cmd") = 0 /\ Ordered("skew_b_cmd") = 0 /\ Ordered("gemm_cmd") = 0
    BY <1>4 DEF Ordered, Cmds
  <2>3. Left("skew_a") = 0 /\ Left("skew_b") = 0 /\ Left("array_gemm") = 0
    BY <1>2 DEF Stages
  <2>4. QED
    BY <1>7, <1>9, <2>1, <2>2, <2>3 DEF Balanced
<1>11. InPace
  <2>1. sleep["gemm"] = 0 /\ sleep["skew_a"] = 0 /\ sleep["skew_b"] = 0 /\ sleep["array_gemm"] = 0
    BY <1>4 DEF Threads, Stages
  <2>2. QED
    BY <1>7, <1>8, <1>9, <2>1, TimesOf DEF InPace
<1>12. QED
  BY <1>5, <1>6, <1>10, <1>11 DEF InStream

(* What holds of drain_thread alone *)
DrainThere == drain.step # "dequeue" => drain.id # 0

LEMMA DrainThereStep == EngineTypes /\ DrainThere /\ Next => DrainThere'
<1> SUFFICES ASSUME EngineTypes, DrainThere, Next PROVE DrainThere'
  OBVIOUS
<1>1. CASE DrainDequeue
  <2>1. Head(drain_instr_queue) \in Drains
    BY <1>1 DEF DrainDequeue, EngineTypes
  <2>2. Head(drain_instr_queue) # 0
    BY <2>1, Programs DEF Drains
  <2>3. QED
    BY <1>1, <2>2, SMTT(30) DEF DrainDequeue, DrainThere
<1>2. CASE DrainCommand \/ DrainRow
  BY <1>2 DEF DrainCommand, DrainRow, DrainThere, EngineTypes
<1>3. CASE DrainNext
  <2>1. CASE drain' = Idle
    BY <2>1 DEF DrainThere, Idle
  <2>2. CASE drain' = [drain EXCEPT !.row = @ + 1, !.step = "scaler_to_c"]
    <3>1. drain'.id = drain.id /\ drain.step # "dequeue"
      BY <1>3, <2>2 DEF DrainNext, EngineTypes
    <3>2. QED
      BY <3>1 DEF DrainThere
  <2>3. QED
    BY <1>3, <2>1, <2>2 DEF DrainNext
<1>4. CASE drain' = drain
  BY <1>4 DEF DrainThere
<1>5. QED
  BY <1>1, <1>2, <1>3, <1>4
     DEF Next, Step, Issue, GemmThread, GemmDequeue, GemmCommand, GemmRow, GemmWrite, GemmEnd,
         DrainThread, ArrayThreads, ArrayReadA, ArrayShift, ArrayShiftOut, ScalerScale,
         StageThread, StageCommand, StageWrite, SkewShift, Tick, execVars, drainVars

StreamStep == EngineTypes /\ InStream /\ DrainThere

LEMMA StreamNext == ASSUME Paced PROVE StreamStep /\ [Next]_vars => StreamStep'
<1> SUFFICES ASSUME StreamStep, [Next]_vars PROVE StreamStep'
  OBVIOUS
<1>0. EngineTypes /\ InStream /\ DrainThere
  BY DEF StreamStep
<1>1. CASE UNCHANGED vars
  <2>1. UNCHANGED streamVars
    <3>1. UNCHANGED <<gemm, chan, cmd, stage, sleep>>
      BY <1>1 DEF vars, execVars
    <3>2. QED
      BY <3>1 DEF streamVars
  <2>2. EngineTypes'
    BY <1>0, <1>1 DEF vars, execVars, EngineTypes, StageTypes
  <2>3. DrainThere'
    BY <1>0, <1>1 DEF vars, execVars, DrainThere
  <2>4. QED
    BY <1>0, <2>1, <2>2, <2>3, StreamFrame DEF StreamStep
<1>2. CASE Next
  <2>1. DrainThere'
    BY <1>0, <1>2, DrainThereStep
  <2>2. CASE Issue
    BY <1>0, <2>1, <2>2, IssueTypes, OthersStream DEF StreamStep
  <2>3. CASE GemmThread
    <3>1. EngineTypes'
      BY <1>0, <2>3, GemmThreadTypes DEF InStream
    <3>2. InStream'
      BY <1>0, <2>3, GemmDequeueStream, GemmCommandStream, GemmRowStream, GemmWriteStream, GemmEndStream
         DEF GemmThread
    <3>3. QED
      BY <2>1, <3>1, <3>2 DEF StreamStep
  <2>4. CASE DrainThread
    BY <1>0, <2>1, <2>4, DrainThreadTypes, DrainThreadStream DEF StreamStep, DrainThere
  <2>5. CASE ArrayThreads \/ ScalerScale
    <3>1. EngineTypes'
      BY <1>0, <2>5, ArrayThreadsTypes
    <3>2. InStream'
      BY <1>0, <2>5, ArrayReadAStream, ArrayShiftStream, OthersStream DEF ArrayThreads
    <3>3. QED
      BY <2>1, <3>1, <3>2 DEF StreamStep
  <2>6. ASSUME NEW s \in Stages, StageThread(s) PROVE StreamStep'
    <3>1. EngineTypes'
      BY <1>0, <2>6, StageThreadTypes
    <3>2. InStream'
      BY <1>0, <2>6, StageCommandStream, StageWriteStream, SkewShiftStream DEF StageThread
    <3>3. QED
      BY <2>1, <3>1, <3>2 DEF StreamStep
  <2>7. CASE Tick
    BY <1>0, <2>1, <2>7, TickTypes, TickStream DEF StreamStep
  <2>8. QED
    BY <1>2, <2>2, <2>3, <2>4, <2>5, <2>6, <2>7 DEF Next, Step
<1>3. QED
  BY <1>1, <1>2

(* The stream into the skew buffers never carries two rows: when           *)
(* gemm_thread has slept for a row, the FIFO it writes it to is empty.     *)
THEOREM StreamFlows == ASSUME Paced PROVE Spec => []StreamNeverStalls
<1>1. Init => StreamStep
  BY StreamInit DEF StreamStep, DrainThere, Init, Idle
<1>2. StreamStep => StreamNeverStalls
  BY RoomInPace DEF StreamStep, StreamNeverStalls
<1>3. StreamStep /\ [Next]_vars => StreamStep'
  BY StreamNext
<1>4. QED
  BY <1>1, <1>2, <1>3, PTL DEF Spec

-----------------------------------------------------------------------------
(* The order of instructions *)

LEMMA InOrderAppend ==
  ASSUME NEW S \in SUBSET Nat, NEW front \in Nat, NEW last \in Nat, NEW queue \in Seq(S),
         InOrder(S, front, last, queue)
  PROVE  /\ last + 1 \in S => InOrder(S, front, last + 1, Append(queue, last + 1))
         /\ last + 1 \notin S => InOrder(S, front, last + 1, queue)
<1>1. ASSUME last + 1 \in S PROVE InOrder(S, front, last + 1, Append(queue, last + 1))
  <2> DEFINE longer == Append(queue, last + 1)
  <2>1. /\ Len(longer) = Len(queue) + 1 /\ Len(queue) \in Nat
        /\ \A k \in 1 .. Len(queue) : longer[k] = queue[k] /\ queue[k] \in S
        /\ longer[Len(queue) + 1] = last + 1
    BY AppendProperties, ElementOfSeq
  <2>2. \A k \in 1 .. Len(queue) : queue[k] \in Ahead(S, front, last)
    BY DEF InOrder
  <2>3. {longer[k] : k \in 1 .. Len(longer)} = {queue[k] : k \in 1 .. Len(queue)} \cup {last + 1}
    <3>1. 1 .. Len(longer) = (1 .. Len(queue)) \cup {Len(queue) + 1}
      BY <2>1
    <3>2. QED
      BY <2>1, <3>1
  <2>4. Ahead(S, front, last + 1) = Ahead(S, front, last) \cup {last + 1}
    <3>1. ASSUME NEW id PROVE id \in Ahead(S, front, last + 1) <=> id \in Ahead(S, front, last) \cup {last + 1}
      <4>1. id \in S => id \in Nat /\ (id <= last + 1 <=> id <= last \/ id = last + 1)
        OBVIOUS
      <4>2. front < last + 1
        BY DEF InOrder
      <4>3. QED
        BY <1>1, <4>1, <4>2 DEF Ahead
    <3>2. QED
      BY <3>1
  <2>5. ASSUME NEW k \in 1 .. Len(longer), NEW l \in 1 .. Len(longer), k < l
        PROVE  longer[k] < longer[l]
    <3>1. k \in 1 .. Len(queue)
      BY <2>1, <2>5
    <3>2. CASE l \in 1 .. Len(queue)
      BY <2>1, <2>5, <3>1, <3>2 DEF InOrder
    <3>3. CASE l = Len(queue) + 1
      <4>1. longer[k] \in Nat /\ longer[k] <= last /\ longer[l] = last + 1
        BY <2>1, <2>2, <3>1, <3>3 DEF Ahead
      <4>2. QED
        BY <4>1
    <3>4. QED
      BY <2>1, <3>2, <3>3
  <2>6. QED
    BY <2>3, <2>4, <2>5 DEF InOrder
<1>2. ASSUME last + 1 \notin S PROVE InOrder(S, front, last + 1, queue)
  <2>1. Ahead(S, front, last + 1) = Ahead(S, front, last)
    <3>1. ASSUME NEW id PROVE id \in Ahead(S, front, last + 1) <=> id \in Ahead(S, front, last)
      <4>1. id \in S => id \in Nat /\ (id <= last + 1 <=> id <= last \/ id = last + 1)
        OBVIOUS
      <4>2. QED
        BY <1>2, <4>1 DEF Ahead
    <3>2. QED
      BY <3>1
  <2>2. QED
    BY <2>1 DEF InOrder
<1>3. QED
  BY <1>1, <1>2

LEMMA InOrderHead ==
  ASSUME NEW S \in SUBSET Nat, NEW front \in Nat, NEW last \in Nat, NEW queue \in Seq(S),
         InOrder(S, front, last, queue), queue # << >>
  PROVE  /\ Head(queue) \in S /\ NoneBetween(S, front, Head(queue)) /\ Head(queue) <= last
         /\ InOrder(S, Head(queue), last, Tail(queue))
<1> DEFINE first == Head(queue)
           rest == Tail(queue)
<1>1. /\ Len(queue) \in Nat \ {0} /\ first = queue[1] /\ rest \in Seq(S)
      /\ Len(rest) = Len(queue) - 1 /\ \A k \in 1 .. Len(rest) : rest[k] = queue[k + 1]
      /\ \A k \in 1 .. Len(queue) : queue[k] \in S
  BY HeadTailProperties, ElementOfSeq, EmptySeq
<1>2. \A k \in 1 .. Len(queue) : queue[k] \in Ahead(S, front, last)
  BY DEF InOrder
<1>3. first \in S /\ front < first /\ first <= last /\ first \in Nat
  <2>1. first \in Ahead(S, front, last)
    BY <1>1, <1>2
  <2>2. QED
    BY <2>1 DEF Ahead
<1>4. \A k \in 2 .. Len(queue) : first < queue[k]
  BY <1>1 DEF InOrder
<1>5. ASSUME NEW id \in S, front < id, id < first PROVE FALSE
  <2>1. id \in Ahead(S, front, last)
    BY <1>3, <1>5 DEF Ahead
  <2>2. PICK k \in 1 .. Len(queue) : id = queue[k]
    BY <2>1 DEF InOrder
  <2>3. k = 1 \/ k \in 2 .. Len(queue)
    BY <1>1
  <2>4. id \in Nat /\ queue[k] \in Nat
    BY <1>1
  <2>5. QED
    BY <1>1, <1>3, <1>4, <1>5, <2>2, <2>3, <2>4
<1>6. {rest[k] : k \in 1 .. Len(rest)} = Ahead(S, first, last)
  <2>1. ASSUME NEW k \in 1 .. Len(rest) PROVE rest[k] \in Ahead(S, first, last)
    <3>1. k + 1 \in 2 .. Len(queue) /\ k + 1 \in 1 .. Len(queue) /\ rest[k] = queue[k + 1]
      BY <1>1
    <3>2. QED
      BY <1>2, <1>4, <3>1 DEF Ahead
  <2>2. ASSUME NEW id \in Ahead(S, first, last) PROVE \E k \in 1 .. Len(rest) : id = rest[k]
    <3>1. id \in Ahead(S, front, last) /\ id # first
      BY <1>3 DEF Ahead
    <3>2. PICK k \in 1 .. Len(queue) : id = queue[k]
      BY <3>1 DEF InOrder
    <3>3. k - 1 \in 1 .. Len(rest) /\ (k - 1) + 1 = k
      BY <1>1, <3>1, <3>2
    <3>4. rest[k - 1] = queue[(k - 1) + 1]
      BY <1>1, <3>3
    <3>5. QED
      BY <3>2, <3>3, <3>4
  <2>3. QED
    BY <2>1, <2>2
<1>7. ASSUME NEW k \in 1 .. Len(rest), NEW l \in 1 .. Len(rest), k < l PROVE rest[k] < rest[l]
  <2>1. k + 1 \in 1 .. Len(queue) /\ l + 1 \in 1 .. Len(queue) /\ k + 1 < l + 1
    BY <1>1, <1>7
  <2>2. QED
    BY <1>1, <2>1 DEF InOrder
<1>8. QED
  BY <1>3, <1>5, <1>6, <1>7 DEF InOrder, NoneBetween

LEMMA IdsAreNumbers ==
  /\ Gemms \subseteq Nat /\ Drains \subseteq Nat /\ 0 \notin Gemms /\ 0 \notin Drains
  /\ Gemms \subseteq Ids /\ Drains \subseteq Ids /\ Gemms \cap Drains = {} /\ Ids \subseteq Nat
<1>1. Gemms \subseteq Ids /\ Drains \subseteq Ids /\ Gemms \cap Drains = {}
  BY DEF Gemms, Drains
<1>2. QED
  BY <1>1, Programs

LEMMA FrontTypes ==
  ASSUME EngineTypes
  PROVE  /\ GemmFront \in Nat /\ DrainFront \in Nat /\ issued \in Nat
         /\ last_gemm_completed_id \in Nat /\ last_drain_completed_id \in Nat
         /\ gemm.id \in Nat /\ drain.id \in Nat
  BY IdsAreNumbers DEF EngineTypes, GemmFront, DrainFront

LEMMA IssueOrders == EngineTypes /\ GemmsInOrder /\ DrainsInOrder /\ Issue => GemmsInOrder' /\ DrainsInOrder'
<1> SUFFICES ASSUME EngineTypes, GemmsInOrder, DrainsInOrder, Issue
             PROVE  GemmsInOrder' /\ DrainsInOrder'
  OBVIOUS
<1>1. /\ issued' = issued + 1 /\ issued + 1 \in Ids
      /\ UNCHANGED <<gemm, drain, last_gemm_completed_id, last_drain_completed_id>>
  BY ProgramAssumption DEF Issue, EngineTypes, Ids
<1>2. UNCHANGED <<GemmFront, DrainFront>>
  BY <1>1 DEF GemmFront, DrainFront
<1>3. CASE Program[issued + 1].op = "gemm"
  <2>1. issued + 1 \in Gemms /\ issued + 1 \notin Drains
    BY <1>1, <1>3 DEF Gemms, Drains
  <2>2. gemm_instr_queue' = Append(gemm_instr_queue, issued + 1) /\ drain_instr_queue' = drain_instr_queue
    BY <1>3 DEF Issue
  <2>3. QED
    BY <1>1, <1>2, <2>1, <2>2, InOrderAppend, IdsAreNumbers, FrontTypes
       DEF GemmsInOrder, DrainsInOrder, EngineTypes
<1>4. CASE Program[issued + 1].op = "drain"
  <2>1. issued + 1 \in Drains /\ issued + 1 \notin Gemms
    BY <1>1, <1>4 DEF Gemms, Drains
  <2>2. drain_instr_queue' = Append(drain_instr_queue, issued + 1) /\ gemm_instr_queue' = gemm_instr_queue
    BY <1>4 DEF Issue
  <2>3. QED
    BY <1>1, <1>2, <2>1, <2>2, InOrderAppend, IdsAreNumbers, FrontTypes
       DEF GemmsInOrder, DrainsInOrder, EngineTypes
<1>5. QED
  BY <1>1, <1>3, <1>4, Programs

LEMMA GemmsInOrderNext == StreamStep /\ GemmsInOrder /\ (GemmThread \/ UNCHANGED <<issued, gemmVars>>) => GemmsInOrder'
<1> SUFFICES ASSUME StreamStep, GemmsInOrder, GemmThread \/ UNCHANGED <<issued, gemmVars>> PROVE GemmsInOrder'
  OBVIOUS
<1>0. EngineTypes /\ GemmPlace
  BY DEF StreamStep, InStream
<1>1. CASE GemmDequeue
  <2>1. /\ gemm_instr_queue # << >> /\ gemm'.id = Head(gemm_instr_queue) /\ gemm.id = 0
        /\ gemm_instr_queue' = Tail(gemm_instr_queue) /\ UNCHANGED <<issued, last_gemm_completed_id>>
    BY <1>0, <1>1 DEF GemmDequeue, GemmPlace
  <2>2. /\ GemmFront = last_gemm_completed_id /\ InOrder(Gemms, GemmFront, issued, gemm_instr_queue)
    BY <2>1 DEF GemmsInOrder, GemmFront
  <2>3. /\ Head(gemm_instr_queue) \in Gemms
        /\ NoneBetween(Gemms, last_gemm_completed_id, Head(gemm_instr_queue))
        /\ InOrder(Gemms, Head(gemm_instr_queue), issued, Tail(gemm_instr_queue))
    BY <1>0, <2>1, <2>2, InOrderHead, IdsAreNumbers, FrontTypes DEF EngineTypes
  <2>4. GemmFront' = Head(gemm_instr_queue)
    BY <2>1, <2>3, IdsAreNumbers DEF GemmFront
  <2>5. QED
    BY <2>1, <2>3, <2>4 DEF GemmsInOrder
<1>2. CASE GemmCommand \/ GemmRow \/ GemmWrite
  <2>1. gemm'.id = gemm.id /\ UNCHANGED <<issued, last_gemm_completed_id, gemm_instr_queue>>
    BY <1>0, <1>2 DEF GemmCommand, GemmRow, GemmWrite, EngineTypes
  <2>2. QED
    BY <2>1 DEF GemmsInOrder, GemmFront
<1>3. CASE GemmEnd
  <2>1. /\ gemm.id # 0 /\ gemm'.id = 0 /\ last_gemm_completed_id' = gemm.id
        /\ UNCHANGED <<issued, gemm_instr_queue>>
    BY <1>0, <1>3 DEF GemmEnd, GemmPlace, Idle
  <2>2. GemmFront = gemm.id /\ GemmFront' = gemm.id
    BY <2>1 DEF GemmFront
  <2>3. QED
    BY <2>1, <2>2 DEF GemmsInOrder
<1>4. CASE UNCHANGED <<issued, gemmVars>>
  BY <1>4 DEF gemmVars, GemmsInOrder, GemmFront
<1>5. QED
  BY <1>1, <1>2, <1>3, <1>4 DEF GemmThread

LEMMA DrainsInOrderNext ==
  StreamStep /\ DrainPlace /\ DrainsInOrder /\ (DrainThread \/ UNCHANGED <<issued, drainVars>>) => DrainsInOrder'
<1> SUFFICES ASSUME StreamStep, DrainPlace, DrainsInOrder, DrainThread \/ UNCHANGED <<issued, drainVars>>
             PROVE  DrainsInOrder'
  OBVIOUS
<1>0. EngineTypes
  BY DEF StreamStep
<1>1. CASE DrainDequeue
  <2>1. /\ drain_instr_queue # << >> /\ drain'.id = Head(drain_instr_queue) /\ drain.id = 0
        /\ drain_instr_queue' = Tail(drain_instr_queue) /\ UNCHANGED <<issued, last_drain_completed_id>>
    BY <1>0, <1>1 DEF DrainDequeue, DrainPlace
  <2>2. /\ DrainFront = last_drain_completed_id /\ InOrder(Drains, DrainFront, issued, drain_instr_queue)
    BY <2>1 DEF DrainsInOrder, DrainFront
  <2>3. /\ Head(drain_instr_queue) \in Drains
        /\ NoneBetween(Drains, last_drain_completed_id, Head(drain_instr_queue))
        /\ InOrder(Drains, Head(drain_instr_queue), issued, Tail(drain_instr_queue))
    BY <1>0, <2>1, <2>2, InOrderHead, IdsAreNumbers, FrontTypes DEF EngineTypes
  <2>4. DrainFront' = Head(drain_instr_queue)
    BY <2>1, <2>3, IdsAreNumbers DEF DrainFront
  <2>5. QED
    BY <2>1, <2>3, <2>4 DEF DrainsInOrder
<1>2. CASE drain'.id = drain.id /\ UNCHANGED <<issued, last_drain_completed_id, drain_instr_queue>>
  BY <1>2 DEF DrainsInOrder, DrainFront
<1>3. CASE DrainCommand \/ DrainRow
  <2>1. drain'.id = drain.id /\ UNCHANGED <<issued, last_drain_completed_id, drain_instr_queue>>
    BY <1>0, <1>3 DEF DrainCommand, DrainRow, EngineTypes
  <2>2. QED
    BY <1>2, <2>1
<1>4. CASE DrainNext
  <2>1. UNCHANGED <<issued, drain_instr_queue>> /\ drain.id # 0
    BY <1>4 DEF DrainNext, DrainPlace
  <2>2. CASE drain.row + 1 = DIM
    <3>1. drain'.id = 0 /\ last_drain_completed_id' = drain.id
      BY <1>4, <2>2, SizeAssumption DEF DrainNext, Idle
    <3>2. DrainFront = drain.id /\ DrainFront' = drain.id
      BY <2>1, <3>1 DEF DrainFront
    <3>3. QED
      BY <2>1, <3>1, <3>2 DEF DrainsInOrder
  <2>3. CASE drain.row + 1 # DIM
    <3>1. drain'.id = drain.id /\ last_drain_completed_id' = last_drain_completed_id
      BY <1>0, <1>4, <2>3 DEF DrainNext, EngineTypes
    <3>2. QED
      BY <1>2, <2>1, <3>1
  <2>4. QED
    BY <2>2, <2>3
<1>5. CASE UNCHANGED <<issued, drainVars>>
  BY <1>5 DEF drainVars, DrainsInOrder, DrainFront
<1>6. QED
  BY <1>1, <1>3, <1>4, <1>5 DEF DrainThread

(* Whose step it is *)
LEMMA WhoseStep ==
  ASSUME [Next]_vars
  PROVE  \/ Issue
         \/ GemmThread /\ UNCHANGED <<issued, drainVars>>
         \/ DrainThread /\ UNCHANGED <<issued, gemmVars>>
         \/ /\ UNCHANGED <<issued, execVars, C>>
            /\ \/ ArrayThreads \/ ScalerScale \/ Tick \/ UNCHANGED vars
               \/ \E s \in Stages : StageThread(s)
<1>1. CASE Issue
  BY <1>1
<1>2. CASE GemmThread
  BY <1>2 DEF GemmThread, GemmDequeue, GemmCommand, GemmRow, GemmWrite, GemmEnd
<1>3. CASE DrainThread
  BY <1>3 DEF DrainThread, DrainDequeue, DrainCommand, DrainRow, DrainNext
<1>4. CASE ArrayThreads
  BY <1>4 DEF ArrayThreads, ArrayReadA, ArrayShift, ArrayShiftOut
<1>5. CASE ScalerScale
  BY <1>5 DEF ScalerScale
<1>6. CASE \E s \in Stages : StageThread(s)
  BY <1>6 DEF StageThread, StageCommand, StageWrite, SkewShift
<1>7. CASE Tick
  BY <1>7 DEF Tick
<1>8. CASE UNCHANGED vars
  BY <1>8 DEF vars
<1>9. QED
  BY <1>1, <1>2, <1>3, <1>4, <1>5, <1>6, <1>7, <1>8 DEF Next, Step

LEMMA DrainPlaceNext == StreamStep /\ DrainPlace /\ [Next]_vars => DrainPlace'
<1> SUFFICES ASSUME StreamStep, DrainPlace, [Next]_vars PROVE DrainPlace'
  OBVIOUS
<1>0. EngineTypes
  BY DEF StreamStep
<1>1. CASE DrainDequeue
  <2>1. Head(drain_instr_queue) \in Drains
    BY <1>0, <1>1 DEF DrainDequeue, EngineTypes
  <2>2. drain'.id = Head(drain_instr_queue) /\ drain'.row = 0 /\ drain'.step = "drain_cmd" /\ drain'.id # 0
    BY <1>1, <2>1, IdsAreNumbers DEF DrainDequeue
  <2>3. QED
    BY <2>2 DEF DrainPlace
<1>2. CASE DrainCommand
  <2>1. /\ drain.step \in {"drain_cmd", "scaler_cmd"} /\ drain'.id = drain.id /\ drain'.row = drain.row
        /\ drain'.step = IF drain.step = "drain_cmd" THEN "scaler_cmd" ELSE "scaler_to_c"
    BY <1>0, <1>2 DEF DrainCommand, EngineTypes
  <2>2. QED
    BY <2>1, SizeAssumption DEF DrainPlace
<1>3. CASE DrainRow
  <2>1. /\ drain.step = "scaler_to_c" /\ drain'.id = drain.id /\ drain'.row = drain.row
        /\ drain'.step = "c_done"
    BY <1>0, <1>3 DEF DrainRow, EngineTypes
  <2>2. QED
    BY <2>1 DEF DrainPlace
<1>4. CASE DrainNext
  <2>1. CASE drain.row + 1 = DIM
    <3>1. drain' = Idle
      BY <1>4, <2>1, SizeAssumption DEF DrainNext
    <3>2. QED
      BY <3>1 DEF DrainPlace, Idle
  <2>2. CASE drain.row + 1 # DIM
    <3>1. /\ drain.step = "c_done" /\ drain.row + 1 < DIM
          /\ drain'.id = drain.id /\ drain'.row = drain.row + 1 /\ drain'.step = "scaler_to_c"
      BY <1>0, <1>4, <2>2 DEF DrainNext, EngineTypes
    <3>2. QED
      BY <3>1 DEF DrainPlace
  <2>3. QED
    BY <2>1, <2>2
<1>5. CASE UNCHANGED drain
  BY <1>5 DEF DrainPlace
<1>6. QED
  BY <1>1, <1>2, <1>3, <1>4, <1>5, WhoseStep DEF DrainThread, Issue, drainVars, execVars

LEMMA CompletedAscend ==
  ASSUME StreamStep, DrainPlace, Orders, [Next]_vars
  PROVE  /\ last_gemm_completed_id <= last_gemm_completed_id'
         /\ last_drain_completed_id <= last_drain_completed_id'
         /\ \A id : is_complete(id) /\ id \in Ids => is_complete(id)'
<1>0. EngineTypes
  BY DEF StreamStep
<1>1. last_gemm_completed_id' = last_gemm_completed_id \/ (GemmEnd /\ last_gemm_completed_id' = gemm.id)
  BY WhoseStep
     DEF GemmThread, GemmDequeue, GemmCommand, GemmRow, GemmWrite, GemmEnd, gemmVars, Issue, execVars
<1>2. GemmEnd => last_gemm_completed_id < gemm.id
  <2>1. GemmEnd => gemm.id # 0
    BY DEF GemmEnd, StreamStep, InStream, GemmPlace
  <2>2. QED
    BY <2>1 DEF Orders, GemmsInOrder, NoneBetween
<1>3. last_drain_completed_id' = last_drain_completed_id
        \/ (DrainNext /\ last_drain_completed_id' = drain.id)
  BY WhoseStep DEF DrainThread, DrainDequeue, DrainCommand, DrainRow, DrainNext, drainVars, Issue, execVars
<1>4. DrainNext => last_drain_completed_id < drain.id
  <2>1. DrainNext => drain.id # 0
    BY DEF DrainNext, DrainPlace
  <2>2. QED
    BY <2>1 DEF Orders, DrainsInOrder, NoneBetween
<1>5. /\ last_gemm_completed_id \in Nat /\ last_gemm_completed_id <= last_gemm_completed_id'
      /\ last_drain_completed_id \in Nat /\ last_drain_completed_id <= last_drain_completed_id'
      /\ last_gemm_completed_id' \in Nat /\ last_drain_completed_id' \in Nat
  BY <1>0, <1>1, <1>2, <1>3, <1>4, FrontTypes
<1>6. ASSUME NEW id \in Ids, is_complete(id) PROVE is_complete(id)'
  <2>1. id \in Nat
    BY IdsAreNumbers
  <2>2. QED
    BY <1>5, <1>6, <2>1 DEF is_complete, is_gemm_complete, is_drain_complete
<1>7. QED
  BY <1>5, <1>6

LEMMA WaitedForNext == StreamStep /\ DrainPlace /\ Orders /\ [Next]_vars => WaitedFor'
<1> SUFFICES ASSUME StreamStep, DrainPlace, Orders, [Next]_vars,
                    NEW id \in 1 .. issued', NEW e \in After[id]
             PROVE  is_complete(e)'
  BY DEF WaitedFor
<1>0. issued \in Nat /\ issued' \in 1 .. Len(Program) /\ id \in Ids
  <2>1. issued' = issued \/ (issued' = issued + 1 /\ issued < Len(Program))
    BY WhoseStep DEF Issue
  <2>2. QED
    BY <2>1, ProgramAssumption DEF StreamStep, EngineTypes, Ids
<1>1. e \in Ids
  BY <1>0, WaitAssumption DEF Ids
<1>2. CASE id \in 1 .. issued
  BY <1>1, <1>2, CompletedAscend DEF Orders, WaitedFor
<1>3. CASE id \notin 1 .. issued
  <2>1. Issue /\ id = issued + 1
    BY <1>0, <1>3, WhoseStep DEF Issue
  <2>2. is_complete(e)
    BY <2>1 DEF Issue
  <2>3. QED
    BY <1>1, <2>2, CompletedAscend
<1>4. QED
  BY <1>2, <1>3

LEMMA OrdersNext == StreamStep /\ DrainPlace /\ Orders /\ [Next]_vars => Orders'
<1> SUFFICES ASSUME StreamStep, DrainPlace, Orders, [Next]_vars PROVE Orders'
  OBVIOUS
<1>1. WaitedFor'
  BY WaitedForNext
<1>2. CASE Issue
  BY <1>1, <1>2, IssueOrders DEF Orders, StreamStep
<1>3. CASE ~ Issue
  <2>1. GemmThread \/ UNCHANGED <<issued, gemmVars>>
    BY <1>3, WhoseStep DEF execVars, gemmVars
  <2>2. DrainThread \/ UNCHANGED <<issued, drainVars>>
    BY <1>3, WhoseStep DEF execVars, drainVars
  <2>3. QED
    BY Zenon, <1>1, <2>1, <2>2, GemmsInOrderNext, DrainsInOrderNext DEF Orders
<1>4. QED
  BY <1>2, <1>3

-----------------------------------------------------------------------------
(* Where the array is in the program *)

(* Who changes what the array is at *)
LEMMA ArrayStageSteps ==
  ASSUME EngineTypes, [Next]_vars
  PROVE  \/ UNCHANGED stage["array_gemm"]
         \/ StageCommand("array_gemm") \/ ArrayReadA \/ ArrayShift
<1>1. CASE Issue \/ GemmThread \/ DrainThread \/ Tick \/ UNCHANGED vars
  BY <1>1 DEF Issue, GemmThread, GemmDequeue, GemmCommand, GemmRow, GemmWrite, GemmEnd,
              DrainThread, DrainDequeue, DrainCommand, DrainRow, DrainNext, Tick, vars
<1>2. CASE ArrayShiftOut
  <2>1. stage = [t \in Stages |-> stage[t]] /\ \E held : stage' = [stage EXCEPT !["array_drain"].held = held]
    BY <1>2 DEF EngineTypes, StageTypes, ArrayShiftOut
  <2>2. QED
    BY <2>1 DEF Stages
<1>3. CASE ScalerScale
  <2>1. stage = [t \in Stages |-> stage[t]] /\ \E held : stage' = [stage EXCEPT !["scaler"].held = held]
    BY <1>3 DEF EngineTypes, StageTypes, ScalerScale
  <2>2. QED
    BY <2>1 DEF Stages
<1>4. ASSUME NEW s \in Stages, StageThread(s)
      PROVE  UNCHANGED stage["array_gemm"] \/ StageCommand("array_gemm")
  <2>1. CASE StageCommand(s)
    <3>1. CASE s = "array_gemm"
      BY <2>1, <3>1
    <3>2. CASE s # "array_gemm"
      BY <2>1, <3>2, CommandTaken DEF Stages
    <3>3. QED
      BY <3>1, <3>2
  <2>2. CASE StageWrite(s)
    <3>1. s # "array_gemm"
      BY <2>2 DEF StageWrite
    <3>2. QED
      BY <2>2, <3>1, PassedOn DEF Stages
  <2>3. CASE SkewShift(s)
    BY <2>3, Shifts DEF Stages
  <2>4. QED
    BY <1>4, <2>1, <2>2, <2>3 DEF StageThread
<1>5. QED
  BY <1>1, <1>2, <1>3, <1>4 DEF Next, Step, ArrayThreads

LEMMA GemmCmdSteps ==
  ASSUME EngineTypes, [Next]_vars
  PROVE  \/ UNCHANGED cmd["gemm_cmd"]
         \/ StageCommand("array_gemm")
         \/ GemmCommand /\ gemm.step = "gemm_cmd"
<1>0. cmd = [c \in Cmds |-> cmd[c]]
  BY DEF EngineTypes
<1>1. CASE GemmCommand
  <2>1. gemm.step \in {"gemm_cmd", "skew_a_cmd", "skew_b_cmd"} /\ \E v : cmd' = [cmd EXCEPT ![gemm.step] = v]
    BY <1>1 DEF GemmCommand
  <2>2. QED
    BY <1>0, <1>1, <2>1 DEF Cmds
<1>2. CASE DrainCommand
  <2>1. drain.step \in {"drain_cmd", "scaler_cmd"} /\ \E v : cmd' = [cmd EXCEPT ![drain.step] = v]
    BY <1>2 DEF DrainCommand
  <2>2. QED
    BY <1>0, <2>1 DEF Cmds
<1>3. ASSUME NEW s \in Stages, StageThread(s)
      PROVE  UNCHANGED cmd["gemm_cmd"] \/ StageCommand("array_gemm")
  <2>1. CASE StageCommand(s)
    <3>1. CASE s = "array_gemm"
      BY <2>1, <3>1
    <3>2. CASE s # "array_gemm"
      <4>1. CmdOf(s) # "gemm_cmd" /\ CmdOf(s) \in Cmds
        BY <3>2, Wiring DEF Stages
      <4>2. QED
        BY <2>1, <4>1, CommandTaken DEF Cmds
    <3>3. QED
      BY <3>1, <3>2
  <2>2. CASE ~ StageCommand(s)
    BY <1>3, <2>2 DEF StageThread, StageWrite, SkewShift
  <2>3. QED
    BY <2>1, <2>2
<1>4. CASE Issue \/ GemmDequeue \/ GemmRow \/ GemmWrite \/ GemmEnd \/ DrainDequeue \/ DrainRow
           \/ DrainNext \/ ArrayThreads \/ ScalerScale \/ Tick \/ UNCHANGED vars
  BY <1>4 DEF Issue, GemmDequeue, GemmRow, GemmWrite, GemmEnd, DrainDequeue, DrainRow, DrainNext,
              ArrayThreads, ArrayReadA, ArrayShift, ArrayShiftOut, ScalerScale, Tick, vars
<1>5. QED
  BY <1>1, <1>2, <1>3, <1>4 DEF Next, Step, GemmThread, DrainThread

(* The fields of gemm after each step of gemm_thread *)
LEMMA GemmFields ==
  ASSUME EngineTypes, GemmPlace, GemmThread
  PROVE  \/ /\ GemmDequeue /\ gemm.step = "dequeue" /\ gemm'.step = "gemm_cmd" /\ gemm'.row = 0
            /\ gemm'.id = Head(gemm_instr_queue) /\ gemm'.id \in Gemms
            /\ UNCHANGED last_gemm_completed_id
         \/ /\ GemmCommand /\ gemm.step = "gemm_cmd" /\ gemm'.step = "skew_a_cmd"
            /\ gemm'.row = gemm.row /\ gemm'.id = gemm.id
            /\ UNCHANGED last_gemm_completed_id
         \/ /\ GemmCommand /\ gemm.step \in {"skew_a_cmd", "skew_b_cmd"}
            /\ gemm'.step \in {"skew_b_cmd", "row"} /\ gemm'.row = gemm.row /\ gemm'.id = gemm.id
            /\ UNCHANGED last_gemm_completed_id
         \/ /\ GemmRow /\ gemm.step = "row" /\ gemm'.step = "a_to_skew_a"
            /\ gemm'.row = gemm.row /\ gemm'.id = gemm.id
            /\ UNCHANGED last_gemm_completed_id
         \/ /\ GemmWrite /\ gemm.step = "a_to_skew_a" /\ gemm'.step = "b_to_skew_b"
            /\ gemm'.row = gemm.row /\ gemm'.id = gemm.id
            /\ UNCHANGED last_gemm_completed_id
         \/ /\ GemmWrite /\ gemm.step = "b_to_skew_b" /\ gemm'.row = gemm.row + 1 /\ gemm'.id = gemm.id
            /\ gemm'.step = IF gemm.row + 1 < GemmRows(gemm.id) THEN "row" ELSE "end"
            /\ UNCHANGED last_gemm_completed_id
         \/ /\ GemmEnd /\ gemm.step = "end" /\ gemm' = Idle
            /\ last_gemm_completed_id' = gemm.id /\ gemm.id \in Gemms
<1>0. gemm \in [id : Gemms \cup {0}, row : Nat, step : GemmSteps]
  BY DEF EngineTypes
<1>1. CASE GemmDequeue
  <2>1. Head(gemm_instr_queue) \in Gemms
    BY <1>1 DEF GemmDequeue, EngineTypes
  <2>2. QED
    BY <1>1, <2>1 DEF GemmDequeue
<1>2. CASE GemmCommand
  BY <1>0, <1>2 DEF GemmCommand
<1>3. CASE GemmRow
  BY <1>0, <1>3 DEF GemmRow
<1>4. CASE GemmWrite
  BY <1>0, <1>4 DEF GemmWrite
<1>5. CASE GemmEnd
  BY <1>0, <1>5, GemmIdOf DEF GemmEnd
<1>6. QED
  BY <1>1, <1>2, <1>3, <1>4, <1>5 DEF GemmThread

(* The array has taken its command by the time gemm_thread is through. *)
LEMMA CommandGone ==
  ASSUME StreamStep, ArrayAt, gemm.step = "end"
  PROVE  cmd["gemm_cmd"] = << >> /\ Left("array_gemm") = FlightA /\ stage["array_gemm"].cmd.id = gemm.id
<1>0. EngineTypes /\ InStream
  BY DEF StreamStep
<1>1. ToWrite({"skew_a_cmd", "skew_b_cmd"} \cup Loop) = 0 /\ WrittenA = 0
  BY DEF ToWrite, Loop, WrittenA
<1>2. Left("array_gemm") + Ordered("gemm_cmd") = FlightA /\ FlightA <= 1
  BY <1>0, <1>1, FlightTypes, Counts DEF InStream, Balanced, InPace
<1>3. Ordered("gemm_cmd") <= 1
  BY <1>0, <1>2, FlightTypes, Counts
<1>4. cmd["gemm_cmd"] = << >>
  <2> SUFFICES ASSUME cmd["gemm_cmd"] # << >> PROVE FALSE
    OBVIOUS
  <2>1. Ordered("gemm_cmd") = GemmRows(gemm.id)
    BY DEF ArrayAt, Ordered, GemmCmd
  <2>2. QED
    BY <1>0, <1>3, <2>1, GemmIdOf DEF InStream
<1>5. Ordered("gemm_cmd") = 0
  BY <1>4 DEF Ordered
<1>6. QED
  BY <1>0, <1>2, <1>4, <1>5, FlightTypes, Counts DEF ArrayAt

LEMMA ArrayAtNext == StreamStep /\ ArrayAt /\ [Next]_vars => ArrayAt'
<1> SUFFICES ASSUME StreamStep, ArrayAt, [Next]_vars PROVE ArrayAt'
  OBVIOUS
<1>0. EngineTypes /\ InStream /\ GemmPlace
  BY DEF StreamStep, InStream
<1>1. CASE StageCommand("array_gemm")
  <2>0. CmdOf("array_gemm") = "gemm_cmd" /\ "array_gemm" \in Stages
    BY Wiring DEF Stages
  <2>1. /\ stage'["array_gemm"].cmd = Head(cmd["gemm_cmd"]) /\ cmd["gemm_cmd"] # << >>
        /\ cmd'["gemm_cmd"] = << >>
    BY <1>0, <1>1, <2>0, CommandTaken
  <2>2. UNCHANGED <<gemm, last_gemm_completed_id>>
    BY <1>1 DEF StageCommand, execVars
  <2>3. /\ gemm.step \notin {"dequeue", "gemm_cmd"} /\ Head(cmd["gemm_cmd"]) = GemmCmd(gemm.id)
        /\ gemm.id # 0
    BY <1>0, <2>1 DEF ArrayAt, GemmPlace
  <2>4. stage'["array_gemm"].cmd.id = gemm.id
    BY <2>1, <2>3 DEF GemmCmd
  <2>5. QED
    BY <2>1, <2>2, <2>3, <2>4 DEF ArrayAt
<1>2. stage'["array_gemm"].cmd = stage["array_gemm"].cmd \/ StageCommand("array_gemm")
  BY <1>0, ArrayStageSteps, ReadsA, ShiftsIn
<1>3. CASE GemmThread
  <2>1. UNCHANGED stage
    BY <1>3 DEF GemmThread, GemmDequeue, GemmCommand, GemmRow, GemmWrite, GemmEnd
  <2>2. CASE GemmDequeue
    <3>1. gemm.step = "dequeue" /\ gemm'.step = "gemm_cmd" /\ UNCHANGED <<cmd, last_gemm_completed_id>>
      BY <2>2 DEF GemmDequeue
    <3>2. QED
      BY <2>1, <3>1 DEF ArrayAt
  <2>3. CASE GemmCommand /\ gemm.step = "gemm_cmd"
    <3>1. /\ gemm'.id = gemm.id /\ gemm'.step = "skew_a_cmd" /\ UNCHANGED last_gemm_completed_id
      BY <1>0, <1>3, <2>3, GemmFields
    <3>2. cmd'["gemm_cmd"] = <<GemmCmd(gemm.id)>>
      BY <1>0, <2>3 DEF GemmCommand, EngineTypes, Cmds
    <3>3. Head(<<GemmCmd(gemm.id)>>) = GemmCmd(gemm.id) /\ <<GemmCmd(gemm.id)>> # << >>
      OBVIOUS
    <3>4. QED
      BY <2>1, <2>3, <3>1, <3>2, <3>3 DEF ArrayAt
  <2>4. CASE gemm'.id = gemm.id /\ UNCHANGED <<last_gemm_completed_id, cmd["gemm_cmd"]>>
             /\ {gemm.step, gemm'.step} \cap {"dequeue", "gemm_cmd"} = {}
    <3>1. gemm.step \notin {"dequeue", "gemm_cmd"} /\ gemm'.step \notin {"dequeue", "gemm_cmd"}
      BY <2>4
    <3>2. QED
      BY <2>1, <2>4, <3>1 DEF ArrayAt
  <2>5. CASE GemmEnd
    <3>1. gemm.step = "end" /\ gemm'.step = "dequeue" /\ last_gemm_completed_id' = gemm.id /\ UNCHANGED cmd
      BY <2>5 DEF GemmEnd, Idle
    <3>2. cmd["gemm_cmd"] = << >> /\ stage["array_gemm"].cmd.id = gemm.id
      BY <3>1, CommandGone
    <3>3. QED
      BY <2>1, <3>1, <3>2 DEF ArrayAt
  <2>6. UNCHANGED cmd["gemm_cmd"] \/ (GemmCommand /\ gemm.step = "gemm_cmd")
    <3>1. StageCommand("array_gemm") => FALSE
      <4>1. StageCommand("array_gemm") => UNCHANGED <<gemm, last_gemm_completed_id, gemm_instr_queue>>
        BY DEF StageCommand, execVars
      <4>2. gemm'.step # gemm.step \/ GemmDequeue \/ GemmEnd
        <5>1. GemmCommand => gemm'.step # gemm.step
          BY <1>0 DEF GemmCommand, EngineTypes
        <5>2. QED
          BY <1>0, <1>3, <5>1, GemmFields
      <4>3. GemmEnd => gemm'.step # gemm.step
        BY DEF GemmEnd, Idle
      <4>4. GemmDequeue => gemm'.step # gemm.step
        BY DEF GemmDequeue
      <4>5. QED
        BY <4>1, <4>2, <4>3, <4>4
    <3>2. QED
      BY <1>0, <3>1, GemmCmdSteps
  <2>7. QED
    BY <1>0, <1>3, <2>2, <2>3, <2>4, <2>5, <2>6, GemmFields
<1>4. CASE ~ GemmThread /\ ~ StageCommand("array_gemm")
  <2>1. UNCHANGED <<gemm, last_gemm_completed_id>>
    BY <1>4, WhoseStep DEF Issue, gemmVars, execVars
  <2>2. UNCHANGED cmd["gemm_cmd"]
    BY <1>0, <1>4, GemmCmdSteps DEF GemmThread
  <2>3. QED
    BY <1>2, <1>4, <2>1, <2>2 DEF ArrayAt
<1>5. QED
  BY <1>1, <1>3, <1>4

LEMMA GemmSleeps ==
  ASSUME EngineTypes, [Next]_vars, ~ GemmThread, ~ Tick
  PROVE  sleep'["gemm"] = sleep["gemm"]
<1>1. CASE DrainRow
  <2>1. PICK ticks : SleepFor("drain", ticks)
    BY <1>1 DEF DrainRow
  <2>2. QED
    BY <2>1 DEF SleepFor, EngineTypes, Threads
<1>2. CASE ArrayShift
  BY <1>2, ShiftsIn DEF Threads
<1>3. ASSUME NEW s \in Stages, StageWrite(s) PROVE sleep'["gemm"] = sleep["gemm"]
  BY <1>3, PassedOn DEF Threads, Stages
<1>4. ASSUME NEW s \in Stages, StageCommand(s) \/ SkewShift(s) PROVE sleep'["gemm"] = sleep["gemm"]
  BY <1>4 DEF StageCommand, SkewShift
<1>5. CASE Issue \/ DrainDequeue \/ DrainCommand \/ DrainNext \/ ArrayReadA \/ ArrayShiftOut
           \/ ScalerScale \/ UNCHANGED vars
  BY <1>5 DEF Issue, DrainDequeue, DrainCommand, DrainNext, ArrayReadA, ArrayShiftOut, ScalerScale, vars
<1>6. QED
  BY <1>1, <1>2, <1>3, <1>4, <1>5 DEF Next, Step, DrainThread, ArrayThreads, StageThread

(* A flush is complete only when its last zeros are in the array. *)
LEMMA FlushWaitsNext ==
  ASSUME Paced, StreamStep, Orders, ArrayAt, FlushWaits, [Next]_vars PROVE FlushWaits'
<1>0. EngineTypes /\ InStream /\ GemmPlace
  BY DEF StreamStep, InStream
<1>1. CASE GemmThread
  <2>1. UNCHANGED stage
    BY <1>1 DEF GemmThread, GemmDequeue, GemmCommand, GemmRow, GemmWrite, GemmEnd
  <2>2. CASE GemmEnd
    <3>1. gemm.step = "end" /\ gemm'.step = "dequeue" /\ last_gemm_completed_id' = gemm.id
          /\ sleep["gemm"] = 0
      BY <2>2 DEF GemmEnd, Idle, Awake
    <3>2. IsFlush(gemm.id) => FlightA = 0
      BY <3>1 DEF FlushWaits
    <3>3. IsFlush(gemm.id) => Left("array_gemm") = 0
      BY <3>1, <3>2, CommandGone
    <3>4. Left("array_gemm")' = Left("array_gemm")
      BY <2>1 DEF Left
    <3>5. QED
      BY <3>1, <3>3, <3>4 DEF FlushWaits
  <2>3. CASE GemmWrite /\ gemm.step = "b_to_skew_b"
    <3>1. UNCHANGED last_gemm_completed_id /\ UNCHANGED Left("array_gemm") /\ gemm'.id = gemm.id
      BY <1>0, <2>1, <2>3 DEF GemmWrite, EngineTypes, Left
    <3>2. gemm.id # 0 /\ GemmRows(gemm.id) \in Nat /\ gemm.row \in Nat /\ gemm.row < GemmRows(gemm.id)
      BY <1>0, <2>3, GemmIdOf, Counts DEF GemmPlace
    <3>3. gemm'.step = "end" => gemm.row + 1 = GemmRows(gemm.id)
      BY <1>0, <1>1, <2>3, <3>2, GemmFields
    <3>4. gemm'.step = "end" /\ IsFlush(gemm.id) => SleepFor("gemm", PE_MAC_TIME)
      BY <2>3, <3>3 DEF GemmWrite, IsFlush
    <3>5. gemm'.step = "end" /\ IsFlush(gemm.id) => sleep'["gemm"] >= 1
      BY <1>0, <3>4, SleepSet, TimesOf DEF Threads
    <3>6. QED
      BY <2>1, <3>1, <3>5 DEF FlushWaits
  <2>4. CASE gemm'.step # "end" /\ UNCHANGED last_gemm_completed_id
    <3>1. UNCHANGED Left("array_gemm")
      BY <2>1 DEF Left
    <3>2. QED
      BY <2>1, <2>4, <3>1 DEF FlushWaits
  <2>5. QED
    BY <1>0, <1>1, <2>2, <2>3, <2>4, GemmFields
<1>2. CASE ~ GemmThread
  <2>1. UNCHANGED <<gemm, last_gemm_completed_id>>
    BY <1>2, WhoseStep DEF Issue, gemmVars, execVars
  <2>2. ASSUME gemm.step = "end", IsFlush(gemm.id), sleep'["gemm"] = 0 PROVE FlightA' = 0
    <3>1. cmd["gemm_cmd"] = << >> /\ Left("array_gemm") = FlightA
      BY <2>2, CommandGone
    <3>2. ~ StageCommand("array_gemm")
      BY <3>1, Wiring DEF StageCommand
    <3>3. cmd'["gemm_cmd"] = << >>
      BY <1>0, <2>2, <3>1, <3>2, GemmCmdSteps
    <3>4. EngineTypes' /\ InStream'
      BY StreamNext DEF StreamStep
    <3>5. Left("array_gemm")' = FlightA'
      <4>1. ToWrite({"skew_a_cmd", "skew_b_cmd"} \cup Loop)' = 0 /\ WrittenA' = 0 /\ Ordered("gemm_cmd")' = 0
        BY <2>1, <2>2, <3>3 DEF ToWrite, Loop, WrittenA, Ordered
      <4>2. (Left("array_gemm") + Ordered("gemm_cmd") + WrittenA
               = ToWrite({"skew_a_cmd", "skew_b_cmd"} \cup Loop) + FlightA)'
        BY <3>4 DEF InStream, Balanced
      <4>3. Left("array_gemm")' \in Nat /\ FlightA' \in Nat
        <5>1. stage'["array_gemm"].row \in 0 .. stage'["array_gemm"].cmd.rows
              /\ stage'["array_gemm"].cmd.rows \in Nat
          BY <3>4 DEF EngineTypes, StageTypes, Commands, Stages
        <5>2. \A q : Full(q) \in 0 .. 1
          BY Singles
        <5>3. Full(chan["a_to_skew_a"])' \in 0 .. 1 /\ Full(stage["skew_a"].held)' \in 0 .. 1
              /\ Full(chan["skew_a_to_pe_array"])' \in 0 .. 1 /\ Full(stage["array_gemm"].held)' \in 0 .. 1
          BY <5>2 DEF Full
        <5>4. QED
          BY <5>1, <5>3 DEF Left, FlightA, InSkewA
      <4>4. QED
        BY <4>1, <4>2, <4>3
    <3>6. Left("array_gemm")' <= Left("array_gemm") /\ Left("array_gemm") \in Nat
      <4>1. Left("array_gemm") \in Nat
        BY <1>0, Counts
      <4>2. CASE UNCHANGED stage["array_gemm"]
        BY <4>1, <4>2 DEF Left
      <4>3. CASE ArrayReadA
        BY <1>0, <4>1, <4>3, ReadsA DEF Left
      <4>4. CASE ArrayShift
        BY <1>0, <4>1, <4>4, ShiftsIn
      <4>5. QED
        BY <1>0, <3>2, <4>2, <4>3, <4>4, ArrayStageSteps
    <3>7. FlightA = 0
      <4>1. CASE Tick
        BY <1>0, <4>1, QuietWhenTicking
      <4>2. CASE ~ Tick
        <5>1. sleep["gemm"] = 0
          BY <1>0, <1>2, <2>2, <4>2, GemmSleeps
        <5>2. QED
          BY <2>2, <5>1 DEF FlushWaits
      <4>3. QED
        BY <4>1, <4>2
    <3>8. Left("array_gemm")' \in Nat
      BY <3>4 DEF EngineTypes, StageTypes, Commands, Stages, Left
    <3>9. QED
      BY <3>1, <3>5, <3>6, <3>7, <3>8
  <2>3. ASSUME IsFlush(last_gemm_completed_id), stage'["array_gemm"].cmd.id = last_gemm_completed_id
        PROVE  Left("array_gemm")' = 0
    <3>1. CASE UNCHANGED stage["array_gemm"]
      BY <2>3, <3>1 DEF FlushWaits, Left
    <3>2. CASE ArrayReadA
      BY <1>0, <2>3, <3>2, ReadsA DEF FlushWaits, Left
    <3>3. CASE ArrayShift
      <4>1. Left("array_gemm") = 0
        BY <1>0, <2>3, <3>3, ShiftsIn DEF FlushWaits
      <4>2. Left("array_gemm") > 0
        <5>1. stage["array_gemm"].row < stage["array_gemm"].cmd.rows
          BY <1>0, <3>3, ShiftsIn
        <5>2. stage["array_gemm"].row \in Nat /\ stage["array_gemm"].cmd.rows \in Nat
          BY <1>0, StageTypesOf DEF Stages
        <5>3. QED
          BY <5>1, <5>2 DEF Left
      <4>3. QED
        BY <4>1, <4>2
    <3>4. CASE StageCommand("array_gemm")
      <4>1. stage'["array_gemm"].cmd = Head(cmd["gemm_cmd"]) /\ cmd["gemm_cmd"] # << >>
        BY <1>0, <3>4, CommandTaken, Wiring DEF Stages
      <4>2. gemm.id # 0 /\ Head(cmd["gemm_cmd"]).id = gemm.id
        BY <1>0, <4>1 DEF ArrayAt, GemmPlace, GemmCmd
      <4>3. last_gemm_completed_id < gemm.id
        BY <4>2 DEF Orders, GemmsInOrder, NoneBetween
      <4>4. QED
        BY <1>0, <2>3, <4>1, <4>2, <4>3, FrontTypes
    <3>5. QED
      BY <1>0, <3>1, <3>2, <3>3, <3>4, ArrayStageSteps
  <2>4. sleep'["gemm"] \in Nat
    BY StreamNext DEF StreamStep, EngineTypes, Threads
  <2>5. QED
    BY <2>1, <2>2, <2>3, <2>4 DEF FlushWaits
<1>3. QED
  BY <1>1, <1>2

-----------------------------------------------------------------------------
(* The rows in the skew buffers and the array *)

LEMMA RowsDue ==
  ASSUME EngineTypes, InStream, FlightA # 0
  PROVE  Left("array_gemm") + Ordered("gemm_cmd") >= 1
<1>1. WrittenA = 1 => ToWrite({"skew_a_cmd", "skew_b_cmd"} \cup Loop) >= 1
  <2>1. WrittenA = 1 => gemm.row \in Nat /\ GemmRows(gemm.id) \in Nat /\ gemm.row < GemmRows(gemm.id)
                        /\ gemm.step \in Loop
    BY GemmIdOf, Counts DEF InStream, GemmPlace, WrittenA, Loop
  <2>2. QED
    BY <2>1 DEF ToWrite
<1>2. Left("array_gemm") + Ordered("gemm_cmd") + WrittenA
        = ToWrite({"skew_a_cmd", "skew_b_cmd"} \cup Loop) + FlightA
  BY DEF InStream, Balanced
<1>3. QED
  BY <1>1, <1>2, ToWriteTypes, Counts, FlightTypes

(* The row that the array takes next is the one gemm_thread writes next. *)
LEMMA NextRowIs ==
  ASSUME StreamStep, ArrayAt, Awake("gemm"), gemm.step \in {"a_to_skew_a", "b_to_skew_b"}
  PROVE  NextRow = RowOf(gemm.id, gemm.row)
<1>0. EngineTypes /\ InStream /\ GemmPlace
  BY DEF StreamStep, InStream
<1>1. /\ gemm.row \in Nat /\ GemmRows(gemm.id) \in Nat /\ gemm.row < GemmRows(gemm.id) /\ gemm.id # 0
  BY <1>0, GemmIdOf, Counts DEF GemmPlace
<1>2. Left("array_gemm") + Ordered("gemm_cmd") = GemmRows(gemm.id) - gemm.row
  <2>1. ToWrite({"skew_a_cmd", "skew_b_cmd"} \cup Loop) = GemmRows(gemm.id) - gemm.row
    BY DEF ToWrite, Loop
  <2>2. WrittenA = FlightA
    BY <1>0, RoomInPace DEF WrittenA
  <2>3. QED
    BY <1>0, <1>1, <2>1, <2>2, FlightTypes, Counts DEF InStream, Balanced
<1>3. CASE cmd["gemm_cmd"] # << >>
  <2>1. Head(cmd["gemm_cmd"]) = GemmCmd(gemm.id) /\ Ordered("gemm_cmd") = GemmRows(gemm.id)
    BY <1>3 DEF ArrayAt, Ordered, GemmCmd
  <2>2. Left("array_gemm") = 0 /\ gemm.row = 0
    BY <1>0, <1>1, <1>2, <2>1, Counts
  <2>3. QED
    BY <2>1, <2>2 DEF NextRow, GemmCmd
<1>4. CASE cmd["gemm_cmd"] = << >>
  <2>1. stage["array_gemm"].cmd = GemmCmd(gemm.id) /\ Ordered("gemm_cmd") = 0
    BY <1>1, <1>4 DEF ArrayAt, Ordered
  <2>2. Left("array_gemm") = GemmRows(gemm.id) - stage["array_gemm"].row
        /\ stage["array_gemm"].row \in Nat
    BY <1>0, <2>1, StageTypesOf DEF Left, GemmCmd, Stages
  <2>3. Left("array_gemm") > 0 /\ stage["array_gemm"].row = gemm.row
    BY <1>0, <1>1, <1>2, <2>1, <2>2, Counts
  <2>4. QED
    BY <2>1, <2>3 DEF NextRow, GemmCmd
<1>5. QED
  BY <1>3, <1>4

LEMMA NextRowKeeps ==
  ASSUME StreamStep, ArrayAt, [Next]_vars, ~ ArrayShift, FlightA # 0
  PROVE  NextRow' = NextRow
<1>0. EngineTypes /\ InStream /\ GemmPlace
  BY DEF StreamStep, InStream
<1>1. Left("array_gemm") + Ordered("gemm_cmd") >= 1 /\ Left("array_gemm") \in Nat
  BY <1>0, RowsDue, Counts
<1>2. CASE StageCommand("array_gemm")
  <2>1. /\ Left("array_gemm") = 0 /\ Left("array_gemm")' = Ordered("gemm_cmd")
        /\ stage'["array_gemm"].cmd = Head(cmd["gemm_cmd"]) /\ stage'["array_gemm"].row = 0
    BY <1>0, <1>2, CommandTaken, Wiring DEF Stages
  <2>2. Ordered("gemm_cmd") > 0
    BY <1>0, <1>1, <2>1, Counts
  <2>3. QED
    BY <2>1, <2>2 DEF NextRow
<1>3. CASE ~ StageCommand("array_gemm")
  <2>1. stage'["array_gemm"].cmd = stage["array_gemm"].cmd /\ stage'["array_gemm"].row = stage["array_gemm"].row
    BY <1>0, <1>3, ArrayStageSteps, ReadsA
  <2>2. Left("array_gemm")' = Left("array_gemm")
    BY <2>1 DEF Left
  <2>3. CASE Left("array_gemm") > 0
    BY <2>1, <2>2, <2>3 DEF NextRow
  <2>4. CASE Left("array_gemm") = 0
    <3>1. cmd["gemm_cmd"] # << >>
      BY <1>1, <2>4 DEF Ordered
    <3>2. cmd'["gemm_cmd"] = cmd["gemm_cmd"]
      BY <1>0, <1>3, <3>1, GemmCmdSteps DEF GemmCommand
    <3>3. QED
      BY <2>1, <2>2, <2>4, <3>2 DEF NextRow
  <2>5. QED
    BY <1>1, <2>3, <2>4
<1>4. QED
  BY <1>2, <1>3

(* What the rows are read from *)
skewVars ==
  <<chan["a_to_skew_a"], chan["b_to_skew_b"], chan["skew_a_to_pe_array"],
    chan["skew_b_to_pe_array"], stage["skew_a"].held, stage["skew_b"].held,
    stage["array_gemm"].held, regs, a_reg, b_reg>>

LEMMA SkewSteps ==
  ASSUME EngineTypes, [Next]_vars
  PROVE  \/ UNCHANGED skewVars
         \/ GemmWrite \/ ArrayReadA \/ ArrayShift
         \/ StageWrite("skew_a") \/ StageWrite("skew_b")
         \/ SkewShift("skew_a") \/ SkewShift("skew_b")
<1>0. /\ stage = [t \in Stages |-> stage[t]] /\ chan = [c \in Chans |-> chan[c]]
  BY DEF EngineTypes, StageTypes
<1>1. CASE Issue \/ GemmDequeue \/ GemmCommand \/ GemmRow \/ GemmEnd
           \/ DrainDequeue \/ DrainCommand \/ DrainNext \/ Tick \/ UNCHANGED vars
  <2>1. UNCHANGED <<chan, stage, regs, a_reg, b_reg>>
    BY <1>1 DEF Issue, GemmDequeue, GemmCommand, GemmRow, GemmEnd, DrainDequeue, DrainCommand,
                DrainNext, Tick, vars, logicVars
  <2>2. QED
    BY <2>1 DEF skewVars
<1>2. CASE DrainRow
  <2>1. chan' = [chan EXCEPT !["scaler_to_c"] = << >>] /\ UNCHANGED <<stage, regs, a_reg, b_reg>>
    BY <1>2 DEF DrainRow, logicVars
  <2>2. QED
    BY <1>0, <2>1 DEF skewVars, Chans
<1>3. CASE ArrayShiftOut
  <2>1. /\ \E held : stage' = [stage EXCEPT !["array_drain"].held = held]
        /\ UNCHANGED <<chan, regs, a_reg, b_reg>>
    BY <1>3 DEF ArrayShiftOut
  <2>2. UNCHANGED <<stage["skew_a"], stage["skew_b"], stage["array_gemm"]>>
    BY <1>0, <2>1 DEF Stages
  <2>3. QED
    BY <2>1, <2>2 DEF skewVars
<1>4. CASE ScalerScale
  <2>1. /\ \E held : stage' = [stage EXCEPT !["scaler"].held = held]
        /\ chan' = [chan EXCEPT !["pe_array_to_scaler"] = << >>]
        /\ UNCHANGED <<regs, a_reg, b_reg>>
    BY <1>4 DEF ScalerScale, logicVars
  <2>2. UNCHANGED <<stage["skew_a"], stage["skew_b"], stage["array_gemm"]>>
    BY <1>0, <2>1 DEF Stages
  <2>3. UNCHANGED <<chan["a_to_skew_a"], chan["b_to_skew_b"], chan["skew_a_to_pe_array"],
                    chan["skew_b_to_pe_array"]>>
    BY <1>0, <2>1 DEF Chans
  <2>4. QED
    BY <2>1, <2>2, <2>3 DEF skewVars
<1>5. ASSUME NEW s \in Stages, StageCommand(s) PROVE UNCHANGED skewVars
  <2>1. UNCHANGED <<chan, regs, a_reg, b_reg>>
    BY <1>5 DEF StageCommand, logicVars
  <2>2. \A t \in Stages : stage'[t].held = stage[t].held
    BY <1>5, CommandTaken
  <2>3. QED
    BY <2>1, <2>2 DEF skewVars, Stages
<1>6. ASSUME NEW s \in Stages, s \in {"array_drain", "scaler"}, StageWrite(s) PROVE UNCHANGED skewVars
  <2>1. UNCHANGED <<regs, a_reg, b_reg>>
    BY <1>6 DEF StageWrite, logicVars
  <2>2. OutputOf(s) \in {"pe_array_to_scaler", "scaler_to_c"}
    BY <1>6 DEF OutputOf
  <2>3. UNCHANGED <<stage["skew_a"], stage["skew_b"], stage["array_gemm"]>>
    BY <1>6, PassedOn DEF Stages
  <2>4. UNCHANGED <<chan["a_to_skew_a"], chan["b_to_skew_b"], chan["skew_a_to_pe_array"],
                    chan["skew_b_to_pe_array"]>>
    BY <1>6, <2>2, PassedOn DEF Chans
  <2>5. QED
    BY <2>1, <2>3, <2>4 DEF skewVars
<1>7. ASSUME NEW s \in Stages, StageThread(s)
      PROVE  \/ UNCHANGED skewVars
             \/ StageWrite("skew_a") \/ StageWrite("skew_b")
             \/ SkewShift("skew_a") \/ SkewShift("skew_b")
  <2>1. CASE StageCommand(s)
    BY <1>5, <2>1
  <2>2. CASE StageWrite(s)
    <3>1. s # "array_gemm"
      BY <2>2 DEF StageWrite
    <3>2. CASE s \in {"array_drain", "scaler"}
      BY <1>6, <2>2, <3>2
    <3>3. CASE s = "skew_a"
      BY <2>2, <3>3
    <3>4. CASE s = "skew_b"
      BY <2>2, <3>4
    <3>5. QED
      BY <3>1, <3>2, <3>3, <3>4 DEF Stages
  <2>3. CASE SkewShift(s)
    <3>1. s \in {"skew_a", "skew_b"}
      BY <2>3 DEF SkewShift
    <3>2. QED
      BY <2>3, <3>1
  <2>4. QED
    BY <1>7, <2>1, <2>2, <2>3 DEF StageThread
<1>8. QED
  BY <1>1, <1>2, <1>3, <1>4, <1>7 DEF Next, Step, GemmThread, DrainThread, ArrayThreads

LEMMA HistFrame ==
  ASSUME UNCHANGED a_reg
  PROVE  \A k : Hist(k)' = Hist(k)
  BY DEF Hist

(* A shift moves every row on by one diagonal. *)
LEMMA HistShifts ==
  ASSUME StreamStep, Skews, Diagonals, ArrayShift
  PROVE  /\ Diagonals'
         /\ \A k \in 0 .. 2 * DIM - 2 : Hist(k)' = IF k = 0 THEN NextRow ELSE Hist(k - 1)
         /\ \A i, j \in Lanes :
              /\ a_reg'[i][j] = IF i + j = 0 THEN NextRow ELSE Hist((i + j) - 1)
              /\ b_reg'[i][j] = IF i + j = 0 THEN NextRow ELSE Hist((i + j) - 1)
<1> DEFINE H(k) == IF k = 0 THEN NextRow ELSE Hist(k - 1)
           a_vec == Head(stage["array_gemm"].held)
           b_vec == Head(chan["skew_b_to_pe_array"])
<1>0. EngineTypes /\ DIM \in Nat /\ DIM >= 2
  BY SizeAssumption DEF StreamStep
<1>1. a_vec = SkewedRow /\ b_vec = SkewedRow
  <2>1. stage["array_gemm"].held # << >> /\ chan["skew_b_to_pe_array"] # << >>
    BY DEF ArrayShift
  <2>2. stage["array_gemm"].held = <<SkewedRow>> /\ chan["skew_b_to_pe_array"] = <<SkewedRow>>
    BY <2>1 DEF Skews, Side
  <2>3. QED
    BY <2>2
<1>2. \A i \in Lanes : a_vec[i] = H(i) /\ b_vec[i] = H(i)
  <2>1. \A i \in Lanes : SkewedRow[i] = H(i)
    BY DEF SkewedRow
  <2>2. QED
    BY <1>1, <2>1, Zenon
<1>3. /\ a_reg' = [i \in Lanes |-> [j \in Lanes |-> IF j = 0 THEN a_vec[i] ELSE a_reg[i][j - 1]]]
      /\ b_reg' = [i \in Lanes |-> [j \in Lanes |-> IF i = 0 THEN b_vec[j] ELSE b_reg[i - 1][j]]]
  BY DEF ArrayShift, shift_in
<1>4. ASSUME NEW i \in Lanes, NEW j \in Lanes PROVE a_reg'[i][j] = H(i + j) /\ b_reg'[i][j] = H(i + j)
  <2>1. i \in Nat /\ j \in Nat
    BY <1>0 DEF Lanes
  <2>2. a_reg'[i][j] = H(i + j)
    <3>1. CASE j = 0
      BY <1>2, <1>3, <2>1, <3>1
    <3>2. CASE j # 0
      <4>1. j - 1 \in Lanes /\ i + (j - 1) = (i + j) - 1 /\ i + j # 0
        BY <1>0, <2>1, <3>2 DEF Lanes
      <4>2. a_reg[i][j - 1] = Hist(i + (j - 1))
        BY <4>1 DEF Diagonals
      <4>3. QED
        BY <1>3, <3>2, <4>1, <4>2
    <3>3. QED
      BY <3>1, <3>2
  <2>3. b_reg'[i][j] = H(i + j)
    <3>1. CASE i = 0
      BY <1>2, <1>3, <2>1, <3>1
    <3>2. CASE i # 0
      <4>1. i - 1 \in Lanes /\ (i - 1) + j = (i + j) - 1 /\ i + j # 0
        BY <1>0, <2>1, <3>2 DEF Lanes
      <4>2. b_reg[i - 1][j] = Hist((i - 1) + j)
        BY <4>1 DEF Diagonals
      <4>3. QED
        BY <1>3, <3>2, <4>1, <4>2
    <3>3. QED
      BY <3>1, <3>2
  <2>4. QED
    BY <2>2, <2>3
<1>5. ASSUME NEW k \in 0 .. 2 * DIM - 2 PROVE Hist(k)' = H(k)
  <2>1. CASE k < DIM
    <3>1. 0 \in Lanes /\ k \in Lanes /\ 0 + k = k
      BY <1>0, <2>1 DEF Lanes
    <3>2. a_reg'[0][k] = H(k)
      BY <1>4, <3>1
    <3>3. QED
      BY <2>1, <3>2 DEF Hist
  <2>2. CASE ~ k < DIM
    <3>1. k - DIM + 1 \in Lanes /\ DIM - 1 \in Lanes /\ (k - DIM + 1) + (DIM - 1) = k
      BY <1>0, <2>2 DEF Lanes
    <3>2. a_reg'[k - DIM + 1][DIM - 1] = H(k)
      BY <1>4, <3>1
    <3>3. QED
      BY <2>2, <3>2 DEF Hist
  <2>3. QED
    BY <2>1, <2>2
<1>6. \A i, j \in Lanes : i + j \in 0 .. 2 * DIM - 2
  BY <1>0 DEF Lanes
<1>7. /\ \A i, j \in Lanes : a_reg'[i][j] = Hist(i + j)'
      /\ \A i, j \in Lanes : b_reg'[i][j] = Hist(i + j)'
  BY <1>4, <1>5, <1>6
<1>8. Diagonals'
  <2>1. /\ a_reg' = [i \in Lanes |-> [j \in Lanes |-> a_reg'[i][j]]]
        /\ b_reg' = [i \in Lanes |-> [j \in Lanes |-> b_reg'[i][j]]]
    BY <1>3
  <2>2. QED
    BY <1>7, <2>1 DEF Diagonals
<1>9. ASSUME NEW i \in Lanes, NEW j \in Lanes
      PROVE  /\ a_reg'[i][j] = IF i + j = 0 THEN NextRow ELSE Hist((i + j) - 1)
             /\ b_reg'[i][j] = IF i + j = 0 THEN NextRow ELSE Hist((i + j) - 1)
  <2>1. a_reg'[i][j] = H(i + j) /\ b_reg'[i][j] = H(i + j)
    BY <1>4
  <2>2. H(i + j) = IF i + j = 0 THEN NextRow ELSE Hist((i + j) - 1)
    OBVIOUS
  <2>3. QED
    BY <2>1, <2>2
<1>10. \A k \in 0 .. 2 * DIM - 2 : Hist(k)' = IF k = 0 THEN NextRow ELSE Hist(k - 1)
  BY <1>5
<1>11. QED
  BY <1>8, <1>9, <1>10

LEMMA DiagonalsNext == StreamStep /\ Skews /\ Diagonals /\ [Next]_vars => Diagonals'
<1> SUFFICES ASSUME StreamStep, Skews, Diagonals, [Next]_vars PROVE Diagonals'
  OBVIOUS
<1>1. CASE ArrayShift
  BY <1>1, HistShifts
<1>2. CASE ~ ArrayShift
  <2>1. UNCHANGED <<a_reg, b_reg>>
    BY <1>2, SkewSteps DEF StreamStep, skewVars, GemmWrite, ArrayReadA, StageWrite, SkewShift, logicVars
  <2>2. QED
    BY <2>1, HistFrame DEF Diagonals
<1>3. QED
  BY <1>1, <1>2

(* A row enters a shift register of n places. *)
LEMMA ShiftRegister ==
  ASSUME NEW Vals, NEW x \in Vals, NEW n \in Nat, NEW reg \in [1 .. n -> Vals]
  PROVE  /\ (<<x>> \o reg)[n + 1] = IF n = 0 THEN x ELSE reg[n]
         /\ SubSeq(<<x>> \o reg, 1, n) = [k \in 1 .. n |-> IF k = 1 THEN x ELSE reg[k - 1]]
<1>1. reg \in Seq(Vals) /\ DOMAIN reg = 1 .. n
  BY SeqDef
<1>2. DOMAIN reg = 1 .. Len(reg) /\ Len(reg) \in Nat
  BY <1>1, LenProperties
<1>3. Len(reg) = n
  <2>1. n \in 1 .. Len(reg) \/ n = 0
    BY <1>1, <1>2
  <2>2. Len(reg) \in 1 .. n \/ Len(reg) = 0
    BY <1>1, <1>2
  <2>3. QED
    BY <1>2, <2>1, <2>2
<1>4. <<x>> \in Seq(Vals) /\ Len(<<x>>) = 1 /\ <<x>>[1] = x
  OBVIOUS
<1>5. PICK line : line = <<x>> \o reg
  OBVIOUS
<1>6. /\ line \in Seq(Vals) /\ Len(line) = 1 + n
      /\ \A k \in 1 .. 1 + n : line[k] = IF k <= 1 THEN <<x>>[k] ELSE reg[k - 1]
  <2>1. /\ Len(<<x>> \o reg) = Len(<<x>>) + Len(reg)
        /\ \A k \in 1 .. Len(<<x>>) + Len(reg) :
             (<<x>> \o reg)[k] = IF k <= Len(<<x>>) THEN <<x>>[k] ELSE reg[k - Len(<<x>>)]
        /\ (<<x>> \o reg) \in Seq(Vals)
    BY <1>1, <1>4, ConcatProperties
  <2>2. QED
    BY <1>3, <1>4, <1>5, <2>1
<1>7. ASSUME NEW k \in 1 .. 1 + n PROVE line[k] = IF k = 1 THEN x ELSE reg[k - 1]
  <2>1. k <= 1 <=> k = 1
    OBVIOUS
  <2>2. QED
    BY <1>4, <1>6, <2>1
<1>8. line[n + 1] = IF n = 0 THEN x ELSE reg[n]
  <2>1. n + 1 \in 1 .. 1 + n /\ (n + 1 = 1 <=> n = 0) /\ (n + 1) - 1 = n
    OBVIOUS
  <2>2. line[n + 1] = IF n + 1 = 1 THEN x ELSE reg[(n + 1) - 1]
    BY <1>7, <2>1
  <2>3. QED
    BY <2>1, <2>2
<1>9. /\ Len(SubSeq(line, 1, n)) = n /\ SubSeq(line, 1, n) \in Seq(Vals)
      /\ \A k \in 1 .. n : SubSeq(line, 1, n)[k] = line[k]
  <2>1. \A k \in 1 .. n : line[k] \in Vals
    <3>1. \A k \in 1 .. n : k \in 1 .. 1 + n
      OBVIOUS
    <3>2. QED
      BY <1>6, <3>1, ElementOfSeq
  <2>2. /\ SubSeq(line, 1, n) \in Seq(Vals)
        /\ Len(SubSeq(line, 1, n)) = IF 1 <= n THEN n - 1 + 1 ELSE 0
        /\ \A k \in 1 .. n - 1 + 1 : SubSeq(line, 1, n)[k] = line[1 + k - 1]
    BY <1>6, <2>1, SubSeqProperties
  <2>3. n - 1 + 1 = n /\ (\A k \in 1 .. n : 1 + k - 1 = k) /\ (~ 1 <= n => n = 0)
    OBVIOUS
  <2>4. QED
    BY <2>2, <2>3
<1>10. SubSeq(line, 1, n) = [k \in 1 .. n |-> IF k = 1 THEN x ELSE reg[k - 1]]
  <2>1. SubSeq(line, 1, n) = [k \in 1 .. n |-> SubSeq(line, 1, n)[k]]
    BY <1>9, LenProperties
  <2>2. \A k \in 1 .. n : k \in 1 .. 1 + n
    OBVIOUS
  <2>3. \A k \in 1 .. n : SubSeq(line, 1, n)[k] = IF k = 1 THEN x ELSE reg[k - 1]
    BY <1>7, <1>9, <2>2
  <2>4. QED
    BY <2>1, <2>3
<1>11. QED
  BY <1>5, <1>8, <1>10

(* What a skew buffer gives and keeps when NextRow enters it *)
LEMMA SkewOut ==
  ASSUME NEW s \in Stages, EngineTypes, SkewShift(s), AtRest(s), chan[InputOf(s)] = <<NextRow>>,
         regs = [t \in {"skew_a", "skew_b"} |-> regs[t]]
  PROVE  /\ stage'[s].held = <<SkewedRow>>
         /\ regs'[s] = [lane \in Lanes |-> [k \in 1 .. lane |-> IF k = 1 THEN NextRow ELSE Hist(k - 2)]]
         /\ \A t \in {"skew_a", "skew_b"} \ {s} : regs'[t] = regs[t]
<1> DEFINE line(lane) == <<NextRow>> \o regs[s][lane]
<1>1. s \in {"skew_a", "skew_b"}
  BY DEF SkewShift
<1>2. ASSUME NEW lane \in Lanes
      PROVE  /\ line(lane)[lane + 1] = IF lane = 0 THEN NextRow ELSE Hist(lane - 1)
             /\ SubSeq(line(lane), 1, lane) = [k \in 1 .. lane |-> IF k = 1 THEN NextRow ELSE Hist(k - 2)]
  <2>1. lane \in Nat
    BY SizeAssumption DEF Lanes
  <2>2. PICK reg : reg = regs[s][lane]
    OBVIOUS
  <2>3. reg = [k \in 1 .. lane |-> Hist(k - 1)]
    BY <2>2 DEF AtRest
  <2>4. PICK Vals : NextRow \in Vals /\ \A k \in 1 .. lane : Hist(k - 1) \in Vals
    <3>1. PICK Vals : Vals = {NextRow} \cup {Hist(k - 1) : k \in 1 .. lane}
      OBVIOUS
    <3>2. NextRow \in Vals /\ \A k \in 1 .. lane : Hist(k - 1) \in Vals
      BY <3>1
    <3>3. QED
      BY <3>2
  <2>5. reg \in [1 .. lane -> Vals]
    BY <2>3, <2>4
  <2>6. PICK x : x = NextRow
    OBVIOUS
  <2>7. /\ (<<x>> \o reg)[lane + 1] = IF lane = 0 THEN x ELSE reg[lane]
        /\ SubSeq(<<x>> \o reg, 1, lane) = [k \in 1 .. lane |-> IF k = 1 THEN x ELSE reg[k - 1]]
    BY <2>1, <2>4, <2>5, <2>6, ShiftRegister
  <2>8. lane # 0 => reg[lane] = Hist(lane - 1)
    BY <2>1, <2>3
  <2>9. \A k \in 1 .. lane : k # 1 => reg[k - 1] = Hist(k - 2)
    <3> SUFFICES ASSUME NEW k \in 1 .. lane, k # 1 PROVE reg[k - 1] = Hist(k - 2)
      OBVIOUS
    <3>1. k - 1 \in 1 .. lane /\ (k - 1) - 1 = k - 2
      BY <2>1
    <3>2. reg[k - 1] = Hist((k - 1) - 1)
      BY <2>3, <3>1
    <3>3. QED
      BY <3>1, <3>2
  <2>10. [k \in 1 .. lane |-> IF k = 1 THEN x ELSE reg[k - 1]]
           = [k \in 1 .. lane |-> IF k = 1 THEN NextRow ELSE Hist(k - 2)]
    BY <2>6, <2>9
  <2>11. line(lane) = <<x>> \o reg
    BY <2>2, <2>6
  <2>12. QED
    BY <2>6, <2>7, <2>8, <2>10, <2>11
<1>3. stage'[s].held = <<[lane \in Lanes |-> line(lane)[lane + 1]]>>
  BY Shifts
<1>4. regs' = [regs EXCEPT ![s] = [lane \in Lanes |-> SubSeq(line(lane), 1, lane)]]
  BY DEF SkewShift
<1>5. [lane \in Lanes |-> line(lane)[lane + 1]] = SkewedRow
  BY <1>2 DEF SkewedRow
<1>6. [lane \in Lanes |-> SubSeq(line(lane), 1, lane)]
        = [lane \in Lanes |-> [k \in 1 .. lane |-> IF k = 1 THEN NextRow ELSE Hist(k - 2)]]
  BY <1>2
<1>7. regs'[s] = [lane \in Lanes |-> SubSeq(line(lane), 1, lane)]
      /\ \A t \in {"skew_a", "skew_b"} \ {s} : regs'[t] = regs[t]
  BY <1>1, <1>4
<1>8. QED
  BY <1>3, <1>5, <1>6, <1>7

PlacesA == {stage["skew_a"].held, chan["skew_a_to_pe_array"], stage["array_gemm"].held}
PlacesB == {stage["skew_b"].held, chan["skew_b_to_pe_array"]}

(* With no row under way there is nothing to say but what is at rest. *)
LEMMA Quiet ==
  ASSUME EngineTypes, FlightA = 0, FlightB = 0
  PROVE  /\ chan["a_to_skew_a"] = << >> /\ chan["b_to_skew_b"] = << >>
         /\ \A q \in PlacesA \cup PlacesB : q = << >>
<1>1. \A q : Full(q) \in 0 .. 1 /\ (Full(q) = 0 <=> q = << >>)
  BY Singles
<1>2. QED
  BY <1>1 DEF FlightA, FlightB, InSkewA, InSkewB, PlacesA, PlacesB

LEMMA SkewFrame ==
  ASSUME EngineTypes, InStream, Skews, UNCHANGED skewVars,
         NextRow' = NextRow \/ FlightA = 0
  PROVE  Skews'
<1>1. /\ UNCHANGED regs /\ UNCHANGED a_reg /\ UNCHANGED <<PlacesA, PlacesB>>
      /\ UNCHANGED <<chan["a_to_skew_a"], chan["b_to_skew_b"]>>
  BY DEF skewVars, PlacesA, PlacesB
<1>2. \A k : Hist(k)' = Hist(k)
  BY <1>1, HistFrame
<1>3. \A s \in {"skew_a", "skew_b"} : AtRest(s)' = AtRest(s)
  BY <1>1, <1>2 DEF AtRest
<1>4. CASE FlightA = 0
  <2>1. FlightB = 0
    BY <1>4, FlightTypes DEF InStream, InPace
  <2>2. /\ chan["a_to_skew_a"] = << >> /\ chan["b_to_skew_b"] = << >>
        /\ \A q \in PlacesA \cup PlacesB : q = << >>
    BY <1>4, <2>1, Quiet
  <2>3. AtRest("skew_a") /\ AtRest("skew_b")
    BY <2>2 DEF Skews, Side, PlacesA, PlacesB
  <2>4. Side("skew_a", chan["a_to_skew_a"], PlacesA)'
    BY <1>1, <1>3, <2>2, <2>3 DEF Side
  <2>5. Side("skew_b", chan["b_to_skew_b"], PlacesB)'
    BY <1>1, <1>3, <2>2, <2>3 DEF Side
  <2>6. QED
    BY <1>1, <2>4, <2>5 DEF Skews, PlacesA, PlacesB
<1>5. CASE NextRow' = NextRow
  <2>1. \A s \in {"skew_a", "skew_b"} : OneAhead(s)' = OneAhead(s)
    BY <1>1, <1>2, <1>5 DEF OneAhead
  <2>2. SkewedRow' = SkewedRow
    BY <1>2, <1>5 DEF SkewedRow
  <2>3. Side("skew_a", chan["a_to_skew_a"], PlacesA)'
    BY <1>1, <1>3, <1>5, <2>1, <2>2 DEF Side, Skews, PlacesA
  <2>4. Side("skew_b", chan["b_to_skew_b"], PlacesB)'
    BY <1>1, <1>3, <1>5, <2>1, <2>2 DEF Side, Skews, PlacesB
  <2>5. QED
    BY <1>1, <2>3, <2>4 DEF Skews, PlacesA, PlacesB
<1>6. QED
  BY <1>4, <1>5

(* What both sides are compared with stands still while the registers and the reader's place do. *)
LEMMA SkewFrozen ==
  ASSUME NextRow' = NextRow, UNCHANGED a_reg, UNCHANGED regs
  PROVE  /\ SkewedRow' = SkewedRow
         /\ \A s \in {"skew_a", "skew_b"} : AtRest(s)' = AtRest(s) /\ OneAhead(s)' = OneAhead(s)
<1>1. \A k : Hist(k)' = Hist(k)
  BY HistFrame
<1>2. QED
  BY <1>1 DEF AtRest, OneAhead, SkewedRow

(* A row moves from one place to the next. *)
LEMMA SideAKeeps ==
  ASSUME Skews, chan'["a_to_skew_a"] = chan["a_to_skew_a"],
         \A q \in PlacesA' : q # << >> => q \in PlacesA,
         (\A q \in PlacesA : q = << >>) <=> (\A q \in PlacesA' : q = << >>),
         NextRow' = NextRow, UNCHANGED a_reg, UNCHANGED regs
  PROVE  Side("skew_a", chan["a_to_skew_a"], PlacesA)'
<1>1. Side("skew_a", chan["a_to_skew_a"], PlacesA)
  BY Zenon DEF Skews, PlacesA
<1>2. /\ chan["a_to_skew_a"] # << >> => chan["a_to_skew_a"] = <<NextRow>>
      /\ \A q \in PlacesA : q # << >> => q = <<SkewedRow>>
      /\ (\A q \in PlacesA : q = << >>) => AtRest("skew_a")
      /\ ~(\A q \in PlacesA : q = << >>) => OneAhead("skew_a")
  BY <1>1, Zenon DEF Side
<1>3. /\ SkewedRow' = SkewedRow
      /\ AtRest("skew_a")' = AtRest("skew_a") /\ OneAhead("skew_a")' = OneAhead("skew_a")
  BY SkewFrozen, Zenon
<1>4. chan'["a_to_skew_a"] # << >> => chan'["a_to_skew_a"] = <<NextRow'>>
  BY <1>2, Zenon
<1>5. \A q \in PlacesA' : q # << >> => q = <<SkewedRow'>>
  BY <1>2, <1>3, Zenon
<1>6. IF \A q \in PlacesA' : q = << >> THEN AtRest("skew_a")' ELSE OneAhead("skew_a")'
  <2>1. CASE \A q \in PlacesA' : q = << >>
    BY <1>2, <1>3, <2>1, Zenon
  <2>2. CASE ~(\A q \in PlacesA' : q = << >>)
    BY <1>2, <1>3, <2>2, Zenon
  <2>3. QED
    BY <2>1, <2>2, Zenon
<1>7. QED
  BY <1>4, <1>5, <1>6, Zenon DEF Side

LEMMA SideBKeeps ==
  ASSUME Skews, chan'["b_to_skew_b"] = chan["b_to_skew_b"],
         \A q \in PlacesB' : q # << >> => q \in PlacesB,
         (\A q \in PlacesB : q = << >>) <=> (\A q \in PlacesB' : q = << >>),
         NextRow' = NextRow, UNCHANGED a_reg, UNCHANGED regs
  PROVE  Side("skew_b", chan["b_to_skew_b"], PlacesB)'
<1>1. Side("skew_b", chan["b_to_skew_b"], PlacesB)
  BY Zenon DEF Skews, PlacesB
<1>2. /\ chan["b_to_skew_b"] # << >> => chan["b_to_skew_b"] = <<NextRow>>
      /\ \A q \in PlacesB : q # << >> => q = <<SkewedRow>>
      /\ (\A q \in PlacesB : q = << >>) => AtRest("skew_b")
      /\ ~(\A q \in PlacesB : q = << >>) => OneAhead("skew_b")
  BY <1>1, Zenon DEF Side
<1>3. /\ SkewedRow' = SkewedRow
      /\ AtRest("skew_b")' = AtRest("skew_b") /\ OneAhead("skew_b")' = OneAhead("skew_b")
  BY SkewFrozen, Zenon
<1>4. chan'["b_to_skew_b"] # << >> => chan'["b_to_skew_b"] = <<NextRow'>>
  BY <1>2, Zenon
<1>5. \A q \in PlacesB' : q # << >> => q = <<SkewedRow'>>
  BY <1>2, <1>3, Zenon
<1>6. IF \A q \in PlacesB' : q = << >> THEN AtRest("skew_b")' ELSE OneAhead("skew_b")'
  <2>1. CASE \A q \in PlacesB' : q = << >>
    BY <1>2, <1>3, <2>1, Zenon
  <2>2. CASE ~(\A q \in PlacesB' : q = << >>)
    BY <1>2, <1>3, <2>2, Zenon
  <2>3. QED
    BY <2>1, <2>2, Zenon
<1>7. QED
  BY <1>4, <1>5, <1>6, Zenon DEF Side

LEMMA GemmWriteSkews == StreamStep /\ ArrayAt /\ Skews /\ GemmWrite => Skews'
<1> SUFFICES ASSUME StreamStep, ArrayAt, Skews, GemmWrite PROVE Skews'
  OBVIOUS
<1>0. EngineTypes /\ InStream
  BY DEF StreamStep
<1>1. /\ gemm.step \in {"a_to_skew_a", "b_to_skew_b"} /\ Awake("gemm") /\ UNCHANGED <<stage, regs, a_reg, cmd>>
      /\ chan' = [chan EXCEPT ![gemm.step] = <<RowOf(gemm.id, gemm.row)>>]
  BY DEF GemmWrite, logicVars
<1>2. NextRow = RowOf(gemm.id, gemm.row)
  BY <1>1, NextRowIs
<1>3. NextRow' = NextRow
  BY <1>1 DEF NextRow, Left
<1>4. chan = [c \in Chans |-> chan[c]] /\ gemm.step \in Chans
  BY <1>0, <1>1 DEF EngineTypes, Chans
<1>5. UNCHANGED <<chan["skew_a_to_pe_array"], chan["skew_b_to_pe_array"]>>
  BY <1>1, <1>4 DEF Chans
<1>6. UNCHANGED <<PlacesA, PlacesB>>
  BY <1>1, <1>5 DEF PlacesA, PlacesB
<1>7. /\ chan'["a_to_skew_a"] # << >> => chan'["a_to_skew_a"] = <<NextRow>>
      /\ chan'["b_to_skew_b"] # << >> => chan'["b_to_skew_b"] = <<NextRow>>
  <2>1. CASE gemm.step = "a_to_skew_a"
    BY <1>1, <1>2, <1>4, <2>1 DEF Chans, Skews, Side
  <2>2. CASE gemm.step = "b_to_skew_b"
    BY <1>1, <1>2, <1>4, <2>2 DEF Chans, Skews, Side
  <2>3. QED
    BY <1>1, <2>1, <2>2
<1>8. \A k : Hist(k)' = Hist(k)
  BY <1>1, HistFrame
<1>9. \A s \in {"skew_a", "skew_b"} : AtRest(s)' = AtRest(s) /\ OneAhead(s)' = OneAhead(s)
  BY <1>1, <1>3, <1>8 DEF AtRest, OneAhead
<1>10. SkewedRow' = SkewedRow
  BY <1>3, <1>8 DEF SkewedRow
<1>11. Side("skew_a", chan["a_to_skew_a"], PlacesA)'
  BY <1>3, <1>6, <1>7, <1>9, <1>10 DEF Side, Skews, PlacesA
<1>12. Side("skew_b", chan["b_to_skew_b"], PlacesB)'
  BY <1>3, <1>6, <1>7, <1>9, <1>10 DEF Side, Skews, PlacesB
<1>13. QED
  BY <1>1, <1>11, <1>12 DEF Skews, PlacesA, PlacesB

(* A skew buffer's step *)
LEMMA SkewShiftSkews ==
  ASSUME StreamStep, ArrayAt, Skews, NEW s \in {"skew_a", "skew_b"}, SkewShift(s)
  PROVE  Skews'
<1>0. EngineTypes /\ InStream /\ s \in Stages
  BY DEF StreamStep, Stages
<1>1. /\ chan[InputOf(s)] # << >> /\ chan'[InputOf(s)] = << >> /\ UNCHANGED a_reg
      /\ \A c \in Chans \ {InputOf(s)} : chan'[c] = chan[c]
      /\ \A t \in Stages \ {s} : stage'[t] = stage[t]
  BY <1>0, Shifts DEF SkewShift
<1>2. FlightA <= 1 /\ FlightB <= 1 /\ FlightA \in Nat /\ FlightB \in Nat /\ WrittenA \in 0 .. 1
  BY <1>0, FlightTypes DEF InStream, InPace
<1>3. \A q : Full(q) \in 0 .. 1 /\ (Full(q) = 0 <=> q = << >>)
  BY Singles
<1>4. \A k : Hist(k)' = Hist(k)
  BY <1>1, HistFrame
<1>5. CASE s = "skew_a"
  <2>1. InputOf(s) = "a_to_skew_a"
    BY <1>5, Wiring
  <2>2. Full(chan["a_to_skew_a"]) = 1
    BY <1>1, <1>3, <2>1
  <2>3. FlightA = 1 /\ \A q \in PlacesA : q = << >>
    BY <1>2, <1>3, <2>2 DEF FlightA, InSkewA, PlacesA
  <2>4. AtRest("skew_a") /\ chan[InputOf(s)] = <<NextRow>>
    BY <1>1, <2>1, <2>3 DEF Skews, Side, PlacesA
  <2>5. NextRow' = NextRow
    <3>1. stage'["array_gemm"] = stage["array_gemm"] /\ UNCHANGED cmd
      BY <1>1, <1>5 DEF Stages, SkewShift
    <3>2. QED
      BY <3>1 DEF NextRow, Left
  <2>6. /\ stage'["skew_a"].held = <<SkewedRow>>
        /\ regs'["skew_a"] = [lane \in Lanes |-> [k \in 1 .. lane |-> IF k = 1 THEN NextRow ELSE Hist(k - 2)]]
        /\ regs'["skew_b"] = regs["skew_b"]
    <3>1. regs = [t \in {"skew_a", "skew_b"} |-> regs[t]]
      BY DEF Skews
    <3>2. QED
      BY <1>0, <1>5, <2>4, <3>1, SkewOut
  <2>7. SkewedRow' = SkewedRow /\ OneAhead("skew_a")'
    BY <1>4, <2>5, <2>6 DEF SkewedRow, OneAhead
  <2>8. /\ chan'["a_to_skew_a"] = << >> /\ chan'["b_to_skew_b"] = chan["b_to_skew_b"]
        /\ chan'["skew_a_to_pe_array"] = chan["skew_a_to_pe_array"] /\ UNCHANGED PlacesB
        /\ stage'["array_gemm"].held = stage["array_gemm"].held
    BY <1>1, <1>5, <2>1 DEF Chans, Stages, PlacesB
  <2>9. Side("skew_a", chan["a_to_skew_a"], PlacesA)'
    <3>1. \A q \in PlacesA' : q # << >> => q = <<SkewedRow'>>
      BY <2>3, <2>6, <2>7, <2>8 DEF PlacesA
    <3>2. ~ \A q \in PlacesA' : q = << >>
      <4>1. <<SkewedRow>> # << >> /\ <<SkewedRow>> \in PlacesA'
        BY <2>6 DEF PlacesA
      <4>2. QED
        BY <4>1
    <3>3. QED
      BY <2>7, <2>8, <3>1, <3>2 DEF Side
  <2>10. Side("skew_b", chan["b_to_skew_b"], PlacesB)'
    <3>1. AtRest("skew_b")' = AtRest("skew_b") /\ OneAhead("skew_b")' = OneAhead("skew_b")
      BY <1>4, <2>5, <2>6 DEF AtRest, OneAhead
    <3>2. QED
      BY <2>5, <2>7, <2>8, <3>1 DEF Side, Skews, PlacesB
  <2>11. regs' = [t \in {"skew_a", "skew_b"} |-> regs'[t]]
    BY DEF SkewShift, Skews
  <2>12. QED
    BY <2>9, <2>10, <2>11 DEF Skews, PlacesA, PlacesB
<1>6. CASE s = "skew_b"
  <2>1. InputOf(s) = "b_to_skew_b"
    BY <1>6, Wiring
  <2>2. Full(chan["b_to_skew_b"]) = 1
    BY <1>1, <1>3, <2>1
  <2>3. FlightB = 1 /\ \A q \in PlacesB : q = << >>
    BY <1>2, <1>3, <2>2 DEF FlightB, InSkewB, PlacesB
  <2>4. AtRest("skew_b") /\ chan[InputOf(s)] = <<NextRow>>
    BY <1>1, <2>1, <2>3 DEF Skews, Side, PlacesB
  <2>5. NextRow' = NextRow
    <3>1. stage'["array_gemm"] = stage["array_gemm"] /\ UNCHANGED cmd
      BY <1>1, <1>6 DEF Stages, SkewShift
    <3>2. QED
      BY <3>1 DEF NextRow, Left
  <2>6. /\ stage'["skew_b"].held = <<SkewedRow>>
        /\ regs'["skew_b"] = [lane \in Lanes |-> [k \in 1 .. lane |-> IF k = 1 THEN NextRow ELSE Hist(k - 2)]]
        /\ regs'["skew_a"] = regs["skew_a"]
    <3>1. regs = [t \in {"skew_a", "skew_b"} |-> regs[t]]
      BY DEF Skews
    <3>2. QED
      BY <1>0, <1>6, <2>4, <3>1, SkewOut
  <2>7. SkewedRow' = SkewedRow /\ OneAhead("skew_b")'
    BY <1>4, <2>5, <2>6 DEF SkewedRow, OneAhead
  <2>8. /\ chan'["b_to_skew_b"] = << >> /\ chan'["a_to_skew_a"] = chan["a_to_skew_a"]
        /\ chan'["skew_b_to_pe_array"] = chan["skew_b_to_pe_array"] /\ UNCHANGED PlacesA
    BY <1>1, <1>6, <2>1 DEF Chans, Stages, PlacesA
  <2>9. Side("skew_b", chan["b_to_skew_b"], PlacesB)'
    <3>1. \A q \in PlacesB' : q # << >> => q = <<SkewedRow'>>
      BY <2>3, <2>6, <2>7, <2>8 DEF PlacesB
    <3>2. ~ \A q \in PlacesB' : q = << >>
      <4>1. <<SkewedRow>> # << >> /\ <<SkewedRow>> \in PlacesB'
        BY <2>6 DEF PlacesB
      <4>2. QED
        BY <4>1
    <3>3. QED
      BY <2>7, <2>8, <3>1, <3>2 DEF Side
  <2>10. Side("skew_a", chan["a_to_skew_a"], PlacesA)'
    <3>1. AtRest("skew_a")' = AtRest("skew_a") /\ OneAhead("skew_a")' = OneAhead("skew_a")
      BY <1>4, <2>5, <2>6 DEF AtRest, OneAhead
    <3>2. QED
      BY <2>5, <2>7, <2>8, <3>1 DEF Side, Skews, PlacesA
  <2>11. regs' = [t \in {"skew_a", "skew_b"} |-> regs'[t]]
    BY DEF SkewShift, Skews
  <2>12. QED
    BY <2>9, <2>10, <2>11 DEF Skews, PlacesA, PlacesB
<1>7. QED
  BY <1>5, <1>6

LEMMA PassOnSkews ==
  ASSUME StreamStep, ArrayAt, Skews, [Next]_vars,
         ArrayReadA \/ StageWrite("skew_a") \/ StageWrite("skew_b")
  PROVE  Skews'
<1>0. EngineTypes /\ InStream /\ "skew_a" \in Stages /\ "skew_b" \in Stages
  BY DEF StreamStep, Stages
<1>1. UNCHANGED <<regs, a_reg>>
  BY DEF ArrayReadA, StageWrite, logicVars
<1>2. \A q : Full(q) \in 0 .. 1 /\ (Full(q) = 0 <=> q = << >>)
  BY Singles
<1>3. FlightA # 0
  <2>1. CASE ArrayReadA
    BY <1>0, <1>2, <2>1, ReadsA DEF FlightA, InSkewA
  <2>2. CASE StageWrite("skew_a")
    BY <1>0, <1>2, <2>2, PassedOn DEF FlightA, InSkewA
  <2>3. CASE StageWrite("skew_b")
    <3>1. FlightB # 0
      BY <1>0, <1>2, <2>3, PassedOn DEF FlightB, InSkewB
    <3>2. QED
      BY <1>0, <3>1, FlightTypes DEF InStream, InPace
  <2>4. QED
    BY <2>1, <2>2, <2>3
<1>4. NextRow' = NextRow
  <2>1. ~ ArrayShift
    <3>1. CASE ArrayReadA
      BY <3>1 DEF ArrayReadA, ArrayShift
    <3>2. ASSUME NEW s \in {"skew_a", "skew_b"}, StageWrite(s), ArrayShift PROVE FALSE
      <4>1. s \in Stages \ {"array_gemm"} /\ s \in Threads
        BY DEF Stages, Threads
      <4>2. stage'["array_gemm"] = stage["array_gemm"]
        BY <1>0, <3>2, <4>1, PassedOn DEF Stages
      <4>3. QED
        BY <1>0, <3>2, <4>2, ShiftsIn
    <3>3. QED
      BY <3>1, <3>2
  <2>2. QED
    BY <1>3, <2>1, NextRowKeeps
<1>5. CASE ArrayReadA
  <2>1. /\ UNCHANGED PlacesB /\ UNCHANGED <<chan["a_to_skew_a"], chan["b_to_skew_b"], stage["skew_a"]>>
        /\ PlacesA = {stage["skew_a"].held, chan["skew_a_to_pe_array"], << >>}
        /\ PlacesA' = {stage["skew_a"].held, chan["skew_a_to_pe_array"], << >>}
    BY <1>0, <1>5, ReadsA DEF Chans, Stages, PlacesA, PlacesB
  <2>2. Side("skew_a", chan["a_to_skew_a"], PlacesA)'
    <3>1. /\ \A q \in PlacesA' : q # << >> => q \in PlacesA
          /\ (\A q \in PlacesA : q = << >>) <=> (\A q \in PlacesA' : q = << >>)
      BY <2>1
    <3>2. QED
      BY <1>1, <1>4, <2>1, <3>1, SideAKeeps
  <2>3. Side("skew_b", chan["b_to_skew_b"], PlacesB)'
    <3>1. /\ \A q \in PlacesB' : q # << >> => q \in PlacesB
          /\ (\A q \in PlacesB : q = << >>) <=> (\A q \in PlacesB' : q = << >>)
      BY <2>1
    <3>2. QED
      BY <1>1, <1>4, <2>1, <3>1, SideBKeeps
  <2>4. QED
    BY <1>1, <2>2, <2>3 DEF Skews, PlacesA, PlacesB
<1>6. CASE StageWrite("skew_a")
  <2>1. /\ UNCHANGED PlacesB /\ UNCHANGED <<chan["a_to_skew_a"], chan["b_to_skew_b"], stage["array_gemm"]>>
        /\ PlacesA = {stage["skew_a"].held, << >>, stage["array_gemm"].held}
        /\ PlacesA' = {<< >>, stage["skew_a"].held, stage["array_gemm"].held}
    BY <1>0, <1>6, PassedOn, Wiring DEF Chans, Stages, PlacesA, PlacesB
  <2>2. Side("skew_a", chan["a_to_skew_a"], PlacesA)'
    <3>1. /\ \A q \in PlacesA' : q # << >> => q \in PlacesA
          /\ (\A q \in PlacesA : q = << >>) <=> (\A q \in PlacesA' : q = << >>)
      BY <2>1
    <3>2. QED
      BY <1>1, <1>4, <2>1, <3>1, SideAKeeps
  <2>3. Side("skew_b", chan["b_to_skew_b"], PlacesB)'
    <3>1. /\ \A q \in PlacesB' : q # << >> => q \in PlacesB
          /\ (\A q \in PlacesB : q = << >>) <=> (\A q \in PlacesB' : q = << >>)
      BY <2>1
    <3>2. QED
      BY <1>1, <1>4, <2>1, <3>1, SideBKeeps
  <2>4. QED
    BY <1>1, <2>2, <2>3 DEF Skews, PlacesA, PlacesB
<1>7. CASE StageWrite("skew_b")
  <2>1. /\ UNCHANGED PlacesA /\ UNCHANGED <<chan["a_to_skew_a"], chan["b_to_skew_b"]>>
        /\ PlacesB = {stage["skew_b"].held, << >>}
        /\ PlacesB' = {<< >>, stage["skew_b"].held}
    BY <1>0, <1>7, PassedOn, Wiring DEF Chans, Stages, PlacesA, PlacesB
  <2>2. Side("skew_a", chan["a_to_skew_a"], PlacesA)'
    <3>1. /\ \A q \in PlacesA' : q # << >> => q \in PlacesA
          /\ (\A q \in PlacesA : q = << >>) <=> (\A q \in PlacesA' : q = << >>)
      BY <2>1
    <3>2. QED
      BY <1>1, <1>4, <2>1, <3>1, SideAKeeps
  <2>3. Side("skew_b", chan["b_to_skew_b"], PlacesB)'
    <3>1. /\ \A q \in PlacesB' : q # << >> => q \in PlacesB
          /\ (\A q \in PlacesB : q = << >>) <=> (\A q \in PlacesB' : q = << >>)
      BY <2>1
    <3>2. QED
      BY <1>1, <1>4, <2>1, <3>1, SideBKeeps
  <2>4. QED
    BY <1>1, <2>2, <2>3 DEF Skews, PlacesA, PlacesB
<1>8. QED
  BY <1>5, <1>6, <1>7

LEMMA ArrayShiftSkews ==
  ASSUME Paced, StreamStep, Diagonals, Skews, ArrayShift PROVE Skews'
<1>0. EngineTypes /\ InStream
  BY DEF StreamStep
<1>1. /\ chan["skew_b_to_pe_array"] # << >> /\ stage["array_gemm"].held # << >>
      /\ stage'["array_gemm"].held = << >> /\ chan'["skew_b_to_pe_array"] = << >>
      /\ \A t \in Stages \ {"array_gemm"} : stage'[t] = stage[t]
      /\ \A c \in Chans \ {"skew_b_to_pe_array"} : chan'[c] = chan[c]
      /\ regs' = regs
  BY <1>0, ShiftsIn DEF ArrayShift
<1>2. \A q : Full(q) \in 0 .. 1 /\ (Full(q) = 0 <=> q = << >>)
  BY Singles
<1>3. FlightA <= 1 /\ FlightB <= 1
  BY <1>0, FlightTypes DEF InStream, InPace
<1>4. /\ chan["a_to_skew_a"] = << >> /\ stage["skew_a"].held = << >> /\ chan["skew_a_to_pe_array"] = << >>
      /\ chan["b_to_skew_b"] = << >> /\ stage["skew_b"].held = << >>
  <2>1. Full(stage["array_gemm"].held) = 1 /\ Full(chan["skew_b_to_pe_array"]) = 1
    BY <1>1, <1>2
  <2>2. /\ Full(chan["a_to_skew_a"]) = 0 /\ Full(stage["skew_a"].held) = 0
        /\ Full(chan["skew_a_to_pe_array"]) = 0
    BY <1>2, <1>3, <2>1 DEF FlightA, InSkewA
  <2>3. Full(chan["b_to_skew_b"]) = 0 /\ Full(stage["skew_b"].held) = 0
    BY <1>2, <1>3, <2>1 DEF FlightB, InSkewB
  <2>4. QED
    BY <1>2, <2>2, <2>3
<1>5. /\ chan'["a_to_skew_a"] = << >> /\ chan'["b_to_skew_b"] = << >>
      /\ \A q \in PlacesA' : q = << >>
      /\ \A q \in PlacesB' : q = << >>
  BY <1>1, <1>4 DEF Stages, Chans, PlacesA, PlacesB
<1>6. OneAhead("skew_a") /\ OneAhead("skew_b")
  BY <1>1 DEF Skews, Side
<1>7. \A k \in 0 .. 2 * DIM - 2 : Hist(k)' = IF k = 0 THEN NextRow ELSE Hist(k - 1)
  BY HistShifts
<1>8. \A lane \in Lanes, k \in Nat : k \in 1 .. lane =>
        Hist(k - 1)' = IF k = 1 THEN NextRow ELSE Hist(k - 2)
  <2> SUFFICES ASSUME NEW lane \in Lanes, NEW k \in Nat, k \in 1 .. lane
               PROVE  Hist(k - 1)' = IF k = 1 THEN NextRow ELSE Hist(k - 2)
    OBVIOUS
  <2>1. k - 1 \in 0 .. 2 * DIM - 2 /\ (k - 1 = 0 <=> k = 1) /\ (k - 1) - 1 = k - 2
    BY SizeAssumption DEF Lanes
  <2>2. QED
    BY <1>7, <2>1
<1>9. AtRest("skew_a")' /\ AtRest("skew_b")'
  <2>1. \A lane \in Lanes : lane \in Nat
    BY SizeAssumption DEF Lanes
  <2>2. [lane \in Lanes |-> [k \in 1 .. lane |-> Hist(k - 1)']]
          = [lane \in Lanes |-> [k \in 1 .. lane |-> IF k = 1 THEN NextRow ELSE Hist(k - 2)]]
    BY <1>8, <2>1
  <2>3. QED
    BY <1>1, <1>6, <2>2 DEF AtRest, OneAhead
<1>10. Side("skew_a", chan["a_to_skew_a"], PlacesA)' /\ Side("skew_b", chan["b_to_skew_b"], PlacesB)'
  BY <1>5, <1>9 DEF Side
<1>11. QED
  BY <1>1, <1>10 DEF Skews, PlacesA, PlacesB

LEMMA SkewsNext == ASSUME Paced, StreamStep, ArrayAt, Diagonals, Skews, [Next]_vars PROVE Skews'
<1>0. EngineTypes /\ InStream
  BY DEF StreamStep
<1>1. CASE ArrayShift
  BY <1>1, ArrayShiftSkews
<1>2. CASE ~ ArrayShift /\ UNCHANGED skewVars
  BY <1>0, <1>2, SkewFrame, NextRowKeeps
<1>3. QED
  BY <1>0, <1>1, <1>2, SkewSteps, GemmWriteSkews, SkewShiftSkews, PassOnSkews

-----------------------------------------------------------------------------
(* The rows in the array *)

LEMMA LatestIs ==
  ASSUME NEW op \in {"gemm", "drain"}, NEW S, S = {id \in Ids : Program[id].op = op},
         NEW e \in S, NEW g \in Ids, NoneBetween(S, e, g)
  PROVE  Latest(op, g) = e
<1> DEFINE earlier == {x \in 1 .. g - 1 : Program[x].op = op}
<1>1. g \in 1 .. Len(Program) /\ Len(Program) \in Nat /\ e \in Nat \ {0} /\ e < g
  BY ProgramAssumption, IdsAreNumbers, Programs DEF NoneBetween, Ids
<1>2. \A x \in earlier : x \in S /\ x < g /\ x \in Nat
  BY <1>1 DEF Ids
<1>3. e \in earlier
  BY <1>1
<1>4. \A x \in earlier : x <= e
  BY <1>1, <1>2 DEF NoneBetween
<1>5. \A x \in earlier : (\A f \in earlier : f <= x) => x = e
  BY <1>1, <1>2, <1>3, <1>4
<1>6. (CHOOSE x \in earlier : \A f \in earlier : f <= x) = e
  BY <1>3, <1>4, <1>5
<1>7. QED
  BY <1>3, <1>6 DEF Latest

(* The next gemm is on the same buffer unless the one before it is a flush. *)
LEMMA NextInChain ==
  ASSUME NEW e \in Gemms, NEW g \in Gemms, NoneBetween(Gemms, e, g)
  PROVE  Program[e].is_flush \/ Program[e].psum_index = Program[g].psum_index
<1>1. Latest("gemm", g) = e
  BY LatestIs, IdsAreNumbers DEF Gemms
<1>2. e # 0
  BY IdsAreNumbers
<1>3. QED
  BY <1>1, <1>2, ChainsClosed

LEMMA ArrayIdTypes ==
  ASSUME EngineTypes, ArrayAt
  PROVE  /\ stage["array_gemm"].cmd.id \in Gemms \cup {0} /\ stage["array_gemm"].cmd.id \in Nat
         /\ stage["array_gemm"].row \in Nat /\ stage["array_gemm"].cmd.rows \in Nat
         /\ stage["array_gemm"].row <= stage["array_gemm"].cmd.rows
         /\ stage["array_gemm"].cmd.id # 0 =>
              stage["array_gemm"].cmd = GemmCmd(stage["array_gemm"].cmd.id)
         /\ stage["array_gemm"].cmd.id = 0 => stage["array_gemm"].cmd.rows = 0
<1>1. stage["array_gemm"].cmd.id \in {last_gemm_completed_id, gemm.id}
  BY DEF ArrayAt
<1>2. stage["array_gemm"].cmd.id \in Gemms \cup {0}
  BY <1>1 DEF EngineTypes
<1>3. stage["array_gemm"].row \in 0 .. stage["array_gemm"].cmd.rows /\ stage["array_gemm"].cmd.rows \in Nat
  BY StageTypesOf DEF Stages
<1>4. stage["array_gemm"].cmd.id = 0 => stage["array_gemm"].cmd.rows = 0
  BY DEF ArrayAt, NoCmd
<1>5. stage["array_gemm"].cmd.id # 0 => stage["array_gemm"].cmd = GemmCmd(stage["array_gemm"].cmd.id)
  BY DEF ArrayAt
<1>6. stage["array_gemm"].cmd.id \in Nat
  <2>1. Gemms \subseteq Nat /\ 0 \in Nat
    BY IdsAreNumbers
  <2>2. QED
    BY <1>2, <2>1
<1>7. stage["array_gemm"].row \in Nat /\ stage["array_gemm"].row <= stage["array_gemm"].cmd.rows
  BY <1>3
<1>8. QED
  BY <1>2, <1>3, <1>4, <1>5, <1>6, <1>7

(* The next command is that of the next gemm. *)
LEMMA NextCommandIs ==
  ASSUME StreamStep, Orders, ArrayAt, StageCommand("array_gemm")
  PROVE  /\ stage'["array_gemm"].cmd = GemmCmd(gemm.id) /\ stage'["array_gemm"].row = 0
         /\ gemm.id \in Gemms /\ stage["array_gemm"].cmd.id = last_gemm_completed_id
         /\ NoneBetween(Gemms, stage["array_gemm"].cmd.id, gemm.id)
         /\ stage["array_gemm"].row = stage["array_gemm"].cmd.rows
<1>0. EngineTypes /\ GemmPlace /\ "array_gemm" \in Stages /\ CmdOf("array_gemm") = "gemm_cmd"
  BY Wiring DEF StreamStep, InStream, Stages
<1>1. /\ cmd["gemm_cmd"] # << >> /\ stage'["array_gemm"].cmd = Head(cmd["gemm_cmd"])
      /\ stage'["array_gemm"].row = 0 /\ stage["array_gemm"].row = stage["array_gemm"].cmd.rows
  BY <1>0, CommandTaken
<1>2. /\ Head(cmd["gemm_cmd"]) = GemmCmd(gemm.id) /\ stage["array_gemm"].cmd.id = last_gemm_completed_id
      /\ gemm.step # "dequeue"
  BY <1>1 DEF ArrayAt
<1>3. gemm.id \in Gemms /\ gemm.id # 0
  BY <1>0, <1>2, GemmIdOf
<1>4. QED
  BY <1>1, <1>2, <1>3 DEF Orders, GemmsInOrder

(* What is said of one row in the array *)
RowInArray(k) ==
  LET r == Hist(k)
  IN  /\ r \in Rows /\ ~ IsFlush(r[1]) /\ Shifted(r)
      /\ Program[r[1]].psum_index = stage["array_gemm"].cmd.psum_index
      /\ \A f \in Gemms : IsFlush(f) /\ r[1] < f =>
           /\ f >= stage["array_gemm"].cmd.id
           /\ f = stage["array_gemm"].cmd.id => stage["array_gemm"].row <= k
      /\ \A l \in Steps : Hist(l) = r => l = k

LEMMA InArrayIs == InArray <=> \A k \in Steps : Hist(k) # ZERO => RowInArray(k)
  BY DEF InArray, RowInArray

LEMMA RowTypes ==
  ASSUME NEW r \in Rows
  PROVE  /\ r = <<r[1], r[2]>> /\ r[1] \in Gemms /\ r[1] \in Nat \ {0} /\ r[1] \in Ids
         /\ r[2] \in Lanes /\ r[2] \in Nat /\ r[2] < DIM /\ r # ZERO
<1>1. PICK g \in Gemms, row \in Lanes : r = <<g, row>>
  BY DEF Rows
<1>2. g \in Nat \ {0} /\ g \in Ids /\ row \in Nat /\ row < DIM
  BY IdsAreNumbers, SizeAssumption DEF Lanes
<1>3. r # ZERO
  BY ZeroAssumption DEF Rows
<1>4. QED
  BY <1>1, <1>2, <1>3

LEMMA InArrayFrame ==
  ASSUME InArray, UNCHANGED a_reg, stage'["array_gemm"].cmd = stage["array_gemm"].cmd,
         stage'["array_gemm"].row = stage["array_gemm"].row
  PROVE  InArray'
<1>1. \A k : Hist(k)' = Hist(k)
  BY HistFrame
<1>2. QED
  BY <1>1 DEF InArray, Shifted

LEMMA InArrayCommand ==
  ASSUME StreamStep, Orders, ArrayAt, InArray, StageCommand("array_gemm")
  PROVE  InArray'
<1> DEFINE old == stage["array_gemm"].cmd
<1>0. EngineTypes
  BY DEF StreamStep
<1>1. /\ stage'["array_gemm"].cmd = GemmCmd(gemm.id) /\ stage'["array_gemm"].row = 0
      /\ gemm.id \in Gemms /\ NoneBetween(Gemms, old.id, gemm.id)
      /\ stage["array_gemm"].row = old.rows
  BY NextCommandIs
<1>2. GemmCmd(gemm.id).id = gemm.id /\ GemmCmd(gemm.id).psum_index = Program[gemm.id].psum_index
  BY DEF GemmCmd
<1>3. \A k : Hist(k)' = Hist(k)
  BY HistFrame DEF StageCommand, logicVars
<1>4. SUFFICES ASSUME NEW k \in Steps, NEW r, r = Hist(k), r # ZERO
               PROVE  /\ r \in Rows /\ ~ IsFlush(r[1]) /\ Shifted(r)'
                      /\ Program[r[1]].psum_index = Program[gemm.id].psum_index
                      /\ \A f \in Gemms : IsFlush(f) /\ r[1] < f =>
                           f >= gemm.id /\ (f = gemm.id => 0 <= k)
                      /\ \A l \in Steps : Hist(l) = r => l = k
  <2> SUFFICES ASSUME NEW k \in Steps, Hist(k)' # ZERO PROVE RowInArray(k)'
    BY DEF InArray, RowInArray
  <2>1. PICK r : r = Hist(k) /\ r # ZERO /\ Hist(k)' = r
    BY <1>3
  <2>2. /\ r \in Rows /\ ~ IsFlush(r[1]) /\ Shifted(r)'
        /\ Program[r[1]].psum_index = Program[gemm.id].psum_index
        /\ \A f \in Gemms : IsFlush(f) /\ r[1] < f =>
             f >= gemm.id /\ (f = gemm.id => 0 <= k)
        /\ \A l \in Steps : Hist(l) = r => l = k
    BY <1>4, <2>1
  <2>3. QED
    BY <1>1, <1>2, <1>3, <2>1, <2>2 DEF RowInArray
<1>5. RowInArray(k)
  BY <1>4, InArrayIs
<1>6. /\ r \in Rows /\ ~ IsFlush(r[1]) /\ Shifted(r) /\ Program[r[1]].psum_index = old.psum_index
      /\ \A f \in Gemms : IsFlush(f) /\ r[1] < f =>
           f >= old.id /\ (f = old.id => stage["array_gemm"].row <= k)
      /\ \A l \in Steps : Hist(l) = r => l = k
  BY <1>4, <1>5 DEF RowInArray
<1>7. r[1] \in Gemms /\ r[1] \in Nat \ {0} /\ gemm.id \in Nat /\ old.id \in Nat /\ k \in Nat
  BY <1>0, <1>1, <1>6, RowTypes, ArrayIdTypes, IdsAreNumbers, SizeAssumption DEF Steps
<1>8. r[1] <= old.id /\ old.id < gemm.id
  BY <1>1, <1>6, <1>7 DEF Shifted, NoneBetween
<1>9. old.id \in Gemms /\ old = GemmCmd(old.id) /\ old.psum_index = Program[old.id].psum_index
      /\ old.rows = GemmRows(old.id)
  <2>1. old.id # 0 /\ old.id \in Gemms /\ old = GemmCmd(old.id)
    BY <1>0, <1>7, <1>8, ArrayIdTypes
  <2>2. QED
    BY <2>1 DEF GemmCmd
<1>10. ~ IsFlush(old.id)
  <2> SUFFICES ASSUME IsFlush(old.id) PROVE FALSE
    OBVIOUS
  <2>1. r[1] # old.id
    BY <1>6
  <2>2. stage["array_gemm"].row <= k
    BY <1>6, <1>7, <1>8, <1>9, <2>1
  <2>3. stage["array_gemm"].row = 2 * DIM - 2
    BY <1>1, <1>9 DEF GemmRows, IsFlush
  <2>4. QED
    BY <2>2, <2>3, SizeAssumption DEF Steps
<1>11. Program[old.id].psum_index = Program[gemm.id].psum_index
  BY <1>1, <1>7, <1>8, <1>9, <1>10, NextInChain, IdsAreNumbers DEF IsFlush
<1>12. Shifted(r)'
  BY <1>1, <1>2, <1>7, <1>8 DEF Shifted
<1>13. ASSUME NEW f \in Gemms, IsFlush(f), r[1] < f PROVE f >= gemm.id
  <2>1. f >= old.id /\ f # old.id /\ f \in Nat
    BY <1>6, <1>10, <1>13, IdsAreNumbers
  <2>2. QED
    BY <1>1, <1>7, <2>1 DEF NoneBetween
<1>14. \A f \in Gemms : f = gemm.id => 0 <= k
  BY <1>7
<1>15. Program[r[1]].psum_index = Program[gemm.id].psum_index
  BY <1>6, <1>9, <1>11
<1>16. QED
  BY <1>6, <1>12, <1>13, <1>14, <1>15

LEMMA InArrayShift ==
  ASSUME StreamStep, ArrayAt, Diagonals, Skews, InArray, ArrayShift
  PROVE  InArray'
<1> DEFINE at == stage["array_gemm"]
           x == NextRow
<1>0. EngineTypes /\ DIM \in Nat /\ DIM >= 2
  BY SizeAssumption DEF StreamStep
<1>1. /\ stage'["array_gemm"].cmd = at.cmd /\ stage'["array_gemm"].row = at.row + 1
      /\ at.row < at.cmd.rows
  BY <1>0, ShiftsIn
<1>2. /\ at.cmd.id \in Gemms /\ at.cmd.id \in Nat \ {0} /\ at.row \in Nat /\ at.cmd.rows = GemmRows(at.cmd.id)
      /\ at.cmd.psum_index = Program[at.cmd.id].psum_index
  <2>1. at.cmd.id # 0
    BY <1>0, <1>1, ArrayIdTypes
  <2>2. QED
    BY <1>0, <2>1, ArrayIdTypes DEF GemmCmd
<1>3. x = RowOf(at.cmd.id, at.row)
  <2>1. Left("array_gemm") > 0
    BY <1>0, <1>1, ArrayIdTypes DEF Left
  <2>2. QED
    BY <2>1 DEF NextRow
<1>4. \A k \in 0 .. 2 * DIM - 2 : Hist(k)' = IF k = 0 THEN x ELSE Hist(k - 1)
  BY HistShifts
<1>5. \A k \in Steps : k \in Nat /\ k \in 0 .. 2 * DIM - 2 /\ (k # 0 => k - 1 \in Steps)
  BY <1>0 DEF Steps
<1>6. \A k \in Steps : Hist(k) # ZERO => RowInArray(k)
  BY InArrayIs
<1>7. x # ZERO => /\ x \in Rows /\ x = <<at.cmd.id, at.row>> /\ ~ IsFlush(at.cmd.id)
                  /\ x[1] = at.cmd.id /\ x[2] = at.row
  <2>1. SUFFICES ASSUME x # ZERO PROVE x \in Rows /\ x = <<at.cmd.id, at.row>> /\ ~ IsFlush(at.cmd.id)
    OBVIOUS
  <2>2. ~ Program[at.cmd.id].is_flush /\ x = <<at.cmd.id, at.row>>
    BY <1>3, <2>1 DEF RowOf
  <2>3. at.row < DIM
    BY <1>1, <1>2, <2>2 DEF GemmRows
  <2>4. QED
    BY <1>2, <2>2, <2>3, <1>0 DEF IsFlush, Rows, Lanes
<1>8. \A k \in Steps : Hist(k) # ZERO => Hist(k) # x
  <2> SUFFICES ASSUME NEW k \in Steps, Hist(k) # ZERO, Hist(k) = x PROVE FALSE
    OBVIOUS
  <2>1. Shifted(Hist(k))
    BY <1>6 DEF RowInArray
  <2>2. QED
    BY <1>2, <1>7, <2>1 DEF Shifted
<1>9. \A q \in Rows : Shifted(q) => Shifted(q)'
  <2> SUFFICES ASSUME NEW q \in Rows, Shifted(q) PROVE Shifted(q)'
    OBVIOUS
  <2>1. q[1] \in Nat /\ q[2] \in Nat
    BY RowTypes
  <2>2. QED
    BY <1>1, <1>2, <2>1 DEF Shifted
<1>10. ASSUME NEW k \in Steps, Hist(k)' # ZERO PROVE RowInArray(k)'
  <2>0. PICK r : r = Hist(k)'
    OBVIOUS
  <2>1. CASE k = 0
    <3>1. r = x /\ x # ZERO
      BY <1>4, <1>5, <1>10, <2>0, <2>1
    <3>2. Shifted(r)'
      BY <1>1, <1>2, <1>7, <3>1 DEF Shifted
    <3>3. Program[r[1]].psum_index = stage'["array_gemm"].cmd.psum_index
      BY <1>1, <1>2, <1>7, <3>1
    <3>4. \A f \in Gemms : IsFlush(f) /\ r[1] < f => f >= at.cmd.id /\ f # at.cmd.id
      BY <1>2, <1>7, <3>1, IdsAreNumbers
    <3>5. ASSUME NEW l \in Steps, Hist(l)' = r PROVE l = k
      <4> SUFFICES ASSUME l # 0 PROVE FALSE
        BY <2>1
      <4>1. Hist(l - 1) = x /\ l - 1 \in Steps
        BY <1>4, <1>5, <3>1, <3>5
      <4>2. QED
        BY <1>8, <3>1, <4>1
    <3>6. QED
      BY <1>1, <1>7, <2>0, <3>1, <3>2, <3>3, <3>4, <3>5 DEF RowInArray
  <2>2. CASE k # 0
    <3>1. r = Hist(k - 1) /\ k - 1 \in Steps /\ Hist(k - 1) # ZERO
      BY <1>4, <1>5, <1>10, <2>0, <2>2
    <3>2. RowInArray(k - 1)
      BY <1>6, <3>1
    <3>3. /\ r \in Rows /\ ~ IsFlush(r[1]) /\ Shifted(r) /\ Program[r[1]].psum_index = at.cmd.psum_index
          /\ \A f \in Gemms : IsFlush(f) /\ r[1] < f => f >= at.cmd.id /\ (f = at.cmd.id => at.row <= k - 1)
          /\ \A l \in Steps : Hist(l) = r => l = k - 1
      BY <3>1, <3>2 DEF RowInArray
    <3>4. Shifted(r)'
      BY <1>9, <3>3
    <3>5. \A f \in Gemms : IsFlush(f) /\ r[1] < f => f >= at.cmd.id /\ (f = at.cmd.id => at.row + 1 <= k)
      BY <1>2, <1>5, <3>3
    <3>6. ASSUME NEW l \in Steps, Hist(l)' = r PROVE l = k
      <4>1. CASE l = 0
        <5>1. Hist(k - 1) = x
          BY <1>4, <1>5, <3>1, <3>6, <4>1
        <5>2. QED
          BY <1>8, <3>1, <5>1
      <4>2. CASE l # 0
        <5>1. Hist(l - 1) = r /\ l - 1 \in Steps
          BY <1>4, <1>5, <3>6, <4>2
        <5>2. l - 1 = k - 1
          BY <3>3, <5>1
        <5>3. QED
          BY <1>5, <5>2
      <4>3. QED
        BY <4>1, <4>2
    <3>7. QED
      BY <1>1, <2>0, <3>3, <3>4, <3>5, <3>6 DEF RowInArray
  <2>3. QED
    BY <2>1, <2>2
<1>11. QED
  BY <1>10 DEF InArray, RowInArray

LEMMA InArrayNext ==
  ASSUME StreamStep, Orders, ArrayAt, Diagonals, Skews, InArray, [Next]_vars PROVE InArray'
<1>0. EngineTypes
  BY DEF StreamStep
<1>1. CASE ArrayShift
  BY <1>1, InArrayShift
<1>2. CASE StageCommand("array_gemm")
  BY <1>2, InArrayCommand
<1>3. CASE ~ ArrayShift /\ ~ StageCommand("array_gemm")
  <2>1. UNCHANGED a_reg
    BY <1>0, <1>3, SkewSteps DEF skewVars, GemmWrite, ArrayReadA, StageWrite, SkewShift, logicVars
  <2>2. stage'["array_gemm"].cmd = stage["array_gemm"].cmd /\ stage'["array_gemm"].row = stage["array_gemm"].row
    BY <1>0, <1>3, ArrayStageSteps, ReadsA
  <2>3. QED
    BY <2>1, <2>2, InArrayFrame
<1>4. QED
  BY <1>1, <1>2, <1>3

-----------------------------------------------------------------------------
(* The drains *)

(* What the drain side's invariants speak of *)
drainSide ==
  <<drain, last_drain_completed_id, cmd["drain_cmd"], cmd["scaler_cmd"], stage["array_drain"],
    stage["scaler"], chan["pe_array_to_scaler"], chan["scaler_to_c"]>>

LEMMA ScalerScales ==
  ASSUME EngineTypes, ScalerScale
  PROVE  /\ stage["scaler"].held = << >> /\ chan["pe_array_to_scaler"] # << >>
         /\ stage["scaler"].row < stage["scaler"].cmd.rows
         /\ stage'["scaler"].held =
              <<[acc |-> Head(chan["pe_array_to_scaler"]), scale_factor |-> stage["scaler"].cmd.id]>>
         /\ stage'["scaler"].cmd = stage["scaler"].cmd /\ stage'["scaler"].row = stage["scaler"].row
         /\ \A t \in Stages \ {"scaler"} : stage'[t] = stage[t]
         /\ chan'["pe_array_to_scaler"] = << >>
         /\ \A c \in Chans \ {"pe_array_to_scaler"} : chan'[c] = chan[c]
         /\ UNCHANGED <<issued, execVars, cmd, logicVars, C, sleep>>
<1>1. SetStage("scaler", stage["scaler"].cmd, stage["scaler"].row,
               <<[acc |-> Head(chan["pe_array_to_scaler"]), scale_factor |-> stage["scaler"].cmd.id]>>)
  BY HeldSet DEF ScalerScale, Stages
<1>2. SetChan("pe_array_to_scaler", << >>)
  BY ChanSet, Singles DEF ScalerScale, Chans
<1>3. QED
  BY <1>1, <1>2 DEF ScalerScale, InRowLoop, SetStage, SetChan

LEMMA ShiftsOut ==
  ASSUME EngineTypes, ArrayShiftOut
  PROVE  /\ stage["array_drain"].held = << >>
         /\ stage["array_drain"].row < stage["array_drain"].cmd.rows
         /\ stage'["array_drain"].held =
              <<psum[stage["array_drain"].cmd.psum_index][stage["array_drain"].row]>>
         /\ stage'["array_drain"].cmd = stage["array_drain"].cmd
         /\ stage'["array_drain"].row = stage["array_drain"].row
         /\ \A t \in Stages \ {"array_drain"} : stage'[t] = stage[t]
         /\ UNCHANGED <<issued, execVars, chan, cmd, regs, a_reg, b_reg, C, sleep>>
<1>1. SetStage("array_drain", stage["array_drain"].cmd, stage["array_drain"].row,
               <<psum[stage["array_drain"].cmd.psum_index][stage["array_drain"].row]>>)
  BY HeldSet, Zenon DEF ArrayShiftOut, Stages
<1>2. QED
  BY <1>1 DEF ArrayShiftOut, InRowLoop, SetStage

LEMMA DrainSideSteps ==
  ASSUME EngineTypes, [Next]_vars
  PROVE  \/ UNCHANGED drainSide
         \/ DrainThread \/ ArrayShiftOut \/ ScalerScale
         \/ \E s \in {"array_drain", "scaler"} : StageCommand(s) \/ StageWrite(s)
<1>1. CASE Issue \/ GemmDequeue \/ GemmRow \/ GemmEnd \/ Tick \/ UNCHANGED vars
  <2>1. UNCHANGED <<drain, last_drain_completed_id, cmd, stage, chan>>
    BY <1>1 DEF Issue, GemmDequeue, GemmRow, GemmEnd, Tick, vars, execVars, drainVars
  <2>2. QED
    BY <2>1 DEF drainSide
<1>2. CASE GemmCommand
  <2>1. UNCHANGED <<drain, last_drain_completed_id, stage, chan>>
    BY <1>2 DEF GemmCommand, drainVars
  <2>2. UNCHANGED <<cmd["drain_cmd"], cmd["scaler_cmd"]>>
    BY <1>2 DEF GemmCommand, EngineTypes, Cmds
  <2>3. QED
    BY <2>1, <2>2 DEF drainSide
<1>3. CASE GemmWrite
  <2>1. UNCHANGED <<drain, last_drain_completed_id, stage, cmd>>
    BY <1>3 DEF GemmWrite, drainVars
  <2>2. UNCHANGED <<chan["pe_array_to_scaler"], chan["scaler_to_c"]>>
    BY <1>3 DEF GemmWrite, EngineTypes, Chans
  <2>3. QED
    BY <2>1, <2>2 DEF drainSide
<1>4. CASE ArrayReadA \/ ArrayShift
  <2>1. UNCHANGED <<drain, last_drain_completed_id, cmd>>
    BY <1>4 DEF ArrayReadA, ArrayShift, execVars
  <2>2. UNCHANGED <<chan["pe_array_to_scaler"], chan["scaler_to_c"]>>
    BY <1>4 DEF ArrayReadA, ArrayShift, EngineTypes, Chans
  <2>3. UNCHANGED <<stage["array_drain"], stage["scaler"]>>
    BY <1>4, ReadsA, ShiftsIn DEF Stages
  <2>4. QED
    BY <2>1, <2>2, <2>3 DEF drainSide
<1>5. ASSUME NEW s \in Stages \ {"array_drain", "scaler"}, StageThread(s) PROVE UNCHANGED drainSide
  <2>1. UNCHANGED <<drain, last_drain_completed_id>>
    BY <1>5 DEF StageThread, StageCommand, StageWrite, SkewShift, execVars
  <2>2. CASE StageCommand(s)
    <3>1. CmdOf(s) \notin {"drain_cmd", "scaler_cmd"}
      BY <1>5 DEF CmdOf, Stages
    <3>2. UNCHANGED chan
      BY <2>2 DEF StageCommand
    <3>3. QED
      BY <1>5, <2>1, <2>2, <3>1, <3>2, CommandTaken DEF drainSide, Stages, Cmds
  <2>3. CASE StageWrite(s)
    <3>1. s # "array_gemm"
      BY <2>3 DEF StageWrite
    <3>2. OutputOf(s) \notin {"pe_array_to_scaler", "scaler_to_c"}
      BY <1>5, <3>1 DEF OutputOf, Stages
    <3>3. UNCHANGED cmd
      BY <2>3 DEF StageWrite
    <3>4. QED
      BY <1>5, <2>1, <2>3, <3>2, <3>3, PassedOn DEF drainSide, Stages, Chans
  <2>4. CASE SkewShift(s)
    <3>1. InputOf(s) \notin {"pe_array_to_scaler", "scaler_to_c"} /\ UNCHANGED cmd
      BY <2>4, Wiring DEF SkewShift
    <3>2. UNCHANGED <<chan["pe_array_to_scaler"], chan["scaler_to_c"]>>
      BY <2>4, <3>1 DEF SkewShift, EngineTypes, Chans
    <3>3. UNCHANGED <<stage["array_drain"], stage["scaler"]>>
      BY <1>5, <2>4, Shifts DEF Stages
    <3>4. QED
      BY <2>1, <3>1, <3>2, <3>3 DEF drainSide
  <2>5. QED
    BY <1>5, <2>2, <2>3, <2>4 DEF StageThread
<1>6. ASSUME NEW s \in {"array_drain", "scaler"}, StageThread(s)
      PROVE  StageCommand(s) \/ StageWrite(s)
  BY <1>6 DEF StageThread, SkewShift
<1>7. QED
  BY <1>1, <1>2, <1>3, <1>4, <1>5, <1>6 DEF Next, Step, GemmThread, ArrayThreads

(* The fields of drain after each step of drain_thread *)
LEMMA DrainFields ==
  ASSUME EngineTypes, DrainPlace, DrainThread
  PROVE  \/ /\ DrainDequeue /\ drain.step = "dequeue" /\ drain'.step = "drain_cmd" /\ drain'.row = 0
            /\ drain'.id = Head(drain_instr_queue) /\ drain'.id \in Drains
            /\ UNCHANGED last_drain_completed_id
         \/ /\ DrainCommand /\ drain.step = "drain_cmd" /\ drain'.step = "scaler_cmd"
            /\ drain'.row = 0 /\ drain.row = 0 /\ drain'.id = drain.id /\ drain.id \in Drains
            /\ UNCHANGED last_drain_completed_id
         \/ /\ DrainCommand /\ drain.step = "scaler_cmd" /\ drain'.step = "scaler_to_c"
            /\ drain'.row = 0 /\ drain.row = 0 /\ drain'.id = drain.id /\ drain.id \in Drains
            /\ UNCHANGED last_drain_completed_id
         \/ /\ DrainRow /\ drain.step = "scaler_to_c" /\ drain'.step = "c_done"
            /\ drain'.row = drain.row /\ drain'.id = drain.id /\ drain.id \in Drains
            /\ UNCHANGED last_drain_completed_id
         \/ /\ DrainNext /\ drain.step = "c_done" /\ drain'.step = "scaler_to_c"
            /\ drain'.row = drain.row + 1 /\ drain.row + 1 < DIM /\ drain'.id = drain.id
            /\ drain.id \in Drains /\ UNCHANGED last_drain_completed_id
         \/ /\ DrainNext /\ drain.step = "c_done" /\ drain' = Idle /\ drain.row + 1 = DIM
            /\ last_drain_completed_id' = drain.id /\ drain.id \in Drains
<1>0. drain \in [id : Drains \cup {0}, row : Nat, step : DrainSteps]
  BY DEF EngineTypes
<1>1. CASE DrainDequeue
  <2>1. Head(drain_instr_queue) \in Drains
    BY <1>1 DEF DrainDequeue, EngineTypes
  <2>2. QED
    BY <1>1, <2>1 DEF DrainDequeue
<1>2. CASE DrainCommand
  <2>1. drain.id \in Drains /\ drain.row = 0 /\ drain.step \in {"drain_cmd", "scaler_cmd"}
    BY <1>0, <1>2 DEF DrainCommand, DrainPlace
  <2>2. QED
    BY <1>0, <1>2, <2>1 DEF DrainCommand
<1>3. CASE DrainRow
  <2>1. drain.id \in Drains
    BY <1>0, <1>3 DEF DrainRow, DrainPlace
  <2>2. QED
    BY <1>0, <1>3, <2>1 DEF DrainRow
<1>4. CASE DrainNext
  <2>1. drain.id \in Drains /\ drain.step = "c_done"
    BY <1>0, <1>4 DEF DrainNext, DrainPlace
  <2>2. CASE drain.row + 1 = DIM
    <3>1. drain' = Idle /\ last_drain_completed_id' = drain.id
      BY <1>4, <2>2, SizeAssumption DEF DrainNext
    <3>2. QED
      BY <1>4, <2>1, <2>2, <3>1
  <2>3. CASE drain.row + 1 # DIM
    <3>1. /\ drain.row + 1 < DIM /\ drain' = [drain EXCEPT !.row = @ + 1, !.step = "scaler_to_c"]
          /\ UNCHANGED last_drain_completed_id
      BY <1>4, <2>3 DEF DrainNext
    <3>2. QED
      BY <1>0, <1>4, <2>1, <3>1
  <2>4. QED
    BY <2>2, <2>3
<1>5. QED
  BY <1>1, <1>2, <1>3, <1>4 DEF DrainThread

(* What the counts are of *)
LEMMA DrainCounts ==
  ASSUME EngineTypes
  PROVE  /\ Left("array_drain") \in Nat /\ Left("scaler") \in Nat
         /\ Ordered("drain_cmd") \in Nat /\ Ordered("scaler_cmd") \in Nat
         /\ \A q : Full(q) \in 0 .. 1
         /\ drain.row \in Nat /\ DIM \in Nat /\ DIM >= 2
<1>1. Left("array_drain") \in Nat /\ Left("scaler") \in Nat
  BY StageTypesOf DEF Stages
<1>2. Ordered("drain_cmd") \in Nat /\ Ordered("scaler_cmd") \in Nat
  BY DEF EngineTypes, Ordered, Commands, Cmds
<1>3. QED
  BY <1>1, <1>2, Singles, SizeAssumption DEF EngineTypes

drainCounts ==
  <<Left("array_drain"), Left("scaler"), Ordered("drain_cmd"), Ordered("scaler_cmd"),
    Full(chan["pe_array_to_scaler"]), Full(stage["scaler"].held), Full(chan["scaler_to_c"])>>

LEMMA DrainBalancedFrame ==
  ASSUME DrainBalanced, UNCHANGED drain, UNCHANGED drainCounts
  PROVE  DrainBalanced'
<1>1. \A steps : ToRead(steps)' = ToRead(steps)
  BY DEF ToRead
<1>2. QED
  BY <1>1 DEF DrainBalanced, drainCounts

(* The command that drain_thread gives *)
LEMMA DrainCommandGiven ==
  ASSUME EngineTypes, DrainPlace, DrainCommand
  PROVE  /\ drain.step \in {"drain_cmd", "scaler_cmd"}
         /\ \A c \in Cmds : cmd'[c] = IF c = drain.step THEN <<DrainCmd(drain.id)>> ELSE cmd[c]
         /\ \A c \in Cmds : c = drain.step => Ordered(c) = 0 /\ Ordered(c)' = DIM
         /\ \A c \in Cmds : c # drain.step => Ordered(c)' = Ordered(c)
         /\ UNCHANGED <<issued, gemmVars, drain_instr_queue, last_drain_completed_id, C,
                        chan, stage, logicVars, sleep>>
<1>1. /\ drain.step \in {"drain_cmd", "scaler_cmd"}
      /\ cmd' = [cmd EXCEPT ![drain.step] = <<DrainCmd(drain.id)>>] /\ cmd[drain.step] = << >>
  BY DEF DrainCommand
<1>2. \A c \in Cmds : cmd'[c] = IF c = drain.step THEN <<DrainCmd(drain.id)>> ELSE cmd[c]
  BY <1>1 DEF EngineTypes
<1>3. <<DrainCmd(drain.id)>> # << >> /\ Head(<<DrainCmd(drain.id)>>).rows = DIM
  BY DEF DrainCmd
<1>4. \A c \in Cmds : c = drain.step => Ordered(c) = 0 /\ Ordered(c)' = DIM
  BY <1>1, <1>2, <1>3 DEF Ordered
<1>5. \A c \in Cmds : c # drain.step => Ordered(c)' = Ordered(c)
  BY <1>2 DEF Ordered
<1>6. QED
  BY <1>1, <1>2, <1>4, <1>5 DEF DrainCommand

LEMMA DrainBalancedNext == StreamStep /\ DrainPlace /\ DrainBalanced /\ [Next]_vars => DrainBalanced'
<1> SUFFICES ASSUME StreamStep, DrainPlace, DrainBalanced, [Next]_vars PROVE DrainBalanced'
  OBVIOUS
<1>0. EngineTypes
  BY DEF StreamStep
<1>1. /\ Left("array_drain") \in Nat /\ Left("scaler") \in Nat
      /\ Ordered("drain_cmd") \in Nat /\ Ordered("scaler_cmd") \in Nat
      /\ \A q : Full(q) \in 0 .. 1
      /\ drain.row \in Nat /\ DIM \in Nat /\ DIM >= 2
  BY <1>0, DrainCounts
<1>2. /\ Left("array_drain") + Ordered("drain_cmd") + Full(chan["pe_array_to_scaler"])
           + Full(stage["scaler"].held) + Full(chan["scaler_to_c"])
         = ToRead({"scaler_cmd", "scaler_to_c", "c_done"})
      /\ Left("scaler") + Ordered("scaler_cmd") + Full(chan["scaler_to_c"])
         = ToRead({"scaler_to_c", "c_done"})
  BY DEF DrainBalanced
<1>3. Full(<< >>) = 0 /\ \A q : q # << >> => Full(q) = 1
  BY DEF Full
<1>4. CASE UNCHANGED drainSide
  BY <1>4, DrainBalancedFrame DEF drainSide, drainCounts, Left, Ordered, Full
<1>5. CASE DrainThread
  <2>1. UNCHANGED stage
    BY <1>5 DEF DrainThread, DrainDequeue, DrainCommand, DrainRow, DrainNext
  <2>2. UNCHANGED <<Left("array_drain"), Left("scaler"), Full(stage["scaler"].held)>>
    BY <2>1 DEF Left, Full
  <2>3. CASE DrainCommand
    <3>1. UNCHANGED <<Full(chan["pe_array_to_scaler"]), Full(chan["scaler_to_c"])>>
      BY <2>3 DEF DrainCommand, Full
    <3>2. drain.row = 0 /\ drain'.row = 0
      BY <1>0, <2>3 DEF DrainPlace, DrainCommand, EngineTypes
    <3>3. CASE drain.step = "drain_cmd"
      <4>1. Ordered("drain_cmd") = 0 /\ Ordered("drain_cmd")' = DIM
            /\ Ordered("scaler_cmd")' = Ordered("scaler_cmd")
        BY <1>0, <2>3, <3>3, DrainCommandGiven DEF Cmds
      <4>2. drain'.step = "scaler_cmd"
        BY <1>0, <2>3, <3>3 DEF DrainCommand, EngineTypes
      <4>3. /\ ToRead({"scaler_cmd", "scaler_to_c", "c_done"}) = 0
            /\ ToRead({"scaler_cmd", "scaler_to_c", "c_done"})' = DIM
            /\ ToRead({"scaler_to_c", "c_done"}) = 0
            /\ ToRead({"scaler_to_c", "c_done"})' = 0
        BY <1>1, <3>2, <3>3, <4>2 DEF ToRead
      <4>4. QED
        BY <1>1, <1>2, <2>2, <3>1, <4>1, <4>3 DEF DrainBalanced
    <3>4. CASE drain.step = "scaler_cmd"
      <4>1. Ordered("scaler_cmd") = 0 /\ Ordered("scaler_cmd")' = DIM
            /\ Ordered("drain_cmd")' = Ordered("drain_cmd")
        BY <1>0, <2>3, <3>4, DrainCommandGiven DEF Cmds
      <4>2. drain'.step = "scaler_to_c"
        BY <1>0, <2>3, <3>4 DEF DrainCommand, EngineTypes
      <4>3. /\ ToRead({"scaler_cmd", "scaler_to_c", "c_done"}) = DIM
            /\ ToRead({"scaler_cmd", "scaler_to_c", "c_done"})' = DIM
            /\ ToRead({"scaler_to_c", "c_done"}) = 0
            /\ ToRead({"scaler_to_c", "c_done"})' = DIM
        BY <1>1, <3>2, <3>4, <4>2 DEF ToRead
      <4>4. QED
        BY <1>1, <1>2, <2>2, <3>1, <4>1, <4>3 DEF DrainBalanced
    <3>5. QED
      BY <2>3, <3>3, <3>4 DEF DrainCommand
  <2>4. CASE ~ DrainCommand
    <3>1. UNCHANGED <<Ordered("drain_cmd"), Ordered("scaler_cmd")>>
      BY <1>5, <2>4 DEF DrainThread, DrainDequeue, DrainRow, DrainNext, Ordered
    <3>2. CASE DrainRow
      <4>1. /\ chan["scaler_to_c"] # << >> /\ chan'["scaler_to_c"] = << >>
            /\ chan'["pe_array_to_scaler"] = chan["pe_array_to_scaler"]
        BY <1>0, <3>2 DEF DrainRow, EngineTypes, Chans
      <4>2. /\ Full(chan["scaler_to_c"]) = 1 /\ Full(chan["scaler_to_c"])' = 0
            /\ UNCHANGED Full(chan["pe_array_to_scaler"])
        BY <4>1 DEF Full
      <4>3. /\ drain.step = "scaler_to_c" /\ drain'.step = "c_done" /\ drain'.row = drain.row
            /\ drain.row < DIM
        BY <1>0, <3>2 DEF DrainRow, EngineTypes, DrainPlace
      <4>4. \A steps : {"scaler_to_c", "c_done"} \subseteq steps => ToRead(steps)' = ToRead(steps) - 1
        BY <1>1, <4>3 DEF ToRead
      <4>5. \A steps : {"scaler_to_c", "c_done"} \subseteq steps => ToRead(steps) \in Nat
        BY <1>1, <4>3 DEF ToRead
      <4>6. QED
        <5> DEFINE A == ToRead({"scaler_cmd", "scaler_to_c", "c_done"})
                   B == ToRead({"scaler_to_c", "c_done"})
        <5>1. A' = A - 1 /\ B' = B - 1 /\ A \in Nat /\ B \in Nat
          BY <4>4, <4>5
        <5> HIDE DEF A, B
        <5>2. /\ Left("array_drain") + Ordered("drain_cmd") + Full(chan["pe_array_to_scaler"])
                   + Full(stage["scaler"].held) + Full(chan["scaler_to_c"]) = A
              /\ Left("scaler") + Ordered("scaler_cmd") + Full(chan["scaler_to_c"]) = B
          BY <1>2 DEF A, B
        <5>3. /\ Left("array_drain")' + Ordered("drain_cmd")' + Full(chan["pe_array_to_scaler"])'
                   + Full(stage["scaler"].held)' + Full(chan["scaler_to_c"])' = A'
              /\ Left("scaler")' + Ordered("scaler_cmd")' + Full(chan["scaler_to_c"])' = B'
          BY <1>1, <2>2, <3>1, <4>2, <5>1, <5>2
        <5>4. QED
          BY <5>3 DEF DrainBalanced, A, B
    <3>3. CASE ~ DrainRow
      <4>1. UNCHANGED chan
        BY <1>5, <2>4, <3>3 DEF DrainThread, DrainDequeue, DrainNext
      <4>2. UNCHANGED <<Full(chan["pe_array_to_scaler"]), Full(chan["scaler_to_c"])>>
        BY <4>1 DEF Full
      <4>3. \A steps \in {{"scaler_cmd", "scaler_to_c", "c_done"}, {"scaler_to_c", "c_done"}} :
              ToRead(steps)' = ToRead(steps)
        <5>1. CASE drain.step = "dequeue" /\ drain'.step = "drain_cmd"
          BY <5>1 DEF ToRead
        <5>2. CASE drain.step = "c_done" /\ drain'.step = "scaler_to_c" /\ drain'.row = drain.row + 1
                   /\ drain.row + 1 < DIM
          BY <1>1, <5>2 DEF ToRead
        <5>3. CASE drain.step = "c_done" /\ drain' = Idle /\ drain.row + 1 = DIM
          BY <1>1, <5>3 DEF ToRead, Idle
        <5>4. QED
          BY <1>0, <1>5, <2>4, <3>3, <5>1, <5>2, <5>3, DrainFields
      <4>4. QED
        BY <1>2, <2>2, <3>1, <4>2, <4>3 DEF DrainBalanced
    <3>4. QED
      BY <3>2, <3>3
  <2>5. QED
    BY <2>3, <2>4
<1>6. CASE ~ DrainThread /\ ~ UNCHANGED drainSide
  <2> DEFINE A == ToRead({"scaler_cmd", "scaler_to_c", "c_done"})
             B == ToRead({"scaler_to_c", "c_done"})
  <2>1. UNCHANGED drain
    BY <1>6, WhoseStep DEF Issue, execVars, drainVars
  <2>2. UNCHANGED <<A, B>>
    BY <2>1 DEF ToRead
  <2> HIDE DEF A, B
  <2>3. /\ Left("array_drain") + Ordered("drain_cmd") + Full(chan["pe_array_to_scaler"])
             + Full(stage["scaler"].held) + Full(chan["scaler_to_c"]) = A
        /\ Left("scaler") + Ordered("scaler_cmd") + Full(chan["scaler_to_c"]) = B
    BY <1>2 DEF A, B
  <2>4. SUFFICES /\ Left("array_drain")' + Ordered("drain_cmd")' + Full(chan["pe_array_to_scaler"])'
                      + Full(stage["scaler"].held)' + Full(chan["scaler_to_c"])' = A
                 /\ Left("scaler")' + Ordered("scaler_cmd")' + Full(chan["scaler_to_c"])' = B
    BY <2>2 DEF DrainBalanced, A, B
  <2>5. CASE ArrayShiftOut
    <3>1. UNCHANGED drainCounts
      BY <1>0, <2>5, ShiftsOut DEF drainCounts, Left, Ordered, Full, Stages
    <3>2. QED
      BY <2>3, <3>1 DEF drainCounts
  <2>6. CASE ScalerScale
    <3>1. UNCHANGED <<Left("array_drain"), Left("scaler"), Ordered("drain_cmd"), Ordered("scaler_cmd")>>
      BY <1>0, <2>6, ScalerScales DEF Left, Ordered, Stages
    <3>2. UNCHANGED Full(chan["scaler_to_c"])
      BY <1>0, <2>6, ScalerScales DEF Full, Chans
    <3>3. /\ Full(chan["pe_array_to_scaler"]) = 1 /\ Full(chan["pe_array_to_scaler"])' = 0
          /\ Full(stage["scaler"].held) = 0 /\ Full(stage["scaler"].held)' = 1
      BY <1>0, <2>6, ScalerScales, Singles DEF Full
    <3>4. QED
      BY <1>1, <2>3, <3>1, <3>2, <3>3
  <2>7. CASE StageCommand("array_drain")
    <3>1. /\ Left("array_drain") = 0 /\ Left("array_drain")' = Ordered("drain_cmd")
          /\ Ordered("drain_cmd")' = 0
          /\ stage'["scaler"] = stage["scaler"] /\ cmd'["scaler_cmd"] = cmd["scaler_cmd"]
      BY <1>0, <2>7, CommandTaken, Wiring DEF Stages, Cmds
    <3>2. UNCHANGED <<Left("scaler"), Ordered("scaler_cmd"), Full(chan["pe_array_to_scaler"]),
                      Full(stage["scaler"].held), Full(chan["scaler_to_c"])>>
      BY <2>7, <3>1 DEF StageCommand, Left, Ordered, Full
    <3>3. QED
      BY <1>1, <2>3, <3>1, <3>2
  <2>8. CASE StageCommand("scaler")
    <3>1. /\ Left("scaler") = 0 /\ Left("scaler")' = Ordered("scaler_cmd")
          /\ Ordered("scaler_cmd")' = 0 /\ stage["scaler"].held = << >> /\ stage'["scaler"].held = << >>
          /\ stage'["array_drain"] = stage["array_drain"] /\ cmd'["drain_cmd"] = cmd["drain_cmd"]
      BY <1>0, <2>8, CommandTaken, Wiring DEF Stages, Cmds
    <3>2. UNCHANGED <<Left("array_drain"), Ordered("drain_cmd"), Full(chan["pe_array_to_scaler"]),
                      Full(stage["scaler"].held), Full(chan["scaler_to_c"])>>
      BY <2>8, <3>1 DEF StageCommand, Left, Ordered, Full
    <3>3. QED
      BY <1>1, <2>3, <3>1, <3>2
  <2>9. CASE StageWrite("array_drain")
    <3>1. /\ Left("array_drain")' = Left("array_drain") - 1
          /\ chan["pe_array_to_scaler"] = << >> /\ chan'["pe_array_to_scaler"] # << >>
          /\ stage'["scaler"] = stage["scaler"] /\ chan'["scaler_to_c"] = chan["scaler_to_c"]
      BY <1>0, <2>9, PassedOn, Wiring DEF Stages, Chans
    <3>2. UNCHANGED <<Left("scaler"), Ordered("drain_cmd"), Ordered("scaler_cmd"),
                      Full(stage["scaler"].held), Full(chan["scaler_to_c"])>>
      BY <2>9, <3>1 DEF StageWrite, Left, Ordered, Full
    <3>3. Full(chan["pe_array_to_scaler"]) = 0 /\ Full(chan["pe_array_to_scaler"])' = 1
      BY <3>1 DEF Full
    <3>4. QED
      BY <1>1, <2>3, <3>1, <3>2, <3>3
  <2>10. CASE StageWrite("scaler")
    <3>1. /\ Left("scaler")' = Left("scaler") - 1
          /\ stage["scaler"].held # << >> /\ stage'["scaler"].held = << >>
          /\ chan["scaler_to_c"] = << >> /\ chan'["scaler_to_c"] # << >>
          /\ stage'["array_drain"] = stage["array_drain"]
          /\ chan'["pe_array_to_scaler"] = chan["pe_array_to_scaler"]
      BY <1>0, <2>10, PassedOn, Wiring DEF Stages, Chans
    <3>2. UNCHANGED <<Left("array_drain"), Ordered("drain_cmd"), Ordered("scaler_cmd"),
                      Full(chan["pe_array_to_scaler"])>>
      BY <2>10, <3>1 DEF StageWrite, Left, Ordered, Full
    <3>3. /\ Full(chan["scaler_to_c"]) = 0 /\ Full(chan["scaler_to_c"])' = 1
          /\ Full(stage["scaler"].held) = 1 /\ Full(stage["scaler"].held)' = 0
      BY <3>1 DEF Full
    <3>4. QED
      BY <1>1, <2>3, <3>1, <3>2, <3>3
  <2>11. QED
    BY <1>0, <1>6, <2>5, <2>6, <2>7, <2>8, <2>9, <2>10, DrainSideSteps
<1>7. QED
  BY <1>4, <1>5, <1>6

(* The drain's commands are gone by the time it is through. *)
LEMMA DrainCommandsGone ==
  ASSUME StreamStep, DrainPlace, DrainBalanced, DrainAt, drain.step = "c_done", drain.row + 1 = DIM
  PROVE  /\ cmd["drain_cmd"] = << >> /\ cmd["scaler_cmd"] = << >>
         /\ Left("array_drain") = 0 /\ Left("scaler") = 0
         /\ chan["pe_array_to_scaler"] = << >> /\ chan["scaler_to_c"] = << >>
         /\ stage["scaler"].held = << >>
         /\ stage["array_drain"].cmd.id = drain.id /\ stage["scaler"].cmd.id = drain.id
<1>0. EngineTypes
  BY DEF StreamStep
<1>1. /\ Left("array_drain") \in Nat /\ Left("scaler") \in Nat
      /\ Ordered("drain_cmd") \in Nat /\ Ordered("scaler_cmd") \in Nat
      /\ \A q : Full(q) \in 0 .. 1
      /\ drain.row \in Nat /\ DIM \in Nat /\ DIM >= 2
  BY <1>0, DrainCounts
<1>2. ToRead({"scaler_cmd", "scaler_to_c", "c_done"}) = 0 /\ ToRead({"scaler_to_c", "c_done"}) = 0
  BY <1>1 DEF ToRead
<1>3. /\ Left("array_drain") = 0 /\ Left("scaler") = 0
      /\ Ordered("drain_cmd") = 0 /\ Ordered("scaler_cmd") = 0
      /\ Full(chan["pe_array_to_scaler"]) = 0 /\ Full(chan["scaler_to_c"]) = 0
      /\ Full(stage["scaler"].held) = 0
  BY <1>1, <1>2 DEF DrainBalanced
<1>4. cmd["drain_cmd"] = << >> /\ cmd["scaler_cmd"] = << >>
  BY <1>1, <1>3 DEF DrainAt, CommandAt, Ordered, DrainCmd
<1>5. QED
  BY <1>3, <1>4, Singles DEF DrainAt, CommandAt

(* Where the array's drain thread and the scaler are in the program *)
LEMMA CommandAtNext ==
  ASSUME StreamStep, DrainPlace, DrainBalanced, DrainAt, [Next]_vars,
         NEW s \in {"array_drain", "scaler"}, NEW c \in Cmds, c = CmdOf(s), NEW steps,
         steps = IF s = "array_drain" THEN {"dequeue", "drain_cmd"}
                                      ELSE {"dequeue", "drain_cmd", "scaler_cmd"}
  PROVE  CommandAt(c, s, steps)'
<1>0. EngineTypes /\ s \in Stages /\ c \in {"drain_cmd", "scaler_cmd"}
      /\ (s = "array_drain" <=> c = "drain_cmd")
  BY Wiring DEF StreamStep, Stages
<1>1. CommandAt(c, s, steps)
  <2>1. s = "array_drain" => CommandAt("drain_cmd", "array_drain", {"dequeue", "drain_cmd"})
    BY DEF DrainAt
  <2>2. s = "scaler" => CommandAt("scaler_cmd", "scaler", {"dequeue", "drain_cmd", "scaler_cmd"})
    BY DEF DrainAt
  <2>3. QED
    BY <1>0, <2>1, <2>2
<1>2. CASE UNCHANGED <<drain.step, drain.id, last_drain_completed_id, cmd[c], stage[s].cmd>>
  BY <1>1, <1>2 DEF CommandAt
<1>3. CASE StageCommand(s)
  <2>1. /\ cmd[c] # << >> /\ cmd'[c] = << >> /\ stage'[s].cmd = Head(cmd[c])
    BY <1>0, <1>3, CommandTaken
  <2>2. UNCHANGED <<drain, last_drain_completed_id>>
    BY <1>3 DEF StageCommand, execVars
  <2>3. drain.step \notin steps /\ Head(cmd[c]) = DrainCmd(drain.id) /\ drain.id # 0
    BY <1>1, <2>1 DEF CommandAt, DrainPlace
  <2>4. stage'[s].cmd.id = drain.id
    BY <2>1, <2>3 DEF DrainCmd
  <2>5. QED
    BY <2>1, <2>2, <2>3, <2>4 DEF CommandAt
<1>4. CASE DrainThread
  <2>1. UNCHANGED stage
    BY <1>4 DEF DrainThread, DrainDequeue, DrainCommand, DrainRow, DrainNext
  <2>2. CASE DrainDequeue /\ drain.step = "dequeue" /\ drain'.step = "drain_cmd"
             /\ UNCHANGED last_drain_completed_id
    <3>1. UNCHANGED cmd /\ drain.step \in steps /\ drain'.step \in steps
      BY <2>2 DEF DrainDequeue
    <3>2. QED
      BY <1>1, <2>1, <2>2, <3>1 DEF CommandAt
  <2>3. CASE /\ DrainCommand /\ drain.step = c /\ drain'.step \notin steps
             /\ drain'.id = drain.id /\ UNCHANGED last_drain_completed_id
    <3>1. cmd'[c] = <<DrainCmd(drain.id)>>
      BY <1>0, <2>3, DrainCommandGiven
    <3>2. Head(<<DrainCmd(drain.id)>>) = DrainCmd(drain.id) /\ <<DrainCmd(drain.id)>> # << >>
      OBVIOUS
    <3>3. drain.step \in steps
      BY <1>0, <2>3
    <3>4. QED
      BY <1>1, <2>1, <2>3, <3>1, <3>2, <3>3 DEF CommandAt
  <2>4. CASE /\ UNCHANGED <<cmd[c], drain.id, last_drain_completed_id>>
             /\ (drain.step \in steps <=> drain'.step \in steps)
    BY <1>1, <2>1, <2>4 DEF CommandAt
  <2>5. CASE DrainNext /\ drain.step = "c_done" /\ drain' = Idle /\ drain.row + 1 = DIM
             /\ last_drain_completed_id' = drain.id
    <3>1. cmd[c] = << >> /\ stage[s].cmd.id = drain.id /\ UNCHANGED cmd
      BY <1>0, <2>5, DrainCommandsGone DEF DrainNext
    <3>2. drain'.step \in steps
      BY <2>5 DEF Idle
    <3>3. QED
      BY <1>1, <2>1, <2>5, <3>1, <3>2 DEF CommandAt
  <2>6. DrainCommand /\ drain.step # c => UNCHANGED cmd[c]
    BY <1>0, DrainCommandGiven
  <2>7. DrainRow \/ DrainNext => UNCHANGED cmd[c]
    BY DEF DrainRow, DrainNext
  <2>8. QED
    BY <1>0, <1>4, <2>2, <2>3, <2>4, <2>5, <2>6, <2>7, DrainFields
<1>5. CASE ~ DrainThread /\ ~ StageCommand(s) /\ ~ UNCHANGED drainSide
  <2>1. UNCHANGED <<drain, last_drain_completed_id>>
    BY <1>5, WhoseStep DEF Issue, execVars, drainVars
  <2>2. CASE ArrayShiftOut \/ ScalerScale
    BY <1>0, <1>2, <2>1, <2>2, ShiftsOut, ScalerScales DEF Stages
  <2>3. ASSUME NEW t \in {"array_drain", "scaler"}, StageCommand(t) PROVE CommandAt(c, s, steps)'
    <3>1. t # s /\ t \in Stages /\ CmdOf(t) # c
      BY <1>0, <1>5, <2>3, Wiring DEF Stages
    <3>2. UNCHANGED <<stage[s], cmd[c]>>
      BY <1>0, <2>3, <3>1, CommandTaken
    <3>3. QED
      BY <1>2, <2>1, <3>2
  <2>4. ASSUME NEW t \in {"array_drain", "scaler"}, StageWrite(t) PROVE CommandAt(c, s, steps)'
    <3>1. UNCHANGED <<stage[s].cmd, cmd>>
      BY <1>0, <2>4, PassedOn DEF Stages, StageWrite
    <3>2. QED
      BY <1>2, <2>1, <3>1
  <2>5. QED
    BY <1>0, <1>5, <2>2, <2>3, <2>4, DrainSideSteps
<1>6. CASE UNCHANGED drainSide
  <2>1. UNCHANGED <<cmd[c], stage[s], drain, last_drain_completed_id>>
    BY <1>0, <1>6 DEF drainSide
  <2>2. QED
    BY <1>2, <2>1
<1>7. QED
  BY <1>3, <1>4, <1>5, <1>6

LEMMA DrainAtNext == StreamStep /\ DrainPlace /\ DrainBalanced /\ DrainAt /\ [Next]_vars => DrainAt'
  BY CommandAtNext, Wiring DEF DrainAt, Cmds

-----------------------------------------------------------------------------
(* What the issuer's waits give *)

(* An injection of a finite set into itself reaches every element. *)
LEMMA FiniteInjection ==
  ASSUME NEW U, NEW f \in Injection(U, U), IsFiniteSet(U)
  PROVE  f \in Surjection(U, U)
  BY FS_Injection

(* A set of numbers has a least one: otherwise the successor function would *)
(* map the numbers below it into, but not onto, themselves.                 *)
LEMMA LeastNumber ==
  ASSUME NEW T \in SUBSET Nat, T # {}
  PROVE  \E m \in T : \A k \in T : m <= k
<1> SUFFICES ASSUME \A m \in T : \E k \in T : k < m PROVE FALSE
  OBVIOUS
<1>1. PICK N \in T : TRUE
  OBVIOUS
<1> DEFINE U == {u \in 0 .. N : \A k \in 0 .. u : k \notin T}
           next == [u \in U |-> u + 1]
<1>2. IsFiniteSet(0 .. N)
  BY FS_Interval
<1>3. IsFiniteSet(U)
  BY <1>2, FS_Subset
<1>4. 0 \in U
  <2>1. 0 \notin T
    OBVIOUS
  <2>2. QED
    BY <2>1
<1>5. ASSUME NEW u \in U PROVE u + 1 \in U
  <2>1. u + 1 \notin T
    <3> SUFFICES ASSUME u + 1 \in T PROVE FALSE
      OBVIOUS
    <3>1. PICK k \in T : k < u + 1
      OBVIOUS
    <3>2. k \in 0 .. u
      BY <3>1
    <3>3. QED
      BY <3>2
  <2>2. u # N
    BY <1>1
  <2>3. QED
    BY <2>1, <2>2
<1>6. next \in Injection(U, U)
  <2>1. next \in [U -> U]
    BY <1>5
  <2>2. \A u, v \in U : next[u] = next[v] => u = v
    OBVIOUS
  <2> HIDE DEF next, U
  <2>3. QED
    BY <2>1, <2>2, Fun_IsInj
<1> HIDE DEF next, U
<1>7. next \in Surjection(U, U)
  BY <1>3, <1>6, FiniteInjection
<1>8. \E u \in U : next[u] = 0
  BY <1>4, <1>7, Fun_SurjectionProperties
<1>9. QED
  BY <1>8 DEF next, U

LEMMA GreatestNumber ==
  ASSUME NEW T, NEW N \in Nat, T \subseteq 0 .. N, T # {}
  PROVE  \E m \in T : \A k \in T : k <= m
<1> DEFINE U == {N - t : t \in T}
<1>1. U \in SUBSET Nat /\ U # {}
  <2>1. \A t \in T : N - t \in Nat
    OBVIOUS
  <2>2. QED
    BY <2>1
<1>2. PICK u \in U : \A k \in U : u <= k
  <2> HIDE DEF U
  <2> QED
    BY <1>1, LeastNumber
<1>3. PICK m \in T : u = N - m
  OBVIOUS
<1>4. ASSUME NEW k \in T PROVE k <= m
  <2>1. N - k \in U
    OBVIOUS
  <2>2. QED
    BY <1>2, <1>3, <2>1
<1>5. QED
  BY <1>4

(* Between a gemm and a drain of its buffer there is a flush. *)
LEMMA FlushBetween ==
  ASSUME NEW g \in Gemms, NEW d \in Drains, g < d, Program[g].psum_index = Program[d].psum_index
  PROVE  \E f \in Gemms : /\ g <= f /\ f < d /\ Program[f].is_flush
                          /\ Program[f].psum_index = Program[d].psum_index
<1> DEFINE S == {h \in Gemms : g <= h /\ h < d /\ Program[h].psum_index = Program[d].psum_index}
<1>1. g \in Nat /\ d \in Nat \ {0} /\ \A h \in Gemms : h \in Nat \ {0}
  BY IdsAreNumbers
<1>2. S \subseteq 0 .. d /\ S # {}
  <2>1. g \in S
    BY <1>1
  <2>2. ASSUME NEW h \in S PROVE h \in 0 .. d
    <3>1. h \in Gemms /\ h < d
      OBVIOUS
    <3>2. QED
      BY <1>1, <3>1
  <2>3. QED
    BY <2>1, <2>2
<1>3. PICK f \in S : \A h \in S : h <= f
  <2> HIDE DEF S
  <2> QED
    BY <1>1, <1>2, GreatestNumber
<1>4. f \in Gemms /\ g <= f /\ f < d /\ Program[f].psum_index = Program[d].psum_index
  OBVIOUS
<1>5. SUFFICES ASSUME ~ Program[f].is_flush PROVE FALSE
  BY <1>4
<1> DEFINE T == {h \in Gemms : f < h /\ h < d}
<1>6. CASE T = {}
  <2>1. NoneBetween(Gemms, f, d)
    BY <1>4, <1>6 DEF NoneBetween
  <2>2. Latest("gemm", d) = f
    BY <1>4, <2>1, LatestIs, IdsAreNumbers DEF Gemms
  <2>3. QED
    BY <1>1, <1>4, <1>5, <2>2, ChainsClosed
<1>7. CASE T # {}
  <2>1. PICK n \in T : \A h \in T : n <= h
    <3>1. T \in SUBSET Nat
      BY <1>1
    <3> HIDE DEF T
    <3>2. QED
      BY <1>7, <3>1, LeastNumber
  <2>2. NoneBetween(Gemms, f, n)
    BY <1>1, <2>1 DEF NoneBetween
  <2>3. Program[n].psum_index = Program[f].psum_index
    BY <1>4, <1>5, <2>1, <2>2, NextInChain
  <2>4. n \in S
    BY <1>1, <1>4, <2>1, <2>3
  <2>5. QED
    BY <1>1, <1>3, <2>1, <2>4
<1>8. QED
  BY <1>6, <1>7

(* All but the sums and the rows drained *)
Placed ==
  /\ StreamStep /\ Orders /\ ArrayAt /\ FlushWaits /\ Diagonals /\ Skews /\ InArray
  /\ DrainPlace /\ DrainBalanced /\ DrainAt

GemmsComplete(d) ==
  \A g \in Gemms : g < d /\ Program[g].psum_index = Program[d].psum_index
                   => g <= last_gemm_completed_id

(* What has been issued has waited for the other kind on its buffer. *)
LEMMA IssuedWaited ==
  ASSUME IssuerWaits, Orders, EngineTypes, NEW id \in Ids, id <= issued, NEW e \in Ids, e < id,
         Program[e].psum_index = Program[id].psum_index, Program[e].op # Program[id].op
  PROVE  is_complete(e)
<1>1. id \in Nat \ {0} /\ e \in Nat \ {0} /\ issued \in Nat
  BY Programs, FrontTypes
<1>2. e \in NoOverlap[id]
  BY <1>1 DEF NoOverlap
<1>3. e \in After[id] /\ id \in 1 .. issued
  BY <1>1, <1>2 DEF IssuerWaits
<1>4. QED
  BY <1>3 DEF Orders, WaitedFor

LEMMA DrainWaited ==
  ASSUME IssuerWaits, Orders, EngineTypes, NEW d \in Drains, d <= issued
  PROVE  GemmsComplete(d)
<1> SUFFICES ASSUME NEW g \in Gemms, g < d, Program[g].psum_index = Program[d].psum_index
             PROVE  g <= last_gemm_completed_id
  BY DEF GemmsComplete
<1>1. g \in Ids /\ d \in Ids /\ Program[g].op = "gemm" /\ Program[d].op = "drain"
  BY DEF Gemms, Drains
<1>2. is_complete(g)
  BY <1>1, IssuedWaited
<1>3. QED
  BY <1>1, <1>2 DEF is_complete, is_gemm_complete

LEMMA GemmWaited ==
  ASSUME IssuerWaits, Orders, EngineTypes, NEW g \in Gemms, g <= issued,
         NEW d \in Drains, d < g, Program[g].psum_index = Program[d].psum_index
  PROVE  d <= last_drain_completed_id
<1>1. g \in Ids /\ d \in Ids /\ Program[g].op = "gemm" /\ Program[d].op = "drain"
  BY DEF Gemms, Drains
<1>2. is_complete(d)
  BY <1>1, IssuedWaited
<1>3. QED
  BY <1>1, <1>2 DEF is_complete, is_drain_complete

(* The array is at the last completed gemm or at the one after it. *)
LEMMA ArrayAfterLast ==
  ASSUME EngineTypes, GemmPlace, Orders, ArrayAt
  PROVE  /\ last_gemm_completed_id <= stage["array_gemm"].cmd.id
         /\ stage["array_gemm"].cmd.id <= issued
<1>1. gemm.id # 0 => last_gemm_completed_id < gemm.id
  BY DEF Orders, GemmsInOrder, NoneBetween
<1>2. GemmFront <= issued
  BY DEF Orders, GemmsInOrder, InOrder
<1>3. last_gemm_completed_id <= GemmFront /\ (gemm.id # 0 => GemmFront = gemm.id)
  BY <1>1, FrontTypes DEF GemmFront
<1>4. gemm.step \notin {"dequeue"} => gemm.id # 0
  BY DEF GemmPlace
<1>5. QED
  BY <1>1, <1>2, <1>3, <1>4, FrontTypes DEF ArrayAt

(* When a drain may begin, its chain is through the array: the flush that  *)
(* closes it is complete.                                                  *)
LEMMA ChainThrough ==
  ASSUME Placed, NEW d \in Drains, GemmsComplete(d), NEW g \in Gemms, ~ IsFlush(g), g < d,
         Program[g].psum_index = Program[d].psum_index
  PROVE  /\ g < stage["array_gemm"].cmd.id
         /\ \A k \in Steps : Hist(k) # ZERO => Hist(k)[1] # g
<1> DEFINE at == stage["array_gemm"]
<1>0. EngineTypes /\ GemmPlace
  BY DEF Placed, StreamStep, InStream
<1>1. PICK f \in Gemms : g <= f /\ f < d /\ Program[f].is_flush
                         /\ Program[f].psum_index = Program[d].psum_index
  BY FlushBetween
<1>2. g \in Nat \ {0} /\ f \in Nat \ {0} /\ IsFlush(f)
  BY <1>1, IdsAreNumbers DEF IsFlush
<1>3. g < f
  BY <1>1, <1>2
<1>4. f <= last_gemm_completed_id
  BY <1>1 DEF GemmsComplete
<1>5. last_gemm_completed_id <= at.cmd.id /\ at.cmd.id \in Nat /\ last_gemm_completed_id \in Nat
  BY <1>0, ArrayAfterLast, ArrayIdTypes, FrontTypes DEF Placed
<1>6. g < at.cmd.id
  BY <1>2, <1>3, <1>4, <1>5
<1>7. ASSUME NEW k \in Steps, Hist(k) # ZERO, Hist(k)[1] = g PROVE FALSE
  <2>1. RowInArray(k)
    BY <1>7, InArrayIs DEF Placed
  <2>2. f >= at.cmd.id /\ (f = at.cmd.id => at.row <= k)
    BY <1>2, <1>3, <1>7, <2>1 DEF RowInArray
  <2>3. f = at.cmd.id /\ f = last_gemm_completed_id
    BY <1>2, <1>4, <1>5, <2>2
  <2>4. Left("array_gemm") = 0
    BY <1>2, <2>3 DEF Placed, FlushWaits
  <2>5. at.cmd = GemmCmd(f) /\ at.row \in Nat /\ at.cmd.rows \in Nat
    BY <1>0, <1>2, <2>3, ArrayIdTypes DEF Placed
  <2>6. at.cmd.rows = 2 * DIM - 2
    BY <1>1, <2>5 DEF GemmCmd, GemmRows
  <2>7. at.row = 2 * DIM - 2
    BY <2>4, <2>5, <2>6 DEF Left
  <2>8. QED
    BY <2>2, <2>3, <2>7, SizeAssumption DEF Steps
<1>8. QED
  BY <1>6, <1>7

(* A row that the array holds or takes in is of no chain drained already. *)
LEMMA NotYetDrained ==
  ASSUME IssuerWaits, Placed, NEW r \in Rows, ~ IsFlush(r[1]),
         r[1] = stage["array_gemm"].cmd.id \/ \E k \in Steps : Hist(k) = r,
         NEW e \in Drains, Program[e].psum_index = Program[r[1]].psum_index, e <= issued
  PROVE  e < r[1]
<1>1. r[1] \in Gemms /\ r[1] \in Nat /\ e \in Nat /\ r # ZERO /\ r[1] # e
  BY RowTypes, IdsAreNumbers
<1>2. SUFFICES ASSUME r[1] < e PROVE FALSE
  BY <1>1
<1>3. GemmsComplete(e)
  BY DrainWaited DEF Placed, StreamStep
<1>4. /\ r[1] < stage["array_gemm"].cmd.id
      /\ \A k \in Steps : Hist(k) # ZERO => Hist(k)[1] # r[1]
  BY <1>1, <1>2, <1>3, ChainThrough
<1>5. QED
  BY <1>1, <1>4

-----------------------------------------------------------------------------
(* The sums in the psum buffers *)

LEMMA BagsAdd ==
  ASSUME NEW S, NEW T, S \cap T = {}
  PROVE  SetToBag(S) (+) SetToBag(T) = SetToBag(S \cup T)
<1> DEFINE x == SetToBag(S)
           y == SetToBag(T)
<1>1. /\ DOMAIN x = S /\ DOMAIN y = T
      /\ (\A e \in S : x[e] = 1) /\ (\A e \in T : y[e] = 1)
  BY DEF SetToBag
<1>2. x (+) y = [e \in S \cup T |-> (IF e \in S THEN x[e] ELSE 0) + (IF e \in T THEN y[e] ELSE 0)]
  BY <1>1 DEF (+)
<1>3. ASSUME NEW e \in S \cup T
      PROVE  (IF e \in S THEN x[e] ELSE 0) + (IF e \in T THEN y[e] ELSE 0) = 1
  <2>1. CASE e \in S
    <3>1. e \notin T
      BY <2>1
    <3>2. x[e] = 1
      BY <2>1 DEF SetToBag
    <3> HIDE DEF x, y
    <3>3. QED
      BY <2>1, <3>1, <3>2
  <2>2. CASE e \in T
    <3>1. e \notin S
      BY <2>2
    <3>2. y[e] = 1
      BY <2>2 DEF SetToBag
    <3> HIDE DEF x, y
    <3>3. QED
      BY <2>2, <3>1, <3>2
  <2>3. QED
    BY <2>1, <2>2
<1> HIDE DEF x, y
<1>4. x (+) y = [e \in S \cup T |-> 1]
  BY <1>2, <1>3
<1>5. QED
  BY <1>4 DEF SetToBag, x, y

LEMMA OnePairMore ==
  ASSUME NEW S, NEW r, r \notin S
  PROVE  Sums(S) (+) SetToBag({<<r, r>>}) = Sums(S \cup {r})
<1>1. {<<q, q>> : q \in S} \cap {<<r, r>>} = {}
  OBVIOUS
<1>2. {<<q, q>> : q \in S} \cup {<<r, r>>} = {<<q, q>> : q \in S \cup {r}}
  OBVIOUS
<1>3. QED
  BY <1>1, <1>2, BagsAdd DEF Sums

(* Who changes what the sums are of *)
LEMMA SumSteps ==
  ASSUME EngineTypes, [Next]_vars
  PROVE  \/ UNCHANGED <<psum, a_reg, stage["array_gemm"].cmd, stage["array_gemm"].row, stage["array_drain"]>>
         \/ ArrayShift \/ ArrayShiftOut
         \/ StageCommand("array_gemm") \/ StageCommand("array_drain") \/ StageWrite("array_drain")
<1> SUFFICES ASSUME ~ ArrayShift, ~ ArrayShiftOut, ~ StageCommand("array_gemm"),
                    ~ StageCommand("array_drain"), ~ StageWrite("array_drain")
             PROVE  UNCHANGED <<psum, a_reg, stage["array_gemm"].cmd, stage["array_gemm"].row,
                                stage["array_drain"]>>
  OBVIOUS
<1>1. UNCHANGED <<stage["array_gemm"].cmd, stage["array_gemm"].row>>
  BY ArrayStageSteps, ReadsA
<1>2. UNCHANGED stage["array_drain"]
  <2>1. DrainThread => UNCHANGED stage
    BY DEF DrainThread, DrainDequeue, DrainCommand, DrainRow, DrainNext
  <2>2. ScalerScale => UNCHANGED stage["array_drain"]
    BY ScalerScales DEF Stages
  <2>3. StageCommand("scaler") \/ StageWrite("scaler") => UNCHANGED stage["array_drain"]
    BY CommandTaken, PassedOn DEF Stages
  <2>4. QED
    BY <2>1, <2>2, <2>3, DrainSideSteps DEF drainSide
<1>3. UNCHANGED <<psum, a_reg>>
  <2>1. CASE Issue \/ GemmThread \/ DrainThread \/ Tick \/ UNCHANGED vars
    BY <2>1 DEF Issue, GemmThread, GemmDequeue, GemmCommand, GemmRow, GemmWrite, GemmEnd,
                DrainThread, DrainDequeue, DrainCommand, DrainRow, DrainNext, Tick, vars, logicVars
  <2>2. CASE ArrayReadA \/ ScalerScale \/ \E s \in Stages : StageThread(s)
    BY <2>2 DEF ArrayReadA, ScalerScale, StageThread, StageCommand, StageWrite, SkewShift, logicVars
  <2>3. QED
    BY <2>1, <2>2 DEF Next, Step, ArrayThreads
<1>4. QED
  BY <1>1, <1>2, <1>3

LEMMA ArrivedKeeps ==
  ASSUME NEW p \in {0, 1}, NEW i \in Lanes,
         \A r \in Rows : ~ IsFlush(r[1]) => (Shifted(r)' <=> Shifted(r)),
         \A e \in Drains : Program[e].psum_index = p => (PassedBy(e, i)' <=> PassedBy(e, i))
  PROVE  Arrived(p, i)' = Arrived(p, i)
  BY DEF Arrived

LEMMA AccumulatedKeeps ==
  ASSUME Accumulated, UNCHANGED <<psum, a_reg>>,
         \A p \in {0, 1}, i \in Lanes : Arrived(p, i)' = Arrived(p, i)
  PROVE  Accumulated'
<1>1. \A n : Behind(n)' = Behind(n)
  BY HistFrame DEF Behind
<1>2. QED
  BY <1>1 DEF Accumulated

LEMMA PassedIssued ==
  ASSUME EngineTypes, DrainPlace, Orders, DrainAt
  PROVE  /\ stage["array_drain"].cmd.id \in Drains \cup {0} /\ stage["array_drain"].cmd.id \in Nat
         /\ last_drain_completed_id <= stage["array_drain"].cmd.id
         /\ stage["array_drain"].cmd.id <= issued
         /\ stage["array_drain"].row \in Nat
         /\ \A e \in Drains : \A i : PassedBy(e, i) => e <= stage["array_drain"].cmd.id /\ e <= issued
<1>1. drain.id # 0 => last_drain_completed_id < drain.id
  BY DEF Orders, DrainsInOrder, NoneBetween
<1>2. DrainFront <= issued
  BY DEF Orders, DrainsInOrder, InOrder
<1>3. last_drain_completed_id <= DrainFront /\ (drain.id # 0 => DrainFront = drain.id)
  BY <1>1, FrontTypes DEF DrainFront
<1>4. drain.step # "dequeue" => drain.id # 0
  BY DEF DrainPlace
<1>5. \/ stage["array_drain"].cmd.id = last_drain_completed_id
      \/ stage["array_drain"].cmd.id = drain.id /\ drain.id # 0
  BY <1>4 DEF DrainAt, CommandAt
<1>6. /\ stage["array_drain"].cmd.id \in Drains \cup {0} /\ stage["array_drain"].cmd.id \in Nat
      /\ last_drain_completed_id <= stage["array_drain"].cmd.id
      /\ stage["array_drain"].cmd.id <= issued
  <2>1. stage["array_drain"].cmd.id \in Drains \cup {0}
    BY <1>5 DEF EngineTypes
  <2>2. /\ last_drain_completed_id \in Nat /\ DrainFront \in Nat /\ drain.id \in Nat /\ issued \in Nat
        /\ stage["array_drain"].cmd.id \in Nat
    <3>1. Drains \cup {0} \subseteq Nat
      BY IdsAreNumbers
    <3>2. stage["array_drain"].cmd.id \in Nat
      BY <2>1, <3>1, Zenon
    <3>3. QED
      BY <3>2, FrontTypes, Zenon
  <2>3. CASE stage["array_drain"].cmd.id = last_drain_completed_id
    BY <1>2, <1>3, <2>1, <2>2, <2>3
  <2>4. CASE stage["array_drain"].cmd.id = drain.id /\ drain.id # 0
    BY <1>1, <1>2, <1>3, <2>1, <2>2, <2>4
  <2>5. QED
    BY <1>5, <2>3, <2>4
<1>7. ASSUME NEW e \in Drains, NEW i, PassedBy(e, i)
      PROVE  e <= stage["array_drain"].cmd.id /\ e <= issued
  <2>1. e \in Nat /\ e <= stage["array_drain"].cmd.id
    BY <1>6, <1>7, IdsAreNumbers DEF PassedBy
  <2>2. QED
    BY <1>6, <2>1, FrontTypes
<1>8. QED
  BY <1>6, <1>7, StageTypesOf DEF Stages

(* The row that a shift takes in *)
LEMMA ShiftTakes ==
  ASSUME StreamStep, ArrayAt, ArrayShift
  PROVE  /\ stage["array_gemm"].cmd.id \in Gemms /\ stage["array_gemm"].cmd.id \in Nat \ {0}
         /\ stage["array_gemm"].row \in Nat
         /\ stage["array_gemm"].cmd.psum_index = Program[stage["array_gemm"].cmd.id].psum_index
         /\ stage["array_gemm"].cmd.psum_index \in {0, 1}
         /\ NextRow = ZERO <=> IsFlush(stage["array_gemm"].cmd.id)
         /\ NextRow # ZERO =>
              NextRow \in Rows /\ NextRow = <<stage["array_gemm"].cmd.id, stage["array_gemm"].row>>
         /\ NextRow \in Rows => ~ Shifted(NextRow)
<1> DEFINE at == stage["array_gemm"]
<1>0. EngineTypes /\ DIM \in Nat
  BY SizeAssumption DEF StreamStep
<1>1. at.row < at.cmd.rows
  BY <1>0, ShiftsIn
<1>2. /\ at.cmd.id \in Gemms /\ at.cmd.id \in Nat \ {0} /\ at.row \in Nat /\ at.cmd.rows = GemmRows(at.cmd.id)
      /\ at.cmd.psum_index = Program[at.cmd.id].psum_index
  <2>1. at.cmd.id # 0
    BY <1>0, <1>1, ArrayIdTypes
  <2>2. QED
    BY <1>0, <2>1, ArrayIdTypes DEF GemmCmd
<1>3. NextRow = RowOf(at.cmd.id, at.row)
  <2>1. Left("array_gemm") > 0
    BY <1>0, <1>1, ArrayIdTypes DEF Left
  <2>2. QED
    BY <2>1 DEF NextRow
<1>4. IsFlush(at.cmd.id) => NextRow = ZERO
  BY <1>3 DEF IsFlush, RowOf
<1>5. ~ IsFlush(at.cmd.id) => NextRow = <<at.cmd.id, at.row>> /\ NextRow \in Rows
  <2>1. SUFFICES ASSUME ~ Program[at.cmd.id].is_flush PROVE NextRow = <<at.cmd.id, at.row>> /\ NextRow \in Rows
    BY <1>2 DEF IsFlush
  <2>2. at.row < DIM
    BY <1>1, <1>2, <2>1 DEF GemmRows
  <2>3. QED
    BY <1>0, <1>2, <1>3, <2>1, <2>2 DEF RowOf, Rows, Lanes
<1>6. \A r \in Rows : r # ZERO
  BY RowTypes
<1>7. NextRow \in Rows => ~ Shifted(NextRow)
  <2> SUFFICES ASSUME NextRow \in Rows, Shifted(NextRow) PROVE FALSE
    OBVIOUS
  <2>1. NextRow[1] = at.cmd.id /\ NextRow[2] = at.row
    BY <1>4, <1>5, <1>6
  <2>2. QED
    BY <1>2, <2>1 DEF Shifted
<1>8. at.cmd.psum_index \in {0, 1}
  BY <1>2, Programs, IdsAreNumbers
<1>9. QED
  BY <1>2, <1>4, <1>5, <1>6, <1>7, <1>8

(* A shift adds the row it takes in to its buffer's chain. *)
LEMMA ArrivedAfterShift ==
  ASSUME IssuerWaits, Placed, ArrayShift, NEW p \in {0, 1}, NEW i \in Lanes
  PROVE  /\ NextRow \notin Arrived(p, i)
         /\ Arrived(p, i)' = IF p = stage["array_gemm"].cmd.psum_index /\ NextRow # ZERO
                             THEN Arrived(p, i) \cup {NextRow} ELSE Arrived(p, i)
<1> DEFINE at == stage["array_gemm"]
<1>0. EngineTypes /\ StreamStep
  BY DEF Placed, StreamStep
<1>1. PICK x : x = NextRow
  OBVIOUS
<1>2. PICK g : g = at.cmd.id
  OBVIOUS
<1>3. /\ g \in Gemms /\ g \in Nat \ {0} /\ at.row \in Nat /\ at.cmd.psum_index = Program[g].psum_index
      /\ x = ZERO <=> IsFlush(g)
      /\ x # ZERO => x \in Rows /\ x = <<g, at.row>>
      /\ x \in Rows => ~ Shifted(x)
  BY <1>0, <1>1, <1>2, ShiftTakes DEF Placed
<1>4. x \notin Arrived(p, i)
  BY <1>3 DEF Arrived
<1>5. /\ stage'["array_gemm"].cmd = at.cmd /\ stage'["array_gemm"].row = at.row + 1
      /\ stage'["array_drain"] = stage["array_drain"]
  BY <1>0, ShiftsIn DEF Stages
<1>6. \A e \in Drains : PassedBy(e, i)' <=> PassedBy(e, i)
  BY <1>5 DEF PassedBy
<1>7. \A r \in Rows : Shifted(r)' <=> Shifted(r) \/ r = <<g, at.row>>
  <2> SUFFICES ASSUME NEW r \in Rows PROVE Shifted(r)' <=> Shifted(r) \/ r = <<g, at.row>>
    OBVIOUS
  <2>1. r = <<r[1], r[2]>> /\ r[1] \in Nat /\ r[2] \in Nat
    BY RowTypes
  <2>2. r = <<g, at.row>> <=> r[1] = g /\ r[2] = at.row
    BY <2>1
  <2>3. r[2] < at.row + 1 <=> r[2] < at.row \/ r[2] = at.row
    BY <1>3, <2>1
  <2>4. QED
    BY <1>2, <1>5, <2>2, <2>3 DEF Shifted
<1>8. CASE x = ZERO \/ p # at.cmd.psum_index
  <2>1. ASSUME NEW r \in Rows, Program[r[1]].psum_index = p, ~ IsFlush(r[1]) PROVE r # <<g, at.row>>
    BY <1>3, <1>8, <2>1
  <2>2. Arrived(p, i)' = Arrived(p, i)
    BY <1>6, <1>7, <2>1 DEF Arrived
  <2>3. QED
    BY <1>1, <1>4, <1>8, <2>2
<1>9. CASE x # ZERO /\ p = at.cmd.psum_index
  <2>1. x \in Rows /\ x = <<g, at.row>> /\ x[1] = g /\ ~ IsFlush(x[1]) /\ Program[x[1]].psum_index = p
    BY <1>3, <1>9
  <2>2. ASSUME NEW e \in Drains, Program[e].psum_index = p, PassedBy(e, i) PROVE e < x[1]
    <3>1. e <= issued
      BY <1>0, <2>2, PassedIssued DEF Placed
    <3>2. QED
      BY <1>2, <2>1, <2>2, <3>1, NotYetDrained
  <2>3. ASSUME NEW r PROVE r \in Arrived(p, i)' <=> r \in Arrived(p, i) \cup {x}
    BY <1>6, <1>7, <2>1, <2>2 DEF Arrived
  <2>4. Arrived(p, i)' = Arrived(p, i) \cup {x}
    BY <2>3
  <2>5. QED
    BY <1>1, <1>4, <1>9, <2>4
<1>10. QED
  BY <1>8, <1>9

(* The rows that have not reached a place move on by one. *)
LEMMA BehindAfterShift ==
  ASSUME StreamStep, Skews, Diagonals, ArrayShift, NEW n \in 0 .. 2 * DIM - 2
  PROVE  Behind(n)' \cup {Hist(n)'} = Behind(n) \cup {NextRow}
<1>1. DIM \in Nat /\ DIM >= 2
  BY SizeAssumption
<1>2. \A k \in 0 .. n : Hist(k)' = IF k = 0 THEN NextRow ELSE Hist(k - 1)
  <2>1. \A k \in 0 .. n : k \in 0 .. 2 * DIM - 2
    BY <1>1
  <2>2. QED
    BY <2>1, HistShifts
<1>3. Behind(n)' \cup {Hist(n)'} = {Hist(k)' : k \in 0 .. n}
  <2>1. 0 .. n = (0 .. n - 1) \cup {n}
    BY <1>1
  <2>2. QED
    BY <2>1 DEF Behind
<1>4. {Hist(k)' : k \in 0 .. n} = {IF k = 0 THEN NextRow ELSE Hist(k - 1) : k \in 0 .. n}
  BY <1>2
<1>5. {IF k = 0 THEN NextRow ELSE Hist(k - 1) : k \in 0 .. n} = Behind(n) \cup {NextRow}
  <2>1. ASSUME NEW k \in 0 .. n
        PROVE  (IF k = 0 THEN NextRow ELSE Hist(k - 1)) \in Behind(n) \cup {NextRow}
    <3>1. k # 0 => k - 1 \in 0 .. n - 1
      BY <1>1
    <3>2. QED
      BY <3>1 DEF Behind
  <2>2. NextRow \in {IF k = 0 THEN NextRow ELSE Hist(k - 1) : k \in 0 .. n}
    <3>1. 0 \in 0 .. n
      BY <1>1
    <3>2. QED
      BY <3>1
  <2>3. ASSUME NEW k \in 0 .. n - 1
        PROVE  Hist(k) \in {IF l = 0 THEN NextRow ELSE Hist(l - 1) : l \in 0 .. n}
    <3>1. PICK l \in 0 .. n : l = k + 1
      BY <1>1
    <3>2. l # 0 /\ l - 1 = k
      BY <3>1
    <3>3. (IF l = 0 THEN NextRow ELSE Hist(l - 1)) = Hist(k)
      BY <3>2
    <3>4. QED
      BY <3>3
  <2>4. QED
    BY <2>1, <2>2, <2>3 DEF Behind
<1>6. QED
  BY <1>3, <1>4, <1>5

(* The row that reaches a place is of the chain and has not been there. *)
LEMMA ReachesOnce ==
  ASSUME IssuerWaits, Placed, ArrayShift, NEW p \in {0, 1}, p = stage["array_gemm"].cmd.psum_index,
         NEW i \in Lanes, NEW n \in 0 .. 2 * DIM - 2, NEW y, y = Hist(n)', y # ZERO
  PROVE  y \in Arrived(p, i)' /\ y \notin Behind(n)'
<1> DEFINE at == stage["array_gemm"]
<1>0. EngineTypes /\ StreamStep /\ DIM \in Nat /\ DIM >= 2
  BY SizeAssumption DEF Placed, StreamStep
<1>1. PICK x : x = NextRow
  OBVIOUS
<1>2. \A k \in 0 .. n : Hist(k)' = IF k = 0 THEN x ELSE Hist(k - 1)
  <2>1. \A k \in 0 .. n : k \in 0 .. 2 * DIM - 2
    BY <1>0
  <2>2. \A k \in 0 .. 2 * DIM - 2 : Hist(k)' = IF k = 0 THEN x ELSE Hist(k - 1)
    BY <1>0, <1>1, HistShifts DEF Placed
  <2>3. QED
    BY <2>1, <2>2
<1>3. \A k \in 0 .. n : k # 0 => k - 1 \in Steps
  BY <1>0 DEF Steps
<1>4. x \notin Arrived(p, i) /\ Arrived(p, i)' = IF x # ZERO THEN Arrived(p, i) \cup {x} ELSE Arrived(p, i)
  BY <1>1, ArrivedAfterShift
<1>5. x \in Rows => ~ Shifted(x)
  BY <1>0, <1>1, ShiftTakes DEF Placed
<1>6. n \in 0 .. n
  BY <1>0
<1>7. y = IF n = 0 THEN x ELSE Hist(n - 1)
  BY <1>2, <1>6
<1>8. CASE n = 0
  <2>1. Behind(n)' = {}
    BY <1>8 DEF Behind
  <2>2. QED
    BY <1>4, <1>7, <1>8, <2>1
<1>9. CASE n # 0
  <2>1. n - 1 \in Steps /\ y = Hist(n - 1)
    BY <1>3, <1>6, <1>7, <1>9
  <2>2. RowInArray(n - 1)
    BY <2>1, InArrayIs DEF Placed
  <2>3. /\ y \in Rows /\ ~ IsFlush(y[1]) /\ Shifted(y) /\ Program[y[1]].psum_index = p
        /\ \A l \in Steps : Hist(l) = y => l = n - 1
    BY <2>1, <2>2 DEF RowInArray
  <2>4. ASSUME NEW e \in Drains, Program[e].psum_index = p, PassedBy(e, i) PROVE e < y[1]
    <3>1. e <= issued
      BY <1>0, <2>4, PassedIssued DEF Placed
    <3>2. QED
      BY <2>1, <2>3, <2>4, <3>1, NotYetDrained
  <2>5. y \in Arrived(p, i)
    BY <2>3, <2>4 DEF Arrived
  <2>6. ASSUME NEW k \in 0 .. n - 1, Hist(k)' = y PROVE FALSE
    <3>1. k \in 0 .. n /\ k # n
      BY <1>0
    <3>2. CASE k = 0
      <4>1. x = y
        BY <1>2, <2>6, <3>1, <3>2
      <4>2. QED
        BY <1>5, <2>3, <4>1
    <3>3. CASE k # 0
      <4>1. Hist(k - 1) = y /\ k - 1 \in Steps
        BY <1>2, <1>3, <2>6, <3>1, <3>3
      <4>2. k - 1 = n - 1
        BY <2>3, <4>1
      <4>3. QED
        BY <1>0, <3>1, <4>2
    <3>4. QED
      BY <3>2, <3>3
  <2>7. y \notin Behind(n)'
    BY <2>6 DEF Behind
  <2>8. QED
    BY <1>4, <2>5, <2>7
<1>10. QED
  BY <1>8, <1>9

(* Nothing of another buffer is in the array. *)
LEMMA OtherBufferKeeps ==
  ASSUME IssuerWaits, Placed, ArrayShift, NEW p \in {0, 1}, p # stage["array_gemm"].cmd.psum_index,
         NEW i \in Lanes, NEW n \in 0 .. 2 * DIM - 2
  PROVE  (Arrived(p, i) \ Behind(n))' = Arrived(p, i) \ Behind(n)
<1>0. StreamStep /\ Skews /\ Diagonals /\ DIM \in Nat /\ DIM >= 2
  BY SizeAssumption DEF Placed
<1>1. Arrived(p, i)' = Arrived(p, i) /\ NextRow \notin Arrived(p, i)
  BY ArrivedAfterShift
<1>2. Behind(n)' \subseteq Behind(n) \cup {NextRow}
  BY <1>0, BehindAfterShift
<1>3. ASSUME NEW r \in Arrived(p, i), r \in Behind(n) PROVE FALSE
  <2>1. PICK k \in 0 .. n - 1 : r = Hist(k)
    BY <1>3 DEF Behind
  <2>2. k \in Steps
    BY <1>0 DEF Steps
  <2>3. r \in Rows /\ Program[r[1]].psum_index = p
    BY <1>3 DEF Arrived
  <2>4. RowInArray(k)
    BY <2>1, <2>2, <2>3, RowTypes, InArrayIs DEF Placed
  <2>5. QED
    BY <2>1, <2>3, <2>4 DEF RowInArray
<1>4. QED
  BY <1>1, <1>2, <1>3

LEMMA SumsAfterShift ==
  ASSUME IssuerWaits, Placed, ArrayShift, NEW p \in {0, 1}, p = stage["array_gemm"].cmd.psum_index,
         NEW i \in Lanes, NEW n \in 0 .. 2 * DIM - 2, NEW y, y = Hist(n)'
  PROVE  Sums(Arrived(p, i) \ Behind(n))' =
           IF y = ZERO THEN Sums(Arrived(p, i) \ Behind(n))
                       ELSE Sums(Arrived(p, i) \ Behind(n)) (+) SetToBag({<<y, y>>})
<1>0. StreamStep /\ Skews /\ Diagonals
  BY DEF Placed
<1>1. PICK x, A, B, A1, B1 :
        /\ x = NextRow /\ A = Arrived(p, i) /\ B = Behind(n)
        /\ A1 = Arrived(p, i)' /\ B1 = Behind(n)'
  OBVIOUS
<1>2. x \notin A /\ A1 = IF x # ZERO THEN A \cup {x} ELSE A
  BY <1>1, ArrivedAfterShift
<1>3. B1 \cup {y} = B \cup {x}
  BY <1>0, <1>1, BehindAfterShift
<1>4. ZERO \notin A1 /\ ZERO \notin A
  <2>1. ZERO \notin Rows
    BY RowTypes
  <2>2. QED
    BY <1>1, <2>1 DEF Arrived
<1>5. A1 \ (B1 \cup {y}) = A \ B
  BY <1>2, <1>3, <1>4
<1>6. Sums(Arrived(p, i) \ Behind(n))' = Sums(A1 \ B1) /\ Sums(Arrived(p, i) \ Behind(n)) = Sums(A \ B)
  BY <1>1 DEF Sums
<1>7. CASE y = ZERO
  <2>1. A1 \ B1 = A \ B
    BY <1>4, <1>5, <1>7
  <2>2. QED
    BY <1>6, <1>7, <2>1
<1>8. CASE y # ZERO
  <2>1. y \in A1 /\ y \notin B1
    BY <1>1, <1>8, ReachesOnce
  <2>2. A1 \ B1 = (A \ B) \cup {y} /\ y \notin A \ B
    BY <1>5, <2>1
  <2>3. Sums(A \ B) (+) SetToBag({<<y, y>>}) = Sums((A \ B) \cup {y})
    BY <2>2, OnePairMore
  <2>4. QED
    BY <1>6, <1>8, <2>2, <2>3
<1>9. QED
  BY <1>7, <1>8

LEMMA AccumulatedShift == ASSUME IssuerWaits, Placed, Accumulated, ArrayShift PROVE Accumulated'
<1> DEFINE Part(p, i, j) == Sums(Arrived(p, i) \ Behind(i + j))
<1>0. StreamStep /\ Skews /\ Diagonals /\ ArrayAt /\ DIM \in Nat /\ DIM >= 2
  BY SizeAssumption DEF Placed
<1>1. PICK buf \in {0, 1} : buf = stage["array_gemm"].cmd.psum_index
  BY <1>0, ShiftTakes
<1>2. psum = [p \in {0, 1} |-> [i \in Lanes |-> [j \in Lanes |-> Part(p, i, j)]]]
  BY DEF Accumulated
<1>3. PICK a, b : a = a_reg' /\ b = b_reg'
  OBVIOUS
<1>4. psum' = [psum EXCEPT ![buf] =
        [i \in Lanes |-> [j \in Lanes |->
           IF ZERO \in {a[i][j], b[i][j]} THEN psum[buf][i][j]
           ELSE psum[buf][i][j] (+) SetToBag({<<a[i][j], b[i][j]>>})]]]
  BY <1>1, <1>3 DEF ArrayShift, shift_in
<1>5. \A i, j \in Lanes : i + j \in 0 .. 2 * DIM - 2
  BY <1>0 DEF Lanes
<1>6. ASSUME NEW i \in Lanes, NEW j \in Lanes
      PROVE  (IF ZERO \in {a[i][j], b[i][j]} THEN psum[buf][i][j]
              ELSE psum[buf][i][j] (+) SetToBag({<<a[i][j], b[i][j]>>}))
             = Part(buf, i, j)'
  <2>1. PICK n \in 0 .. 2 * DIM - 2 : n = i + j
    BY <1>5
  <2>2. PICK y : y = Hist(n)'
    OBVIOUS
  <2>3. a[i][j] = y /\ b[i][j] = y
    <3>1. \A k \in 0 .. 2 * DIM - 2 : Hist(k)' = IF k = 0 THEN NextRow ELSE Hist(k - 1)
      BY <1>0, HistShifts
    <3>2. /\ a_reg'[i][j] = IF i + j = 0 THEN NextRow ELSE Hist((i + j) - 1)
          /\ b_reg'[i][j] = IF i + j = 0 THEN NextRow ELSE Hist((i + j) - 1)
      BY <1>0, HistShifts
    <3>3. QED
      BY <1>3, <2>1, <2>2, <3>1, <3>2
  <2>4. psum[buf][i][j] = Sums(Arrived(buf, i) \ Behind(n))
    BY <1>2, <2>1
  <2>5. Part(buf, i, j)' = Sums(Arrived(buf, i) \ Behind(n))'
    BY <2>1
  <2>6. Sums(Arrived(buf, i) \ Behind(n))' =
           IF y = ZERO THEN Sums(Arrived(buf, i) \ Behind(n))
                       ELSE Sums(Arrived(buf, i) \ Behind(n)) (+) SetToBag({<<y, y>>})
    BY <1>1, <2>2, SumsAfterShift
  <2> HIDE DEF Part
  <2>7. QED
    BY <2>3, <2>4, <2>5, <2>6
<1>7. ASSUME NEW p \in {0, 1}, p # buf, NEW i \in Lanes, NEW j \in Lanes
      PROVE  Part(p, i, j)' = Part(p, i, j)
  <2>1. PICK n \in 0 .. 2 * DIM - 2 : n = i + j
    BY <1>5
  <2>2. PICK S, T : S = (Arrived(p, i) \ Behind(n))' /\ T = Arrived(p, i) \ Behind(n)
    OBVIOUS
  <2>3. S = T
    BY <1>1, <1>7, <2>2, OtherBufferKeeps
  <2>4. Part(p, i, j)' = Sums(S) /\ Part(p, i, j) = Sums(T)
    BY <2>1, <2>2 DEF Sums
  <2>5. QED
    BY <2>3, <2>4
<1> HIDE DEF Part
<1>8. psum'[buf] = [i \in Lanes |-> [j \in Lanes |-> Part(buf, i, j)']]
  <2>1. psum'[buf] = [i \in Lanes |-> [j \in Lanes |->
           IF ZERO \in {a[i][j], b[i][j]} THEN psum[buf][i][j]
           ELSE psum[buf][i][j] (+) SetToBag({<<a[i][j], b[i][j]>>})]]
    BY <1>2, <1>4
  <2>2. QED
    BY <1>6, <2>1, Zenon
<1>9. ASSUME NEW p \in {0, 1}, p # buf
      PROVE  psum'[p] = [i \in Lanes |-> [j \in Lanes |-> Part(p, i, j)']]
  <2>1. psum'[p] = [i \in Lanes |-> [j \in Lanes |-> Part(p, i, j)]]
    BY <1>2, <1>4, <1>9
  <2>2. QED
    BY <1>7, <1>9, <2>1, ZenonT(40)
<1>10. psum' = [p \in {0, 1} |-> psum'[p]]
  BY <1>2, <1>4
<1>11. \A p \in {0, 1} : psum'[p] = [i \in Lanes |-> [j \in Lanes |-> Part(p, i, j)']]
  BY <1>8, <1>9
<1>12. psum' = [p \in {0, 1} |-> [i \in Lanes |-> [j \in Lanes |-> Part(p, i, j)']]]
  BY <1>10, <1>11
<1>13. QED
  BY <1>12 DEF Accumulated, Part

(* The array's next gemm: the one before it is all shifted in. *)
LEMMA ShiftedKeeps ==
  ASSUME StreamStep, Orders, ArrayAt, StageCommand("array_gemm"), NEW r \in Rows, ~ IsFlush(r[1])
  PROVE  Shifted(r)' <=> Shifted(r)
<1>0. EngineTypes
  BY DEF StreamStep
<1>1. PICK old, new : old = stage["array_gemm"].cmd.id /\ new = gemm.id
  OBVIOUS
<1>2. /\ stage'["array_gemm"].cmd.id = new /\ stage'["array_gemm"].row = 0
      /\ new \in Gemms /\ new \in Nat /\ old \in Nat /\ NoneBetween(Gemms, old, new)
      /\ stage["array_gemm"].row = stage["array_gemm"].cmd.rows
      /\ old \in Gemms \cup {0} /\ (old # 0 => stage["array_gemm"].cmd = GemmCmd(old))
  <2>1. /\ stage'["array_gemm"].cmd = GemmCmd(new) /\ stage'["array_gemm"].row = 0
        /\ new \in Gemms /\ NoneBetween(Gemms, old, new)
        /\ stage["array_gemm"].row = stage["array_gemm"].cmd.rows
    BY <1>1, NextCommandIs
  <2>2. /\ old \in Nat /\ old \in Gemms \cup {0}
        /\ old # 0 => stage["array_gemm"].cmd = GemmCmd(old)
    BY <1>0, <1>1, ArrayIdTypes
  <2>3. GemmCmd(new).id = new /\ new \in Nat
    BY <2>1, IdsAreNumbers DEF GemmCmd
  <2>4. QED
    BY <2>1, <2>2, <2>3
<1>3. r[1] \in Gemms /\ r[1] \in Nat \ {0} /\ r[2] \in Nat /\ r[2] < DIM
  BY RowTypes
<1>4. Shifted(r)' <=> r[1] < new
  BY <1>2, <1>3 DEF Shifted
<1>5. r[1] < new <=> r[1] <= old
  BY <1>2, <1>3 DEF NoneBetween
<1>6. r[1] = old => r[2] < stage["array_gemm"].row
  <2> SUFFICES ASSUME r[1] = old PROVE r[2] < stage["array_gemm"].row
    OBVIOUS
  <2>1. stage["array_gemm"].cmd = GemmCmd(old) /\ ~ Program[old].is_flush
    BY <1>2, <1>3 DEF IsFlush
  <2>2. stage["array_gemm"].row = DIM
    BY <1>2, <2>1 DEF GemmCmd, GemmRows
  <2>3. QED
    BY <1>3, <2>2
<1>7. Shifted(r) <=> r[1] <= old
  <2>1. Shifted(r) <=> r[1] < old \/ (r[1] = old /\ r[2] < stage["array_gemm"].row)
    BY <1>1 DEF Shifted
  <2>2. QED
    BY <1>2, <1>3, <1>6, <2>1
<1>8. QED
  BY <1>4, <1>5, <1>7

(* The drain's next command: the one before it is all shifted out. *)
LEMMA NextDrainIs ==
  ASSUME StreamStep, Orders, DrainPlace, DrainAt, StageCommand("array_drain")
  PROVE  /\ stage'["array_drain"].cmd = DrainCmd(drain.id) /\ stage'["array_drain"].row = 0
         /\ stage'["array_drain"].held = << >>
         /\ drain.id \in Drains /\ stage["array_drain"].cmd.id = last_drain_completed_id
         /\ NoneBetween(Drains, stage["array_drain"].cmd.id, drain.id)
         /\ stage["array_drain"].row = stage["array_drain"].cmd.rows
         /\ stage["array_drain"].held = << >>
<1>0. EngineTypes /\ "array_drain" \in Stages /\ CmdOf("array_drain") = "drain_cmd"
  BY Wiring DEF StreamStep, Stages
<1>1. /\ cmd["drain_cmd"] # << >> /\ stage'["array_drain"].cmd = Head(cmd["drain_cmd"])
      /\ stage'["array_drain"].row = 0 /\ stage'["array_drain"].held = << >>
      /\ stage["array_drain"].row = stage["array_drain"].cmd.rows /\ stage["array_drain"].held = << >>
  BY <1>0, CommandTaken
<1>2. /\ Head(cmd["drain_cmd"]) = DrainCmd(drain.id)
      /\ stage["array_drain"].cmd.id = last_drain_completed_id /\ drain.step # "dequeue"
  BY <1>1 DEF DrainAt, CommandAt
<1>3. drain.id \in Drains /\ drain.id # 0
  BY <1>0, <1>2 DEF EngineTypes, DrainPlace
<1>4. QED
  BY <1>1, <1>2, <1>3 DEF Orders, DrainsInOrder

LEMMA PassedKeeps ==
  ASSUME StreamStep, Orders, DrainPlace, DrainAt, StageCommand("array_drain"),
         NEW e \in Drains, NEW i \in Lanes
  PROVE  PassedBy(e, i)' <=> PassedBy(e, i)
<1> DEFINE s == stage["array_drain"]
<1>1. PICK old, new : old = s.cmd.id /\ new = drain.id
  OBVIOUS
<1>2. /\ stage'["array_drain"].cmd = DrainCmd(new) /\ stage'["array_drain"].row = 0
      /\ stage'["array_drain"].held = << >>
      /\ new \in Drains /\ NoneBetween(Drains, old, new) /\ s.row = s.cmd.rows /\ s.held = << >>
  BY <1>1, NextDrainIs
<1>3. old \in Drains \cup {0} /\ old \in Nat /\ new \in Nat /\ e \in Nat \ {0} /\ i \in Nat /\ i < DIM
  BY <1>1, <1>2, PassedIssued, IdsAreNumbers, SizeAssumption DEF StreamStep, Lanes
<1>4. e < new <=> e <= old
  BY <1>2, <1>3 DEF NoneBetween
<1>5. PassedBy(e, i)' <=> e < new
  BY <1>2, <1>3 DEF PassedBy, DrainCmd
<1>6. e = old => i < s.row
  <2> SUFFICES ASSUME e = old PROVE i < s.row
    OBVIOUS
  <2>1. s.cmd = DrainCmd(old)
    BY <1>1, <1>3 DEF DrainAt, CommandAt
  <2>2. QED
    BY <1>2, <1>3, <2>1 DEF DrainCmd
<1>7. PassedBy(e, i) <=> e <= old
  BY <1>1, <1>2, <1>3, <1>6 DEF PassedBy
<1>8. QED
  BY <1>4, <1>5, <1>7

LEMMA PassedOnKeeps ==
  ASSUME EngineTypes, StageWrite("array_drain"), NEW e \in Drains, NEW i \in Lanes
  PROVE  PassedBy(e, i)' <=> PassedBy(e, i)
<1>1. /\ stage'["array_drain"].cmd = stage["array_drain"].cmd
      /\ stage'["array_drain"].row = stage["array_drain"].row + 1
      /\ stage["array_drain"].held # << >> /\ stage'["array_drain"].held = << >>
  BY PassedOn DEF Stages
<1>2. stage["array_drain"].row \in Nat /\ i \in Nat
  BY StageTypesOf, SizeAssumption DEF Stages, Lanes
<1>3. i < stage["array_drain"].row + 1 <=> i < stage["array_drain"].row \/ i = stage["array_drain"].row
  BY <1>2
<1>4. QED
  BY <1>1, <1>3 DEF PassedBy

(* The drain that the array shifts out is the one drain_thread is at. *)
LEMMA DrainingIs ==
  ASSUME StreamStep, Orders, DrainPlace, DrainBalanced, DrainAt, Left("array_drain") # 0
  PROVE  /\ stage["array_drain"].cmd = DrainCmd(drain.id)
         /\ drain.id \in Drains /\ drain.id \in Nat \ {0} /\ last_drain_completed_id < drain.id
         /\ NoneBetween(Drains, last_drain_completed_id, drain.id)
         /\ drain.step \in {"scaler_cmd", "scaler_to_c", "c_done"}
<1>0. EngineTypes
  BY DEF StreamStep
<1>1. /\ Left("array_drain") \in Nat /\ Ordered("drain_cmd") \in Nat
      /\ \A q : Full(q) \in 0 .. 1
      /\ drain.row \in Nat /\ DIM \in Nat /\ DIM >= 2
  BY <1>0, DrainCounts
<1>2. ToRead({"scaler_cmd", "scaler_to_c", "c_done"}) >= Left("array_drain") + Ordered("drain_cmd")
  <2>1. Full(chan["pe_array_to_scaler"]) >= 0 /\ Full(stage["scaler"].held) >= 0 /\ Full(chan["scaler_to_c"]) >= 0
        /\ Full(chan["pe_array_to_scaler"]) \in Nat /\ Full(stage["scaler"].held) \in Nat
        /\ Full(chan["scaler_to_c"]) \in Nat
    BY <1>1
  <2>2. Left("array_drain") + Ordered("drain_cmd") + Full(chan["pe_array_to_scaler"])
           + Full(stage["scaler"].held) + Full(chan["scaler_to_c"])
         = ToRead({"scaler_cmd", "scaler_to_c", "c_done"})
    BY DEF DrainBalanced
  <2>3. QED
    BY <1>1, <2>1, <2>2
<1>3. drain.step \in {"scaler_cmd", "scaler_to_c", "c_done"}
  <2> SUFFICES ASSUME drain.step \notin {"scaler_cmd", "scaler_to_c", "c_done"} PROVE FALSE
    OBVIOUS
  <2>1. ToRead({"scaler_cmd", "scaler_to_c", "c_done"}) = 0
    BY DEF ToRead
  <2>2. QED
    BY <1>1, <1>2, <2>1
<1>4. ToRead({"scaler_cmd", "scaler_to_c", "c_done"}) <= DIM
  BY <1>1 DEF ToRead
<1>5. cmd["drain_cmd"] = << >>
  <2> SUFFICES ASSUME cmd["drain_cmd"] # << >> PROVE FALSE
    OBVIOUS
  <2>1. Ordered("drain_cmd") = DIM
    BY DEF DrainAt, CommandAt, Ordered, DrainCmd
  <2>2. ToRead({"scaler_cmd", "scaler_to_c", "c_done"}) >= Left("array_drain") + DIM
    BY <1>2, <2>1
  <2>3. ToRead({"scaler_cmd", "scaler_to_c", "c_done"}) \in Int
    BY <1>1 DEF ToRead
  <2>4. QED
    BY <1>1, <1>4, <2>2, <2>3
<1>6. drain.id # 0 /\ drain.id \in Drains
  BY <1>0, <1>3 DEF DrainPlace, EngineTypes
<1>7. stage["array_drain"].cmd = DrainCmd(drain.id)
  BY <1>3, <1>5, <1>6 DEF DrainAt, CommandAt
<1>8. QED
  BY <1>3, <1>6, <1>7, IdsAreNumbers DEF Orders, DrainsInOrder, NoneBetween

(* A row shifted out leaves nothing: no gemm on its buffer is issued       *)
(* before its drain is complete.                                           *)
LEMMA AccumulatedShiftOut ==
  ASSUME IssuerWaits, Placed, Accumulated, ArrayShiftOut PROVE Accumulated'
<1> DEFINE s == stage["array_drain"]
<1>0. EngineTypes /\ StreamStep /\ GemmPlace /\ DIM \in Nat
  BY SizeAssumption DEF Placed, StreamStep, InStream
<1>1. /\ s.held = << >> /\ s.row < s.cmd.rows
      /\ stage'["array_drain"].held # << >>
      /\ stage'["array_drain"].cmd = s.cmd /\ stage'["array_drain"].row = s.row
      /\ stage'["array_gemm"] = stage["array_gemm"] /\ UNCHANGED a_reg
  BY <1>0, ShiftsOut, Singles DEF Stages
<1>2. PICK d, p0, i0 : d = drain.id /\ p0 = s.cmd.psum_index /\ i0 = s.row
  OBVIOUS
<1>3. /\ s.cmd = DrainCmd(d) /\ d \in Drains /\ d \in Nat \ {0} /\ last_drain_completed_id < d
      /\ s.row \in Nat
  <2>1. s.row \in Nat /\ s.cmd.rows \in Nat
    BY <1>0, StageTypesOf DEF Stages
  <2>2. Left("array_drain") # 0
    BY <1>1, <2>1 DEF Left
  <2>3. QED
    BY <1>0, <1>2, <2>1, <2>2, DrainingIs DEF Placed
<1>4. p0 = Program[d].psum_index /\ p0 \in {0, 1} /\ i0 \in Lanes /\ i0 \in Nat
  <2>1. p0 = Program[d].psum_index /\ s.cmd.rows = DIM
    BY <1>2, <1>3 DEF DrainCmd
  <2>2. QED
    BY <1>0, <1>1, <1>2, <1>3, <2>1, Programs, IdsAreNumbers DEF Lanes
<1>5. \A e \in Drains, i \in Lanes : PassedBy(e, i)' <=> PassedBy(e, i) \/ (e = d /\ i = i0)
  <2>1. s.cmd.id = d
    BY <1>3 DEF DrainCmd
  <2>2. QED
    BY <1>1, <1>2, <2>1 DEF PassedBy
<1>6. \A r \in Rows : Shifted(r)' <=> Shifted(r)
  BY <1>1 DEF Shifted
<1>7. ASSUME NEW p \in {0, 1}, NEW i \in Lanes, p # p0 \/ i # i0
      PROVE  Arrived(p, i)' = Arrived(p, i)
  <2>1. ASSUME NEW e \in Drains, Program[e].psum_index = p PROVE PassedBy(e, i)' <=> PassedBy(e, i)
    BY <1>4, <1>5, <1>7, <2>1
  <2>2. QED
    BY <1>6, <2>1, ArrivedKeeps
<1>8. Arrived(p0, i0)' = {}
  <2> SUFFICES ASSUME NEW r \in Rows, Program[r[1]].psum_index = p0, Shifted(r), d < r[1] PROVE FALSE
    BY <1>3, <1>4, <1>5, <1>6 DEF Arrived
  <2>1. r[1] \in Gemms /\ r[1] \in Nat
    BY RowTypes
  <2>2. r[1] <= issued
    <3>1. r[1] <= stage["array_gemm"].cmd.id
      BY <1>0, <2>1, ArrayIdTypes DEF Shifted, Placed
    <3>2. QED
      BY <1>0, <2>1, <3>1, ArrayAfterLast, ArrayIdTypes, FrontTypes DEF Placed
  <2>3. d <= last_drain_completed_id
    BY <1>0, <1>3, <1>4, <2>1, <2>2, GemmWaited DEF Placed
  <2>4. QED
    BY <1>0, <1>3, <2>3, FrontTypes
<1>9. \A n : Behind(n)' = Behind(n)
  BY <1>1, HistFrame DEF Behind
<1> DEFINE Part(p, i, j) == Sums(Arrived(p, i) \ Behind(i + j))
<1>10. psum = [p \in {0, 1} |-> [i \in Lanes |-> [j \in Lanes |-> Part(p, i, j)]]]
  BY DEF Accumulated
<1>11. psum' = [psum EXCEPT ![p0][i0] = [j \in Lanes |-> EmptyBag]]
  BY <1>2 DEF ArrayShiftOut
<1>12. ASSUME NEW p \in {0, 1}, NEW i \in Lanes, p # p0 \/ i # i0, NEW j \in Lanes
       PROVE  Part(p, i, j)' = Part(p, i, j)
  BY <1>7, <1>9, <1>12 DEF Sums
<1>13. ASSUME NEW j \in Lanes PROVE Part(p0, i0, j)' = EmptyBag
  <2>1. {<<r, r>> : r \in {}} = {}
    OBVIOUS
  <2>2. Part(p0, i0, j)' = Sums({})
    BY <1>8 DEF Sums
  <2>3. QED
    BY <2>1, <2>2 DEF Sums, EmptyBag
<1> HIDE DEF Part
<1>14. psum' = [p \in {0, 1} |-> [i \in Lanes |->
                 IF p = p0 /\ i = i0 THEN [j \in Lanes |-> EmptyBag]
                                     ELSE [j \in Lanes |-> Part(p, i, j)]]]
  BY <1>4, <1>10, <1>11
<1>15. ASSUME NEW p \in {0, 1}, NEW i \in Lanes
       PROVE  (IF p = p0 /\ i = i0 THEN [j \in Lanes |-> EmptyBag]
                                     ELSE [j \in Lanes |-> Part(p, i, j)])
              = [j \in Lanes |-> Part(p, i, j)']
  <2>1. CASE p = p0 /\ i = i0
    <3>1. [j \in Lanes |-> EmptyBag] = [j \in Lanes |-> Part(p0, i0, j)']
      BY <1>13, Zenon
    <3>2. QED
      BY <2>1, <3>1
  <2>2. CASE ~ (p = p0 /\ i = i0)
    <3>1. \A j \in Lanes : Part(p, i, j)' = Part(p, i, j)
      BY <1>12, <2>2
    <3>2. [j \in Lanes |-> Part(p, i, j)] = [j \in Lanes |-> Part(p, i, j)']
      BY <3>1, Zenon
    <3>3. QED
      BY <2>2, <3>2
  <2>3. QED
    BY <2>1, <2>2
<1>16. psum' = [p \in {0, 1} |-> [i \in Lanes |-> [j \in Lanes |-> Part(p, i, j)']]]
  BY <1>14, <1>15, Zenon
<1>17. QED
  BY <1>16 DEF Accumulated, Part

LEMMA AccumulatedNext == ASSUME IssuerWaits, Placed, Accumulated, [Next]_vars PROVE Accumulated'
<1>0. EngineTypes /\ StreamStep
  BY DEF Placed, StreamStep
<1>1. CASE ArrayShift
  BY <1>1, AccumulatedShift
<1>2. CASE ArrayShiftOut
  BY <1>2, AccumulatedShiftOut
<1>3. CASE StageCommand("array_gemm")
  <2>1. UNCHANGED <<psum, a_reg>> /\ stage'["array_drain"] = stage["array_drain"]
    BY <1>0, <1>3, CommandTaken DEF StageCommand, logicVars, Stages
  <2>2. \A e, i : PassedBy(e, i)' <=> PassedBy(e, i)
    BY <2>1 DEF PassedBy
  <2>3. \A r \in Rows : ~ IsFlush(r[1]) => (Shifted(r)' <=> Shifted(r))
    BY <1>0, <1>3, ShiftedKeeps DEF Placed
  <2>4. \A p \in {0, 1}, i \in Lanes : Arrived(p, i)' = Arrived(p, i)
    BY <2>2, <2>3, ArrivedKeeps
  <2>5. QED
    BY <2>1, <2>4, AccumulatedKeeps
<1>4. CASE StageCommand("array_drain") \/ StageWrite("array_drain")
  <2>1. UNCHANGED <<psum, a_reg>> /\ stage'["array_gemm"] = stage["array_gemm"]
    BY <1>0, <1>4, CommandTaken, PassedOn DEF StageCommand, StageWrite, logicVars, Stages
  <2>2. \A e \in Drains, i \in Lanes : PassedBy(e, i)' <=> PassedBy(e, i)
    BY <1>0, <1>4, PassedKeeps, PassedOnKeeps DEF Placed
  <2>3. \A r \in Rows : Shifted(r)' <=> Shifted(r)
    BY <2>1 DEF Shifted
  <2>4. \A p \in {0, 1}, i \in Lanes : Arrived(p, i)' = Arrived(p, i)
    BY <2>2, <2>3, ArrivedKeeps
  <2>5. QED
    BY <2>1, <2>4, AccumulatedKeeps
<1>5. CASE UNCHANGED <<psum, a_reg, stage["array_gemm"].cmd, stage["array_gemm"].row, stage["array_drain"]>>
  <2>1. \A p \in {0, 1}, i \in Lanes : Arrived(p, i)' = Arrived(p, i)
    BY <1>5 DEF Arrived, Shifted, PassedBy
  <2>2. QED
    BY <1>5, <2>1, AccumulatedKeeps
<1>6. QED
  BY <1>0, <1>1, <1>2, <1>3, <1>4, <1>5, SumSteps

-----------------------------------------------------------------------------
(* What a drain finds in its buffer *)

LEMMA ArrayNames ==
  /\ Array!Ids = Ids /\ Array!Gemms = Gemms /\ Array!Drains = Drains /\ Array!Lanes = Lanes
  BY DEF Array!Ids, Ids, Array!Gemms, Gemms, Array!Drains, Drains, Array!Lanes, Lanes

DrainsComplete(d) ==
  \A e \in Drains : e < d /\ Program[e].psum_index = Program[d].psum_index
                    => e <= last_drain_completed_id

(* The drains complete have been shifted out. *)
LEMMA CompletedPassed ==
  ASSUME StreamStep, Orders, DrainPlace, DrainBalanced, DrainAt,
         NEW e \in Drains, e <= last_drain_completed_id, NEW i \in Lanes
  PROVE  PassedBy(e, i)
<1> DEFINE s == stage["array_drain"]
<1>0. EngineTypes
  BY DEF StreamStep
<1>1. /\ s.cmd.id \in Drains \cup {0} /\ s.cmd.id \in Nat /\ last_drain_completed_id <= s.cmd.id
      /\ s.row \in Nat /\ last_drain_completed_id \in Nat /\ e \in Nat \ {0}
      /\ s.row \in 0 .. s.cmd.rows /\ s.cmd.rows \in Nat
  BY <1>0, PassedIssued, FrontTypes, IdsAreNumbers, StageTypesOf DEF Stages
<1>2. CASE e < s.cmd.id
  BY <1>2 DEF PassedBy
<1>3. CASE e = s.cmd.id
  <2>1. last_drain_completed_id = s.cmd.id
    BY <1>1, <1>3
  <2>2. Left("array_drain") = 0
    <3> SUFFICES ASSUME Left("array_drain") # 0 PROVE FALSE
      OBVIOUS
    <3>1. s.cmd.id = drain.id /\ last_drain_completed_id < drain.id
      BY DrainingIs DEF DrainCmd
    <3>2. QED
      BY <1>1, <2>1, <3>1
  <2>3. s.cmd.rows = DIM
    BY <1>1, <1>3 DEF DrainAt, CommandAt, DrainCmd
  <2>4. i < s.row
    BY <1>1, <2>2, <2>3, SizeAssumption DEF Left, Lanes
  <2>5. QED
    BY <1>3, <2>4 DEF PassedBy
<1>4. QED
  BY <1>1, <1>2, <1>3

(* Until its rows are shifted out, the whole chain of a drain is there, in *)
(* every lane of every row, and nothing else.                              *)
LEMMA ChainArrived ==
  ASSUME IssuerWaits, Placed, NEW d \in Drains, GemmsComplete(d), DrainsComplete(d),
         last_drain_completed_id < d, NEW i \in Lanes, ~ PassedBy(d, i)
  PROVE  Arrived(Program[d].psum_index, i) = Array!ChainOf(d) \X Lanes
<1> DEFINE s == stage["array_drain"]
           p == Program[d].psum_index
<1>0. EngineTypes /\ StreamStep /\ GemmPlace
  BY DEF Placed, StreamStep, InStream
<1>1. d \in Nat /\ last_drain_completed_id \in Nat /\ issued \in Nat
  BY <1>0, FrontTypes, IdsAreNumbers
<1>2. ASSUME NEW r \in Arrived(p, i) PROVE r \in Array!ChainOf(d) \X Lanes
  <2>1. /\ r \in Rows /\ Program[r[1]].psum_index = p /\ ~ IsFlush(r[1]) /\ Shifted(r)
        /\ \A e \in Drains : Program[e].psum_index = p /\ PassedBy(e, i) => e < r[1]
    BY DEF Arrived
  <2>2. /\ r = <<r[1], r[2]>> /\ r[1] \in Gemms /\ r[1] \in Nat \ {0} /\ r[2] \in Lanes
    BY <2>1, RowTypes
  <2>3. r[1] <= issued
    <3>1. r[1] <= stage["array_gemm"].cmd.id
      BY <1>0, <2>1, <2>2, ArrayIdTypes DEF Shifted, Placed
    <3>2. QED
      BY <1>0, <1>1, <2>2, <3>1, ArrayAfterLast, ArrayIdTypes DEF Placed
  <2>4. r[1] < d
    <3> SUFFICES ASSUME d < r[1] PROVE FALSE
      BY <1>1, <2>2, IdsAreNumbers
    <3>1. d <= last_drain_completed_id
      BY <1>0, <2>1, <2>2, <2>3, GemmWaited DEF Placed
    <3>2. QED
      BY <1>1, <3>1
  <2>5. ASSUME NEW e \in Drains, r[1] < e, e < d, Program[e].psum_index = p PROVE FALSE
    <3>1. e <= last_drain_completed_id /\ e \in Nat \ {0}
      BY <2>5, IdsAreNumbers DEF DrainsComplete
    <3>2. PassedBy(e, i)
      BY <1>0, <3>1, CompletedPassed DEF Placed
    <3>3. QED
      BY <2>1, <2>2, <2>5, <3>1, <3>2
  <2>6. ~ Program[r[1]].is_flush
    BY <2>1, <2>2 DEF IsFlush
  <2>7. r[1] \in Array!ChainOf(d)
    BY <2>1, <2>2, <2>4, <2>5, <2>6, ArrayNames DEF Array!ChainOf
  <2>8. QED
    BY <2>2, <2>7
<1>3. ASSUME NEW g \in Array!ChainOf(d), NEW lane \in Lanes PROVE <<g, lane>> \in Arrived(p, i)
  <2>1. /\ g \in Gemms /\ g \in Nat \ {0} /\ g < d /\ Program[g].psum_index = p /\ ~ Program[g].is_flush
        /\ \A e \in Drains : g < e /\ e < d => Program[e].psum_index # p
    BY ArrayNames, IdsAreNumbers DEF Array!ChainOf
  <2>2. ~ IsFlush(g)
    BY <2>1 DEF IsFlush
  <2>3. g < stage["array_gemm"].cmd.id
    BY <2>1, <2>2, ChainThrough
  <2>4. ASSUME NEW e \in Drains, Program[e].psum_index = p, PassedBy(e, i) PROVE e < g
    <3>1. e \in Nat /\ e # d /\ e # g /\ e <= s.cmd.id
      BY <1>0, <2>1, <2>4, PassedIssued, IdsAreNumbers DEF Placed
    <3>2. CASE e <= last_drain_completed_id
      BY <1>1, <2>1, <2>4, <3>1, <3>2
    <3>3. CASE last_drain_completed_id < e
      <4>1. s.cmd.id = drain.id /\ NoneBetween(Drains, last_drain_completed_id, drain.id) /\ drain.id \in Nat
        <5>1. s.cmd.id \in {last_drain_completed_id, drain.id}
          BY DEF Placed, DrainAt, CommandAt
        <5>2. s.cmd.id # last_drain_completed_id
          BY <1>1, <3>1, <3>3
        <5>3. drain.id # 0
          BY <1>1, <3>1, <3>3, <5>1, <5>2
        <5>4. QED
          BY <1>0, <5>1, <5>2, <5>3, FrontTypes DEF Placed, Orders, DrainsInOrder
      <4>2. e = drain.id /\ drain.id <= d
        BY <1>1, <3>1, <3>3, <4>1 DEF NoneBetween
      <4>3. e < d
        BY <1>1, <3>1, <4>2
      <4>4. QED
        BY <2>1, <2>4, <3>1, <4>3
    <3>4. QED
      BY <1>1, <3>1, <3>2, <3>3
  <2>5. <<g, lane>> \in Rows /\ <<g, lane>>[1] = g
    BY <2>1 DEF Rows
  <2>6. Shifted(<<g, lane>>)
    BY <2>3, <2>5 DEF Shifted
  <2>7. QED
    BY <2>1, <2>2, <2>4, <2>5, <2>6 DEF Arrived
<1>4. QED
  <2>1. Array!ChainOf(d) \X Lanes \subseteq Arrived(p, i)
    BY <1>3
  <2>2. QED
    BY <1>2, <2>1

LEMMA ChainInPsum ==
  ASSUME IssuerWaits, Placed, Accumulated, NEW d \in Drains, GemmsComplete(d), DrainsComplete(d),
         last_drain_completed_id < d, NEW i \in Lanes, ~ PassedBy(d, i), NEW j \in Lanes
  PROVE  psum[Program[d].psum_index][i][j] = Array!Product(d)
<1>1. PICK p \in {0, 1} : p = Program[d].psum_index
  BY Programs, IdsAreNumbers
<1>2. Arrived(p, i) = Array!ChainOf(d) \X Lanes
  BY <1>1, ChainArrived
<1>3. psum[p][i][j] = Sums(Arrived(p, i) \ Behind(i + j))
  BY DEF Accumulated
<1>4. ASSUME NEW r \in Arrived(p, i), r \in Behind(i + j) PROVE FALSE
  <2>1. PICK k \in 0 .. (i + j) - 1 : r = Hist(k)
    BY <1>4 DEF Behind
  <2>2. k \in Steps
    BY SizeAssumption DEF Lanes, Steps
  <2>3. r \in Rows /\ r # ZERO /\ ~ IsFlush(r[1]) /\ Program[r[1]].psum_index = p
    BY RowTypes DEF Arrived
  <2>4. r[1] \in Array!ChainOf(d)
    BY <1>2
  <2>5. r[1] \in Gemms /\ r[1] < d
    BY <2>4, ArrayNames DEF Array!ChainOf
  <2>6. QED
    BY <1>1, <2>1, <2>2, <2>3, <2>5, ChainThrough
<1>5. Arrived(p, i) \ Behind(i + j) = Array!ChainOf(d) \X Lanes
  BY <1>2, <1>4
<1>6. Array!Product(d) = Sums(Array!ChainOf(d) \X Lanes)
  BY ArrayNames DEF Array!Product, Sums, SetToBag, Array!SetToBag
<1>7. QED
  BY <1>1, <1>3, <1>5, <1>6

LEMMA PlacedInit == Init => Placed /\ Accumulated
<1> SUFFICES ASSUME Init PROVE Placed /\ Accumulated
  OBVIOUS
<1>0. DIM \in Nat /\ DIM >= 2
  BY SizeAssumption
<1>1. StreamStep /\ EngineTypes
  BY StreamInit DEF StreamStep, DrainThere, Init, Idle
<1>2. /\ gemm = Idle /\ drain = Idle /\ issued = 0
      /\ last_gemm_completed_id = 0 /\ last_drain_completed_id = 0
      /\ gemm_instr_queue = << >> /\ drain_instr_queue = << >>
      /\ \A c \in Chans : chan[c] = << >>
      /\ \A c \in Cmds : cmd[c] = << >>
      /\ \A s \in Stages : stage[s] = [cmd |-> NoCmd, row |-> 0, held |-> << >>]
      /\ a_reg = [i \in Lanes |-> [j \in Lanes |-> ZERO]]
      /\ b_reg = [i \in Lanes |-> [j \in Lanes |-> ZERO]]
  BY DEF Init
<1>3. Orders
  <2>1. \A S \in SUBSET Nat : InOrder(S, 0, 0, << >>)
    <3> SUFFICES ASSUME NEW S \in SUBSET Nat PROVE InOrder(S, 0, 0, << >>)
      OBVIOUS
    <3>1. Len(<< >>) = 0 /\ 1 .. 0 = {}
      OBVIOUS
    <3>2. {<< >>[k] : k \in 1 .. 0} = {}
      BY <3>1
    <3>3. Ahead(S, 0, 0) = {}
      <4>1. \A id \in Nat : ~ (0 < id /\ id <= 0)
        OBVIOUS
      <4>2. QED
        BY <4>1 DEF Ahead
    <3>4. QED
      BY <3>1, <3>2, <3>3 DEF InOrder
  <2>2. QED
    BY <1>2, <2>1, IdsAreNumbers
       DEF Orders, GemmsInOrder, DrainsInOrder, WaitedFor, GemmFront, DrainFront, Idle
<1>4. ArrayAt /\ DrainAt /\ DrainPlace
  BY <1>2 DEF ArrayAt, DrainAt, CommandAt, DrainPlace, Idle, NoCmd, Cmds, Stages
<1>5. FlushWaits
  BY <1>2 DEF FlushWaits, Idle, IsFlush
<1>6. \A k \in 0 .. 2 * DIM - 2 : Hist(k) = ZERO
  <2> SUFFICES ASSUME NEW k \in 0 .. 2 * DIM - 2 PROVE Hist(k) = ZERO
    OBVIOUS
  <2>1. 0 \in Lanes /\ DIM - 1 \in Lanes /\ (k < DIM => k \in Lanes)
        /\ (~ (k < DIM) => (k - DIM) + 1 \in Lanes)
    BY <1>0 DEF Lanes
  <2>2. QED
    BY <1>2, <2>1 DEF Hist
<1>7. Diagonals
  <2>1. \A i, j \in Lanes : Hist(i + j) = ZERO
    <3>1. \A i, j \in Lanes : i + j \in 0 .. 2 * DIM - 2
      BY <1>0 DEF Lanes
    <3>2. QED
      BY <1>6, <3>1
  <2>2. QED
    BY <1>2, <2>1 DEF Diagonals
<1>8. InArray
  BY <1>0, <1>6 DEF InArray, Steps
<1>9. Skews
  <2>1. regs = [s \in {"skew_a", "skew_b"} |-> [lane \in Lanes |-> [k \in 1 .. lane |-> ZERO]]]
    BY DEF Init
  <2>2. \A lane \in Lanes : \A k \in 1 .. lane : Hist(k - 1) = ZERO
    <3>1. \A lane \in Lanes : \A k \in 1 .. lane : k - 1 \in 0 .. 2 * DIM - 2
      BY <1>0 DEF Lanes
    <3>2. QED
      BY <1>6, <3>1
  <2>3. [lane \in Lanes |-> [k \in 1 .. lane |-> ZERO]]
          = [lane \in Lanes |-> [k \in 1 .. lane |-> Hist(k - 1)]]
    BY <2>2
  <2>4. AtRest("skew_a") /\ AtRest("skew_b")
    BY <2>1, <2>3 DEF AtRest
  <2>5. /\ chan["a_to_skew_a"] = << >> /\ chan["b_to_skew_b"] = << >>
        /\ \A q \in {stage["skew_a"].held, chan["skew_a_to_pe_array"], stage["array_gemm"].held} : q = << >>
        /\ \A q \in {stage["skew_b"].held, chan["skew_b_to_pe_array"]} : q = << >>
    BY <1>2 DEF Chans, Stages
  <2>6. QED
    BY <2>1, <2>4, <2>5 DEF Skews, Side
<1>10. DrainBalanced
  BY <1>2, Singles DEF DrainBalanced, Left, Ordered, ToRead, Idle, NoCmd, Chans, Cmds, Stages
<1>11. Accumulated
  <2>1. \A p, i : Arrived(p, i) = {}
    <3> SUFFICES ASSUME NEW r \in Rows, Shifted(r) PROVE FALSE
      BY DEF Arrived
    <3>1. r[1] \in Nat \ {0} /\ stage["array_gemm"].cmd.id = 0
      BY <1>2, RowTypes DEF Stages, NoCmd
    <3>2. QED
      BY <3>1 DEF Shifted
  <2>2. \A S : Sums({} \ S) = EmptyBag
    <3>1. \A S : {} \ S = {}
      OBVIOUS
    <3>2. {<<r, r>> : r \in {}} = {}
      OBVIOUS
    <3>3. QED
      BY <3>1, <3>2 DEF Sums, EmptyBag
  <2>3. psum = [buf \in {0, 1} |-> [i \in Lanes |-> [j \in Lanes |-> EmptyBag]]]
    BY DEF Init
  <2>4. \A p, i, j : Sums(Arrived(p, i) \ Behind(i + j)) = EmptyBag
    BY <2>1, <2>2
  <2>5. QED
    BY <2>3, <2>4 DEF Accumulated
<1>12. QED
  BY <1>1, <1>3, <1>4, <1>5, <1>7, <1>8, <1>9, <1>10, <1>11 DEF Placed

LEMMA PlacedNext == ASSUME Paced PROVE Placed /\ [Next]_vars => Placed'
<1> SUFFICES ASSUME Placed, [Next]_vars PROVE Placed'
  OBVIOUS
<1> USE DEF Placed
<1>1. StreamStep'
  BY StreamNext
<1>2. Orders' /\ DrainPlace'
  BY OrdersNext, DrainPlaceNext
<1>3. ArrayAt' /\ FlushWaits'
  BY ArrayAtNext, FlushWaitsNext
<1>4. Diagonals' /\ Skews'
  BY DiagonalsNext, SkewsNext
<1>5. InArray'
  BY InArrayNext
<1>6. DrainBalanced' /\ DrainAt'
  BY DrainBalancedNext, DrainAtNext
<1>7. QED
  BY <1>1, <1>2, <1>3, <1>4, <1>5, <1>6

LEMMA ChainsClosedInPsum == ASSUME IssuerWaits PROVE Placed /\ Accumulated => FlushClosesChain
<1> SUFFICES ASSUME Placed, Accumulated, NEW d \in Drains,
                    \A e \in 1 .. d - 1 : Program[e].psum_index = Program[d].psum_index => is_complete(e),
                    drain.id # d, ~ is_drain_complete(d), NEW i \in Lanes, NEW j \in Lanes
             PROVE  psum[Program[d].psum_index][i][j] = Array!Product(d)
  BY DEF FlushClosesChain
<1>0. EngineTypes /\ StreamStep
  BY DEF Placed, StreamStep
<1>1. d \in Nat /\ last_drain_completed_id \in Nat /\ last_drain_completed_id < d
  BY <1>0, FrontTypes, IdsAreNumbers DEF is_drain_complete
<1>2. GemmsComplete(d)
  BY <1>1, IdsAreNumbers DEF GemmsComplete, is_complete, is_gemm_complete, Gemms
<1>3. DrainsComplete(d)
  BY <1>1, IdsAreNumbers DEF DrainsComplete, is_complete, is_drain_complete, Drains
<1>4. ~ PassedBy(d, i)
  <2> SUFFICES ASSUME PassedBy(d, i) PROVE FALSE
    OBVIOUS
  <2>1. d <= stage["array_drain"].cmd.id
    BY <1>0, PassedIssued DEF Placed
  <2>2. stage["array_drain"].cmd.id \in {last_drain_completed_id, drain.id}
    BY DEF Placed, DrainAt, CommandAt
  <2>3. stage["array_drain"].cmd.id = drain.id /\ drain.id \in Nat /\ drain.id # 0
    BY <1>0, <1>1, <2>1, <2>2, FrontTypes
  <2>4. d < drain.id /\ NoneBetween(Drains, last_drain_completed_id, drain.id)
    BY <1>1, <2>1, <2>3 DEF Placed, Orders, DrainsInOrder
  <2>5. QED
    BY <1>1, <2>4 DEF NoneBetween
<1>5. QED
  BY <1>1, <1>2, <1>3, <1>4, ChainInPsum

-----------------------------------------------------------------------------
(* What the drains write *)

(* The scaler's command is that of the drain whose row it scales. *)
LEMMA ScalingIs ==
  ASSUME EngineTypes, DrainPlace, DrainBalanced, DrainAt, Left("scaler") # 0
  PROVE  stage["scaler"].cmd.id = drain.id /\ drain.id \in Drains
<1>1. /\ Left("scaler") \in Nat /\ Ordered("scaler_cmd") \in Nat
      /\ Full(chan["scaler_to_c"]) \in Nat
      /\ drain.row \in Nat /\ DIM \in Nat /\ DIM >= 2
  BY DrainCounts
<1>2. ToRead({"scaler_to_c", "c_done"}) >= Left("scaler") + Ordered("scaler_cmd")
  BY <1>1 DEF DrainBalanced
<1>3. drain.step \in {"scaler_to_c", "c_done"}
  <2> SUFFICES ASSUME drain.step \notin {"scaler_to_c", "c_done"} PROVE FALSE
    OBVIOUS
  <2>1. ToRead({"scaler_to_c", "c_done"}) = 0
    BY DEF ToRead
  <2>2. QED
    BY <1>1, <1>2, <2>1
<1>4. ToRead({"scaler_to_c", "c_done"}) <= DIM /\ ToRead({"scaler_to_c", "c_done"}) \in Int
  BY <1>1, <1>3 DEF ToRead
<1>5. cmd["scaler_cmd"] = << >>
  <2> SUFFICES ASSUME cmd["scaler_cmd"] # << >> PROVE FALSE
    OBVIOUS
  <2>1. Ordered("scaler_cmd") = DIM
    BY DEF DrainAt, CommandAt, Ordered, DrainCmd
  <2>2. QED
    BY <1>1, <1>2, <1>4, <2>1
<1>6. drain.id \in Drains
  BY <1>3 DEF DrainPlace, EngineTypes
<1>7. QED
  BY <1>3, <1>5, <1>6 DEF DrainAt, CommandAt

(* Before its commands and after its last row, nothing of a drain is under *)
(* way.                                                                    *)
LEMMA NothingUnderWay ==
  ASSUME EngineTypes, DrainPlace, DrainBalanced,
         \/ drain.step \in {"dequeue", "drain_cmd"}
         \/ drain.step = "c_done" /\ drain.row + 1 = DIM
  PROVE  /\ stage["array_drain"].held = << >> /\ stage["scaler"].held = << >>
         /\ chan["pe_array_to_scaler"] = << >> /\ chan["scaler_to_c"] = << >>
<1>1. /\ Left("array_drain") \in Nat /\ Left("scaler") \in Nat
      /\ Ordered("drain_cmd") \in Nat /\ Ordered("scaler_cmd") \in Nat
      /\ \A q : Full(q) \in 0 .. 1
      /\ drain.row \in Nat /\ DIM \in Nat /\ DIM >= 2
  BY DrainCounts
<1>2. ToRead({"scaler_cmd", "scaler_to_c", "c_done"}) = 0
  <2>1. CASE drain.step \in {"dequeue", "drain_cmd"}
    BY <2>1 DEF ToRead
  <2>2. CASE drain.step = "c_done" /\ drain.row + 1 = DIM
    BY <1>1, <2>2 DEF ToRead
  <2>3. QED
    BY <2>1, <2>2
<1>3. /\ Left("array_drain") = 0
      /\ Full(chan["pe_array_to_scaler"]) = 0 /\ Full(chan["scaler_to_c"]) = 0
      /\ Full(stage["scaler"].held) = 0
  <2>1. /\ Full(chan["pe_array_to_scaler"]) \in Nat /\ Full(chan["scaler_to_c"]) \in Nat
        /\ Full(stage["scaler"].held) \in Nat
    BY <1>1
  <2>2. QED
    BY <1>1, <1>2, <2>1 DEF DrainBalanced
<1>4. /\ chan["pe_array_to_scaler"] = << >> /\ chan["scaler_to_c"] = << >>
      /\ stage["scaler"].held = << >>
  BY <1>3 DEF Full
<1>5. stage["array_drain"].held = << >>
  <2>1. ~ (stage["array_drain"].row < stage["array_drain"].cmd.rows)
    <3>1. stage["array_drain"].row \in Nat /\ stage["array_drain"].cmd.rows \in Nat
      BY StageTypesOf DEF Stages
    <3>2. QED
      BY <1>3, <3>1 DEF Left
  <2>2. QED
    BY <2>1 DEF EngineTypes, StageTypes, Stages
<1>6. QED
  BY <1>4, <1>5

(* A row is shifted out when its chain is through the array. *)
LEMMA RowShiftedOut ==
  ASSUME IssuerWaits, Placed, Accumulated, ArrayShiftOut
  PROVE  stage'["array_drain"].held = <<ProductOf(drain.id)>>
<1> DEFINE s == stage["array_drain"]
<1>0. EngineTypes /\ StreamStep /\ DIM \in Nat
  BY SizeAssumption DEF Placed, StreamStep
<1>1. PICK d, p, i : d = drain.id /\ p = s.cmd.psum_index /\ i = s.row
  OBVIOUS
<1>2. s.held = << >> /\ s.row < s.cmd.rows /\ stage'["array_drain"].held = <<psum[p][i]>>
  BY <1>0, <1>1, ShiftsOut
<1>3. s.row \in Nat /\ s.cmd.rows \in Nat
  BY <1>0, StageTypesOf DEF Stages
<1>4. Left("array_drain") # 0
  BY <1>2, <1>3 DEF Left
<1>5. /\ s.cmd = DrainCmd(d) /\ d \in Drains /\ d \in Nat \ {0} /\ last_drain_completed_id < d
      /\ NoneBetween(Drains, last_drain_completed_id, d)
  BY <1>0, <1>1, <1>4, DrainingIs DEF Placed
<1>6. p = Program[d].psum_index /\ p \in {0, 1} /\ i \in Lanes
  <2>1. p = Program[d].psum_index /\ s.cmd.rows = DIM
    BY <1>1, <1>5 DEF DrainCmd
  <2>2. QED
    BY <1>0, <1>1, <1>2, <1>3, <1>5, <2>1, Programs, IdsAreNumbers DEF Lanes
<1>7. d <= issued
  <2>1. DrainFront <= issued
    BY DEF Placed, Orders, DrainsInOrder, InOrder
  <2>2. QED
    BY <1>1, <1>5, <2>1 DEF DrainFront
<1>8. GemmsComplete(d)
  BY <1>0, <1>5, <1>7, DrainWaited DEF Placed
<1>9. DrainsComplete(d)
  <2> SUFFICES ASSUME NEW e \in Drains, e < d PROVE e <= last_drain_completed_id
    BY DEF DrainsComplete
  <2>1. e \in Nat /\ last_drain_completed_id \in Nat /\ ~ (last_drain_completed_id < e)
    BY <1>0, <1>5, FrontTypes, IdsAreNumbers DEF NoneBetween
  <2>2. QED
    BY <2>1
<1>10. ~ PassedBy(d, i)
  <2>1. s.cmd.id = d
    BY <1>5 DEF DrainCmd
  <2>2. QED
    BY <1>1, <1>2, <1>3, <1>5, <2>1 DEF PassedBy
<1>11. ASSUME NEW j \in Lanes PROVE psum[p][i][j] = Array!Product(d)
  BY <1>5, <1>6, <1>8, <1>9, <1>10, ChainInPsum
<1>12. psum[p][i] = [j \in Lanes |-> psum[p][i][j]]
  <2>1. psum[p][i] = [j \in Lanes |-> Sums(Arrived(p, i) \ Behind(i + j))]
    BY <1>6 DEF Accumulated
  <2>2. QED
    BY <2>1
<1>13. psum[p][i] = ProductOf(d)
  BY <1>11, <1>12, Zenon DEF ProductOf
<1>14. QED
  BY <1>1, <1>2, <1>13

(* A row on its way is of the drain under way. *)
LEMMA UnderWayNext ==
  ASSUME IssuerWaits, Placed, Accumulated, Drained, [Next]_vars
  PROVE  UnderWay'
<1>0. EngineTypes /\ StreamStep /\ UnderWay
  BY DEF Placed, StreamStep, Drained
<1> DEFINE places == <<stage["array_drain"].held, chan["pe_array_to_scaler"],
                       stage["scaler"].held, chan["scaler_to_c"]>>
<1>1. ASSUME UNCHANGED drain.id, UNCHANGED places PROVE UnderWay'
  BY <1>0, <1>1 DEF UnderWay
<1>2. ASSUME UNCHANGED places,
             places = << << >>, << >>, << >>, << >> >>
      PROVE  UnderWay'
  BY <1>2 DEF UnderWay
<1>3. CASE UNCHANGED drainSide
  BY <1>1, <1>3 DEF drainSide
<1>4. CASE DrainThread
  <2>1. UNCHANGED stage
    BY <1>4 DEF DrainThread, DrainDequeue, DrainCommand, DrainRow, DrainNext
  <2>2. CASE DrainRow
    <3>1. /\ chan'["scaler_to_c"] = << >> /\ drain'.id = drain.id
          /\ chan'["pe_array_to_scaler"] = chan["pe_array_to_scaler"]
      BY <1>0, <2>2 DEF DrainRow, EngineTypes, Chans
    <3>2. QED
      BY <1>0, <2>1, <3>1 DEF UnderWay
  <2>3. CASE ~ DrainRow
    <3>1. UNCHANGED chan
      BY <1>4, <2>3 DEF DrainThread, DrainDequeue, DrainCommand, DrainNext
    <3>2. UNCHANGED places
      BY <2>1, <3>1
    <3>3. \/ drain'.id = drain.id
          \/ drain.step = "dequeue"
          \/ drain.step = "c_done" /\ drain.row + 1 = DIM
      BY <1>0, <1>4, DrainFields DEF Placed
    <3>4. drain'.id # drain.id => places = << << >>, << >>, << >>, << >> >>
      BY <1>0, <3>3, NothingUnderWay DEF Placed
    <3>5. QED
      BY <1>1, <1>2, <3>2, <3>4
  <2>4. QED
    BY <2>2, <2>3
<1>5. CASE ~ DrainThread /\ ~ UNCHANGED drainSide
  <2>1. UNCHANGED drain
    BY <1>5, WhoseStep DEF Issue, execVars, drainVars
  <2>2. CASE ArrayShiftOut
    <3>1. stage'["array_drain"].held = <<ProductOf(drain.id)>>
      BY <2>2, RowShiftedOut
    <3>2. stage'["scaler"] = stage["scaler"] /\ UNCHANGED chan
      BY <1>0, <2>2, ShiftsOut DEF Stages
    <3>3. PICK d : d = drain.id /\ d = drain'.id
      BY <2>1
    <3>4. QED
      BY <1>0, <2>1, <3>1, <3>2, <3>3 DEF UnderWay
  <2>3. CASE ScalerScale
    <3>1. /\ stage["scaler"].row < stage["scaler"].cmd.rows
          /\ chan["pe_array_to_scaler"] # << >> /\ chan'["pe_array_to_scaler"] = << >>
          /\ stage'["scaler"].held =
               <<[acc |-> Head(chan["pe_array_to_scaler"]), scale_factor |-> stage["scaler"].cmd.id]>>
          /\ stage'["array_drain"] = stage["array_drain"] /\ chan'["scaler_to_c"] = chan["scaler_to_c"]
      BY <1>0, <2>3, ScalerScales DEF Stages, Chans
    <3>2. stage["scaler"].cmd.id = drain.id /\ drain.id \in Drains
      <4>1. stage["scaler"].row \in Nat /\ stage["scaler"].cmd.rows \in Nat
        BY <1>0, StageTypesOf DEF Stages
      <4>2. Left("scaler") # 0
        BY <3>1, <4>1 DEF Left
      <4>3. QED
        BY <1>0, <4>2, ScalingIs DEF Placed
    <3>3. Head(chan["pe_array_to_scaler"]) = ProductOf(drain.id)
      BY <1>0, <3>1 DEF UnderWay
    <3>4. Array!ProductRow(drain.id) = [acc |-> ProductOf(drain.id), scale_factor |-> drain.id]
      BY ArrayNames DEF Array!ProductRow, ProductOf
    <3>5. stage'["scaler"].held = <<Array!ProductRow(drain.id)>>
      BY <3>1, <3>2, <3>3, <3>4
    <3>6. QED
      BY <1>0, <2>1, <3>1, <3>5 DEF UnderWay
  <2>4. ASSUME NEW s \in {"array_drain", "scaler"}, StageCommand(s) PROVE UnderWay'
    <3>1. /\ stage[s].held = << >> /\ stage'[s].held = << >> /\ UNCHANGED chan
          /\ \A t \in Stages \ {s} : stage'[t] = stage[t]
      BY <1>0, <2>4, CommandTaken DEF Stages, StageCommand
    <3>2. UNCHANGED places
      BY <3>1 DEF Stages
    <3>3. QED
      BY <1>1, <2>1, <3>2
  <2>5. CASE StageWrite("array_drain")
    <3>1. /\ stage["array_drain"].held # << >> /\ stage'["array_drain"].held = << >>
          /\ chan'["pe_array_to_scaler"] = stage["array_drain"].held
          /\ stage'["scaler"] = stage["scaler"] /\ chan'["scaler_to_c"] = chan["scaler_to_c"]
      BY <1>0, <2>5, PassedOn, Wiring DEF Stages, Chans
    <3>2. QED
      BY <1>0, <2>1, <3>1 DEF UnderWay
  <2>6. CASE StageWrite("scaler")
    <3>1. /\ stage["scaler"].held # << >> /\ stage'["scaler"].held = << >>
          /\ chan'["scaler_to_c"] = stage["scaler"].held
          /\ stage'["array_drain"] = stage["array_drain"]
          /\ chan'["pe_array_to_scaler"] = chan["pe_array_to_scaler"]
      BY <1>0, <2>6, PassedOn, Wiring DEF Stages, Chans
    <3>2. QED
      BY <1>0, <2>1, <3>1 DEF UnderWay
  <2>7. QED
    BY <1>0, <1>5, <2>2, <2>3, <2>4, <2>5, <2>6, DrainSideSteps
<1>6. QED
  BY <1>3, <1>4, <1>5

(* Only DrainRow writes a row. *)
LEMMA WrittenKeeps ==
  ASSUME Placed, [Next]_vars, ~ DrainRow, NEW d \in Drains, NEW row \in Lanes
  PROVE  Written(d, row)' <=> Written(d, row)
<1>0. EngineTypes /\ d \in Nat \ {0} /\ row \in Nat /\ row < DIM /\ DIM \in Nat
      /\ drain.row \in Nat /\ drain.id \in Nat /\ last_drain_completed_id \in Nat
  <2>1. EngineTypes
    BY DEF Placed, StreamStep
  <2>2. drain.row \in Nat
    BY <2>1 DEF EngineTypes
  <2>3. d \in Nat \ {0}
    BY IdsAreNumbers
  <2>4. drain.id \in Nat /\ last_drain_completed_id \in Nat
    BY <2>1, FrontTypes
  <2>5. DIM \in Nat /\ row \in Nat /\ row < DIM
    BY SizeAssumption DEF Lanes
  <2>6. QED
    BY <2>1, <2>2, <2>3, <2>4, <2>5
<1>1. CASE UNCHANGED <<drain, last_drain_completed_id>>
  BY <1>1 DEF Written
<1>2. CASE DrainThread
  <2>1. CASE DrainDequeue /\ drain.step = "dequeue" /\ drain'.step = "drain_cmd" /\ drain'.row = 0
             /\ UNCHANGED last_drain_completed_id
    <3>1. drain.id = 0
      BY <2>1 DEF Placed, DrainPlace
    <3>2. QED
      BY <1>0, <2>1, <3>1 DEF Written
  <2>2. CASE /\ drain.step \in {"drain_cmd", "scaler_cmd"} /\ drain'.step # "c_done"
             /\ drain'.row = 0 /\ drain.row = 0 /\ drain'.id = drain.id
             /\ UNCHANGED last_drain_completed_id
    BY <2>2 DEF Written
  <2>3. CASE /\ drain.step = "c_done" /\ drain'.step = "scaler_to_c" /\ drain'.row = drain.row + 1
             /\ drain'.id = drain.id /\ UNCHANGED last_drain_completed_id
    <3>1. row < drain.row + 1 <=> row < drain.row \/ row = drain.row
      BY <1>0
    <3>2. QED
      BY <2>3, <3>1 DEF Written
  <2>4. CASE /\ drain.step = "c_done" /\ drain' = Idle /\ drain.row + 1 = DIM
             /\ last_drain_completed_id' = drain.id /\ drain.id \in Drains
    <3>1. Written(d, row)' <=> d <= drain.id
      BY <1>0, <2>4 DEF Written, Idle
    <3>2. row < drain.row \/ row = drain.row
      BY <1>0, <2>4
    <3>3. Written(d, row) <=> d <= last_drain_completed_id \/ d = drain.id
      BY <2>4, <3>2 DEF Written
    <3>4. drain.id # 0
      BY <2>4 DEF Placed, DrainPlace
    <3>5. NoneBetween(Drains, last_drain_completed_id, drain.id)
      BY <3>4 DEF Placed, Orders, DrainsInOrder
    <3>6. QED
      BY <1>0, <3>1, <3>3, <3>5 DEF NoneBetween
  <2>5. QED
    BY <1>0, <1>2, <2>1, <2>2, <2>3, <2>4, DrainFields DEF Placed
<1>3. QED
  BY <1>0, <1>1, <1>2, WhoseStep DEF Issue, execVars, drainVars

(* The row that DrainRow writes *)
LEMMA RowWritten ==
  ASSUME Placed, Drained, DrainRow
  PROVE  /\ drain.id \in Drains /\ drain.row \in Lanes /\ ~ Written(drain.id, drain.row)
         /\ C' = [C EXCEPT ![drain.id][drain.row] = Array!ProductRow(drain.id)]
         /\ \A d \in Drains, row \in Lanes :
              Written(d, row)' <=> Written(d, row) \/ (d = drain.id /\ row = drain.row)
<1>0. EngineTypes /\ drain.row \in Nat /\ DIM \in Nat
  BY SizeAssumption DEF Placed, StreamStep, EngineTypes
<1>1. /\ drain.step = "scaler_to_c" /\ drain'.step = "c_done" /\ drain'.row = drain.row
      /\ drain'.id = drain.id /\ UNCHANGED last_drain_completed_id
      /\ C' = [C EXCEPT ![drain.id][drain.row] = Head(chan["scaler_to_c"])]
      /\ chan["scaler_to_c"] # << >>
  BY <1>0 DEF DrainRow, EngineTypes
<1>2. drain.id \in Drains /\ drain.id # 0 /\ drain.row < DIM
  BY <1>0, <1>1 DEF Placed, DrainPlace, EngineTypes
<1>3. drain.row \in Lanes
  BY <1>0, <1>2 DEF Lanes
<1>4. Head(chan["scaler_to_c"]) = Array!ProductRow(drain.id)
  BY <1>1 DEF Drained, UnderWay
<1>5. last_drain_completed_id < drain.id /\ last_drain_completed_id \in Nat /\ drain.id \in Nat
  BY <1>0, <1>2, FrontTypes DEF Placed, Orders, DrainsInOrder, NoneBetween
<1>6. ~ Written(drain.id, drain.row)
  BY <1>0, <1>1, <1>5 DEF Written
<1>7. \A d \in Drains, row \in Lanes :
        Written(d, row)' <=> Written(d, row) \/ (d = drain.id /\ row = drain.row)
  BY <1>1 DEF Written
<1>8. QED
  BY <1>1, <1>2, <1>3, <1>4, <1>6, <1>7

LEMMA DrainedNext ==
  ASSUME IssuerWaits, Placed, Accumulated, Drained, [Next]_vars
  PROVE  Drained'
<1>1. UnderWay'
  BY UnderWayNext
<1> DEFINE row_of(d, row) == IF Written(d, row) THEN Array!ProductRow(d) ELSE NULL
<1>2. C = [d \in Drains |-> [row \in Lanes |-> row_of(d, row)]]
  BY DEF Drained
<1>3. CASE DrainRow
  <2>1. PICK e, x : e = drain.id /\ x = drain.row
    OBVIOUS
  <2>2. /\ e \in Drains /\ x \in Lanes /\ C' = [C EXCEPT ![e][x] = Array!ProductRow(e)]
        /\ \A d \in Drains, row \in Lanes :
             Written(d, row)' <=> Written(d, row) \/ (d = e /\ row = x)
    BY <1>3, <2>1, RowWritten
  <2>3. \A d \in Drains, row \in Lanes :
          row_of(d, row)' = IF d = e /\ row = x THEN Array!ProductRow(e) ELSE row_of(d, row)
    BY <2>2
  <2> HIDE DEF row_of
  <2>4. C' = [d \in Drains |-> [row \in Lanes |->
                IF d = e /\ row = x THEN Array!ProductRow(e) ELSE row_of(d, row)]]
    BY <1>2, <2>2
  <2>5. C' = [d \in Drains |-> [row \in Lanes |-> row_of(d, row)']]
    BY <2>3, <2>4, Zenon
  <2>6. QED
    BY <1>1, <2>5 DEF Drained, row_of
<1>4. CASE ~ DrainRow
  <2>1. UNCHANGED C
    <3>1. CASE UNCHANGED vars
      BY <3>1 DEF vars
    <3>2. CASE Issue \/ GemmThread \/ Tick
      BY <3>2 DEF Issue, GemmThread, GemmDequeue, GemmCommand, GemmRow, GemmWrite, GemmEnd, Tick,
                  drainVars
    <3>3. CASE DrainThread
      BY <1>4, <3>3 DEF DrainThread, DrainDequeue, DrainCommand, DrainNext
    <3>4. CASE ArrayThreads \/ ScalerScale
      BY <3>4 DEF ArrayThreads, ArrayReadA, ArrayShift, ArrayShiftOut, ScalerScale
    <3>5. ASSUME NEW s \in Stages, StageThread(s) PROVE UNCHANGED C
      BY <3>5 DEF StageThread, StageCommand, StageWrite, SkewShift
    <3>6. QED
      BY <3>1, <3>2, <3>3, <3>4, <3>5 DEF Next, Step
  <2>2. \A d \in Drains, row \in Lanes : row_of(d, row)' = row_of(d, row)
    BY <1>4, WrittenKeeps
  <2> HIDE DEF row_of
  <2>3. [d \in Drains |-> [row \in Lanes |-> row_of(d, row)]]
          = [d \in Drains |-> [row \in Lanes |-> row_of(d, row)']]
    BY <2>2, Zenon
  <2>4. QED
    BY <1>1, <1>2, <2>1, <2>3 DEF Drained, row_of
<1>5. QED
  BY <1>3, <1>4

LEMMA DrainedInit == Init => Drained
<1> SUFFICES ASSUME Init PROVE Drained
  OBVIOUS
<1>1. \A d \in Drains, row \in Lanes : ~ Written(d, row)
  <2>1. drain.id = 0 /\ last_drain_completed_id = 0
    BY DEF Init, Idle
  <2>2. QED
    BY <2>1, IdsAreNumbers DEF Written
<1>2. UnderWay
  BY DEF Init, UnderWay, Chans, Stages
<1>3. C = [d \in Drains |-> [row \in Lanes |->
             IF Written(d, row) THEN Array!ProductRow(d) ELSE NULL]]
  BY <1>1 DEF Init
<1>4. QED
  BY <1>2, <1>3 DEF Drained

-----------------------------------------------------------------------------
(* The engine does what isa.h promises. *)

Done == {id \in 1 .. issued : is_complete(id)}

LEMMA ArrayIs ==
  /\ Array!vars = <<issued, Done, C>> /\ Array!vars' = <<issued, Done, C>>'
  BY DEF Array!vars, Done

LEMMA LastsIssued ==
  ASSUME EngineTypes, Orders
  PROVE  last_gemm_completed_id <= issued /\ last_drain_completed_id <= issued
<1>1. /\ gemm.id # 0 => last_gemm_completed_id < gemm.id
      /\ drain.id # 0 => last_drain_completed_id < drain.id
      /\ GemmFront <= issued /\ DrainFront <= issued
  BY DEF Orders, GemmsInOrder, DrainsInOrder, NoneBetween, InOrder
<1>2. QED
  BY <1>1, FrontTypes DEF GemmFront, DrainFront

(* An instruction of either kind completes after all before it of its kind. *)
LEMMA CompletesNext ==
  ASSUME EngineTypes, UNCHANGED issued, NEW id \in Ids, id <= issued,
         NEW S, S = {e \in Ids : Program[e].op = Program[id].op},
         NEW last \in Nat, NoneBetween(S, last, id),
         \A e \in S : is_complete(e) <=> e <= last,
         \A e \in S : is_complete(e)' <=> e <= id,
         \A e \in Ids \ S : is_complete(e)' <=> is_complete(e)
  PROVE  /\ id \notin Done /\ Done' = Done \cup {id}
         /\ \A e \in 1 .. id - 1 : Program[e].op = Program[id].op => e \in Done
<1>1. Ids \subseteq Nat \ {0} /\ issued \in Nat /\ 1 .. issued \subseteq Ids
  BY Programs, FrontTypes DEF EngineTypes, Ids
<1>2. /\ \A e \in S : e <= id <=> e <= last \/ e = id
      /\ id \in S /\ ~ is_complete(id)
  BY <1>1 DEF NoneBetween
<1>3. \A e \in Ids : is_complete(e)' <=> is_complete(e) \/ e = id
  BY <1>2
<1>4. id \notin Done /\ Done' = Done \cup {id}
  <2>1. id \in 1 .. issued
    BY <1>1
  <2>2. Done' = {e \in 1 .. issued : is_complete(e)'}
    BY DEF Done
  <2>3. \A e \in 1 .. issued : is_complete(e)' <=> is_complete(e) \/ e = id
    BY <1>1, <1>3
  <2>4. QED
    BY <1>2, <2>1, <2>2, <2>3 DEF Done
<1>5. ASSUME NEW e \in 1 .. id - 1, Program[e].op = Program[id].op PROVE e \in Done
  <2>1. e \in Ids /\ e \in Nat \ {0} /\ e < id /\ e \in 1 .. issued
    BY <1>1 DEF Ids
  <2>2. e \in S /\ e <= last
    BY <1>2, <1>5, <2>1
  <2>3. QED
    BY <2>1, <2>2 DEF Done
<1>6. QED
  BY <1>4, <1>5

LEMMA EngineInitially == Init => Array!Init
<1> SUFFICES ASSUME Init PROVE Array!Init
  OBVIOUS
<1>1. issued = 0 /\ C = [d \in Drains |-> [row \in Lanes |-> NULL]]
  BY DEF Init
<1>2. Done = {}
  BY <1>1 DEF Done
<1>3. QED
  BY <1>1, <1>2, ArrayNames DEF Array!Init, Done

LEMMA CompleteSame ==
  ASSUME UNCHANGED <<last_gemm_completed_id, last_drain_completed_id>>
  PROVE  \A id : is_complete(id)' <=> is_complete(id)
  BY DEF is_complete, is_gemm_complete, is_drain_complete

LEMMA EngineStep ==
  ASSUME IssuerWaits, Placed, Accumulated, Drained, [Next]_vars
  PROVE  [Array!Next]_(Array!vars)
<1>0. /\ EngineTypes /\ StreamStep /\ GemmPlace /\ issued \in Nat /\ Ids \subseteq Nat \ {0}
      /\ last_gemm_completed_id \in Nat /\ last_drain_completed_id \in Nat
  BY FrontTypes, Programs DEF Placed, StreamStep, InStream, Ids
<1> DEFINE same == UNCHANGED <<issued, Done, C>>
<1>1. same => [Array!Next]_(Array!vars)
  BY ArrayIs
<1>2. ASSUME UNCHANGED <<issued, last_gemm_completed_id, last_drain_completed_id>>
      PROVE  UNCHANGED Done
  BY <1>2, CompleteSame DEF Done
<1> HIDE DEF Done
<1>3. CASE Issue
  <2>1. /\ issued < Len(Program) /\ issued' = issued + 1 /\ issued + 1 \in Ids
        /\ UNCHANGED <<C, last_gemm_completed_id, last_drain_completed_id>>
    BY <1>0, <1>3, Programs DEF Issue, Ids
  <2>2. ~ is_complete(issued + 1)
    <3>1. last_gemm_completed_id <= issued /\ last_drain_completed_id <= issued
      BY <1>0, LastsIssued DEF Placed
    <3>2. QED
      BY <1>0, <3>1 DEF is_complete, is_gemm_complete, is_drain_complete
  <2>3. 1 .. issued + 1 = (1 .. issued) \cup {issued + 1}
    BY <1>0
  <2>4. Done' = Done
    BY <2>1, <2>2, <2>3, CompleteSame DEF Done
  <2>5. Array!Issue
    BY <2>1, <2>4 DEF Array!Issue, Done
  <2>6. QED
    BY <2>5 DEF Array!Next
<1>4. CASE GemmThread /\ UNCHANGED <<issued, drainVars>>
  <2>1. CASE GemmEnd
    <3>1. PICK id : id = gemm.id
      OBVIOUS
    <3>2. /\ gemm.step = "end" /\ last_gemm_completed_id' = id
          /\ UNCHANGED <<issued, C, last_drain_completed_id>>
      BY <1>4, <2>1, <3>1 DEF GemmEnd, drainVars
    <3>3. id \in Gemms /\ id # 0
      BY <1>0, <3>1, <3>2 DEF GemmPlace, EngineTypes
    <3>4. id <= issued /\ NoneBetween(Gemms, last_gemm_completed_id, id)
      BY <3>1, <3>3 DEF Placed, Orders, GemmsInOrder, InOrder, GemmFront
    <3>5. /\ Gemms = {e \in Ids : Program[e].op = "gemm"} /\ id \in Ids /\ id \notin Drains
          /\ \A e \in Gemms : is_complete(e) <=> e <= last_gemm_completed_id
          /\ \A e \in Gemms : is_complete(e)' <=> e <= last_gemm_completed_id'
          /\ \A e \in Ids \ Gemms : is_complete(e)' <=> is_complete(e)
      BY <3>2, <3>3, IdsAreNumbers DEF Gemms, is_complete, is_gemm_complete, is_drain_complete
    <3>6. PICK last \in Nat : last = last_gemm_completed_id
      BY <1>0
    <3>7. /\ id \notin Done /\ Done' = Done \cup {id}
          /\ \A e \in 1 .. id - 1 : Program[e].op = Program[id].op => e \in Done
      <4>1. /\ NoneBetween(Gemms, last, id)
            /\ Gemms = {e \in Ids : Program[e].op = Program[id].op}
            /\ \A e \in Gemms : is_complete(e) <=> e <= last
            /\ \A e \in Gemms : is_complete(e)' <=> e <= id
        BY <3>2, <3>3, <3>4, <3>5, <3>6 DEF Gemms
      <4>2. QED
        BY <1>0, <3>2, <3>4, <3>5, <4>1, CompletesNext
    <3>8. Array!Complete(id)
      BY <3>2, <3>4, <3>5, <3>7, ArrayNames DEF Array!Complete, Done
    <3>9. QED
      BY <3>5, <3>8, ArrayNames DEF Array!Next
  <2>2. CASE ~ GemmEnd
    <3>1. UNCHANGED <<issued, C, last_gemm_completed_id, last_drain_completed_id>>
      BY <1>4, <2>2 DEF GemmThread, GemmDequeue, GemmCommand, GemmRow, GemmWrite, drainVars
    <3>2. QED
      BY <1>1, <1>2, <3>1
  <2>3. QED
    BY <2>1, <2>2
<1>5. CASE DrainThread /\ UNCHANGED <<issued, gemmVars>>
  <2>1. CASE DrainRow
    <3>1. PICK d, row : d = drain.id /\ row = drain.row
      OBVIOUS
    <3>2. /\ d \in Drains /\ row \in Lanes /\ ~ Written(d, row)
          /\ C' = [C EXCEPT ![d][row] = Array!ProductRow(d)]
      BY <2>1, <3>1, RowWritten
    <3>3. UNCHANGED <<issued, last_gemm_completed_id, last_drain_completed_id>>
      BY <2>1 DEF DrainRow, gemmVars
    <3>4. C[d][row] = NULL
      BY <3>2 DEF Drained
    <3>5. d <= issued
      BY <3>1, <3>2, IdsAreNumbers DEF Placed, Orders, DrainsInOrder, InOrder, DrainFront
    <3>6. ASSUME NEW g \in Array!ChainOf(d) PROVE g \in Done
      <4>1. g \in Gemms /\ g < d /\ Program[g].psum_index = Program[d].psum_index
        BY ArrayNames DEF Array!ChainOf
      <4>2. g <= last_gemm_completed_id
        BY <1>0, <3>2, <3>5, <4>1, DrainWaited DEF GemmsComplete, Placed
      <4>3. g \in 1 .. issued
        BY <1>0, <3>2, <3>5, <4>1, IdsAreNumbers
      <4>4. QED
        BY <4>1, <4>2, <4>3 DEF Done, Gemms, is_complete, is_gemm_complete
    <3>7. UNCHANGED Done
      BY <1>2, <3>3
    <3>8. Array!WriteRow(d, row)
      BY <3>2, <3>3, <3>4, <3>5, <3>6, <3>7 DEF Array!WriteRow, Done
    <3>9. QED
      BY <3>2, <3>8, ArrayNames DEF Array!Next
  <2>2. CASE DrainNext /\ drain.step = "c_done" /\ drain' = Idle /\ drain.row + 1 = DIM
             /\ last_drain_completed_id' = drain.id /\ drain.id \in Drains
    <3>1. PICK id : id = drain.id
      OBVIOUS
    <3>2. /\ last_drain_completed_id' = id /\ id \in Drains
          /\ UNCHANGED <<issued, C, last_gemm_completed_id>>
      BY <2>2, <3>1 DEF DrainNext, gemmVars
    <3>3. id # 0
      BY <3>2, IdsAreNumbers
    <3>4. id <= issued /\ NoneBetween(Drains, last_drain_completed_id, id)
      BY <3>1, <3>3 DEF Placed, Orders, DrainsInOrder, InOrder, DrainFront
    <3>5. /\ Drains = {e \in Ids : Program[e].op = "drain"} /\ id \in Ids
          /\ \A e \in Drains : is_complete(e) <=> e <= last_drain_completed_id
          /\ \A e \in Drains : is_complete(e)' <=> e <= last_drain_completed_id'
          /\ \A e \in Ids \ Drains : is_complete(e)' <=> is_complete(e)
      <4>1. \A e \in Ids : Program[e].op = "gemm" \/ Program[e].op = "drain"
        BY Programs
      <4>2. QED
        BY <3>2, <4>1, IdsAreNumbers DEF Drains, is_complete, is_gemm_complete, is_drain_complete
    <3>6. PICK last \in Nat : last = last_drain_completed_id
      BY <1>0
    <3>7. /\ id \notin Done /\ Done' = Done \cup {id}
          /\ \A e \in 1 .. id - 1 : Program[e].op = Program[id].op => e \in Done
      <4>1. /\ NoneBetween(Drains, last, id)
            /\ Drains = {e \in Ids : Program[e].op = Program[id].op}
            /\ \A e \in Drains : is_complete(e) <=> e <= last
            /\ \A e \in Drains : is_complete(e)' <=> e <= id
        BY <3>2, <3>4, <3>5, <3>6 DEF Drains
      <4>2. QED
        BY <1>0, <3>2, <3>4, <3>5, <4>1, CompletesNext
    <3>8. ASSUME NEW row \in Lanes PROVE C[id][row] # NULL
      <4>1. drain.row \in Nat /\ row \in Nat /\ row < drain.row + 1
        BY <1>0, <2>2, SizeAssumption DEF EngineTypes, Lanes
      <4>2. Written(id, row)
        BY <2>2, <3>1, <4>1 DEF Written
      <4>3. C[id][row] = Array!ProductRow(id)
        BY <3>2, <4>2 DEF Drained
      <4>4. QED
        BY <3>2, <4>3, NullAssumption
    <3>9. Array!Complete(id)
      BY <3>2, <3>4, <3>7, <3>8, ArrayNames DEF Array!Complete, Done
    <3>10. QED
      BY <3>5, <3>9, ArrayNames DEF Array!Next
  <2>3. CASE ~ DrainRow /\ UNCHANGED last_drain_completed_id
    <3>1. UNCHANGED <<issued, C, last_gemm_completed_id, last_drain_completed_id>>
      BY <1>5, <2>3 DEF DrainThread, DrainDequeue, DrainCommand, DrainNext, gemmVars
    <3>2. QED
      BY <1>1, <1>2, <3>1
  <2>4. QED
    BY <1>0, <1>5, <2>1, <2>2, <2>3, DrainFields DEF Placed
<1>6. CASE UNCHANGED <<issued, execVars, C>>
  BY <1>1, <1>2, <1>6 DEF execVars
<1>7. QED
  BY <1>3, <1>4, <1>5, <1>6, WhoseStep

EngineInv == Placed /\ Accumulated /\ Drained

(* The invariant of the pipeline holds in every reachable state: rows are  *)
(* where gemm_thread's count of cycles puts them, psums hold what has      *)
(* passed their place, and drained rows the product of their chain.        *)
THEOREM EngineInvariant == ASSUME Paced, IssuerWaits PROVE Spec => []EngineInv
<1>1. Init => EngineInv
  BY PlacedInit, DrainedInit DEF EngineInv
<1>2. EngineInv /\ [Next]_vars => EngineInv'
  BY PlacedNext, AccumulatedNext, DrainedNext DEF EngineInv
<1>3. QED
  BY <1>1, <1>2, PTL DEF Spec

(* A flush is reported complete only when the array has accumulated the    *)
(* whole chain: when every earlier instruction on a drain's buffer is      *)
(* complete and the drain has not begun, each psum is the product of the   *)
(* chain.                                                                  *)
THEOREM ChainsInPsum == ASSUME Paced, IssuerWaits PROVE Spec => []FlushClosesChain
<1>1. EngineInv => FlushClosesChain
  BY ChainsClosedInPsum DEF EngineInv
<1>2. QED
  BY <1>1, EngineInvariant, PTL

(* The engine implements TileProduct: a drain writes every row of its      *)
(* chain's product once, scaled by its own factor, after the gemms of the  *)
(* chain are reported complete and before it is itself, and instructions   *)
(* of a kind complete in the order of issue.                               *)
THEOREM EngineIsTileProduct == ASSUME Paced, IssuerWaits PROVE Spec => Array!SafeSpec
<1>1. EngineInv /\ [Next]_vars => [Array!Next]_(Array!vars)
  BY EngineStep DEF EngineInv
<1>2. QED
  BY <1>1, EngineInitially, EngineInvariant, PTL DEF Spec, Array!SafeSpec
=============================================================================
