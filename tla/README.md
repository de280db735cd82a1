# A TLA+ model of SATS

SATS is a SystemC TLM-2.0 simulator of a systolic array accelerator: a stream of `mvin`, `mvout`,
`gemm` and `drain` instructions goes to three controllers, which share a banked scratchpad and a
DRAM, and the simulator reports how long it took. This directory holds TLA+ modules of its control,
configurations that check them with TLC on small instances, and theorems that TLAPS proves for
every instance. Paths below are relative to the repository (`src/` is its hardware model,
`testbench/` its schedulers).

    tlc -workers 2 -config MCMemoryArbiter.cfg MCMemoryArbiter
    tlapm MemoryArbiter_proofs.tla

## 1. The system

| component | state it keeps | operations | modelled in |
|---|---|---|---|
| **Top module** `src/module/top_module` | next instruction id, kind of each id, the fifos and command fifos between modules | `mvin/mvout/gemm/drain` (check operands, wait for room, number, issue), `has_room`, `is_complete`, `wait_complete`, the event `progress` | `IssuePort` (the blocking calls), `AddressRange` and `Scaling` (checks), `Scoreboard` (`progress`), `ExecEngine` (fifos), `SpadSystem` and `ExecSpad` (sockets), `TiledGemm` (bypass accessors) |
| **Memory arbiter** `src/module/memory_arbiter` | per bank: busy flag, initiator being served, FIFO of waiting requests, event `bank_freed` | forward-path handler, backward-path handler, `forward_pending` | `MemoryArbiter` |
| **Scratchpad** `src/module/spad_module`, `src/logic/spad_logic` | per bank: the payload handed over, an event, the rows | `nb_transport_fw`, `bank_thread` | `MemoryArbiter`, abstractly `BankedMemory` |
| **Load controller** `src/module/load_controller` | instruction FIFO, rows remaining per instruction, pools of row buffers and scratchpad credits, ready buffers, request tags | `issue`, `dram_read_thread`, `spad_write_thread`, two answer handlers | `LoadController`, abstractly `TileCopy`; on the arbiter in `SpadSystem` |
| **Store controller** `src/module/store_controller` | the same, in the other direction | `issue`, `spad_read_thread`, `dram_write_thread`, two answer handlers | `StoreController`, abstractly `TileCopy`; on the arbiter in `SpadSystem` |
| **Exec controller** `src/module/exec_controller` | two instruction FIFOs, last completed gemm and drain | `gemm_thread`, `drain_thread`, three answer handlers | `ExecEngine`, abstractly `TileProduct`; its sockets in `ExecSpad` |
| **Skew buffers, PE array, scaler** `src/module/{skew_buf,pe_array,scaler}_module`, `src/logic` | delay lines; A and B registers, two psum buffers; nothing | a thread each (two for the array): read a row, compute, write, wait | `ExecEngine`; the arithmetic of accumulator and scaler in `Scaling` |
| **Scoreboard** `testbench/helper/scoreboard.h` | `pending`, `in_flight` | `mvin`...`drain`, `fence`, `dispatch_loop` | `Scoreboard`, `AddressRange` |
| **Allocator** `testbench/helper/simple_spad_memory_allocator.h` | free slots per bank, resident tiles, LRU list | `acquire`, `lookup` | `SpadAllocator`, run by `TiledGemm` |
| **Schedulers** `testbench/scheduling/scheduler_{a,b,c}.h` | the program they issue, the matrices in DRAM | A blocking, B through the scoreboard, C hand-ordered with waits | `TiledGemm` (A, B, `run_thread`), `MCScoreboard` (B on the scoreboard), `ScheduleC` |
| **Test helpers** `testbench/helper/common.h` | - | padding, transposition, `dram_initialize`, `validate_gemm`, `quantize_scale` | `TiledGemm`, `Scaling` |
| DRAMSys (a submodule) | memory, timing | accepts requests, answers each once | external, inside `LoadController` and `StoreController` |
| tracer, viewer, `main.cpp`, the rest of `common.h` | files, random data | logging, drawing, option parsing, printing | not modelled |

**How they interact.** A scheduler's SystemC thread calls the scoreboard or the top module; the top
module writes to a controller's FIFO and is told by events (`room_freed`, `completed`, joined in
`progress`) when to look again. Controllers ask the arbiter through TLM sockets: a request to an idle
bank is forwarded in the same call, others queue; the bank's thread answers through the arbiter, in
a callback into the controller, which pushes to a pool and notifies a thread. The exec controller
feeds the array through fifos of depth one and has no feedback from it.

**What is hard.** SystemC processes are cooperative: nothing runs between two waits of a process.
All hazards are in what may happen *between* waits.

* Events are not remembered. A notification is lost if nobody waits when it fires (arbiter, both
  controllers, `fence`, `wait_complete`).
* A bank is freed one delta before its queued request is forwarded; a new request may arrive in
  between.
* Several rows, and rows of several instructions, are on their way at once; DRAM answers out of
  order; buffers, credits and payloads are reused.
* The exec controller computes *when* the array must be done instead of being told: the flush's row
  count and its pace have to match the pipeline's depth and times exactly.
* Two threads work on the scoreboard's `pending` and `in_flight`.
* 64-bit address arithmetic in checks and in comparisons of strided ranges; sums that wrap, a rounding
  constant and a shift at the ends of a word; a count of doublings in a byte.
* Several threads may call the top module: one free place of a FIFO wakes them all.
* Tiles come and go in the scratchpad while instructions that name their slots are still waiting.
* Scheduler C lets a gemm run into the psum buffer a drain is still emptying.

`PROJECT.json` lists each hazard with its line and the properties aimed at it.

**What makes each component correct.** Arbiter: one request per bank at a time, arrival order, each
answer to its sender, no request starves. Load and store: the row that arrives is the row asked for,
however buffers are reused; completion exactly after the last row; pools neither leak nor duplicate.
Exec: what a drain writes is exactly the product of its chain. Scoreboard: every instruction sees the
memory it would see if the program ran in order, and the program finishes. Checks and `overlap`: an
accepted operand lies in memory, and two operands conflict if and only if they share a place. Top module:
a call returns, with room for its instruction and a right answer to "complete?". Allocator: no two tiles share
a row, no slot is lost, a tile called resident is where it is said to be. Schedulers: DRAM ends with
the product, every operand is there when it is read. Arithmetic: what is stored is the exact sum times
the factor, rounded once and saturated.

## 2. Modules

```
SpadAddr            fields of a scratchpad address
  BankedMemory        abstract: a queue per bank
    ^ MemoryArbiter     arbiter + banks           MemoryArbiter_proofs   MCMemoryArbiter
  AddressRange        operand checks, overlap     Arithmetic_proofs      MCAddressRange
  SpadAllocator       slots, LRU, eviction
    TiledGemm           product tile by tile      TiledGemm_proofs       MCTiledGemm
Tiles               the rows that mvin and mvout move
  TileCopy            abstract: rows copied once, completion after the last
    ^ LoadController
    ^ StoreController
  SpadSystem          = both + MemoryArbiter      SpadSystem_proofs      MCSpadSystem
TileProduct         abstract: a drain writes its chain's product
    ^ ExecEngine        the exec pipeline         ExecEngine_proofs      MCExecEngine
ExecSpad            = exec threads' sockets     ExecSpad_proofs        MCExecSpad
                      + both others + MemoryArbiter
Scaling             accumulator, scaler, quantize Arithmetic_proofs      MCScaling
IssuePort           mvin..drain, wait_complete
  ScheduleC           scheduler C's program on it IssuePort_proofs       MCIssuePort
Scoreboard          scoreboard, accelerator       Scoreboard_proofs      MCScoreboard
                    (MCScoreboard takes scheduler B's programs from TiledGemm)
```

`A ^ B`: B implements A (`INSTANCE A WITH ...` in B, `A!Spec` as a PROPERTY of B's run). The MC modules
give constants their values; `MCScoreboard` also translates the programs. The load and the store controller
have no run of their own: `SpadSystem` runs them as they are on the real arbiter, where both must still implement
`TileCopy`.

**Conventions.** An action is what a process does from one `wait` to the next, except in `ExecEngine`,
where it is one blocking fifo operation, and for the scheduler's thread in `Scoreboard`, where it is
at most one instruction. A delta notification is a Boolean that is true while pending; its
consequence is an action of its own that clears it, so every process that is runnable in between may
run first. Definitions whose comment says *Mutant* are wrong variants of the definition they
precede (each named after it); nothing in a specification uses them. They show that the property
they are listed with in `PROJECT.json` fails when the code is wrong in that way.

**SpadAddr.** `BankOf`, `RowOffsetOf`, `ToFlat` and `FlatPlus` are `from_flat`, `to_flat` and `+` of
`SpadAddr` (`src/include/type.h`). The bit fields have exactly the width of the bank and row counts,
so the fields are remainders.

**MemoryArbiter.** `Request` is an initiator's call of the arbiter's `nb_transport_fw` (`RequestQueued`,
`RequestForwarded`), including the bank's `nb_transport_fw` it ends in. `BankAccess` and `BankDone` are the two
halves of `bank_thread`; `BankDone` includes the arbiter's `nb_transport_bw` and with it the initiator's
callback. `ForwardPending` is the method process. `bank_conflict` is set where the code raises
"Bank conflict". Initiators send requests freely, at most one per payload: that is what the
controllers' credits and single payloads give. A row is one value.

**BankedMemory.** What an initiator may believe: a FIFO per bank, the head takes effect once and is
answered. The refinement maps the queue to the request in the bank followed by the waiting ones.

**LoadController, StoreController.** One module each, one action per thread segment and per callback.
A segment serves as many rows as the pools allow (`ReadRows`, `WriteRows`), as the loop does. The
place a row comes from or goes to is the row's own name `<<instruction, index>>`, so a mixed-up
buffer, tag or address is visible as a wrong name at the destination; ordering of instructions
that write the same place is the issuer's business (`Scoreboard`). DRAM and the scratchpad answer any
request at any time in these modules; the scratchpad accesses the row buffer at a moment of its own between request and
answer, as it does in the code (the payload points at the buffer).

**TileCopy.** Rows are copied in any order, once each; an instruction completes after its last row;
both happen eventually.

**ExecEngine.** Time is part of the model, because the code relies on it: every thread has a
countdown (`sleep`) and `Tick` advances all of them when no thread can run. `gemm_thread` and
`drain_thread` are sequences of steps (`GemmDequeue`, `GemmCommand`, `GemmRow`, `GemmWrite`, `GemmEnd`; `Drain...`),
the other five threads share the scheme "command, then rows". An answer of the scratchpad takes the
access time plus 0..`MAX_QUEUED` ticks; the two reads of a row are one request, since the thread goes
on at the later. A psum is the bag of products added to it, so a product that is missing, doubled or
in the wrong buffer is visible; overflow of the accumulator is not. The contract of `isa.h` is an
assumption on the program (`ChainsClosed`): chains are flushed before the next. What the issuer waits for is
the constant `After`: `NoOverlap`, where a gemm and a drain on one buffer do not overlap, is what the scoreboard
enforces; the last chain of the run's program follows scheduler C's waits instead (`MCAfter`).

**TileProduct.** A drain writes, row by row, the product of the gemms since the last drain of its
buffer, with its own scale factor, and completes after its last row; every instruction completes.

**Scoreboard.** `pending` is the set of program places of the waiting instructions: the code's vector
is always in program order. `try_dispatch` is the whole loop at once; `Taken` says what it takes, which
does not change while it runs, because a dispatched instruction only moves from one place to the
other of the two that `blocked` looks at. `Issue`, `IssueWaits`, `CallFence` and `RunThread` are the scheduler's thread,
`DispatchLoop` the other one, `ProgressFires` the kernel. The accelerator (`Begin`, `ReadCells`, `Complete`) is
what the controllers promise: a FIFO per kind, no order between kinds, gemms and drains one at a time.
A place freed in a FIFO is visible at once; in the code it is from the next delta on, when `room_freed`
fires too, so a look in between finds less and is repeated.

**AddressRange.** `contains`, `overlap` and the ranges of the operands as in `scoreboard.h`; `AcceptsSpad` and `AcceptsDram`
as in the checks of `TopModule`, which compute modulo `WORD` (2^64 in the code). The state is a pair of
accepted operands, so the run enumerates pairs.

**IssuePort.** A caller is between two waits while it is `running`; everything else that happens at the
end of a delta cycle (FIFO contents become visible, zero-time notifications fire) is one action, `Delta`.
So a thread that was woken looks again, may find the place taken, and waits again. Controllers keep
the records they keep in the code: the load and store controllers a set of unfinished ids, the exec
controller one number. `rows_remaining` is the set of its keys. What the threads call is a constant set of
`Scripts`, of which a behaviour follows one.

**ScheduleC.** The program of `scheduler_c.h` entry by entry, `<<instruction, waits>>`, in the source's groups
`Tile_mt_nt`; `ScheduleCalls` turns it into calls of one thread of `IssuePort`, and `ScheduleScript` is one of
the run's two scripts. The properties of this module speak of the behaviours that follow it.

**SpadAllocator.** The members are a record, the methods operators that return the next record; `TiledGemm`
applies them to its variable `alloc`, with the stride and the banks the schedulers use.

**TiledGemm.** `run_thread` as steps: A (transposed) and B are written to DRAM in either layout, the
loop of `scheduler_a.h`/`scheduler_b.h` runs, C is read back. One iteration gives its instructions to `todo`; each is
executed completely before the next, on memories that hold elements by name. `Program` is the
whole instruction stream, which `MCScoreboard` feeds to `Scoreboard` instead.

**SpadSystem.** Both controllers *as specified in their modules*, each with all its actions, with the arbiter's answers in place of the
free scratchpad. A thread takes credits and sends the requests before anything else runs (`sending`). The
issuer does what the scoreboard would: a place is loaded again once its tile is stored.

**ExecSpad.** The gemm thread sends the request for A and that for B without waiting between, then waits for both
`a_done` and `b_done`; the drain thread has one request; the load and store controllers are reduced to the
requests they send. All five of the arbiter's initiators are present.

**Scaling.** One element: products are added to a word that wraps, a factor comes from `quantize_scale` or is any
that `check_drain` accepts, and the sum is scaled. A word of `d` digits holds -2^d..2^d-1.

## 3. Runs

| run | configuration | states | what it shows |
|---|---|---|---|
| arbiter | `MCMemoryArbiter.cfg`: 2 banks of a row, 2 initiators, 3 payloads | 16,252 | `NoBankConflict`; `PayloadsHeldOnce` (a queued pointer stays valid and unique); implements `BankedMemory`; every request is answered |
| spad_system | `MCSpadSystem.cfg`: tiles of 1, 3 and 1 rows, two banks, 3 load and 2 store buffers, 2 credits each, queues of 1 | 385,027 | `PoolsConserved`, `RowsAccounted` and `StoreConserved` (no buffer, credit or row is lost or doubled); both controllers implement `TileCopy`; `ReadsItsTile` |
| exec | `MCExecEngine.cfg`: `DIM` 4, three chains in ten instructions, the last behind the drain of its buffer as scheduler C issues it | 41,752 | `StreamNeverStalls`, `FlushClosesChain`; implements `TileProduct`, with the drain ahead of the overlapping gemm |
| scoreboard | `MCScoreboard.cfg`: three programs, all 4-instruction ones over a menu and scheduler B's for 2x1x2, 1x2x2 and 2x2x2 tiles; `pending` of 2, FIFOs of 1 | 126,956 | `ConflictsOrdered`, `ReadsProgramOrder` (with slots reused at once), `FenceMeansDone`; the program completes |
| addresses | `MCAddressRange.cfg`: 8 rows, 10 bytes of DRAM, strides and counts 1..4 | 26,569 | `OverlapExact`, `AlignedConflictsSeen`, `AcceptedRowsReached` |
| issue_port | `MCIssuePort.cfg`: three threads, or scheduler C's 72 instructions; FIFOs of one place, 2 mvins and 2 mvouts under way | 347,506 | `WritesNeverBlock`, `CompleteMeansFinished`, `WaitMeansFinished`; every call returns; for scheduler C `OperandsReady`, `BufferHandedOver`, `ReturnsWhenComplete` |
| tiled_gemm | `MCTiledGemm.cfg`: tiles of 2, 126 sizes, both layouts, eight slots | 8,966 | `ProductInDram`, `HitMeansLoaded`, `SlotsConserved`, `NeverThrows` |
| exec_spad | `MCExecSpad.cfg`: two gemms of two rows, two banks | 147,905 | `RowsPaired`, `StoresDrainedRows`; everything is stored in the end |
| scaling | `MCScaling.cfg`: words of 6 and 3 bits, sums of 6 products | 54,665 | `AccumulatorWraps`, `ProductFits`, `RoundsHalfUp`, `NearRealScale`, `QuantizedIsAccepted` |

Three runs show a disagreement between the code and what it says of itself:

| run | violated | what happens |
|---|---|---|
| unaligned_dram | `EveryConflictSeen` | `overlap` (`scoreboard.h:143`) compares the first byte of rows. Tiles whose DRAM address or stride is not a multiple of the row size, which the top module accepts with a warning, can share bytes without sharing a first byte; they are then dispatched together, against the class comment (`scoreboard.h:15-16`). Aligned tiles are safe (`AlignedConflictsSeen`). |
| wrapping_stride | `AcceptedRowsReached` | `check_spad_addr_range` (`top_module.cpp:212`) computes the last row's address modulo 2^64. A stride for which it wraps passes the check. |
| slow_mac | `FlushClosesChain` | With `PE_MAC_TIME` = 2 cycles, a constant the README offers for adjustment, a flush still feeds a row per cycle and completes one `PE_MAC_TIME` after the last, when the array is several rows behind: a drain issued then reads an unfinished psum. |

**Why the bounds are enough.** Each is the smallest at which the interesting case exists, and the
resource in question does run out in the run. *Arbiter*: three payloads give one request in the bank,
one queued and one arriving in between; banks do not interact, a second one catches a mixed-up
index. *SpadSystem*: a tile as large as the load controller's buffer pool, fewer credits than buffers,
one-entry queues, and tiles that meet in a bank; the third tile takes the second one's place, so its mvin must
wait for an mvout that waits for the arbiter. *Exec*: the second chain starts on the other buffer while the first is drained, the third follows a drain of its own
buffer; `DIM` 4 is the smallest power of two at which a flush (6 rows) and a tile (4) differ; `MAX_QUEUED` 1 makes
the distance of rows irregular. While the gemms follow the drain on its buffer, the times are the code's and nothing
else uses the drain's bank (in scheduler C's allocation `c_bank` of the two drained tiles, 0 and 3, is not that of a
tile in use meanwhile); the gemm's reads may be as fast as they can be, the worst case for the drain. *Scoreboard*: `pending` and FIFOs are smaller than
what the programs have waiting; the menu of five instructions on one tile and one buffer contains
every kind of conflict, and every order of four of them that closes a chain before draining is run.
Scheduler B has one slot for each of A and B, so every load evicts.
*IssuePort*: three gemm callers for one place, so that one free place wakes two who wait; mvins of two threads
finish in either order; scheduler C runs as it is, in FIFOs shorter than its own. *TiledGemm*: sizes 1..5 with tiles
of 2 are whole and padded in every dimension; 7x7x8 needs 48 tiles in eight slots. *ExecSpad*:
one gemm has both operands in one bank, the other in two. *Scaling*: factors and sums at both ends of
their words. *Addresses*: strides 1..4 contain equal, divisible and coprime pairs; counts 1..4 both orders of
"shorter"; `WORD` 32 leaves room above `kArray`.

**Deadlock** is checked in the arbiter run, whose initiators can always send again. The
other models stop when their program is done, so there the check is off, and, where processes wait for
each other, a liveness property says that they do not stop before.

**Fairness.** Weak fairness of every process: the SystemC kernel runs every runnable process, and a
process that is runnable stays so until it runs. DRAM and the banks answer what they accepted
(`DramResponse`, `SpadResponse`, `BankDone`): the banks because they wait a fixed time, DRAMSys by its protocol.
`Tick` is fair because the kernel advances time when nothing is runnable. Nothing is assumed of an
issuer: `Request`, `Issue` of the controllers, `IssueMvin` and `IssueMvout` are not fair, and the liveness properties speak of what
was issued. In `Scoreboard` and `IssuePort` the callers are themselves processes, hence fair,
and so is `Delta`. In `ExecSpad` the requests of the controllers are fair because their programs are given.

## 4. Proofs

TLAPS checks the following for every value of the constants that satisfies the modules' `ASSUME`s: counts
are positive; payloads have an owner; `DIM`, times and sizes are natural numbers; a bank holds a whole number of tiles
(`config.h:36`); tiles lie inside the scratchpad (`TileAssumption`, what
`check_spad_addr_range` is for); a drain comes after the flush of its chain (`ScheduleAssumption` of `Scoreboard`, `ChainsClosed` of `ExecEngine`: the contract
of `isa.h`). What a theorem needs beyond that is its own hypothesis and named below.

* **`MemoryArbiter_proofs`.** `NoBankConflict` is not inductive: a bank conflict is avoided because of how
  the busy flag, the queue, the notification and the bank's thread relate. `HandshakeInv` states it,
  per bank: busy if and only if the bank holds a payload; the thread serves that payload or the
  event that will start it is pending; `bank_freed` is pending only when the bank is free and
  somebody waits, and whenever somebody waits the bank is busy or `bank_freed` is pending. There is
  one lemma per action. From it: `TypeCorrect`, `NeverBankConflict`, and `ArbiterServesInOrder`, that
  every step is a step of `BankedMemory` or a stutter: the safety half of the arbiter run's
  refinement. `PayloadsAlwaysHeldOnce` adds `HeldInv`: counting the request in the bank as the
  head of the bank's queue, a payload that waits for its answer is at one place of one queue, which is that of the bank
  its address names.
* **`SpadSystem_proofs`.** The load controller by itself first. `PoolsConserved` counts, so it says nothing of *which* buffer
  went where and is not
  inductive. `LoadInv` is: buffers are split into the free, those a DRAM request points at, those ready and those
  a scratchpad request carries, and credits likewise; the tag of each request names the row its buffer is
  for; and each row of an unfinished tile is in one stage only - not asked for, in one buffer, or
  written - so that the count of remaining rows is the number of rows not answered. From it: `LoadTypeCorrect`,
  `LoadPoolsConserved`, `LoadRowsAccounted`, and `LoadCopiesTiles`, the safety half of `TileCopy`.
  Then the same for the store controller, whose buffers go through two requests and whose credits
  are freed in between (`StoreInv`, `StoreCopiesTiles`). Then `SystemControllers`: a step of the composed system is a step of
  each controller or leaves it alone, with the arbiter's answer as the free scratchpad's. So all that
  holds of each controller alone holds in the system (`SystemPoolsConserved`, `SystemRowsAccounted`, `SystemStoreConserved`,
  `SystemCopiesTiles`). In the other direction (`SystemRequests`) the controllers ask with a credit they hold, hence at most one
  request per payload, so the arbiter's theorems hold in the system too (`SystemArbiter`). `SystemReadsItsTile` is about the data: a row
  an mvout reads is the row its own mvin brought. It needs that an mvout is issued only after its mvin is complete and
  the next mvin of the place after that mvout (`LoadedFirst`, `StoredFirst`), and that meanwhile the scratchpad holds
  every row that was written and not replaced (`RowsInPlace`): neither is visible in the property.
* **`ExecSpad_proofs`.** `RowsPaired` looks only at rows that were fetched, and a row is fetched by a thread that does not
  remember what it asked for: it goes on when an event fires. `ExecInv` closes the gap: a request under way - queued, in a bank or
  answered and not yet seen - is for the row its thread is at; an event is pending only for a thread that waits for it, so no
  wake-up is left over from the row before; what an access that is over fetched or stored is in its place, and stays there because
  different tiles have different rows. From it: `RowsAlwaysPaired`, `StoresAlwaysDrained`, and `ExecArbiter`,
  that the arbiter's theorems hold with the exec controller's sockets as initiators.
* **`Scoreboard_proofs`.** `try_dispatch` looks for conflicts in `pending` and `in_flight` only. That suffices
  because these two together hold everything issued and not complete, whichever thread ran last
  (`BoardState`), and because an instruction is in a FIFO once (`QueueState`), so that one never "begins"
  after it completed. `DispatchKeepsBoard` proves the step of `try_dispatch` once for any two vectors that
  cover what is not complete (`Covers`); issue, fence and the loop are instances of it. From
  `BoardInv`: `ConflictsAlwaysOrdered` and `FenceWaitsForAll`, for all programs, queue depths and
  interleavings. `ReadsInProgramOrder` goes on to the memory: since conflicts are ordered, every writer before a
  reader is done when it reads and none after it has begun, so a cell holds what the last writer before it in the
  program left. The psum buffers need `ScheduleAssumption`: a drain also clears its buffer, which the
  scoreboard records as a read, so it sees no conflict between two drains of one buffer; the flush that must come
  between them conflicts with both.
* **`Arithmetic_proofs`, addresses.** `OverlapIsSharedRow`: for any two ranges of positive stride, `overlap` (walk the
  shorter, look up in the longer by remainder and quotient) is true if and only if they have an
  address in common. `OverlapAlwaysExact` is that for any two accepted operands, and that operands of different places
  never overlap; `AcceptedAlwaysReached`, that an accepted operand lies in its memory with every row;
  `AlignedConflictsAlwaysSeen`, that comparing first bytes is enough for aligned tiles. The first two assume `NoSpanWraps`, that the
  offset of a tile's last row stays below the word; the run `wrapping_stride` shows the second false without it.
* **`TiledGemm_proofs`.** Slots are cut so that rows of two slots never meet (`SlotsApart`: quotient and remainder of a row's
  address give back chunk, slot and row). `AllocOK` says what `acquire` may rely on: no two resident tiles in a slot,
  the vectors hold the slots nobody is in, the LRU list names the residents, each once. Each way through
  `acquire` keeps it (`LookupKeeps`, `TakeKeeps`, `EvictKeeps`), and with it `acquire` always finds a slot (`NoThrow`): a
  bank has one, free or with a tile that the list knows. From it: `SlotsAlwaysConserved` and `AcquireNeverThrows`, for every size of
  matrices, number of banks and rows. `CHOOSE` of the oldest entry exists because a set of numbers has a
  least one (`LeastNumber`).
  `HitMeansLoaded` and `ProductInDram` speak of moments far apart: a gemm reads what an mvin some passes ago brought, and C is
  read when all passes are over. `GemmInv` says what holds meanwhile. A pass has seven points, one for each instruction it can
  be about to execute (`AtBoth`, ..., `AtMvout`), and between passes there is one more. At each of them: the tiles in their
  slots are those that are resident, without the ones this pass has still to bring (`ResidentsLoaded`); the pass's slots belong
  to its tiles, and C may have been given an operand's slot, because it is acquired last and only written when the gemms
  are over (`PassSlots`); the buffer of the chain holds, *together with what the array will still push into it* (`Total`), the products
  with `k` below the tile reached, and the other buffer is empty (`Accumulated`, `Cleared`); and the tiles of C whose last pass
  is over are in DRAM, with A and B (`DramHolds`). Every resident tile is in the bank it was sent to (`AtHome`): acquiring B can therefore not
  evict the A just acquired, which is in a bank of the other parity (`BanksOfOperands`).
  The lemmas underneath: both layouts put different elements in different places inside the matrix (`LayoutInjective`,
  `LayoutBound`), `ElementAt` finds what was put there (`ElementAtPlace`); `acquire` leaves the tile in its bank at the
  cost of at most one other tile there (`AcquireEffect`); and gemms of the tiles of a row and a column add each product once (`GemmAdds`: sums
  are bags, padding adds nothing). `WriteRows` takes the tile as a function, since the provers do not
  expand operators with operator arguments.
* **`ExecEngine_proofs`.** The exec controller has no feedback from the array: that its count of cycles is the array's is the
  whole argument, and none of it is visible in the properties. `InPace` says that at most one row is under way
  between `gemm_thread` and the array, that no time has passed since it was written, and that each stage is awake before the next
  one can be written; from it `StreamFlows`. `Balanced` counts, per stage, the rows it has still to pass on for its command and the
  command behind it: as many as `gemm_thread` has still to write and the fifos hold. So each stage's command is that of the instruction whose rows reach
  it (`ArrayAt`, `DrainAt`). The data follow from the stream, the rows of all gemms in the order of issue: the registers of the
  array are the last rows of the stream, one diagonal each (`Diagonals`), with the skew buffers holding
  the beginnings (`Skews`); a psum at row i and column j is the sum of the rows that entered the array for its buffer since its row was last
  drained, but for the i + j latest, which have not come that far (`Accumulated`); and the 2 `DIM` - 2 rows of a flush are
  as many as there are diagonals, so that no row of a chain is left in the array when the next begins (`InArray`). What the drain thread has written is the scaled product of its chain (`Drained`). From it:
  `ChainsInPsum`, and `EngineIsTileProduct`, the safety half of the refinement of `TileProduct`. All for every size of the array, every program,
  every delay of the scratchpad, under two hypotheses. `Paced`: `SKEW_BUF_SHIFT_TIME` and `PE_MAC_TIME` are at most `CYCLE_TIME` and
  `BANK_ACCESS_TIME`; in `config.h` all are a cycle, and the run `slow_mac` shows `FlushClosesChain` false without it. `IssuerWaits` (not needed for
  `StreamFlows`): a gemm and a drain on one psum buffer do not overlap, which is what the scoreboard and the blocking schedulers A and B see
  to. Scheduler C's overlapping drain is outside it and is what the run `exec` is for.
* **`IssuePort_proofs`.** That one number records all finished gemms (`last_gemm_completed_id`), and one all drains, is
  right because ids enter each FIFO in ascending order and finish in it. `PortInv` says so (`Ascending`,
  `OneUnderWay`, `RecordsExact`), with `WritesNeverBlock` and the fact that a call that has returned
  left its id (`IdsGiven`). From it: `PortAlways`, `TypeCorrect`, `NoWriteBlocks` and `CompleteIsFinished`.
  `WaitIsForFinished` needs two more facts about steps: what is finished stays so (`FinishedStays`), and a thread
  goes past `wait_complete` only when it finds the instruction complete (`Moves`). All for any number of threads, any
  scripts and any FIFO depth.
  Scheduler C is one such thread. Entry i of its list has id i (`EntriesNumbered`), so the property is about entries: an input is
  complete because `wait_complete` has returned for it (`WaitMeansFinished`) or because it is ahead in the FIFO of an exec controller, which
  finishes in order (`Ascending`). That gives `OperandsAlwaysReady` and `ReturnsAlwaysComplete`, for any FIFO depth, any number of
  mvins and mvouts under way and any order in which they finish. What they need to know of the 72 entries is three
  formulas about constants in `ScheduleC`, their hypotheses: the calls follow the list (`CallsFollowOrder`), each input of an
  entry is waited for or ahead in its FIFO (`WaitsSuffice`), and so is each instruction of the product before the end (`WaitsForAll`).
  The list is computed with folds, which the provers cannot evaluate; TLC does, in `MCIssuePort` (`OrderAssumption`).
* **`Arithmetic_proofs`, scaling.** For words of any width: the accumulator equals the sum whenever the sum fits
  (`WrappingIsHarmless`), product and rounding constant fit in a word of twice the width for every factor
  `check_drain` lets pass (`NeverOverflows`), what is stored is the scaled sum rounded half up and saturated
  (`StoredIsRounded`), and a factor from `quantize_scale` is accepted (`QuantizedPasses`). `StoredIsNearReal` compares with
  the scale that was asked for: what is stored is less than or exactly one unit away from sum times scale, clamped. It
  holds for scales whose exponent the byte counts (`CountFits`); what happens below them is in section 5. Powers of two
  are a recursive operator of the standard modules; the few laws of exponents that are used are the named assumption
  `PowersAssumption`, which TLC evaluates for all exponents the run needs.

**Only model-checked.** Liveness (`EveryRequestAnswered`, `ProgramCompletes`, `EveryCallReturns`, `EngineCompletes`,
the fairness parts of the refinements) is out of reach of the prover. A drain that stays ahead of the gemm behind
it on its buffer (`ImplementsTileProduct` for a program that does not satisfy `IssuerWaits`) is not proved: that holds only for certain times.
`BufferHandedOver` is about the text of scheduler C's list, which TLC reads as a whole. The type invariants of `ExecEngine`, `ExecSpad` and `TiledGemm`
are in no run: the properties of their runs fail or do not evaluate where they do not hold.

## 5. Not modelled

* The contents of rows: a row, an element or a product is a name. Their widths are in `Scaling` only.
* Times, except in `ExecEngine`. Elsewhere a delay is any delay, which includes the real one.
* `acquire` without a bank, which nothing calls.
* DRAMSys, beyond "answers once, in any order". Its back-pressure (`END_REQ`) is ignored by the
  controllers and so by the model.
* Trace, request-tag plumbing, viewer, `ScheduleLog`, random matrices, printing, command line.

Two things the models show outside their runs. With `PE_DRAIN_TIME` of two cycles, which the repository's README offers,
the gemm that scheduler C issues behind a drain of its buffer (`scheduler_c.h:91-94`) overtakes the drain, and rows
drained last contain products of the next chain. And `quantize_scale` counts doublings in a `uint8_t`
(`common.h:150`): for a scale below 2^-256 the count wraps, the assertion that the scale is not too small (`common.h:156`)
holds, and the factor is wrong by 2^256.

## 6. What could be added

| module | what to add |
|---|---|
| `ExecSpad`, `ExecEngine` | one composition with the times of the banks, so that the delay of a row is the arbiter's and no constant |
| `ExecEngine` | a bound on the times for which a drain stays ahead of the gemm behind it, and a proof from it in place of `IssuerWaits` |
