--------------------------- MODULE LoadController ---------------------------
(***************************************************************************)
(* The load controller (src/module/load_controller.cpp): moves the tiles   *)
(* of mvin instructions from DRAM into the scratchpad, one row at a time.  *)
(*                                                                         *)
(* dram_read_thread takes a data buffer from the pool for every row and    *)
(* asks DRAM for it; DRAM answers in any order.  spad_write_thread pairs   *)
(* each buffer that holds a row with a credit and asks the scratchpad to   *)
(* store it; its answer returns buffer and credit to their pools and       *)
(* counts the row.                                                         *)
(*                                                                         *)
(* SystemC threads are not preempted, so an action is what a thread does   *)
(* from one wait to the next: it serves as many rows as the pools allow.   *)
(* Events are delta notifications: pending until they fire, and lost if    *)
(* the thread does not wait for them then.  DRAM (DRAMSys) and the         *)
(* scratchpad are modelled by what they promise: any request is answered,  *)
(* at any time, in any order.                                              *)
(*                                                                         *)
(* The address of a row, in DRAM or in the scratchpad, is the name of the  *)
(* row: that two instructions write the same place is for their issuer to  *)
(* order.                                                                  *)
(***************************************************************************)
EXTENDS Tiles, Sequences, FiniteSets, Functions

CONSTANTS
  INSTR_QUEUE_SIZE,   \* depth of mvin_instr_queue
  LOAD_N_DATA_BUF,    \* data buffers: outstanding DRAM requests
  SPAD_CREDIT_SIZE    \* credits: outstanding scratchpad requests

Bufs    == 1 .. LOAD_N_DATA_BUF
Credits == 1 .. SPAD_CREDIT_SIZE

(* The pools are not empty. *)
ASSUME SizeAssumption == /\ INSTR_QUEUE_SIZE \in Nat \ {0}
                         /\ LOAD_N_DATA_BUF \in Nat \ {0}
                         /\ SPAD_CREDIT_SIZE \in Nat \ {0}

VARIABLES
  mvin_instr_queue,   \* ids, oldest first
  rows_remaining,     \* rows_remaining[id], 0 when the map has no entry
  last_issued_id,
  mvin,               \* dram_read_thread's instruction and next row, or NULL
                      \* while it waits in mvin_instr_queue.read()
  free_data_bufs,     \* the pools, front first
  free_spad_credits,
  ready_bufs,         \* buffers whose row has landed
  dram_tag,           \* dram_tag[buf], the row its DRAM payload asks for
  row_buffers,        \* row_buffers[buf]
  spad_tag,           \* spad_tag[credit] = [row, buf] of its scratchpad payload
  buf_freed,          \* pending delta notifications
  buf_ready,
  credit_freed,
  dram_requests,      \* buffers DRAM has not answered
  spad_requests,      \* credits the scratchpad has not served
  spad_served,        \* credits served and not yet answered
  spad                \* spad[<<id, row>>]

poolVars  == <<free_data_bufs, free_spad_credits, ready_bufs>>
eventVars == <<buf_freed, buf_ready, credit_freed>>
spadVars  == <<spad_requests, spad_served, spad>>
vars == <<mvin_instr_queue, rows_remaining, last_issued_id, mvin, poolVars,
          dram_tag, row_buffers, spad_tag, eventVars, dram_requests, spadVars>>

Least(m, n) == IF m < n THEN m ELSE n

Init ==
  /\ mvin_instr_queue = << >>
  /\ rows_remaining = [id \in Instrs |-> 0]
  /\ last_issued_id = 0
  /\ mvin = NULL
  /\ free_data_bufs = [k \in Bufs |-> k]
  /\ free_spad_credits = [k \in Credits |-> k]
  /\ ready_bufs = << >>
  /\ dram_tag = [b \in Bufs |-> NULL]
  /\ row_buffers = [b \in Bufs |-> NULL]
  /\ spad_tag = [c \in Credits |-> NULL]
  /\ buf_freed = FALSE
  /\ buf_ready = FALSE
  /\ credit_freed = FALSE
  /\ dram_requests = {}
  /\ spad_requests = {}
  /\ spad_served = {}
  /\ spad = [t \in TileRows |-> NULL]
-----------------------------------------------------------------------------
has_room == Len(mvin_instr_queue) < INSTR_QUEUE_SIZE

is_complete(id) == id <= last_issued_id /\ rows_remaining[id] = 0

(* Mutant: the instruction is queued and its rows are not counted. *)
Issue_NoRows ==
  /\ last_issued_id < N_INSTRS
  /\ has_room
  /\ mvin_instr_queue' = Append(mvin_instr_queue, last_issued_id + 1)
  /\ last_issued_id' = last_issued_id + 1
  /\ UNCHANGED <<rows_remaining, mvin, poolVars, dram_tag, row_buffers, spad_tag,
                 eventVars, dram_requests, spadVars>>

(* issue, called by TopModule::mvin once has_room *)
Issue ==
  /\ last_issued_id < N_INSTRS
  /\ has_room
  /\ LET id == last_issued_id + 1
     IN  /\ mvin_instr_queue' = Append(mvin_instr_queue, id)
         /\ rows_remaining' = [rows_remaining EXCEPT ![id] = Rows[id]]
         /\ last_issued_id' = id
  /\ UNCHANGED <<mvin, poolVars, dram_tag, row_buffers, spad_tag, eventVars,
                 dram_requests, spadVars>>

(* Mutant: a row is skipped when the pool runs empty in the loop. *)
ReadRows_SkipsRow(id, first) ==
  LET n == Least(Rows[id] - first, Len(free_data_bufs))
  IN  /\ dram_tag' =
           [b \in Bufs |->
              IF \E k \in 1 .. n : free_data_bufs[k] = b
              THEN <<id, first + (CHOOSE k \in 1 .. n : free_data_bufs[k] = b) - 1>>
              ELSE dram_tag[b]]
      /\ dram_requests' =
           dram_requests \cup {free_data_bufs[k] : k \in 1 .. n}
      /\ free_data_bufs' = SubSeq(free_data_bufs, n + 1, Len(free_data_bufs))
      /\ mvin' = IF first + n + 1 < Rows[id] THEN <<id, first + n + 1>> ELSE NULL

(* The row loop of dram_read_thread, entered at row first: each row takes  *)
(* the front buffer of the pool; the thread waits for buf_freed when the   *)
(* pool is empty and goes on to the next instruction after the last row.   *)
ReadRows(id, first) ==
  LET n == Least(Rows[id] - first, Len(free_data_bufs))
  IN  /\ dram_tag' =
           [b \in Bufs |->
              IF \E k \in 1 .. n : free_data_bufs[k] = b
              THEN <<id, first + (CHOOSE k \in 1 .. n : free_data_bufs[k] = b) - 1>>
              ELSE dram_tag[b]]
      /\ dram_requests' =
           dram_requests \cup {free_data_bufs[k] : k \in 1 .. n}
      /\ free_data_bufs' = SubSeq(free_data_bufs, n + 1, Len(free_data_bufs))
      /\ mvin' = IF first + n < Rows[id] THEN <<id, first + n>> ELSE NULL

(* dram_read_thread from mvin_instr_queue.read() on *)
Dequeue ==
  /\ mvin = NULL
  /\ mvin_instr_queue # << >>
  /\ mvin_instr_queue' = Tail(mvin_instr_queue)
  /\ ReadRows(Head(mvin_instr_queue), 0)
  /\ UNCHANGED <<rows_remaining, last_issued_id, free_spad_credits, ready_bufs,
                 row_buffers, spad_tag, eventVars, spadVars>>

(* buf_freed fires: dram_read_thread goes on if it waits for it. *)
BufFreed ==
  /\ buf_freed
  /\ buf_freed' = FALSE
  /\ IF mvin # NULL
     THEN ReadRows(mvin[1], mvin[2])
     ELSE UNCHANGED <<mvin, free_data_bufs, dram_tag, dram_requests>>
  /\ UNCHANGED <<mvin_instr_queue, rows_remaining, last_issued_id,
                 free_spad_credits, ready_bufs, row_buffers, spad_tag,
                 buf_ready, credit_freed, spadVars>>

(* DRAM answers a request: nb_dram_transport_bw with BEGIN_RESP *)
DramResponse(b) ==
  /\ b \in dram_requests
  /\ dram_requests' = dram_requests \ {b}
  /\ row_buffers' = [row_buffers EXCEPT ![b] = dram_tag[b]]
  /\ ready_bufs' = Append(ready_bufs, b)
  /\ buf_ready' = TRUE
  /\ UNCHANGED <<mvin_instr_queue, rows_remaining, last_issued_id, mvin,
                 free_data_bufs, free_spad_credits, dram_tag, spad_tag,
                 buf_freed, credit_freed, spadVars>>

(* The row loop of spad_write_thread: a write for each pair of a ready     *)
(* buffer and a free credit.                                               *)
WriteRows ==
  LET n == Least(Len(ready_bufs), Len(free_spad_credits))
  IN  /\ spad_tag' =
           [c \in Credits |->
              IF \E k \in 1 .. n : free_spad_credits[k] = c
              THEN LET b == ready_bufs[CHOOSE k \in 1 .. n : free_spad_credits[k] = c]
                   IN  [row |-> dram_tag[b], buf |-> b]
              ELSE spad_tag[c]]
      /\ spad_requests' =
           spad_requests \cup {free_spad_credits[k] : k \in 1 .. n}
      /\ ready_bufs' = SubSeq(ready_bufs, n + 1, Len(ready_bufs))
      /\ free_spad_credits' =
           SubSeq(free_spad_credits, n + 1, Len(free_spad_credits))

(* Mutant: the thread waits for buf_ready alone. *)
SpadWriteThread_BufReadyOnly ==
  /\ buf_ready
  /\ buf_ready' = FALSE
  /\ WriteRows
  /\ UNCHANGED <<mvin_instr_queue, rows_remaining, last_issued_id, mvin,
                 free_data_bufs, dram_tag, row_buffers, buf_freed, credit_freed,
                 dram_requests, spad_served, spad>>

(* buf_ready | credit_freed fires: spad_write_thread, which always waits   *)
(* for one of them, goes on.                                               *)
SpadWriteThread ==
  /\ buf_ready \/ credit_freed
  /\ buf_ready' = FALSE
  /\ credit_freed' = FALSE
  /\ WriteRows
  /\ UNCHANGED <<mvin_instr_queue, rows_remaining, last_issued_id, mvin,
                 free_data_bufs, dram_tag, row_buffers, buf_freed,
                 dram_requests, spad_served, spad>>

(* The scratchpad reads the payload's data pointer and writes the row. *)
SpadAccess(c) ==
  /\ c \in spad_requests
  /\ spad_requests' = spad_requests \ {c}
  /\ spad_served' = spad_served \cup {c}
  /\ spad' = [spad EXCEPT ![spad_tag[c].row] = row_buffers[spad_tag[c].buf]]
  /\ UNCHANGED <<mvin_instr_queue, rows_remaining, last_issued_id, mvin, poolVars,
                 dram_tag, row_buffers, spad_tag, eventVars, dram_requests>>

(* Mutant: the data buffer does not go back to the pool. *)
SpadResponse_KeepsBuffer(c) ==
  /\ c \in spad_served
  /\ spad_served' = spad_served \ {c}
  /\ free_spad_credits' = Append(free_spad_credits, c)
  /\ buf_freed' = TRUE
  /\ credit_freed' = TRUE
  /\ rows_remaining' = [rows_remaining EXCEPT ![spad_tag[c].row[1]] = @ - 1]
  /\ UNCHANGED <<mvin_instr_queue, last_issued_id, mvin, free_data_bufs,
                 ready_bufs, dram_tag, row_buffers, spad_tag, buf_ready,
                 dram_requests, spad_requests, spad>>

(* The scratchpad answers: nb_spad_transport_bw with BEGIN_RESP *)
SpadResponse(c) ==
  /\ c \in spad_served
  /\ spad_served' = spad_served \ {c}
  /\ free_data_bufs' = Append(free_data_bufs, spad_tag[c].buf)
  /\ free_spad_credits' = Append(free_spad_credits, c)
  /\ buf_freed' = TRUE
  /\ credit_freed' = TRUE
  /\ rows_remaining' = [rows_remaining EXCEPT ![spad_tag[c].row[1]] = @ - 1]
  /\ UNCHANGED <<mvin_instr_queue, last_issued_id, mvin, ready_bufs, dram_tag,
                 row_buffers, spad_tag, buf_ready, dram_requests,
                 spad_requests, spad>>

Next ==
  \/ Issue \/ Dequeue \/ BufFreed \/ SpadWriteThread
  \/ \E b \in Bufs : DramResponse(b)
  \/ \E c \in Credits : SpadAccess(c) \/ SpadResponse(c)

SafeSpec == Init /\ [][Next]_vars

(* The kernel runs every process that can run; DRAM and the scratchpad     *)
(* answer every request.  The issuer need not issue anything.              *)
Fairness ==
  /\ WF_vars(Dequeue) /\ WF_vars(BufFreed) /\ WF_vars(SpadWriteThread)
  /\ \A b \in Bufs : WF_vars(DramResponse(b))
  /\ \A c \in Credits : WF_vars(SpadAccess(c)) /\ WF_vars(SpadResponse(c))

Spec == SafeSpec /\ Fairness
-----------------------------------------------------------------------------
(* The variables hold values of their C++ types. *)
TypeOK ==
  /\ mvin_instr_queue \in Seq(Instrs) /\ Len(mvin_instr_queue) <= INSTR_QUEUE_SIZE
  /\ rows_remaining \in [Instrs -> Nat]
  /\ last_issued_id \in 0 .. N_INSTRS
  /\ mvin \in TileRows \cup {NULL}
  /\ free_data_bufs \in Seq(Bufs)
  /\ free_spad_credits \in Seq(Credits)
  /\ ready_bufs \in Seq(Bufs)
  /\ dram_tag \in [Bufs -> TileRows \cup {NULL}]
  /\ row_buffers \in [Bufs -> TileRows \cup {NULL}]
  /\ spad_tag \in [Credits -> [row : TileRows, buf : Bufs] \cup {NULL}]
  /\ <<buf_freed, buf_ready, credit_freed>> \in BOOLEAN \X BOOLEAN \X BOOLEAN
  /\ dram_requests \subseteq Bufs
  /\ spad_requests \subseteq Credits
  /\ spad_served \subseteq Credits
  /\ spad \in [TileRows -> TileRows \cup {NULL}]

(* The credits whose request the scratchpad has *)
SpadBusy == spad_requests \cup spad_served

(* No buffer and no credit is lost or handed out twice: each is in exactly *)
(* one place, its pool, the ready queue or a request under way.            *)
PoolsConserved ==
  /\ \A b \in Bufs :
       Cardinality({k \in DOMAIN free_data_bufs : free_data_bufs[k] = b})
       + Cardinality({k \in DOMAIN ready_bufs : ready_bufs[k] = b})
       + (IF b \in dram_requests THEN 1 ELSE 0)
       + Cardinality({c \in SpadBusy : spad_tag[c].buf = b}) = 1
  /\ \A c \in Credits :
       Cardinality({k \in DOMAIN free_spad_credits : free_spad_credits[k] = c})
       + (IF c \in spad_requests THEN 1 ELSE 0)
       + (IF c \in spad_served THEN 1 ELSE 0) = 1

(* The rows of id that its thread has not asked for *)
RowsUnread(id) ==
  IF id \in Range(mvin_instr_queue) THEN Rows[id]
  ELSE IF mvin # NULL /\ mvin[1] = id THEN Rows[id] - mvin[2]
  ELSE 0

(* The rows of id that occupy a buffer *)
RowsBuffered(id) ==
  Cardinality({b \in dram_requests \cup Range(ready_bufs) : dram_tag[b][1] = id})
  + Cardinality({c \in SpadBusy : spad_tag[c].row[1] = id})

(* rows_remaining counts exactly the rows the scratchpad has not answered, *)
(* whatever the order of the answers: those not asked for yet and those of *)
(* the instruction that are in a buffer.                                   *)
RowsAccounted ==
  \A id \in Instrs : rows_remaining[id] = RowsUnread(id) + RowsBuffered(id)

CopiesTiles ==
  INSTANCE TileCopy WITH
    issued      <- last_issued_id,
    completed   <- {id \in Instrs : is_complete(id)},
    destination <- spad

(* Every row of an issued mvin reaches its place in the scratchpad exactly *)
(* once and uncorrupted by the reuse of its buffer, is_complete holds only *)
(* when all of them have, and in the end it does hold: neither thread      *)
(* misses the event it waits for.                                          *)
ImplementsTileCopy == CopiesTiles!Spec
=============================================================================
