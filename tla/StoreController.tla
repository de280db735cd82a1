--------------------------- MODULE StoreController ---------------------------
(***************************************************************************)
(* The store controller (src/module/store_controller.cpp): moves the tiles *)
(* of mvout instructions from the scratchpad to DRAM, one row at a time.   *)
(*                                                                         *)
(* spad_read_thread takes a data buffer and a credit for every row and     *)
(* asks the scratchpad for it; the answer returns the credit at once.      *)
(* dram_write_thread writes each buffer that holds a row to DRAM; DRAM's   *)
(* answer returns the buffer and counts the row.                           *)
(*                                                                         *)
(* Actions, events, addresses and the two memories are modelled as in      *)
(* LoadController: an action is what a thread does from one wait to the    *)
(* next, and any request is answered, at any time, in any order.           *)
(***************************************************************************)
EXTENDS Tiles, Sequences, FiniteSets, Functions

CONSTANTS
  INSTR_QUEUE_SIZE,   \* depth of mvout_instr_queue
  STORE_N_DATA_BUF,   \* data buffers: outstanding DRAM requests
  SPAD_CREDIT_SIZE    \* credits: outstanding scratchpad requests

Bufs    == 1 .. STORE_N_DATA_BUF
Credits == 1 .. SPAD_CREDIT_SIZE

VARIABLES
  mvout_instr_queue,  \* ids, oldest first
  rows_remaining,     \* rows_remaining[id], 0 when the map has no entry
  last_issued_id,
  mvout,              \* spad_read_thread's instruction and next row, or NULL
                      \* while it waits in mvout_instr_queue.read()
  free_data_bufs,     \* the pools, front first
  free_spad_credits,
  ready_bufs,         \* buffers whose row has landed
  spad_tag,           \* spad_tag[credit] = [row, buf] of its scratchpad payload
  dram_tag,           \* dram_tag[buf], the row its DRAM payload writes
  row_buffers,        \* row_buffers[buf]
  buf_freed,          \* pending delta notifications
  buf_ready,
  credit_freed,
  spad_requests,      \* credits the scratchpad has not served
  spad_served,        \* credits served and not yet answered
  dram_requests,      \* buffers DRAM has not written
  dram_written,       \* buffers written and not yet answered
  dram                \* dram[<<id, row>>]

poolVars  == <<free_data_bufs, free_spad_credits, ready_bufs>>
eventVars == <<buf_freed, buf_ready, credit_freed>>
spadVars  == <<spad_requests, spad_served>>
dramVars  == <<dram_requests, dram_written, dram>>
vars == <<mvout_instr_queue, rows_remaining, last_issued_id, mvout, poolVars,
          spad_tag, dram_tag, row_buffers, eventVars, spadVars, dramVars>>

Least(m, n) == IF m < n THEN m ELSE n

Init ==
  /\ mvout_instr_queue = << >>
  /\ rows_remaining = [id \in Instrs |-> 0]
  /\ last_issued_id = 0
  /\ mvout = NULL
  /\ free_data_bufs = [k \in Bufs |-> k]
  /\ free_spad_credits = [k \in Credits |-> k]
  /\ ready_bufs = << >>
  /\ spad_tag = [c \in Credits |-> NULL]
  /\ dram_tag = [b \in Bufs |-> NULL]
  /\ row_buffers = [b \in Bufs |-> NULL]
  /\ buf_freed = FALSE
  /\ buf_ready = FALSE
  /\ credit_freed = FALSE
  /\ spad_requests = {}
  /\ spad_served = {}
  /\ dram_requests = {}
  /\ dram_written = {}
  /\ dram = [t \in TileRows |-> NULL]
-----------------------------------------------------------------------------
has_room == Len(mvout_instr_queue) < INSTR_QUEUE_SIZE

is_complete(id) == id <= last_issued_id /\ rows_remaining[id] = 0

(* issue, called by TopModule::mvout once has_room *)
Issue ==
  /\ last_issued_id < N_INSTRS
  /\ has_room
  /\ LET id == last_issued_id + 1
     IN  /\ mvout_instr_queue' = Append(mvout_instr_queue, id)
         /\ rows_remaining' = [rows_remaining EXCEPT ![id] = Rows[id]]
         /\ last_issued_id' = id
  /\ UNCHANGED <<mvout, poolVars, spad_tag, dram_tag, row_buffers, eventVars,
                 spadVars, dramVars>>

(* The row loop of spad_read_thread, entered at row first: each row takes  *)
(* the front buffer and the front credit.  claimed names the row that the  *)
(* k-th front elements of the pools are taken for.                         *)
ReadRows(id, first) ==
  LET n == Least(Rows[id] - first,
                 Least(Len(free_data_bufs), Len(free_spad_credits)))
      claimed(k) == <<id, first + k - 1>>
  IN  /\ spad_tag' =
           [c \in Credits |->
              IF \E k \in 1 .. n : free_spad_credits[k] = c
              THEN LET k == CHOOSE k \in 1 .. n : free_spad_credits[k] = c
                   IN  [row |-> claimed(k), buf |-> free_data_bufs[k]]
              ELSE spad_tag[c]]
      /\ dram_tag' =
           [b \in Bufs |->
              IF \E k \in 1 .. n : free_data_bufs[k] = b
              THEN claimed(CHOOSE k \in 1 .. n : free_data_bufs[k] = b)
              ELSE dram_tag[b]]
      /\ spad_requests' =
           spad_requests \cup {free_spad_credits[k] : k \in 1 .. n}
      /\ free_data_bufs' = SubSeq(free_data_bufs, n + 1, Len(free_data_bufs))
      /\ free_spad_credits' =
           SubSeq(free_spad_credits, n + 1, Len(free_spad_credits))
      /\ mvout' = IF first + n < Rows[id] THEN <<id, first + n>> ELSE NULL

(* spad_read_thread from mvout_instr_queue.read() on *)
Dequeue ==
  /\ mvout = NULL
  /\ mvout_instr_queue # << >>
  /\ mvout_instr_queue' = Tail(mvout_instr_queue)
  /\ ReadRows(Head(mvout_instr_queue), 0)
  /\ UNCHANGED <<rows_remaining, last_issued_id, ready_bufs, row_buffers,
                 eventVars, spad_served, dramVars>>

(* buf_freed | credit_freed fires: spad_read_thread goes on if it waits    *)
(* for them.                                                               *)
SpadReadThread ==
  /\ buf_freed \/ credit_freed
  /\ buf_freed' = FALSE
  /\ credit_freed' = FALSE
  /\ IF mvout # NULL
     THEN ReadRows(mvout[1], mvout[2])
     ELSE UNCHANGED <<mvout, free_data_bufs, free_spad_credits, spad_tag,
                      dram_tag, spad_requests>>
  /\ UNCHANGED <<mvout_instr_queue, rows_remaining, last_issued_id, ready_bufs,
                 row_buffers, buf_ready, spad_served, dramVars>>

(* The scratchpad reads the row into the payload's data pointer. *)
SpadAccess(c) ==
  /\ c \in spad_requests
  /\ spad_requests' = spad_requests \ {c}
  /\ spad_served' = spad_served \cup {c}
  /\ row_buffers' = [row_buffers EXCEPT ![spad_tag[c].buf] = spad_tag[c].row]
  /\ UNCHANGED <<mvout_instr_queue, rows_remaining, last_issued_id, mvout,
                 poolVars, spad_tag, dram_tag, eventVars, dramVars>>

(* Mutant: the buffer goes back to the pool with the credit. *)
SpadResponse_FreesBuffer(c) ==
  /\ c \in spad_served
  /\ spad_served' = spad_served \ {c}
  /\ free_spad_credits' = Append(free_spad_credits, c)
  /\ free_data_bufs' = Append(free_data_bufs, spad_tag[c].buf)
  /\ ready_bufs' = Append(ready_bufs, spad_tag[c].buf)
  /\ credit_freed' = TRUE
  /\ buf_ready' = TRUE
  /\ UNCHANGED <<mvout_instr_queue, rows_remaining, last_issued_id, mvout,
                 spad_tag, dram_tag, row_buffers, buf_freed, spad_requests,
                 dramVars>>

(* The scratchpad answers: nb_spad_transport_bw with BEGIN_RESP *)
SpadResponse(c) ==
  /\ c \in spad_served
  /\ spad_served' = spad_served \ {c}
  /\ free_spad_credits' = Append(free_spad_credits, c)
  /\ ready_bufs' = Append(ready_bufs, spad_tag[c].buf)
  /\ credit_freed' = TRUE
  /\ buf_ready' = TRUE
  /\ UNCHANGED <<mvout_instr_queue, rows_remaining, last_issued_id, mvout,
                 free_data_bufs, spad_tag, dram_tag, row_buffers, buf_freed,
                 spad_requests, dramVars>>

(* buf_ready fires: dram_write_thread, which always waits for it, sends    *)
(* every ready buffer to DRAM.                                             *)
DramWriteThread ==
  /\ buf_ready
  /\ buf_ready' = FALSE
  /\ dram_requests' = dram_requests \cup Range(ready_bufs)
  /\ ready_bufs' = << >>
  /\ UNCHANGED <<mvout_instr_queue, rows_remaining, last_issued_id, mvout,
                 free_data_bufs, free_spad_credits, spad_tag, dram_tag,
                 row_buffers, buf_freed, credit_freed, spadVars, dram_written,
                 dram>>

(* DRAM takes the row from the payload's data pointer. *)
DramAccess(b) ==
  /\ b \in dram_requests
  /\ dram_requests' = dram_requests \ {b}
  /\ dram_written' = dram_written \cup {b}
  /\ dram' = [dram EXCEPT ![dram_tag[b]] = row_buffers[b]]
  /\ UNCHANGED <<mvout_instr_queue, rows_remaining, last_issued_id, mvout,
                 poolVars, spad_tag, dram_tag, row_buffers, eventVars, spadVars>>

(* Mutant: the answered row is not counted. *)
DramResponse_NoCount(b) ==
  /\ b \in dram_written
  /\ dram_written' = dram_written \ {b}
  /\ free_data_bufs' = Append(free_data_bufs, b)
  /\ buf_freed' = TRUE
  /\ UNCHANGED <<mvout_instr_queue, rows_remaining, last_issued_id, mvout,
                 free_spad_credits, ready_bufs, spad_tag, dram_tag, row_buffers,
                 buf_ready, credit_freed, spadVars, dram_requests, dram>>

(* DRAM answers: nb_dram_transport_bw with BEGIN_RESP *)
DramResponse(b) ==
  /\ b \in dram_written
  /\ dram_written' = dram_written \ {b}
  /\ free_data_bufs' = Append(free_data_bufs, b)
  /\ buf_freed' = TRUE
  /\ rows_remaining' = [rows_remaining EXCEPT ![dram_tag[b][1]] = @ - 1]
  /\ UNCHANGED <<mvout_instr_queue, last_issued_id, mvout, free_spad_credits,
                 ready_bufs, spad_tag, dram_tag, row_buffers, buf_ready,
                 credit_freed, spadVars, dram_requests, dram>>

Next ==
  \/ Issue \/ Dequeue \/ SpadReadThread \/ DramWriteThread
  \/ \E c \in Credits : SpadAccess(c) \/ SpadResponse(c)
  \/ \E b \in Bufs : DramAccess(b) \/ DramResponse(b)

SafeSpec == Init /\ [][Next]_vars

(* The kernel runs every process that can run; the scratchpad and DRAM     *)
(* answer every request.  The issuer need not issue anything.              *)
Fairness ==
  /\ WF_vars(Dequeue) /\ WF_vars(SpadReadThread) /\ WF_vars(DramWriteThread)
  /\ \A c \in Credits : WF_vars(SpadAccess(c)) /\ WF_vars(SpadResponse(c))
  /\ \A b \in Bufs : WF_vars(DramAccess(b)) /\ WF_vars(DramResponse(b))

Spec == SafeSpec /\ Fairness
-----------------------------------------------------------------------------
(* The variables hold values of their C++ types. *)
TypeOK ==
  /\ mvout_instr_queue \in Seq(Instrs) /\ Len(mvout_instr_queue) <= INSTR_QUEUE_SIZE
  /\ rows_remaining \in [Instrs -> Nat]
  /\ last_issued_id \in 0 .. N_INSTRS
  /\ mvout \in TileRows \cup {NULL}
  /\ free_data_bufs \in Seq(Bufs)
  /\ free_spad_credits \in Seq(Credits)
  /\ ready_bufs \in Seq(Bufs)
  /\ spad_tag \in [Credits -> [row : TileRows, buf : Bufs] \cup {NULL}]
  /\ dram_tag \in [Bufs -> TileRows \cup {NULL}]
  /\ row_buffers \in [Bufs -> TileRows \cup {NULL}]
  /\ <<buf_freed, buf_ready, credit_freed>> \in BOOLEAN \X BOOLEAN \X BOOLEAN
  /\ spad_requests \subseteq Credits
  /\ spad_served \subseteq Credits
  /\ dram_requests \subseteq Bufs
  /\ dram_written \subseteq Bufs
  /\ dram \in [TileRows -> TileRows \cup {NULL}]

(* The credits whose request the scratchpad has *)
SpadBusy == spad_requests \cup spad_served

(* No buffer and no credit is lost or handed out twice: each is in exactly *)
(* one place.  A buffer stays claimed across both of its requests while    *)
(* its credit is freed, and reused, between them.                          *)
PoolsConserved ==
  /\ \A b \in Bufs :
       Cardinality({k \in DOMAIN free_data_bufs : free_data_bufs[k] = b})
       + Cardinality({k \in DOMAIN ready_bufs : ready_bufs[k] = b})
       + Cardinality({c \in SpadBusy : spad_tag[c].buf = b})
       + (IF b \in dram_requests THEN 1 ELSE 0)
       + (IF b \in dram_written THEN 1 ELSE 0) = 1
  /\ \A c \in Credits :
       Cardinality({k \in DOMAIN free_spad_credits : free_spad_credits[k] = c})
       + (IF c \in spad_requests THEN 1 ELSE 0)
       + (IF c \in spad_served THEN 1 ELSE 0) = 1

(* The rows of id that its thread has not asked for *)
RowsUnread(id) ==
  IF id \in Range(mvout_instr_queue) THEN Rows[id]
  ELSE IF mvout # NULL /\ mvout[1] = id THEN Rows[id] - mvout[2]
  ELSE 0

(* The rows of id that occupy a buffer *)
RowsBuffered(id) ==
  Cardinality({b \in Bufs \ Range(free_data_bufs) : dram_tag[b][1] = id})

(* rows_remaining counts exactly the rows DRAM has not answered, whatever  *)
(* the order of the answers.                                               *)
RowsAccounted ==
  \A id \in Instrs : rows_remaining[id] = RowsUnread(id) + RowsBuffered(id)

CopiesTiles ==
  INSTANCE TileCopy WITH
    issued      <- last_issued_id,
    completed   <- {id \in Instrs : is_complete(id)},
    destination <- dram

(* Every row of an issued mvout reaches its place in DRAM exactly once and *)
(* uncorrupted by the reuse of its buffer, is_complete holds only when all *)
(* of them have, and in the end it does hold.                              *)
ImplementsTileCopy == CopiesTiles!Spec
=============================================================================
