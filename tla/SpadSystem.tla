----------------------------- MODULE SpadSystem -----------------------------
(***************************************************************************)
(* The load and the store controller on one scratchpad, as TopModule wires *)
(* them (src/module/top_module.cpp): both send their requests to the       *)
(* arbiter, the banks answer through it, and an issuer gives mvins and     *)
(* mvouts to the controllers in an order that the tiles' places require.   *)
(*                                                                         *)
(* LoadController and StoreController name a row and leave its place and   *)
(* the scratchpad's answers open; MemoryArbiter leaves its initiators      *)
(* open.  Here each is what the others assume of it.  Rows have addresses, *)
(* the scratchpad holds what was written to an address last, and mvout id  *)
(* reads the tile of mvin id, which must still be there.                   *)
(*                                                                         *)
(* A thread sends all its requests before it waits again: sending holds    *)
(* those it has not sent yet, and nothing else runs until it is empty.     *)
(***************************************************************************)
EXTENDS LoadController, SpadAddr

CONSTANTS
  spad_addr,         \* spad_addr[id], flat address of the tile's first row
  spad_stride,       \* spad_stride[id], between its rows
  STORE_N_DATA_BUF,  \* data buffers of the store controller
  ZeroRow            \* what a scratchpad row holds at first

ASSUME StoreSizeAssumption == STORE_N_DATA_BUF \in Nat \ {0}
ASSUME AddrAssumption      == spad_addr \in [Instrs -> FlatAddrs]
ASSUME StrideAssumption    == spad_stride \in [Instrs -> Nat \ {0}]

(* The order of the arbiter's target sockets *)
load  == 0
store == 1

(* nullptr is no payload. *)
ASSUME PayloadAssumption == NULL \notin {load, store} \X Credits

(* check_spad_addr_range of TopModule: the last row lies in the scratchpad. *)
ASSUME TileAssumption ==
  \A id \in Instrs : spad_addr[id] + (Rows[id] - 1) * spad_stride[id] \in FlatAddrs

(* The load controller's variables, of which spad says what reached the    *)
(* scratchpad, and                                                         *)
VARIABLES
  (* StoreController's *)
  mvout_instr_queue, store_rows_remaining, store_last_issued_id, mvout,
  store_free_data_bufs, store_free_spad_credits, store_ready_bufs,
  store_spad_tag, store_dram_tag, store_row_buffers,
  store_buf_freed, store_buf_ready, store_credit_freed,
  store_spad_requests, store_spad_served,
  store_dram_requests, store_dram_written, dram,
  (* MemoryArbiter's *)
  payload, outstanding, bank_busy, bank_to_initiator_id, pending_requests,
  bank_freed, bank_to_payload, bank_events, bank_thread, bank_conflict, mem,
  (* requests of the running thread, <<initiator, credit>>, still to be sent *)
  sending

loadVars  == vars
storeVars ==
  <<mvout_instr_queue, store_rows_remaining, store_last_issued_id, mvout,
    store_free_data_bufs, store_free_spad_credits, store_ready_bufs,
    store_spad_tag, store_dram_tag, store_row_buffers,
    store_buf_freed, store_buf_ready, store_credit_freed,
    store_spad_requests, store_spad_served,
    store_dram_requests, store_dram_written, dram>>
arbiterVars ==
  <<payload, outstanding, bank_busy, bank_to_initiator_id, pending_requests,
    bank_freed, bank_to_payload, bank_events, bank_thread, bank_conflict, mem>>
systemVars == <<loadVars, storeVars, arbiterVars, sending>>

S == INSTANCE StoreController WITH
  rows_remaining <- store_rows_remaining, last_issued_id <- store_last_issued_id,
  free_data_bufs <- store_free_data_bufs, free_spad_credits <- store_free_spad_credits,
  ready_bufs <- store_ready_bufs, dram_tag <- store_dram_tag,
  row_buffers <- store_row_buffers, spad_tag <- store_spad_tag,
  buf_freed <- store_buf_freed, buf_ready <- store_buf_ready,
  credit_freed <- store_credit_freed, dram_requests <- store_dram_requests,
  dram_written <- store_dram_written,
  spad_requests <- store_spad_requests, spad_served <- store_spad_served

Arbiter == INSTANCE MemoryArbiter WITH
  N_INITIATORS <- 2,
  Payloads <- {load, store} \X Credits,
  Owner    <- [p \in {load, store} \X Credits |-> p[1]],
  Command  <- [p \in {load, store} \X Credits |-> IF p[1] = load THEN "write" ELSE "read"],
  Values   <- TileRows \cup {ZeroRow},
  spad     <- mem

SystemInit == Init /\ S!Init /\ Arbiter!Init /\ sending = << >>

AddrOf(row) == FlatPlus(spad_addr[row[1]], row[2] * spad_stride[row[1]])

Places(id) == {AddrOf(<<id, row>>) : row \in 0 .. Rows[id] - 1}
-----------------------------------------------------------------------------
(* Mutant: a tile's place is free as soon as its mvout is issued. *)
PlaceFree_Issued(id) ==
  \A e \in 1 .. id - 1 : Places(e) \cap Places(id) # {} => e <= store_last_issued_id

(* The issuer: a place is loaded again once its tile is stored ... *)
PlaceFree(id) ==
  \A e \in 1 .. id - 1 : Places(e) \cap Places(id) # {} => S!is_complete(e)

(* The requests for which the thread takes the front credits of its pool *)
Taken(initiator, credits) ==
  [k \in 1 .. Len(credits) - Len(credits') |-> <<initiator, credits[k]>>]

(* A step of the load controller alone; it may be the thread that sends. *)
OfLoad(Step) ==
  /\ sending = << >>
  /\ Step
  /\ sending' = Taken(load, free_spad_credits)
  /\ UNCHANGED <<storeVars, arbiterVars>>

OfStore(Step) ==
  /\ sending = << >>
  /\ Step
  /\ sending' = Taken(store, store_free_spad_credits)
  /\ UNCHANGED <<loadVars, arbiterVars>>

IssueMvin == OfLoad(Issue) /\ PlaceFree(last_issued_id')

(* ... and a tile is stored once it is loaded. *)
IssueMvout == OfStore(S!Issue) /\ is_complete(store_last_issued_id')

(* The thread sends its next request. *)
Send ==
  /\ sending # << >>
  /\ sending' = Tail(sending)
  /\ LET p == Head(sending)
     IN  IF p[1] = load
         THEN LET tag == spad_tag[p[2]]
              IN  Arbiter!Request(load, p, AddrOf(tag.row), row_buffers[tag.buf])
         ELSE Arbiter!Request(store, p, AddrOf(store_spad_tag[p[2]].row), payload[p].data)
  /\ UNCHANGED <<loadVars, storeVars>>

(* The bank reads or writes the row buffer of the credit it has.           *)
BankAccess(b) ==
  /\ sending = << >>
  /\ Arbiter!BankAccess(b)
  /\ LET p == bank_to_payload[b]
     IN  \/ p[1] = load  /\ SpadAccess(p[2]) /\ UNCHANGED storeVars
         \/ p[1] = store /\ S!SpadAccess(p[2]) /\ UNCHANGED loadVars
  /\ UNCHANGED sending

(* The bank answers the arbiter, which answers the controller. *)
BankDone(b) ==
  /\ sending = << >>
  /\ Arbiter!BankDone(b)
  /\ LET credit == bank_thread[b][2]
     IN  \/ bank_to_initiator_id[b] = load  /\ SpadResponse(credit) /\ UNCHANGED storeVars
         \/ bank_to_initiator_id[b] = store /\ S!SpadResponse(credit) /\ UNCHANGED loadVars
  /\ UNCHANGED sending

ForwardPending(b) ==
  /\ sending = << >>
  /\ Arbiter!ForwardPending(b)
  /\ UNCHANGED <<loadVars, storeVars, sending>>

SystemNext ==
  \/ IssueMvin \/ IssueMvout \/ Send
  \/ OfLoad(Dequeue) \/ OfLoad(BufFreed) \/ OfLoad(SpadWriteThread)
  \/ \E buf \in Bufs : OfLoad(DramResponse(buf))
  \/ OfStore(S!Dequeue) \/ OfStore(S!SpadReadThread) \/ OfStore(S!DramWriteThread)
  \/ \E buf \in S!Bufs : OfStore(S!DramAccess(buf)) \/ OfStore(S!DramResponse(buf))
  \/ \E b \in Banks : BankAccess(b) \/ BankDone(b) \/ ForwardPending(b)

(* The kernel runs every process that can run, and DRAM answers. *)
SystemFairness ==
  /\ WF_systemVars(Send)
  /\ WF_systemVars(OfLoad(Dequeue)) /\ WF_systemVars(OfLoad(BufFreed))
  /\ WF_systemVars(OfLoad(SpadWriteThread))
  /\ \A buf \in Bufs : WF_systemVars(OfLoad(DramResponse(buf)))
  /\ WF_systemVars(OfStore(S!Dequeue)) /\ WF_systemVars(OfStore(S!SpadReadThread))
  /\ WF_systemVars(OfStore(S!DramWriteThread))
  /\ \A buf \in S!Bufs : /\ WF_systemVars(OfStore(S!DramAccess(buf)))
                         /\ WF_systemVars(OfStore(S!DramResponse(buf)))
  /\ \A b \in Banks : /\ WF_systemVars(BankAccess(b)) /\ WF_systemVars(BankDone(b))
                      /\ WF_systemVars(ForwardPending(b))

SystemSpec == SystemInit /\ [][SystemNext]_systemVars /\ SystemFairness
-----------------------------------------------------------------------------
(* A row read for an mvout is the row its mvin loaded, although the bank   *)
(* served others in between and its place is loaded again later.           *)
ReadsItsTile ==
  \A credit \in store_spad_served :
    payload[<<store, credit>>].data = store_spad_tag[credit].row

(* No buffer and no credit of the store controller is lost or handed out   *)
(* twice, and it counts exactly the rows DRAM has not answered.            *)
StoreConserved == S!PoolsConserved /\ S!RowsAccounted

(* Every row of an issued mvout reaches DRAM exactly once and uncorrupted  *)
(* by the reuse of its buffer, is_complete holds only when all of them     *)
(* have, and in the end it does hold, although the load controller's       *)
(* requests go to the same banks.                                          *)
StoreCopies == S!ImplementsTileCopy
=============================================================================
