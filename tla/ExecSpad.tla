------------------------------ MODULE ExecSpad ------------------------------
(***************************************************************************)
(* The exec controller's three sockets on the scratchpad: how gemm_thread  *)
(* and drain_thread (src/module/exec_controller.cpp) fetch and store rows  *)
(* through the arbiter, while the load and the store controller send       *)
(* requests to the same banks.                                             *)
(*                                                                         *)
(* ExecEngine takes the two reads of a row for one request that is         *)
(* answered some ticks later.  Here they are two requests to two banks or  *)
(* to one, answered in either order, and the thread waits for both of the  *)
(* events that the answers notify.  Time is any time; what becomes of the  *)
(* rows in the array is ExecEngine's matter.                               *)
(*                                                                         *)
(* Tile id is loaded, multiplied by the id-th gemm, and drained by the     *)
(* id-th drain, whose rows are then stored.  The issuer lets each complete *)
(* before the next, as the scoreboard does; the three tiles of a gemm and  *)
(* those of its neighbours overlap in time as far as that allows.  A row   *)
(* is its name, <<matrix, id, index in the tile>>.                         *)
(***************************************************************************)
EXTENDS SpadAddr, Sequences

CONSTANTS
  DIM,           \* rows of a tile
  N_GEMMS,
  tile_addr,     \* tile_addr[matrix][id]: A_addr, B_addr and C_addr
  tile_stride,   \* tile_stride[matrix][id]: a_stride, b_stride and c_stride
  LoadCredits,   \* the load controller's scratchpad payloads
  ZeroRow, NULL

Ids  == 1 .. N_GEMMS
Rows == 0 .. DIM - 1

ASSUME SizesAssumption == DIM \in Nat \ {0} /\ N_GEMMS \in Nat

(* The order of the arbiter's target sockets *)
load  == 0
store == 1
a     == 2
b     == 3
c     == 4

Payloads == ({load} \X LoadCredits) \cup {<<i, 0>> : i \in {store, a, b, c}}

TileRows(matrices) == matrices \X Ids \X Rows

AddrOf(row) == tile_addr[row[1]][row[2]] + row[3] * tile_stride[row[1]][row[2]]

(* The tiles of the instance lie in different places of the scratchpad. *)
ASSUME PlacesAssumption ==
  \A x, y \in TileRows({"A", "B", "C"}) :
    AddrOf(x) \in FlatAddrs /\ (AddrOf(x) = AddrOf(y) => x = y)

ASSUME NullAssumption ==
  NULL \notin Payloads /\ NULL \notin TileRows({"A", "B", "C"})

VARIABLES
  (* ExecController *)
  gemm, drain,        \* the two threads: [id, row, step]
  waits_for,          \* of a_done and b_done, those gemm_thread still waits for
  a_done, b_done, c_done,  \* delta notifications
  a_out, b_out,       \* all rows written to the channels
  (* the load controller: rows not requested yet, and the row of a credit *)
  unloaded, load_tag,
  (* the store controller: [id, row] it reads next, and what it has read *)
  mvout, stored,
  (* MemoryArbiter's *)
  payload, outstanding, bank_busy, bank_to_initiator_id, pending_requests,
  bank_freed, bank_to_payload, bank_events, bank_thread, bank_conflict, spad

gemmVars  == <<gemm, waits_for, a_done, b_done, a_out, b_out>>
drainVars == <<drain, c_done>>
loadVars  == <<unloaded, load_tag>>
storeVars == <<mvout, stored>>
arbiterVars ==
  <<payload, outstanding, bank_busy, bank_to_initiator_id, pending_requests,
    bank_freed, bank_to_payload, bank_events, bank_thread, bank_conflict, spad>>
vars == <<gemmVars, drainVars, loadVars, storeVars, arbiterVars>>

Arbiter == INSTANCE MemoryArbiter WITH
  N_INITIATORS <- 5,
  Owner   <- [p \in Payloads |-> p[1]],
  Command <- [p \in Payloads |-> IF p[1] \in {load, c} THEN "write" ELSE "read"],
  Values  <- TileRows({"A", "B", "C"}) \cup {ZeroRow}

Init ==
  /\ gemm  = [id |-> 1, row |-> 0, step |-> "a_request"]
  /\ drain = [id |-> 1, row |-> 0, step |-> "c_in"]
  /\ waits_for = {}
  /\ a_done = FALSE /\ b_done = FALSE /\ c_done = FALSE
  /\ a_out = << >> /\ b_out = << >>
  /\ unloaded = TileRows({"A", "B"})
  /\ load_tag = [credit \in LoadCredits |-> NULL]
  /\ mvout = [id |-> 1, row |-> 0]
  /\ stored = << >>
  /\ Arbiter!Init

(* nb_transport_fw of the initiator's socket *)
Request(p, row, data) == Arbiter!Request(p[1], p, AddrOf(row), data)

(* gemm_thread sends both requests before any other process runs. *)
Yielded == gemm.step # "b_request"
-----------------------------------------------------------------------------
(* ExecController::gemm_thread, the loop of a gemm that is not a flush *)

is_gemm_complete(id)  == id < gemm.id
is_drain_complete(id) == id < drain.id

(* The issuer: all rows of the tiles were requested and answered. *)
Loaded(id) ==
  \A row \in {"A", "B"} \X {id} \X Rows :
    row \notin unloaded /\ \A credit \in LoadCredits : load_tag[credit] # row

RequestA ==
  /\ gemm.id \in Ids /\ gemm.step = "a_request"
  /\ Loaded(gemm.id)
  /\ Request(<<a, 0>>, <<"A", gemm.id, gemm.row>>, payload[<<a, 0>>].data)
  /\ gemm' = [gemm EXCEPT !.step = "b_request"]
  /\ UNCHANGED <<waits_for, a_done, b_done, a_out, b_out, drainVars, loadVars, storeVars>>

RequestB ==
  /\ gemm.step = "b_request"
  /\ Request(<<b, 0>>, <<"B", gemm.id, gemm.row>>, payload[<<b, 0>>].data)
  /\ gemm' = [gemm EXCEPT !.step = "wait"]
  /\ waits_for' = {"a_done", "b_done"}
  /\ UNCHANGED <<a_done, b_done, a_out, b_out, drainVars, loadVars, storeVars>>

(* Mutants: wait(a_done | b_done); wait(a_done) and then wait(b_done). *)
StillWaits_Either(e) == {}

StillWaits_InTurn(e) ==
  IF e = "b_done" /\ "a_done" \in waits_for THEN waits_for ELSE waits_for \ {e}

(* wait(a_done & b_done) once event e has fired *)
StillWaits(e) == waits_for \ {e}

(* The kernel fires a notified event; nobody else waits for it. *)
FireA == Yielded /\ a_done /\ a_done' = FALSE /\ waits_for' = StillWaits("a_done")
                 /\ UNCHANGED <<b_done, gemm, a_out, b_out>>
FireB == Yielded /\ b_done /\ b_done' = FALSE /\ waits_for' = StillWaits("b_done")
                 /\ UNCHANGED <<a_done, gemm, a_out, b_out>>

(* Each write copies the buffer its payload points to, and may block.      *)
WriteA ==
  /\ gemm.step = "wait" /\ waits_for = {}
  /\ a_out' = Append(a_out, payload[<<a, 0>>].data)
  /\ gemm' = [gemm EXCEPT !.step = "b_write"]
  /\ UNCHANGED <<waits_for, a_done, b_done, b_out>>

(* The row or the gemm ends. *)
WriteB ==
  /\ gemm.step = "b_write"
  /\ b_out' = Append(b_out, payload[<<b, 0>>].data)
  /\ gemm' = IF gemm.row + 1 < DIM
             THEN [gemm EXCEPT !.row = @ + 1, !.step = "a_request"]
             ELSE [id |-> gemm.id + 1, row |-> 0, step |-> "a_request"]
  /\ UNCHANGED <<waits_for, a_done, b_done, a_out>>

GemmStep == (FireA \/ FireB \/ WriteA \/ WriteB)
            /\ UNCHANGED <<drainVars, loadVars, storeVars, arbiterVars>>
-----------------------------------------------------------------------------
(* ExecController::drain_thread *)

(* Mutant: the next row is read into c_vec_buf before the answer. *)
DrainRow_Prefetch ==
  /\ Yielded
  /\ drain.id \in Ids /\ is_gemm_complete(drain.id)
  /\ \/ /\ drain.step = "c_in"
        /\ Request(<<c, 0>>, <<"C", drain.id, drain.row>>, <<"C", drain.id, drain.row>>)
        /\ drain' = [drain EXCEPT !.step = "c_done"]
     \/ /\ drain.step = "c_done" /\ drain.row + 1 < DIM
        /\ payload' = [payload EXCEPT ![<<c, 0>>].data = <<"C", drain.id, drain.row + 1>>]
        /\ UNCHANGED <<drain, outstanding, bank_busy, bank_to_initiator_id,
                       pending_requests, bank_freed, bank_to_payload, bank_events,
                       bank_thread, bank_conflict, spad>>
  /\ UNCHANGED <<c_done, gemmVars, loadVars, storeVars>>

(* A scaled row arrives in c_vec_buf and is written. *)
DrainRow ==
  /\ Yielded
  /\ drain.id \in Ids /\ is_gemm_complete(drain.id)
  /\ drain.step = "c_in"
  /\ Request(<<c, 0>>, <<"C", drain.id, drain.row>>, <<"C", drain.id, drain.row>>)
  /\ drain' = [drain EXCEPT !.step = "c_done"]
  /\ UNCHANGED <<c_done, gemmVars, loadVars, storeVars>>

(* From wait(c_done) on: the next row, or the end *)
DrainNext ==
  /\ Yielded
  /\ drain.step = "c_done" /\ c_done
  /\ c_done' = FALSE
  /\ drain' = IF drain.row + 1 < DIM
              THEN [drain EXCEPT !.row = @ + 1, !.step = "c_in"]
              ELSE [id |-> drain.id + 1, row |-> 0, step |-> "c_in"]
  /\ UNCHANGED <<gemmVars, loadVars, storeVars, arbiterVars>>
-----------------------------------------------------------------------------
(* The other two controllers, as far as the banks see them *)

LoadRow(credit) ==
  /\ Yielded
  /\ load_tag[credit] = NULL
  /\ \E row \in unloaded :
       /\ \A other \in unloaded : row[2] <= other[2]
       /\ Request(<<load, credit>>, row, row)
       /\ load_tag' = [load_tag EXCEPT ![credit] = row]
       /\ unloaded' = unloaded \ {row}
  /\ UNCHANGED <<gemmVars, drainVars, storeVars>>

StoreRow ==
  /\ Yielded
  /\ mvout.id \in Ids /\ is_drain_complete(mvout.id)
  /\ Request(<<store, 0>>, <<"C", mvout.id, mvout.row>>, payload[<<store, 0>>].data)
  /\ UNCHANGED <<gemmVars, drainVars, loadVars, storeVars>>

(* What the sockets do with the answer to p: nb_transport_a_bw, _b_bw and  *)
(* _c_bw, and those of the other two controllers.                          *)
Answer(p) ==
  \/ /\ p[1] = a
     /\ a_done' = TRUE
     /\ UNCHANGED <<gemm, waits_for, b_done, a_out, b_out, drainVars, loadVars, storeVars>>
  \/ /\ p[1] = b
     /\ b_done' = TRUE
     /\ UNCHANGED <<gemm, waits_for, a_done, a_out, b_out, drainVars, loadVars, storeVars>>
  \/ /\ p[1] = c
     /\ c_done' = TRUE
     /\ UNCHANGED <<drain, gemmVars, loadVars, storeVars>>
  \/ /\ p[1] = load
     /\ load_tag' = [load_tag EXCEPT ![p[2]] = NULL]
     /\ UNCHANGED <<unloaded, gemmVars, drainVars, storeVars>>
  \/ /\ p[1] = store
     /\ stored' = Append(stored, payload[p].data)
     /\ mvout' = IF mvout.row + 1 < DIM
                 THEN [mvout EXCEPT !.row = @ + 1]
                 ELSE [id |-> mvout.id + 1, row |-> 0]
     /\ UNCHANGED <<gemmVars, drainVars, loadVars>>

BankDone(bank) ==
  /\ Yielded
  /\ Arbiter!BankDone(bank)
  /\ Answer(<<bank_to_initiator_id[bank], bank_thread[bank][2]>>)

(* The bank's other steps are between it and the arbiter. *)
BankStep(bank) ==
  /\ Yielded
  /\ Arbiter!BankAccess(bank) \/ Arbiter!ForwardPending(bank)
  /\ UNCHANGED <<gemmVars, drainVars, loadVars, storeVars>>

Next ==
  \/ RequestA \/ RequestB \/ GemmStep \/ DrainRow \/ DrainNext
  \/ \E credit \in LoadCredits : LoadRow(credit)
  \/ StoreRow
  \/ \E bank \in Banks : BankDone(bank) \/ BankStep(bank)

(* The kernel runs every process that can run, and an access takes finite  *)
(* time; the issuer's programs come to their end.                          *)
Fairness ==
  /\ WF_vars(RequestA) /\ WF_vars(RequestB) /\ WF_vars(GemmStep)
  /\ WF_vars(DrainRow) /\ WF_vars(DrainNext)
  /\ \A credit \in LoadCredits : WF_vars(LoadRow(credit))
  /\ WF_vars(StoreRow)
  /\ \A bank \in Banks : WF_vars(BankDone(bank)) /\ WF_vars(BankStep(bank))

Spec == Init /\ [][Next]_vars /\ Fairness
-----------------------------------------------------------------------------
(* Row k of all rows of the gemms, or of the drains, in program order *)
Nth(matrix, k) == <<matrix, 1 + (k - 1) \div DIM, (k - 1) % DIM>>

(* gemm_thread hands on the rows it asked for, in order and in pairs: row  *)
(* r of A meets row r of B although the two reads share the banks with     *)
(* four others, are answered in either order, and reuse their buffers.     *)
RowsPaired ==
  /\ \A k \in DOMAIN a_out : a_out[k] = Nth("A", k)
  /\ \A k \in DOMAIN b_out : b_out[k] = Nth("B", k)

(* What an mvout reads after its drain is complete are the rows drained,   *)
(* each in its place.                                                      *)
StoresDrainedRows == \A k \in DOMAIN stored : stored[k] = Nth("C", k)

(* No event of the three sockets is missed: everything is multiplied,      *)
(* drained and stored in the end.                                          *)
EngineCompletes == <>(Len(stored) = N_GEMMS * DIM)
=============================================================================
