---------------------------- MODULE MemoryArbiter ----------------------------
(***************************************************************************)
(* The memory arbiter (src/module/memory_arbiter.cpp) together with the    *)
(* scratchpad banks behind it (src/module/spad_module.cpp).                *)
(*                                                                         *)
(* Five initiator sockets (load, store, exec a, b and c) call the arbiter. *)
(* A request to an idle bank is forwarded in the same call, any other is   *)
(* queued; a completed request answers its initiator, frees the bank and,  *)
(* when requests wait, notifies bank_freed so that the bank's method       *)
(* process forwards the next one.  Between that notification and the       *)
(* method process any process may run, in particular one that sends a new  *)
(* request to the same bank.                                               *)
(*                                                                         *)
(* SystemC processes are not preempted between waits, so an action is what *)
(* a process does from one wait to the next.  The order of the processes   *)
(* that can run and the time a bank takes are left open.                   *)
(***************************************************************************)
EXTENDS SpadAddr, Sequences

CONSTANTS
  N_INITIATORS,  \* initiator sockets bound to t_socket
  Payloads,      \* the generic payloads those initiators own
  Owner,         \* the initiator each payload belongs to
  Command,       \* "read" or "write", fixed per payload in its owner's constructor
  Values,        \* contents of a scratchpad row
  ZeroRow,       \* the row SpadLogic's constructor fills the banks with
  NULL           \* nullptr

Initiators == 0 .. N_INITIATORS - 1

ASSUME InitiatorAssumption == N_INITIATORS \in Nat \ {0}
ASSUME OwnerAssumption     == Owner \in [Payloads -> Initiators]
ASSUME CommandAssumption   == Command \in [Payloads -> {"read", "write"}]
ASSUME ValuesAssumption    == ZeroRow \in Values
ASSUME NullAssumption      == NULL \notin Payloads

VARIABLES
  (* the initiators *)
  payload,               \* payload[p] = [address, data]
  outstanding,           \* {<<i, p>>} sent by i and not answered yet
  (* MemoryArbiter *)
  bank_busy,             \* is a request of the bank in flight?
  bank_to_initiator_id,  \* who is answered when it completes
  pending_requests,      \* FIFO of waiting requests per bank
  bank_freed,            \* delta notification of the bank's method process
  (* SpadModule *)
  bank_to_payload,       \* the request handed to the bank, or NULL
  bank_events,           \* delta notification of the bank's thread
  bank_thread,           \* NULL while the thread waits for its event,
                         \* else the payload it serves
  bank_conflict,         \* SC_REPORT_ERROR("SpadModule", "Bank conflict") raised?
  spad                   \* SpadLogic: spad[bank][row_offset]

arbiterVars == <<bank_busy, bank_to_initiator_id, pending_requests, bank_freed>>
bankVars    == <<bank_to_payload, bank_events, bank_thread, bank_conflict, spad>>
vars        == <<payload, outstanding, arbiterVars, bankVars>>

PendingRequest == [initiator_id : Initiators, payload : Payloads]

Init ==
  /\ payload = [p \in Payloads |-> [address |-> 0, data |-> ZeroRow]]
  /\ outstanding = {}
  /\ bank_busy = [b \in Banks |-> FALSE]
  /\ bank_to_initiator_id = [b \in Banks |-> 0]
  /\ pending_requests = [b \in Banks |-> << >>]
  /\ bank_freed = [b \in Banks |-> FALSE]
  /\ bank_to_payload = [b \in Banks |-> NULL]
  /\ bank_events = [b \in Banks |-> FALSE]
  /\ bank_thread = [b \in Banks |-> NULL]
  /\ bank_conflict = FALSE
  /\ spad = [b \in Banks |-> [r \in RowOffsets |-> ZeroRow]]
-----------------------------------------------------------------------------
(* SpadModule::nb_transport_fw.  SC_REPORT_ERROR throws, so a bank that    *)
(* still holds a payload keeps it.                                         *)
BankBeginReq(b, p) ==
  IF bank_to_payload[b] # NULL
  THEN /\ bank_conflict' = TRUE
       /\ UNCHANGED <<bank_to_payload, bank_events>>
  ELSE /\ bank_to_payload' = [bank_to_payload EXCEPT ![b] = p]
       /\ bank_events' = [bank_events EXCEPT ![b] = TRUE]
       /\ UNCHANGED bank_conflict

(* Mutants of Forward: the arbiter keeps the previous initiator's id; ids  *)
(* counted from 1.                                                         *)
Forward_StaleInitiator(b, i, p) ==
  /\ bank_busy' = [bank_busy EXCEPT ![b] = TRUE]
  /\ UNCHANGED bank_to_initiator_id
  /\ BankBeginReq(b, p)

Forward_OneBased(b, i, p) ==
  /\ bank_busy' = [bank_busy EXCEPT ![b] = TRUE]
  /\ bank_to_initiator_id' = [bank_to_initiator_id EXCEPT ![b] = i + 1]
  /\ BankBeginReq(b, p)

(* The arbiter takes the bank for a request and forwards it.               *)
Forward(b, i, p) ==
  /\ bank_busy' = [bank_busy EXCEPT ![b] = TRUE]
  /\ bank_to_initiator_id' = [bank_to_initiator_id EXCEPT ![b] = i]
  /\ BankBeginReq(b, p)

(* Mutant: only an idle bank is asked for, not an empty queue. *)
MustQueue_BusyOnly(b) == bank_busy[b]

MustQueue(b) == bank_busy[b] \/ pending_requests[b] # << >>

(* MemoryArbiter::nb_transport_fw, called by initiator i with p filled in. *)
RequestQueued(b, i, p) ==
  /\ MustQueue(b)
  /\ pending_requests' =
       [pending_requests EXCEPT ![b] =
          Append(@, [initiator_id |-> i, payload |-> p])]
  /\ UNCHANGED <<bank_busy, bank_to_initiator_id, bank_to_payload,
                 bank_events, bank_conflict>>

RequestForwarded(b, i, p) ==
  /\ ~ MustQueue(b)
  /\ Forward(b, i, p)
  /\ UNCHANGED pending_requests

Request(i, p, a, v) ==
  /\ Owner[p] = i
  /\ <<i, p>> \notin outstanding
  /\ v # payload[p].data => Command[p] = "write"
  /\ payload' = [payload EXCEPT ![p] = [address |-> a, data |-> v]]
  /\ outstanding' = outstanding \cup {<<i, p>>}
  /\ \/ RequestQueued(BankOf(a), i, p)
     \/ RequestForwarded(BankOf(a), i, p)
  /\ UNCHANGED <<bank_freed, bank_thread, spad>>

(* SpadModule::bank_thread from wait(bank_events) to wait(BANK_ACCESS_TIME). *)
(* An event that fires while the thread is not waiting for it is lost.       *)
BankAccess(b) ==
  /\ bank_events[b]
  /\ bank_events' = [bank_events EXCEPT ![b] = FALSE]
  /\ IF bank_thread[b] = NULL
     THEN LET p == bank_to_payload[b]
              r == RowOffsetOf(payload[p].address)
          IN  /\ bank_thread' = [bank_thread EXCEPT ![b] = p]
              /\ \/ /\ Command[p] = "read"
                    /\ payload' = [payload EXCEPT ![p].data = spad[b][r]]
                    /\ UNCHANGED spad
                 \/ /\ Command[p] = "write"
                    /\ spad' = [spad EXCEPT ![b][r] = payload[p].data]
                    /\ UNCHANGED payload
     ELSE UNCHANGED <<bank_thread, payload, spad>>
  /\ UNCHANGED <<outstanding, arbiterVars, bank_to_payload, bank_conflict>>

(* Mutant: the method process is not notified. *)
BankResponse_NoNotify(b, p) ==
  /\ outstanding' = outstanding \ {<<bank_to_initiator_id[b], p>>}
  /\ bank_busy' = [bank_busy EXCEPT ![b] = FALSE]
  /\ UNCHANGED bank_freed

(* MemoryArbiter::nb_transport_bw: answer the initiator, then free the bank. *)
BankResponse(b, p) ==
  /\ outstanding' = outstanding \ {<<bank_to_initiator_id[b], p>>}
  /\ bank_busy' = [bank_busy EXCEPT ![b] = FALSE]
  /\ bank_freed' =
       [bank_freed EXCEPT ![b] = @ \/ pending_requests[b] # << >>]

(* bank_thread from the end of the access time back to wait(bank_events).   *)
BankDone(b) ==
  /\ bank_thread[b] # NULL
  /\ bank_to_payload' = [bank_to_payload EXCEPT ![b] = NULL]
  /\ bank_thread' = [bank_thread EXCEPT ![b] = NULL]
  /\ BankResponse(b, bank_thread[b])
  /\ UNCHANGED <<payload, bank_to_initiator_id, pending_requests,
                 bank_events, bank_conflict, spad>>

(* Mutant: the forwarded request is not popped. *)
ForwardPending_NoPop(b) ==
  /\ bank_freed[b]
  /\ bank_freed' = [bank_freed EXCEPT ![b] = FALSE]
  /\ LET pending == Head(pending_requests[b])
     IN  Forward(b, pending.initiator_id, pending.payload)
  /\ UNCHANGED <<payload, outstanding, pending_requests, bank_thread, spad>>

(* MemoryArbiter::forward_pending, the method process of bank_freed[b]. *)
ForwardPending(b) ==
  /\ bank_freed[b]
  /\ bank_freed' = [bank_freed EXCEPT ![b] = FALSE]
  /\ pending_requests' = [pending_requests EXCEPT ![b] = Tail(@)]
  /\ LET pending == Head(pending_requests[b])
     IN  Forward(b, pending.initiator_id, pending.payload)
  /\ UNCHANGED <<payload, outstanding, bank_thread, spad>>

BankStep(b) == BankAccess(b) \/ BankDone(b) \/ ForwardPending(b)

Next ==
  \/ \E i \in Initiators, p \in Payloads, a \in FlatAddrs, v \in Values :
       Request(i, p, a, v)
  \/ \E b \in Banks : BankStep(b)

SafeSpec == Init /\ [][Next]_vars

(* The kernel runs every process that can run, and an access takes finite  *)
(* time.  The initiators need not send anything.                           *)
Fairness == \A b \in Banks : /\ WF_vars(BankAccess(b))
                             /\ WF_vars(BankDone(b))
                             /\ WF_vars(ForwardPending(b))

Spec == SafeSpec /\ Fairness
-----------------------------------------------------------------------------
(* The variables hold values of their C++ types: ids index the socket, the *)
(* pointers are null or point to a payload of an initiator.                *)
TypeOK ==
  /\ payload \in [Payloads -> [address : FlatAddrs, data : Values]]
  /\ outstanding \subseteq (Initiators \X Payloads)
  /\ bank_busy \in [Banks -> BOOLEAN]
  /\ bank_to_initiator_id \in [Banks -> Initiators]
  /\ pending_requests \in [Banks -> Seq(PendingRequest)]
  /\ bank_freed \in [Banks -> BOOLEAN]
  /\ bank_to_payload \in [Banks -> Payloads \cup {NULL}]
  /\ bank_events \in [Banks -> BOOLEAN]
  /\ bank_thread \in [Banks -> Payloads \cup {NULL}]
  /\ bank_conflict \in BOOLEAN
  /\ spad \in [Banks -> [RowOffsets -> Values]]

(* SpadModule's "Bank conflict" error is never raised: a request that      *)
(* arrives after a bank was freed and before the method process of         *)
(* bank_freed has run is queued, never forwarded ahead of it.              *)
NoBankConflict == ~ bank_conflict

(* The requests of bank b in arrival order, the one in the bank first *)
RequestsOf(b) ==
  (IF bank_busy[b]
   THEN << [initiator_id |-> bank_to_initiator_id[b],
            payload |-> bank_to_payload[b]] >>
   ELSE << >>) \o pending_requests[b]

(* A queued payload is the same object until it is served: every waiting   *)
(* or served payload is outstanding at the initiator that will be answered *)
(* for it, it sits in one place only, and its address selects that bank.   *)
PayloadsHeldOnce ==
  /\ \A b \in Banks : \A k \in 1 .. Len(RequestsOf(b)) :
       LET q == RequestsOf(b)[k]
       IN  /\ q.payload \in Payloads
           /\ <<q.initiator_id, q.payload>> \in outstanding
           /\ BankOf(payload[q.payload].address) = b
           /\ \A c \in Banks : \A l \in 1 .. Len(RequestsOf(c)) :
                RequestsOf(c)[l].payload = q.payload => c = b /\ l = k
  /\ \A o \in outstanding : \E b \in Banks : \E k \in 1 .. Len(RequestsOf(b)) :
       RequestsOf(b)[k] = [initiator_id |-> o[1], payload |-> o[2]]

ServesInOrder ==
  INSTANCE BankedMemory WITH
    queue    <- [b \in Banks |-> RequestsOf(b)],
    accessed <- [b \in Banks |-> bank_thread[b] # NULL]

(* Requests to a bank are served in arrival order, each exactly once, and  *)
(* each answer reaches the initiator that sent the request.                *)
ImplementsBankedMemory == ServesInOrder!Spec

(* No notification is lost: every request is answered, however many others *)
(* compete for its bank.                                                   *)
EveryRequestAnswered ==
  \A p \in Payloads :
    (<<Owner[p], p>> \in outstanding) ~> (<<Owner[p], p>> \notin outstanding)
=============================================================================
