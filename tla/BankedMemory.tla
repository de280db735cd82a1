---------------------------- MODULE BankedMemory ----------------------------
(***************************************************************************)
(* What the initiators of scratchpad requests rely on, with nothing of how *)
(* the arbiter and the bank threads provide it: every bank is a queue of   *)
(* requests that are served one at a time in the order they arrived; a     *)
(* request takes effect on the memory exactly once, while it is at the     *)
(* head; and its answer goes to the initiator that sent it.                *)
(* MemoryArbiter implements this specification.                            *)
(***************************************************************************)
EXTENDS SpadAddr, Sequences

CONSTANTS
  Initiators,  \* initiator ids of the arbiter's target socket
  Payloads,    \* the generic payloads the initiators own
  Owner,       \* the initiator each payload belongs to
  Command,     \* "read" or "write", fixed per payload by its owner
  Values,      \* contents of a scratchpad row
  ZeroRow      \* what the rows hold at first

VARIABLES
  payload,      \* payload[p] = [address, data], as its owner filled it in
  outstanding,  \* {<<i, p>>} sent by i and not answered yet
  queue,        \* per bank, the requests in arrival order
  accessed,     \* per bank, has the head of the queue done its access?
  spad          \* spad[bank][row_offset]

vars == <<payload, outstanding, queue, accessed, spad>>

Init ==
  /\ payload = [p \in Payloads |-> [address |-> 0, data |-> ZeroRow]]
  /\ outstanding = {}
  /\ queue = [b \in Banks |-> << >>]
  /\ accessed = [b \in Banks |-> FALSE]
  /\ spad = [b \in Banks |-> [r \in RowOffsets |-> ZeroRow]]

(* Initiator i sends p; the request joins the queue of its bank. *)
Request(i, p, a, v) ==
  /\ Owner[p] = i
  /\ <<i, p>> \notin outstanding
  /\ v # payload[p].data => Command[p] = "write"
  /\ payload' = [payload EXCEPT ![p] = [address |-> a, data |-> v]]
  /\ outstanding' = outstanding \cup {<<i, p>>}
  /\ queue' = [queue EXCEPT ![BankOf(a)] =
                 Append(@, [initiator_id |-> i, payload |-> p])]
  /\ UNCHANGED <<accessed, spad>>

(* The head of bank b's queue reads or writes its row. *)
Access(b) ==
  /\ queue[b] # << >>
  /\ ~ accessed[b]
  /\ accessed' = [accessed EXCEPT ![b] = TRUE]
  /\ LET p == Head(queue[b]).payload
         r == RowOffsetOf(payload[p].address)
     IN  \/ /\ Command[p] = "read"
            /\ payload' = [payload EXCEPT ![p].data = spad[b][r]]
            /\ UNCHANGED spad
         \/ /\ Command[p] = "write"
            /\ spad' = [spad EXCEPT ![b][r] = payload[p].data]
            /\ UNCHANGED payload
  /\ UNCHANGED <<outstanding, queue>>

(* The head of bank b's queue is answered and leaves. *)
Respond(b) ==
  /\ queue[b] # << >>
  /\ accessed[b]
  /\ LET r == Head(queue[b])
     IN  outstanding' = outstanding \ {<<r.initiator_id, r.payload>>}
  /\ queue' = [queue EXCEPT ![b] = Tail(@)]
  /\ accessed' = [accessed EXCEPT ![b] = FALSE]
  /\ UNCHANGED <<payload, spad>>

Next ==
  \/ \E i \in Initiators, p \in Payloads, a \in FlatAddrs, v \in Values :
       Request(i, p, a, v)
  \/ \E b \in Banks : Access(b) \/ Respond(b)

SafeSpec == Init /\ [][Next]_vars

Spec == SafeSpec /\ \A b \in Banks : WF_vars(Access(b) \/ Respond(b))
=============================================================================
