------------------------ MODULE MemoryArbiter_proofs ------------------------
(***************************************************************************)
(* Theorems about MemoryArbiter, for every number of banks, rows,          *)
(* initiators and payloads.                                                *)
(*                                                                         *)
(* NoBankConflict is not inductive: that no request is ever handed to a    *)
(* bank that holds one rests on how the arbiter's busy flag, its queue and *)
(* its notification relate to the bank's payload, event and thread.        *)
(* HandshakeInv states those relations.                                    *)
(***************************************************************************)
EXTENDS MemoryArbiter, SequenceTheorems, TLAPS

(* One bank's handshake: busy exactly while the bank holds a payload; the  *)
(* event is pending from the hand-over until the thread takes the payload; *)
(* a queue without a request in flight has a notification under way.       *)
BankHandshake(b) ==
  /\ bank_busy[b] <=> bank_to_payload[b] # NULL
  /\ bank_thread[b] # NULL =>
       bank_thread[b] = bank_to_payload[b] /\ ~ bank_events[b]
  /\ bank_to_payload[b] # NULL /\ bank_thread[b] = NULL => bank_events[b]
  /\ bank_events[b] => bank_to_payload[b] # NULL
  /\ bank_freed[b] => ~ bank_busy[b] /\ pending_requests[b] # << >>
  /\ pending_requests[b] # << >> => bank_busy[b] \/ bank_freed[b]

HandshakeInv ==
  /\ TypeOK
  /\ NoBankConflict
  /\ \A b \in Banks : BankHandshake(b)
-----------------------------------------------------------------------------
(* The bit fields of an address never leave their ranges.                  *)
LEMMA AddressFields ==
  \A a \in Nat : BankOf(a) \in Banks /\ RowOffsetOf(a) \in RowOffsets
<1> TAKE a \in Nat
<1>1. \A k, n \in Nat : n # 0 => k % n \in 0 .. n - 1
  OBVIOUS
<1>2. \A k, n \in Nat : n # 0 => k \div n \in Nat
  OBVIOUS
<1>3. N_BANKS \in Nat /\ N_BANKS # 0 /\ N_ROWS_PER_BANK \in Nat /\ N_ROWS_PER_BANK # 0
  BY BankCountAssumption, RowCountAssumption
<1>4. a % N_BANKS \in Banks
  BY <1>1, <1>3 DEF Banks
<1>5. (a \div N_BANKS) % N_ROWS_PER_BANK \in RowOffsets
  BY <1>1, <1>2, <1>3 DEF RowOffsets
<1>6. QED
  BY <1>4, <1>5 DEF BankOf, RowOffsetOf

(* Addresses are natural numbers. *)
LEMMA FlatAddrsAreNaturals == FlatAddrs \subseteq Nat
  BY DEF FlatAddrs

(* A payload that was never sent has a valid address. *)
LEMMA ZeroIsAnAddress == 0 \in FlatAddrs
<1>1. \A m, n \in Nat : m # 0 /\ n # 0 => m * n \in Nat \ {0}
  OBVIOUS
<1>2. N_BANKS * N_ROWS_PER_BANK \in Nat \ {0}
  BY <1>1, BankCountAssumption, RowCountAssumption
<1>3. QED
  BY <1>2 DEF FlatAddrs

(* The handshake holds at first, when no bank has been asked for anything. *)
LEMMA InitHandshake == Init => HandshakeInv
<1> SUFFICES ASSUME Init PROVE HandshakeInv
  OBVIOUS
<1>1. TypeOK
  <2>1. payload \in [Payloads -> [address : FlatAddrs, data : Values]]
    BY ZeroIsAnAddress, ValuesAssumption DEF Init
  <2>2. bank_to_initiator_id \in [Banks -> Initiators]
    BY InitiatorAssumption DEF Init, Initiators
  <2>3. pending_requests \in [Banks -> Seq(PendingRequest)]
    BY EmptySeq DEF Init
  <2>4. spad \in [Banks -> [RowOffsets -> Values]]
    BY ValuesAssumption DEF Init
  <2>5. QED
    BY <2>1, <2>2, <2>3, <2>4 DEF Init, TypeOK
<1>2. QED
  BY <1>1 DEF Init, HandshakeInv, NoBankConflict, BankHandshake

(* The part of the handshake that a request forwarded to bank b decides.   *)
LEMMA ForwardToIdleBank ==
  ASSUME HandshakeInv, NEW b \in Banks, NEW i \in Initiators, NEW p \in Payloads,
         ~ bank_busy[b], Forward(b, i, p)
  PROVE  /\ bank_busy' = [bank_busy EXCEPT ![b] = TRUE]
         /\ bank_to_initiator_id' = [bank_to_initiator_id EXCEPT ![b] = i]
         /\ bank_to_payload' = [bank_to_payload EXCEPT ![b] = p]
         /\ bank_events' = [bank_events EXCEPT ![b] = TRUE]
         /\ bank_conflict' = bank_conflict
         /\ bank_thread[b] = NULL
         /\ p # NULL
<1>1. bank_to_payload[b] = NULL
  BY DEF HandshakeInv, BankHandshake
<1>2. bank_thread[b] = NULL
  BY <1>1 DEF HandshakeInv, BankHandshake
<1>3. p # NULL
  BY NullAssumption
<1>4. QED
  BY <1>1, <1>2, <1>3 DEF Forward, BankBeginReq

(* A request, queued or forwarded, keeps the handshake. *)
LEMMA RequestKeepsHandshake ==
  ASSUME HandshakeInv, NEW i \in Initiators, NEW p \in Payloads,
         NEW a \in FlatAddrs, NEW v \in Values, Request(i, p, a, v)
  PROVE  HandshakeInv'
<1> DEFINE b == BankOf(a)
           r == [initiator_id |-> i, payload |-> p]
<1>1. b \in Banks
  BY AddressFields, FlatAddrsAreNaturals
<1>2. r \in PendingRequest
  BY DEF PendingRequest
<1> HIDE DEF b, r
<1>3. /\ payload' \in [Payloads -> [address : FlatAddrs, data : Values]]
      /\ outstanding' \subseteq (Initiators \X Payloads)
      /\ UNCHANGED <<bank_freed, bank_thread, spad>>
  BY DEF Request, HandshakeInv, TypeOK
<1>4. CASE RequestQueued(b, i, p)
  <2>1. /\ pending_requests' = [pending_requests EXCEPT ![b] = Append(@, r)]
        /\ UNCHANGED <<bank_busy, bank_to_initiator_id, bank_to_payload,
                       bank_events, bank_conflict>>
        /\ bank_busy[b] \/ pending_requests[b] # << >>
    BY <1>4 DEF RequestQueued, MustQueue, r
  <2>2. /\ Append(pending_requests[b], r) \in Seq(PendingRequest)
        /\ Append(pending_requests[b], r) # << >>
    <3>1. pending_requests[b] \in Seq(PendingRequest)
      BY <1>1 DEF HandshakeInv, TypeOK
    <3>2. QED
      BY <1>2, <3>1, AppendProperties
  <2>3. TypeOK'
    <3>1. pending_requests' \in [Banks -> Seq(PendingRequest)]
      BY <2>1, <2>2 DEF HandshakeInv, TypeOK
    <3>2. QED
      BY <1>3, <2>1, <3>1 DEF HandshakeInv, TypeOK
  <2>4. ASSUME NEW c \in Banks PROVE BankHandshake(c)'
    BY <1>1, <1>3, <2>1, <2>2 DEF HandshakeInv, TypeOK, BankHandshake
  <2>5. QED
    BY <2>1, <2>3, <2>4 DEF HandshakeInv, NoBankConflict
<1>5. CASE RequestForwarded(b, i, p)
  <2>1. /\ ~ bank_busy[b]
        /\ Forward(b, i, p)
        /\ UNCHANGED pending_requests
    BY <1>5 DEF RequestForwarded, MustQueue
  <2>2. /\ bank_busy' = [bank_busy EXCEPT ![b] = TRUE]
        /\ bank_to_initiator_id' = [bank_to_initiator_id EXCEPT ![b] = i]
        /\ bank_to_payload' = [bank_to_payload EXCEPT ![b] = p]
        /\ bank_events' = [bank_events EXCEPT ![b] = TRUE]
        /\ bank_conflict' = bank_conflict
        /\ bank_thread[b] = NULL
        /\ p # NULL
        /\ ~ bank_freed[b]
    <3>1. pending_requests[b] = << >>
      BY <1>5 DEF RequestForwarded, MustQueue
    <3>2. ~ bank_freed[b]
      BY <1>1, <3>1 DEF HandshakeInv, BankHandshake
    <3>3. QED
      BY <1>1, <2>1, <3>2, ForwardToIdleBank
  <2>3. TypeOK'
    <3>1. /\ bank_busy' \in [Banks -> BOOLEAN]
          /\ bank_to_initiator_id' \in [Banks -> Initiators]
          /\ bank_to_payload' \in [Banks -> Payloads \cup {NULL}]
          /\ bank_events' \in [Banks -> BOOLEAN]
      BY <2>2 DEF HandshakeInv, TypeOK
    <3>2. QED
      BY <1>3, <2>1, <2>2, <3>1 DEF HandshakeInv, TypeOK
  <2>4. ASSUME NEW c \in Banks PROVE BankHandshake(c)'
    BY <1>1, <1>3, <2>1, <2>2 DEF HandshakeInv, TypeOK, BankHandshake
  <2>5. QED
    BY <2>2, <2>3, <2>4 DEF HandshakeInv, NoBankConflict
<1>6. QED
  BY <1>4, <1>5 DEF Request, b

(* So does the thread of a bank taking its payload, *)
LEMMA BankAccessKeepsHandshake ==
  ASSUME HandshakeInv, NEW b \in Banks, BankAccess(b)
  PROVE  HandshakeInv'
<1> DEFINE p == bank_to_payload[b]
           r == RowOffsetOf(payload[p].address)
<1>1. p \in Payloads /\ bank_thread[b] = NULL
  BY DEF BankAccess, HandshakeInv, BankHandshake, TypeOK
<1>2. r \in RowOffsets
  BY <1>1, AddressFields, FlatAddrsAreNaturals DEF HandshakeInv, TypeOK
<1>3. /\ bank_events' = [bank_events EXCEPT ![b] = FALSE]
      /\ bank_thread' = [bank_thread EXCEPT ![b] = p]
      /\ UNCHANGED <<outstanding, arbiterVars, bank_to_payload, bank_conflict>>
      /\ \/ /\ payload' = [payload EXCEPT ![p].data = spad[b][r]]
            /\ UNCHANGED spad
         \/ /\ spad' = [spad EXCEPT ![b][r] = payload[p].data]
            /\ UNCHANGED payload
  BY <1>1 DEF BankAccess
<1> HIDE DEF p, r
<1>4. /\ payload[p] \in [address : FlatAddrs, data : Values]
      /\ spad[b] \in [RowOffsets -> Values]
      /\ spad[b][r] \in Values
  BY <1>1, <1>2 DEF HandshakeInv, TypeOK, p
<1>5. payload' \in [Payloads -> [address : FlatAddrs, data : Values]]
  <2>1. [payload[p] EXCEPT !.data = spad[b][r]]
          \in [address : FlatAddrs, data : Values]
    BY <1>4
  <2>2. payload \in [Payloads -> [address : FlatAddrs, data : Values]]
    BY DEF HandshakeInv, TypeOK
  <2>3. QED
    BY <1>3, <2>1, <2>2
<1>6. spad' \in [Banks -> [RowOffsets -> Values]]
  <2>1. [spad[b] EXCEPT ![r] = payload[p].data] \in [RowOffsets -> Values]
    BY <1>4
  <2>2. spad \in [Banks -> [RowOffsets -> Values]]
    BY DEF HandshakeInv, TypeOK
  <2>3. QED
    BY <1>3, <2>1, <2>2
<1>7. TypeOK'
  BY <1>1, <1>3, <1>5, <1>6 DEF HandshakeInv, TypeOK, arbiterVars
<1>8. ASSUME NEW c \in Banks PROVE BankHandshake(c)'
  <2>1. p = bank_to_payload[b] /\ p # NULL
    BY <1>1, NullAssumption DEF p
  <2>2. QED
    BY <1>1, <1>3, <2>1 DEF HandshakeInv, TypeOK, BankHandshake, arbiterVars
<1>9. QED
  BY <1>3, <1>7, <1>8 DEF HandshakeInv, NoBankConflict

(* its answer through the arbiter, *)
LEMMA BankDoneKeepsHandshake ==
  ASSUME HandshakeInv, NEW b \in Banks, BankDone(b)
  PROVE  HandshakeInv'
<1>1. /\ bank_thread[b] # NULL
      /\ bank_to_payload' = [bank_to_payload EXCEPT ![b] = NULL]
      /\ bank_thread' = [bank_thread EXCEPT ![b] = NULL]
      /\ outstanding' \subseteq outstanding
      /\ bank_busy' = [bank_busy EXCEPT ![b] = FALSE]
      /\ bank_freed' =
           [bank_freed EXCEPT ![b] = bank_freed[b] \/ pending_requests[b] # << >>]
      /\ UNCHANGED <<payload, bank_to_initiator_id, pending_requests,
                     bank_events, bank_conflict, spad>>
  BY DEF BankDone, BankResponse
<1>2. bank_busy[b] /\ ~ bank_freed[b] /\ ~ bank_events[b]
  BY <1>1, NullAssumption DEF HandshakeInv, BankHandshake
<1>3. TypeOK'
  BY <1>1 DEF HandshakeInv, TypeOK
<1>4. ASSUME NEW c \in Banks PROVE BankHandshake(c)'
  BY <1>1, <1>2 DEF HandshakeInv, TypeOK, BankHandshake
<1>5. QED
  BY <1>1, <1>3, <1>4 DEF HandshakeInv, NoBankConflict

(* and the forwarding of a queued request. *)
LEMMA ForwardPendingKeepsHandshake ==
  ASSUME HandshakeInv, NEW b \in Banks, ForwardPending(b)
  PROVE  HandshakeInv'
<1> DEFINE pending == Head(pending_requests[b])
           i == pending.initiator_id
           p == pending.payload
<1>1. /\ pending_requests[b] \in Seq(PendingRequest)
      /\ pending_requests[b] # << >>
      /\ ~ bank_busy[b]
  BY DEF ForwardPending, HandshakeInv, BankHandshake, TypeOK
<1>2. /\ pending \in PendingRequest
      /\ Tail(pending_requests[b]) \in Seq(PendingRequest)
  BY <1>1, HeadTailProperties
<1>3. i \in Initiators /\ p \in Payloads
  BY <1>2 DEF PendingRequest
<1>4. /\ bank_freed' = [bank_freed EXCEPT ![b] = FALSE]
      /\ pending_requests' = [pending_requests EXCEPT ![b] = Tail(@)]
      /\ Forward(b, i, p)
      /\ UNCHANGED <<payload, outstanding, bank_thread, spad>>
  BY DEF ForwardPending
<1> HIDE DEF i, p
<1>5. /\ bank_busy' = [bank_busy EXCEPT ![b] = TRUE]
      /\ bank_to_initiator_id' = [bank_to_initiator_id EXCEPT ![b] = i]
      /\ bank_to_payload' = [bank_to_payload EXCEPT ![b] = p]
      /\ bank_events' = [bank_events EXCEPT ![b] = TRUE]
      /\ bank_conflict' = bank_conflict
      /\ bank_thread[b] = NULL
      /\ p # NULL
  BY <1>1, <1>3, <1>4, ForwardToIdleBank
<1>6. TypeOK'
  BY <1>2, <1>3, <1>4, <1>5 DEF HandshakeInv, TypeOK
<1>7. ASSUME NEW c \in Banks PROVE BankHandshake(c)'
  BY <1>4, <1>5 DEF HandshakeInv, TypeOK, BankHandshake
<1>8. QED
  BY <1>5, <1>6, <1>7 DEF HandshakeInv, NoBankConflict

(* Every step keeps the handshake. *)
LEMMA HandshakeInductive == HandshakeInv /\ [Next]_vars => HandshakeInv'
<1> SUFFICES ASSUME HandshakeInv, [Next]_vars PROVE HandshakeInv'
  OBVIOUS
<1>1. CASE \E i \in Initiators, p \in Payloads, a \in FlatAddrs, v \in Values :
             Request(i, p, a, v)
  BY <1>1, RequestKeepsHandshake
<1>2. ASSUME NEW b \in Banks, BankStep(b) PROVE HandshakeInv'
  BY <1>2, BankAccessKeepsHandshake, BankDoneKeepsHandshake,
     ForwardPendingKeepsHandshake DEF BankStep
<1>3. CASE UNCHANGED vars
  BY <1>3 DEF HandshakeInv, TypeOK, NoBankConflict, BankHandshake, vars,
              arbiterVars, bankVars
<1>4. QED
  BY <1>1, <1>2, <1>3 DEF Next

(* In every state the arbiter's bookkeeping and the banks' agree.          *)
THEOREM HandshakeAlways == SafeSpec => []HandshakeInv
  BY InitHandshake, HandshakeInductive, PTL DEF SafeSpec

(* The variables keep the values of their C++ types, whatever the number   *)
(* of banks and initiators (memory_arbiter.h, spad_module.h).              *)
THEOREM TypeCorrect == SafeSpec => []TypeOK
<1>1. HandshakeInv => TypeOK
  BY DEF HandshakeInv
<1>2. QED
  BY <1>1, HandshakeAlways, PTL

(* SpadModule never reports a bank conflict, however many initiators       *)
(* compete and whenever their requests arrive (memory_arbiter.cpp,         *)
(* nb_transport_fw and forward_pending).                                   *)
THEOREM NeverBankConflict == SafeSpec => []NoBankConflict
<1>1. HandshakeInv => NoBankConflict
  BY DEF HandshakeInv
<1>2. QED
  BY <1>1, HandshakeAlways, PTL
-----------------------------------------------------------------------------
(* The queue of a bank as BankedMemory sees it: the request in flight and  *)
(* then the waiting ones.  Facts about such queues.                        *)
LEMMA PushFront ==
  ASSUME NEW S, NEW x \in S, NEW t \in Seq(S)
  PROVE  /\ <<x>> \o t \in Seq(S)
         /\ <<x>> \o t # << >>
         /\ Head(<<x>> \o t) = x
         /\ Tail(<<x>> \o t) = t
<1> DEFINE u == <<x>> \o t
<1>1. <<x>> \in Seq(S) /\ Len(<<x>>) = 1 /\ <<x>>[1] = x
  OBVIOUS
<1>2. /\ u \in Seq(S)
      /\ Len(u) = 1 + Len(t)
      /\ \A i \in 1 .. Len(u) : u[i] = IF i <= 1 THEN <<x>>[i] ELSE t[i - 1]
  BY <1>1, ConcatProperties
<1>3. u # << >> /\ u[1] = x
  BY <1>1, <1>2
<1>4. Head(u) = x
  BY <1>2, <1>3
<1>5. /\ Tail(u) \in Seq(S)
      /\ Len(Tail(u)) = Len(u) - 1
      /\ \A i \in 1 .. Len(Tail(u)) : Tail(u)[i] = u[i + 1]
  BY <1>2, <1>3, HeadTailProperties
<1>6. \A i \in 1 .. Len(t) : Tail(u)[i] = t[i]
  BY <1>2, <1>5
<1>7. Tail(u) = t
  BY <1>2, <1>5, <1>6, SeqEqual
<1>8. QED
  BY <1>2, <1>3, <1>4, <1>7

(* A sequence is its head followed by its tail. *)
LEMMA HeadThenTail ==
  ASSUME NEW S, NEW t \in Seq(S), t # << >>
  PROVE  <<Head(t)>> \o Tail(t) = t
<1> DEFINE u == <<Head(t)>> \o Tail(t)
<1>1. /\ Head(t) \in S
      /\ Tail(t) \in Seq(S)
      /\ Len(Tail(t)) = Len(t) - 1
      /\ \A i \in 1 .. Len(Tail(t)) : Tail(t)[i] = t[i + 1]
  BY HeadTailProperties
<1>2. <<Head(t)>> \in Seq(S) /\ Len(<<Head(t)>>) = 1 /\ <<Head(t)>>[1] = t[1]
  BY <1>1
<1>3. /\ u \in Seq(S)
      /\ Len(u) = 1 + Len(Tail(t))
      /\ \A i \in 1 .. Len(u) :
           u[i] = IF i <= 1 THEN <<Head(t)>>[i] ELSE Tail(t)[i - 1]
  BY <1>1, <1>2, ConcatProperties
<1>4. \A i \in 1 .. Len(t) : u[i] = t[i]
  BY <1>1, <1>2, <1>3
<1>5. QED
  BY <1>1, <1>3, <1>4, SeqEqual

(* Appending to the second of two sequences appends to both. *)
LEMMA AppendToConcat ==
  ASSUME NEW S, NEW s \in Seq(S), NEW t \in Seq(S), NEW x \in S
  PROVE  Append(s \o t, x) = s \o Append(t, x)
<1>1. s \o t \in Seq(S) /\ <<x>> \in Seq(S)
  BY ConcatProperties
<1>2. Append(s \o t, x) = (s \o t) \o <<x>>
  BY <1>1, AppendIsConcat
<1>3. Append(t, x) = t \o <<x>>
  BY AppendIsConcat
<1>4. QED
  BY <1>1, <1>2, <1>3, ConcatAssociative

(* The request in a busy bank *)
InFlight(b) == [initiator_id |-> bank_to_initiator_id[b],
                payload |-> bank_to_payload[b]]

(* RequestsOf for an idle bank and for a busy one *)
LEMMA QueueOfBank ==
  ASSUME HandshakeInv, NEW b \in Banks
  PROVE  /\ pending_requests[b] \in Seq(PendingRequest)
         /\ ~ bank_busy[b] => RequestsOf(b) = pending_requests[b]
         /\ bank_busy[b] =>
              /\ InFlight(b) \in PendingRequest
              /\ RequestsOf(b) = <<InFlight(b)>> \o pending_requests[b]
              /\ RequestsOf(b) # << >>
              /\ Head(RequestsOf(b)) = InFlight(b)
              /\ Tail(RequestsOf(b)) = pending_requests[b]
         /\ RequestsOf(b) \in Seq(PendingRequest)
<1>1. pending_requests[b] \in Seq(PendingRequest)
  BY DEF HandshakeInv, TypeOK
<1>2. CASE ~ bank_busy[b]
  BY <1>1, <1>2, ConcatEmptySeq DEF RequestsOf
<1>3. CASE bank_busy[b]
  <2>1. /\ bank_to_initiator_id[b] \in Initiators
        /\ bank_to_payload[b] \in Payloads
    BY <1>3 DEF HandshakeInv, TypeOK, BankHandshake
  <2>2. InFlight(b) \in PendingRequest
    BY <2>1 DEF InFlight, PendingRequest
  <2>3. RequestsOf(b) = <<InFlight(b)>> \o pending_requests[b]
    BY <1>3 DEF RequestsOf, InFlight
  <2>4. QED
    BY <1>1, <1>3, <2>2, <2>3, PushFront
<1>4. QED
  BY <1>2, <1>3
-----------------------------------------------------------------------------
(* Every step of the arbiter and the banks is a step of BankedMemory or    *)
(* leaves what BankedMemory sees unchanged.                                *)
LEMMA InitRefines == Init => ServesInOrder!Init
<1> SUFFICES ASSUME Init PROVE ServesInOrder!Init
  OBVIOUS
<1>1. \A b \in Banks : RequestsOf(b) = << >>
  BY DEF Init, RequestsOf
<1>2. QED
  BY <1>1 DEF Init, ServesInOrder!Init, ServesInOrder!Banks, Banks,
              ServesInOrder!RowOffsets, RowOffsets

(* A request joins the abstract queue of its bank. *)
LEMMA RequestRefines ==
  ASSUME HandshakeInv, HandshakeInv', NEW i \in Initiators, NEW p \in Payloads,
         NEW a \in FlatAddrs, NEW v \in Values, Request(i, p, a, v)
  PROVE  ServesInOrder!Request(i, p, a, v)
<1> DEFINE b == BankOf(a)
           r == [initiator_id |-> i, payload |-> p]
<1>1. b \in Banks
  BY AddressFields, FlatAddrsAreNaturals
<1>2. r \in PendingRequest
  BY DEF PendingRequest
<1> HIDE DEF b
<1>3. /\ RequestsOf(b)' = Append(RequestsOf(b), r)
      /\ \A c \in Banks \ {b} : RequestsOf(c)' = RequestsOf(c)
  <2>1. CASE RequestQueued(b, i, p)
    <3>1. /\ pending_requests' =
               [pending_requests EXCEPT ![b] = Append(@, r)]
          /\ UNCHANGED <<bank_busy, bank_to_initiator_id, bank_to_payload>>
      BY <2>1 DEF RequestQueued
    <3>2. \A c \in Banks \ {b} : RequestsOf(c)' = RequestsOf(c)
      BY <1>1, <3>1 DEF RequestsOf, HandshakeInv, TypeOK
    <3>3. pending_requests'[b] = Append(pending_requests[b], r)
      BY <1>1, <3>1 DEF HandshakeInv, TypeOK
    <3>4. CASE bank_busy[b]
      <4>1. /\ RequestsOf(b) = <<InFlight(b)>> \o pending_requests[b]
            /\ InFlight(b) \in PendingRequest
            /\ pending_requests[b] \in Seq(PendingRequest)
        BY <1>1, <3>4, QueueOfBank
      <4>2. RequestsOf(b)' = <<InFlight(b)>> \o Append(pending_requests[b], r)
        BY <3>1, <3>3, <3>4 DEF RequestsOf, InFlight
      <4>3. <<InFlight(b)>> \in Seq(PendingRequest)
        BY <4>1
      <4>4. QED
        BY <1>2, <3>2, <4>1, <4>2, <4>3, AppendToConcat
    <3>5. CASE ~ bank_busy[b]
      <4>1. /\ RequestsOf(b) = pending_requests[b]
            /\ pending_requests[b] \in Seq(PendingRequest)
        BY <1>1, <3>5, QueueOfBank
      <4>2. Append(pending_requests[b], r) \in Seq(PendingRequest)
        BY <1>2, <4>1, AppendProperties
      <4>3. RequestsOf(b)' = << >> \o Append(pending_requests[b], r)
        BY <3>1, <3>3, <3>5 DEF RequestsOf
      <4>4. QED
        BY <3>2, <4>1, <4>2, <4>3, ConcatEmptySeq
    <3>6. QED
      BY <3>4, <3>5
  <2>2. CASE RequestForwarded(b, i, p)
    <3>1. /\ ~ bank_busy[b]
          /\ pending_requests[b] = << >>
          /\ Forward(b, i, p)
          /\ UNCHANGED pending_requests
      BY <2>2 DEF RequestForwarded, MustQueue
    <3>2. /\ bank_busy' = [bank_busy EXCEPT ![b] = TRUE]
          /\ bank_to_initiator_id' = [bank_to_initiator_id EXCEPT ![b] = i]
          /\ bank_to_payload' = [bank_to_payload EXCEPT ![b] = p]
      BY <1>1, <3>1, ForwardToIdleBank
    <3>3. \A c \in Banks \ {b} : RequestsOf(c)' = RequestsOf(c)
      BY <1>1, <3>1, <3>2 DEF RequestsOf, HandshakeInv, TypeOK
    <3>4. RequestsOf(b) = << >>
      BY <1>1, <3>1, QueueOfBank
    <3>5. RequestsOf(b)' = <<r>> \o << >>
      BY <1>1, <3>1, <3>2 DEF RequestsOf, HandshakeInv, TypeOK
    <3>6. <<r>> \o << >> = <<r>>
      BY <1>2, ConcatEmptySeq
    <3>7. Append(<< >>, r) = <<r>>
      OBVIOUS
    <3>8. QED
      BY <3>3, <3>4, <3>5, <3>6, <3>7
  <2>3. QED
    BY <2>1, <2>2 DEF Request, b
<1>4. [c \in Banks |-> RequestsOf(c)'] =
        [[c \in Banks |-> RequestsOf(c)] EXCEPT ![b] = Append(@, r)]
  BY <1>1, <1>3
<1>5. UNCHANGED <<bank_thread, spad>>
  BY DEF Request
<1>6. QED
  BY <1>4, <1>5 DEF Request, ServesInOrder!Request, ServesInOrder!BankOf,
                    BankOf, ServesInOrder!Banks, Banks, b

(* A bank's access is the abstract access of its queue's head. *)
LEMMA BankAccessRefines ==
  ASSUME HandshakeInv, NEW b \in Banks, BankAccess(b)
  PROVE  ServesInOrder!Access(b)
<1>1. /\ bank_to_payload[b] \in Payloads
      /\ bank_thread[b] = NULL
      /\ bank_busy[b]
  BY DEF BankAccess, HandshakeInv, BankHandshake, TypeOK
<1>2. /\ RequestsOf(b) # << >>
      /\ Head(RequestsOf(b)).payload = bank_to_payload[b]
  <2>1. RequestsOf(b) # << >> /\ Head(RequestsOf(b)) = InFlight(b)
    BY <1>1, QueueOfBank
  <2>2. InFlight(b).payload = bank_to_payload[b]
    BY DEF InFlight
  <2>3. QED
    BY <2>1, <2>2
<1>3. /\ bank_thread' = [bank_thread EXCEPT ![b] = bank_to_payload[b]]
      /\ UNCHANGED <<outstanding, arbiterVars, bank_to_payload>>
  BY <1>1 DEF BankAccess
<1>4. \A c \in Banks : RequestsOf(c)' = RequestsOf(c)
  BY <1>3 DEF RequestsOf, arbiterVars
<1>5. [c \in Banks |-> RequestsOf(c)'] = [c \in Banks |-> RequestsOf(c)]
  BY <1>4
<1>6. [c \in Banks |-> bank_thread'[c] # NULL] =
        [[c \in Banks |-> bank_thread[c] # NULL] EXCEPT ![b] = TRUE]
  BY <1>1, <1>3, NullAssumption DEF HandshakeInv, TypeOK
<1>7. LET p == bank_to_payload[b]
          r == RowOffsetOf(payload[p].address)
      IN  \/ /\ Command[p] = "read"
             /\ payload' = [payload EXCEPT ![p].data = spad[b][r]]
             /\ UNCHANGED spad
          \/ /\ Command[p] = "write"
             /\ spad' = [spad EXCEPT ![b][r] = payload[p].data]
             /\ UNCHANGED payload
  BY <1>1 DEF BankAccess
<1>8. QED
  BY <1>1, <1>2, <1>3, <1>5, <1>6, <1>7
  DEF ServesInOrder!Access, ServesInOrder!Banks, Banks,
      ServesInOrder!RowOffsetOf, RowOffsetOf

(* An answer removes the head of the abstract queue. *)
LEMMA BankDoneRefines ==
  ASSUME HandshakeInv, NEW b \in Banks, BankDone(b)
  PROVE  ServesInOrder!Respond(b)
<1>1. /\ bank_thread[b] # NULL
      /\ bank_to_payload' = [bank_to_payload EXCEPT ![b] = NULL]
      /\ bank_thread' = [bank_thread EXCEPT ![b] = NULL]
      /\ outstanding' =
           outstanding \ {<<bank_to_initiator_id[b], bank_thread[b]>>}
      /\ bank_busy' = [bank_busy EXCEPT ![b] = FALSE]
      /\ UNCHANGED <<payload, bank_to_initiator_id, pending_requests, spad>>
  BY DEF BankDone, BankResponse
<1>2. /\ bank_busy[b]
      /\ bank_thread[b] = bank_to_payload[b]
  BY <1>1 DEF HandshakeInv, BankHandshake
<1>3. /\ RequestsOf(b) # << >>
      /\ Head(RequestsOf(b)) = InFlight(b)
      /\ Tail(RequestsOf(b)) = pending_requests[b]
      /\ pending_requests[b] \in Seq(PendingRequest)
  BY <1>2, QueueOfBank
<1>4. RequestsOf(b)' = Tail(RequestsOf(b))
  <2>1. RequestsOf(b)' = << >> \o pending_requests[b]
    BY <1>1 DEF RequestsOf, HandshakeInv, TypeOK
  <2>2. QED
    BY <1>3, <2>1, ConcatEmptySeq
<1>5. \A c \in Banks \ {b} : RequestsOf(c)' = RequestsOf(c)
  BY <1>1 DEF RequestsOf, HandshakeInv, TypeOK
<1>6. [c \in Banks |-> RequestsOf(c)'] =
        [[c \in Banks |-> RequestsOf(c)] EXCEPT ![b] = Tail(@)]
  BY <1>4, <1>5
<1>7. [c \in Banks |-> bank_thread'[c] # NULL] =
        [[c \in Banks |-> bank_thread[c] # NULL] EXCEPT ![b] = FALSE]
  BY <1>1 DEF HandshakeInv, TypeOK
<1>8. /\ Head(RequestsOf(b)).initiator_id = bank_to_initiator_id[b]
      /\ Head(RequestsOf(b)).payload = bank_thread[b]
  BY <1>2, <1>3 DEF InFlight
<1>9. QED
  BY <1>1, <1>3, <1>6, <1>7, <1>8
  DEF ServesInOrder!Respond, ServesInOrder!Banks, Banks

(* Forwarding a queued request changes nothing abstract. *)
LEMMA ForwardPendingStutters ==
  ASSUME HandshakeInv, NEW b \in Banks, ForwardPending(b)
  PROVE  UNCHANGED ServesInOrder!vars
<1> DEFINE pending == Head(pending_requests[b])
           i == pending.initiator_id
           p == pending.payload
<1>1. /\ pending_requests[b] \in Seq(PendingRequest)
      /\ pending_requests[b] # << >>
      /\ ~ bank_busy[b]
  BY DEF ForwardPending, HandshakeInv, BankHandshake, TypeOK
<1>2. pending \in PendingRequest
  BY <1>1, HeadTailProperties
<1>3. /\ i \in Initiators
      /\ p \in Payloads
      /\ pending = [initiator_id |-> i, payload |-> p]
  BY <1>2 DEF PendingRequest
<1>4. /\ pending_requests' = [pending_requests EXCEPT ![b] = Tail(@)]
      /\ Forward(b, i, p)
      /\ UNCHANGED <<payload, outstanding, bank_thread, spad>>
  BY DEF ForwardPending
<1>5. <<pending>> \o Tail(pending_requests[b]) = pending_requests[b]
  BY <1>1, HeadThenTail
<1> HIDE DEF i, p, pending
<1>6. /\ bank_busy' = [bank_busy EXCEPT ![b] = TRUE]
      /\ bank_to_initiator_id' = [bank_to_initiator_id EXCEPT ![b] = i]
      /\ bank_to_payload' = [bank_to_payload EXCEPT ![b] = p]
  BY <1>1, <1>3, <1>4, ForwardToIdleBank
<1>7. RequestsOf(b)' = RequestsOf(b)
  <2>1. RequestsOf(b)' = <<pending>> \o Tail(pending_requests[b])
    BY <1>3, <1>4, <1>6 DEF RequestsOf, HandshakeInv, TypeOK
  <2>2. RequestsOf(b) = pending_requests[b]
    BY <1>1, QueueOfBank
  <2>3. QED
    BY <1>5, <2>1, <2>2
<1>8. \A c \in Banks \ {b} : RequestsOf(c)' = RequestsOf(c)
  BY <1>4, <1>6 DEF RequestsOf, HandshakeInv, TypeOK
<1>9. [c \in Banks |-> RequestsOf(c)'] = [c \in Banks |-> RequestsOf(c)]
  BY <1>7, <1>8
<1>10. QED
  BY <1>4, <1>9 DEF ServesInOrder!vars, Banks

(* Every step of the arbiter is an abstract step or a stutter. *)
LEMMA StepRefines ==
  HandshakeInv /\ HandshakeInv' /\ [Next]_vars
    => [ServesInOrder!Next]_(ServesInOrder!vars)
<1> SUFFICES ASSUME HandshakeInv, HandshakeInv', [Next]_vars
             PROVE  [ServesInOrder!Next]_(ServesInOrder!vars)
  OBVIOUS
<1>1. ASSUME NEW i \in Initiators, NEW p \in Payloads,
             NEW a \in FlatAddrs, NEW v \in Values, Request(i, p, a, v)
      PROVE  ServesInOrder!Next
  BY <1>1, RequestRefines
  DEF ServesInOrder!Next, ServesInOrder!FlatAddrs, FlatAddrs
<1>2. ASSUME NEW b \in Banks, BankAccess(b) PROVE ServesInOrder!Next
  BY <1>2, BankAccessRefines DEF ServesInOrder!Next, ServesInOrder!Banks, Banks
<1>3. ASSUME NEW b \in Banks, BankDone(b) PROVE ServesInOrder!Next
  BY <1>3, BankDoneRefines DEF ServesInOrder!Next, ServesInOrder!Banks, Banks
<1>4. ASSUME NEW b \in Banks, ForwardPending(b)
      PROVE  UNCHANGED ServesInOrder!vars
  BY <1>4, ForwardPendingStutters
<1>5. CASE UNCHANGED vars
  BY <1>5 DEF vars, arbiterVars, bankVars, ServesInOrder!vars, RequestsOf
<1>6. QED
  BY <1>1, <1>2, <1>3, <1>4, <1>5 DEF Next, BankStep

(* The arbiter with its banks implements the safety part of BankedMemory:  *)
(* per bank, requests are served one at a time in the order they arrived,  *)
(* each takes effect exactly once, and its answer goes to the initiator    *)
(* that sent it.                                                           *)
THEOREM ArbiterServesInOrder == SafeSpec => ServesInOrder!SafeSpec
  BY InitRefines, StepRefines, HandshakeAlways, PTL
  DEF SafeSpec, ServesInOrder!SafeSpec
-----------------------------------------------------------------------------
(* PayloadsHeldOnce, from what the steps do to the banks' queues as        *)
(* BankedMemory sees them.  A waiting payload is outstanding at its owner, *)
(* so its owner cannot send it again.                                      *)
Held(queue, out, pay) ==
  /\ \A b \in Banks : \A k \in 1 .. Len(queue[b]) :
       /\ queue[b][k].payload \in Payloads
       /\ <<queue[b][k].initiator_id, queue[b][k].payload>> \in out
       /\ BankOf(pay[queue[b][k].payload].address) = b
  /\ \A b, c \in Banks : \A k \in 1 .. Len(queue[b]), l \in 1 .. Len(queue[c]) :
       queue[c][l].payload = queue[b][k].payload => c = b /\ l = k
  /\ \A o \in out : \E b \in Banks : \E k \in 1 .. Len(queue[b]) :
       queue[b][k] = [initiator_id |-> o[1], payload |-> o[2]]

SentByOwner(out) == \A o \in out : Owner[o[2]] = o[1]

HeldInv ==
  /\ Held([b \in Banks |-> RequestsOf(b)], outstanding, payload)
  /\ SentByOwner(outstanding)

(* A request that joins the queue of its bank *)
LEMMA AppendKeepsHeld ==
  ASSUME NEW queue \in [Banks -> Seq(PendingRequest)], NEW out, NEW pay,
         NEW pay2, NEW i \in Initiators, NEW p \in Payloads, NEW b \in Banks,
         Held(queue, out, pay), SentByOwner(out),
         Owner[p] = i, <<i, p>> \notin out,
         BankOf(pay2[p].address) = b, \A x \in Payloads : x # p => pay2[x] = pay[x]
  PROVE  Held([queue EXCEPT ![b] = Append(@, [initiator_id |-> i, payload |-> p])],
              out \cup {<<i, p>>}, pay2)
<1> DEFINE r == [initiator_id |-> i, payload |-> p]
           new == [queue EXCEPT ![b] = Append(@, r)]
<1>1. r \in PendingRequest /\ r.initiator_id = i /\ r.payload = p
  BY DEF PendingRequest
<1> HIDE DEF r
<1>2. /\ queue[b] \in Seq(PendingRequest)
      /\ Len(queue[b]) \in Nat
      /\ Len(new[b]) = Len(queue[b]) + 1
      /\ new[b][Len(queue[b]) + 1] = r
      /\ \A k \in 1 .. Len(queue[b]) : new[b][k] = queue[b][k]
      /\ \A c \in Banks : c # b => new[c] = queue[c]
  BY <1>1, AppendProperties
<1> HIDE DEF new
<1>3. \A c \in Banks : \A k \in 1 .. Len(queue[c]) : queue[c][k].payload # p
  <2> SUFFICES ASSUME NEW c \in Banks, NEW k \in 1 .. Len(queue[c]),
                      queue[c][k].payload = p
               PROVE  FALSE
    OBVIOUS
  <2>1. <<queue[c][k].initiator_id, p>> \in out
    BY DEF Held
  <2>2. queue[c][k].initiator_id = i
    BY <2>1 DEF SentByOwner
  <2>3. QED
    BY <2>1, <2>2
<1>4. \A c \in Banks : \A k \in 1 .. Len(new[c]) :
        \/ k \in 1 .. Len(queue[c]) /\ new[c][k] = queue[c][k]
        \/ c = b /\ k = Len(queue[b]) + 1 /\ new[c][k] = r
  BY <1>2
<1>5. ASSUME NEW c \in Banks, NEW k \in 1 .. Len(new[c])
      PROVE  /\ new[c][k].payload \in Payloads
             /\ <<new[c][k].initiator_id, new[c][k].payload>> \in out \cup {<<i, p>>}
             /\ BankOf(pay2[new[c][k].payload].address) = c
  <2>1. CASE k \in 1 .. Len(queue[c]) /\ new[c][k] = queue[c][k]
    <3>1. /\ queue[c][k].payload \in Payloads
          /\ <<queue[c][k].initiator_id, queue[c][k].payload>> \in out
          /\ BankOf(pay[queue[c][k].payload].address) = c
      BY <2>1 DEF Held
    <3>2. pay2[queue[c][k].payload] = pay[queue[c][k].payload]
      BY <1>3, <2>1, <3>1
    <3>3. QED
      BY <2>1, <3>1, <3>2
  <2>2. CASE c = b /\ new[c][k] = r
    BY <1>1, <2>2
  <2>3. QED
    BY <1>4, <2>1, <2>2
<1>6. ASSUME NEW c \in Banks, NEW d \in Banks,
             NEW k \in 1 .. Len(new[c]), NEW l \in 1 .. Len(new[d]),
             new[d][l].payload = new[c][k].payload
      PROVE  d = c /\ l = k
  <2>1. CASE k \in 1 .. Len(queue[c]) /\ new[c][k] = queue[c][k]
    <3>1. new[d][l].payload # p
      BY <1>3, <1>6, <2>1
    <3>2. l \in 1 .. Len(queue[d]) /\ new[d][l] = queue[d][l]
      BY <1>1, <1>4, <3>1
    <3>3. QED
      BY <1>6, <2>1, <3>2 DEF Held
  <2>2. CASE c = b /\ k = Len(queue[b]) + 1 /\ new[c][k] = r
    <3>1. new[d][l].payload = p
      BY <1>1, <1>6, <2>2
    <3>2. d = b /\ l = Len(queue[b]) + 1
      BY <1>3, <1>4, <3>1
    <3>3. QED
      BY <2>2, <3>2
  <2>3. QED
    BY <1>4, <2>1, <2>2
<1>7. ASSUME NEW o \in out \cup {<<i, p>>}
      PROVE  \E c \in Banks : \E k \in 1 .. Len(new[c]) :
               new[c][k] = [initiator_id |-> o[1], payload |-> o[2]]
  <2>1. CASE o \in out
    <3>1. PICK c \in Banks : \E k \in 1 .. Len(queue[c]) :
            queue[c][k] = [initiator_id |-> o[1], payload |-> o[2]]
      BY <2>1 DEF Held
    <3>2. PICK k \in 1 .. Len(queue[c]) :
            queue[c][k] = [initiator_id |-> o[1], payload |-> o[2]]
      BY <3>1
    <3>3. k \in 1 .. Len(new[c]) /\ new[c][k] = queue[c][k]
      BY <1>2
    <3>4. QED
      BY <3>2, <3>3
  <2>2. CASE o = <<i, p>>
    <3>1. Len(queue[b]) + 1 \in 1 .. Len(new[b])
      BY <1>2
    <3>2. r = [initiator_id |-> o[1], payload |-> o[2]]
      BY <2>2 DEF r
    <3>3. QED
      BY <1>2, <3>1, <3>2
  <2>3. QED
    BY <2>1, <2>2
<1>8. Held(new, out \cup {<<i, p>>}, pay2)
  BY <1>5, <1>6, <1>7 DEF Held
<1>9. QED
  BY <1>8 DEF new, r

(* A request that is answered and leaves the queue of its bank             *)
LEMMA TailKeepsHeld ==
  ASSUME NEW queue \in [Banks -> Seq(PendingRequest)], NEW out, NEW pay,
         NEW b \in Banks, queue[b] # << >>, Held(queue, out, pay),
         out \subseteq Initiators \X Payloads
  PROVE  Held([queue EXCEPT ![b] = Tail(@)],
              out \ {<<Head(queue[b]).initiator_id, Head(queue[b]).payload>>}, pay)
<1> DEFINE new == [queue EXCEPT ![b] = Tail(@)]
           h == <<Head(queue[b]).initiator_id, Head(queue[b]).payload>>
<1>1. /\ queue[b] \in Seq(PendingRequest)
      /\ Len(queue[b]) \in Nat
      /\ Head(queue[b]) = queue[b][1]
      /\ 1 \in 1 .. Len(queue[b])
      /\ Len(new[b]) = Len(queue[b]) - 1
      /\ \A k \in 1 .. Len(new[b]) : new[b][k] = queue[b][k + 1]
      /\ \A c \in Banks : c # b => new[c] = queue[c]
  BY HeadTailProperties
<1> HIDE DEF new
<1> DEFINE at(c, k) == IF c = b THEN k + 1 ELSE k
<1>2. \A c \in Banks : \A k \in 1 .. Len(new[c]) :
        /\ at(c, k) \in 1 .. Len(queue[c])
        /\ new[c][k] = queue[c][at(c, k)]
        /\ c = b => at(c, k) # 1
  BY <1>1
<1>2a. \A c, d \in Banks : \A k \in 1 .. Len(queue[c]), l \in 1 .. Len(queue[d]) :
        queue[d][l].payload = queue[c][k].payload => d = c /\ l = k
  BY DEF Held
<1>3. ASSUME NEW c \in Banks, NEW k \in 1 .. Len(new[c])
      PROVE  /\ new[c][k].payload \in Payloads
             /\ <<new[c][k].initiator_id, new[c][k].payload>> \in out \ {h}
             /\ BankOf(pay[new[c][k].payload].address) = c
  <2>1. /\ new[c][k].payload \in Payloads
        /\ <<new[c][k].initiator_id, new[c][k].payload>> \in out
        /\ BankOf(pay[new[c][k].payload].address) = c
    <3>1. PICK j \in 1 .. Len(queue[c]) : new[c][k] = queue[c][j]
      BY <1>2
    <3>2. /\ queue[c][j].payload \in Payloads
          /\ <<queue[c][j].initiator_id, queue[c][j].payload>> \in out
          /\ BankOf(pay[queue[c][j].payload].address) = c
      BY Zenon DEF Held
    <3>3. QED
      BY <3>1, <3>2
  <2>2. new[c][k].payload # queue[b][1].payload
    <3>1. queue[c][at(c, k)].payload # queue[b][1].payload
      BY <1>1, <1>2, <1>2a
    <3>2. QED
      BY <1>2, <3>1
  <2>3. QED
    BY <1>1, <2>1, <2>2
<1>4. ASSUME NEW c \in Banks, NEW d \in Banks,
             NEW k \in 1 .. Len(new[c]), NEW l \in 1 .. Len(new[d]),
             new[d][l].payload = new[c][k].payload
      PROVE  d = c /\ l = k
  <2>1. d = c /\ at(d, l) = at(c, k)
    <3>1. queue[d][at(d, l)].payload = queue[c][at(c, k)].payload
      BY <1>2, <1>4
    <3>2. /\ at(c, k) \in 1 .. Len(queue[c])
          /\ at(d, l) \in 1 .. Len(queue[d])
      BY <1>2
    <3> HIDE DEF at
    <3>3. QED
      BY <1>2a, <3>1, <3>2
  <2>2. QED
    BY <2>1
<1>5. ASSUME NEW o \in out \ {h}
      PROVE  \E c \in Banks : \E k \in 1 .. Len(new[c]) :
               new[c][k] = [initiator_id |-> o[1], payload |-> o[2]]
  <2>1. PICK c \in Banks : \E k \in 1 .. Len(queue[c]) :
          queue[c][k] = [initiator_id |-> o[1], payload |-> o[2]]
    BY DEF Held
  <2>2. PICK k \in 1 .. Len(queue[c]) :
          queue[c][k] = [initiator_id |-> o[1], payload |-> o[2]]
    BY <2>1
  <2>3. CASE c # b
    BY <1>1, <2>2, <2>3
  <2>4. CASE c = b
    <3>1. k # 1
      <4>1. o = <<o[1], o[2]>>
        OBVIOUS
      <4>2. ASSUME k = 1 PROVE o = h
        BY <1>1, <2>2, <2>4, <4>1, <4>2
      <4>3. QED
        BY <4>2
    <3>2. k - 1 \in 1 .. Len(new[b]) /\ new[b][k - 1] = queue[b][k]
      BY <1>1, <2>4, <3>1
    <3>3. QED
      BY <2>2, <2>4, <3>2
  <2>5. QED
    BY <2>3, <2>4
<1>6. Held(new, out \ {h}, pay)
  BY <1>3, <1>4, <1>5 DEF Held
<1>7. QED
  BY <1>6 DEF new

(* Every step of the arbiter and the banks keeps it. *)
LEMMA HeldInductive ==
  HandshakeInv /\ HandshakeInv' /\ HeldInv /\ [Next]_vars => HeldInv'
<1> SUFFICES ASSUME HandshakeInv, HandshakeInv', HeldInv, [Next]_vars
             PROVE  HeldInv'
  OBVIOUS
<1> DEFINE queue == [b \in Banks |-> RequestsOf(b)]
<1>1. /\ queue \in [Banks -> Seq(PendingRequest)]
      /\ payload \in [Payloads -> [address : FlatAddrs, data : Values]]
      /\ outstanding \subseteq Initiators \X Payloads
  BY QueueOfBank DEF HandshakeInv, TypeOK
<1>2. Held(queue, outstanding, payload) /\ SentByOwner(outstanding)
  BY DEF HeldInv
<1>3. ASSUME NEW i \in Initiators, NEW p \in Payloads,
             NEW a \in FlatAddrs, NEW v \in Values, Request(i, p, a, v)
      PROVE  HeldInv'
  <2>1. /\ Owner[p] = i
        /\ <<i, p>> \notin outstanding
        /\ payload' = [payload EXCEPT ![p] = [address |-> a, data |-> v]]
        /\ outstanding' = outstanding \cup {<<i, p>>}
    BY <1>3 DEF Request
  <2>2. queue' = [queue EXCEPT ![BankOf(a)] =
                    Append(@, [initiator_id |-> i, payload |-> p])]
    BY <1>3, RequestRefines DEF ServesInOrder!Request, ServesInOrder!BankOf, BankOf,
                                ServesInOrder!Banks, Banks
  <2>3. BankOf(a) \in Banks
    BY AddressFields, FlatAddrsAreNaturals
  <2>4. /\ payload'[p].address = a
        /\ \A x \in Payloads : x # p => payload'[x] = payload[x]
    BY <1>1, <2>1
  <2> HIDE DEF queue
  <2>5. Held(queue', outstanding', payload')
    BY <1>1, <1>2, <2>1, <2>2, <2>3, <2>4, AppendKeepsHeld
  <2>6. SentByOwner(outstanding')
    BY <1>2, <2>1 DEF SentByOwner
  <2>7. QED
    BY <2>5, <2>6 DEF HeldInv, queue
<1>4. ASSUME NEW b \in Banks, BankAccess(b) PROVE HeldInv'
  <2>1. queue' = queue /\ outstanding' = outstanding
    BY <1>4, BankAccessRefines DEF ServesInOrder!Access, ServesInOrder!Banks, Banks
  <2>2. \A p \in Payloads : payload'[p].address = payload[p].address
    BY <1>1, <1>4 DEF BankAccess
  <2> HIDE DEF queue
  <2>3. Held(queue', outstanding', payload')
    BY <1>2, <2>1, <2>2 DEF Held
  <2>4. QED
    BY <1>2, <2>1, <2>3 DEF HeldInv, queue, SentByOwner
<1>5. ASSUME NEW b \in Banks, BankDone(b) PROVE HeldInv'
  <2>1. /\ queue[b] # << >>
        /\ outstanding' = outstanding \
             {<<Head(queue[b]).initiator_id, Head(queue[b]).payload>>}
        /\ queue' = [queue EXCEPT ![b] = Tail(@)]
        /\ payload' = payload
    BY <1>5, BankDoneRefines DEF ServesInOrder!Respond, ServesInOrder!Banks, Banks
  <2> HIDE DEF queue
  <2>2. Held(queue', outstanding', payload')
    BY <1>1, <1>2, <2>1, TailKeepsHeld
  <2>3. SentByOwner(outstanding')
    BY <1>2, <2>1 DEF SentByOwner
  <2>4. QED
    BY <2>2, <2>3 DEF HeldInv, queue
<1>6. ASSUME NEW b \in Banks, ForwardPending(b) PROVE HeldInv'
  <2>1. UNCHANGED <<payload, outstanding, queue>>
    BY <1>6, ForwardPendingStutters DEF ServesInOrder!vars, Banks
  <2>2. QED
    BY <1>2, <2>1 DEF HeldInv, Held, SentByOwner
<1>7. CASE UNCHANGED vars
  <2>1. queue' = queue /\ outstanding' = outstanding /\ payload' = payload
    BY <1>7 DEF vars, arbiterVars, bankVars, RequestsOf
  <2>2. QED
    BY <1>2, <2>1 DEF HeldInv, Held, SentByOwner
<1>8. QED
  BY <1>3, <1>4, <1>5, <1>6, <1>7 DEF Next, BankStep

LEMMA InitHeld == Init => HeldInv
<1> SUFFICES ASSUME Init PROVE HeldInv
  OBVIOUS
<1>1. \A b \in Banks : RequestsOf(b) = << >>
  BY DEF Init, RequestsOf
<1>2. QED
  BY <1>1 DEF Init, HeldInv, Held, SentByOwner

(* The payload a bank takes when its event fires has an address there.     *)
LEMMA AccessedPayload ==
  ASSUME HandshakeInv, HeldInv, NEW b \in Banks, bank_events[b]
  PROVE  /\ bank_to_payload[b] \in Payloads /\ bank_thread[b] = NULL
         /\ BankOf(payload[bank_to_payload[b]].address) = b
<1> DEFINE queue == [c \in Banks |-> RequestsOf(c)]
<1>1. /\ bank_to_payload[b] \in Payloads /\ bank_thread[b] = NULL /\ bank_busy[b]
  BY DEF HandshakeInv, BankHandshake, TypeOK
<1>2. /\ RequestsOf(b) \in Seq(PendingRequest) /\ RequestsOf(b) # << >>
      /\ Head(RequestsOf(b)) = InFlight(b)
  BY <1>1, QueueOfBank
<1>3. 1 \in 1 .. Len(queue[b]) /\ queue[b][1] = InFlight(b)
  BY <1>2, HeadTailProperties, EmptySeq
<1>4. queue[b][1].payload = bank_to_payload[b]
  BY <1>3 DEF InFlight
<1>5. Held(queue, outstanding, payload)
  BY DEF HeldInv
<1> HIDE DEF queue
<1>6. BankOf(payload[queue[b][1].payload].address) = b
  BY <1>3, <1>5 DEF Held
<1>7. QED
  BY <1>1, <1>4, <1>6

(* The payload in a bank is under way from its owner, and in no other bank. *)
LEMMA ServedPayload ==
  ASSUME HandshakeInv, HeldInv, NEW b \in Banks, bank_to_payload[b] # NULL
  PROVE  /\ bank_to_payload[b] \in Payloads
         /\ bank_to_initiator_id[b] = Owner[bank_to_payload[b]]
         /\ <<bank_to_initiator_id[b], bank_to_payload[b]>> \in outstanding
         /\ \A c \in Banks : bank_to_payload[c] = bank_to_payload[b] => c = b
<1> DEFINE queue == [c \in Banks |-> RequestsOf(c)]
<1>1. ASSUME NEW c \in Banks, bank_to_payload[c] # NULL
      PROVE  1 \in 1 .. Len(queue[c]) /\ queue[c][1] = InFlight(c)
  <2>1. bank_to_payload[c] \in Payloads /\ bank_busy[c]
    BY <1>1 DEF HandshakeInv, BankHandshake, TypeOK
  <2>2. /\ RequestsOf(c) \in Seq(PendingRequest) /\ RequestsOf(c) # << >>
        /\ Head(RequestsOf(c)) = InFlight(c)
    BY <2>1, QueueOfBank
  <2>3. QED
    BY <2>2, HeadTailProperties, EmptySeq
<1>2. Held(queue, outstanding, payload) /\ SentByOwner(outstanding)
  BY DEF HeldInv
<1> HIDE DEF queue
<1>3. ASSUME NEW c \in Banks, bank_to_payload[c] # NULL
      PROVE  /\ 1 \in 1 .. Len(queue[c])
             /\ queue[c][1].payload = bank_to_payload[c]
             /\ queue[c][1].initiator_id = bank_to_initiator_id[c]
  <2>1. 1 \in 1 .. Len(queue[c]) /\ queue[c][1] = InFlight(c)
    BY <1>1, <1>3
  <2>2. /\ InFlight(c).payload = bank_to_payload[c]
        /\ InFlight(c).initiator_id = bank_to_initiator_id[c]
    BY DEF InFlight
  <2>3. QED
    BY <2>1, <2>2
<1>4. /\ bank_to_payload[b] \in Payloads
      /\ <<bank_to_initiator_id[b], bank_to_payload[b]>> \in outstanding
  BY <1>2, <1>3 DEF Held
<1>5. bank_to_initiator_id[b] = Owner[bank_to_payload[b]]
  BY <1>2, <1>4 DEF SentByOwner
<1>6. ASSUME NEW c \in Banks, bank_to_payload[c] = bank_to_payload[b] PROVE c = b
  <2>1. 1 \in 1 .. Len(queue[b]) /\ 1 \in 1 .. Len(queue[c])
        /\ queue[c][1].payload = queue[b][1].payload
    BY <1>3, <1>6
  <2>2. QED
    BY <1>2, <2>1 DEF Held
<1>7. QED
  BY <1>4, <1>5, <1>6

LEMMA HeldSuffices == HeldInv => PayloadsHeldOnce
<1> SUFFICES ASSUME HeldInv PROVE PayloadsHeldOnce
  OBVIOUS
<1> DEFINE queue == [b \in Banks |-> RequestsOf(b)]
<1>1. Held(queue, outstanding, payload)
  BY DEF HeldInv
<1>2. \A b \in Banks : queue[b] = RequestsOf(b)
  OBVIOUS
<1> HIDE DEF queue
<1>3. ASSUME NEW b \in Banks, NEW k \in 1 .. Len(RequestsOf(b))
      PROVE  /\ RequestsOf(b)[k].payload \in Payloads
             /\ <<RequestsOf(b)[k].initiator_id, RequestsOf(b)[k].payload>> \in outstanding
             /\ BankOf(payload[RequestsOf(b)[k].payload].address) = b
  BY <1>1, <1>2 DEF Held
<1>4. ASSUME NEW b \in Banks, NEW k \in 1 .. Len(RequestsOf(b)),
             NEW c \in Banks, NEW l \in 1 .. Len(RequestsOf(c)),
             RequestsOf(c)[l].payload = RequestsOf(b)[k].payload
      PROVE  c = b /\ l = k
  BY <1>1, <1>2, <1>4 DEF Held
<1>5. ASSUME NEW o \in outstanding
      PROVE  \E b \in Banks : \E k \in 1 .. Len(RequestsOf(b)) :
               RequestsOf(b)[k] = [initiator_id |-> o[1], payload |-> o[2]]
  BY <1>1, <1>2 DEF Held
<1>6. QED
  BY <1>3, <1>4, <1>5 DEF PayloadsHeldOnce

(* The arbiter queues pointers to the initiators' payloads: each one that  *)
(* waits or is served is outstanding at the initiator that is answered for *)
(* it, sits in one place of one bank's queue, the bank its address         *)
(* selects, and every outstanding one does (memory_arbiter.h,              *)
(* PendingRequest).                                                        *)
THEOREM PayloadsAlwaysHeldOnce == SafeSpec => []PayloadsHeldOnce
  BY InitHeld, HeldInductive, HeldSuffices, HandshakeAlways, PTL DEF SafeSpec
=============================================================================
