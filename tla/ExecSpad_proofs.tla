--------------------------- MODULE ExecSpad_proofs ---------------------------
(***************************************************************************)
(* Theorems about ExecSpad, for every number of gemms, rows, banks and     *)
(* credits and every place of the tiles.                                   *)
(***************************************************************************)
EXTENDS ExecSpad, SequenceTheorems, TLAPS

AllRows == TileRows({"A", "B", "C"})

Proved == INSTANCE MemoryArbiter_proofs WITH
  N_INITIATORS <- 5,
  Owner   <- [p \in Payloads |-> p[1]],
  Command <- [p \in Payloads |-> IF p[1] \in {load, c} THEN "write" ELSE "read"],
  Values  <- TileRows({"A", "B", "C"}) \cup {ZeroRow}

ArbiterInv == Proved!HandshakeInv /\ Proved!HeldInv

LEMMA PayloadIs ==
  ASSUME NEW p \in Payloads
  PROVE  /\ p = <<p[1], p[2]>> /\ p[1] \in {load, store, a, b, c}
         /\ p[1] # load => p[2] = 0 /\ p = <<p[1], 0>>
         /\ p[1] = load => p[2] \in LoadCredits
  BY DEF Payloads, load, store, a, b, c

LEMMA ArbiterAssumptions ==
  /\ Proved!BankCountAssumption /\ Proved!RowCountAssumption
  /\ Proved!InitiatorAssumption /\ Proved!OwnerAssumption /\ Proved!CommandAssumption
  /\ Proved!ValuesAssumption /\ Proved!NullAssumption
<1>1. Proved!BankCountAssumption /\ Proved!RowCountAssumption
  BY BankCountAssumption, RowCountAssumption
     DEF Proved!BankCountAssumption, Proved!RowCountAssumption
<1>2. Proved!InitiatorAssumption
  BY DEF Proved!InitiatorAssumption
<1>3. Proved!OwnerAssumption
  <2>1. \A p \in Payloads : p[1] \in 0 .. 4
    BY PayloadIs DEF load, store, a, b, c
  <2>2. QED
    BY <2>1 DEF Proved!OwnerAssumption, Proved!Initiators
<1>4. Proved!CommandAssumption /\ Proved!ValuesAssumption
  BY DEF Proved!CommandAssumption, Proved!ValuesAssumption
<1>5. Proved!NullAssumption
  BY NullAssumption DEF Proved!NullAssumption
<1>6. QED
  BY <1>1, <1>2, <1>3, <1>4, <1>5

LEMMA ArbiterSame ==
  /\ \A i, p, x, v : Arbiter!Request(i, p, x, v) <=> Proved!Request(i, p, x, v)
  /\ \A k : /\ Arbiter!BankAccess(k) <=> Proved!BankAccess(k)
            /\ Arbiter!BankDone(k) <=> Proved!BankDone(k)
            /\ Arbiter!ForwardPending(k) <=> Proved!ForwardPending(k)
  /\ UNCHANGED arbiterVars <=> UNCHANGED Proved!vars
  /\ Arbiter!Init <=> Proved!Init
<1>1. \A i, p, x, v : Arbiter!Request(i, p, x, v) <=> Proved!Request(i, p, x, v)
  BY DEF Arbiter!Request, Proved!Request, Arbiter!RequestQueued, Proved!RequestQueued,
         Arbiter!RequestForwarded, Proved!RequestForwarded, Arbiter!MustQueue,
         Proved!MustQueue, Arbiter!Forward, Proved!Forward, Arbiter!BankBeginReq,
         Proved!BankBeginReq, Arbiter!BankOf, Proved!BankOf
<1>2. \A k : Arbiter!BankAccess(k) <=> Proved!BankAccess(k)
  BY DEF Arbiter!BankAccess, Proved!BankAccess, Arbiter!arbiterVars, Proved!arbiterVars,
         Arbiter!RowOffsetOf, Proved!RowOffsetOf
<1>3. \A k : Arbiter!BankDone(k) <=> Proved!BankDone(k)
  BY DEF Arbiter!BankDone, Proved!BankDone, Arbiter!BankResponse, Proved!BankResponse
<1>4. \A k : Arbiter!ForwardPending(k) <=> Proved!ForwardPending(k)
  BY DEF Arbiter!ForwardPending, Proved!ForwardPending, Arbiter!Forward, Proved!Forward,
         Arbiter!BankBeginReq, Proved!BankBeginReq
<1>5. UNCHANGED arbiterVars <=> UNCHANGED Proved!vars
  BY DEF arbiterVars, Proved!vars, Proved!arbiterVars, Proved!bankVars
<1>6. Arbiter!Init <=> Proved!Init
  BY DEF Arbiter!Init, Proved!Init, Arbiter!Banks, Proved!Banks,
         Arbiter!RowOffsets, Proved!RowOffsets
<1>7. QED
  BY <1>1, <1>2, <1>3, <1>4, <1>5, <1>6

LEMMA ArbiterTypes ==
  ASSUME Proved!HandshakeInv
  PROVE  /\ payload \in [Payloads -> [address : FlatAddrs, data : AllRows \cup {ZeroRow}]]
         /\ spad \in [Banks -> [RowOffsets -> AllRows \cup {ZeroRow}]]
  BY DEF Proved!HandshakeInv, Proved!TypeOK, Proved!FlatAddrs, Proved!Banks,
         Proved!RowOffsets, FlatAddrs, Banks, RowOffsets, AllRows

LEMMA FieldsOfFlat ==
  ASSUME NEW x \in FlatAddrs
  PROVE  /\ BankOf(x) \in Banks /\ RowOffsetOf(x) \in RowOffsets
         /\ x \in Nat
         /\ ToFlat(RowOffsetOf(x), BankOf(x)) = x
<1> DEFINE q == x \div N_BANKS
           r == x % N_BANKS
<1>1. /\ x \in Nat /\ N_BANKS \in Nat \ {0} /\ N_ROWS_PER_BANK \in Nat \ {0}
      /\ N_BANKS * N_ROWS_PER_BANK \in Nat /\ x < N_BANKS * N_ROWS_PER_BANK
  BY BankCountAssumption, RowCountAssumption, Z3 DEF FlatAddrs
<1>2. q \in Nat /\ r \in 0 .. N_BANKS - 1 /\ x = q * N_BANKS + r
  BY <1>1, Z3
<1> HIDE DEF q, r
<1>3. q < N_ROWS_PER_BANK
  <2> SUFFICES ASSUME N_ROWS_PER_BANK <= q PROVE FALSE
    BY <1>1, <1>2
  <2>1. PICK k \in Nat : q = N_ROWS_PER_BANK + k
    <3>1. q - N_ROWS_PER_BANK \in Nat /\ q = N_ROWS_PER_BANK + (q - N_ROWS_PER_BANK)
      BY <1>1, <1>2
    <3>2. QED
      BY <3>1
  <2>2. q * N_BANKS = N_BANKS * N_ROWS_PER_BANK + k * N_BANKS /\ k * N_BANKS \in Nat
    BY <1>1, <2>1, Z3
  <2>3. QED
    BY <1>1, <1>2, <2>2
<1>4. q % N_ROWS_PER_BANK = q
  BY <1>1, <1>2, <1>3
<1>5. BankOf(x) = r /\ RowOffsetOf(x) = q
  BY <1>4 DEF BankOf, RowOffsetOf, q, r
<1>6. QED
  BY <1>1, <1>2, <1>3, <1>5 DEF Banks, RowOffsets, ToFlat

(* Different rows, different places *)
LEMMA RowPlace ==
  ASSUME NEW x \in AllRows
  PROVE  /\ AddrOf(x) \in FlatAddrs
         /\ BankOf(AddrOf(x)) \in Banks /\ RowOffsetOf(AddrOf(x)) \in RowOffsets
         /\ \A y \in AllRows : /\ BankOf(AddrOf(x)) = BankOf(AddrOf(y))
                               /\ RowOffsetOf(AddrOf(x)) = RowOffsetOf(AddrOf(y))
                               => x = y
<1>1. \A y \in AllRows : AddrOf(y) \in FlatAddrs /\ (AddrOf(x) = AddrOf(y) => x = y)
  BY PlacesAssumption DEF AllRows
<1>2. QED
  BY <1>1, FieldsOfFlat

(* The place of a row holds it. *)
InPlace(x) == spad[BankOf(AddrOf(x))][RowOffsetOf(AddrOf(x))] = x

(* The row a payload's request is for *)
RowFor(p) ==
  CASE p[1] = load  -> load_tag[p[2]]
    [] p[1] = store -> <<"C", mvout.id, mvout.row>>
    [] p[1] = a     -> <<"A", gemm.id, gemm.row>>
    [] p[1] = b     -> <<"B", gemm.id, gemm.row>>
    [] p[1] = c     -> <<"C", drain.id, drain.row>>

Sent(p) == <<p[1], p>> \in outstanding
Accessed(p) == \E k \in Banks : bank_thread[k] = p

(* A request under way is for its row.  Those that write hold the row;     *)
(* those that read find it in its place, and once the bank has accessed    *)
(* its memory, both.                                                       *)
RequestOK(p) ==
  /\ RowFor(p) \in AllRows
  /\ payload[p].address = AddrOf(RowFor(p))
  /\ p[1] \in {load, c} => payload[p].data = RowFor(p)
  /\ p[1] \in {a, b, store} => InPlace(RowFor(p))
  /\ Accessed(p) => InPlace(RowFor(p)) /\ payload[p].data = RowFor(p)

RequestInv == \A p \in Payloads : Sent(p) => RequestOK(p)

LoadState ==
  /\ unloaded \subseteq TileRows({"A", "B"})
  /\ load_tag \in [LoadCredits -> TileRows({"A", "B"}) \cup {NULL}]
  /\ \A x \in TileRows({"A", "B"}) :
       x \in unloaded \/ (\E credit \in LoadCredits : load_tag[credit] = x) \/ InPlace(x)

Places(thread) == thread.id \in Nat \ {0} /\ thread.row \in Rows

(* How many rows a thread has done *)
Done(thread) == (thread.id - 1) * DIM + thread.row

GemmState ==
  /\ gemm = [id |-> gemm.id, row |-> gemm.row, step |-> gemm.step] /\ Places(gemm)
  /\ gemm.step \in {"a_request", "b_request", "wait", "b_write"}
  /\ gemm.step # "a_request" => gemm.id \in Ids
  /\ gemm.step = "b_request" => InPlace(<<"B", gemm.id, gemm.row>>)
  /\ waits_for # {} => gemm.step = "wait"
  /\ a_done => ~ Sent(<<a, 0>>) /\ "a_done" \in waits_for
  /\ b_done => ~ Sent(<<b, 0>>) /\ "b_done" \in waits_for
  /\ Sent(<<a, 0>>) => gemm.step = "b_request" \/ "a_done" \in waits_for
  /\ Sent(<<b, 0>>) => "b_done" \in waits_for
  /\ gemm.step # "a_request" /\ ~ Sent(<<a, 0>>) =>
       payload[<<a, 0>>].data = <<"A", gemm.id, gemm.row>>
  /\ gemm.step \in {"wait", "b_write"} /\ ~ Sent(<<b, 0>>) =>
       payload[<<b, 0>>].data = <<"B", gemm.id, gemm.row>>

(* The first n rows of a matrix, in program order                          *)
Through(rows, matrix, n) ==
  /\ rows \in Seq(AllRows \cup {ZeroRow})
  /\ Len(rows) = n
  /\ \A k \in DOMAIN rows : rows[k] = Nth(matrix, k)

Fetched ==
  /\ Through(a_out, "A", Done(gemm) + (IF gemm.step = "b_write" THEN 1 ELSE 0))
  /\ Through(b_out, "B", Done(gemm))

DrainState ==
  /\ drain = [id |-> drain.id, row |-> drain.row, step |-> drain.step] /\ Places(drain)
  /\ drain.step \in {"c_in", "c_done"}
  /\ drain.step = "c_done" => drain.id \in Ids
  /\ c_done \/ Sent(<<c, 0>>) => drain.step = "c_done"
  /\ c_done => ~ Sent(<<c, 0>>)
  /\ drain.step = "c_done" /\ ~ Sent(<<c, 0>>) => InPlace(<<"C", drain.id, drain.row>>)
  /\ \A id \in Ids, r \in Rows :
       id < drain.id \/ (id = drain.id /\ r < drain.row) => InPlace(<<"C", id, r>>)

StoreState ==
  /\ mvout = [id |-> mvout.id, row |-> mvout.row] /\ Places(mvout)
  /\ Through(stored, "C", Done(mvout))

ThreadsInv ==
  RequestInv /\ LoadState /\ GemmState /\ Fetched /\ DrainState /\ StoreState

ExecInv == ArbiterInv /\ ThreadsInv
-----------------------------------------------------------------------------
(* What the steps do to the requests, for the threads                      *)
busVars == <<payload, outstanding, bank_thread, spad>>

AnyData == AllRows \cup {ZeroRow}

(* A bank that has accessed its memory                                     *)
LEMMA ServedBy ==
  ASSUME ArbiterInv, NEW k \in Banks, bank_thread[k] # NULL
  PROVE  /\ bank_thread[k] \in Payloads /\ Sent(bank_thread[k])
         /\ bank_to_initiator_id[k] = bank_thread[k][1]
         /\ \A l \in Banks : bank_thread[l] = bank_thread[k] => l = k
<1> DEFINE owner == [p \in Payloads |-> p[1]]
<1>1. k \in Proved!Banks /\ \A l \in Banks : l \in Proved!Banks
  BY DEF Banks, Proved!Banks
<1>2. \A l \in Banks : bank_thread[l] # NULL => bank_thread[l] = bank_to_payload[l]
  BY <1>1 DEF ArbiterInv, Proved!HandshakeInv, Proved!BankHandshake
<1>3. bank_thread[k] = bank_to_payload[k] /\ bank_to_payload[k] # NULL
  BY <1>2
<1>4. /\ bank_to_payload[k] \in Payloads
      /\ bank_to_initiator_id[k] = owner[bank_to_payload[k]]
      /\ <<bank_to_initiator_id[k], bank_to_payload[k]>> \in outstanding
      /\ \A l \in Proved!Banks : bank_to_payload[l] = bank_to_payload[k] => l = k
  BY <1>1, <1>3, ArbiterAssumptions, Proved!ServedPayload DEF ArbiterInv
<1>5. QED
  BY <1>1, <1>2, <1>3, <1>4 DEF Sent

(* A new request                                                           *)
Requested(p, row, data) ==
  /\ p \in Payloads /\ ~ Sent(p)
  /\ payload' = [payload EXCEPT ![p] = [address |-> AddrOf(row), data |-> data]]
  /\ outstanding' = outstanding \cup {<<p[1], p>>}
  /\ UNCHANGED <<bank_thread, spad>>

LEMMA RequestEffect ==
  ASSUME NEW p \in Payloads, NEW row, NEW data, Request(p, row, data)
  PROVE  Requested(p, row, data)
  BY DEF Request, Arbiter!Request, Requested, Sent

(* A bank's access to its memory, to the place of payload p's request      *)
Accesses(k, p) ==
  /\ p \in Payloads /\ Sent(p) /\ ~ Accessed(p)
  /\ bank_thread[k] = NULL /\ bank_thread' = [bank_thread EXCEPT ![k] = p]
  /\ BankOf(payload[p].address) = k
  /\ UNCHANGED outstanding
  /\ p[1] \in {load, c} =>
       /\ spad' = [spad EXCEPT ![k][RowOffsetOf(payload[p].address)] = payload[p].data]
       /\ UNCHANGED payload
  /\ p[1] \in {a, b, store} =>
       /\ payload' = [payload EXCEPT ![p].data = spad[k][RowOffsetOf(payload[p].address)]]
       /\ UNCHANGED spad

LEMMA AccessEffect ==
  ASSUME ArbiterInv, NEW k \in Banks, Arbiter!BankAccess(k)
  PROVE  Accesses(k, bank_to_payload[k])
<1> DEFINE owner == [q \in Payloads |-> q[1]]
           command == [q \in Payloads |-> IF q[1] \in {load, c} THEN "write" ELSE "read"]
<1>1. Proved!BankAccess(k) /\ k \in Proved!Banks /\ bank_events[k]
  BY ArbiterSame DEF Banks, Proved!Banks, Proved!BankAccess
<1>2. PICK p : p = bank_to_payload[k]
  OBVIOUS
<1>3. /\ p \in Payloads /\ bank_thread[k] = NULL
      /\ BankOf(payload[p].address) = k
  <2>1. /\ bank_to_payload[k] \in Payloads /\ bank_thread[k] = NULL
        /\ Proved!BankOf(payload[bank_to_payload[k]].address) = k
    BY <1>1, ArbiterAssumptions, Proved!AccessedPayload DEF ArbiterInv
  <2>2. QED
    BY <1>2, <2>1 DEF Proved!BankOf, BankOf
<1>4. p # NULL
  BY <1>3, NullAssumption
<1>5. /\ bank_to_initiator_id[k] = owner[p]
      /\ <<bank_to_initiator_id[k], p>> \in outstanding
      /\ \A l \in Proved!Banks : bank_to_payload[l] = p => l = k
  BY <1>1, <1>2, <1>4, ArbiterAssumptions, Proved!ServedPayload DEF ArbiterInv
<1>6. Sent(p)
  BY <1>3, <1>5 DEF Sent
<1>7. ~ Accessed(p)
  <2>1. ASSUME NEW l \in Banks, bank_thread[l] = p PROVE FALSE
    <3>1. l \in Proved!Banks
      BY DEF Banks, Proved!Banks
    <3>2. bank_thread[l] # NULL => bank_thread[l] = bank_to_payload[l]
      BY <3>1 DEF ArbiterInv, Proved!HandshakeInv, Proved!BankHandshake
    <3>3. bank_to_payload[l] = p
      BY <1>4, <2>1, <3>2
    <3>4. QED
      BY <1>3, <1>4, <1>5, <2>1, <3>1, <3>3
  <2>2. QED
    BY <2>1 DEF Accessed
<1>8. /\ bank_thread' = [bank_thread EXCEPT ![k] = p]
      /\ UNCHANGED outstanding
      /\ \/ command[p] = "read" /\ UNCHANGED spad
            /\ payload' = [payload EXCEPT ![p].data = spad[k][Proved!RowOffsetOf(payload[p].address)]]
         \/ command[p] = "write" /\ UNCHANGED payload
            /\ spad' = [spad EXCEPT ![k][Proved!RowOffsetOf(payload[p].address)] = payload[p].data]
  BY <1>1, <1>2, <1>3 DEF Proved!BankAccess
<1>9. Proved!RowOffsetOf(payload[p].address) = RowOffsetOf(payload[p].address)
  BY DEF Proved!RowOffsetOf, RowOffsetOf
<1>10. /\ p[1] \in {load, c} => command[p] = "write"
       /\ p[1] \in {a, b, store} => command[p] = "read"
  BY <1>3 DEF load, a, b, c, store
<1> HIDE DEF owner, command
<1>11. Accesses(k, p)
  BY <1>3, <1>6, <1>7, <1>8, <1>9, <1>10 DEF Accesses
<1>12. QED
  BY <1>2, <1>11

(* An answer                                                               *)
Answered(k, p) ==
  /\ p \in Payloads /\ Sent(p) /\ Accessed(p)
  /\ bank_thread[k] = p
  /\ outstanding' = outstanding \ {<<p[1], p>>}
  /\ bank_thread' = [bank_thread EXCEPT ![k] = NULL]
  /\ UNCHANGED <<payload, spad>>

LEMMA AnswerEffect ==
  ASSUME ArbiterInv, NEW k \in Banks, BankDone(k)
  PROVE  Answered(k, bank_thread[k]) /\ Answer(bank_thread[k])
<1>1. Proved!BankDone(k) /\ Answer(<<bank_to_initiator_id[k], bank_thread[k][2]>>)
  BY ArbiterSame DEF BankDone
<1>2. PICK p : p = bank_thread[k]
  OBVIOUS
<1>3. bank_thread[k] # NULL
  BY <1>1 DEF Proved!BankDone
<1>4. p \in Payloads /\ Sent(p) /\ bank_to_initiator_id[k] = p[1]
  BY <1>2, <1>3, ServedBy
<1>5. p = <<p[1], p[2]>>
  BY <1>4, PayloadIs
<1>6. Answer(p)
  BY <1>1, <1>2, <1>4, <1>5
<1>7. Answered(k, p)
  BY <1>1, <1>2, <1>4 DEF Proved!BankDone, Proved!BankResponse, Answered, Accessed
<1>8. QED
  BY <1>2, <1>6, <1>7

LEMMA ForwardEffect ==
  ASSUME NEW k \in Banks, Arbiter!ForwardPending(k)
  PROVE  UNCHANGED busVars
  BY DEF Arbiter!ForwardPending, busVars
-----------------------------------------------------------------------------
(* What they leave of the requests under way                               *)

(* A request sent for row x                                                *)
FitsRow(p, x) ==
  /\ x \in AllRows
  /\ payload[p].address = AddrOf(x)
  /\ p[1] \in {load, c} => payload[p].data = x
  /\ p[1] \in {a, b, store} => InPlace(x)
  /\ Accessed(p) => InPlace(x) /\ payload[p].data = x

LEMMA RequestFits ==
  RequestInv <=> \A p \in Payloads : Sent(p) => FitsRow(p, RowFor(p))
  BY DEF RequestInv, RequestOK, FitsRow

LEMMA RequestFitsNext ==
  (\A p \in Payloads : Sent(p)' => \E x : x = RowFor(p)' /\ FitsRow(p, x)') => RequestInv'
  BY DEF RequestInv, RequestOK, FitsRow

LEMMA RequestKeeps ==
  ASSUME ArbiterInv, RequestInv, NEW p \in Payloads, NEW row \in AllRows, NEW data,
         Requested(p, row, data), RowFor(p)' = row,
         \A q \in Payloads \ {p} : Sent(q) => RowFor(q)' = RowFor(q),
         p[1] \in {load, c} => data = row,
         p[1] \in {a, b, store} => InPlace(row)
  PROVE  /\ RequestInv'
         /\ \A q \in Payloads : Sent(q)' <=> Sent(q) \/ q = p
         /\ \A x \in AllRows : InPlace(x)' <=> InPlace(x)
         /\ \A q \in Payloads \ {p} : payload'[q] = payload[q]
<1>1. /\ payload \in [Payloads -> [address : FlatAddrs, data : AnyData]]
      /\ payload' = [payload EXCEPT ![p] = [address |-> AddrOf(row), data |-> data]]
      /\ outstanding' = outstanding \cup {<<p[1], p>>}
      /\ bank_thread' = bank_thread /\ spad' = spad /\ ~ Sent(p)
  BY ArbiterTypes DEF ArbiterInv, Requested, AnyData
<1>2. /\ \A q \in Payloads \ {p} : payload'[q] = payload[q]
      /\ payload'[p].address = AddrOf(row) /\ payload'[p].data = data
  BY <1>1
<1>3. \A q \in Payloads : Sent(q)' <=> Sent(q) \/ q = p
  <2> TAKE q \in Payloads
  <2>1. <<q[1], q>> \in outstanding' <=> <<q[1], q>> \in outstanding \/ <<q[1], q>> = <<p[1], p>>
    BY <1>1
  <2>2. QED
    BY <2>1 DEF Sent
<1>4. \A x \in AllRows : InPlace(x)' <=> InPlace(x)
  BY <1>1 DEF InPlace
<1>5. \A q \in Payloads : Accessed(q)' <=> Accessed(q)
  BY <1>1 DEF Accessed
<1>6. ~ Accessed(p)
  <2>1. ASSUME NEW k \in Banks, bank_thread[k] = p PROVE FALSE
    <3>1. bank_thread[k] # NULL
      BY <2>1, NullAssumption
    <3>2. QED
      BY <1>1, <2>1, <3>1, ServedBy
  <2>2. QED
    BY <2>1 DEF Accessed
<1>7. ASSUME NEW q \in Payloads, Sent(q)' PROVE \E x : x = RowFor(q)' /\ FitsRow(q, x)'
  <2>1. CASE q = p
    <3>1. FitsRow(p, row)'
      BY <1>2, <1>4, <1>5, <1>6 DEF FitsRow
    <3>2. QED
      BY <2>1, <3>1
  <2>2. CASE q # p
    <3>1. PICK x : x = RowFor(q)
      OBVIOUS
    <3>2. Sent(q) /\ x = RowFor(q)'
      BY <1>3, <1>7, <2>2, <3>1
    <3>3. FitsRow(q, x)
      BY <3>1, <3>2, RequestFits
    <3>4. FitsRow(q, x)'
      BY <1>2, <1>4, <1>5, <2>2, <3>3 DEF FitsRow
    <3>5. QED
      BY <3>2, <3>4
  <2>3. QED
    BY <2>1, <2>2
<1>8. RequestInv'
  BY <1>7, RequestFitsNext
<1>9. QED
  BY <1>2, <1>3, <1>4, <1>8

(* A write puts a row at its own place, so what is in place stays there.   *)
LEMMA WritesInPlace ==
  ASSUME ArbiterInv, NEW x \in AllRows,
         spad' = [spad EXCEPT ![BankOf(AddrOf(x))][RowOffsetOf(AddrOf(x))] = x]
  PROVE  InPlace(x)' /\ \A y \in AllRows : InPlace(y) => InPlace(y)'
<1>1. spad \in [Banks -> [RowOffsets -> AnyData]]
  BY ArbiterTypes DEF ArbiterInv, AnyData
<1> DEFINE k == BankOf(AddrOf(x))
           r == RowOffsetOf(AddrOf(x))
<1>2. k \in Banks /\ r \in RowOffsets
  BY RowPlace
<1> HIDE DEF k, r
<1>3. spad' = [spad EXCEPT ![k][r] = x]
  BY DEF k, r
<1>4. /\ spad'[k][r] = x
      /\ \A l \in Banks, o \in RowOffsets : l # k \/ o # r => spad'[l][o] = spad[l][o]
  BY <1>1, <1>2, <1>3
<1>5. InPlace(x)'
  BY <1>4 DEF InPlace, k, r
<1>6. ASSUME NEW y \in AllRows, InPlace(y) PROVE InPlace(y)'
  <2>1. BankOf(AddrOf(y)) \in Banks /\ RowOffsetOf(AddrOf(y)) \in RowOffsets
    BY RowPlace
  <2>2. CASE y = x
    BY <1>5, <2>2
  <2>3. CASE y # x
    <3>1. BankOf(AddrOf(y)) # k \/ RowOffsetOf(AddrOf(y)) # r
      BY <2>3, RowPlace DEF k, r
    <3>2. QED
      BY <1>4, <1>6, <2>1, <3>1 DEF InPlace
  <2>4. QED
    BY <2>2, <2>3
<1>7. QED
  BY <1>5, <1>6

LEMMA AccessKeeps ==
  ASSUME ArbiterInv, RequestInv, NEW k \in Banks, NEW p, Accesses(k, p),
         \A q \in Payloads : Sent(q) => RowFor(q)' = RowFor(q)
  PROVE  /\ RequestInv'
         /\ \A q \in Payloads : Sent(q)' <=> Sent(q)
         /\ \A x \in AllRows : InPlace(x) => InPlace(x)'
         /\ \A q \in Payloads : ~ Sent(q) => payload'[q] = payload[q]
<1>1. PICK x : x = RowFor(p)
  OBVIOUS
<1>2. p \in Payloads /\ Sent(p) /\ ~ Accessed(p) /\ FitsRow(p, x)
  BY <1>1, RequestFits DEF Accesses
<1>3. /\ payload \in [Payloads -> [address : FlatAddrs, data : AnyData]]
      /\ spad \in [Banks -> [RowOffsets -> AnyData]]
      /\ x \in AllRows /\ payload[p].address = AddrOf(x) /\ BankOf(AddrOf(x)) = k
      /\ p[1] \in {load, c} \/ p[1] \in {a, b, store}
  BY <1>2, ArbiterTypes, PayloadIs DEF ArbiterInv, AnyData, FitsRow, Accesses
<1>4. /\ InPlace(x)' /\ \A y \in AllRows : InPlace(y) => InPlace(y)'
      /\ payload'[p].address = AddrOf(x) /\ payload'[p].data = x
      /\ \A q \in Payloads \ {p} : payload'[q] = payload[q]
  <2>1. CASE p[1] \in {load, c}
    <3>1. payload[p].data = x /\ UNCHANGED payload
      BY <1>2, <2>1 DEF FitsRow, Accesses
    <3>2. spad' = [spad EXCEPT ![BankOf(AddrOf(x))][RowOffsetOf(AddrOf(x))] = x]
      BY <1>3, <2>1, <3>1 DEF Accesses
    <3>3. QED
      BY <1>3, <3>1, <3>2, WritesInPlace
  <2>2. CASE p[1] \in {a, b, store}
    <3>1. InPlace(x) /\ UNCHANGED spad
      BY <1>2, <2>2 DEF FitsRow, Accesses
    <3>2. payload' = [payload EXCEPT ![p].data = x]
      BY <1>3, <2>2, <3>1 DEF Accesses, InPlace
    <3>3. /\ payload'[p].address = AddrOf(x) /\ payload'[p].data = x
          /\ \A q \in Payloads \ {p} : payload'[q] = payload[q]
      BY <1>2, <1>3, <3>2
    <3>4. QED
      BY <3>1, <3>3 DEF InPlace
  <2>3. QED
    BY <1>3, <2>1, <2>2
<1>5. \A q \in Payloads : Sent(q)' <=> Sent(q)
  BY DEF Accesses, Sent
<1>6. \A q \in Payloads \ {p} : Accessed(q)' => Accessed(q)
  <2>1. bank_thread' = [bank_thread EXCEPT ![k] = p]
    BY DEF Accesses
  <2>2. bank_thread \in [Banks -> Payloads \cup {NULL}]
    BY DEF ArbiterInv, Proved!HandshakeInv, Proved!TypeOK, Proved!Banks, Banks
  <2>3. QED
    BY <2>1, <2>2 DEF Accessed
<1>7. ASSUME NEW q \in Payloads, Sent(q)' PROVE \E y : y = RowFor(q)' /\ FitsRow(q, y)'
  <2>1. CASE q = p
    <3>1. FitsRow(p, x)'
      BY <1>3, <1>4 DEF FitsRow
    <3>2. x = RowFor(p)'
      BY <1>1, <1>2
    <3>3. QED
      BY <2>1, <3>1, <3>2
  <2>2. CASE q # p
    <3>1. PICK y : y = RowFor(q)
      OBVIOUS
    <3>2. Sent(q) /\ y = RowFor(q)'
      BY <1>5, <1>7, <3>1
    <3>3. FitsRow(q, y)
      BY <3>1, <3>2, RequestFits
    <3>4. FitsRow(q, y)'
      BY <1>4, <1>6, <2>2, <3>3 DEF FitsRow
    <3>5. QED
      BY <3>2, <3>4
  <2>3. QED
    BY <2>1, <2>2
<1>8. RequestInv'
  BY <1>7, RequestFitsNext
<1>9. QED
  BY <1>2, <1>4, <1>5, <1>8

LEMMA AnswerKeeps ==
  ASSUME ArbiterInv, RequestInv, NEW k \in Banks, NEW p, Answered(k, p),
         \A q \in Payloads \ {p} : Sent(q) => RowFor(q)' = RowFor(q)
  PROVE  /\ RequestInv'
         /\ RowFor(p) \in AllRows /\ InPlace(RowFor(p)) /\ payload[p].data = RowFor(p)
         /\ \A q \in Payloads : Sent(q)' <=> Sent(q) /\ q # p
         /\ \A x \in AllRows : InPlace(x)' <=> InPlace(x)
         /\ payload' = payload
<1>1. /\ p \in Payloads /\ Sent(p) /\ Accessed(p)
      /\ outstanding' = outstanding \ {<<p[1], p>>}
      /\ bank_thread' = [bank_thread EXCEPT ![k] = NULL]
      /\ payload' = payload /\ spad' = spad
  BY DEF Answered
<1>2. FitsRow(p, RowFor(p))
  BY <1>1, RequestFits
<1>3. RowFor(p) \in AllRows /\ InPlace(RowFor(p)) /\ payload[p].data = RowFor(p)
  BY <1>1, <1>2 DEF FitsRow
<1>4. \A q \in Payloads : Sent(q)' <=> Sent(q) /\ q # p
  <2> TAKE q \in Payloads
  <2>1. <<q[1], q>> \in outstanding' <=> <<q[1], q>> \in outstanding /\ <<q[1], q>> # <<p[1], p>>
    BY <1>1
  <2>2. QED
    BY <2>1 DEF Sent
<1>5. \A x \in AllRows : InPlace(x)' <=> InPlace(x)
  BY <1>1 DEF InPlace
<1>6. \A q \in Payloads : Accessed(q)' => Accessed(q)
  <2>1. bank_thread \in [Banks -> Payloads \cup {NULL}]
    BY DEF ArbiterInv, Proved!HandshakeInv, Proved!TypeOK, Proved!Banks, Banks
  <2>2. QED
    BY <1>1, <2>1, NullAssumption DEF Accessed
<1>7. ASSUME NEW q \in Payloads, Sent(q)' PROVE \E y : y = RowFor(q)' /\ FitsRow(q, y)'
  <2>1. Sent(q) /\ q # p
    BY <1>4, <1>7
  <2>2. PICK y : y = RowFor(q)
    OBVIOUS
  <2>3. y = RowFor(q)' /\ FitsRow(q, y)
    BY <2>1, <2>2, RequestFits
  <2>4. FitsRow(q, y)'
    BY <1>1, <1>5, <1>6, <2>3 DEF FitsRow
  <2>5. QED
    BY <2>3, <2>4
<1>8. RequestInv'
  BY <1>7, RequestFitsNext
<1>9. QED
  BY <1>1, <1>3, <1>4, <1>5, <1>8

(* A step in which no request is sent, served or answered                  *)
LEMMA OthersKeep ==
  ASSUME RequestInv, UNCHANGED busVars,
         \A q \in Payloads : Sent(q) => RowFor(q)' = RowFor(q)
  PROVE  /\ RequestInv'
         /\ \A q \in Payloads : Sent(q)' <=> Sent(q)
         /\ \A x \in AllRows : InPlace(x)' <=> InPlace(x)
         /\ payload' = payload
<1>1. payload' = payload /\ outstanding' = outstanding /\ bank_thread' = bank_thread /\ spad' = spad
  BY DEF busVars
<1>2. /\ \A q \in Payloads : Sent(q)' <=> Sent(q)
      /\ \A q \in Payloads : Accessed(q)' <=> Accessed(q)
      /\ \A x \in AllRows : InPlace(x)' <=> InPlace(x)
  BY <1>1 DEF Sent, Accessed, InPlace
<1>3. ASSUME NEW q \in Payloads, Sent(q)' PROVE \E y : y = RowFor(q)' /\ FitsRow(q, y)'
  <2>1. PICK y : y = RowFor(q)
    OBVIOUS
  <2>2. Sent(q) /\ y = RowFor(q)' /\ FitsRow(q, y)
    BY <1>2, <1>3, <2>1, RequestFits
  <2>3. FitsRow(q, y)'
    BY <1>1, <1>2, <2>2 DEF FitsRow
  <2>4. QED
    BY <2>2, <2>3
<1>4. QED
  BY <1>1, <1>2, <1>3, RequestFitsNext
-----------------------------------------------------------------------------
(* What each part of the invariant depends on                              *)

LEMMA RowForIs ==
  /\ \A credit \in LoadCredits : RowFor(<<load, credit>>) = load_tag[credit]
  /\ RowFor(<<store, 0>>) = <<"C", mvout.id, mvout.row>>
  /\ RowFor(<<a, 0>>) = <<"A", gemm.id, gemm.row>>
  /\ RowFor(<<b, 0>>) = <<"B", gemm.id, gemm.row>>
  /\ RowFor(<<c, 0>>) = <<"C", drain.id, drain.row>>
  BY DEF RowFor, load, store, a, b, c

LEMMA RowForNext ==
  /\ \A credit \in LoadCredits : RowFor(<<load, credit>>)' = load_tag'[credit]
  /\ RowFor(<<store, 0>>)' = <<"C", mvout'.id, mvout'.row>>
  /\ RowFor(<<a, 0>>)' = <<"A", gemm'.id, gemm'.row>>
  /\ RowFor(<<b, 0>>)' = <<"B", gemm'.id, gemm'.row>>
  /\ RowFor(<<c, 0>>)' = <<"C", drain'.id, drain'.row>>
  BY DEF RowFor, load, store, a, b, c

SamePlace(new, old) == new.id = old.id /\ new.row = old.row

LEMMA RowForSame ==
  ASSUME NEW q \in Payloads,
         q[1] \in {a, b} => SamePlace(gemm', gemm),
         q[1] = c => SamePlace(drain', drain),
         q[1] = store => SamePlace(mvout', mvout),
         q[1] = load => load_tag'[q[2]] = load_tag[q[2]]
  PROVE  RowFor(q)' = RowFor(q)
<1>1. q = <<q[1], q[2]>> /\ q[1] \in {load, store, a, b, c}
      /\ (q[1] # load => q = <<q[1], 0>>) /\ (q[1] = load => q[2] \in LoadCredits)
  BY PayloadIs
<1>2. CASE q[1] = load
  <2>1. q = <<load, q[2]>> /\ q[2] \in LoadCredits
    BY <1>1, <1>2
  <2>2. QED
    BY <1>2, <2>1, RowForIs, RowForNext
<1>3. CASE q[1] = store
  BY <1>1, <1>3, RowForIs, RowForNext DEF SamePlace, load, store
<1>4. CASE q[1] = a
  BY <1>1, <1>4, RowForIs, RowForNext DEF SamePlace, load, a
<1>5. CASE q[1] = b
  BY <1>1, <1>5, RowForIs, RowForNext DEF SamePlace, load, b
<1>6. CASE q[1] = c
  BY <1>1, <1>6, RowForIs, RowForNext DEF SamePlace, load, c
<1>7. QED
  BY <1>1, <1>2, <1>3, <1>4, <1>5, <1>6

LEMMA SocketPayloads ==
  /\ <<store, 0>> \in Payloads /\ <<a, 0>> \in Payloads /\ <<b, 0>> \in Payloads
  /\ <<c, 0>> \in Payloads /\ \A credit \in LoadCredits : <<load, credit>> \in Payloads
  BY DEF Payloads

StayInPlace == \A x \in AllRows : InPlace(x) => InPlace(x)'

(* The state of request p is as before, and its buffer unless it is sent.  *)
SameRequest(p) == (Sent(p)' <=> Sent(p)) /\ (~ Sent(p) => payload'[p] = payload[p])

LEMMA LoadFrame ==
  ASSUME LoadState, UNCHANGED loadVars, StayInPlace
  PROVE  LoadState'
<1>1. unloaded' = unloaded /\ load_tag' = load_tag
  BY DEF loadVars
<1>2. \A x \in TileRows({"A", "B"}) : x \in AllRows
  BY DEF AllRows, TileRows
<1>3. QED
  BY <1>1, <1>2 DEF LoadState, StayInPlace

LEMMA GemmFrame ==
  ASSUME GemmState, UNCHANGED gemmVars, StayInPlace,
         SameRequest(<<a, 0>>), SameRequest(<<b, 0>>)
  PROVE  GemmState'
<1>1. UNCHANGED <<gemm, waits_for, a_done, b_done>>
  BY DEF gemmVars
<1>2. PICK x : x = <<"B", gemm.id, gemm.row>>
  OBVIOUS
<1>3. gemm.step = "b_request" => x \in AllRows /\ InPlace(x)
  BY <1>2 DEF GemmState, Places, AllRows, TileRows
<1>4. gemm.step = "b_request" => InPlace(x)'
  BY <1>3 DEF StayInPlace
<1>5. gemm'.step = "b_request" => InPlace(<<"B", gemm.id, gemm.row>>)'
  BY <1>1, <1>2, <1>4 DEF InPlace
<1>6. QED
  BY <1>1, <1>5 DEF GemmState, SameRequest, Places

LEMMA FetchedFrame ==
  ASSUME Fetched, UNCHANGED gemmVars
  PROVE  Fetched'
  BY DEF Fetched, gemmVars, Through, Done

LEMMA DrainFrame ==
  ASSUME DrainState, UNCHANGED drainVars, StayInPlace, SameRequest(<<c, 0>>)
  PROVE  DrainState'
<1>1. drain' = drain /\ c_done' = c_done
  BY DEF drainVars
<1>2. \A id \in Ids, r \in Rows : <<"C", id, r>> \in AllRows
  BY DEF AllRows, TileRows
<1>3. \A id \in Ids, r \in Rows : InPlace(<<"C", id, r>>) => InPlace(<<"C", id, r>>)'
  BY <1>2 DEF StayInPlace
<1>4. drain.step = "c_done" => drain.id \in Ids /\ drain.row \in Rows
  BY DEF DrainState, Places
<1>5. QED
  BY <1>1, <1>3, <1>4 DEF DrainState, SameRequest, Places

LEMMA StoreFrame ==
  ASSUME StoreState, UNCHANGED storeVars
  PROVE  StoreState'
  BY DEF StoreState, storeVars, Through, Done, Places

(* The arithmetic of rows in program order                                 *)
Following(thread) ==
  IF thread.row + 1 < DIM THEN [id |-> thread.id, row |-> thread.row + 1]
                          ELSE [id |-> thread.id + 1, row |-> 0]

LEMMA InOrder ==
  ASSUME NEW thread, Places(thread)
  PROVE  /\ Done(thread) \in Nat
         /\ \A matrix : Nth(matrix, Done(thread) + 1) = <<matrix, thread.id, thread.row>>
         /\ Places(Following(thread)) /\ Done(Following(thread)) = Done(thread) + 1
<1>1. PICK n, r : n = thread.id - 1 /\ r = thread.row
  OBVIOUS
<1>2. DIM \in Nat \ {0} /\ n \in Nat /\ r \in 0 .. DIM - 1 /\ thread.id = n + 1
  BY <1>1, SizesAssumption DEF Places, Rows
<1>3. n * DIM \in Nat /\ (n + 1) * DIM = n * DIM + DIM
  BY <1>2, Z3
<1>4. Done(thread) = n * DIM + r
  BY <1>1 DEF Done
<1>5. (n * DIM + r) \div DIM = n /\ (n * DIM + r) % DIM = r
  BY <1>2, <1>3, Z3
<1>6. \A matrix : Nth(matrix, Done(thread) + 1) = <<matrix, thread.id, thread.row>>
  <2>1. (Done(thread) + 1) - 1 = n * DIM + r
    BY <1>2, <1>3, <1>4
  <2>2. /\ 1 + ((Done(thread) + 1) - 1) \div DIM = thread.id
        /\ ((Done(thread) + 1) - 1) % DIM = thread.row
    BY <1>1, <1>2, <1>5, <2>1
  <2>3. QED
    BY <2>2, Zenon DEF Nth
<1>7. CASE r + 1 < DIM
  <2>1. Following(thread).id = thread.id /\ Following(thread).row = r + 1
    BY <1>1, <1>7 DEF Following
  <2>2. QED
    BY <1>1, <1>2, <1>3, <1>4, <1>6, <1>7, <2>1 DEF Places, Rows, Done
<1>8. CASE ~ (r + 1 < DIM)
  <2>1. Following(thread).id = thread.id + 1 /\ Following(thread).row = 0 /\ r + 1 = DIM
    BY <1>1, <1>2, <1>8 DEF Following
  <2>2. QED
    <3>1. Done(Following(thread)) = (n + 1) * DIM
      BY <1>2, <1>3, <2>1 DEF Done
    <3>2. Done(Following(thread)) = Done(thread) + 1
      BY <1>2, <1>3, <1>4, <2>1, <3>1
    <3>3. Places(Following(thread))
      BY <1>2, <2>1 DEF Places, Rows
    <3>4. QED
      BY <1>2, <1>3, <1>4, <1>6, <3>2, <3>3
<1>9. QED
  BY <1>7, <1>8
-----------------------------------------------------------------------------
(* gemm_thread                                                             *)

LEMMA LoadedInPlace ==
  ASSUME LoadState, NEW id \in Ids, Loaded(id), NEW r \in Rows
  PROVE  InPlace(<<"A", id, r>>) /\ InPlace(<<"B", id, r>>)
<1>1. ASSUME NEW m \in {"A", "B"} PROVE InPlace(<<m, id, r>>)
  <2>1. <<m, id, r>> \in {"A", "B"} \X {id} \X Rows /\ <<m, id, r>> \in TileRows({"A", "B"})
    BY DEF TileRows
  <2>2. /\ <<m, id, r>> \notin unloaded
        /\ \A credit \in LoadCredits : load_tag[credit] # <<m, id, r>>
    BY <2>1 DEF Loaded
  <2>3. QED
    BY <2>1, <2>2 DEF LoadState
<1>2. QED
  BY <1>1

LEMMA RequestAKeeps ==
  ASSUME ExecInv, RequestA
  PROVE  ThreadsInv'
<1> DEFINE p == <<a, 0>>
<1>1. PICK x : x = <<"A", gemm.id, gemm.row>>
  OBVIOUS
<1>2. /\ gemm = [id |-> gemm.id, row |-> gemm.row, step |-> "a_request"]
      /\ gemm.id \in Ids /\ gemm.row \in Rows /\ Loaded(gemm.id)
      /\ gemm' = [gemm EXCEPT !.step = "b_request"]
      /\ UNCHANGED <<waits_for, a_done, b_done, a_out, b_out, drainVars, loadVars, storeVars>>
      /\ Request(p, x, payload[p].data)
  BY <1>1 DEF RequestA, ExecInv, ThreadsInv, GemmState, Places
<1>3. gemm' = [id |-> gemm.id, row |-> gemm.row, step |-> "b_request"]
  BY <1>2
<1>4. x \in AllRows /\ InPlace(x) /\ InPlace(<<"B", gemm.id, gemm.row>>)
  BY <1>1, <1>2, LoadedInPlace DEF ExecInv, ThreadsInv, AllRows, TileRows
<1>5. PICK y : y = <<"B", gemm.id, gemm.row>>
  OBVIOUS
<1>6. y \in AllRows /\ InPlace(y)
  BY <1>2, <1>4, <1>5 DEF AllRows, TileRows
<1>7. p \in Payloads /\ Requested(p, x, payload[p].data) /\ p[1] = a
  BY <1>2, SocketPayloads, RequestEffect
<1>8. \A q \in Payloads : q[1] # a => RowFor(q)' = RowFor(q)
  <2>1. /\ SamePlace(gemm', gemm) /\ SamePlace(drain', drain) /\ SamePlace(mvout', mvout)
        /\ load_tag' = load_tag
    BY <1>2, <1>3 DEF SamePlace, drainVars, storeVars, loadVars
  <2>2. QED
    BY <2>1, RowForSame
<1>9. \A q \in Payloads \ {p} : Sent(q) => RowFor(q)' = RowFor(q)
  BY <1>8, PayloadIs DEF load, a
<1>10. RowFor(p)' = x
  BY <1>1, <1>3, RowForNext
<1>11. /\ RequestInv'
       /\ \A q \in Payloads : Sent(q)' <=> Sent(q) \/ q = p
       /\ \A z \in AllRows : InPlace(z)' <=> InPlace(z)
       /\ \A q \in Payloads \ {p} : payload'[q] = payload[q]
  BY <1>4, <1>7, <1>9, <1>10, RequestKeeps DEF ExecInv, ThreadsInv, load, a, b, c, store
<1>12. StayInPlace
  BY <1>11 DEF StayInPlace
<1>13. <<b, 0>> # p /\ <<c, 0>> # p
  BY DEF a, b, c
<1>14. /\ Sent(p)' /\ (Sent(<<b, 0>>)' <=> Sent(<<b, 0>>))
       /\ SameRequest(<<c, 0>>)
  BY <1>11, <1>13, SocketPayloads DEF SameRequest
<1> HIDE DEF p
<1>15. LoadState' /\ DrainState' /\ StoreState'
  BY <1>2, <1>12, <1>14, LoadFrame, DrainFrame, StoreFrame DEF ExecInv, ThreadsInv
<1>16. InPlace(<<"B", gemm.id, gemm.row>>)'
  <2>1. InPlace(y)'
    BY <1>6, <1>12 DEF StayInPlace
  <2>2. y = <<"B", gemm'.id, gemm'.row>>
    BY <1>3, <1>5
  <2>3. QED
    BY <2>1, <2>2 DEF InPlace
<1>17. GemmState'
  <2>1. waits_for = {} /\ ~ a_done /\ ~ b_done /\ ~ Sent(<<b, 0>>)
    BY <1>2 DEF ExecInv, ThreadsInv, GemmState
  <2>2. Places(gemm)'
    BY <1>3 DEF Places, ExecInv, ThreadsInv, GemmState
  <2>3. QED
    BY <1>2, <1>3, <1>14, <1>16, <2>1, <2>2 DEF GemmState, p
<1>18. Fetched'
  BY <1>2, <1>3 DEF ExecInv, ThreadsInv, Fetched, Through, Done
<1>19. QED
  BY <1>11, <1>15, <1>17, <1>18 DEF ThreadsInv

LEMMA RequestBKeeps ==
  ASSUME ExecInv, RequestB
  PROVE  ThreadsInv'
<1> DEFINE p == <<b, 0>>
<1>1. PICK x : x = <<"B", gemm.id, gemm.row>>
  OBVIOUS
<1>2. /\ gemm = [id |-> gemm.id, row |-> gemm.row, step |-> "b_request"]
      /\ gemm.id \in Ids /\ gemm.row \in Rows /\ InPlace(x)
      /\ gemm' = [gemm EXCEPT !.step = "wait"]
      /\ waits_for' = {"a_done", "b_done"}
      /\ UNCHANGED <<a_done, b_done, a_out, b_out, drainVars, loadVars, storeVars>>
      /\ Request(p, x, payload[p].data)
  BY <1>1 DEF RequestB, ExecInv, ThreadsInv, GemmState, Places
<1>3. gemm' = [id |-> gemm.id, row |-> gemm.row, step |-> "wait"]
  BY <1>2
<1>4. x \in AllRows
  BY <1>1, <1>2 DEF AllRows, TileRows
<1>5. p \in Payloads /\ Requested(p, x, payload[p].data) /\ p[1] = b
  BY <1>2, SocketPayloads, RequestEffect
<1>6. \A q \in Payloads : RowFor(q)' = RowFor(q)
  <2>1. /\ SamePlace(gemm', gemm) /\ SamePlace(drain', drain) /\ SamePlace(mvout', mvout)
        /\ load_tag' = load_tag
    BY <1>2, <1>3 DEF SamePlace, drainVars, storeVars, loadVars
  <2>2. QED
    BY <2>1, RowForSame
<1>7. RowFor(p)' = x
  BY <1>1, <1>3, RowForNext
<1>8. /\ RequestInv'
      /\ \A q \in Payloads : Sent(q)' <=> Sent(q) \/ q = p
      /\ \A z \in AllRows : InPlace(z)' <=> InPlace(z)
      /\ \A q \in Payloads \ {p} : payload'[q] = payload[q]
  BY <1>2, <1>4, <1>5, <1>6, <1>7, RequestKeeps DEF ExecInv, ThreadsInv, load, a, b, c, store
<1>9. StayInPlace
  BY <1>8 DEF StayInPlace
<1>10. <<a, 0>> # p /\ <<c, 0>> # p
  BY DEF a, b, c
<1>11. /\ Sent(p)' /\ SameRequest(<<a, 0>>) /\ SameRequest(<<c, 0>>)
  BY <1>8, <1>10, SocketPayloads DEF SameRequest
<1> HIDE DEF p
<1>12. LoadState' /\ DrainState' /\ StoreState'
  BY <1>2, <1>9, <1>11, LoadFrame, DrainFrame, StoreFrame DEF ExecInv, ThreadsInv
<1>13. GemmState'
  <2>1. waits_for = {} /\ ~ a_done /\ ~ b_done
    BY <1>2 DEF ExecInv, ThreadsInv, GemmState
  <2>2. Places(gemm)'
    BY <1>3 DEF Places, ExecInv, ThreadsInv, GemmState
  <2>3. ~ Sent(<<a, 0>>)' => payload'[<<a, 0>>].data = <<"A", gemm.id, gemm.row>>
    <3>1. gemm.step # "a_request"
      BY <1>2
    <3>2. ~ Sent(<<a, 0>>) => payload[<<a, 0>>].data = <<"A", gemm.id, gemm.row>>
      BY <3>1 DEF ExecInv, ThreadsInv, GemmState
    <3>3. QED
      BY <1>11, <3>2 DEF SameRequest
  <2>4. QED
    BY <1>2, <1>3, <1>11, <2>1, <2>2, <2>3 DEF GemmState, p
<1>14. Fetched'
  BY <1>2, <1>3 DEF ExecInv, ThreadsInv, Fetched, Through, Done
<1>15. QED
  BY <1>8, <1>12, <1>13, <1>14 DEF ThreadsInv

(* The steps of gemm_thread between its requests                           *)
LEMMA QuietGemm ==
  ASSUME ThreadsInv, UNCHANGED <<drainVars, loadVars, storeVars, arbiterVars>>,
         SamePlace(gemm', gemm) \/ (~ Sent(<<a, 0>>) /\ ~ Sent(<<b, 0>>))
  PROVE  /\ RequestInv' /\ LoadState' /\ DrainState' /\ StoreState'
         /\ (Sent(<<a, 0>>)' <=> Sent(<<a, 0>>)) /\ (Sent(<<b, 0>>)' <=> Sent(<<b, 0>>))
         /\ \A z \in AllRows : InPlace(z)' <=> InPlace(z)
         /\ payload' = payload
<1>1. UNCHANGED busVars
  BY DEF arbiterVars, busVars
<1>2. SamePlace(drain', drain) /\ SamePlace(mvout', mvout) /\ load_tag' = load_tag
  BY DEF SamePlace, drainVars, storeVars, loadVars
<1>3. \A q \in Payloads : Sent(q) => RowFor(q)' = RowFor(q)
  <2>1. \A q \in Payloads : q[1] \in {a, b} => q = <<a, 0>> \/ q = <<b, 0>>
    BY PayloadIs DEF load, a, b
  <2>2. QED
    BY <1>2, <2>1, RowForSame
<1>4. /\ RequestInv'
      /\ \A q \in Payloads : Sent(q)' <=> Sent(q)
      /\ \A z \in AllRows : InPlace(z)' <=> InPlace(z)
      /\ payload' = payload
  BY <1>1, <1>3, OthersKeep DEF ThreadsInv
<1>5. StayInPlace /\ SameRequest(<<c, 0>>)
  BY <1>4, SocketPayloads DEF StayInPlace, SameRequest
<1>6. QED
  BY <1>4, <1>5, SocketPayloads, LoadFrame, DrainFrame, StoreFrame DEF ThreadsInv

LEMMA FireKeeps ==
  ASSUME ExecInv, FireA \/ FireB, UNCHANGED <<drainVars, loadVars, storeVars, arbiterVars>>
  PROVE  ThreadsInv'
<1>1. /\ gemm' = gemm /\ a_out' = a_out /\ b_out' = b_out /\ gemm.step # "b_request"
      /\ \/ a_done /\ a_done' = FALSE /\ waits_for' = waits_for \ {"a_done"} /\ b_done' = b_done
         \/ b_done /\ b_done' = FALSE /\ waits_for' = waits_for \ {"b_done"} /\ a_done' = a_done
  BY DEF FireA, FireB, StillWaits, Yielded
<1>2. /\ RequestInv' /\ LoadState' /\ DrainState' /\ StoreState'
      /\ (Sent(<<a, 0>>)' <=> Sent(<<a, 0>>)) /\ (Sent(<<b, 0>>)' <=> Sent(<<b, 0>>))
      /\ payload' = payload
  BY <1>1, QuietGemm DEF ExecInv, SamePlace
<1>3. GemmState'
  <2>1. GemmState
    BY DEF ExecInv, ThreadsInv
  <2>2. waits_for # {} /\ gemm.step = "wait"
    BY <1>1, <2>1 DEF GemmState
  <2>3. Places(gemm)'
    BY <1>1, <2>1 DEF GemmState, Places
  <2>4. QED
    BY <1>1, <1>2, <2>1, <2>2, <2>3 DEF GemmState
<1>4. Fetched'
  BY <1>1 DEF ExecInv, ThreadsInv, Fetched, Through, Done
<1>5. QED
  BY <1>2, <1>3, <1>4 DEF ThreadsInv

(* One more row, the next in program order                                 *)
LEMMA AppendNth ==
  ASSUME NEW matrix, NEW thread, Places(thread), NEW rows, Through(rows, matrix, Done(thread)),
         NEW x \in AllRows, x = <<matrix, thread.id, thread.row>>
  PROVE  Through(Append(rows, x), matrix, Done(thread) + 1)
<1>1. PICK more : more = Append(rows, x)
  OBVIOUS
<1>2. /\ more \in Seq(AnyData) /\ Len(more) = Len(rows) + 1
      /\ \A k \in 1 .. Len(rows) : more[k] = rows[k]
      /\ more[Len(rows) + 1] = x
      /\ DOMAIN more = 1 .. Len(rows) + 1 /\ DOMAIN rows = 1 .. Len(rows) /\ Len(rows) \in Nat
  <2>1. rows \in Seq(AnyData) /\ x \in AnyData
    BY DEF Through, AnyData
  <2>2. QED
    BY <1>1, <2>1, AppendProperties, LenProperties
<1>3. x = Nth(matrix, Len(rows) + 1)
  BY InOrder DEF Through
<1>4. \A k \in DOMAIN more : more[k] = Nth(matrix, k)
  <2> TAKE k \in DOMAIN more
  <2>1. CASE k \in 1 .. Len(rows)
    BY <1>2, <2>1 DEF Through
  <2>2. CASE k = Len(rows) + 1
    BY <1>2, <1>3, <2>2
  <2>3. QED
    BY <1>2, <2>1, <2>2
<1>5. QED
  BY <1>1, <1>2, <1>4 DEF Through, AnyData

LEMMA WriteAKeeps ==
  ASSUME ExecInv, WriteA, UNCHANGED <<drainVars, loadVars, storeVars, arbiterVars>>
  PROVE  ThreadsInv'
<1> DEFINE x == payload[<<a, 0>>].data
<1>1. /\ GemmState /\ gemm = [id |-> gemm.id, row |-> gemm.row, step |-> "wait"] /\ Places(gemm)
      /\ waits_for = {} /\ a_out' = Append(a_out, x) /\ b_out' = b_out
      /\ gemm' = [gemm EXCEPT !.step = "b_write"]
      /\ UNCHANGED <<waits_for, a_done, b_done>>
  BY DEF WriteA, ExecInv, ThreadsInv, GemmState
<1>2. gemm' = [id |-> gemm.id, row |-> gemm.row, step |-> "b_write"]
  BY <1>1
<1>3. /\ RequestInv' /\ LoadState' /\ DrainState' /\ StoreState'
      /\ (Sent(<<a, 0>>)' <=> Sent(<<a, 0>>)) /\ (Sent(<<b, 0>>)' <=> Sent(<<b, 0>>))
      /\ payload' = payload
  BY <1>2, QuietGemm DEF ExecInv, SamePlace
<1>4. x = <<"A", gemm.id, gemm.row>> /\ x \in AllRows
  <2>1. gemm.step = "wait"
    BY <1>1
  <2>2. ~ Sent(<<a, 0>>) /\ x = <<"A", gemm.id, gemm.row>> /\ gemm.id \in Ids
    BY <1>1, <2>1 DEF GemmState
  <2>3. x \in AllRows
    BY <1>1, <2>2 DEF AllRows, TileRows, Places
  <2>4. QED
    BY <2>2, <2>3
<1> HIDE DEF x
<1>5. GemmState'
  <2>1. ~ a_done /\ ~ b_done /\ ~ Sent(<<a, 0>>) /\ ~ Sent(<<b, 0>>)
    BY <1>1 DEF GemmState
  <2>2. Places(gemm)'
    BY <1>1, <1>2 DEF Places
  <2>3. gemm.step = "wait"
    BY <1>1
  <2>4. QED
    BY <1>1, <1>2, <1>3, <2>1, <2>2, <2>3 DEF GemmState
<1>6. Fetched'
  <2>1. Through(a_out, "A", Done(gemm)) /\ Through(b_out, "B", Done(gemm))
    <3>1. gemm.step # "b_write" /\ Fetched
      BY <1>1 DEF ExecInv, ThreadsInv
    <3>2. Done(gemm) \in Nat
      BY <1>1, InOrder
    <3>3. QED
      BY <3>1, <3>2 DEF Fetched
  <2>2. Through(a_out', "A", Done(gemm) + 1)
    BY <1>1, <1>4, <2>1, AppendNth
  <2>3. Done(gemm') = Done(gemm) /\ gemm'.step = "b_write"
    BY <1>2 DEF Done
  <2>4. QED
    BY <1>1, <2>1, <2>2, <2>3 DEF Fetched, Through
<1>7. QED
  BY <1>3, <1>5, <1>6 DEF ThreadsInv

LEMMA WriteBKeeps ==
  ASSUME ExecInv, WriteB, UNCHANGED <<drainVars, loadVars, storeVars, arbiterVars>>
  PROVE  ThreadsInv'
<1> DEFINE x == payload[<<b, 0>>].data
<1>1. /\ GemmState /\ gemm = [id |-> gemm.id, row |-> gemm.row, step |-> "b_write"] /\ Places(gemm)
      /\ b_out' = Append(b_out, x) /\ a_out' = a_out
      /\ UNCHANGED <<waits_for, a_done, b_done>>
  BY DEF WriteB, ExecInv, ThreadsInv, GemmState
<1>2. gemm' = [id |-> Following(gemm).id, row |-> Following(gemm).row, step |-> "a_request"]
  <2>1. gemm' = IF gemm.row + 1 < DIM
                THEN [gemm EXCEPT !.row = @ + 1, !.step = "a_request"]
                ELSE [id |-> gemm.id + 1, row |-> 0, step |-> "a_request"]
    BY DEF WriteB
  <2>2. PICK i, r : i = gemm.id /\ r = gemm.row
    OBVIOUS
  <2>3. gemm = [id |-> i, row |-> r, step |-> "b_write"]
    BY <1>1, <2>2
  <2>4. CASE r + 1 < DIM
    <3>1. gemm' = [gemm EXCEPT !.row = r + 1, !.step = "a_request"]
      BY <2>1, <2>2, <2>4
    <3>2. gemm' = [id |-> i, row |-> r + 1, step |-> "a_request"]
      BY <2>3, <3>1
    <3>3. QED
      BY <2>2, <2>4, <3>2 DEF Following
  <2>5. CASE ~ (r + 1 < DIM)
    BY <2>1, <2>2, <2>5 DEF Following
  <2>6. QED
    BY <2>4, <2>5
<1>3. /\ waits_for = {} /\ ~ a_done /\ ~ b_done /\ ~ Sent(<<a, 0>>) /\ ~ Sent(<<b, 0>>)
      /\ x = <<"B", gemm.id, gemm.row>> /\ gemm.id \in Ids
  <2>1. gemm.step = "b_write"
    BY <1>1
  <2>2. QED
    BY <1>1, <2>1 DEF GemmState
<1>4. /\ RequestInv' /\ LoadState' /\ DrainState' /\ StoreState'
      /\ (Sent(<<a, 0>>)' <=> Sent(<<a, 0>>)) /\ (Sent(<<b, 0>>)' <=> Sent(<<b, 0>>))
      /\ payload' = payload
  BY <1>3, QuietGemm DEF ExecInv
<1>5. x \in AllRows
  BY <1>1, <1>3 DEF AllRows, TileRows, Places
<1> HIDE DEF x
<1>6. /\ Places(Following(gemm)) /\ Done(Following(gemm)) = Done(gemm) + 1 /\ Done(gemm) \in Nat
  BY <1>1, InOrder
<1>7. GemmState'
  <2>1. Places(gemm)'
    BY <1>2, <1>6 DEF Places
  <2>2. QED
    BY <1>1, <1>2, <1>3, <1>4, <2>1 DEF GemmState
<1>8. Fetched'
  <2>1. Through(a_out, "A", Done(gemm) + 1) /\ Through(b_out, "B", Done(gemm))
    <3>1. gemm.step = "b_write" /\ Fetched
      BY <1>1 DEF ExecInv, ThreadsInv
    <3>2. QED
      BY <1>6, <3>1 DEF Fetched
  <2>2. Through(b_out', "B", Done(gemm) + 1)
    BY <1>1, <1>3, <1>5, <2>1, AppendNth
  <2>3. Done(gemm') = Done(gemm) + 1 /\ gemm'.step = "a_request"
    BY <1>2, <1>6 DEF Done
  <2>4. QED
    BY <1>1, <1>6, <2>1, <2>2, <2>3 DEF Fetched, Through
<1>9. QED
  BY <1>4, <1>7, <1>8 DEF ThreadsInv
-----------------------------------------------------------------------------
(* drain_thread                                                            *)

LEMMA DrainRowKeeps ==
  ASSUME ExecInv, DrainRow
  PROVE  ThreadsInv'
<1> DEFINE p == <<c, 0>>
<1>1. PICK x : x = <<"C", drain.id, drain.row>>
  OBVIOUS
<1>2. /\ drain = [id |-> drain.id, row |-> drain.row, step |-> "c_in"]
      /\ drain.id \in Ids /\ drain.row \in Rows
      /\ drain' = [drain EXCEPT !.step = "c_done"]
      /\ UNCHANGED <<c_done, gemmVars, loadVars, storeVars>>
      /\ Request(p, x, x)
  BY <1>1 DEF DrainRow, ExecInv, ThreadsInv, DrainState, Places
<1>3. drain' = [id |-> drain.id, row |-> drain.row, step |-> "c_done"]
  BY <1>2
<1>4. x \in AllRows
  BY <1>1, <1>2 DEF AllRows, TileRows
<1>5. p \in Payloads /\ Requested(p, x, x) /\ p[1] = c
  BY <1>2, SocketPayloads, RequestEffect
<1>6. \A q \in Payloads : RowFor(q)' = RowFor(q)
  <2>1. /\ SamePlace(gemm', gemm) /\ SamePlace(drain', drain) /\ SamePlace(mvout', mvout)
        /\ load_tag' = load_tag
    BY <1>2, <1>3 DEF SamePlace, gemmVars, storeVars, loadVars
  <2>2. QED
    BY <2>1, RowForSame
<1>7. RowFor(p)' = x
  BY <1>1, <1>3, RowForNext
<1>8. /\ RequestInv'
      /\ \A q \in Payloads : Sent(q)' <=> Sent(q) \/ q = p
      /\ \A z \in AllRows : InPlace(z)' <=> InPlace(z)
      /\ \A q \in Payloads \ {p} : payload'[q] = payload[q]
  BY <1>4, <1>5, <1>6, <1>7, RequestKeeps DEF ExecInv, ThreadsInv, load, a, b, c, store
<1>9. StayInPlace
  BY <1>8 DEF StayInPlace
<1>10. <<a, 0>> # p /\ <<b, 0>> # p
  BY DEF a, b, c
<1>11. /\ Sent(p)' /\ SameRequest(<<a, 0>>) /\ SameRequest(<<b, 0>>)
  BY <1>8, <1>10, SocketPayloads DEF SameRequest
<1> HIDE DEF p
<1>12. LoadState' /\ GemmState' /\ Fetched' /\ StoreState'
  BY <1>2, <1>9, <1>11, LoadFrame, GemmFrame, FetchedFrame, StoreFrame DEF ExecInv, ThreadsInv
<1>13. DrainState'
  <2>1. DrainState /\ ~ c_done
    BY <1>2 DEF ExecInv, ThreadsInv, DrainState
  <2>2. Places(drain)'
    BY <1>3, <2>1 DEF Places, DrainState
  <2>3. \A id \in Ids, r \in Rows : <<"C", id, r>> \in AllRows
    BY DEF AllRows, TileRows
  <2>4. \A id \in Ids, r \in Rows :
           id < drain.id \/ (id = drain.id /\ r < drain.row) => InPlace(<<"C", id, r>>)'
    BY <1>9, <2>1, <2>3 DEF DrainState, StayInPlace
  <2>5. QED
    BY <1>2, <1>3, <1>11, <2>1, <2>2, <2>4 DEF DrainState, p
<1>14. QED
  BY <1>8, <1>12, <1>13 DEF ThreadsInv

LEMMA DrainNextKeeps ==
  ASSUME ExecInv, DrainNext
  PROVE  ThreadsInv'
<1>1. /\ DrainState /\ Places(drain)
      /\ drain = [id |-> drain.id, row |-> drain.row, step |-> "c_done"]
      /\ drain.id \in Ids /\ c_done /\ c_done' = FALSE
      /\ UNCHANGED <<gemmVars, loadVars, storeVars, arbiterVars>>
  BY DEF DrainNext, ExecInv, ThreadsInv, DrainState
<1>2. drain' = [id |-> Following(drain).id, row |-> Following(drain).row, step |-> "c_in"]
  <2>1. drain' = IF drain.row + 1 < DIM
                 THEN [drain EXCEPT !.row = @ + 1, !.step = "c_in"]
                 ELSE [id |-> drain.id + 1, row |-> 0, step |-> "c_in"]
    BY DEF DrainNext
  <2>2. PICK i, r : i = drain.id /\ r = drain.row
    OBVIOUS
  <2>3. drain = [id |-> i, row |-> r, step |-> "c_done"]
    BY <1>1, <2>2
  <2>4. CASE r + 1 < DIM
    <3>1. drain' = [drain EXCEPT !.row = r + 1, !.step = "c_in"]
      BY <2>1, <2>2, <2>4
    <3>2. drain' = [id |-> i, row |-> r + 1, step |-> "c_in"]
      BY <2>3, <3>1
    <3>3. QED
      BY <2>2, <2>4, <3>2 DEF Following
  <2>5. CASE ~ (r + 1 < DIM)
    BY <2>1, <2>2, <2>5 DEF Following
  <2>6. QED
    BY <2>4, <2>5
<1>3. drain.step = "c_done"
  BY <1>1
<1>4. ~ Sent(<<c, 0>>) /\ InPlace(<<"C", drain.id, drain.row>>)
  BY <1>1, <1>3 DEF DrainState
<1>5. \A q \in Payloads : Sent(q) => RowFor(q)' = RowFor(q)
  <2>1. /\ SamePlace(gemm', gemm) /\ SamePlace(mvout', mvout) /\ load_tag' = load_tag
    BY <1>1 DEF SamePlace, gemmVars, storeVars, loadVars
  <2>2. \A q \in Payloads : q[1] = c => q = <<c, 0>>
    BY PayloadIs DEF load, c
  <2>3. QED
    BY <1>4, <2>1, <2>2, RowForSame
<1>6. /\ RequestInv'
      /\ \A q \in Payloads : Sent(q)' <=> Sent(q)
      /\ \A z \in AllRows : InPlace(z)' <=> InPlace(z)
      /\ payload' = payload
  <2>1. UNCHANGED busVars
    BY <1>1 DEF arbiterVars, busVars
  <2>2. QED
    BY <1>5, <2>1, OthersKeep DEF ExecInv, ThreadsInv
<1>7. /\ StayInPlace /\ SameRequest(<<a, 0>>) /\ SameRequest(<<b, 0>>)
      /\ ~ Sent(<<c, 0>>)'
  BY <1>4, <1>6, SocketPayloads DEF StayInPlace, SameRequest
<1>8. LoadState' /\ GemmState' /\ Fetched' /\ StoreState'
  BY <1>1, <1>7, LoadFrame, GemmFrame, FetchedFrame, StoreFrame DEF ExecInv, ThreadsInv
<1>9. DrainState'
  <2>1. Places(drain)'
    BY <1>1, <1>2, InOrder DEF Places
  <2>2. \A id \in Ids, r \in Rows :
           id < Following(drain).id \/ (id = Following(drain).id /\ r < Following(drain).row)
           => InPlace(<<"C", id, r>>)'
    <3> SUFFICES ASSUME NEW id \in Ids, NEW r \in Rows,
                        id < Following(drain).id
                          \/ (id = Following(drain).id /\ r < Following(drain).row)
                 PROVE  InPlace(<<"C", id, r>>)'
      OBVIOUS
    <3>1. <<"C", id, r>> \in AllRows
      BY DEF AllRows, TileRows
    <3>2. /\ id \in Nat /\ drain.id \in Nat /\ r \in 0 .. DIM - 1 /\ drain.row \in 0 .. DIM - 1
          /\ DIM \in Nat
      BY <1>1, SizesAssumption DEF Ids, Rows, Places
    <3>3. id < drain.id \/ (id = drain.id /\ r < drain.row) \/ (id = drain.id /\ r = drain.row)
      BY <3>2 DEF Following
    <3>4. InPlace(<<"C", id, r>>)
      BY <1>1, <1>4, <3>3 DEF DrainState
    <3>5. QED
      BY <1>6, <3>1, <3>4
  <2>3. QED
    BY <1>1, <1>2, <1>7, <2>1, <2>2 DEF DrainState
<1>10. QED
  BY <1>6, <1>8, <1>9 DEF ThreadsInv
-----------------------------------------------------------------------------
(* The other two controllers                                               *)

LEMMA LoadRowKeeps ==
  ASSUME ExecInv, NEW credit \in LoadCredits, LoadRow(credit)
  PROVE  ThreadsInv'
<1> DEFINE p == <<load, credit>>
<1>1. PICK x \in unloaded : /\ Request(p, x, x)
                            /\ load_tag' = [load_tag EXCEPT ![credit] = x]
                            /\ unloaded' = unloaded \ {x}
  BY DEF LoadRow
<1>2. /\ load_tag[credit] = NULL
      /\ UNCHANGED <<gemmVars, drainVars, storeVars>>
      /\ LoadState
  BY DEF LoadRow, ExecInv, ThreadsInv
<1>3. /\ load_tag \in [LoadCredits -> TileRows({"A", "B"}) \cup {NULL}]
      /\ x \in TileRows({"A", "B"}) /\ x \in AllRows
  BY <1>2 DEF LoadState, AllRows, TileRows
<1>4. p \in Payloads /\ Requested(p, x, x) /\ p[1] = load
  BY <1>1, SocketPayloads, RequestEffect
<1>5. \A q \in Payloads \ {p} : RowFor(q)' = RowFor(q)
  <2>1. SamePlace(gemm', gemm) /\ SamePlace(drain', drain) /\ SamePlace(mvout', mvout)
    BY <1>2 DEF SamePlace, gemmVars, drainVars, storeVars
  <2>2. \A q \in Payloads \ {p} : q[1] = load => q[2] \in LoadCredits /\ q[2] # credit
    BY PayloadIs
  <2>3. \A q \in Payloads \ {p} : q[1] = load => load_tag'[q[2]] = load_tag[q[2]]
    BY <1>1, <1>3, <2>2
  <2>4. QED
    BY <2>1, <2>3, RowForSame
<1>6. RowFor(p)' = x
  BY <1>1, <1>3, RowForNext
<1>7. /\ RequestInv'
      /\ \A q \in Payloads : Sent(q)' <=> Sent(q) \/ q = p
      /\ \A z \in AllRows : InPlace(z)' <=> InPlace(z)
      /\ \A q \in Payloads \ {p} : payload'[q] = payload[q]
  BY <1>3, <1>4, <1>5, <1>6, RequestKeeps DEF ExecInv, ThreadsInv, load, a, b, c, store
<1>8. <<a, 0>> # p /\ <<b, 0>> # p /\ <<c, 0>> # p
  BY DEF load, a, b, c
<1>9. /\ StayInPlace /\ SameRequest(<<a, 0>>) /\ SameRequest(<<b, 0>>) /\ SameRequest(<<c, 0>>)
  BY <1>7, <1>8, SocketPayloads DEF SameRequest, StayInPlace
<1> HIDE DEF p
<1>10. GemmState' /\ Fetched' /\ DrainState' /\ StoreState'
  BY <1>2, <1>9, GemmFrame, FetchedFrame, DrainFrame, StoreFrame DEF ExecInv, ThreadsInv
<1>11. LoadState'
  <2>1. unloaded' \subseteq TileRows({"A", "B"})
    BY <1>1, <1>2 DEF LoadState
  <2>2. load_tag' \in [LoadCredits -> TileRows({"A", "B"}) \cup {NULL}]
    BY <1>1, <1>3
  <2>3. ASSUME NEW y \in TileRows({"A", "B"})
        PROVE  y \in unloaded' \/ (\E d \in LoadCredits : load_tag'[d] = y) \/ InPlace(y)'
    <3>1. y \in AllRows /\ y # NULL
      BY <2>3, NullAssumption DEF AllRows, TileRows
    <3>2. y \in unloaded \/ (\E d \in LoadCredits : load_tag[d] = y) \/ InPlace(y)
      BY <1>2 DEF LoadState
    <3>3. load_tag'[credit] = x /\ \A d \in LoadCredits : d # credit => load_tag'[d] = load_tag[d]
      BY <1>1, <1>3
    <3>4. QED
      BY <1>1, <1>2, <1>7, <3>1, <3>2, <3>3
  <2>4. QED
    BY <2>1, <2>2, <2>3 DEF LoadState
<1>12. QED
  BY <1>7, <1>10, <1>11 DEF ThreadsInv

LEMMA StoreRowKeeps ==
  ASSUME ExecInv, StoreRow
  PROVE  ThreadsInv'
<1> DEFINE p == <<store, 0>>
<1>1. PICK x : x = <<"C", mvout.id, mvout.row>>
  OBVIOUS
<1>2. /\ mvout.id \in Ids /\ mvout.row \in Rows /\ mvout.id < drain.id
      /\ UNCHANGED <<gemmVars, drainVars, loadVars, storeVars>>
      /\ Request(p, x, payload[p].data)
  BY <1>1 DEF StoreRow, is_drain_complete, ExecInv, ThreadsInv, StoreState, Places
<1>3. x \in AllRows /\ InPlace(x)
  BY <1>1, <1>2 DEF AllRows, TileRows, ExecInv, ThreadsInv, DrainState
<1>4. p \in Payloads /\ Requested(p, x, payload[p].data) /\ p[1] = store
  BY <1>2, SocketPayloads, RequestEffect
<1>5. \A q \in Payloads : RowFor(q)' = RowFor(q)
  <2>1. /\ SamePlace(gemm', gemm) /\ SamePlace(drain', drain) /\ SamePlace(mvout', mvout)
        /\ load_tag' = load_tag
    BY <1>2 DEF SamePlace, gemmVars, drainVars, storeVars, loadVars
  <2>2. QED
    BY <2>1, RowForSame
<1>6. RowFor(p)' = x
  BY <1>1, <1>4, <1>5, RowForIs
<1>7. /\ RequestInv'
      /\ \A q \in Payloads : Sent(q)' <=> Sent(q) \/ q = p
      /\ \A z \in AllRows : InPlace(z)' <=> InPlace(z)
      /\ \A q \in Payloads \ {p} : payload'[q] = payload[q]
  BY <1>3, <1>4, <1>5, <1>6, RequestKeeps DEF ExecInv, ThreadsInv, load, a, b, c, store
<1>8. <<a, 0>> # p /\ <<b, 0>> # p /\ <<c, 0>> # p
  BY DEF store, a, b, c
<1>9. /\ StayInPlace /\ SameRequest(<<a, 0>>) /\ SameRequest(<<b, 0>>) /\ SameRequest(<<c, 0>>)
  BY <1>7, <1>8, SocketPayloads DEF SameRequest, StayInPlace
<1>10. QED
  BY <1>2, <1>7, <1>9, LoadFrame, GemmFrame, FetchedFrame, DrainFrame, StoreFrame
     DEF ExecInv, ThreadsInv
-----------------------------------------------------------------------------
(* The banks                                                               *)

(* What an answer to p leaves, whoever sent p                              *)
LEMMA AnsweredRequest ==
  ASSUME ExecInv, NEW k \in Banks, NEW p, Answered(k, p),
         \A q \in Payloads \ {p} : RowFor(q)' = RowFor(q)
  PROVE  /\ p \in Payloads /\ Sent(p) /\ RequestInv' /\ StayInPlace
         /\ RowFor(p) \in AllRows /\ InPlace(RowFor(p)) /\ payload[p].data = RowFor(p)
         /\ ~ Sent(p)' /\ payload' = payload
         /\ \A q \in Payloads : q # p => SameRequest(q)
<1>1. p \in Payloads /\ Sent(p)
  BY DEF Answered
<1>2. /\ RequestInv'
      /\ RowFor(p) \in AllRows /\ InPlace(RowFor(p)) /\ payload[p].data = RowFor(p)
      /\ \A q \in Payloads : Sent(q)' <=> Sent(q) /\ q # p
      /\ \A x \in AllRows : InPlace(x)' <=> InPlace(x)
      /\ payload' = payload
  BY AnswerKeeps DEF ExecInv, ThreadsInv
<1>3. QED
  BY <1>1, <1>2 DEF StayInPlace, SameRequest

LEMMA AnswerToGemm ==
  ASSUME ExecInv, NEW k \in Banks, NEW p, Answered(k, p), gemm.step # "b_request",
         p[1] = a \/ p[1] = b,
         p[1] = a => a_done' = TRUE /\ b_done' = b_done,
         p[1] = b => b_done' = TRUE /\ a_done' = a_done,
         UNCHANGED <<gemm, waits_for, a_out, b_out, drainVars, loadVars, storeVars>>
  PROVE  ThreadsInv'
<1>1. /\ SamePlace(gemm', gemm) /\ SamePlace(drain', drain) /\ SamePlace(mvout', mvout)
      /\ load_tag' = load_tag
  BY DEF SamePlace, drainVars, storeVars, loadVars
<1>2. /\ p \in Payloads /\ Sent(p) /\ RequestInv' /\ StayInPlace
      /\ payload[p].data = RowFor(p)
      /\ ~ Sent(p)' /\ payload' = payload
      /\ \A q \in Payloads : q # p => SameRequest(q)
  BY <1>1, AnsweredRequest, RowForSame
<1>3. (p = <<a, 0>> /\ p[1] # b) \/ (p = <<b, 0>> /\ p[1] # a)
  BY <1>2, PayloadIs DEF load, a, b
<1>4. p # <<c, 0>> /\ <<a, 0>> # <<b, 0>>
  BY <1>3 DEF a, b, c
<1>5. SameRequest(<<c, 0>>)
  BY <1>2, <1>4, SocketPayloads
<1>6. LoadState' /\ DrainState' /\ StoreState'
  BY <1>2, <1>5, LoadFrame, DrainFrame, StoreFrame DEF ExecInv, ThreadsInv
<1>7. Fetched'
  BY DEF ExecInv, ThreadsInv, Fetched, Through, Done
<1>8. GemmState /\ Places(gemm)'
  BY DEF ExecInv, ThreadsInv, GemmState, Places
<1>9. CASE p = <<a, 0>>
  <2>1. SameRequest(<<b, 0>>) /\ Sent(<<a, 0>>) /\ ~ Sent(<<a, 0>>)'
    BY <1>2, <1>4, <1>9, SocketPayloads
  <2>2. payload[<<a, 0>>].data = <<"A", gemm.id, gemm.row>>
    BY <1>2, <1>9, RowForIs
  <2>3. "a_done" \in waits_for
    BY <1>8, <2>1 DEF GemmState
  <2>4. a_done' = TRUE /\ b_done' = b_done
    BY <1>3, <1>9
  <2>5. QED
    BY <1>2, <1>8, <2>1, <2>2, <2>3, <2>4, <1>6, <1>7 DEF GemmState, SameRequest, ThreadsInv
<1>10. CASE p = <<b, 0>>
  <2>1. SameRequest(<<a, 0>>) /\ Sent(<<b, 0>>) /\ ~ Sent(<<b, 0>>)'
    BY <1>2, <1>4, <1>10, SocketPayloads
  <2>2. payload[<<b, 0>>].data = <<"B", gemm.id, gemm.row>>
    BY <1>2, <1>10, RowForIs
  <2>3. "b_done" \in waits_for
    BY <1>8, <2>1 DEF GemmState
  <2>4. b_done' = TRUE /\ a_done' = a_done
    BY <1>3, <1>10
  <2>5. QED
    BY <1>2, <1>8, <2>1, <2>2, <2>3, <2>4, <1>6, <1>7 DEF GemmState, SameRequest, ThreadsInv
<1>11. QED
  BY <1>3, <1>9, <1>10

LEMMA AnswerToDrain ==
  ASSUME ExecInv, NEW k \in Banks, NEW p, Answered(k, p), p[1] = c,
         c_done' = TRUE, UNCHANGED <<drain, gemmVars, loadVars, storeVars>>
  PROVE  ThreadsInv'
<1>1. /\ SamePlace(gemm', gemm) /\ SamePlace(drain', drain) /\ SamePlace(mvout', mvout)
      /\ load_tag' = load_tag
  BY DEF SamePlace, gemmVars, storeVars, loadVars
<1>2. /\ p \in Payloads /\ Sent(p) /\ RequestInv' /\ StayInPlace
      /\ RowFor(p) \in AllRows /\ InPlace(RowFor(p))
      /\ ~ Sent(p)' /\ payload' = payload
      /\ \A q \in Payloads : q # p => SameRequest(q)
  BY <1>1, AnsweredRequest, RowForSame
<1>3. p = <<c, 0>>
  BY <1>2, PayloadIs DEF load, c
<1>4. p # <<a, 0>> /\ p # <<b, 0>>
  BY <1>3 DEF a, b, c
<1>5. SameRequest(<<a, 0>>) /\ SameRequest(<<b, 0>>)
  BY <1>2, <1>4, SocketPayloads
<1>6. LoadState' /\ GemmState' /\ Fetched' /\ StoreState'
  BY <1>2, <1>5, LoadFrame, GemmFrame, FetchedFrame, StoreFrame DEF ExecInv, ThreadsInv
<1>7. DrainState'
  <2>1. DrainState /\ Places(drain)' /\ drain.step = "c_done" /\ drain.id \in Ids
    BY <1>2, <1>3 DEF ExecInv, ThreadsInv, DrainState, Places
  <2>2. PICK x : x = <<"C", drain.id, drain.row>>
    OBVIOUS
  <2>3. x \in AllRows /\ InPlace(x)
    BY <1>2, <1>3, <2>2, RowForIs
  <2>4. InPlace(x)' /\ x = <<"C", drain'.id, drain'.row>>
    BY <1>2, <2>2, <2>3 DEF StayInPlace
  <2>5. InPlace(<<"C", drain.id, drain.row>>)'
    BY <2>4 DEF InPlace
  <2>6. \A id \in Ids, r \in Rows : <<"C", id, r>> \in AllRows
    BY DEF AllRows, TileRows
  <2>7. \A id \in Ids, r \in Rows :
          id < drain.id \/ (id = drain.id /\ r < drain.row) => InPlace(<<"C", id, r>>)'
    BY <1>2, <2>1, <2>6 DEF DrainState, StayInPlace
  <2>8. QED
    BY <1>2, <1>3, <2>1, <2>5, <2>7 DEF DrainState
<1>8. QED
  BY <1>2, <1>6, <1>7 DEF ThreadsInv

LEMMA AnswerToLoad ==
  ASSUME ExecInv, NEW k \in Banks, NEW p, Answered(k, p), p[1] = load,
         load_tag' = [load_tag EXCEPT ![p[2]] = NULL],
         UNCHANGED <<unloaded, gemmVars, drainVars, storeVars>>
  PROVE  ThreadsInv'
<1>1. SamePlace(gemm', gemm) /\ SamePlace(drain', drain) /\ SamePlace(mvout', mvout)
  BY DEF SamePlace, gemmVars, storeVars, drainVars
<1>2. /\ p \in Payloads /\ p = <<load, p[2]>> /\ p[2] \in LoadCredits
      /\ load_tag \in [LoadCredits -> TileRows({"A", "B"}) \cup {NULL}]
  BY PayloadIs DEF Answered, ExecInv, ThreadsInv, LoadState
<1>3. \A q \in Payloads \ {p} : RowFor(q)' = RowFor(q)
  <2>1. \A q \in Payloads \ {p} : q[1] = load => q[2] \in LoadCredits /\ q[2] # p[2]
    BY <1>2, PayloadIs
  <2>2. \A q \in Payloads \ {p} : q[1] = load => load_tag'[q[2]] = load_tag[q[2]]
    BY <1>2, <2>1
  <2>3. QED
    BY <1>1, <2>2, RowForSame
<1>4. /\ RequestInv' /\ StayInPlace
      /\ RowFor(p) \in AllRows /\ InPlace(RowFor(p))
      /\ \A q \in Payloads : q # p => SameRequest(q)
  BY <1>3, AnsweredRequest
<1>5. p # <<a, 0>> /\ p # <<b, 0>> /\ p # <<c, 0>>
  BY <1>2 DEF load, a, b, c
<1>6. SameRequest(<<a, 0>>) /\ SameRequest(<<b, 0>>) /\ SameRequest(<<c, 0>>)
  BY <1>4, <1>5, SocketPayloads
<1>7. GemmState' /\ Fetched' /\ DrainState' /\ StoreState'
  BY <1>4, <1>6, GemmFrame, FetchedFrame, DrainFrame, StoreFrame DEF ExecInv, ThreadsInv
<1>8. LoadState'
  <2>1. LoadState
    BY DEF ExecInv, ThreadsInv
  <2>2. PICK x : x = load_tag[p[2]]
    OBVIOUS
  <2>3. x \in AllRows /\ InPlace(x)'
    BY <1>2, <1>4, <2>2, RowForIs DEF StayInPlace
  <2>4. load_tag' \in [LoadCredits -> TileRows({"A", "B"}) \cup {NULL}]
    BY <1>2
  <2>5. ASSUME NEW y \in TileRows({"A", "B"})
        PROVE  y \in unloaded' \/ (\E d \in LoadCredits : load_tag'[d] = y) \/ InPlace(y)'
    <3>1. y \in AllRows
      BY DEF AllRows, TileRows
    <3>2. y \in unloaded \/ (\E d \in LoadCredits : load_tag[d] = y) \/ InPlace(y)
      BY <2>1 DEF LoadState
    <3>3. \A d \in LoadCredits : d # p[2] => load_tag'[d] = load_tag[d]
      BY <1>2
    <3>4. InPlace(y) => InPlace(y)'
      BY <1>4, <3>1 DEF StayInPlace
    <3>5. ASSUME NEW d \in LoadCredits, load_tag[d] = y
          PROVE  (\E e \in LoadCredits : load_tag'[e] = y) \/ InPlace(y)'
      BY <2>2, <2>3, <3>3, <3>5
    <3>6. QED
      BY <3>2, <3>4, <3>5
  <2>6. QED
    BY <2>1, <2>4, <2>5 DEF LoadState
<1>9. QED
  BY <1>4, <1>7, <1>8 DEF ThreadsInv

LEMMA AnswerToStore ==
  ASSUME ExecInv, NEW k \in Banks, NEW p, Answered(k, p), p[1] = store,
         stored' = Append(stored, payload[p].data),
         mvout' = IF mvout.row + 1 < DIM THEN [mvout EXCEPT !.row = @ + 1]
                                         ELSE [id |-> mvout.id + 1, row |-> 0],
         UNCHANGED <<gemmVars, drainVars, loadVars>>
  PROVE  ThreadsInv'
<1>1. SamePlace(gemm', gemm) /\ SamePlace(drain', drain) /\ load_tag' = load_tag
  BY DEF SamePlace, gemmVars, loadVars, drainVars
<1>2. p \in Payloads /\ p = <<store, 0>>
  BY PayloadIs DEF Answered, load, store
<1>3. \A q \in Payloads \ {p} : RowFor(q)' = RowFor(q)
  <2>1. \A q \in Payloads \ {p} : q[1] # store
    BY <1>2, PayloadIs DEF load, store
  <2>2. QED
    BY <1>1, <2>1, RowForSame
<1>4. /\ RequestInv' /\ StayInPlace
      /\ RowFor(p) \in AllRows /\ payload[p].data = RowFor(p)
      /\ \A q \in Payloads : q # p => SameRequest(q)
  BY <1>3, AnsweredRequest
<1>5. p # <<a, 0>> /\ p # <<b, 0>> /\ p # <<c, 0>>
  BY <1>2 DEF store, a, b, c
<1>6. SameRequest(<<a, 0>>) /\ SameRequest(<<b, 0>>) /\ SameRequest(<<c, 0>>)
  BY <1>4, <1>5, SocketPayloads
<1>7. LoadState' /\ GemmState' /\ Fetched' /\ DrainState'
  BY <1>4, <1>6, LoadFrame, GemmFrame, FetchedFrame, DrainFrame DEF ExecInv, ThreadsInv
<1>8. StoreState'
  <2>1. /\ mvout = [id |-> mvout.id, row |-> mvout.row] /\ Places(mvout)
        /\ Through(stored, "C", Done(mvout))
    BY DEF ExecInv, ThreadsInv, StoreState
  <2>2. PICK x : x = payload[p].data
    OBVIOUS
  <2>3. x \in AllRows /\ x = <<"C", mvout.id, mvout.row>>
    BY <1>2, <1>4, <2>2, RowForIs
  <2>4. Through(stored', "C", Done(mvout) + 1)
    BY <2>1, <2>2, <2>3, AppendNth
  <2>5. mvout' = [id |-> Following(mvout).id, row |-> Following(mvout).row]
    <3>1. PICK i, r : i = mvout.id /\ r = mvout.row
      OBVIOUS
    <3>2. mvout = [id |-> i, row |-> r]
      BY <2>1, <3>1
    <3>3. CASE r + 1 < DIM
      <4>1. mvout' = [mvout EXCEPT !.row = r + 1]
        BY <3>1, <3>3
      <4>2. mvout' = [id |-> i, row |-> r + 1]
        BY <3>2, <4>1
      <4>3. QED
        BY <3>1, <3>3, <4>2 DEF Following
    <3>4. CASE ~ (r + 1 < DIM)
      BY <3>1, <3>4 DEF Following
    <3>5. QED
      BY <3>3, <3>4
  <2>6. Places(Following(mvout)) /\ Done(Following(mvout)) = Done(mvout) + 1
    BY <2>1, InOrder
  <2>7. Places(mvout)' /\ Done(mvout') = Done(mvout) + 1
    BY <2>5, <2>6 DEF Places, Done
  <2>8. mvout' = [id |-> mvout'.id, row |-> mvout'.row]
    BY <2>5
  <2>9. QED
    BY <2>4, <2>7, <2>8 DEF StoreState, Through
<1>9. QED
  BY <1>4, <1>7, <1>8 DEF ThreadsInv

LEMMA BankDoneKeeps ==
  ASSUME ExecInv, NEW k \in Banks, BankDone(k)
  PROVE  ThreadsInv'
<1>1. PICK p : p = bank_thread[k]
  OBVIOUS
<1>2. Answered(k, p) /\ Answer(p)
  BY <1>1, AnswerEffect DEF ExecInv
<1>3. gemm.step # "b_request"
  BY DEF BankDone, Yielded
<1>4. a # b /\ a # c /\ a # load /\ a # store /\ b # c /\ b # load /\ b # store
  BY DEF a, b, c, load, store
<1>5. CASE p[1] = a /\ a_done' = TRUE
           /\ UNCHANGED <<gemm, waits_for, b_done, a_out, b_out, drainVars, loadVars, storeVars>>
  BY <1>2, <1>3, <1>4, <1>5, AnswerToGemm
<1>6. CASE p[1] = b /\ b_done' = TRUE
           /\ UNCHANGED <<gemm, waits_for, a_done, a_out, b_out, drainVars, loadVars, storeVars>>
  BY <1>2, <1>3, <1>4, <1>6, AnswerToGemm
<1>7. CASE p[1] = c /\ c_done' = TRUE /\ UNCHANGED <<drain, gemmVars, loadVars, storeVars>>
  BY <1>2, <1>7, AnswerToDrain
<1>8. CASE /\ p[1] = load /\ load_tag' = [load_tag EXCEPT ![p[2]] = NULL]
           /\ UNCHANGED <<unloaded, gemmVars, drainVars, storeVars>>
  BY <1>2, <1>8, AnswerToLoad
<1>9. CASE /\ p[1] = store /\ stored' = Append(stored, payload[p].data)
           /\ mvout' = IF mvout.row + 1 < DIM THEN [mvout EXCEPT !.row = @ + 1]
                                              ELSE [id |-> mvout.id + 1, row |-> 0]
           /\ UNCHANGED <<gemmVars, drainVars, loadVars>>
  BY <1>2, <1>9, AnswerToStore
<1>10. QED
  BY <1>2, <1>5, <1>6, <1>7, <1>8, <1>9 DEF Answer

LEMMA BankStepKeeps ==
  ASSUME ExecInv, NEW k \in Banks, BankStep(k)
  PROVE  ThreadsInv'
<1>1. UNCHANGED <<gemmVars, drainVars, loadVars, storeVars>>
  BY DEF BankStep
<1>2. \A q \in Payloads : RowFor(q)' = RowFor(q)
  <2>1. /\ SamePlace(gemm', gemm) /\ SamePlace(drain', drain) /\ SamePlace(mvout', mvout)
        /\ load_tag' = load_tag
    BY <1>1 DEF SamePlace, gemmVars, drainVars, storeVars, loadVars
  <2>2. QED
    BY <2>1, RowForSame
<1>3. RequestInv' /\ StayInPlace /\ \A q \in Payloads : SameRequest(q)
  <2>1. CASE Arbiter!BankAccess(k)
    <3>1. PICK p : p = bank_to_payload[k]
      OBVIOUS
    <3>2. Accesses(k, p)
      BY <2>1, <3>1, AccessEffect DEF ExecInv
    <3>3. QED
      BY <1>2, <3>2, AccessKeeps DEF ExecInv, ThreadsInv, StayInPlace, SameRequest
  <2>2. CASE Arbiter!ForwardPending(k)
    <3>1. UNCHANGED busVars
      BY <2>2, ForwardEffect
    <3>2. QED
      BY <1>2, <3>1, OthersKeep DEF ExecInv, ThreadsInv, StayInPlace, SameRequest
  <2>3. QED
    BY <2>1, <2>2 DEF BankStep
<1>4. QED
  BY <1>1, <1>3, SocketPayloads, LoadFrame, GemmFrame, FetchedFrame, DrainFrame, StoreFrame
     DEF ExecInv, ThreadsInv
-----------------------------------------------------------------------------
(* The threads are initiators as MemoryArbiter has them, so its invariants *)
(* hold here.                                                              *)
LEMMA RequestIsArbiters ==
  ASSUME ArbiterInv, NEW p \in Payloads, NEW row \in AllRows, NEW data \in AnyData,
         Request(p, row, data)
  PROVE  Proved!Next
<1>1. /\ p[1] \in Proved!Initiators /\ AddrOf(row) \in Proved!FlatAddrs
      /\ data \in TileRows({"A", "B", "C"}) \cup {ZeroRow}
  BY PayloadIs, RowPlace DEF Proved!Initiators, Proved!FlatAddrs, FlatAddrs, AnyData, AllRows,
     load, store, a, b, c
<1>2. Proved!Request(p[1], p, AddrOf(row), data)
  BY ArbiterSame DEF Request
<1>3. QED
  BY <1>1, <1>2 DEF Proved!Next

LEMMA ArbiterStep ==
  ASSUME ExecInv, [Next]_vars
  PROVE  [Proved!Next]_Proved!vars
<1> USE DEF ExecInv, ThreadsInv
<1>1. \A p \in Payloads : payload[p].data \in AnyData
  BY ArbiterTypes DEF ArbiterInv, AnyData
<1>2. CASE RequestA
  <2>1. <<"A", gemm.id, gemm.row>> \in AllRows
    BY <1>2 DEF RequestA, GemmState, Places, AllRows, TileRows
  <2>2. QED
    BY <1>1, <1>2, <2>1, SocketPayloads, RequestIsArbiters DEF RequestA
<1>3. CASE RequestB
  <2>1. <<"B", gemm.id, gemm.row>> \in AllRows
    BY <1>3 DEF RequestB, GemmState, Places, AllRows, TileRows
  <2>2. QED
    BY <1>1, <1>3, <2>1, SocketPayloads, RequestIsArbiters DEF RequestB
<1>4. CASE DrainRow
  <2>1. <<"C", drain.id, drain.row>> \in AllRows /\ <<"C", drain.id, drain.row>> \in AnyData
    BY <1>4 DEF DrainRow, DrainState, Places, AllRows, TileRows, AnyData
  <2>2. QED
    BY <1>4, <2>1, SocketPayloads, RequestIsArbiters DEF DrainRow
<1>5. CASE StoreRow
  <2>1. <<"C", mvout.id, mvout.row>> \in AllRows
    BY <1>5 DEF StoreRow, StoreState, Places, AllRows, TileRows
  <2>2. QED
    BY <1>1, <1>5, <2>1, SocketPayloads, RequestIsArbiters DEF StoreRow
<1>6. ASSUME NEW credit \in LoadCredits, LoadRow(credit) PROVE Proved!Next
  <2>1. PICK x \in unloaded : Request(<<load, credit>>, x, x)
    BY <1>6 DEF LoadRow
  <2>2. x \in AllRows /\ x \in AnyData
    BY DEF LoadState, AllRows, TileRows, AnyData
  <2>3. QED
    BY <2>1, <2>2, SocketPayloads, RequestIsArbiters
<1>7. CASE GemmStep \/ DrainNext
  BY <1>7, ArbiterSame DEF GemmStep, DrainNext
<1>8. ASSUME NEW k \in Banks, BankDone(k) \/ BankStep(k) PROVE Proved!Next
  <2>1. Proved!BankStep(k)
    BY <1>8, ArbiterSame DEF BankDone, BankStep, Proved!BankStep
  <2>2. k \in Proved!Banks
    BY DEF Banks, Proved!Banks
  <2>3. QED
    BY <2>1, <2>2 DEF Proved!Next
<1>9. CASE UNCHANGED vars
  BY <1>9, ArbiterSame DEF vars
<1>10. QED
  BY <1>2, <1>3, <1>4, <1>5, <1>6, <1>7, <1>8, <1>9 DEF Next

LEMMA ArbiterKeeps ==
  ASSUME ExecInv, [Next]_vars
  PROVE  ArbiterInv'
<1>1. [Proved!Next]_Proved!vars
  BY ArbiterStep
<1>2. Proved!HandshakeInv'
  BY <1>1, ArbiterAssumptions, Proved!HandshakeInductive DEF ArbiterInv, ExecInv
<1>3. Proved!HeldInv'
  BY <1>1, <1>2, ArbiterAssumptions, Proved!HeldInductive DEF ArbiterInv, ExecInv
<1>4. QED
  BY <1>2, <1>3 DEF ArbiterInv
-----------------------------------------------------------------------------
LEMMA ExecInitially == Init => ExecInv
<1> SUFFICES ASSUME Init PROVE ExecInv
  OBVIOUS
<1>1. ArbiterInv /\ \A p \in Payloads : ~ Sent(p)
  <2>1. Proved!Init
    BY ArbiterSame DEF Init
  <2>2. Proved!HandshakeInv /\ Proved!HeldInv
    BY <2>1, ArbiterAssumptions, Proved!InitHandshake, Proved!InitHeld
  <2>3. outstanding = {}
    BY <2>1 DEF Proved!Init
  <2>4. QED
    BY <2>2, <2>3 DEF ArbiterInv, Sent
<1>2. RequestInv
  BY <1>1 DEF RequestInv
<1>3. ~ Sent(<<a, 0>>) /\ ~ Sent(<<b, 0>>) /\ ~ Sent(<<c, 0>>)
  BY <1>1, SocketPayloads
<1>4. /\ gemm = [id |-> 1, row |-> 0, step |-> "a_request"]
      /\ drain = [id |-> 1, row |-> 0, step |-> "c_in"]
      /\ mvout = [id |-> 1, row |-> 0]
      /\ waits_for = {} /\ a_done = FALSE /\ b_done = FALSE /\ c_done = FALSE
      /\ a_out = << >> /\ b_out = << >> /\ stored = << >>
      /\ unloaded = TileRows({"A", "B"})
      /\ load_tag = [credit \in LoadCredits |-> NULL]
  BY DEF Init
<1>5. /\ Places(gemm) /\ Places(drain) /\ Places(mvout)
      /\ Done(gemm) = 0 /\ Done(mvout) = 0
  BY <1>4, SizesAssumption DEF Places, Rows, Done
<1>6. \A matrix : Through(<< >>, matrix, 0)
  BY EmptySeq DEF Through
<1>7. LoadState
  BY <1>4 DEF LoadState
<1>8. GemmState
  BY <1>3, <1>4, <1>5 DEF GemmState
<1>9. Fetched
  BY <1>4, <1>5, <1>6 DEF Fetched
<1>10. DrainState
  <2>1. \A id \in Ids, r \in Rows : ~ (id < drain.id \/ (id = drain.id /\ r < drain.row))
    BY <1>4, SizesAssumption DEF Ids, Rows
  <2>2. QED
    BY <1>3, <1>4, <1>5, <2>1 DEF DrainState
<1>11. StoreState
  BY <1>4, <1>5, <1>6 DEF StoreState
<1>12. QED
  BY <1>1, <1>2, <1>7, <1>8, <1>9, <1>10, <1>11 DEF ExecInv, ThreadsInv

LEMMA ExecInductive == ExecInv /\ [Next]_vars => ExecInv'
<1> SUFFICES ASSUME ExecInv, [Next]_vars PROVE ThreadsInv'
  BY ArbiterKeeps DEF ExecInv
<1>1. CASE RequestA
  BY <1>1, RequestAKeeps
<1>2. CASE RequestB
  BY <1>2, RequestBKeeps
<1>3. CASE GemmStep
  BY <1>3, FireKeeps, WriteAKeeps, WriteBKeeps DEF GemmStep
<1>4. CASE DrainRow
  BY <1>4, DrainRowKeeps
<1>5. CASE DrainNext
  BY <1>5, DrainNextKeeps
<1>6. ASSUME NEW credit \in LoadCredits, LoadRow(credit) PROVE ThreadsInv'
  BY <1>6, LoadRowKeeps
<1>7. CASE StoreRow
  BY <1>7, StoreRowKeeps
<1>8. ASSUME NEW k \in Banks, BankDone(k) PROVE ThreadsInv'
  BY <1>8, BankDoneKeeps
<1>9. ASSUME NEW k \in Banks, BankStep(k) PROVE ThreadsInv'
  BY <1>9, BankStepKeeps
<1>10. CASE UNCHANGED vars
  <2>1. UNCHANGED <<gemmVars, drainVars, loadVars, storeVars, arbiterVars>>
    BY <1>10 DEF vars
  <2>2. SamePlace(gemm', gemm)
    BY <2>1 DEF gemmVars, SamePlace
  <2>3. /\ RequestInv' /\ LoadState' /\ DrainState' /\ StoreState'
        /\ (Sent(<<a, 0>>)' <=> Sent(<<a, 0>>)) /\ (Sent(<<b, 0>>)' <=> Sent(<<b, 0>>))
        /\ \A z \in AllRows : InPlace(z)' <=> InPlace(z)
        /\ payload' = payload
    BY <2>1, <2>2, QuietGemm DEF ExecInv
  <2>4. StayInPlace /\ SameRequest(<<a, 0>>) /\ SameRequest(<<b, 0>>)
    BY <2>3 DEF StayInPlace, SameRequest
  <2>5. QED
    BY <2>1, <2>3, <2>4, GemmFrame, FetchedFrame DEF ExecInv, ThreadsInv
<1>11. QED
  BY <1>1, <1>2, <1>3, <1>4, <1>5, <1>6, <1>7, <1>8, <1>9, <1>10 DEF Next

(* In every state a request under way is for the row its thread is at, a   *)
(* row is where the tile's address says once it was written, and an event  *)
(* is pending only for a thread that waits for it (exec_controller.cpp,    *)
(* gemm_thread, drain_thread and the three nb_transport_bw).               *)
THEOREM ExecInvariant == Spec => []ExecInv
  BY ExecInitially, ExecInductive, PTL DEF Spec

(* gemm_thread hands on the rows it asked for, in program order and in     *)
(* pairs, for any number of banks, gemms and rows, wherever the tiles lie  *)
(* and in whatever order the banks answer.                                 *)
THEOREM RowsAlwaysPaired == Spec => []RowsPaired
<1>1. ExecInv => RowsPaired
  BY DEF ExecInv, ThreadsInv, Fetched, Through, RowsPaired
<1>2. QED
  BY <1>1, ExecInvariant, PTL

(* What an mvout reads after its drain is complete are the rows drained,   *)
(* each in its place: c_done is never notified before the bank has written *)
(* (drain_thread, is_drain_complete).                                      *)
THEOREM StoresAlwaysDrained == Spec => []StoresDrainedRows
<1>1. ExecInv => StoresDrainedRows
  BY DEF ExecInv, ThreadsInv, StoreState, Through, StoresDrainedRows
<1>2. QED
  BY <1>1, ExecInvariant, PTL

(* No bank of the scratchpad reports a conflict, and its requests are held *)
(* once, with the exec controller's three sockets among the initiators.    *)
THEOREM ExecArbiter ==
  Spec => /\ []Proved!NoBankConflict
          /\ []Proved!PayloadsHeldOnce
<1>1. ExecInv => Proved!NoBankConflict
  BY DEF ExecInv, ArbiterInv, Proved!HandshakeInv
<1>2. ExecInv => Proved!PayloadsHeldOnce
  BY Proved!HeldSuffices, ArbiterAssumptions DEF ExecInv, ArbiterInv
<1>3. QED
  BY <1>1, <1>2, ExecInvariant, PTL
=============================================================================
