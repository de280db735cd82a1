-------------------------- MODULE TiledGemm_proofs --------------------------
(***************************************************************************)
(* Theorems about TiledGemm, for every size of matrices, tiles and         *)
(* scratchpad.                                                             *)
(*                                                                         *)
(* A tile's rows are a slot's, and slots are cut so that their rows never  *)
(* meet.  What acquire may rely on, whatever was taken and evicted before, *)
(* is AllocOK: no two resident tiles are in one slot, the slots nobody is  *)
(* in are those the vectors hold, and the list names the residents, each   *)
(* once.                                                                   *)
(*                                                                         *)
(* That the loop computes the product is GemmInv.  Between two passes, and *)
(* at each point of one, it says which tiles of A and B are in their       *)
(* slots, which products the psum buffers hold together with what the      *)
(* array has still to push into them, and which tiles of C are in DRAM.    *)
(***************************************************************************)
EXTENDS TiledGemm, FiniteSetTheorems, FunctionTheorems, SequenceTheorems, TLAPS

(* Division, and the least and the greatest of a set of numbers *)

LEMMA Division ==
  ASSUME NEW x \in Nat, NEW n \in Nat \ {0}
  PROVE  /\ x \div n \in Nat /\ x % n \in 0 .. n - 1
         /\ x = n * (x \div n) + (x % n)
  BY Z3

LEMMA ProductOrder ==
  ASSUME NEW n \in Nat, NEW x \in Int, NEW y \in Int, x <= y
  PROVE  x * n \in Int /\ y * n \in Int /\ x * n <= y * n
  BY Z3

(* Quotient and remainder are unique. *)
LEMMA UniqueDivision ==
  ASSUME NEW n \in Nat \ {0}, NEW p \in Nat, NEW q \in Nat,
         NEW r \in 0 .. n - 1, NEW s \in 0 .. n - 1, p * n + r = q * n + s
  PROVE  p = q /\ r = s
<1>1. p * n \in Nat /\ q * n \in Nat /\ (p + 1) * n = p * n + n /\ (q + 1) * n = q * n + n
  BY Z3
<1>2. CASE p < q
  <2>1. (p + 1) * n <= q * n
    BY <1>2, ProductOrder
  <2>2. QED
    BY <1>1, <2>1
<1>3. CASE q < p
  <2>1. (q + 1) * n <= p * n
    BY <1>3, ProductOrder
  <2>2. QED
    BY <1>1, <2>1
<1>4. CASE p = q
  BY <1>1, <1>4
<1>5. QED
  BY <1>2, <1>3, <1>4

LEMMA QuotientOf ==
  ASSUME NEW n \in Nat \ {0}, NEW q \in Nat, NEW r \in 0 .. n - 1
  PROVE  /\ q * n + r \in Nat
         /\ (q * n + r) \div n = q /\ (q * n + r) % n = r
<1> DEFINE x == q * n + r
<1>1. x \in Nat
  BY Z3
<1>2. x \div n \in Nat /\ x % n \in 0 .. n - 1 /\ x = n * (x \div n) + (x % n)
  BY <1>1, Division
<1>3. n * (x \div n) = (x \div n) * n
  BY <1>2, Z3
<1>4. q * n + r = (x \div n) * n + (x % n)
  BY <1>2, <1>3
<1> HIDE DEF x
<1>5. x \div n = q /\ x % n = r
  BY <1>2, <1>4, UniqueDivision
<1>6. QED
  BY <1>1, <1>5 DEF x

LEMMA FiniteInjection ==
  ASSUME NEW U, NEW f \in Injection(U, U), IsFiniteSet(U)
  PROVE  f \in Surjection(U, U)
  BY FS_Injection

(* A set of numbers has a least one: otherwise the successor function would *)
(* map the numbers below it into, but not onto, themselves.                 *)
LEMMA LeastNumber ==
  ASSUME NEW T \in SUBSET Nat, T # {}
  PROVE  \E m \in T : \A k \in T : m <= k
<1> SUFFICES ASSUME \A m \in T : \E k \in T : k < m PROVE FALSE
  OBVIOUS
<1>1. PICK N \in T : TRUE
  OBVIOUS
<1> DEFINE U == {u \in 0 .. N : \A k \in 0 .. u : k \notin T}
           next == [u \in U |-> u + 1]
<1>2. IsFiniteSet(0 .. N)
  BY FS_Interval
<1>3. IsFiniteSet(U)
  BY <1>2, FS_Subset
<1>4. 0 \in U
  <2>1. 0 \notin T
    OBVIOUS
  <2>2. QED
    BY <2>1
<1>5. ASSUME NEW u \in U PROVE u + 1 \in U
  <2>1. u + 1 \notin T
    <3> SUFFICES ASSUME u + 1 \in T PROVE FALSE
      OBVIOUS
    <3>1. PICK k \in T : k < u + 1
      OBVIOUS
    <3>2. k \in 0 .. u
      BY <3>1
    <3>3. QED
      BY <3>2
  <2>2. u # N
    BY <1>1
  <2>3. QED
    BY <2>1, <2>2
<1>6. next \in Injection(U, U)
  <2>1. next \in [U -> U]
    BY <1>5
  <2>2. \A u, v \in U : next[u] = next[v] => u = v
    OBVIOUS
  <2> HIDE DEF next, U
  <2>3. QED
    BY <2>1, <2>2, Fun_IsInj
<1> HIDE DEF next, U
<1>7. next \in Surjection(U, U)
  BY <1>3, <1>6, FiniteInjection
<1>8. \E u \in U : next[u] = 0
  BY <1>4, <1>7, Fun_SurjectionProperties
<1>9. QED
  BY <1>8 DEF next, U

LEMMA GreatestNumber ==
  ASSUME NEW T, NEW N \in Nat, T \subseteq 0 .. N, T # {}
  PROVE  \E m \in T : \A k \in T : k <= m
<1> DEFINE U == {N - t : t \in T}
<1>1. U \in SUBSET Nat /\ U # {}
  <2>1. \A t \in T : N - t \in Nat
    OBVIOUS
  <2>2. QED
    BY <2>1
<1>2. PICK u \in U : \A k \in U : u <= k
  <2> HIDE DEF U
  <2> QED
    BY <1>1, LeastNumber
<1>3. PICK m \in T : u = N - m
  OBVIOUS
<1>4. ASSUME NEW k \in T PROVE k <= m
  <2>1. N - k \in U
    OBVIOUS
  <2>2. QED
    BY <1>2, <1>3, <2>1
<1>5. QED
  BY <1>4
-----------------------------------------------------------------------------
(* Slots *)

StrideSlots == Slots(spad_stride)
Chunks == spad_capacity \div (DIM * spad_stride)

LEMMA Strides ==
  /\ spad_stride \in Nat \ {0} /\ N_BANKS = spad_stride
  /\ DIM * spad_stride \in Nat \ {0} /\ spad_capacity \in Nat
  /\ Chunks \in Nat /\ Chunks * (DIM * spad_stride) <= spad_capacity
<1>1. N_BANKS \in Nat \ {0} /\ DIM \in Nat \ {0} /\ N_ROWS_PER_BANK \in Nat \ {0}
  BY BankCountAssumption, DimAssumption, RowCountAssumption
<1>2. DIM * N_BANKS \in Nat \ {0} /\ N_BANKS * N_ROWS_PER_BANK \in Nat
  BY <1>1, Z3
<1> DEFINE d == DIM * N_BANKS
           c == N_BANKS * N_ROWS_PER_BANK
<1>3. d \in Nat \ {0} /\ c \in Nat
  BY <1>2
<1> HIDE DEF d, c
<1>4. /\ c \div d \in Nat /\ c % d \in 0 .. d - 1 /\ c = d * (c \div d) + (c % d)
  BY <1>3, Division
<1>5. d * (c \div d) = (c \div d) * d /\ (c \div d) * d \in Nat
  BY <1>3, <1>4, Z3
<1>6. c \div d \in Nat /\ (c \div d) * d <= c
  BY <1>3, <1>4, <1>5
<1>7. QED
  BY <1>1, <1>2, <1>6 DEF d, c, spad_stride, spad_capacity, Chunks

LEMMA SomeChunk == Chunks >= 1
<1>1. N_BANKS \in Nat \ {0} /\ DIM \in Nat \ {0} /\ N_ROWS_PER_BANK \in Nat \ {0}
  BY BankCountAssumption, DimAssumption, RowCountAssumption
<1>2. DIM <= N_ROWS_PER_BANK
  BY <1>1, WholeTilesAssumption
<1>3. DIM * N_BANKS <= N_ROWS_PER_BANK * N_BANKS
  BY <1>1, <1>2, ProductOrder
<1>4. N_ROWS_PER_BANK * N_BANKS = N_BANKS * N_ROWS_PER_BANK
  BY <1>1, Z3
<1> DEFINE d == DIM * N_BANKS
           c == N_BANKS * N_ROWS_PER_BANK
<1>5. d \in Nat \ {0} /\ c \in Nat /\ d <= c
  <2>1. d \in Nat \ {0} /\ c \in Nat
    BY <1>1, Z3
  <2>2. QED
    BY <1>3, <1>4, <2>1
<1> HIDE DEF d, c
<1>6. c \div d \in Nat /\ c % d \in 0 .. d - 1 /\ c = d * (c \div d) + (c % d)
  BY <1>5, Division
<1>7. c \div d # 0
  BY <1>5, <1>6
<1>8. QED
  BY <1>6, <1>7 DEF d, c, Chunks, spad_capacity, spad_stride

(* Row i of the slot that begins at s in chunk ch, in rows of the scratchpad *)
LEMMA SlotShape ==
  ASSUME NEW slot \in StrideSlots
  PROVE  \E ch \in 0 .. Chunks - 1, s \in 0 .. spad_stride - 1 :
           /\ slot = ch * (DIM * spad_stride) + s
           /\ \A i \in TileIndexes :
                /\ ch * DIM + i \in Nat
                /\ slot + i * spad_stride = (ch * DIM + i) * spad_stride + s
                /\ slot + i * spad_stride \in FlatAddrs
<1>1. PICK ch \in 0 .. Chunks - 1, s \in 0 .. spad_stride - 1 : slot = ch * (DIM * spad_stride) + s
  BY DEF StrideSlots, Slots, Chunks
<1>2. /\ spad_stride \in Nat \ {0} /\ DIM \in Nat \ {0} /\ Chunks \in Nat
  BY Strides, DimAssumption
<1>3. ASSUME NEW i \in TileIndexes
      PROVE  /\ ch * DIM + i \in Nat
             /\ slot + i * spad_stride = (ch * DIM + i) * spad_stride + s
             /\ slot + i * spad_stride \in FlatAddrs
  <2>1. i \in Nat /\ i <= DIM - 1 /\ ch \in Nat /\ s \in Nat
    BY <1>2 DEF TileIndexes
  <2>2. /\ ch * DIM \in Nat /\ (ch * DIM + i) * spad_stride \in Nat
        /\ ch * (DIM * spad_stride) + s + i * spad_stride = (ch * DIM + i) * spad_stride + s
    BY <1>2, <2>1, Z3
  <2>3. ch * DIM + i + 1 <= Chunks * DIM
    <3>1. (ch + 1) * DIM <= Chunks * DIM /\ (ch + 1) * DIM = ch * DIM + DIM
      <4>1. (ch + 1) * DIM <= Chunks * DIM
        BY <1>2, <2>1, ProductOrder
      <4>2. (ch + 1) * DIM = ch * DIM + DIM
        BY <1>2, <2>1, Z3
      <4>3. QED
        BY <4>1, <4>2
    <3>2. Chunks * DIM \in Nat
      BY <1>2, Z3
    <3>3. QED
      BY <1>2, <2>1, <2>2, <3>1, <3>2
  <2>4. (ch * DIM + i + 1) * spad_stride <= (Chunks * DIM) * spad_stride
    <3>1. Chunks * DIM \in Nat
      BY <1>2, Z3
    <3>2. QED
      BY <1>2, <2>1, <2>2, <2>3, <3>1, ProductOrder
  <2>5. /\ (ch * DIM + i + 1) * spad_stride = (ch * DIM + i) * spad_stride + spad_stride
        /\ (Chunks * DIM) * spad_stride = Chunks * (DIM * spad_stride)
        /\ Chunks * (DIM * spad_stride) \in Nat
    <3>1. (ch * DIM + i + 1) * spad_stride = (ch * DIM + i) * spad_stride + spad_stride
      BY <1>2, <2>1, <2>2, Z3
    <3>2. (Chunks * DIM) * spad_stride = Chunks * (DIM * spad_stride)
      BY <1>2, Z3
    <3>3. Chunks * (DIM * spad_stride) \in Nat
      BY <1>2, Z3
    <3>4. QED
      BY <3>1, <3>2, <3>3
  <2>6. Chunks * (DIM * spad_stride) <= spad_capacity /\ spad_capacity \in Nat
    BY Strides
  <2>7. (ch * DIM + i) * spad_stride + s <= spad_capacity - 1
    BY <1>2, <2>1, <2>2, <2>4, <2>5, <2>6
  <2>8. slot + i * spad_stride = (ch * DIM + i) * spad_stride + s
    BY <1>1, <2>2
  <2>9. QED
    BY <1>2, <2>1, <2>2, <2>6, <2>7, <2>8 DEF FlatAddrs, spad_capacity
<1>4. QED
  BY <1>1, <1>3

(* Rows of different slots are different. *)
LEMMA SlotsApart ==
  ASSUME NEW slot \in StrideSlots, NEW other \in StrideSlots,
         NEW i \in TileIndexes, NEW j \in TileIndexes,
         slot + i * spad_stride = other + j * spad_stride
  PROVE  slot = other /\ i = j
<1>1. PICK ch \in 0 .. Chunks - 1, s \in 0 .. spad_stride - 1 :
           /\ slot = ch * (DIM * spad_stride) + s
           /\ \A r \in TileIndexes :
                /\ ch * DIM + r \in Nat
                /\ slot + r * spad_stride = (ch * DIM + r) * spad_stride + s
                /\ slot + r * spad_stride \in FlatAddrs
  BY SlotShape
<1>2. PICK dh \in 0 .. Chunks - 1, u \in 0 .. spad_stride - 1 :
           /\ other = dh * (DIM * spad_stride) + u
           /\ \A r \in TileIndexes :
                /\ dh * DIM + r \in Nat
                /\ other + r * spad_stride = (dh * DIM + r) * spad_stride + u
                /\ other + r * spad_stride \in FlatAddrs
  BY SlotShape
<1>3. (ch * DIM + i) * spad_stride + s = (dh * DIM + j) * spad_stride + u
  BY <1>1, <1>2
<1>4. ch * DIM + i \in Nat /\ dh * DIM + j \in Nat
  BY <1>1, <1>2
<1>5. ch * DIM + i = dh * DIM + j /\ s = u
  <2>1. spad_stride \in Nat \ {0}
    BY Strides
  <2> DEFINE p == ch * DIM + i
             q == dh * DIM + j
  <2>2. p \in Nat /\ q \in Nat /\ p * spad_stride + s = q * spad_stride + u
    BY <1>3, <1>4
  <2> HIDE DEF p, q
  <2>3. p = q /\ s = u
    BY <2>1, <2>2, UniqueDivision
  <2>4. QED
    BY <2>3 DEF p, q
<1>6. ch \in Nat /\ dh \in Nat /\ i \in 0 .. DIM - 1 /\ j \in 0 .. DIM - 1
  BY Strides DEF TileIndexes
<1>7. ch = dh /\ i = j
  BY <1>5, <1>6, DimAssumption, UniqueDivision
<1>8. QED
  BY <1>1, <1>2, <1>5, <1>7

LEMMA SlotIsAddress ==
  ASSUME NEW slot \in StrideSlots
  PROVE  slot \in 0 .. spad_capacity /\ BankOf(slot) \in Banks
<1>1. 0 \in TileIndexes
  BY DimAssumption DEF TileIndexes
<1>2. slot + 0 * spad_stride \in FlatAddrs
  BY <1>1, SlotShape
<1>3. slot \in Int
  <2>1. PICK ch \in 0 .. Chunks - 1, s \in 0 .. spad_stride - 1 : slot = ch * (DIM * spad_stride) + s
    BY SlotShape
  <2>2. ch * (DIM * spad_stride) \in Nat
    BY Strides, Z3
  <2>3. QED
    BY <2>1, <2>2, Strides
<1>4. slot + 0 * spad_stride = slot
  BY <1>3, Strides
<1>5. slot \in 0 .. spad_capacity
  BY <1>2, <1>4, Strides DEF FlatAddrs, spad_capacity
<1>6. slot % N_BANKS \in 0 .. N_BANKS - 1
  BY <1>5, BankCountAssumption, Division
<1>7. QED
  BY <1>5, <1>6 DEF BankOf, Banks
-----------------------------------------------------------------------------
(* The allocator *)

(* The list names every tile of S, once. *)
Listed(seq, S) ==
  /\ seq \in Seq(S)
  /\ \A t \in S : \E k \in 1 .. Len(seq) : seq[k] = t
  /\ \A j, k \in 1 .. Len(seq) : seq[j] = seq[k] => j = k

Held(resident) ==
  /\ \A t \in DOMAIN resident : resident[t] \in StrideSlots
  /\ \A t, u \in DOMAIN resident : resident[t] = resident[u] => t = u

FreeIn(resident, b) ==
  {s \in StrideSlots : BankOf(s) = b /\ \A t \in DOMAIN resident : resident[t] # s}

Unheld(free_slots, resident) ==
  free_slots = [b \in Banks |-> FreeIn(resident, b)]

AllocOK(al) ==
  /\ al = [free_slots |-> al.free_slots, lru |-> al.lru, resident |-> al.resident]
  /\ Held(al.resident)
  /\ Unheld(al.free_slots, al.resident)
  /\ Listed(al.lru, DOMAIN al.resident)

LEMMA ListedAppend ==
  ASSUME NEW S, NEW seq, Listed(seq, S), NEW id, id \notin S
  PROVE  Listed(Append(seq, id), S \cup {id})
<1> DEFINE T == S \cup {id}
           app == Append(seq, id)
           n == Len(seq)
<1>1. seq \in Seq(S) /\ seq \in Seq(T) /\ n \in Nat /\ \A k \in 1 .. n : seq[k] \in S
  <2>1. seq \in Seq(S)
    BY DEF Listed
  <2>2. seq \in Seq(T)
    BY <2>1, SeqMonotonic
  <2>3. \A k \in 1 .. n : seq[k] \in S
    BY <2>1, ElementOfSeq
  <2>4. QED
    BY <2>1, <2>2, <2>3, LenProperties
<1>2. /\ app \in Seq(T) /\ Len(app) = n + 1
      /\ \A k \in 1 .. n : app[k] = seq[k]
      /\ app[n + 1] = id
  BY <1>1, AppendProperties
<1> HIDE DEF app
<1>3. ASSUME NEW t \in T PROVE \E k \in 1 .. Len(app) : app[k] = t
  <2>1. CASE t = id
    BY <1>1, <1>2, <2>1
  <2>2. CASE t \in S
    <3>1. PICK k \in 1 .. n : seq[k] = t
      BY <2>2 DEF Listed
    <3>2. QED
      BY <1>1, <1>2, <3>1
  <2>3. QED
    BY <2>1, <2>2
<1>4. ASSUME NEW j \in 1 .. Len(app), NEW k \in 1 .. Len(app), app[j] = app[k] PROVE j = k
  <2>1. \A i \in 1 .. n : app[i] \in S /\ app[i] # id
    BY <1>1, <1>2
  <2>2. \A i \in 1 .. Len(app) : i \in 1 .. n \/ i = n + 1
    BY <1>1, <1>2
  <2>3. CASE j \in 1 .. n /\ k \in 1 .. n
    BY <1>2, <1>4, <2>3 DEF Listed
  <2>4. QED
    BY <1>2, <1>4, <2>1, <2>2, <2>3
<1>5. QED
  BY <1>2, <1>3, <1>4 DEF Listed, app

LEMMA ListedWithout ==
  ASSUME NEW S, NEW seq, Listed(seq, S), NEW k \in 1 .. Len(seq)
  PROVE  Listed(Without(seq, k), S \ {seq[k]})
<1> DEFINE T == S \ {seq[k]}
           n == Len(seq)
           w == Without(seq, k)
<1>1. /\ seq \in Seq(S) /\ n \in Nat /\ \A i \in 1 .. n : seq[i] \in S
      /\ \A i, j \in 1 .. n : seq[i] = seq[j] => i = j
  <2>1. seq \in Seq(S)
    BY DEF Listed
  <2>2. \A i \in 1 .. n : seq[i] \in S
    BY <2>1, ElementOfSeq
  <2>3. \A i, j \in 1 .. n : seq[i] = seq[j] => i = j
    BY DEF Listed
  <2>4. QED
    BY <2>1, <2>2, <2>3, LenProperties
<1>2. \A i \in 1 .. n : i # k => seq[i] \in T
  BY <1>1
<1> DEFINE low == SubSeq(seq, 1, k - 1)
           high == SubSeq(seq, k + 1, n)
<1>3. k \in 1 .. n /\ k - 1 \in Nat /\ n - k \in Nat
  BY <1>1
<1>4. /\ low \in Seq(T) /\ Len(low) = k - 1
      /\ \A i \in 1 .. k - 1 : low[i] = seq[i]
  <2>1. \A i \in 1 .. k - 1 : seq[i] \in T
    BY <1>2, <1>3
  <2>2. /\ low \in Seq(T) /\ Len(low) = IF 1 <= k - 1 THEN k - 1 - 1 + 1 ELSE 0
        /\ \A i \in 1 .. k - 1 - 1 + 1 : low[i] = seq[1 + i - 1]
    BY <1>3, <2>1, SubSeqProperties
  <2> HIDE DEF low, T
  <2>3. QED
    BY <1>3, <2>2
<1>5. /\ high \in Seq(T) /\ Len(high) = n - k
      /\ \A i \in 1 .. n - k : high[i] = seq[k + i]
  <2>1. \A i \in k + 1 .. n : seq[i] \in T
    BY <1>2, <1>3
  <2>2. /\ high \in Seq(T) /\ Len(high) = IF k + 1 <= n THEN n - (k + 1) + 1 ELSE 0
        /\ \A i \in 1 .. n - (k + 1) + 1 : high[i] = seq[k + 1 + i - 1]
    BY <1>1, <1>3, <2>1, SubSeqProperties
  <2> HIDE DEF high, T
  <2>3. QED
    BY <1>1, <1>3, <2>2
<1>6. /\ w \in Seq(T) /\ Len(w) = n - 1
      /\ \A i \in 1 .. n - 1 : w[i] = IF i < k THEN seq[i] ELSE seq[i + 1]
  <2>1. w = low \o high
    BY DEF Without
  <2> HIDE DEF w, low, high, T
  <2>2. /\ w \in Seq(T) /\ Len(w) = Len(low) + Len(high)
        /\ \A i \in 1 .. Len(low) + Len(high) :
             w[i] = IF i <= Len(low) THEN low[i] ELSE high[i - Len(low)]
    BY <1>4, <1>5, <2>1, ConcatProperties
  <2>3. Len(low) + Len(high) = n - 1
    BY <1>1, <1>3, <1>4, <1>5
  <2>4. ASSUME NEW i \in 1 .. n - 1 PROVE w[i] = IF i < k THEN seq[i] ELSE seq[i + 1]
    <3>1. i \in Nat /\ n \in Nat /\ k \in Nat /\ 1 <= i /\ i <= n - 1
      BY <1>1, <1>3
    <3>2. w[i] = IF i <= k - 1 THEN low[i] ELSE high[i - (k - 1)]
      BY <1>4, <2>2, <2>3
    <3>3. CASE i < k
      <4>1. i \in 1 .. k - 1 /\ i <= k - 1
        BY <3>1, <3>3
      <4>2. QED
        BY <1>4, <3>2, <3>3, <4>1
    <3>4. CASE ~ (i < k)
      <4>1. i - (k - 1) \in 1 .. n - k /\ k + (i - (k - 1)) = i + 1 /\ ~ (i <= k - 1)
        BY <3>1, <3>4
      <4>2. high[i - (k - 1)] = seq[k + (i - (k - 1))]
        BY <1>5, <4>1
      <4>3. QED
        BY <3>2, <3>4, <4>1, <4>2
    <3>5. QED
      BY <3>3, <3>4
  <2>5. QED
    BY <2>2, <2>3, <2>4
<1> HIDE DEF w, low, high
<1>7. ASSUME NEW t \in T PROVE \E i \in 1 .. Len(w) : w[i] = t
  <2>1. PICK j \in 1 .. n : seq[j] = t
    BY DEF Listed
  <2>2. j # k
    BY <2>1
  <2>3. CASE j < k
    <3>1. j \in 1 .. n - 1
      BY <1>1, <1>3, <2>3
    <3>2. QED
      BY <1>6, <2>1, <2>3, <3>1
  <2>4. CASE j > k
    <3>1. j - 1 \in 1 .. n - 1 /\ ~ (j - 1 < k) /\ j - 1 + 1 = j
      BY <1>1, <1>3, <2>4
    <3>2. QED
      BY <1>6, <2>1, <3>1
  <2>5. QED
    BY <1>1, <1>3, <2>2, <2>3, <2>4
<1>8. ASSUME NEW i \in 1 .. Len(w), NEW j \in 1 .. Len(w), w[i] = w[j] PROVE i = j
  <2>1. i \in 1 .. n - 1 /\ j \in 1 .. n - 1
    BY <1>6
  <2> DEFINE at(x) == IF x < k THEN x ELSE x + 1
  <2>2. at(i) \in 1 .. n /\ at(j) \in 1 .. n
    BY <1>1, <1>3, <2>1
  <2>3. w[i] = seq[at(i)] /\ w[j] = seq[at(j)]
    BY <1>6, <2>1
  <2>4. at(i) = at(j)
    BY <1>1, <1>8, <2>2, <2>3
  <2>5. QED
    BY <1>1, <1>3, <2>1, <2>4
<1>9. QED
  BY <1>6, <1>7, <1>8 DEF Listed, w

LEMMA ListedErased ==
  ASSUME NEW S, NEW seq, Listed(seq, S), NEW id
  PROVE  Listed(Erased(seq, id), S \ {id})
<1> DEFINE places == {k \in 1 .. Len(seq) : seq[k] = id}
<1>1. CASE places = {}
  <2>1. id \notin S
    BY <1>1 DEF Listed
  <2>2. S \ {id} = S
    BY <2>1
  <2>3. QED
    BY <1>1, <2>2 DEF Erased
<1>2. CASE places # {}
  <2>1. PICK k \in places : k = CHOOSE j \in places : TRUE
    BY <1>2
  <2>2. k \in 1 .. Len(seq) /\ seq[k] = id
    BY <2>1
  <2>3. Erased(seq, id) = Without(seq, k)
    BY <1>2, <2>1 DEF Erased
  <2>4. QED
    BY <2>2, <2>3, ListedWithout
<1>3. QED
  BY <1>1, <1>2

LEMMA ListedTouch ==
  ASSUME NEW S, NEW seq, Listed(seq, S), NEW id
  PROVE  Listed(touch(seq, id), S \cup {id})
<1>1. Listed(Erased(seq, id), S \ {id})
  BY ListedErased
<1>2. Listed(Append(Erased(seq, id), id), (S \ {id}) \cup {id})
  BY <1>1, ListedAppend
<1>3. (S \ {id}) \cup {id} = S \cup {id}
  OBVIOUS
<1>4. QED
  BY <1>2, <1>3 DEF touch

LEMMA LookupKeeps ==
  ASSUME NEW al, AllocOK(al), NEW id, IsResident(al, id)
  PROVE  AllocOK(lookup(al, id)) /\ lookup(al, id).resident = al.resident
<1> DEFINE new == lookup(al, id)
<1>1. new = [free_slots |-> al.free_slots, lru |-> touch(al.lru, id), resident |-> al.resident]
  BY DEF AllocOK, lookup
<1>2. DOMAIN al.resident \cup {id} = DOMAIN al.resident
  BY DEF IsResident
<1>3. Listed(touch(al.lru, id), DOMAIN al.resident)
  BY <1>2, ListedTouch DEF AllocOK
<1> HIDE DEF new
<1>4. new.free_slots = al.free_slots /\ new.lru = touch(al.lru, id) /\ new.resident = al.resident
  BY <1>1
<1>5. AllocOK(new)
  BY <1>1, <1>3, <1>4 DEF AllocOK
<1>6. QED
  BY <1>4, <1>5 DEF new

LEMMA TakeKeeps ==
  ASSUME NEW al, AllocOK(al), NEW id, ~ IsResident(al, id),
         NEW bank \in Banks, HasFreeSlot(al, bank)
  PROVE  /\ AllocOK(TakeFreeSlot(al, id, bank))
         /\ \E slot \in FreeIn(al.resident, bank) :
              TakeFreeSlot(al, id, bank).resident = Place(al.resident, id, slot)
<1> DEFINE R == al.resident
           free == al.free_slots[bank]
           new == TakeFreeSlot(al, id, bank)
<1>1. free = FreeIn(R, bank) /\ free # {} /\ al.free_slots = [b \in Banks |-> FreeIn(R, b)]
  BY DEF AllocOK, Unheld, HasFreeSlot
<1>2. free \subseteq 0 .. spad_capacity
  BY <1>1, SlotIsAddress DEF FreeIn
<1>3. \E s \in free : \A other \in free : other <= s
  <2> HIDE DEF free
  <2>1. spad_capacity \in Nat
    BY Strides
  <2>2. QED
    BY <1>1, <1>2, <2>1, GreatestNumber
<1>4. PICK slot \in free :
        slot = CHOOSE s \in free : \A other \in free : other <= s
  BY <1>3
<1> DEFINE R2 == Place(R, id, slot)
<1>5. new = [free_slots |-> [al.free_slots EXCEPT ![bank] = @ \ {slot}],
             lru |-> touch(al.lru, id), resident |-> R2]
  BY <1>4 DEF TakeFreeSlot
<1>6. /\ slot \in StrideSlots /\ BankOf(slot) = bank
      /\ \A t \in DOMAIN R : R[t] # slot
  BY <1>1, <1>4 DEF FreeIn
<1>7. /\ DOMAIN R2 = DOMAIN R \cup {id} /\ R2[id] = slot /\ id \notin DOMAIN R
      /\ \A t \in DOMAIN R : R2[t] = R[t]
  BY DEF Place, IsResident
<1> HIDE DEF R2, new, free, R
<1>8. Held(R2)
  <2>1. Held(R)
    BY DEF AllocOK, R
  <2>2. QED
    BY <1>6, <1>7, <2>1 DEF Held
<1>9. Unheld([al.free_slots EXCEPT ![bank] = @ \ {slot}], R2)
  <2>1. ASSUME NEW b \in Banks
        PROVE  [al.free_slots EXCEPT ![bank] = @ \ {slot}][b] = FreeIn(R2, b)
    <3>1. al.free_slots[b] = FreeIn(R, b)
      BY <1>1
    <3>2. FreeIn(R2, b) = FreeIn(R, b) \ {slot}
      BY <1>7 DEF FreeIn
    <3>3. CASE b = bank
      BY <1>1, <3>1, <3>2, <3>3
    <3>4. CASE b # bank
      <4>1. slot \notin FreeIn(R, b)
        BY <1>6, <3>4 DEF FreeIn
      <4>2. QED
        BY <1>1, <3>1, <3>2, <3>4, <4>1
    <3>5. QED
      BY <3>3, <3>4
  <2>2. QED
    BY <1>1, <2>1 DEF Unheld
<1>10. Listed(touch(al.lru, id), DOMAIN R2)
  <2>1. Listed(al.lru, DOMAIN R)
    BY DEF AllocOK, R
  <2>2. QED
    BY <1>7, <2>1, ListedTouch
<1>11. AllocOK(new)
  <2>1. /\ new.free_slots = [al.free_slots EXCEPT ![bank] = @ \ {slot}]
        /\ new.lru = touch(al.lru, id) /\ new.resident = R2
    BY <1>5
  <2>2. QED
    BY <1>5, <1>8, <1>9, <1>10, <2>1 DEF AllocOK
<1>12. new.resident = R2
  BY <1>5
<1>13. QED
  BY <1>1, <1>4, <1>11, <1>12 DEF new, R2, R

LEMMA EvictKeeps ==
  ASSUME NEW al, AllocOK(al), NEW id, ~ IsResident(al, id),
         NEW bank \in Banks, Evictable(al, bank) # {}
  PROVE  /\ AllocOK(EvictLru(al, id, bank))
         /\ \E old \in DOMAIN al.resident :
              /\ BankOf(al.resident[old]) = bank
              /\ EvictLru(al, id, bank).resident = Place(Forget(al.resident, old), id, al.resident[old])
<1> DEFINE R == al.resident
           new == EvictLru(al, id, bank)
           places == Evictable(al, bank)
<1>1. Listed(al.lru, DOMAIN R) /\ Held(R)
  BY DEF AllocOK
<1>2. Len(al.lru) \in Nat /\ \A k \in 1 .. Len(al.lru) : al.lru[k] \in DOMAIN R
  <2>1. al.lru \in Seq(DOMAIN R)
    BY <1>1 DEF Listed
  <2>2. QED
    BY <2>1, LenProperties, ElementOfSeq
<1>3. places \in SUBSET Nat /\ places # {}
  BY <1>2 DEF Evictable
<1>4. \E k \in places : \A j \in places : k <= j
  <2> HIDE DEF places
  <2>1. QED
    BY <1>3, LeastNumber
<1>5. PICK k \in places : k = Oldest(al, bank)
  BY <1>4 DEF Oldest
<1> DEFINE old == al.lru[k]
           slot == R[old]
           R1 == Forget(R, old)
           R2 == Place(R1, id, slot)
<1>6. k \in 1 .. Len(al.lru) /\ BankOf(slot) = bank /\ old \in DOMAIN R
  BY <1>2, <1>5 DEF Evictable
<1>7. new = [free_slots |-> al.free_slots, lru |-> touch(Without(al.lru, k), id), resident |-> R2]
  <2>1. new = [al EXCEPT !.lru = touch(Without(@, k), id), !.resident = R2]
    BY <1>5, Zenon DEF EvictLru
  <2>2. al = [free_slots |-> al.free_slots, lru |-> al.lru, resident |-> al.resident]
    BY DEF AllocOK
  <2> HIDE DEF R2, new
  <2>3. QED
    BY <2>1, <2>2
<1>8. /\ DOMAIN R1 = DOMAIN R \ {old} /\ DOMAIN R2 = DOMAIN R1 \cup {id}
      /\ R2[id] = slot /\ id \notin DOMAIN R
      /\ \A t \in DOMAIN R1 : R2[t] = R[t]
  BY DEF Place, Forget, IsResident
<1> HIDE DEF R2, R1, new, places, old, slot, R
<1>9. slot = R[old]
  BY DEF slot
<1>10. Held(R2)
  BY <1>1, <1>6, <1>8, <1>9 DEF Held
<1>11. ASSUME NEW b \in Banks PROVE FreeIn(R2, b) = FreeIn(R, b)
  <2>1. ASSUME NEW s PROVE (\A t \in DOMAIN R2 : R2[t] # s) <=> (\A t \in DOMAIN R : R[t] # s)
    BY <1>6, <1>8, <1>9
  <2>2. QED
    BY <2>1 DEF FreeIn
<1>12. Unheld(al.free_slots, R2)
  <2>1. al.free_slots = [b \in Banks |-> FreeIn(R, b)]
    BY DEF AllocOK, Unheld, R
  <2>2. [b \in Banks |-> FreeIn(R, b)] = [b \in Banks |-> FreeIn(R2, b)]
    BY <1>11
  <2>3. QED
    BY <2>1, <2>2 DEF Unheld
<1>13. Listed(touch(Without(al.lru, k), id), DOMAIN R2)
  <2>1. Listed(Without(al.lru, k), DOMAIN R1)
    BY <1>1, <1>6, <1>8, ListedWithout DEF old
  <2>2. QED
    BY <1>8, <2>1, ListedTouch
<1>14. AllocOK(new)
  <2>1. /\ new.free_slots = al.free_slots
        /\ new.lru = touch(Without(al.lru, k), id) /\ new.resident = R2
    BY <1>7
  <2>2. QED
    BY <1>7, <1>10, <1>12, <1>13, <2>1 DEF AllocOK
<1>15. new.resident = R2
  BY <1>7
<1>16. QED
  BY <1>6, <1>14, <1>15 DEF new, R2, R1, slot, R

LEMMA AcquireKeeps ==
  ASSUME NEW al, AllocOK(al), NEW id, NEW bank \in Banks, ~ Throws(al, id, bank)
  PROVE  AllocOK(acquire(al, id, bank))
<1>1. CASE IsResident(al, id)
  BY <1>1, LookupKeeps DEF acquire
<1>2. CASE ~ IsResident(al, id) /\ HasFreeSlot(al, bank)
  BY <1>2, TakeKeeps DEF acquire
<1>3. CASE ~ IsResident(al, id) /\ ~ HasFreeSlot(al, bank)
  <2>1. acquire(al, id, bank) = EvictLru(al, id, bank)
    BY <1>3 DEF acquire
  <2>2. Evictable(al, bank) # {}
    BY <1>3 DEF Throws
  <2>3. QED
    BY <1>3, <2>1, <2>2, EvictKeeps
<1>4. QED
  BY <1>1, <1>2, <1>3

(* A bank has a slot, and the tiles in its slots can be evicted. *)
LEMMA NoThrow ==
  ASSUME NEW al, AllocOK(al), NEW id, NEW bank \in Banks
  PROVE  ~ Throws(al, id, bank)
<1> SUFFICES ASSUME ~ HasFreeSlot(al, bank) PROVE Evictable(al, bank) # {}
  BY DEF Throws
<1>1. bank \in StrideSlots /\ BankOf(bank) = bank
  <2>1. bank \in 0 .. spad_stride - 1 /\ spad_stride \in Nat \ {0}
    BY Strides DEF Banks
  <2>2. BankOf(bank) = bank
    <3>1. 0 * spad_stride + bank = bank
      BY <2>1
    <3>2. (0 * spad_stride + bank) % spad_stride = bank
      BY <2>1, QuotientOf
    <3>3. QED
      BY <3>1, <3>2 DEF BankOf, spad_stride
  <2>3. Chunks >= 1
    BY SomeChunk
  <2>4. 0 \in 0 .. Chunks - 1
    BY <2>3, Strides
  <2>5. bank = 0 * (DIM * spad_stride) + bank
    BY <2>1, Strides
  <2>6. QED
    BY <2>1, <2>2, <2>4, <2>5 DEF StrideSlots, Slots, Chunks
<1>2. FreeIn(al.resident, bank) = {}
  BY DEF AllocOK, Unheld, HasFreeSlot
<1>3. PICK t \in DOMAIN al.resident : al.resident[t] = bank
  BY <1>1, <1>2 DEF FreeIn
<1>4. PICK k \in 1 .. Len(al.lru) : al.lru[k] = t
  BY DEF AllocOK, Listed
<1>5. k \in Evictable(al, bank)
  BY <1>1, <1>3, <1>4 DEF Evictable
<1>6. QED
  BY <1>5

LEMMA FirstAlloc == AllocOK(NewAllocator(spad_stride))
<1> DEFINE R == [id \in {} |-> 0]
           new == NewAllocator(spad_stride)
<1>1. new = [free_slots |-> [b \in Banks |-> {slot \in StrideSlots : BankOf(slot) = b}],
             lru |-> << >>, resident |-> R]
  BY DEF NewAllocator, StrideSlots
<1>2. DOMAIN R = {}
  OBVIOUS
<1> HIDE DEF R, new
<1>3. Held(R)
  BY <1>2 DEF Held
<1>4. Unheld(new.free_slots, R)
  BY <1>1, <1>2 DEF Unheld, FreeIn
<1>5. Listed(<< >>, DOMAIN R)
  <2>1. << >> \in Seq(DOMAIN R) /\ Len(<< >>) = 0
    BY EmptySeq
  <2>2. QED
    BY <1>2, <2>1 DEF Listed
<1>6. new.free_slots = new.free_slots /\ new.lru = << >> /\ new.resident = R
  BY <1>1
<1>7. new = [free_slots |-> new.free_slots, lru |-> new.lru, resident |-> new.resident]
  BY <1>1
<1>8. QED
  BY <1>3, <1>4, <1>5, <1>6, <1>7 DEF AllocOK, new
-----------------------------------------------------------------------------
(* The loop *)

LoopInv ==
  /\ size \in Sizes /\ iteration \in Nat
  /\ AllocOK(alloc)

LEMMA TileCount ==
  ASSUME NEW x \in Nat \ {0}
  PROVE  /\ pad_to_dim(x) \in Nat \ {0} /\ pad_to_dim(x) \div DIM \in Nat \ {0}
         /\ pad_to_dim(x) = (pad_to_dim(x) \div DIM) * DIM
         /\ x <= pad_to_dim(x)
<1> DEFINE y == x + DIM - 1
           q == y \div DIM
<1>1. DIM \in Nat \ {0} /\ y \in Nat /\ y >= DIM
  BY DimAssumption
<1> HIDE DEF y
<1>2. q \in Nat /\ y % DIM \in 0 .. DIM - 1 /\ y = DIM * q + (y % DIM)
  BY <1>1, Division
<1> HIDE DEF q
<1>3. DIM * q = q * DIM /\ q * DIM \in Nat
  BY <1>1, <1>2, Z3
<1>4. q # 0 /\ q * DIM # 0
  BY <1>1, <1>2, <1>3
<1>5. (q * DIM + 0) \div DIM = q
  BY <1>1, <1>2, QuotientOf
<1>6. (q * DIM) \div DIM = q
  BY <1>3, <1>5
<1>7. pad_to_dim(x) = q * DIM
  BY DEF pad_to_dim, q, y
<1>8. x <= q * DIM
  BY <1>1, <1>2, <1>3 DEF y
<1>9. QED
  BY <1>2, <1>3, <1>4, <1>6, <1>7, <1>8

LEMMA TileCounts ==
  ASSUME size \in Sizes
  PROVE  /\ MT \in Nat \ {0} /\ KT \in Nat \ {0} /\ NT \in Nat \ {0}
         /\ PM \in Nat \ {0} /\ PK \in Nat \ {0} /\ PN \in Nat \ {0}
         /\ PM = MT * DIM /\ PK = KT * DIM /\ PN = NT * DIM
<1>1. size.M \in Nat \ {0} /\ size.K \in Nat \ {0} /\ size.N \in Nat \ {0}
  BY SizesAssumption
<1>2. QED
  BY <1>1, TileCount DEF MT, KT, NT, PM, PK, PN

LEMMA TileOf ==
  ASSUME size \in Sizes, NEW i \in Nat
  PROVE  mt_of(i) \in Nat /\ nt_of(i) \in 0 .. NT - 1 /\ kt_of(i) \in 0 .. KT - 1
<1>1. KT \in Nat \ {0} /\ NT \in Nat \ {0}
  BY TileCounts
<1>2. NT * KT \in Nat \ {0}
  BY <1>1, Z3
<1>3. i \div (NT * KT) \in Nat /\ i \div KT \in Nat /\ i % KT \in 0 .. KT - 1
  <2> DEFINE n == NT * KT
  <2>1. n \in Nat \ {0}
    BY <1>2
  <2> HIDE DEF n
  <2>2. i \div n \in Nat
    BY <2>1, Division
  <2>3. QED
    BY <1>1, <2>2, Division DEF n
<1>4. (i \div KT) % NT \in 0 .. NT - 1
  BY <1>1, <1>3, Division
<1>5. QED
  BY <1>3, <1>4 DEF mt_of, nt_of, kt_of

LEMMA BankRange ==
  ASSUME size \in Sizes, NEW m \in Nat, NEW k \in Nat, NEW n \in Nat
  PROVE  a_bank(m, k) \in Banks /\ b_bank(k, n) \in Banks /\ c_bank(m, n) \in Banks
<1>1. KT \in Nat \ {0} /\ NT \in Nat \ {0}
  BY TileCounts
<1>2. m * KT + k \in Nat /\ k * NT + n \in Nat /\ m * NT + n \in Nat
  BY <1>1, Z3
<1> DEFINE half == N_BANKS \div 2
<1>3. half \in Nat \ {0} /\ 2 * half = N_BANKS
  BY BankCountAssumption, EvenBanksAssumption
<1> HIDE DEF half
<1>4. (m * KT + k) % half \in 0 .. half - 1
  BY <1>2, <1>3, Division
<1>5. (k * NT + n) % half \in 0 .. half - 1
  BY <1>2, <1>3, Division
<1>6. (m * NT + n) % N_BANKS \in 0 .. N_BANKS - 1
  BY <1>2, BankCountAssumption, Division
<1>7. a_bank(m, k) \in Banks
  BY <1>3, <1>4 DEF a_bank, Banks, half
<1>8. b_bank(k, n) \in Banks
  BY <1>3, <1>5 DEF b_bank, Banks, half
<1>9. QED
  BY <1>6, <1>7, <1>8 DEF c_bank, Banks

LEMMA TwoAndOne ==
  ASSUME NEW x, NEW y, NEW z
  PROVE  /\ Len(<<x, y>> \o <<z>>) = 3
         /\ (<<x, y>> \o <<z>>)[1] = x /\ (<<x, y>> \o <<z>>)[2] = y
         /\ (<<x, y>> \o <<z>>)[3] = z
<1> DEFINE S == {x, y, z}
           two == <<x, y>>
           one == <<z>>
<1>1. two \in Seq(S) /\ one \in Seq(S)
  OBVIOUS
<1>2. Len(two) = 2 /\ Len(one) = 1 /\ two[1] = x /\ two[2] = y /\ one[1] = z
  OBVIOUS
<1> HIDE DEF two, one, S
<1>3. /\ Len(two \o one) = Len(two) + Len(one)
      /\ \A i \in 1 .. Len(two) + Len(one) :
           (two \o one)[i] = IF i <= Len(two) THEN two[i] ELSE one[i - Len(two)]
  BY <1>1, ConcatProperties
<1>4. /\ Len(two \o one) = 3 /\ (two \o one)[1] = x /\ (two \o one)[2] = y
      /\ (two \o one)[3] = z
  BY <1>2, <1>3
<1>5. QED
  BY <1>4 DEF two, one

LEMMA WantedBanks ==
  ASSUME size \in Sizes, NEW i \in Nat
  PROVE  /\ Len(Wanted(i)) \in {2, 3}
         /\ \A n \in 1 .. Len(Wanted(i)) : Wanted(i)[n].bank \in Banks
<1> DEFINE mt == mt_of(i)
           nt == nt_of(i)
           kt == kt_of(i)
<1>1. mt \in Nat /\ nt \in Nat /\ kt \in Nat
  BY TileOf, TileCounts
<1> HIDE DEF mt, nt, kt
<1>2. a_bank(mt, kt) \in Banks /\ b_bank(kt, nt) \in Banks /\ c_bank(mt, nt) \in Banks
  BY <1>1, BankRange
<1> DEFINE wa == [id |-> <<"a", mt, kt>>, bank |-> a_bank(mt, kt)]
           wb == [id |-> <<"b", kt, nt>>, bank |-> b_bank(kt, nt)]
           wc == [id |-> <<"c", mt, nt>>, bank |-> c_bank(mt, nt)]
<1>3. wa.bank \in Banks /\ wb.bank \in Banks /\ wc.bank \in Banks
  BY <1>2
<1> HIDE DEF wa, wb, wc
<1>4. Wanted(i) = <<wa, wb>> \o (IF kt = KT - 1 THEN <<wc>> ELSE << >>)
  BY DEF Wanted, wa, wb, wc, mt, nt, kt
<1>5. CASE kt = KT - 1
  <2>1. Wanted(i) = <<wa, wb>> \o <<wc>>
    BY <1>4, <1>5
  <2>2. QED
    BY <1>3, <2>1, TwoAndOne
<1>6. CASE kt # KT - 1
  <2>1. Wanted(i) = <<wa, wb>>
    BY <1>4, <1>6
  <2>2. QED
    BY <1>3, <2>1
<1>7. QED
  BY <1>5, <1>6

LEMMA AcquiredKeeps ==
  ASSUME size \in Sizes, NEW i \in Nat, NEW al, AllocOK(al)
  PROVE  \A n \in 0 .. Len(Wanted(i)) : AllocOK(Acquired(al, i, n))
<1> DEFINE After(x, k) == acquire(x, Wanted(i)[k].id, Wanted(i)[k].bank)
           one   == After(al, 1)
           two   == After(one, 2)
           three == After(two, 3)
<1>1. /\ Len(Wanted(i)) \in {2, 3}
      /\ \A n \in 1 .. Len(Wanted(i)) : Wanted(i)[n].bank \in Banks
  BY WantedBanks
<1>2. ASSUME NEW x, AllocOK(x), NEW k \in 1 .. Len(Wanted(i))
      PROVE  AllocOK(After(x, k))
  <2>1. Wanted(i)[k].bank \in Banks
    BY <1>1
  <2>2. ~ Throws(x, Wanted(i)[k].id, Wanted(i)[k].bank)
    BY <1>2, <2>1, NoThrow
  <2>3. QED
    BY <1>2, <2>1, <2>2, AcquireKeeps
<1>3. AllocOK(one)
  BY <1>1, <1>2
<1>4. AllocOK(two)
  <2> HIDE DEF one
  <2>1. QED
    BY <1>1, <1>2, <1>3
<1>5. Len(Wanted(i)) = 3 => AllocOK(three)
  <2> HIDE DEF two
  <2>1. QED
    BY <1>1, <1>2, <1>4
<1>6. /\ Acquired(al, i, 0) = al /\ Acquired(al, i, 1) = one
      /\ Acquired(al, i, 2) = two /\ Acquired(al, i, 3) = three
  BY DEF Acquired
<1> HIDE DEF one, two, three
<1>7. QED
  BY <1>1, <1>3, <1>4, <1>5, <1>6

THEOREM AllocatorInvariant == Spec => []LoopInv
<1>1. Init => LoopInv
  BY FirstAlloc DEF Init, LoopInv
<1>2. LoopInv /\ [Next]_vars => LoopInv'
  <2> SUFFICES ASSUME LoopInv, [Next]_vars PROVE LoopInv'
    OBVIOUS
  <2>1. CASE NextIteration
    <3>1. /\ size' = size /\ iteration' = iteration + 1
          /\ alloc' = Acquired(alloc, iteration, Len(Wanted(iteration)))
      BY <2>1 DEF NextIteration, Now, Body
    <3>2. Len(Wanted(iteration)) \in 0 .. Len(Wanted(iteration))
      BY WantedBanks DEF LoopInv
    <3>3. AllocOK(alloc')
      BY <3>1, <3>2, AcquiredKeeps DEF LoopInv
    <3>4. QED
      BY <3>1, <3>3 DEF LoopInv
  <2>2. ASSUME NEW op, Executes(op) PROVE LoopInv'
    BY <2>2 DEF Executes, LoopInv
  <2>3. CASE InitializeAT \/ InitializeB \/ ReadC \/ UNCHANGED vars
    BY <2>3 DEF InitializeAT, InitializeB, ReadC, vars, loopVars, LoopInv
  <2>4. QED
    BY <2>1, <2>2, <2>3 DEF Next, ExecMvin, ExecMvout, ExecGemm, ExecFlush, ExecDrain
<1>3. QED
  BY <1>1, <1>2, PTL DEF Spec

LEMMA AllocHasSlots == LoopInv => SlotsConserved
<1> SUFFICES ASSUME LoopInv PROVE SlotsConserved
  OBVIOUS
<1> DEFINE R == alloc.resident
<1>1. Held(R) /\ Unheld(alloc.free_slots, R) /\ Listed(alloc.lru, DOMAIN R)
  BY DEF LoopInv, AllocOK
<1>2. \A b \in Banks : alloc.free_slots[b] =
         {s \in Slots(spad_stride) : BankOf(s) = b /\ \A t \in DOMAIN R : R[t] # s}
  BY <1>1 DEF Unheld, FreeIn, StrideSlots
<1>3. ASSUME NEW t \in DOMAIN R
      PROVE  SlotRows(R[t], spad_stride) \subseteq FlatAddrs
  <2>1. R[t] \in StrideSlots
    BY <1>1 DEF Held
  <2>2. QED
    BY <2>1, SlotShape DEF SlotRows, TileIndexes
<1>4. ASSUME NEW t \in DOMAIN R, NEW u \in DOMAIN R \ {t}
      PROVE  SlotRows(R[t], spad_stride) \cap SlotRows(R[u], spad_stride) = {}
  <2>1. R[t] \in StrideSlots /\ R[u] \in StrideSlots /\ R[t] # R[u]
    BY <1>1 DEF Held
  <2>2. \A i, j \in TileIndexes : R[t] + i * spad_stride # R[u] + j * spad_stride
    BY <2>1, SlotsApart
  <2>3. QED
    BY <2>2 DEF SlotRows, TileIndexes
<1>5. {alloc.lru[k] : k \in 1 .. Len(alloc.lru)} = DOMAIN R
  <2>1. alloc.lru \in Seq(DOMAIN R)
    BY <1>1 DEF Listed
  <2>2. \A k \in 1 .. Len(alloc.lru) : alloc.lru[k] \in DOMAIN R
    BY <2>1, ElementOfSeq
  <2>3. \A t \in DOMAIN R : \E k \in 1 .. Len(alloc.lru) : alloc.lru[k] = t
    BY <1>1 DEF Listed
  <2> HIDE DEF R
  <2>4. QED
    BY <2>2, <2>3, Zenon
<1>6. \A j, k \in 1 .. Len(alloc.lru) : alloc.lru[j] = alloc.lru[k] => j = k
  BY <1>1 DEF Listed
<1>7. QED
  BY <1>2, <1>3, <1>4, <1>5, <1>6 DEF SlotsConserved

(* No slot is lost or held twice, rows of two tiles never meet, and the LRU *)
(* list and the map of residents name the same tiles, after any number of   *)
(* acquires and evictions.                                                  *)
THEOREM SlotsAlwaysConserved == Spec => []SlotsConserved
  BY AllocatorInvariant, AllocHasSlots, PTL

(* acquire finds a slot for every tile of every product: each bank has a    *)
(* slot, and the tile in it can be evicted.                                 *)
THEOREM AcquireNeverThrows == Spec => []NeverThrows
<1>1. LoopInv => NeverThrows
  <2> SUFFICES ASSUME LoopInv, NEW n \in 1 .. Len(Wanted(iteration))
               PROVE  ~ Throws(Acquired(alloc, iteration, n - 1),
                               Wanted(iteration)[n].id, Wanted(iteration)[n].bank)
    BY DEF NeverThrows, BodyThrows
  <2>1. Len(Wanted(iteration)) \in {2, 3} /\ Wanted(iteration)[n].bank \in Banks
    BY WantedBanks DEF LoopInv
  <2>2. n - 1 \in 0 .. Len(Wanted(iteration))
    BY <2>1
  <2>3. AllocOK(Acquired(alloc, iteration, n - 1))
    BY <2>2, AcquiredKeeps DEF LoopInv
  <2>4. QED
    BY <2>1, <2>3, NoThrow
<1>2. QED
  BY <1>1, AllocatorInvariant, PTL

-----------------------------------------------------------------------------
(* The product *)

(* The tiles of the product, and the bank each is sent to *)
ATile(mt, kt) == <<"a", mt, kt>>
BTile(kt, nt) == <<"b", kt, nt>>
CTile(mt, nt) == <<"c", mt, nt>>

InBank(id, slot) ==
  \/ \E mt \in 0 .. MT - 1, kt \in 0 .. KT - 1 : id = ATile(mt, kt) /\ BankOf(slot) = a_bank(mt, kt)
  \/ \E kt \in 0 .. KT - 1, nt \in 0 .. NT - 1 : id = BTile(kt, nt) /\ BankOf(slot) = b_bank(kt, nt)
  \/ \E mt \in 0 .. MT - 1, nt \in 0 .. NT - 1 : id = CTile(mt, nt) /\ BankOf(slot) = c_bank(mt, nt)

(* Every resident tile is one of the product's, in the bank it was sent to. *)
AtHome(resident) == \A id \in DOMAIN resident : InBank(id, resident[id])

Loaded(id, slot) ==
  \A r, c \in TileIndexes : spad[RowOf(slot, r)][c] = TileElement(id, r, c)

(* The products of element (m, n) with k below limit *)
Partial(m, n, limit) ==
  SetToBag({<<"AT", k, m, "B", k, n>> :
              k \in {k \in 0 .. size.K - 1 : k < limit /\ m < size.M /\ n < size.N}})

(* What psum buffer p holds with what the array is about to push into it *)
Total(p, ij) ==
  IF in_array.psum = p THEN psum[p][ij] (+) in_array.sums[ij] ELSE psum[p][ij]

Accumulated(p, mt, nt, kt) ==
  \A i, j \in TileIndexes :
    Total(p, <<i, j>>) = Partial(mt * DIM + i, nt * DIM + j, kt * DIM)

Cleared(p) == \A i, j \in TileIndexes : Total(p, <<i, j>>) = EmptyBag

(* After the flush the array is empty and the buffer itself holds the sums. *)
Flushed(p, mt, nt) ==
  /\ in_array.sums = NoSums
  /\ \A i, j \in TileIndexes :
       /\ psum[p][<<i, j>>] = Partial(mt * DIM + i, nt * DIM + j, KT * DIM)
       /\ psum[1 - p][<<i, j>>] = EmptyBag

(* The instructions of pass i that are left from each of its points on *)
ToMvout(i, sC) == <<Mvout(sC, c_dram(mt_of(i), nt_of(i)), c_dram_stride)>>
ToDrain(i, sC, p) == <<Drain(sC, p)>> \o ToMvout(i, sC)
ToFlush(i, sC, p) == <<Flush(p)>> \o ToDrain(i, sC, p)
IsLast(i) == kt_of(i) = KT - 1
Closing(i, sC, p) == IF IsLast(i) THEN ToFlush(i, sC, p) ELSE << >>
ToGemm(i, sA, sB, sC, p) == <<Gemm(sA, sB, p)>> \o Closing(i, sC, p)
MvinA(i, sA) == Mvin(a_dram(mt_of(i), kt_of(i)), sA, a_dram_stride)
MvinB(i, sB) == Mvin(b_dram(kt_of(i), nt_of(i)), sB, b_dram_stride)
ToMvinB(i, sA, sB, sC, p) == <<MvinB(i, sB)>> \o ToGemm(i, sA, sB, sC, p)
ToMvinA(i, sA, sB, sC, p) == <<MvinA(i, sA)>> \o ToGemm(i, sA, sB, sC, p)
ToBoth(i, sA, sB, sC, p) == <<MvinA(i, sA)>> \o ToMvinB(i, sA, sB, sC, p)

AOf(i) == ATile(mt_of(i), kt_of(i))
BOf(i) == BTile(kt_of(i), nt_of(i))
COf(i) == CTile(mt_of(i), nt_of(i))

(* The tile that only the pass's drain brings *)
Awaited(i) == IF IsLast(i) THEN {COf(i)} ELSE {}

(* The slots of pass i belong to its tiles; that of C may have been one of *)
(* its operands'.                                                          *)
PassSlots(resident, i, sA, sB, sC) ==
  /\ sA \in StrideSlots /\ sB \in StrideSlots /\ sC \in StrideSlots /\ sA # sB
  /\ \A id \in DOMAIN resident :
       /\ id = AOf(i) => resident[id] = sA
       /\ id = BOf(i) => resident[id] = sB
       /\ IsLast(i) /\ id = COf(i) => resident[id] = sC
       /\ resident[id] = sA /\ id # AOf(i) => id \in Awaited(i)
       /\ resident[id] = sB /\ id # BOf(i) => id \in Awaited(i)
       /\ IsLast(i) /\ resident[id] = sC => id = COf(i)

ResidentsLoaded(awaited) ==
  \A id \in DOMAIN alloc.resident \ awaited : Loaded(id, alloc.resident[id])

Operands(i, p) == Accumulated(p, mt_of(i), nt_of(i), kt_of(i)) /\ Cleared(1 - p)
Chained(i, p)  == Accumulated(p, mt_of(i), nt_of(i), KT) /\ Cleared(1 - p)

AtBoth(i, sA, sB, sC, p) ==
  /\ todo = ToBoth(i, sA, sB, sC, p)
  /\ ResidentsLoaded({AOf(i), BOf(i)} \cup Awaited(i))
  /\ Operands(i, p)
AtMvinA(i, sA, sB, sC, p) ==
  /\ todo = ToMvinA(i, sA, sB, sC, p)
  /\ ResidentsLoaded({AOf(i)} \cup Awaited(i)) /\ Loaded(BOf(i), sB)
  /\ Operands(i, p)
AtMvinB(i, sA, sB, sC, p) ==
  /\ todo = ToMvinB(i, sA, sB, sC, p)
  /\ ResidentsLoaded({BOf(i)} \cup Awaited(i)) /\ Loaded(AOf(i), sA)
  /\ Operands(i, p)
AtGemm(i, sA, sB, sC, p) ==
  /\ todo = ToGemm(i, sA, sB, sC, p)
  /\ ResidentsLoaded(Awaited(i)) /\ Loaded(AOf(i), sA) /\ Loaded(BOf(i), sB)
  /\ Operands(i, p)
AtFlush(i, sC, p) ==
  /\ IsLast(i) /\ todo = ToFlush(i, sC, p)
  /\ ResidentsLoaded(Awaited(i)) /\ Chained(i, p)
AtDrain(i, sC, p) ==
  /\ IsLast(i) /\ todo = ToDrain(i, sC, p)
  /\ ResidentsLoaded(Awaited(i)) /\ Flushed(p, mt_of(i), nt_of(i))
AtMvout(i, sC, p) ==
  /\ IsLast(i) /\ todo = ToMvout(i, sC)
  /\ ResidentsLoaded({}) /\ Loaded(COf(i), sC)
  /\ Cleared(p) /\ Cleared(1 - p)

InPass(i) ==
  \E sA, sB, sC \in StrideSlots, p \in 0 .. 1 :
    /\ psum_index = IF IsLast(i) THEN 1 - p ELSE p
    /\ PassSlots(alloc.resident, i, sA, sB, sC)
    /\ \/ AtBoth(i, sA, sB, sC, p) \/ AtMvinA(i, sA, sB, sC, p) \/ AtMvinB(i, sA, sB, sC, p)
       \/ AtGemm(i, sA, sB, sC, p) \/ AtFlush(i, sC, p) \/ AtDrain(i, sC, p) \/ AtMvout(i, sC, p)

BetweenPasses ==
  /\ todo = << >> /\ ResidentsLoaded({}) /\ Operands(iteration, psum_index)

(* Element (i, j) of tile (mt, nt) of C *)
PlaceOfC(mt, nt, i, j) == c_dram(mt, nt) + i * c_dram_stride + j

Stored(mt, nt) ==
  \A i, j \in TileIndexes :
    dram[PlaceOfC(mt, nt, i, j)] = Sum(Exact(mt * DIM + i, nt * DIM + j))

StoredBelow(limit) ==
  \A mt \in 0 .. MT - 1, nt \in 0 .. NT - 1 : (mt * NT + nt) * KT + KT <= limit => Stored(mt, nt)

PassesDone == IF todo = << >> THEN iteration ELSE iteration - 1

(* What the memory holds of A and B *)
HoldsA(memory) ==
  \A offset \in 0 .. PK * PM - 1 : memory[a_base + offset] = ElementAt(AT, PM, offset)
HoldsB(memory) ==
  \A offset \in 0 .. PK * PN - 1 : memory[b_base + offset] = ElementAt(B, PN, offset)

DramHolds ==
  /\ DOMAIN dram = 0 .. c_base + PM * PN - 1
  /\ step # "AT" => HoldsA(dram)
  /\ step \in {"schedule", "done"} => HoldsB(dram)
  /\ StoredBelow(PassesDone)

MachineTypes ==
  /\ DOMAIN spad = FlatAddrs
  /\ psum = [p \in 0 .. 1 |-> psum[p]]
  /\ in_array = [psum |-> in_array.psum, sums |-> in_array.sums]
  /\ in_array.psum \in 0 .. 1
  /\ psum_index \in 0 .. 1

GemmInv ==
  /\ size \in Sizes
  /\ step \in {"AT", "B", "schedule", "done"}
  /\ iteration \in 0 .. Iterations
  /\ step \in {"AT", "B"} => iteration = 0 /\ todo = << >>
  /\ step = "done" =>
       /\ iteration = Iterations /\ todo = << >>
       /\ C_hardware = [offset \in 0 .. PM * PN - 1 |-> dram[c_base + offset]]
  /\ AtHome(alloc.resident)
  /\ MachineTypes
  /\ DramHolds
  /\ BetweenPasses \/ (iteration >= 1 /\ InPass(iteration - 1))

-----------------------------------------------------------------------------
(* Where elements lie *)

(* Element (i, j) of tile (tr, tc) of a matrix with cols tiles in a row *)
PlacedAt(cols, tr, tc, i, j) ==
  LayoutOffset(cols * DIM, tr * DIM + i, tc * DIM + j) =
    IF tiled THEN (tr * cols + tc) * DIM * DIM + i * DIM + j
             ELSE tr * DIM * (cols * DIM) + tc * DIM + i * (cols * DIM) + j

LEMMA TiledPlace ==
  ASSUME NEW cols \in Nat \ {0}, NEW tr \in Nat, NEW tc \in Nat,
         NEW i \in TileIndexes, NEW j \in TileIndexes
  PROVE  PlacedAt(cols, tr, tc, i, j)
<1>1. DIM \in Nat \ {0} /\ i \in 0 .. DIM - 1 /\ j \in 0 .. DIM - 1
  BY DimAssumption DEF TileIndexes
<1>2. /\ (tr * DIM + i) \div DIM = tr /\ (tr * DIM + i) % DIM = i
      /\ (tc * DIM + j) \div DIM = tc /\ (tc * DIM + j) % DIM = j
  BY <1>1, QuotientOf
<1>3. (cols * DIM) \div DIM = cols
  <2>1. (cols * DIM + 0) \div DIM = cols /\ cols * DIM \in Nat
    BY <1>1, QuotientOf
  <2>2. QED
    BY <2>1
<1>4. (tr * DIM + i) * (cols * DIM) = tr * DIM * (cols * DIM) + i * (cols * DIM)
  BY <1>1, Z3
<1>5. /\ (tr * cols + tc) * DIM * DIM \in Nat /\ i * DIM \in Nat
      /\ tr * DIM * (cols * DIM) \in Nat /\ i * (cols * DIM) \in Nat /\ tc * DIM \in Nat
  <2>1. tr * cols \in Nat /\ cols * DIM \in Nat /\ tr * DIM \in Nat /\ i * DIM \in Nat /\ tc * DIM \in Nat
    BY <1>1, Z3
  <2>2. (tr * cols + tc) * DIM \in Nat /\ i * (cols * DIM) \in Nat
    BY <1>1, <2>1, Z3
  <2>3. (tr * cols + tc) * DIM * DIM \in Nat /\ tr * DIM * (cols * DIM) \in Nat
    BY <1>1, <2>1, <2>2, Z3
  <2>4. QED
    BY <2>1, <2>2, <2>3
<1>6. CASE tiled
  <2>1. LayoutOffset(cols * DIM, tr * DIM + i, tc * DIM + j) =
          (tr * cols + tc) * DIM * DIM + i * DIM + j
    BY <1>2, <1>3, <1>6 DEF LayoutOffset
  <2>2. QED
    BY <1>6, <2>1 DEF PlacedAt
<1>7. CASE ~ tiled
  <2>1. LayoutOffset(cols * DIM, tr * DIM + i, tc * DIM + j) =
          (tr * DIM + i) * (cols * DIM) + (tc * DIM + j)
    BY <1>7 DEF LayoutOffset
  <2>2. QED
    BY <1>1, <1>4, <1>5, <1>7, <2>1 DEF PlacedAt
<1>8. QED
  BY <1>6, <1>7 DEF PlacedAt

(* Tile and index in the tile of a row or column *)
LEMMA TileIndexOf ==
  ASSUME NEW n \in Nat, NEW x \in 0 .. n * DIM - 1
  PROVE  /\ x \div DIM \in 0 .. n - 1 /\ x % DIM \in TileIndexes
         /\ x = (x \div DIM) * DIM + (x % DIM)
<1>1. DIM \in Nat \ {0} /\ n * DIM \in Nat /\ x \in Nat /\ x < n * DIM
  <2>1. DIM \in Nat \ {0}
    BY DimAssumption
  <2>2. n * DIM \in Nat
    BY <2>1, Z3
  <2>3. QED
    BY <2>1, <2>2
<1> DEFINE q == x \div DIM
<1>2. q \in Nat /\ x % DIM \in 0 .. DIM - 1 /\ x = DIM * q + (x % DIM)
  BY <1>1, Division
<1> HIDE DEF q
<1>3. DIM * q = q * DIM /\ q * DIM \in Nat
  BY <1>1, <1>2, Z3
<1>4. q < n
  <2> SUFFICES ASSUME n <= q PROVE FALSE
    BY <1>2
  <2>1. n * DIM <= q * DIM
    BY <1>1, <1>2, ProductOrder
  <2>2. QED
    BY <1>1, <1>2, <1>3, <2>1
<1>5. QED
  BY <1>2, <1>3, <1>4 DEF q, TileIndexes

LEMMA RowInMatrix ==
  ASSUME NEW n \in Nat, NEW t \in 0 .. n - 1, NEW i \in TileIndexes
  PROVE  t * DIM + i \in 0 .. n * DIM - 1
<1>1. DIM \in Nat \ {0} /\ i \in 0 .. DIM - 1 /\ t \in Nat /\ t + 1 <= n
  BY DimAssumption DEF TileIndexes
<1>2. (t + 1) * DIM <= n * DIM
  BY <1>1, ProductOrder
<1>3. (t + 1) * DIM = t * DIM + DIM /\ t * DIM \in Nat /\ n * DIM \in Nat
  BY <1>1, Z3
<1>4. QED
  BY <1>1, <1>2, <1>3

(* An offset below width * (rows) *)
LEMMA PlaceBound ==
  ASSUME NEW rows \in Nat, NEW width \in Nat \ {0}, NEW r \in 0 .. rows - 1, NEW c \in 0 .. width - 1
  PROVE  r * width + c \in 0 .. rows * width - 1
<1>1. r \in Nat /\ r + 1 <= rows
  OBVIOUS
<1>2. (r + 1) * width <= rows * width
  BY <1>1, ProductOrder
<1>3. (r + 1) * width = r * width + width /\ r * width \in Nat /\ rows * width \in Nat
  BY <1>1, Z3
<1>4. QED
  BY <1>1, <1>2, <1>3

(* The quotient and the remainder of a place in the tiled layout *)
Splits(cols, tr, tc, i, j) ==
  /\ tr * cols + tc \in Nat /\ i * DIM + j \in 0 .. DIM * DIM - 1
  /\ (tr * cols + tc) * DIM * DIM + i * DIM + j
       = (tr * cols + tc) * (DIM * DIM) + (i * DIM + j)

LEMMA TiledSum ==
  ASSUME NEW cols \in Nat \ {0}, NEW tr \in Nat, NEW tc \in 0 .. cols - 1,
         NEW i \in TileIndexes, NEW j \in TileIndexes
  PROVE  Splits(cols, tr, tc, i, j)
<1>1. DIM \in Nat \ {0} /\ i \in 0 .. DIM - 1 /\ j \in 0 .. DIM - 1 /\ tc \in Nat
  BY DimAssumption DEF TileIndexes
<1>2. i * DIM + j \in 0 .. DIM * DIM - 1
  BY <1>1, PlaceBound
<1>3. tr * cols + tc \in Nat
  BY <1>1, Z3
<1> DEFINE q == tr * cols + tc
<1> HIDE DEF q
<1>4. q \in Nat
  BY <1>3 DEF q
<1>5. q * DIM * DIM = q * (DIM * DIM) /\ q * (DIM * DIM) \in Nat /\ i * DIM \in Nat
  <2>1. q * DIM * DIM = q * (DIM * DIM)
    BY <1>1, <1>4, Z3
  <2>2. DIM * DIM \in Nat /\ i * DIM \in Nat
    BY <1>1, Z3
  <2>3. q * (DIM * DIM) \in Nat
    BY <1>4, <2>2, Z3
  <2>4. QED
    BY <2>1, <2>2, <2>3
<1>6. q * DIM * DIM + i * DIM + j = q * (DIM * DIM) + (i * DIM + j)
  BY <1>1, <1>5
<1>7. QED
  BY <1>2, <1>3, <1>6 DEF q, Splits

(* Different elements lie in different places. *)
LEMMA LayoutInjective ==
  ASSUME NEW rows \in Nat, NEW cols \in Nat \ {0},
         NEW r \in 0 .. rows * DIM - 1, NEW c \in 0 .. cols * DIM - 1,
         NEW s \in 0 .. rows * DIM - 1, NEW d \in 0 .. cols * DIM - 1,
         LayoutOffset(cols * DIM, r, c) = LayoutOffset(cols * DIM, s, d)
  PROVE  r = s /\ c = d
<1> DEFINE tr == r \div DIM
           tc == c \div DIM
           ts == s \div DIM
           td == d \div DIM
           i == r % DIM
           j == c % DIM
           k == s % DIM
           l == d % DIM
<1>1. /\ tr \in 0 .. rows - 1 /\ i \in TileIndexes /\ r = tr * DIM + i
      /\ tc \in 0 .. cols - 1 /\ j \in TileIndexes /\ c = tc * DIM + j
      /\ ts \in 0 .. rows - 1 /\ k \in TileIndexes /\ s = ts * DIM + k
      /\ td \in 0 .. cols - 1 /\ l \in TileIndexes /\ d = td * DIM + l
  BY TileIndexOf
<1>2. /\ DIM \in Nat \ {0} /\ DIM * DIM \in Nat \ {0} /\ cols * DIM \in Nat \ {0}
      /\ TileIndexes = 0 .. DIM - 1
  <2>1. DIM \in Nat \ {0}
    BY DimAssumption
  <2>2. DIM * DIM \in Nat \ {0} /\ cols * DIM \in Nat \ {0}
    BY <2>1, Z3
  <2>3. QED
    BY <2>1, <2>2 DEF TileIndexes
<1>3. CASE ~ tiled
  <2>1. r * (cols * DIM) + c = s * (cols * DIM) + d
    BY <1>3 DEF LayoutOffset
  <2>2. r \in Nat /\ s \in Nat
    OBVIOUS
  <2> DEFINE w == cols * DIM
  <2>3. w \in Nat \ {0} /\ c \in 0 .. w - 1 /\ d \in 0 .. w - 1
    BY <1>2
  <2> HIDE DEF w
  <2>4. r * w + c = s * w + d
    BY <2>1 DEF w
  <2>5. QED
    BY <2>2, <2>3, <2>4, UniqueDivision
<1>4. CASE tiled
  <2>0. cols * DIM \in Nat /\ (cols * DIM) \div DIM = cols
    <3>1. (cols * DIM + 0) \div DIM = cols /\ cols * DIM \in Nat
      BY <1>2, QuotientOf
    <3>2. QED
      BY <3>1
  <2>1. (tr * cols + tc) * DIM * DIM + i * DIM + j = (ts * cols + td) * DIM * DIM + k * DIM + l
    BY <1>4, <2>0 DEF LayoutOffset
  <2> HIDE DEF tr, tc, ts, td, i, j, k, l
  <2>2. tr \in Nat /\ ts \in Nat
    BY <1>1
  <2>3. /\ tr * cols + tc \in Nat /\ i * DIM + j \in 0 .. DIM * DIM - 1
        /\ ts * cols + td \in Nat /\ k * DIM + l \in 0 .. DIM * DIM - 1
        /\ (tr * cols + tc) * (DIM * DIM) + (i * DIM + j)
             = (ts * cols + td) * (DIM * DIM) + (k * DIM + l)
    <3>1. Splits(cols, tr, tc, i, j)
      BY <1>1, <2>2, TiledSum
    <3>2. Splits(cols, ts, td, k, l)
      BY <1>1, <2>2, TiledSum
    <3>3. QED
      BY <2>1, <3>1, <3>2, Zenon DEF Splits
  <2> DEFINE p == tr * cols + tc
             q == ts * cols + td
             u == i * DIM + j
             v == k * DIM + l
             n == DIM * DIM
  <2>4. /\ p \in Nat /\ q \in Nat /\ u \in 0 .. n - 1 /\ v \in 0 .. n - 1 /\ n \in Nat \ {0}
        /\ p * n + u = q * n + v
    BY <1>2, <2>3
  <2> HIDE DEF p, q, u, v, n
  <2>5. p = q /\ u = v
    BY <2>4, UniqueDivision
  <2>6. tr = ts /\ tc = td
    BY <1>1, <2>2, <2>5, UniqueDivision DEF p, q
  <2>7. i = k /\ j = l
    <3>1. i \in Nat /\ k \in Nat /\ j \in 0 .. DIM - 1 /\ l \in 0 .. DIM - 1
      BY <1>1, <1>2
    <3>2. QED
      BY <1>2, <2>5, <3>1, UniqueDivision DEF u, v
  <2>8. QED
    BY <1>1, <2>6, <2>7
<1>5. QED
  BY <1>3, <1>4

LEMMA LayoutBound ==
  ASSUME NEW rows \in Nat, NEW cols \in Nat \ {0},
         NEW r \in 0 .. rows * DIM - 1, NEW c \in 0 .. cols * DIM - 1
  PROVE  LayoutOffset(cols * DIM, r, c) \in 0 .. (rows * DIM) * (cols * DIM) - 1
<1>1. /\ DIM \in Nat \ {0} /\ DIM * DIM \in Nat \ {0} /\ cols * DIM \in Nat \ {0}
      /\ rows * DIM \in Nat /\ rows * cols \in Nat
  <2>1. DIM \in Nat \ {0}
    BY DimAssumption
  <2>2. DIM * DIM \in Nat \ {0} /\ cols * DIM \in Nat \ {0} /\ rows * DIM \in Nat /\ rows * cols \in Nat
    BY <2>1, Z3
  <2>3. QED
    BY <2>1, <2>2
<1>2. CASE ~ tiled
  <2>1. r * (cols * DIM) + c \in 0 .. (rows * DIM) * (cols * DIM) - 1
    <3> DEFINE w == cols * DIM
               n == rows * DIM
    <3>1. w \in Nat \ {0} /\ n \in Nat /\ r \in 0 .. n - 1 /\ c \in 0 .. w - 1
      BY <1>1
    <3> HIDE DEF w, n
    <3>2. r * w + c \in 0 .. n * w - 1
      BY <3>1, PlaceBound
    <3>3. QED
      BY <3>2 DEF w, n
  <2>2. QED
    BY <1>2, <2>1 DEF LayoutOffset
<1>3. CASE tiled
  <2> DEFINE tr == r \div DIM
             tc == c \div DIM
             i == r % DIM
             j == c % DIM
             p == tr * cols + tc
             n == DIM * DIM
             N == rows * cols
  <2>1. /\ tr \in 0 .. rows - 1 /\ i \in TileIndexes
        /\ tc \in 0 .. cols - 1 /\ j \in TileIndexes
    BY TileIndexOf
  <2>2. (cols * DIM) \div DIM = cols
    <3>1. (cols * DIM + 0) \div DIM = cols /\ cols * DIM \in Nat
      BY <1>1, QuotientOf
    <3>2. QED
      BY <3>1
  <2>3. LayoutOffset(cols * DIM, r, c) = (tr * cols + tc) * DIM * DIM + i * DIM + j
    BY <1>3, <2>2 DEF LayoutOffset
  <2> HIDE DEF tr, tc, i, j
  <2>4. /\ i * DIM + j \in 0 .. n - 1
        /\ LayoutOffset(cols * DIM, r, c) = p * n + (i * DIM + j)
    <3>1. tr \in Nat
      BY <2>1
    <3>2. Splits(cols, tr, tc, i, j)
      BY <2>1, <3>1, TiledSum
    <3>3. QED
      BY <2>3, <3>2, Zenon DEF Splits
  <2>5. p \in 0 .. N - 1
    BY <2>1, PlaceBound
  <2>6. N * n = (rows * DIM) * (cols * DIM)
    BY <1>1, Z3
  <2>7. n \in Nat \ {0} /\ N \in Nat
    BY <1>1
  <2> DEFINE u == i * DIM + j
  <2> HIDE DEF p, n, N, u
  <2>8. p * n + u \in 0 .. N * n - 1
    BY <2>4, <2>5, <2>7, PlaceBound DEF u
  <2>9. QED
    BY <2>4, <2>6, <2>8 DEF u
<1>4. QED
  BY <1>2, <1>3

(* ElementAt inverts LayoutOffset. *)
OfTiles(matrix, rows, cols) ==
  DOMAIN matrix = (0 .. rows * DIM - 1) \X (0 .. cols * DIM - 1)
FoundAt(matrix, cols, r, c) ==
  ElementAt(matrix, cols * DIM, LayoutOffset(cols * DIM, r, c)) = matrix[<<r, c>>]

LEMMA ElementAtPlace ==
  ASSUME NEW rows \in Nat, NEW cols \in Nat \ {0}, NEW matrix, OfTiles(matrix, rows, cols),
         NEW r \in 0 .. rows * DIM - 1, NEW c \in 0 .. cols * DIM - 1
  PROVE  FoundAt(matrix, cols, r, c)
<1> DEFINE Lies(rc) == LayoutOffset(cols * DIM, rc[1], rc[2]) = LayoutOffset(cols * DIM, r, c)
<1>1. <<r, c>> \in DOMAIN matrix /\ Lies(<<r, c>>)
  BY DEF OfTiles
<1>2. ASSUME NEW rc \in DOMAIN matrix, Lies(rc) PROVE rc = <<r, c>>
  <2>1. /\ rc[1] \in 0 .. rows * DIM - 1 /\ rc[2] \in 0 .. cols * DIM - 1
        /\ rc = <<rc[1], rc[2]>>
    BY DEF OfTiles
  <2>2. rc[1] = r /\ rc[2] = c
    BY <1>2, <2>1, LayoutInjective
  <2>3. QED
    BY <2>1, <2>2
<1> DEFINE at == CHOOSE rc \in DOMAIN matrix : Lies(rc)
<1>3. at \in DOMAIN matrix /\ Lies(at)
  <2> HIDE DEF Lies
  <2> QED
    BY <1>1
<1>4. at = <<r, c>>
  <2> HIDE DEF at, Lies
  <2> QED
    BY <1>2, <1>3
<1>5. QED
  BY <1>4 DEF ElementAt, FoundAt

(* Sizes and bases *)
LEMMA Bases ==
  ASSUME size \in Sizes
  PROVE  /\ a_base = 0 /\ b_base = PK * PM /\ c_base = PK * PM + PK * PN
         /\ PK * PM \in Nat /\ PK * PN \in Nat /\ PM * PN \in Nat
<1>1. PM \in Nat /\ PK \in Nat /\ PN \in Nat
  BY TileCounts
<1>2. PK * PM \in Nat /\ PK * PN \in Nat /\ PM * PN \in Nat
  BY <1>1, Z3
<1>3. QED
  BY <1>2 DEF a_base, b_base, c_base

LEMMA MatrixDomains ==
  ASSUME size \in Sizes
  PROVE  OfTiles(AT, KT, MT) /\ OfTiles(B, KT, NT)
<1>1. PM = MT * DIM /\ PK = KT * DIM /\ PN = NT * DIM
  BY TileCounts
<1>2. DOMAIN AT = (0 .. PK - 1) \X (0 .. PM - 1) /\ DOMAIN B = (0 .. PK - 1) \X (0 .. PN - 1)
  BY DEF AT, B, Padded, PK, PM, PN
<1>3. QED
  BY <1>1, <1>2 DEF OfTiles

(* What is read of A and B *)

LEMMA ReadsTileOfA ==
  ASSUME size \in Sizes, NEW memory, HoldsA(memory),
         NEW mt \in 0 .. MT - 1, NEW kt \in 0 .. KT - 1,
         NEW i \in TileIndexes, NEW j \in TileIndexes
  PROVE  memory[a_dram(mt, kt) + i * a_dram_stride + j] = AT[<<kt * DIM + i, mt * DIM + j>>]
<1>1. /\ MT \in Nat \ {0} /\ KT \in Nat \ {0} /\ PM = MT * DIM /\ PK = KT * DIM
      /\ PM \in Nat /\ PK \in Nat
  BY TileCounts
<1>2. kt \in Nat /\ mt \in Nat /\ DIM \in Nat \ {0} /\ i \in Nat /\ j \in Nat
  BY <1>1, DimAssumption DEF TileIndexes
<1> DEFINE offset == LayoutOffset(MT * DIM, kt * DIM + i, mt * DIM + j)
<1>3. offset = IF tiled THEN (kt * MT + mt) * DIM * DIM + i * DIM + j
                        ELSE kt * DIM * (MT * DIM) + mt * DIM + i * (MT * DIM) + j
  <2>1. PlacedAt(MT, kt, mt, i, j)
    BY <1>1, <1>2, TiledPlace
  <2>2. QED
    BY <2>1 DEF PlacedAt
<1>4. kt * DIM + i \in 0 .. KT * DIM - 1 /\ mt * DIM + j \in 0 .. MT * DIM - 1
  BY <1>1, RowInMatrix
<1>5. offset \in 0 .. (KT * DIM) * (MT * DIM) - 1
  BY <1>1, <1>4, LayoutBound
<1>6. ElementAt(AT, MT * DIM, offset) = AT[<<kt * DIM + i, mt * DIM + j>>]
  <2> DEFINE r == kt * DIM + i
             c == mt * DIM + j
  <2>1. r \in 0 .. KT * DIM - 1 /\ c \in 0 .. MT * DIM - 1
    BY <1>4
  <2>2. OfTiles(AT, KT, MT) /\ KT \in Nat
    BY <1>1, MatrixDomains
  <2> HIDE DEF r, c
  <2>3. FoundAt(AT, MT, r, c)
    BY <1>1, <2>1, <2>2, ElementAtPlace
  <2>4. QED
    BY <2>3 DEF FoundAt, r, c
<1>7. a_dram(mt, kt) + i * a_dram_stride + j = a_base + offset
  <2>1. a_base = 0 /\ offset \in Nat
    BY <1>5 DEF a_base
  <2>2. CASE tiled
    <3>1. a_dram(mt, kt) = 0 + (kt * MT + mt) * DIM * DIM /\ a_dram_stride = DIM
      BY <2>1, <2>2 DEF a_dram, a_dram_stride
    <3>2. offset = (kt * MT + mt) * DIM * DIM + i * DIM + j
      BY <1>3, <2>2
    <3>3. (kt * MT + mt) * DIM * DIM \in Nat
      BY <1>1, <1>2, Z3
    <3> HIDE DEF offset
    <3>4. QED
      BY <2>1, <3>1, <3>2, <3>3
  <2>3. CASE ~ tiled
    <3>1. a_dram(mt, kt) = 0 + (kt * DIM * PM + mt * DIM) /\ a_dram_stride = PM
      BY <2>1, <2>3 DEF a_dram, a_dram_stride
    <3>2. offset = kt * DIM * PM + mt * DIM + i * PM + j
      BY <1>1, <1>3, <2>3
    <3>3. kt * DIM * PM \in Nat /\ mt * DIM \in Nat /\ i * PM \in Nat
      BY <1>1, <1>2, Z3
    <3> HIDE DEF offset
    <3>4. QED
      BY <2>1, <3>1, <3>2, <3>3
  <2>4. QED
    BY <2>2, <2>3
<1> HIDE DEF offset
<1>8. memory[a_base + offset] = ElementAt(AT, PM, offset)
  BY <1>1, <1>5 DEF HoldsA
<1>9. QED
  BY <1>1, <1>6, <1>7, <1>8

LEMMA ReadsTileOfB ==
  ASSUME size \in Sizes, NEW memory, HoldsB(memory),
         NEW kt \in 0 .. KT - 1, NEW nt \in 0 .. NT - 1,
         NEW i \in TileIndexes, NEW j \in TileIndexes
  PROVE  memory[b_dram(kt, nt) + i * b_dram_stride + j] = B[<<kt * DIM + i, nt * DIM + j>>]
<1>1. /\ NT \in Nat \ {0} /\ KT \in Nat \ {0} /\ PN = NT * DIM /\ PK = KT * DIM
      /\ PN \in Nat /\ PK \in Nat
  BY TileCounts
<1>2. kt \in Nat /\ nt \in Nat /\ DIM \in Nat \ {0} /\ i \in Nat /\ j \in Nat
  BY <1>1, DimAssumption DEF TileIndexes
<1> DEFINE offset == LayoutOffset(NT * DIM, kt * DIM + i, nt * DIM + j)
<1>3. offset = IF tiled THEN (kt * NT + nt) * DIM * DIM + i * DIM + j
                        ELSE kt * DIM * (NT * DIM) + nt * DIM + i * (NT * DIM) + j
  <2>1. PlacedAt(NT, kt, nt, i, j)
    BY <1>1, <1>2, TiledPlace
  <2>2. QED
    BY <2>1 DEF PlacedAt
<1>4. kt * DIM + i \in 0 .. KT * DIM - 1 /\ nt * DIM + j \in 0 .. NT * DIM - 1
  BY <1>1, RowInMatrix
<1>5. offset \in 0 .. (KT * DIM) * (NT * DIM) - 1
  BY <1>1, <1>4, LayoutBound
<1>6. ElementAt(B, NT * DIM, offset) = B[<<kt * DIM + i, nt * DIM + j>>]
  <2> DEFINE r == kt * DIM + i
             c == nt * DIM + j
  <2>1. r \in 0 .. KT * DIM - 1 /\ c \in 0 .. NT * DIM - 1
    BY <1>4
  <2>2. OfTiles(B, KT, NT) /\ KT \in Nat
    BY <1>1, MatrixDomains
  <2> HIDE DEF r, c
  <2>3. FoundAt(B, NT, r, c)
    BY <1>1, <2>1, <2>2, ElementAtPlace
  <2>4. QED
    BY <2>3 DEF FoundAt, r, c
<1>7. b_dram(kt, nt) + i * b_dram_stride + j = b_base + offset
  <2>1. b_base \in Nat /\ offset \in Nat
    BY <1>5, Bases
  <2>2. CASE tiled
    <3>1. b_dram(kt, nt) = b_base + (kt * NT + nt) * DIM * DIM /\ b_dram_stride = DIM
      BY <2>2 DEF b_dram, b_dram_stride
    <3>2. offset = (kt * NT + nt) * DIM * DIM + i * DIM + j
      BY <1>3, <2>2
    <3>3. (kt * NT + nt) * DIM * DIM \in Nat /\ i * DIM \in Nat
      BY <1>1, <1>2, Z3
    <3> HIDE DEF offset
    <3>4. QED
      BY <1>2, <2>1, <3>1, <3>2, <3>3
  <2>3. CASE ~ tiled
    <3>1. b_dram(kt, nt) = b_base + (kt * DIM * PN + nt * DIM) /\ b_dram_stride = PN
      BY <2>3 DEF b_dram, b_dram_stride
    <3>2. offset = kt * DIM * PN + nt * DIM + i * PN + j
      BY <1>1, <1>3, <2>3
    <3>3. kt * DIM * PN \in Nat /\ nt * DIM \in Nat /\ i * PN \in Nat
      BY <1>1, <1>2, Z3
    <3> HIDE DEF offset
    <3>4. QED
      BY <1>2, <2>1, <3>1, <3>2, <3>3
  <2>4. QED
    BY <2>2, <2>3
<1> HIDE DEF offset
<1>8. memory[b_base + offset] = ElementAt(B, PN, offset)
  BY <1>1, <1>5 DEF HoldsB
<1>9. QED
  BY <1>1, <1>6, <1>7, <1>8

LEMMA PlaceInC ==
  ASSUME size \in Sizes, NEW mt \in 0 .. MT - 1, NEW nt \in 0 .. NT - 1,
         NEW i \in TileIndexes, NEW j \in TileIndexes
  PROVE  /\ PlaceOfC(mt, nt, i, j) = c_base + ((mt * DIM + i) * PN + (nt * DIM + j))
         /\ mt * DIM + i \in 0 .. PM - 1 /\ nt * DIM + j \in 0 .. PN - 1
         /\ (mt * DIM + i) * PN + (nt * DIM + j) \in 0 .. PM * PN - 1
<1>1. /\ NT \in Nat \ {0} /\ MT \in Nat \ {0} /\ PN = NT * DIM /\ PM = MT * DIM
      /\ PN \in Nat \ {0} /\ PM \in Nat /\ c_base \in Nat
  BY TileCounts, Bases
<1>2. mt \in Nat /\ nt \in Nat /\ DIM \in Nat \ {0} /\ i \in Nat /\ j \in Nat
  BY <1>1, DimAssumption DEF TileIndexes
<1>3. mt * DIM + i \in 0 .. PM - 1 /\ nt * DIM + j \in 0 .. PN - 1
  BY <1>1, RowInMatrix
<1>4. (mt * DIM + i) * PN + (nt * DIM + j) \in 0 .. PM * PN - 1
  BY <1>1, <1>3, PlaceBound
<1>5. (mt * DIM + i) * PN = mt * DIM * PN + i * PN
  BY <1>1, <1>2, Z3
<1>6. mt * DIM * PN \in Nat /\ nt * DIM \in Nat /\ i * PN \in Nat
  BY <1>1, <1>2, Z3
<1>7. PlaceOfC(mt, nt, i, j) = c_base + mt * DIM * PN + nt * DIM + i * PN + j
  BY DEF PlaceOfC, c_dram, c_dram_stride
<1>8. PlaceOfC(mt, nt, i, j) = c_base + ((mt * DIM + i) * PN + (nt * DIM + j))
  BY <1>1, <1>2, <1>5, <1>6, <1>7
<1>9. QED
  BY <1>3, <1>4, <1>8

LEMMA PlacesInCApart ==
  ASSUME size \in Sizes, NEW mt \in 0 .. MT - 1, NEW nt \in 0 .. NT - 1,
         NEW i \in TileIndexes, NEW j \in TileIndexes,
         NEW mt2 \in 0 .. MT - 1, NEW nt2 \in 0 .. NT - 1,
         NEW k \in TileIndexes, NEW l \in TileIndexes,
         PlaceOfC(mt, nt, i, j) = PlaceOfC(mt2, nt2, k, l)
  PROVE  mt = mt2 /\ nt = nt2 /\ i = k /\ j = l
<1>1. /\ NT \in Nat \ {0} /\ MT \in Nat \ {0} /\ PN \in Nat \ {0} /\ PM \in Nat
      /\ c_base \in Nat
  BY TileCounts, Bases
<1>2. /\ mt \in Nat /\ nt \in Nat /\ mt2 \in Nat /\ nt2 \in Nat /\ DIM \in Nat \ {0}
      /\ i \in 0 .. DIM - 1 /\ j \in 0 .. DIM - 1 /\ k \in 0 .. DIM - 1 /\ l \in 0 .. DIM - 1
  BY <1>1, DimAssumption DEF TileIndexes
<1> DEFINE r == mt * DIM + i
           c == nt * DIM + j
           s == mt2 * DIM + k
           d == nt2 * DIM + l
<1>3. /\ PlaceOfC(mt, nt, i, j) = c_base + (r * PN + c)
      /\ r \in 0 .. PM - 1 /\ c \in 0 .. PN - 1 /\ r * PN + c \in 0 .. PM * PN - 1
  BY PlaceInC
<1>4. /\ PlaceOfC(mt2, nt2, k, l) = c_base + (s * PN + d)
      /\ s \in 0 .. PM - 1 /\ d \in 0 .. PN - 1 /\ s * PN + d \in 0 .. PM * PN - 1
  BY PlaceInC
<1> HIDE DEF r, c, s, d
<1>5. r * PN + c = s * PN + d
  <2> DEFINE x == r * PN + c
             y == s * PN + d
  <2>1. x \in Int /\ y \in Int /\ c_base + x = c_base + y
    <3>1. c_base + x = c_base + y
      BY <1>3, <1>4, Zenon
    <3>2. PM * PN \in Nat
      BY Bases
    <3>3. x \in Int /\ y \in Int
      BY <1>3, <1>4, <3>2
    <3>4. QED
      BY <3>1, <3>3
  <2> HIDE DEF x, y
  <2>2. x = y
    BY <1>1, <2>1
  <2>3. QED
    BY <2>2 DEF x, y
<1>6. r = s /\ c = d
  <2>1. r \in Nat /\ s \in Nat
    BY <1>1, <1>3, <1>4
  <2>2. QED
    BY <1>1, <1>3, <1>4, <1>5, <2>1, UniqueDivision
<1>7. mt = mt2 /\ i = k
  BY <1>2, <1>6, UniqueDivision DEF r, s
<1>8. nt = nt2 /\ j = l
  BY <1>2, <1>6, UniqueDivision DEF c, d
<1>9. QED
  BY <1>7, <1>8

-----------------------------------------------------------------------------
(* Writing a tile *)

(* The rows of one slot change, to those of the tile, and no other's. *)
LEMMA TileWritten ==
  ASSUME DOMAIN spad = FlatAddrs, NEW slot \in StrideSlots, NEW tile, WriteRows(slot, tile)
  PROVE  /\ DOMAIN spad' = FlatAddrs
         /\ \A r \in TileIndexes : spad'[RowOf(slot, r)] = tile[r]
         /\ \A other \in StrideSlots, r \in TileIndexes :
              other # slot => spad'[RowOf(other, r)] = spad[RowOf(other, r)]
<1>1. DOMAIN spad' = FlatAddrs
  BY DEF WriteRows
<1>2. ASSUME NEW other \in StrideSlots, NEW r \in TileIndexes
      PROVE  RowOf(other, r) \in FlatAddrs
  BY SlotShape DEF RowOf
<1>3. ASSUME NEW r \in TileIndexes PROVE spad'[RowOf(slot, r)] = tile[r]
  <2> DEFINE at == CHOOSE i \in TileIndexes : RowOf(slot, i) = RowOf(slot, r)
  <2>1. at \in TileIndexes /\ RowOf(slot, at) = RowOf(slot, r)
    OBVIOUS
  <2>2. at = r
    <3> HIDE DEF at
    <3> QED
      BY <2>1, SlotsApart DEF RowOf
  <2>3. spad'[RowOf(slot, r)] = tile[at]
    BY <1>2 DEF WriteRows
  <2> HIDE DEF at
  <2>4. QED
    BY <2>2, <2>3
<1>4. ASSUME NEW other \in StrideSlots, NEW r \in TileIndexes, other # slot
      PROVE  spad'[RowOf(other, r)] = spad[RowOf(other, r)]
  <2>1. ~ \E i \in TileIndexes : RowOf(slot, i) = RowOf(other, r)
    BY <1>4, SlotsApart DEF RowOf
  <2>2. QED
    BY <1>2, <2>1 DEF WriteRows
<1>5. QED
  BY <1>1, <1>3, <1>4

(* The memory after an mvout from the slot to address base *)
MvoutDram(base, stride, slot) ==
  [addr \in DOMAIN dram |->
     IF \E i, j \in TileIndexes : base + i * stride + j = addr
     THEN LET ij == CHOOSE ij \in TileIndexes \X TileIndexes : base + ij[1] * stride + ij[2] = addr
          IN  spad[RowOf(slot, ij[1])][ij[2]]
     ELSE dram[addr]]

(* What the memory holds after the tile of C at slot is written out *)
LEMMA TileStored ==
  ASSUME size \in Sizes, DOMAIN dram = 0 .. c_base + PM * PN - 1,
         NEW mt \in 0 .. MT - 1, NEW nt \in 0 .. NT - 1, NEW slot,
         dram' = MvoutDram(c_dram(mt, nt), c_dram_stride, slot)
  PROVE  /\ DOMAIN dram' = DOMAIN dram
         /\ \A addr \in 0 .. c_base - 1 : dram'[addr] = dram[addr]
         /\ \A i, j \in TileIndexes : dram'[PlaceOfC(mt, nt, i, j)] = spad[RowOf(slot, i)][j]
         /\ \A mt2 \in 0 .. MT - 1, nt2 \in 0 .. NT - 1, i, j \in TileIndexes :
              <<mt2, nt2>> # <<mt, nt>> =>
                dram'[PlaceOfC(mt2, nt2, i, j)] = dram[PlaceOfC(mt2, nt2, i, j)]
<1> DEFINE Here(addr) == \E i, j \in TileIndexes : PlaceOfC(mt, nt, i, j) = addr
           Is(ij, addr) == PlaceOfC(mt, nt, ij[1], ij[2]) = addr
           at(addr) == CHOOSE ij \in TileIndexes \X TileIndexes : Is(ij, addr)
<1>1. dram' = [addr \in DOMAIN dram |->
                 IF Here(addr) THEN spad[RowOf(slot, at(addr)[1])][at(addr)[2]] ELSE dram[addr]]
  BY Zenon DEF MvoutDram, PlaceOfC
<1>2. c_base \in Nat /\ PM * PN \in Nat
  BY Bases
<1>3. ASSUME NEW mt2 \in 0 .. MT - 1, NEW nt2 \in 0 .. NT - 1,
             NEW i \in TileIndexes, NEW j \in TileIndexes
      PROVE  PlaceOfC(mt2, nt2, i, j) \in DOMAIN dram /\ PlaceOfC(mt2, nt2, i, j) >= c_base
  <2> DEFINE x == (mt2 * DIM + i) * PN + (nt2 * DIM + j)
             n == PM * PN
  <2>1. PlaceOfC(mt2, nt2, i, j) = c_base + x /\ x \in 0 .. n - 1
    BY PlaceInC
  <2>2. n \in Nat
    BY <1>2
  <2> HIDE DEF x
  <2>3. c_base + x \in 0 .. c_base + n - 1 /\ c_base + x >= c_base
    <3> HIDE DEF n
    <3> QED
      BY <1>2, <2>1, <2>2
  <2>4. QED
    BY <2>1, <2>3
<1>4. DOMAIN dram' = DOMAIN dram
  BY <1>1
<1>5. ASSUME NEW addr \in DOMAIN dram, ~ Here(addr) PROVE dram'[addr] = dram[addr]
  BY <1>1, <1>5
<1>6. ASSUME NEW addr \in 0 .. c_base - 1 PROVE dram'[addr] = dram[addr]
  <2>1. addr \in DOMAIN dram
    <3> DEFINE n == PM * PN
    <3>1. n \in Nat
      BY <1>2
    <3> HIDE DEF n
    <3>2. addr \in 0 .. c_base + n - 1
      BY <1>2, <3>1
    <3>3. QED
      BY <3>2 DEF n
  <2>2. ~ Here(addr)
    BY <1>2, <1>3
  <2>3. QED
    BY <1>5, <2>1, <2>2
<1>7. ASSUME NEW i \in TileIndexes, NEW j \in TileIndexes
      PROVE  dram'[PlaceOfC(mt, nt, i, j)] = spad[RowOf(slot, i)][j]
  <2> DEFINE addr == PlaceOfC(mt, nt, i, j)
  <2>1. addr \in DOMAIN dram /\ Here(addr)
    BY <1>3
  <2>2. <<i, j>> \in TileIndexes \X TileIndexes /\ Is(<<i, j>>, addr)
    OBVIOUS
  <2>3. at(addr) \in TileIndexes \X TileIndexes /\ Is(at(addr), addr)
    <3> HIDE DEF Is, addr
    <3> QED
      BY <2>2
  <2>4. PICK k, l \in TileIndexes : at(addr) = <<k, l>>
    <3> HIDE DEF at
    <3> QED
      BY <2>3
  <2>5. PlaceOfC(mt, nt, k, l) = PlaceOfC(mt, nt, i, j)
    <3> HIDE DEF at
    <3> QED
      BY <2>3, <2>4
  <2>6. k = i /\ l = j
    BY <2>5, PlacesInCApart
  <2>7. dram'[addr] = spad[RowOf(slot, at(addr)[1])][at(addr)[2]]
    <3> HIDE DEF addr
    <3> QED
      BY <1>1, <2>1
  <2>8. at(addr)[1] = i /\ at(addr)[2] = j
    <3> HIDE DEF at
    <3> QED
      BY <2>4, <2>6
  <2> HIDE DEF at
  <2>9. QED
    BY <2>7, <2>8
<1>8. ASSUME NEW mt2 \in 0 .. MT - 1, NEW nt2 \in 0 .. NT - 1,
             NEW i \in TileIndexes, NEW j \in TileIndexes, <<mt2, nt2>> # <<mt, nt>>
      PROVE  dram'[PlaceOfC(mt2, nt2, i, j)] = dram[PlaceOfC(mt2, nt2, i, j)]
  <2>1. ~ Here(PlaceOfC(mt2, nt2, i, j))
    BY <1>8, PlacesInCApart
  <2>2. PlaceOfC(mt2, nt2, i, j) \in DOMAIN dram
    BY <1>3
  <2> HIDE DEF Here
  <2>3. QED
    BY <1>5, <2>1, <2>2
<1>9. QED
  BY <1>4, <1>6, <1>7, <1>8

-----------------------------------------------------------------------------
(* Sums of products *)

LEMMA BagsAdd ==
  ASSUME NEW S, NEW T, S \cap T = {}
  PROVE  SetToBag(S) (+) SetToBag(T) = SetToBag(S \cup T)
<1> DEFINE x == SetToBag(S)
           y == SetToBag(T)
<1>1. /\ DOMAIN x = S /\ DOMAIN y = T
      /\ (\A e \in S : x[e] = 1) /\ (\A e \in T : y[e] = 1)
  BY DEF SetToBag
<1>2. x (+) y = [e \in S \cup T |-> (IF e \in S THEN x[e] ELSE 0) + (IF e \in T THEN y[e] ELSE 0)]
  BY <1>1 DEF (+)
<1>3. ASSUME NEW e \in S \cup T
      PROVE  (IF e \in S THEN x[e] ELSE 0) + (IF e \in T THEN y[e] ELSE 0) = 1
  <2>1. CASE e \in S
    <3>1. e \notin T
      BY <2>1
    <3>2. x[e] = 1
      BY <2>1 DEF SetToBag
    <3> HIDE DEF x, y
    <3>3. QED
      BY <2>1, <3>1, <3>2
  <2>2. CASE e \in T
    <3>1. e \notin S
      BY <2>2
    <3>2. y[e] = 1
      BY <2>2 DEF SetToBag
    <3> HIDE DEF x, y
    <3>3. QED
      BY <2>2, <3>1, <3>2
  <2>3. QED
    BY <2>1, <2>2
<1> HIDE DEF x, y
<1>4. x (+) y = [e \in S \cup T |-> 1]
  BY <1>2, <1>3
<1>5. QED
  BY <1>4 DEF SetToBag, x, y

LEMMA BagWithNothing ==
  ASSUME NEW S
  PROVE  SetToBag(S) (+) EmptyBag = SetToBag(S)
<1>1. SetToBag(S) (+) SetToBag({}) = SetToBag(S \cup {}) /\ S \cup {} = S
  BY BagsAdd
<1>2. QED
  BY <1>1 DEF EmptyBag

(* The product of element m of A's row k and element n of B's *)
ProductName(m, n, k) == <<"AT", k, m, "B", k, n>>
Inside(m, n, k) == k < size.K /\ m < size.M /\ n < size.N

LEMMA ProductOfElements ==
  ASSUME size \in Sizes, NEW k \in 0 .. PK - 1, NEW m \in 0 .. PM - 1, NEW n \in 0 .. PN - 1
  PROVE  Product(AT[<<k, m>>], B[<<k, n>>]) =
           IF Inside(m, n, k) THEN {ProductName(m, n, k)} ELSE {}
<1>1. AT[<<k, m>>] = IF k < size.K /\ m < size.M THEN Element("AT", k, m) ELSE Padding
  BY DEF AT, Padded, PK, PM
<1>2. B[<<k, n>>] = IF k < size.K /\ n < size.N THEN Element("B", k, n) ELSE Padding
  BY DEF B, Padded, PK, PN
<1>3. /\ Element("AT", k, m).of = "AT" /\ Element("B", k, n).of = "B" /\ Padding.of = "zero"
      /\ Element("AT", k, m).row = k /\ Element("B", k, n).row = k
      /\ Element("AT", k, m).col = m /\ Element("B", k, n).col = n
  BY DEF Element, Padding
<1>4. Element("AT", k, m) # Padding /\ Element("B", k, n) # Padding
  <2>1. "AT" # "zero" /\ "B" # "zero"
    OBVIOUS
  <2>2. QED
    BY <1>3, <2>1
<1>5. CASE Inside(m, n, k)
  BY <1>1, <1>2, <1>3, <1>4, <1>5 DEF Inside, Product, ProductName
<1>6. CASE ~ Inside(m, n, k)
  <2>1. AT[<<k, m>>] = Padding \/ B[<<k, n>>] = Padding
    BY <1>1, <1>2, <1>6 DEF Inside
  <2>2. QED
    BY <1>6, <2>1 DEF Product
<1>7. QED
  BY <1>5, <1>6

(* A gemm on tiles kt of a row of A's and a column of B's adds the products *)
(* whose k lies in them.                                                    *)
LEMMA GemmAdds ==
  ASSUME size \in Sizes, NEW kt \in 0 .. KT - 1, NEW m \in 0 .. PM - 1, NEW n \in 0 .. PN - 1
  PROVE  Partial(m, n, kt * DIM)
           (+) SetToBag(UNION {Product(AT[<<kt * DIM + r, m>>], B[<<kt * DIM + r, n>>])
                                 : r \in TileIndexes})
         = Partial(m, n, (kt + 1) * DIM)
<1> DEFINE low  == {k \in 0 .. size.K - 1 : k < kt * DIM /\ m < size.M /\ n < size.N}
           here == {k \in 0 .. size.K - 1 : /\ kt * DIM <= k /\ k < (kt + 1) * DIM
                                            /\ m < size.M /\ n < size.N}
           both == {k \in 0 .. size.K - 1 : k < (kt + 1) * DIM /\ m < size.M /\ n < size.N}
           Names(K) == {ProductName(m, n, k) : k \in K}
           Added(r) == Product(AT[<<kt * DIM + r, m>>], B[<<kt * DIM + r, n>>])
           added == UNION {Added(r) : r \in TileIndexes}
<1>1. /\ size.K \in Nat \ {0} /\ size.M \in Nat /\ size.N \in Nat /\ KT \in Nat /\ PK = KT * DIM
      /\ DIM \in Nat \ {0} /\ kt \in Nat
  BY SizesAssumption, TileCounts, DimAssumption
<1>2. kt * DIM \in Nat /\ (kt + 1) * DIM = kt * DIM + DIM
  BY <1>1, Z3
<1> DEFINE first == kt * DIM
           next == (kt + 1) * DIM
<1>3. first \in Nat /\ next = first + DIM
  BY <1>2
<1> HIDE DEF first, next
<1>4. low \cap here = {} /\ low \cup here = both
  <2>1. low \cap here = {}
    BY <1>1, <1>3 DEF first, next
  <2>2. ASSUME NEW k \in 0 .. size.K - 1 PROVE k \in low \cup here <=> k \in both
    <3>1. k \in Nat
      BY <1>1
    <3>2. k \in low \cup here <=> (k < first \/ (first <= k /\ k < next)) /\ m < size.M /\ n < size.N
      BY DEF first, next
    <3>3. (k < first \/ (first <= k /\ k < next)) <=> k < next
      BY <1>1, <1>3, <3>1
    <3>4. k \in both <=> k < next /\ m < size.M /\ n < size.N
      BY DEF next
    <3>5. QED
      BY <3>2, <3>3, <3>4
  <2>3. QED
    BY <2>1, <2>2
<1>5. ASSUME NEW k, NEW l, ProductName(m, n, k) = ProductName(m, n, l) PROVE k = l
  BY <1>5 DEF ProductName
<1>6. Names(low) \cap Names(here) = {}
  <2> HIDE DEF low, here
  <2> QED
    BY <1>4, <1>5
<1>7. Names(low) \cup Names(here) = Names(both)
  <2> HIDE DEF low, here, both
  <2> QED
    BY <1>4
<1>8. ASSUME NEW r \in TileIndexes
      PROVE  Added(r) = IF Inside(m, n, first + r) THEN {ProductName(m, n, first + r)} ELSE {}
  <2>1. kt * DIM + r \in 0 .. PK - 1
    BY <1>1, RowInMatrix
  <2> DEFINE k == kt * DIM + r
  <2>2. k \in 0 .. PK - 1
    BY <2>1
  <2> HIDE DEF k
  <2>3. Product(AT[<<k, m>>], B[<<k, n>>]) =
           IF Inside(m, n, k) THEN {ProductName(m, n, k)} ELSE {}
    BY <2>2, ProductOfElements
  <2>4. QED
    BY <2>3 DEF k, first
<1>9. added = Names(here)
  <2> HIDE DEF Added
  <2>1. ASSUME NEW x \in added PROVE x \in Names(here)
    <3>1. PICK r \in TileIndexes : x \in Added(r)
      OBVIOUS
    <3>2. Inside(m, n, first + r) /\ x = ProductName(m, n, first + r)
      BY <1>8, <3>1
    <3>3. first + r \in here
      <4>1. r \in 0 .. DIM - 1
        BY DEF TileIndexes
      <4>2. first + r \in 0 .. size.K - 1 /\ first <= first + r /\ first + r < next
        BY <1>1, <1>3, <3>2, <4>1 DEF Inside
      <4>3. QED
        BY <3>2, <4>2 DEF Inside, first, next
    <3>4. QED
      BY <3>2, <3>3
  <2>2. ASSUME NEW x \in Names(here) PROVE x \in added
    <3>1. PICK k \in here : x = ProductName(m, n, k)
      OBVIOUS
    <3>2. /\ k \in 0 .. size.K - 1 /\ first <= k /\ k < next /\ m < size.M /\ n < size.N
      BY DEF first, next
    <3> DEFINE r == k - first
    <3>3. r \in TileIndexes /\ first + r = k /\ k < size.K
      BY <1>1, <1>3, <3>2 DEF TileIndexes
    <3> HIDE DEF r
    <3>4. x \in Added(r)
      BY <1>8, <3>1, <3>2, <3>3 DEF Inside
    <3>5. QED
      BY <3>3, <3>4
  <2>3. QED
    BY <2>1, <2>2
<1>10. Partial(m, n, kt * DIM) = SetToBag(Names(low))
  BY Zenon DEF Partial, ProductName
<1>11. Partial(m, n, (kt + 1) * DIM) = SetToBag(Names(both))
  BY Zenon DEF Partial, ProductName
<1> HIDE DEF low, here, both, added, Names
<1>12. SetToBag(Names(low)) (+) SetToBag(Names(here)) = SetToBag(Names(both))
  BY <1>6, <1>7, BagsAdd
<1>13. QED
  BY <1>9, <1>10, <1>11, <1>12, Zenon DEF added

(* After the last gemm there are all of them. *)
LEMMA PartialEnds ==
  ASSUME size \in Sizes, NEW m \in 0 .. PM - 1, NEW n \in 0 .. PN - 1
  PROVE  Partial(m, n, KT * DIM) = Exact(m, n)
<1>1. size.K \in Nat \ {0} /\ size.K <= PK /\ PK = KT * DIM /\ PK \in Nat
  BY SizesAssumption, TileCount, TileCounts, DimAssumption DEF PK
<1>2. {k \in 0 .. size.K - 1 : k < PK /\ m < size.M /\ n < size.N}
        = {k \in 0 .. size.K - 1 : m < size.M /\ n < size.N}
  BY <1>1
<1>3. Partial(m, n, PK) = Exact(m, n)
  BY <1>2, Zenon DEF Partial, Exact
<1>4. QED
  BY <1>1, <1>3

-----------------------------------------------------------------------------
(* The instructions of a pass *)

(* A sequence that begins with x and goes on with s *)
Begins(seq, x, s) == seq # << >> /\ Head(seq) = x /\ Tail(seq) = s

Longer(seq, x, s) ==
  /\ Len(seq) = Len(s) + 1 /\ seq[1] = x
  /\ \A k \in 1 .. Len(s) : seq[k + 1] = s[k]

LEMMA OneMore ==
  ASSUME NEW S, NEW x \in S, NEW s \in Seq(S)
  PROVE  /\ <<x>> \o s \in Seq(S)
         /\ Begins(<<x>> \o s, x, s) /\ Longer(<<x>> \o s, x, s)
<1> DEFINE one == <<x>>
           app == one \o s
<1>1. one \in Seq(S) /\ Len(one) = 1 /\ one[1] = x /\ Len(s) \in Nat
  BY LenProperties
<1> HIDE DEF one
<1>2. /\ app \in Seq(S) /\ Len(app) = 1 + Len(s)
      /\ \A k \in 1 .. 1 + Len(s) : app[k] = IF k <= 1 THEN one[k] ELSE s[k - 1]
  <2>1. /\ app \in Seq(S) /\ Len(app) = Len(one) + Len(s)
        /\ \A k \in 1 .. Len(one) + Len(s) :
             app[k] = IF k <= Len(one) THEN one[k] ELSE s[k - Len(one)]
    BY <1>1, ConcatProperties
  <2> HIDE DEF app
  <2>2. QED
    BY <1>1, <2>1
<1> HIDE DEF app
<1>3. app # << >> /\ Len(app) = Len(s) + 1 /\ app[1] = x
  <2>1. Len(<< >>) = 0
    OBVIOUS
  <2>2. QED
    BY <1>1, <1>2, <2>1
<1>4. \A k \in 1 .. Len(s) : app[k + 1] = s[k]
  BY <1>1, <1>2
<1>5. /\ Head(app) = app[1] /\ Tail(app) \in Seq(S) /\ Len(Tail(app)) = Len(app) - 1
      /\ \A k \in 1 .. Len(Tail(app)) : Tail(app)[k] = app[k + 1]
  BY <1>2, <1>3, HeadTailProperties
<1>6. Tail(app) = s
  <2>1. Len(Tail(app)) = Len(s)
    BY <1>1, <1>3, <1>5
  <2>2. \A k \in 1 .. Len(s) : Tail(app)[k] = s[k]
    BY <1>4, <1>5, <2>1
  <2>3. QED
    BY <1>5, <2>1, <2>2, SeqEqual
<1>7. Head(app) = x
  BY <1>3, <1>5
<1>8. Begins(app, x, s) /\ Longer(app, x, s)
  BY <1>3, <1>4, <1>6, <1>7 DEF Begins, Longer
<1>9. QED
  BY <1>2, <1>8 DEF app, one

LEMMA Triple ==
  ASSUME NEW x, NEW y, NEW z
  PROVE  <<x, y, z>> = <<x>> \o (<<y>> \o <<z>>)
<1> DEFINE S == {x, y, z}
           last == <<z>>
           two == <<y>> \o last
           three == <<x>> \o two
           triple == <<x, y, z>>
<1>1. x \in S /\ y \in S /\ last \in Seq(S) /\ Len(last) = 1 /\ last[1] = z
  OBVIOUS
<1> HIDE DEF S, last
<1>2. two \in Seq(S) /\ Len(two) = 2 /\ two[1] = y /\ two[2] = z
  <2>1. two \in Seq(S) /\ Longer(two, y, last)
    BY <1>1, OneMore
  <2> HIDE DEF two
  <2>2. QED
    BY <1>1, <2>1 DEF Longer
<1> HIDE DEF two
<1>3. three \in Seq(S) /\ Len(three) = 3 /\ three[1] = x /\ three[2] = y /\ three[3] = z
  <2>1. three \in Seq(S) /\ Longer(three, x, two)
    BY <1>1, <1>2, OneMore
  <2> HIDE DEF three
  <2>2. QED
    BY <1>2, <2>1 DEF Longer
<1> HIDE DEF three
<1>4. triple \in Seq(S) /\ Len(triple) = 3 /\ triple[1] = x /\ triple[2] = y /\ triple[3] = z
  BY DEF S
<1> HIDE DEF triple
<1>5. triple = three
  <2>1. \A k \in 1 .. 3 : triple[k] = three[k]
    <3>1. \A k \in 1 .. 3 : k = 1 \/ k = 2 \/ k = 3
      OBVIOUS
    <3>2. QED
      BY <1>3, <1>4, <3>1
  <2>2. QED
    BY <1>3, <1>4, <2>1, SeqEqual
<1>6. QED
  BY <1>5 DEF triple, three, two, last

(* All that pass i can issue *)
PassInstrs(i, sA, sB, sC, p) ==
  {MvinA(i, sA), MvinB(i, sB), Gemm(sA, sB, p), Flush(p), Drain(sC, p),
   Mvout(sC, c_dram(mt_of(i), nt_of(i)), c_dram_stride)}

LEMMA Points ==
  ASSUME NEW i, NEW sA, NEW sB, NEW sC, NEW p
  PROVE  /\ ToMvout(i, sC) \in Seq(PassInstrs(i, sA, sB, sC, p))
         /\ ToDrain(i, sC, p) \in Seq(PassInstrs(i, sA, sB, sC, p))
         /\ ToFlush(i, sC, p) \in Seq(PassInstrs(i, sA, sB, sC, p))
         /\ Closing(i, sC, p) \in Seq(PassInstrs(i, sA, sB, sC, p))
         /\ ToGemm(i, sA, sB, sC, p) \in Seq(PassInstrs(i, sA, sB, sC, p))
         /\ ToMvinB(i, sA, sB, sC, p) \in Seq(PassInstrs(i, sA, sB, sC, p))
<1> DEFINE S == PassInstrs(i, sA, sB, sC, p)
<1>1. /\ MvinA(i, sA) \in S /\ MvinB(i, sB) \in S /\ Gemm(sA, sB, p) \in S /\ Flush(p) \in S
      /\ Drain(sC, p) \in S /\ Mvout(sC, c_dram(mt_of(i), nt_of(i)), c_dram_stride) \in S
  BY DEF PassInstrs
<1> HIDE DEF S
<1>2. ToMvout(i, sC) \in Seq(S)
  BY <1>1 DEF ToMvout
<1>3. ToDrain(i, sC, p) \in Seq(S)
  BY <1>1, <1>2, OneMore DEF ToDrain
<1>4. ToFlush(i, sC, p) \in Seq(S)
  BY <1>1, <1>3, OneMore DEF ToFlush
<1>5. Closing(i, sC, p) \in Seq(S)
  BY <1>4, EmptySeq DEF Closing
<1>6. ToGemm(i, sA, sB, sC, p) \in Seq(S)
  BY <1>1, <1>5, OneMore DEF ToGemm
<1>7. ToMvinB(i, sA, sB, sC, p) \in Seq(S)
  BY <1>1, <1>6, OneMore DEF ToMvinB
<1>8. QED
  BY <1>2, <1>3, <1>4, <1>5, <1>6, <1>7 DEF S

LEMMA PointsBegin ==
  ASSUME NEW i, NEW sA, NEW sB, NEW sC, NEW p
  PROVE  /\ Begins(ToMvout(i, sC), Mvout(sC, c_dram(mt_of(i), nt_of(i)), c_dram_stride), << >>)
         /\ Begins(ToDrain(i, sC, p), Drain(sC, p), ToMvout(i, sC))
         /\ Begins(ToFlush(i, sC, p), Flush(p), ToDrain(i, sC, p))
         /\ Begins(ToGemm(i, sA, sB, sC, p), Gemm(sA, sB, p), Closing(i, sC, p))
         /\ Begins(ToMvinB(i, sA, sB, sC, p), MvinB(i, sB), ToGemm(i, sA, sB, sC, p))
         /\ Begins(ToMvinA(i, sA, sB, sC, p), MvinA(i, sA), ToGemm(i, sA, sB, sC, p))
         /\ Begins(ToBoth(i, sA, sB, sC, p), MvinA(i, sA), ToMvinB(i, sA, sB, sC, p))
<1> DEFINE S == PassInstrs(i, sA, sB, sC, p)
<1>1. /\ MvinA(i, sA) \in S /\ MvinB(i, sB) \in S /\ Gemm(sA, sB, p) \in S /\ Flush(p) \in S
      /\ Drain(sC, p) \in S /\ Mvout(sC, c_dram(mt_of(i), nt_of(i)), c_dram_stride) \in S
  BY DEF PassInstrs
<1>2. /\ ToMvout(i, sC) \in Seq(S) /\ ToDrain(i, sC, p) \in Seq(S) /\ ToFlush(i, sC, p) \in Seq(S)
      /\ Closing(i, sC, p) \in Seq(S) /\ ToGemm(i, sA, sB, sC, p) \in Seq(S)
      /\ ToMvinB(i, sA, sB, sC, p) \in Seq(S)
  BY Points
<1> HIDE DEF S
<1>3. ASSUME NEW x \in S, NEW s \in Seq(S) PROVE Begins(<<x>> \o s, x, s)
  BY OneMore
<1>4. Begins(ToMvout(i, sC), Mvout(sC, c_dram(mt_of(i), nt_of(i)), c_dram_stride), << >>)
  BY DEF ToMvout, Begins
<1>5. Begins(ToDrain(i, sC, p), Drain(sC, p), ToMvout(i, sC))
  BY <1>1, <1>2, <1>3 DEF ToDrain
<1>6. Begins(ToFlush(i, sC, p), Flush(p), ToDrain(i, sC, p))
  BY <1>1, <1>2, <1>3 DEF ToFlush
<1>7. Begins(ToGemm(i, sA, sB, sC, p), Gemm(sA, sB, p), Closing(i, sC, p))
  BY <1>1, <1>2, <1>3 DEF ToGemm
<1>8. Begins(ToMvinB(i, sA, sB, sC, p), MvinB(i, sB), ToGemm(i, sA, sB, sC, p))
  BY <1>1, <1>2, <1>3 DEF ToMvinB
<1>9. Begins(ToMvinA(i, sA, sB, sC, p), MvinA(i, sA), ToGemm(i, sA, sB, sC, p))
  BY <1>1, <1>2, <1>3 DEF ToMvinA
<1>10. Begins(ToBoth(i, sA, sB, sC, p), MvinA(i, sA), ToMvinB(i, sA, sB, sC, p))
  BY <1>1, <1>2, <1>3 DEF ToBoth
<1>11. QED
  BY <1>4, <1>5, <1>6, <1>7, <1>8, <1>9, <1>10

LEMMA Ops ==
  ASSUME NEW x, NEW y, NEW z
  PROVE  /\ Mvin(x, y, z).op = "mvin" /\ Mvout(x, y, z).op = "mvout" /\ Gemm(x, y, z).op = "gemm"
         /\ Flush(x).op = "flush" /\ Drain(x, y).op = "drain"
  BY DEF Mvin, Mvout, Gemm, Flush, Drain

-----------------------------------------------------------------------------
(* Acquiring the tiles of a pass *)

(* What acquire leaves: the tile has a slot in its bank, which at most one *)
(* tile of that bank had to give up.                                       *)
Acquires(al, new, id, bank) ==
  /\ AllocOK(new) /\ AtHome(new.resident)
  /\ id \in DOMAIN new.resident
  /\ \A t \in DOMAIN new.resident :
       t # id => t \in DOMAIN al.resident /\ new.resident[t] = al.resident[t]
  /\ \A t \in DOMAIN al.resident : t \in DOMAIN new.resident \/ BankOf(al.resident[t]) = bank
  /\ IsResident(al, id) => new.resident = al.resident

LEMMA AcquireEffect ==
  ASSUME NEW al, AllocOK(al), AtHome(al.resident), NEW id, NEW bank \in Banks,
         \A slot \in StrideSlots : BankOf(slot) = bank => InBank(id, slot)
  PROVE  Acquires(al, acquire(al, id, bank), id, bank)
<1> DEFINE new == acquire(al, id, bank)
<1>1. ~ Throws(al, id, bank)
  BY NoThrow
<1>2. AllocOK(new)
  BY <1>1, AcquireKeeps
<1>3. CASE IsResident(al, id)
  <2>1. new = lookup(al, id)
    BY <1>3 DEF acquire
  <2>2. new.resident = al.resident
    BY <1>3, <2>1, LookupKeeps
  <2> HIDE DEF new
  <2>3. QED
    BY <1>2, <1>3, <2>2 DEF Acquires, IsResident, new
<1>4. ASSUME NEW kept, NEW slot \in StrideSlots, BankOf(slot) = bank, ~ IsResident(al, id),
             DOMAIN kept \subseteq DOMAIN al.resident,
             \A t \in DOMAIN kept : kept[t] = al.resident[t],
             \A t \in DOMAIN al.resident : t \in DOMAIN kept \/ BankOf(al.resident[t]) = bank,
             new.resident = Place(kept, id, slot)
      PROVE  Acquires(al, new, id, bank)
  <2>1. /\ DOMAIN new.resident = DOMAIN kept \cup {id} /\ new.resident[id] = slot
        /\ \A t \in DOMAIN kept : t # id => new.resident[t] = kept[t]
    BY <1>4 DEF Place
  <2> HIDE DEF new
  <2>2. AtHome(new.resident)
    BY <1>4, <2>1 DEF AtHome
  <2>3. QED
    BY <1>2, <1>4, <2>1, <2>2 DEF Acquires
<1>5. CASE ~ IsResident(al, id) /\ HasFreeSlot(al, bank)
  <2>1. new = TakeFreeSlot(al, id, bank)
    BY <1>5 DEF acquire
  <2>2. PICK slot \in FreeIn(al.resident, bank) : new.resident = Place(al.resident, id, slot)
    BY <1>5, <2>1, TakeKeeps
  <2>3. slot \in StrideSlots /\ BankOf(slot) = bank
    BY DEF FreeIn
  <2>4. QED
    BY <1>4, <1>5, <2>2, <2>3
<1>6. CASE ~ IsResident(al, id) /\ ~ HasFreeSlot(al, bank)
  <2>1. new = EvictLru(al, id, bank) /\ Evictable(al, bank) # {}
    BY <1>1, <1>6 DEF acquire, Throws
  <2>2. PICK old \in DOMAIN al.resident :
          /\ BankOf(al.resident[old]) = bank
          /\ new.resident = Place(Forget(al.resident, old), id, al.resident[old])
    BY <1>6, <2>1, EvictKeeps
  <2> DEFINE kept == Forget(al.resident, old)
  <2>3. /\ DOMAIN kept = DOMAIN al.resident \ {old}
        /\ \A t \in DOMAIN kept : kept[t] = al.resident[t]
    BY DEF Forget
  <2>4. al.resident[old] \in StrideSlots
    BY DEF AllocOK, Held
  <2> HIDE DEF kept, new
  <2>5. new.resident = Place(kept, id, al.resident[old])
    BY <2>2 DEF kept
  <2>6. QED
    BY <1>4, <1>6, <2>2, <2>3, <2>4, <2>5 DEF new
<1>7. QED
  BY <1>3, <1>5, <1>6 DEF new

(* The allocator after each of a pass's tiles *)
WithA(al, i) == acquire(al, AOf(i), a_bank(mt_of(i), kt_of(i)))
WithB(al, i) == acquire(WithA(al, i), BOf(i), b_bank(kt_of(i), nt_of(i)))
WithC(al, i) == acquire(WithB(al, i), COf(i), c_bank(mt_of(i), nt_of(i)))

SlotOfA(al, i) == WithA(al, i).resident[AOf(i)]
SlotOfB(al, i) == WithB(al, i).resident[BOf(i)]
SlotOfC(al, i) == IF IsLast(i) THEN WithC(al, i).resident[COf(i)] ELSE SlotOfA(al, i)

LEMMA WantedIs ==
  ASSUME NEW i
  PROVE  /\ Len(Wanted(i)) = IF IsLast(i) THEN 3 ELSE 2
         /\ Wanted(i)[1].id = AOf(i) /\ Wanted(i)[1].bank = a_bank(mt_of(i), kt_of(i))
         /\ Wanted(i)[2].id = BOf(i) /\ Wanted(i)[2].bank = b_bank(kt_of(i), nt_of(i))
         /\ IsLast(i) => /\ Wanted(i)[3].id = COf(i)
                         /\ Wanted(i)[3].bank = c_bank(mt_of(i), nt_of(i))
<1> DEFINE wa == [id |-> AOf(i), bank |-> a_bank(mt_of(i), kt_of(i))]
           wb == [id |-> BOf(i), bank |-> b_bank(kt_of(i), nt_of(i))]
           wc == [id |-> COf(i), bank |-> c_bank(mt_of(i), nt_of(i))]
<1>1. /\ wa.id = AOf(i) /\ wa.bank = a_bank(mt_of(i), kt_of(i))
      /\ wb.id = BOf(i) /\ wb.bank = b_bank(kt_of(i), nt_of(i))
      /\ wc.id = COf(i) /\ wc.bank = c_bank(mt_of(i), nt_of(i))
  OBVIOUS
<1>2. Wanted(i) = <<wa, wb>> \o (IF IsLast(i) THEN <<wc>> ELSE << >>)
  BY Zenon DEF Wanted, IsLast, AOf, BOf, COf, ATile, BTile, CTile
<1> HIDE DEF wa, wb, wc
<1>3. CASE IsLast(i)
  <2>1. Wanted(i) = <<wa, wb>> \o <<wc>>
    BY <1>2, <1>3
  <2>2. QED
    BY <1>1, <1>3, <2>1, TwoAndOne
<1>4. CASE ~ IsLast(i)
  <2>1. Wanted(i) = <<wa, wb>>
    BY <1>2, <1>4
  <2>2. QED
    BY <1>1, <1>4, <2>1
<1>5. QED
  BY <1>3, <1>4

LEMMA AcquiredIs ==
  ASSUME NEW al, NEW i
  PROVE  /\ Acquired(al, i, 0) = al /\ Acquired(al, i, 1) = WithA(al, i)
         /\ Acquired(al, i, 2) = WithB(al, i)
         /\ IsLast(i) => Acquired(al, i, 3) = WithC(al, i)
<1> DEFINE After(x, k) == acquire(x, Wanted(i)[k].id, Wanted(i)[k].bank)
<1>1. /\ Acquired(al, i, 0) = al /\ Acquired(al, i, 1) = After(al, 1)
      /\ Acquired(al, i, 2) = After(After(al, 1), 2)
      /\ Acquired(al, i, 3) = After(After(After(al, 1), 2), 3)
  BY DEF Acquired
<1>2. \A x : After(x, 1) = acquire(x, AOf(i), a_bank(mt_of(i), kt_of(i)))
  BY WantedIs
<1>3. \A x : After(x, 2) = acquire(x, BOf(i), b_bank(kt_of(i), nt_of(i)))
  BY WantedIs
<1>4. IsLast(i) => \A x : After(x, 3) = acquire(x, COf(i), c_bank(mt_of(i), nt_of(i)))
  BY WantedIs
<1> HIDE DEF After
<1>5. QED
  BY <1>1, <1>2, <1>3, <1>4 DEF WithA, WithB, WithC

(* The allocator that a pass leaves, and the instructions it begins with *)
AllocAfter(al, i) == IF IsLast(i) THEN WithC(al, i) ELSE WithB(al, i)

HitA(al, i) == IsResident(al, AOf(i))
HitB(al, i) == IsResident(WithA(al, i), BOf(i))

LEMMA BodyIs ==
  ASSUME NEW al, NEW q, NEW i, NEW st, st = [alloc |-> al, psum_index |-> q],
         NEW sA, sA = SlotOfA(al, i), NEW sB, sB = SlotOfB(al, i), NEW sC, sC = SlotOfC(al, i)
  PROVE  /\ Body(st, i).alloc = AllocAfter(al, i)
         /\ Body(st, i).psum_index = IF IsLast(i) THEN 1 - q ELSE q
         /\ Body(st, i).instrs =
              IF HitA(al, i)
              THEN IF HitB(al, i) THEN ToGemm(i, sA, sB, sC, q) ELSE ToMvinB(i, sA, sB, sC, q)
              ELSE IF HitB(al, i) THEN ToMvinA(i, sA, sB, sC, q) ELSE ToBoth(i, sA, sB, sC, q)
<1> DEFINE S == PassInstrs(i, sA, sB, sC, q)
           loadA == IF HitA(al, i) THEN << >> ELSE <<MvinA(i, sA)>>
           loadB == IF HitB(al, i) THEN << >> ELSE <<MvinB(i, sB)>>
           compute == <<Gemm(sA, sB, q)>>
           close == Closing(i, sC, q)
<1>1. st.alloc = al /\ st.psum_index = q
  OBVIOUS
<1>2. /\ Len(Wanted(i)) = IF IsLast(i) THEN 3 ELSE 2
      /\ Acquired(al, i, 0) = al /\ Acquired(al, i, 1) = WithA(al, i)
      /\ Acquired(al, i, 2) = WithB(al, i)
      /\ IsLast(i) => Acquired(al, i, 3) = WithC(al, i)
  BY WantedIs, AcquiredIs
<1>3. Body(st, i).alloc = AllocAfter(al, i)
  <2>1. Body(st, i).alloc = Acquired(al, i, Len(Wanted(i)))
    BY <1>1 DEF Body
  <2>2. QED
    BY <1>2, <2>1 DEF AllocAfter
<1>4. Body(st, i).psum_index = IF IsLast(i) THEN 1 - q ELSE q
  BY <1>1 DEF Body, IsLast
<1>5. Body(st, i).instrs = loadA \o loadB \o compute \o close
  <2> DEFINE addr(n) == Acquired(al, i, n).resident[Wanted(i)[n].id]
             hit(n) == IsResident(Acquired(al, i, n - 1), Wanted(i)[n].id)
  <2>1. Body(st, i).instrs =
          (IF hit(1) THEN << >> ELSE <<Mvin(a_dram(mt_of(i), kt_of(i)), addr(1), a_dram_stride)>>)
          \o (IF hit(2) THEN << >> ELSE <<Mvin(b_dram(kt_of(i), nt_of(i)), addr(2), b_dram_stride)>>)
          \o <<Gemm(addr(1), addr(2), q)>>
          \o (IF IsLast(i) THEN CloseTile(addr(3), mt_of(i), nt_of(i), q) ELSE << >>)
    BY <1>1 DEF Body, IsLast
  <2>2. /\ addr(1) = sA /\ addr(2) = sB
        /\ IsLast(i) => addr(3) = sC
        /\ hit(1) <=> HitA(al, i)
        /\ hit(2) <=> HitB(al, i)
    <3>1. 1 - 1 = 0 /\ 2 - 1 = 1
      OBVIOUS
    <3>2. QED
      BY <1>2, <3>1, WantedIs DEF SlotOfA, SlotOfB, SlotOfC, HitA, HitB
  <2>3. IsLast(i) => CloseTile(sC, mt_of(i), nt_of(i), q) = close
    BY Triple, Zenon DEF CloseTile, Closing, ToFlush, ToDrain, ToMvout
  <2>4. ~ IsLast(i) => close = << >>
    BY DEF Closing
  <2> HIDE DEF addr, hit
  <2>5. (IF IsLast(i) THEN CloseTile(addr(3), mt_of(i), nt_of(i), q) ELSE << >>) = close
    BY <2>2, <2>3, <2>4
  <2>6. (IF hit(1) THEN << >> ELSE <<Mvin(a_dram(mt_of(i), kt_of(i)), addr(1), a_dram_stride)>>) = loadA
    BY <2>2 DEF MvinA
  <2>7. (IF hit(2) THEN << >> ELSE <<Mvin(b_dram(kt_of(i), nt_of(i)), addr(2), b_dram_stride)>>) = loadB
    BY <2>2 DEF MvinB
  <2>8. <<Gemm(addr(1), addr(2), q)>> = compute
    BY <2>2
  <2> HIDE DEF loadA, loadB, compute, close
  <2>9. QED
    BY <2>1, <2>5, <2>6, <2>7, <2>8
<1>6. /\ << >> \in Seq(S) /\ <<MvinA(i, sA)>> \in Seq(S) /\ <<MvinB(i, sB)>> \in Seq(S)
      /\ compute \in Seq(S) /\ close \in Seq(S)
  <2>1. /\ MvinA(i, sA) \in S /\ MvinB(i, sB) \in S /\ Gemm(sA, sB, q) \in S
    BY DEF PassInstrs
  <2>2. close \in Seq(S)
    BY Points
  <2> HIDE DEF S
  <2>3. QED
    BY <2>1, <2>2, EmptySeq
<1>7. ToGemm(i, sA, sB, sC, q) = compute \o close
  BY DEF ToGemm
<1>8. ToMvinB(i, sA, sB, sC, q) = <<MvinB(i, sB)>> \o (compute \o close)
  BY <1>7 DEF ToMvinB
<1>9. ToMvinA(i, sA, sB, sC, q) = <<MvinA(i, sA)>> \o (compute \o close)
  BY <1>7 DEF ToMvinA
<1>10. ToBoth(i, sA, sB, sC, q) = <<MvinA(i, sA)>> \o (<<MvinB(i, sB)>> \o (compute \o close))
  BY <1>8 DEF ToBoth
<1> DEFINE onlyA == <<MvinA(i, sA)>>
           onlyB == <<MvinB(i, sB)>>
<1>11. /\ onlyA \in Seq(S) /\ onlyB \in Seq(S)
       /\ loadA = (IF HitA(al, i) THEN << >> ELSE onlyA)
       /\ loadB = (IF HitB(al, i) THEN << >> ELSE onlyB)
  BY <1>6
<1> HIDE DEF S, loadA, loadB, compute, close, onlyA, onlyB
<1>12. loadA \in Seq(S) /\ loadB \in Seq(S) /\ compute \in Seq(S) /\ close \in Seq(S)
  BY <1>6, <1>11
<1>13. compute \o close \in Seq(S) /\ onlyB \o (compute \o close) \in Seq(S)
  BY <1>11, <1>12, ConcatProperties
<1>14. loadA \o loadB \o compute \o close = loadA \o (loadB \o (compute \o close))
  <2>1. PICK loads, rest : loads = loadA \o loadB /\ rest = compute \o close
    OBVIOUS
  <2>2. loads \in Seq(S) /\ rest \in Seq(S)
    BY <1>12, <2>1, ConcatProperties
  <2>3. (loads \o compute) \o close = loads \o (compute \o close)
    BY <1>12, <2>2
  <2>4. (loadA \o loadB) \o rest = loadA \o (loadB \o rest)
    BY <1>12, <2>2
  <2>5. QED
    BY <2>1, <2>3, <2>4, Zenon
<1>15. Body(st, i).instrs =
         IF HitA(al, i)
         THEN IF HitB(al, i) THEN compute \o close ELSE onlyB \o (compute \o close)
         ELSE IF HitB(al, i) THEN onlyA \o (compute \o close)
              ELSE onlyA \o (onlyB \o (compute \o close))
  <2>1. \A x \in Seq(S) : << >> \o x = x
    BY ConcatEmptySeq
  <2>2. CASE HitA(al, i) /\ HitB(al, i)
    BY <1>5, <1>11, <1>13, <1>14, <2>1, <2>2
  <2>3. CASE HitA(al, i) /\ ~ HitB(al, i)
    BY <1>5, <1>11, <1>13, <1>14, <2>1, <2>3
  <2>4. CASE ~ HitA(al, i) /\ HitB(al, i)
    BY <1>5, <1>11, <1>13, <1>14, <2>1, <2>4
  <2>5. CASE ~ HitA(al, i) /\ ~ HitB(al, i)
    BY <1>5, <1>11, <1>13, <1>14, <2>1, <2>5
  <2>6. QED
    BY <2>2, <2>3, <2>4, <2>5
<1>16. QED
  BY <1>3, <1>4, <1>7, <1>8, <1>9, <1>10, <1>15, Zenon DEF onlyA, onlyB

-----------------------------------------------------------------------------
(* Passes are numbered by their tiles. *)

LEMMA IterationCount ==
  ASSUME size \in Sizes
  PROVE  Iterations \in Nat
<1>1. MT \in Nat /\ NT \in Nat /\ KT \in Nat
  BY TileCounts
<1>2. MT * NT \in Nat
  BY <1>1, Z3
<1>3. MT * NT * KT \in Nat
  BY <1>1, <1>2, Z3
<1>4. QED
  BY <1>3 DEF Iterations

LEMMA PassIndex ==
  ASSUME size \in Sizes, NEW i \in 0 .. Iterations - 1
  PROVE  /\ mt_of(i) \in 0 .. MT - 1 /\ nt_of(i) \in 0 .. NT - 1 /\ kt_of(i) \in 0 .. KT - 1
         /\ i = (mt_of(i) * NT + nt_of(i)) * KT + kt_of(i)
<1> DEFINE q == i \div KT
           r == i % KT
           m == q \div NT
           n == q % NT
           w == NT * KT
<1>1. /\ MT \in Nat \ {0} /\ NT \in Nat \ {0} /\ KT \in Nat \ {0} /\ w \in Nat \ {0}
      /\ Iterations = MT * w /\ Iterations \in Nat
  <2>1. MT \in Nat \ {0} /\ NT \in Nat \ {0} /\ KT \in Nat \ {0}
    BY TileCounts
  <2>2. NT * KT \in Nat \ {0}
    BY <2>1, Z3
  <2>3. MT * NT * KT = MT * (NT * KT)
    BY <2>1, Z3
  <2>4. MT * (NT * KT) \in Nat
    BY <2>1, <2>2, Z3
  <2>5. QED
    BY <2>1, <2>2, <2>3, <2>4 DEF Iterations
<1>2. i \in Nat /\ i < Iterations
  BY <1>1
<1>3. q \in Nat /\ r \in 0 .. KT - 1 /\ i = KT * q + r
  BY <1>1, <1>2, Division
<1> HIDE DEF q, r
<1>4. m \in Nat /\ n \in 0 .. NT - 1 /\ q = NT * m + n
  BY <1>1, <1>3, Division
<1> HIDE DEF m, n
<1>5. /\ q = m * NT + n /\ i = (m * NT + n) * KT + r
  <2>1. KT * q = q * KT /\ NT * m = m * NT
    BY <1>1, <1>3, <1>4, Z3
  <2>2. QED
    BY <1>3, <1>4, <2>1
<1>6. n * KT + r \in 0 .. w - 1
  BY <1>1, <1>3, <1>4, PlaceBound
<1>7. i = m * w + (n * KT + r)
  <2>1. (m * NT + n) * KT = m * (NT * KT) + n * KT /\ m * (NT * KT) \in Nat /\ n * KT \in Nat
    <3>1. n \in Nat
      BY <1>1, <1>4
    <3>2. (m * NT + n) * KT = m * (NT * KT) + n * KT
      BY <1>1, <1>4, <3>1, Z3
    <3>3. NT * KT \in Nat /\ n * KT \in Nat
      BY <1>1, <3>1, Z3
    <3>4. m * (NT * KT) \in Nat
      BY <1>4, <3>3, Z3
    <3>5. QED
      BY <3>2, <3>3, <3>4
  <2>2. r \in Nat
    BY <1>1, <1>3
  <2>3. QED
    BY <1>5, <2>1, <2>2
<1>8. i \div w = m
  <2> DEFINE rest == n * KT + r
  <2>1. rest \in 0 .. w - 1 /\ i = m * w + rest
    BY <1>6, <1>7
  <2> HIDE DEF rest, w
  <2>2. QED
    BY <1>1, <1>4, <2>1, QuotientOf
<1>9. mt_of(i) = m /\ nt_of(i) = n /\ kt_of(i) = r
  BY <1>8 DEF mt_of, nt_of, kt_of, m, n, q, r
<1>10. m < MT
  <2> SUFFICES ASSUME MT <= m PROVE FALSE
    BY <1>1, <1>4
  <2> HIDE DEF w
  <2>1. MT * w <= m * w /\ MT * w \in Int /\ m * w \in Int
    BY <1>1, <1>4, ProductOrder
  <2> DEFINE rest == n * KT + r
  <2>2. rest \in 0 .. w - 1 /\ i = m * w + rest
    BY <1>6, <1>7
  <2> HIDE DEF rest
  <2>3. QED
    BY <1>1, <1>2, <2>1, <2>2
<1>11. QED
  BY <1>1, <1>3, <1>4, <1>5, <1>9, <1>10

LEMMA PassOf ==
  ASSUME size \in Sizes, NEW m \in 0 .. MT - 1, NEW n \in 0 .. NT - 1, NEW k \in 0 .. KT - 1,
         NEW i \in 0 .. Iterations - 1, i = (m * NT + n) * KT + k
  PROVE  mt_of(i) = m /\ nt_of(i) = n /\ kt_of(i) = k
<1>1. /\ mt_of(i) \in 0 .. MT - 1 /\ nt_of(i) \in 0 .. NT - 1 /\ kt_of(i) \in 0 .. KT - 1
      /\ i = (mt_of(i) * NT + nt_of(i)) * KT + kt_of(i)
  BY PassIndex
<1>2. PICK x, y, z : x = mt_of(i) /\ y = nt_of(i) /\ z = kt_of(i)
  OBVIOUS
<1>3. MT \in Nat \ {0} /\ NT \in Nat \ {0} /\ KT \in Nat \ {0}
  BY TileCounts
<1>4. /\ m \in Nat /\ x \in Nat /\ n \in 0 .. NT - 1 /\ y \in 0 .. NT - 1
      /\ k \in 0 .. KT - 1 /\ z \in 0 .. KT - 1 /\ n \in Nat /\ y \in Nat
  <2>1. x \in 0 .. MT - 1 /\ y \in 0 .. NT - 1 /\ z \in 0 .. KT - 1
    BY <1>1, <1>2, Zenon
  <2>2. QED
    BY <1>3, <2>1
<1>5. m * NT + n \in Nat /\ x * NT + y \in Nat
  BY <1>3, <1>4, Z3
<1>6. (m * NT + n) * KT + k = (x * NT + y) * KT + z
  BY <1>1, <1>2
<1>7. m * NT + n = x * NT + y /\ k = z
  <2> DEFINE p == m * NT + n
             q == x * NT + y
  <2>1. p \in Nat /\ q \in Nat /\ p * KT + k = q * KT + z
    BY <1>5, <1>6
  <2> HIDE DEF p, q
  <2>2. p = q /\ k = z
    BY <1>3, <1>4, <2>1, UniqueDivision
  <2>3. QED
    BY <2>2 DEF p, q
<1>8. m = x /\ n = y
  BY <1>3, <1>4, <1>7, UniqueDivision
<1>9. QED
  BY <1>2, <1>7, <1>8

(* The next pass goes on with the same tile of C, or begins another. *)
LEMMA NextPass ==
  ASSUME size \in Sizes, NEW i \in 0 .. Iterations - 1
  PROVE  /\ IsLast(i) => kt_of(i + 1) = 0
         /\ ~ IsLast(i) => /\ i + 1 \in 0 .. Iterations - 1
                           /\ mt_of(i + 1) = mt_of(i) /\ nt_of(i + 1) = nt_of(i)
                           /\ kt_of(i + 1) = kt_of(i) + 1
<1>1. PICK m, n, k : m = mt_of(i) /\ n = nt_of(i) /\ k = kt_of(i)
  OBVIOUS
<1>2. /\ m \in 0 .. MT - 1 /\ n \in 0 .. NT - 1 /\ k \in 0 .. KT - 1
      /\ i = (m * NT + n) * KT + k
  BY <1>1, PassIndex
<1>3. MT \in Nat \ {0} /\ NT \in Nat \ {0} /\ KT \in Nat \ {0} /\ Iterations \in Nat
  BY TileCounts, IterationCount
<1> DEFINE p == m * NT + n
<1>4. p \in 0 .. MT * NT - 1 /\ p \in Nat /\ MT * NT \in Nat
  <2>1. p \in 0 .. MT * NT - 1
    BY <1>2, <1>3, PlaceBound
  <2>2. MT * NT \in Nat
    BY <1>3, Z3
  <2>3. QED
    BY <2>1, <2>2
<1>5. p * KT \in Nat /\ (p + 1) * KT = p * KT + KT /\ (p + 1) * KT <= (MT * NT) * KT
      /\ (MT * NT) * KT = Iterations
  <2> DEFINE P == MT * NT
  <2>1. P \in Nat /\ p + 1 <= P
    BY <1>4
  <2>2. Iterations = P * KT
    BY DEF Iterations
  <2> HIDE DEF P, p
  <2>3. (p + 1) * KT <= P * KT
    BY <1>3, <1>4, <2>1, ProductOrder
  <2>4. p * KT \in Nat /\ (p + 1) * KT = p * KT + KT
    BY <1>3, <1>4, Z3
  <2>5. QED
    BY <2>2, <2>3, <2>4 DEF P
<1>6. i = p * KT + k
  BY <1>2
<1>7. CASE IsLast(i)
  <2>1. k = KT - 1
    BY <1>1, <1>7 DEF IsLast
  <2> HIDE DEF p
  <2>2. i + 1 = (p + 1) * KT + 0
    BY <1>3, <1>5, <1>6, <2>1
  <2>3. p + 1 \in Nat /\ 0 \in 0 .. KT - 1
    BY <1>3, <1>4
  <2>4. ((p + 1) * KT + 0) % KT = 0
    BY <1>3, <2>3, QuotientOf
  <2>5. QED
    BY <1>7, <2>2, <2>4 DEF kt_of
<1>8. CASE ~ IsLast(i)
  <2>1. k + 1 \in 0 .. KT - 1
    <3>1. k # KT - 1
      BY <1>1, <1>8 DEF IsLast
    <3>2. QED
      BY <1>2, <1>3, <3>1
  <2>2. i + 1 \in 0 .. Iterations - 1
    <3> HIDE DEF p
    <3>1. i + 1 = p * KT + (k + 1)
      BY <1>2, <1>3, <1>5, <1>6
    <3>2. QED
      BY <1>3, <1>4, <1>5, <2>1, <3>1
  <2>3. i + 1 = (m * NT + n) * KT + (k + 1)
    <3>1. i + 1 = p * KT + (k + 1)
      <4> HIDE DEF p
      <4>1. QED
        BY <1>2, <1>3, <1>5, <1>6
    <3>2. QED
      BY <3>1
  <2>4. mt_of(i + 1) = m /\ nt_of(i + 1) = n /\ kt_of(i + 1) = k + 1
    BY <1>2, <2>1, <2>2, <2>3, PassOf
  <2>5. QED
    BY <1>1, <1>8, <2>2, <2>4
<1>9. QED
  BY <1>7, <1>8

-----------------------------------------------------------------------------
(* The slots of a pass *)

LEMMA PassTiles ==
  ASSUME size \in Sizes, NEW i \in 0 .. Iterations - 1
  PROVE  /\ AOf(i) # BOf(i) /\ AOf(i) # COf(i) /\ BOf(i) # COf(i)
         /\ \A slot : InBank(AOf(i), slot) <=> BankOf(slot) = a_bank(mt_of(i), kt_of(i))
         /\ \A slot : InBank(BOf(i), slot) <=> BankOf(slot) = b_bank(kt_of(i), nt_of(i))
         /\ \A slot : InBank(COf(i), slot) <=> BankOf(slot) = c_bank(mt_of(i), nt_of(i))
<1>1. /\ mt_of(i) \in 0 .. MT - 1 /\ nt_of(i) \in 0 .. NT - 1 /\ kt_of(i) \in 0 .. KT - 1
  BY PassIndex
<1>2. "a" # "b" /\ "a" # "c" /\ "b" # "c"
  OBVIOUS
<1>3. ASSUME NEW x, NEW y, NEW u, NEW v
      PROVE  /\ ATile(x, y) # BTile(u, v) /\ ATile(x, y) # CTile(u, v) /\ BTile(x, y) # CTile(u, v)
             /\ (ATile(x, y) = ATile(u, v) => x = u /\ y = v)
             /\ (BTile(x, y) = BTile(u, v) => x = u /\ y = v)
             /\ (CTile(x, y) = CTile(u, v) => x = u /\ y = v)
  BY <1>2 DEF ATile, BTile, CTile
<1>4. AOf(i) # BOf(i) /\ AOf(i) # COf(i) /\ BOf(i) # COf(i)
  BY <1>3 DEF AOf, BOf, COf
<1>5. ASSUME NEW slot PROVE InBank(AOf(i), slot) <=> BankOf(slot) = a_bank(mt_of(i), kt_of(i))
  <2>1. ASSUME BankOf(slot) = a_bank(mt_of(i), kt_of(i)) PROVE InBank(AOf(i), slot)
    <3>1. AOf(i) = ATile(mt_of(i), kt_of(i))
      BY DEF AOf
    <3>2. QED
      BY <1>1, <2>1, <3>1, Zenon DEF InBank
  <2>2. ASSUME InBank(AOf(i), slot) PROVE BankOf(slot) = a_bank(mt_of(i), kt_of(i))
    <3> DEFINE id == AOf(i)
    <3>0. id = ATile(mt_of(i), kt_of(i))
      BY DEF AOf
    <3> HIDE DEF id
    <3>1. PICK u, v : id = ATile(u, v) /\ BankOf(slot) = a_bank(u, v)
      <4>1. \A u, v : id # BTile(u, v) /\ id # CTile(u, v)
        BY <1>3, <3>0
      <4>2. InBank(id, slot)
        BY <2>2 DEF id
      <4>3. QED
        BY <4>1, <4>2, Zenon DEF InBank
    <3>2. <<u, v>> = <<mt_of(i), kt_of(i)>>
      BY <3>0, <3>1 DEF ATile
    <3>3. QED
      BY <3>1, <3>2
  <2>3. QED
    BY <2>1, <2>2
<1>6. ASSUME NEW slot PROVE InBank(BOf(i), slot) <=> BankOf(slot) = b_bank(kt_of(i), nt_of(i))
  <2>1. ASSUME BankOf(slot) = b_bank(kt_of(i), nt_of(i)) PROVE InBank(BOf(i), slot)
    <3>1. BOf(i) = BTile(kt_of(i), nt_of(i))
      BY DEF BOf
    <3>2. QED
      BY <1>1, <2>1, <3>1, Zenon DEF InBank
  <2>2. ASSUME InBank(BOf(i), slot) PROVE BankOf(slot) = b_bank(kt_of(i), nt_of(i))
    <3> DEFINE id == BOf(i)
    <3>0. id = BTile(kt_of(i), nt_of(i))
      BY DEF BOf
    <3> HIDE DEF id
    <3>1. PICK u, v : id = BTile(u, v) /\ BankOf(slot) = b_bank(u, v)
      <4>1. \A u, v : id # ATile(u, v) /\ id # CTile(u, v)
        BY <1>3, <3>0
      <4>2. InBank(id, slot)
        BY <2>2 DEF id
      <4>3. QED
        BY <4>1, <4>2, Zenon DEF InBank
    <3>2. <<u, v>> = <<kt_of(i), nt_of(i)>>
      BY <3>0, <3>1 DEF BTile
    <3>3. QED
      BY <3>1, <3>2
  <2>3. QED
    BY <2>1, <2>2
<1>7. ASSUME NEW slot PROVE InBank(COf(i), slot) <=> BankOf(slot) = c_bank(mt_of(i), nt_of(i))
  BY <1>1, <1>3, ZenonT(40) DEF InBank, COf
<1>8. QED
  BY <1>4, <1>5, <1>6, <1>7

(* A goes to the even banks, B to the odd ones. *)
LEMMA BanksOfOperands ==
  ASSUME size \in Sizes, NEW m \in Nat, NEW k \in Nat, NEW n \in Nat
  PROVE  a_bank(m, k) # b_bank(k, n)
<1>1. KT \in Nat \ {0} /\ NT \in Nat \ {0}
  BY TileCounts
<1>2. m * KT + k \in Nat /\ k * NT + n \in Nat
  BY <1>1, Z3
<1> DEFINE half == N_BANKS \div 2
<1>3. half \in Nat \ {0} /\ 2 * half = N_BANKS
  BY BankCountAssumption, EvenBanksAssumption
<1> HIDE DEF half
<1>4. (m * KT + k) % half \in 0 .. half - 1 /\ (k * NT + n) % half \in 0 .. half - 1
  BY <1>2, <1>3, Division
<1>5. ASSUME NEW x \in Nat, NEW y \in Nat PROVE x * 2 # y * 2 + 1
  OBVIOUS
<1>6. QED
  BY <1>3, <1>4, <1>5 DEF a_bank, b_bank, half

(* What the allocator says of a pass that begins: each tile it uses is in  *)
(* a slot of its own, and what it finds resident was resident before.      *)
Prepared(al, i) ==
  LET new == AllocAfter(al, i).resident
      sA == SlotOfA(al, i)
      sB == SlotOfB(al, i)
  IN  /\ AtHome(new)
      /\ PassSlots(new, i, sA, sB, SlotOfC(al, i))
      /\ \A id \in DOMAIN new :
           id \notin {AOf(i), BOf(i)} \cup Awaited(i) =>
             id \in DOMAIN al.resident /\ new[id] = al.resident[id]
      /\ HitA(al, i) => AOf(i) \in DOMAIN al.resident /\ al.resident[AOf(i)] = sA
      /\ HitB(al, i) => BOf(i) \in DOMAIN al.resident /\ al.resident[BOf(i)] = sB

LEMMA PassPrepared ==
  ASSUME size \in Sizes, NEW i \in 0 .. Iterations - 1,
         NEW al, AllocOK(al), AtHome(al.resident)
  PROVE  Prepared(al, i)
<1> DEFINE aId == AOf(i)
           bId == BOf(i)
           cId == COf(i)
           aBank == a_bank(mt_of(i), kt_of(i))
           bBank == b_bank(kt_of(i), nt_of(i))
           cBank == c_bank(mt_of(i), nt_of(i))
           al1 == WithA(al, i)
           al2 == WithB(al, i)
           al3 == WithC(al, i)
           R0 == al.resident
           R1 == al1.resident
           R2 == al2.resident
           R3 == al3.resident
           sA == SlotOfA(al, i)
           sB == SlotOfB(al, i)
           sC == SlotOfC(al, i)
<1>1. /\ aBank \in Banks /\ bBank \in Banks /\ cBank \in Banks /\ aBank # bBank
  <2>1. mt_of(i) \in 0 .. MT - 1 /\ nt_of(i) \in 0 .. NT - 1 /\ kt_of(i) \in 0 .. KT - 1
    BY PassIndex
  <2>2. mt_of(i) \in Nat /\ nt_of(i) \in Nat /\ kt_of(i) \in Nat
    BY <2>1, TileCounts
  <2>3. QED
    BY <2>2, BankRange, BanksOfOperands
<1>2. /\ aId # bId /\ aId # cId /\ bId # cId
      /\ \A slot : InBank(aId, slot) <=> BankOf(slot) = aBank
      /\ \A slot : InBank(bId, slot) <=> BankOf(slot) = bBank
      /\ \A slot : InBank(cId, slot) <=> BankOf(slot) = cBank
  BY PassTiles
<1> HIDE DEF aId, bId, cId, aBank, bBank, cBank
<1>3. Acquires(al, al1, aId, aBank)
  BY <1>1, <1>2, AcquireEffect DEF WithA, aId, aBank
<1>4. Acquires(al1, al2, bId, bBank)
  <2>1. AllocOK(al1) /\ AtHome(al1.resident)
    BY <1>3 DEF Acquires
  <2> HIDE DEF al1
  <2>2. Acquires(al1, acquire(al1, bId, bBank), bId, bBank)
    BY <1>1, <1>2, <2>1, AcquireEffect
  <2>3. QED
    BY <2>2 DEF WithB, bId, bBank, al1
<1>5. Acquires(al2, al3, cId, cBank)
  <2>1. AllocOK(al2) /\ AtHome(al2.resident)
    BY <1>4 DEF Acquires
  <2> HIDE DEF al2
  <2>2. Acquires(al2, acquire(al2, cId, cBank), cId, cBank)
    BY <1>1, <1>2, <2>1, AcquireEffect
  <2>3. QED
    BY <2>2 DEF WithC, cId, cBank, al2
<1>6. sA = R1[aId] /\ sB = R2[bId] /\ sC = IF IsLast(i) THEN R3[cId] ELSE sA
  BY DEF SlotOfA, SlotOfB, SlotOfC, aId, bId, cId
<1>7. /\ HitA(al, i) <=> IsResident(al, aId)
      /\ HitB(al, i) <=> IsResident(al1, bId)
      /\ AllocAfter(al, i).resident = IF IsLast(i) THEN R3 ELSE R2
  BY DEF HitA, HitB, AllocAfter, aId, bId
<1>8. Held(R0) /\ Held(R1) /\ Held(R2) /\ Held(R3) /\ AtHome(R2) /\ AtHome(R3)
  BY <1>3, <1>4, <1>5 DEF Acquires, AllocOK
<1> HIDE DEF al1, al2, al3, sA, sB, sC
(* The tile of A stays where it is while that of B is acquired. *)
<1>9. aId \in DOMAIN R1 /\ aId \in DOMAIN R2 /\ R2[aId] = sA
  <2>1. aId \in DOMAIN R1 /\ BankOf(R1[aId]) = aBank
    BY <1>2, <1>3 DEF Acquires, AtHome
  <2>2. aId \in DOMAIN R2
    BY <1>1, <1>4, <2>1 DEF Acquires
  <2>3. QED
    BY <1>2, <1>4, <1>6, <2>1, <2>2 DEF Acquires
<1>10. bId \in DOMAIN R2 /\ R2[bId] = sB /\ sA \in StrideSlots /\ sB \in StrideSlots /\ sA # sB
  <2>1. bId \in DOMAIN R2
    BY <1>4 DEF Acquires
  <2>2. QED
    BY <1>2, <1>6, <1>8, <1>9, <2>1 DEF Held
<1>11. /\ cId \in DOMAIN R3 /\ R3[cId] \in StrideSlots
       /\ \A t \in DOMAIN R3 : t # cId => t \in DOMAIN R2 /\ R3[t] = R2[t]
  BY <1>5, <1>8 DEF Acquires, Held
<1>12. \A t \in DOMAIN R2 :
          t \notin {aId, bId} => t \in DOMAIN R0 /\ R2[t] = R0[t]
  BY <1>3, <1>4 DEF Acquires
<1>13. HitA(al, i) => aId \in DOMAIN R0 /\ R0[aId] = sA
  BY <1>3, <1>6, <1>7 DEF Acquires, IsResident
<1>14. HitB(al, i) => bId \in DOMAIN R0 /\ R0[bId] = sB
  <2> SUFFICES ASSUME HitB(al, i) PROVE bId \in DOMAIN R0 /\ R0[bId] = sB
    OBVIOUS
  <2>1. R2 = R1 /\ bId \in DOMAIN R1
    BY <1>4, <1>7 DEF Acquires, IsResident
  <2>2. QED
    BY <1>2, <1>3, <1>6, <2>1 DEF Acquires
<1>15. Awaited(i) = IF IsLast(i) THEN {cId} ELSE {}
  BY DEF Awaited, cId
<1> HIDE DEF R0, R1, R2, R3
<1>16. CASE IsLast(i)
  <2>1. PassSlots(R3, i, sA, sB, sC)
    <3>1. ASSUME NEW id \in DOMAIN R3
          PROVE  /\ id = aId => R3[id] = sA
                 /\ id = bId => R3[id] = sB
                 /\ id = cId => R3[id] = sC
                 /\ R3[id] = sA /\ id # aId => id = cId
                 /\ R3[id] = sB /\ id # bId => id = cId
                 /\ R3[id] = sC => id = cId
      BY <1>2, <1>6, <1>8, <1>9, <1>10, <1>11, <1>16 DEF Held
    <3>2. sC \in StrideSlots
      BY <1>6, <1>11, <1>16
    <3>3. QED
      BY <1>10, <1>15, <1>16, <3>1, <3>2 DEF PassSlots, aId, bId, cId
  <2>2. \A id \in DOMAIN R3 :
          id \notin {aId, bId} \cup Awaited(i) => id \in DOMAIN R0 /\ R3[id] = R0[id]
    BY <1>11, <1>12, <1>15, <1>16
  <2>3. QED
    BY <1>7, <1>8, <1>13, <1>14, <1>16, <2>1, <2>2
       DEF Prepared, aId, bId, R0, sA, sB, sC
<1>17. CASE ~ IsLast(i)
  <2>1. PassSlots(R2, i, sA, sB, sC)
    <3>1. ASSUME NEW id \in DOMAIN R2
          PROVE  /\ id = aId => R2[id] = sA
                 /\ id = bId => R2[id] = sB
                 /\ R2[id] = sA => id = aId
                 /\ R2[id] = sB => id = bId
      BY <1>8, <1>9, <1>10 DEF Held
    <3>2. sC \in StrideSlots
      BY <1>6, <1>10, <1>17
    <3>3. QED
      BY <1>10, <1>17, <3>1, <3>2 DEF PassSlots, aId, bId
  <2>2. \A id \in DOMAIN R2 :
          id \notin {aId, bId} \cup Awaited(i) => id \in DOMAIN R0 /\ R2[id] = R0[id]
    BY <1>12, <1>15, <1>17
  <2>3. QED
    BY <1>7, <1>8, <1>13, <1>14, <1>17, <2>1, <2>2
       DEF Prepared, aId, bId, R0, sA, sB, sC
<1>18. QED
  BY <1>16, <1>17
-----------------------------------------------------------------------------
(* What does not change while the product and its layout do not *)

LEMMA SameSizes ==
  ASSUME UNCHANGED <<size, layout>>
  PROVE  /\ PM' = PM /\ PK' = PK /\ PN' = PN /\ MT' = MT /\ KT' = KT /\ NT' = NT
         /\ b_base' = b_base /\ c_base' = c_base
         /\ AT' = AT /\ B' = B /\ Iterations' = Iterations
         /\ (tiled <=> tiled')
         /\ a_dram_stride' = a_dram_stride /\ b_dram_stride' = b_dram_stride
         /\ c_dram_stride' = c_dram_stride
<1>1. size' = size /\ layout' = layout
  OBVIOUS
<1>2. PM' = PM /\ PK' = PK /\ PN' = PN /\ AT' = AT /\ B' = B /\ (tiled <=> tiled')
  BY <1>1 DEF PM, PK, PN, AT, B, tiled
<1>3. MT' = MT /\ KT' = KT /\ NT' = NT
  BY <1>2 DEF MT, KT, NT
<1>4. Iterations' = Iterations
  BY <1>3 DEF Iterations
<1>5. b_base' = b_base
  BY <1>2 DEF b_base, a_base
<1>6. c_base' = c_base
  BY <1>2, <1>5 DEF c_base
<1>7. QED
  BY <1>2, <1>3, <1>4, <1>5, <1>6 DEF a_dram_stride, b_dram_stride, c_dram_stride

LEMMA SamePlaces ==
  ASSUME UNCHANGED <<size, layout>>
  PROVE  /\ \A i : /\ mt_of(i)' = mt_of(i) /\ nt_of(i)' = nt_of(i) /\ kt_of(i)' = kt_of(i)
                   /\ IsLast(i)' <=> IsLast(i)
                   /\ AOf(i)' = AOf(i) /\ BOf(i)' = BOf(i) /\ COf(i)' = COf(i)
                   /\ Awaited(i)' = Awaited(i)
         /\ \A x, y : a_dram(x, y)' = a_dram(x, y) /\ b_dram(x, y)' = b_dram(x, y)
                      /\ c_dram(x, y)' = c_dram(x, y)
         /\ \A m, n, i, j : PlaceOfC(m, n, i, j)' = PlaceOfC(m, n, i, j)
         /\ \A id, slot : InBank(id, slot)' <=> InBank(id, slot)
<1>1. \A i : mt_of(i)' = mt_of(i) /\ nt_of(i)' = nt_of(i) /\ kt_of(i)' = kt_of(i)
  BY SameSizes DEF mt_of, nt_of, kt_of
<1>2. \A i : /\ IsLast(i)' <=> IsLast(i)
             /\ AOf(i)' = AOf(i) /\ BOf(i)' = BOf(i) /\ COf(i)' = COf(i)
             /\ Awaited(i)' = Awaited(i)
  BY <1>1, SameSizes DEF IsLast, AOf, BOf, COf, Awaited
<1>3. \A x, y : /\ a_dram(x, y)' = a_dram(x, y) /\ b_dram(x, y)' = b_dram(x, y)
                /\ c_dram(x, y)' = c_dram(x, y)
  BY SameSizes DEF a_dram, b_dram, c_dram
<1>4. \A m, n, i, j : PlaceOfC(m, n, i, j)' = PlaceOfC(m, n, i, j)
  BY <1>3, SameSizes DEF PlaceOfC
<1>5. \A x, y : /\ a_bank(x, y)' = a_bank(x, y) /\ b_bank(x, y)' = b_bank(x, y)
                /\ c_bank(x, y)' = c_bank(x, y)
  BY SameSizes DEF a_bank, b_bank, c_bank
<1>6. \A id, slot : InBank(id, slot)' <=> InBank(id, slot)
  BY <1>5, SameSizes DEF InBank
<1>7. QED
  BY <1>1, <1>2, <1>3, <1>4, <1>6

LEMMA SameElements ==
  ASSUME UNCHANGED <<size, layout>>
  PROVE  /\ \A m, n : Exact(m, n)' = Exact(m, n)
         /\ \A m, n, limit : Partial(m, n, limit)' = Partial(m, n, limit)
         /\ \A id, r, c : TileElement(id, r, c)' = TileElement(id, r, c)
         /\ \A matrix, cols, offset :
              ElementAt(matrix, cols, offset)' = ElementAt(matrix, cols, offset)
<1>1. size' = size /\ layout' = layout
  OBVIOUS
<1>2. \A m, n : Exact(m, n)' = Exact(m, n)
  BY <1>1, Zenon DEF Exact
<1>3. \A m, n, limit : Partial(m, n, limit)' = Partial(m, n, limit)
  BY <1>1, Zenon DEF Partial
<1>4. \A id, r, c : TileElement(id, r, c)' = TileElement(id, r, c)
  BY <1>2, SameSizes, Zenon DEF TileElement
<1>5. \A matrix, cols, offset : ElementAt(matrix, cols, offset)' = ElementAt(matrix, cols, offset)
  BY <1>1, ZenonT(40) DEF ElementAt, LayoutOffset, tiled
<1>6. QED
  BY <1>2, <1>3, <1>4, <1>5
-----------------------------------------------------------------------------
(* The psum buffers *)

LEMMA NothingTwice == EmptyBag (+) EmptyBag = EmptyBag
  BY BagWithNothing DEF EmptyBag

LEMMA NoSumsIs == \A i, j \in TileIndexes : NoSums[<<i, j>>] = EmptyBag
  BY DEF NoSums

(* What is pushed out of the array was counted in its buffer's total. *)
LEMMA Pushed ==
  ASSUME MachineTypes
  PROVE  /\ \A q \in 0 .. 1, i, j \in TileIndexes : PushedPsum[q][<<i, j>>] = Total(q, <<i, j>>)
         /\ PushedPsum = [q \in 0 .. 1 |-> PushedPsum[q]]
<1>1. psum = [p \in 0 .. 1 |-> psum[p]] /\ in_array.psum \in 0 .. 1
  BY DEF MachineTypes
<1> DEFINE added == [ij \in TileIndexes \X TileIndexes |-> psum[in_array.psum][ij] (+) in_array.sums[ij]]
<1>2. DOMAIN NoSums = TileIndexes \X TileIndexes
  BY DEF NoSums
<1>3. PushedPsum = [psum EXCEPT ![in_array.psum] = added]
  BY <1>2 DEF PushedPsum
<1>4. \A i, j \in TileIndexes : added[<<i, j>>] = psum[in_array.psum][<<i, j>>] (+) in_array.sums[<<i, j>>]
  OBVIOUS
<1> HIDE DEF added
<1>5. /\ PushedPsum[in_array.psum] = added
      /\ \A q \in 0 .. 1 : q # in_array.psum => PushedPsum[q] = psum[q]
      /\ PushedPsum = [q \in 0 .. 1 |-> PushedPsum[q]]
  BY <1>1, <1>3
<1>6. ASSUME NEW q \in 0 .. 1, NEW i \in TileIndexes, NEW j \in TileIndexes
      PROVE  PushedPsum[q][<<i, j>>] = Total(q, <<i, j>>)
  BY <1>4, <1>5, Zenon DEF Total
<1>7. QED
  BY <1>5, <1>6

LEMMA GemmTotals ==
  ASSUME MachineTypes, psum' = PushedPsum, NEW p \in 0 .. 1, NEW sums,
         in_array' = [psum |-> p, sums |-> sums],
         spad' = spad, psum_index' = psum_index
  PROVE  /\ MachineTypes'
         /\ \A q \in 0 .. 1, i, j \in TileIndexes :
              Total(q, <<i, j>>)' =
                IF q = p THEN Total(q, <<i, j>>) (+) sums[<<i, j>>] ELSE Total(q, <<i, j>>)
<1>1. in_array'.psum = p /\ in_array'.sums = sums
  OBVIOUS
<1>2. MachineTypes'
  BY <1>1, Pushed DEF MachineTypes
<1>3. ASSUME NEW q \in 0 .. 1, NEW i \in TileIndexes, NEW j \in TileIndexes
      PROVE  Total(q, <<i, j>>)' =
               IF q = p THEN Total(q, <<i, j>>) (+) sums[<<i, j>>] ELSE Total(q, <<i, j>>)
  <2>1. psum'[q][<<i, j>>] = Total(q, <<i, j>>)
    BY Pushed
  <2> DEFINE t == Total(q, <<i, j>>)
  <2>2. psum'[q][<<i, j>>] = t
    BY <2>1
  <2> HIDE DEF t
  <2>3. Total(q, <<i, j>>)' = IF q = p THEN t (+) sums[<<i, j>>] ELSE t
    BY <1>1, <2>2 DEF Total
  <2>4. QED
    BY <2>3 DEF t
<1>4. QED
  BY <1>2, <1>3

LEMMA FlushTotals ==
  ASSUME MachineTypes, psum' = PushedPsum, in_array' = [in_array EXCEPT !.sums = NoSums],
         spad' = spad, psum_index' = psum_index
  PROVE  /\ MachineTypes'
         /\ in_array'.sums = NoSums
         /\ \A q \in 0 .. 1, i, j \in TileIndexes : psum'[q][<<i, j>>] = Total(q, <<i, j>>)
<1>1. in_array' = [psum |-> in_array.psum, sums |-> NoSums]
  BY DEF MachineTypes
<1>2. in_array'.psum = in_array.psum /\ in_array'.sums = NoSums
  BY <1>1
<1>3. MachineTypes'
  BY <1>1, <1>2, Pushed DEF MachineTypes
<1>4. QED
  BY <1>2, <1>3, Pushed

LEMMA DrainTotals ==
  ASSUME MachineTypes, NEW p \in 0 .. 1, psum' = [psum EXCEPT ![p] = NoSums], in_array' = in_array,
         DOMAIN spad' = DOMAIN spad, psum_index' = psum_index,
         in_array.sums = NoSums,
         \A i, j \in TileIndexes : psum[1 - p][<<i, j>>] = EmptyBag
  PROVE  MachineTypes' /\ Cleared(p)' /\ Cleared(1 - p)'
<1>1. 1 - p \in 0 .. 1 /\ 1 - p # p
  OBVIOUS
<1>2. psum'[p] = NoSums /\ psum'[1 - p] = psum[1 - p] /\ psum' = [q \in 0 .. 1 |-> psum'[q]]
  BY <1>1 DEF MachineTypes
<1>3. MachineTypes'
  BY <1>2 DEF MachineTypes
<1>4. ASSUME NEW q, q = p \/ q = 1 - p PROVE Cleared(q)'
  <2> SUFFICES ASSUME NEW i \in TileIndexes, NEW j \in TileIndexes
               PROVE  Total(q, <<i, j>>)' = EmptyBag
    BY DEF Cleared
  <2>1. psum'[q][<<i, j>>] = EmptyBag
    BY <1>2, <1>4, NoSumsIs
  <2>2. in_array'.sums[<<i, j>>] = EmptyBag
    BY NoSumsIs
  <2>3. QED
    BY <2>1, <2>2, NothingTwice, Zenon DEF Total
<1>5. QED
  BY <1>3, <1>4
-----------------------------------------------------------------------------
(* What an instruction leaves as it was *)

LEMMA SamePoints ==
  ASSUME UNCHANGED <<size, layout>>, NEW i, NEW sA, NEW sB, NEW sC, NEW p
  PROVE  /\ ToMvout(i, sC)' = ToMvout(i, sC) /\ ToDrain(i, sC, p)' = ToDrain(i, sC, p)
         /\ ToFlush(i, sC, p)' = ToFlush(i, sC, p) /\ Closing(i, sC, p)' = Closing(i, sC, p)
         /\ ToGemm(i, sA, sB, sC, p)' = ToGemm(i, sA, sB, sC, p)
         /\ ToMvinB(i, sA, sB, sC, p)' = ToMvinB(i, sA, sB, sC, p)
         /\ ToMvinA(i, sA, sB, sC, p)' = ToMvinA(i, sA, sB, sC, p)
         /\ ToBoth(i, sA, sB, sC, p)' = ToBoth(i, sA, sB, sC, p)
<1>1. ToMvout(i, sC)' = ToMvout(i, sC)
  BY SameSizes, SamePlaces DEF ToMvout
<1>2. ToDrain(i, sC, p)' = ToDrain(i, sC, p)
  BY <1>1 DEF ToDrain
<1>3. ToFlush(i, sC, p)' = ToFlush(i, sC, p)
  BY <1>2 DEF ToFlush
<1>4. Closing(i, sC, p)' = Closing(i, sC, p)
  BY <1>3, SamePlaces DEF Closing
<1>5. ToGemm(i, sA, sB, sC, p)' = ToGemm(i, sA, sB, sC, p)
  BY <1>4 DEF ToGemm
<1>6. MvinA(i, sA)' = MvinA(i, sA) /\ MvinB(i, sB)' = MvinB(i, sB)
  BY SameSizes, SamePlaces DEF MvinA, MvinB
<1>7. ToMvinB(i, sA, sB, sC, p)' = ToMvinB(i, sA, sB, sC, p)
  BY <1>5, <1>6 DEF ToMvinB
<1>8. ToMvinA(i, sA, sB, sC, p)' = ToMvinA(i, sA, sB, sC, p)
  BY <1>5, <1>6 DEF ToMvinA
<1>9. ToBoth(i, sA, sB, sC, p)' = ToBoth(i, sA, sB, sC, p)
  BY <1>6, <1>7 DEF ToBoth
<1>10. QED
  BY <1>1, <1>2, <1>3, <1>4, <1>5, <1>7, <1>8, <1>9

LEMMA SameSlots ==
  ASSUME UNCHANGED <<size, layout>>, NEW R, NEW i, NEW sA, NEW sB, NEW sC, PassSlots(R, i, sA, sB, sC)
  PROVE  PassSlots(R, i, sA, sB, sC)'
  BY SamePlaces DEF PassSlots

LEMMA SameHomes ==
  ASSUME UNCHANGED <<size, layout, alloc>>, AtHome(alloc.resident)
  PROVE  AtHome(alloc.resident)'
<1>1. PICK R : R = alloc.resident /\ R = alloc'.resident
  OBVIOUS
<1>2. AtHome(R)'
  BY <1>1, SamePlaces DEF AtHome
<1>3. QED
  BY <1>1, <1>2 DEF AtHome

LEMMA SameSums ==
  ASSUME UNCHANGED <<size, layout, psum, in_array>>
  PROVE  /\ \A p : Cleared(p)' <=> Cleared(p)
         /\ \A p, m, n, k : Accumulated(p, m, n, k)' <=> Accumulated(p, m, n, k)
         /\ \A p, m, n : Flushed(p, m, n)' <=> Flushed(p, m, n)
         /\ \A i, p : Operands(i, p)' <=> Operands(i, p)
<1>1. \A p, ij : Total(p, ij)' = Total(p, ij)
  BY DEF Total
<1>2. \A p : Cleared(p)' <=> Cleared(p)
  BY <1>1 DEF Cleared
<1>3. \A p, m, n, k : Accumulated(p, m, n, k)' <=> Accumulated(p, m, n, k)
  BY <1>1, SameElements DEF Accumulated
<1>4. \A p, m, n : Flushed(p, m, n)' <=> Flushed(p, m, n)
  BY SameSizes, SameElements DEF Flushed
<1>5. ASSUME NEW i, NEW p PROVE Operands(i, p)' <=> Operands(i, p)
  <2>1. PICK m, n, k : m = mt_of(i) /\ n = nt_of(i) /\ k = kt_of(i)
    OBVIOUS
  <2>2. m = mt_of(i)' /\ n = nt_of(i)' /\ k = kt_of(i)'
    BY <2>1, SamePlaces
  <2>3. QED
    BY <1>2, <1>3, <2>1, <2>2 DEF Operands
<1>6. QED
  BY <1>2, <1>3, <1>4, <1>5

LEMMA SameTile ==
  ASSUME UNCHANGED <<size, layout>>, NEW id, NEW slot, Loaded(id, slot),
         \A r \in TileIndexes : spad'[RowOf(slot, r)] = spad[RowOf(slot, r)]
  PROVE  Loaded(id, slot)'
  BY SameElements DEF Loaded

LEMMA SameResidents ==
  ASSUME UNCHANGED <<size, layout, alloc, spad>>, NEW awaited, ResidentsLoaded(awaited)
  PROVE  ResidentsLoaded(awaited)'
<1>1. PICK R : R = alloc.resident
  OBVIOUS
<1>2. \A id, slot : Loaded(id, slot) => Loaded(id, slot)'
  BY SameTile
<1>3. alloc'.resident = R
  BY <1>1
<1>4. QED
  BY <1>1, <1>2, <1>3 DEF ResidentsLoaded

LEMMA SameMatrices ==
  ASSUME UNCHANGED <<size, layout>>, NEW memory
  PROVE  (HoldsA(memory)' <=> HoldsA(memory)) /\ (HoldsB(memory)' <=> HoldsB(memory))
  BY SameSizes, SameElements DEF HoldsA, HoldsB, a_base

LEMMA SameStored ==
  ASSUME UNCHANGED <<size, layout>>, NEW m, NEW n, Stored(m, n),
         \A i, j \in TileIndexes : dram'[PlaceOfC(m, n, i, j)] = dram[PlaceOfC(m, n, i, j)]
  PROVE  Stored(m, n)'
  BY SamePlaces, SameElements DEF Stored

LEMMA SameDram ==
  ASSUME UNCHANGED <<size, layout, dram, step>>, DramHolds,
         NEW done, PassesDone' = done, StoredBelow(done)
  PROVE  DramHolds'
<1>1. PICK memory : memory = dram /\ memory = dram'
  OBVIOUS
<1>2. /\ step' # "AT" => HoldsA(dram)'
      /\ step' \in {"schedule", "done"} => HoldsB(dram)'
  BY <1>1, SameMatrices DEF DramHolds
<1>3. \A m, n : Stored(m, n) => Stored(m, n)'
  BY SameStored
<1>4. StoredBelow(done)'
  BY <1>3, SameSizes DEF StoredBelow
<1>5. StoredBelow(PassesDone)'
  BY <1>4 DEF StoredBelow
<1>6. QED
  BY <1>2, <1>5, SameSizes DEF DramHolds
-----------------------------------------------------------------------------
(* The point of its pass at which an instruction is executed *)

PsumOf(i, p) == IF IsLast(i) THEN 1 - p ELSE p

ThisPass(i, sA, sB, sC, p) ==
  /\ step = "schedule" /\ iteration = i + 1
  /\ psum_index = PsumOf(i, p)
  /\ PassSlots(alloc.resident, i, sA, sB, sC)

PointOf(op, i, sA, sB, sC, p) ==
  /\ op = "mvin" =>
       \/ AtBoth(i, sA, sB, sC, p) /\ Begins(todo, MvinA(i, sA), ToMvinB(i, sA, sB, sC, p))
       \/ AtMvinA(i, sA, sB, sC, p) /\ Begins(todo, MvinA(i, sA), ToGemm(i, sA, sB, sC, p))
       \/ AtMvinB(i, sA, sB, sC, p) /\ Begins(todo, MvinB(i, sB), ToGemm(i, sA, sB, sC, p))
  /\ op = "gemm" => AtGemm(i, sA, sB, sC, p) /\ Begins(todo, Gemm(sA, sB, p), Closing(i, sC, p))
  /\ op = "flush" => AtFlush(i, sC, p) /\ Begins(todo, Flush(p), ToDrain(i, sC, p))
  /\ op = "drain" => AtDrain(i, sC, p) /\ Begins(todo, Drain(sC, p), ToMvout(i, sC))
  /\ op = "mvout" =>
       /\ AtMvout(i, sC, p)
       /\ Begins(todo, Mvout(sC, c_dram(mt_of(i), nt_of(i)), c_dram_stride), << >>)

LEMMA WhichPoint ==
  ASSUME GemmInv, NEW op, Executes(op)
  PROVE  \E i \in 0 .. Iterations - 1, sA, sB, sC \in StrideSlots, p \in 0 .. 1 :
           ThisPass(i, sA, sB, sC, p) /\ PointOf(op, i, sA, sB, sC, p)
<1>1. todo # << >> /\ Head(todo).op = op
  BY DEF Executes
<1>2. step = "schedule" /\ ~ BetweenPasses
  BY <1>1 DEF GemmInv, BetweenPasses
<1>3. iteration >= 1 /\ InPass(iteration - 1)
  BY <1>2 DEF GemmInv
<1>4. Iterations \in Nat
  BY IterationCount DEF GemmInv
<1>5. PICK i \in 0 .. Iterations - 1 : i = iteration - 1 /\ iteration = i + 1
  <2>1. iteration - 1 \in 0 .. Iterations - 1 /\ iteration = (iteration - 1) + 1
    BY <1>3, <1>4 DEF GemmInv
  <2>2. QED
    BY <2>1
<1>6. InPass(i)
  BY <1>3, <1>5
<1>7. PICK sA \in StrideSlots, sB \in StrideSlots, sC \in StrideSlots, p \in 0 .. 1 :
        /\ psum_index = PsumOf(i, p)
        /\ PassSlots(alloc.resident, i, sA, sB, sC)
        /\ \/ AtBoth(i, sA, sB, sC, p) \/ AtMvinA(i, sA, sB, sC, p) \/ AtMvinB(i, sA, sB, sC, p)
           \/ AtGemm(i, sA, sB, sC, p) \/ AtFlush(i, sC, p) \/ AtDrain(i, sC, p) \/ AtMvout(i, sC, p)
  BY <1>6, Zenon DEF InPass, PsumOf
<1>8. ThisPass(i, sA, sB, sC, p)
  BY <1>2, <1>5, <1>7 DEF ThisPass
<1>9. /\ MvinA(i, sA).op = "mvin" /\ MvinB(i, sB).op = "mvin" /\ Gemm(sA, sB, p).op = "gemm"
      /\ Flush(p).op = "flush" /\ Drain(sC, p).op = "drain"
      /\ Mvout(sC, c_dram(mt_of(i), nt_of(i)), c_dram_stride).op = "mvout"
  BY Ops DEF MvinA, MvinB
<1>10. "mvin" # "gemm" /\ "mvin" # "flush" /\ "mvin" # "drain" /\ "mvin" # "mvout"
       /\ "gemm" # "flush" /\ "gemm" # "drain" /\ "gemm" # "mvout"
       /\ "flush" # "drain" /\ "flush" # "mvout" /\ "drain" # "mvout"
  OBVIOUS
<1>11. PointOf(op, i, sA, sB, sC, p)
  <2>1. CASE AtBoth(i, sA, sB, sC, p)
    <3>1. Begins(todo, MvinA(i, sA), ToMvinB(i, sA, sB, sC, p))
      BY <2>1, PointsBegin DEF AtBoth
    <3>2. op = "mvin"
      BY <1>1, <1>9, <3>1 DEF Begins
    <3>3. QED
      BY <1>10, <2>1, <3>1, <3>2, Zenon DEF PointOf
  <2>2. CASE AtMvinA(i, sA, sB, sC, p)
    <3>1. Begins(todo, MvinA(i, sA), ToGemm(i, sA, sB, sC, p))
      BY <2>2, PointsBegin DEF AtMvinA
    <3>2. op = "mvin"
      BY <1>1, <1>9, <3>1 DEF Begins
    <3>3. QED
      BY <1>10, <2>2, <3>1, <3>2, Zenon DEF PointOf
  <2>3. CASE AtMvinB(i, sA, sB, sC, p)
    <3>1. Begins(todo, MvinB(i, sB), ToGemm(i, sA, sB, sC, p))
      BY <2>3, PointsBegin DEF AtMvinB
    <3>2. op = "mvin"
      BY <1>1, <1>9, <3>1 DEF Begins
    <3>3. QED
      BY <1>10, <2>3, <3>1, <3>2, Zenon DEF PointOf
  <2>4. CASE AtGemm(i, sA, sB, sC, p)
    <3>1. Begins(todo, Gemm(sA, sB, p), Closing(i, sC, p))
      BY <2>4, PointsBegin DEF AtGemm
    <3>2. op = "gemm"
      BY <1>1, <1>9, <3>1 DEF Begins
    <3>3. QED
      BY <1>10, <2>4, <3>1, <3>2, Zenon DEF PointOf
  <2>5. CASE AtFlush(i, sC, p)
    <3>1. Begins(todo, Flush(p), ToDrain(i, sC, p))
      BY <2>5, PointsBegin DEF AtFlush
    <3>2. op = "flush"
      BY <1>1, <1>9, <3>1 DEF Begins
    <3>3. QED
      BY <1>10, <2>5, <3>1, <3>2, Zenon DEF PointOf
  <2>6. CASE AtDrain(i, sC, p)
    <3>1. Begins(todo, Drain(sC, p), ToMvout(i, sC))
      BY <2>6, PointsBegin DEF AtDrain
    <3>2. op = "drain"
      BY <1>1, <1>9, <3>1 DEF Begins
    <3>3. QED
      BY <1>10, <2>6, <3>1, <3>2, Zenon DEF PointOf
  <2>7. CASE AtMvout(i, sC, p)
    <3>1. Begins(todo, Mvout(sC, c_dram(mt_of(i), nt_of(i)), c_dram_stride), << >>)
      BY <2>7, PointsBegin DEF AtMvout
    <3>2. op = "mvout"
      BY <1>1, <1>9, <3>1 DEF Begins
    <3>3. QED
      BY <1>10, <2>7, <3>1, <3>2, Zenon DEF PointOf
  <2>8. QED
    BY <1>7, <2>1, <2>2, <2>3, <2>4, <2>5, <2>6, <2>7
<1>12. QED
  BY <1>8, <1>11

(* An instruction that is not the pass's last: the pass is at another of   *)
(* its points.                                                             *)
LEMMA PassGoesOn ==
  ASSUME GemmInv, NEW op, Executes(op),
         NEW i \in 0 .. Iterations - 1, NEW sA \in StrideSlots, NEW sB \in StrideSlots,
         NEW sC \in StrideSlots, NEW p \in 0 .. 1, ThisPass(i, sA, sB, sC, p),
         dram' = dram, todo' # << >>, MachineTypes',
         \/ AtMvinB(i, sA, sB, sC, p)' \/ AtGemm(i, sA, sB, sC, p)'
         \/ AtFlush(i, sC, p)' \/ AtDrain(i, sC, p)' \/ AtMvout(i, sC, p)'
  PROVE  GemmInv'
<1>1. UNCHANGED <<size, layout, step, iteration, alloc, psum_index, C_hardware>>
  BY DEF Executes
<1>2. /\ step = "schedule" /\ iteration = i + 1 /\ psum_index = PsumOf(i, p)
      /\ PassSlots(alloc.resident, i, sA, sB, sC) /\ todo # << >>
  BY DEF ThisPass, Executes
<1>3. PICK R : R = alloc.resident /\ R = alloc'.resident
  BY <1>1
<1>4. PassSlots(R, i, sA, sB, sC)'
  BY <1>1, <1>2, <1>3, SameSlots
<1>5. psum_index' = IF IsLast(i)' THEN 1 - p ELSE p
  BY <1>1, <1>2, SamePlaces DEF PsumOf
<1>6. InPass(i)'
  BY <1>3, <1>4, <1>5, Zenon DEF InPass
<1>7. DramHolds'
  <2>1. PICK done : done = PassesDone
    OBVIOUS
  <2>2. PassesDone' = done
    BY <1>1, <1>2, <2>1 DEF PassesDone
  <2>3. DramHolds /\ StoredBelow(done)
    BY <2>1 DEF GemmInv, DramHolds
  <2>4. QED
    BY <1>1, <2>2, <2>3, SameDram
<1>8. AtHome(alloc.resident)'
  BY <1>1, SameHomes DEF GemmInv
<1>9. iteration' >= 1 /\ InPass(iteration - 1)'
  <2>1. iteration' - 1 = i
    BY <1>1, <1>2
  <2>2. i + 1 >= 1
    OBVIOUS
  <2>3. InPass(iteration - 1)'
    BY <1>6, <2>1
  <2>4. QED
    BY <1>1, <1>2, <2>2, <2>3
<1>10. iteration' \in 0 .. Iterations' /\ size' \in Sizes /\ step' = "schedule"
  BY <1>1, <1>2, SameSizes DEF GemmInv
<1>11. QED
  BY <1>7, <1>8, <1>9, <1>10 DEF GemmInv
-----------------------------------------------------------------------------
(* An instruction that writes a tile of the scratchpad *)

LEMMA ResidentsAfterWrite ==
  ASSUME UNCHANGED <<size, layout, alloc>>, DOMAIN spad = FlatAddrs, Held(alloc.resident),
         NEW slot \in StrideSlots, NEW tile, WriteRows(slot, tile),
         NEW before, NEW after, ResidentsLoaded(before),
         \A id \in DOMAIN alloc.resident \ after :
           \/ id \notin before /\ alloc.resident[id] # slot
           \/ Loaded(id, slot)' /\ alloc.resident[id] = slot
  PROVE  ResidentsLoaded(after)'
<1>1. PICK R : R = alloc.resident /\ R = alloc'.resident
  OBVIOUS
<1>2. \A other \in StrideSlots, r \in TileIndexes :
        other # slot => spad'[RowOf(other, r)] = spad[RowOf(other, r)]
  BY TileWritten
<1>3. ASSUME NEW id \in DOMAIN R, id \notin after
      PROVE  Loaded(id, R[id])'
  <2>1. R[id] \in StrideSlots
    BY <1>1, <1>3 DEF Held
  <2>2. CASE Loaded(id, slot)' /\ R[id] = slot
    BY <2>2
  <2>3. CASE id \notin before /\ R[id] # slot
    <3>1. Loaded(id, R[id])
      BY <1>1, <1>3, <2>3 DEF ResidentsLoaded
    <3>2. QED
      BY <1>2, <2>1, <2>3, <3>1, SameTile
  <2>4. QED
    BY <1>1, <1>3, <2>2, <2>3
<1>4. QED
  BY <1>1, <1>3 DEF ResidentsLoaded

LEMMA LoadsA ==
  ASSUME UNCHANGED <<size, layout>>, size \in Sizes, DOMAIN spad = FlatAddrs, HoldsA(dram),
         NEW i \in 0 .. Iterations - 1, NEW slot \in StrideSlots,
         WriteRows(slot, [r \in TileIndexes |-> [c \in TileIndexes |->
                            dram[a_dram(mt_of(i), kt_of(i)) + r * a_dram_stride + c]]])
  PROVE  Loaded(AOf(i), slot)'
<1>1. PICK m, k : m = mt_of(i) /\ k = kt_of(i)
  OBVIOUS
<1>2. m \in 0 .. MT - 1 /\ k \in 0 .. KT - 1
  BY <1>1, PassIndex
<1>3. AOf(i) = <<"a", m, k>>
  BY <1>1 DEF AOf, ATile
<1> DEFINE id == <<"a", m, k>>
<1>4. id[1] = "a" /\ id[2] = m /\ id[3] = k
  OBVIOUS
<1> HIDE DEF id
<1>5. ASSUME NEW r \in TileIndexes, NEW c \in TileIndexes
      PROVE  spad'[RowOf(slot, r)][c] = TileElement(id, r, c)
  <2> DEFINE tile == [x \in TileIndexes |-> [y \in TileIndexes |->
                        dram[a_dram(mt_of(i), kt_of(i)) + x * a_dram_stride + y]]]
  <2>1. tile[r][c] = dram[a_dram(m, k) + r * a_dram_stride + c]
    BY <1>1
  <2>2. tile[r][c] = AT[<<k * DIM + r, m * DIM + c>>]
    BY <1>2, <2>1, ReadsTileOfA
  <2>3. WriteRows(slot, tile)
    OBVIOUS
  <2> HIDE DEF tile
  <2>4. spad'[RowOf(slot, r)] = tile[r]
    BY <2>3, TileWritten
  <2>5. TileElement(id, r, c) = AT[<<k * DIM + r, m * DIM + c>>]
    BY <1>4 DEF TileElement
  <2>6. QED
    BY <2>2, <2>4, <2>5
<1>6. Loaded(id, slot)'
  BY <1>5, SameElements DEF Loaded
<1>7. AOf(i)' = id
  BY <1>3, SamePlaces DEF id
<1>8. QED
  BY <1>6, <1>7

LEMMA LoadsB ==
  ASSUME UNCHANGED <<size, layout>>, size \in Sizes, DOMAIN spad = FlatAddrs, HoldsB(dram),
         NEW i \in 0 .. Iterations - 1, NEW slot \in StrideSlots,
         WriteRows(slot, [r \in TileIndexes |-> [c \in TileIndexes |->
                            dram[b_dram(kt_of(i), nt_of(i)) + r * b_dram_stride + c]]])
  PROVE  Loaded(BOf(i), slot)'
<1>1. PICK k, n : k = kt_of(i) /\ n = nt_of(i)
  OBVIOUS
<1>2. k \in 0 .. KT - 1 /\ n \in 0 .. NT - 1
  BY <1>1, PassIndex
<1>3. BOf(i) = <<"b", k, n>>
  BY <1>1 DEF BOf, BTile
<1> DEFINE id == <<"b", k, n>>
<1>4. id[1] = "b" /\ id[2] = k /\ id[3] = n
  OBVIOUS
<1> HIDE DEF id
<1>5. ASSUME NEW r \in TileIndexes, NEW c \in TileIndexes
      PROVE  spad'[RowOf(slot, r)][c] = TileElement(id, r, c)
  <2> DEFINE tile == [x \in TileIndexes |-> [y \in TileIndexes |->
                        dram[b_dram(kt_of(i), nt_of(i)) + x * b_dram_stride + y]]]
  <2>1. tile[r][c] = dram[b_dram(k, n) + r * b_dram_stride + c]
    BY <1>1
  <2>2. tile[r][c] = B[<<k * DIM + r, n * DIM + c>>]
    BY <1>2, <2>1, ReadsTileOfB
  <2>3. WriteRows(slot, tile)
    OBVIOUS
  <2> HIDE DEF tile
  <2>4. spad'[RowOf(slot, r)] = tile[r]
    BY <2>3, TileWritten
  <2>5. TileElement(id, r, c) = B[<<k * DIM + r, n * DIM + c>>]
    BY <1>4 DEF TileElement
  <2>6. QED
    BY <2>2, <2>4, <2>5
<1>6. Loaded(id, slot)'
  BY <1>5, SameElements DEF Loaded
<1>7. BOf(i)' = id
  BY <1>3, SamePlaces DEF id
<1>8. QED
  BY <1>6, <1>7

LEMMA TileApart ==
  ASSUME UNCHANGED <<size, layout>>, DOMAIN spad = FlatAddrs,
         NEW slot \in StrideSlots, NEW tile, WriteRows(slot, tile),
         NEW id, NEW other \in StrideSlots, other # slot, Loaded(id, other)
  PROVE  Loaded(id, other)'
  BY TileWritten, SameTile

LEMMA MvinStep == GemmInv /\ LoopInv /\ ExecMvin => GemmInv'
<1> SUFFICES ASSUME GemmInv, LoopInv, ExecMvin PROVE GemmInv'
  OBVIOUS
<1>1. Executes("mvin") /\ UNCHANGED <<size, layout, alloc, step, psum_index, dram, psum, in_array>>
  BY DEF ExecMvin, Executes
<1>2. PICK i \in 0 .. Iterations - 1, sA \in StrideSlots, sB \in StrideSlots, sC \in StrideSlots,
           p \in 0 .. 1 :
        ThisPass(i, sA, sB, sC, p) /\ PointOf("mvin", i, sA, sB, sC, p)
  BY <1>1, WhichPoint, Zenon
<1>3. PICK R : R = alloc.resident
  OBVIOUS
<1>4. /\ DOMAIN spad = FlatAddrs /\ Held(alloc.resident) /\ size \in Sizes
      /\ HoldsA(dram) /\ HoldsB(dram) /\ sA # sB
      /\ PassSlots(alloc.resident, i, sA, sB, sC)
  BY <1>2 DEF GemmInv, MachineTypes, DramHolds, LoopInv, AllocOK, ThisPass, PassSlots
<1> DEFINE a == AOf(i)
           b == BOf(i)
           tile(instr) == [r \in TileIndexes |-> [c \in TileIndexes |->
                             dram[instr.dram + r * instr.stride + c]]]
<1>5. WriteRows(Head(todo).spad, tile(Head(todo))) /\ todo' = Tail(todo)
  BY DEF ExecMvin, Executes
<1>6. /\ MvinA(i, sA).spad = sA /\ MvinA(i, sA).dram = a_dram(mt_of(i), kt_of(i))
      /\ MvinA(i, sA).stride = a_dram_stride
      /\ MvinB(i, sB).spad = sB /\ MvinB(i, sB).dram = b_dram(kt_of(i), nt_of(i))
      /\ MvinB(i, sB).stride = b_dram_stride
  BY DEF MvinA, MvinB, Mvin
<1>7. \A x : Operands(i, x)' <=> Operands(i, x)
  BY <1>1, SameSums
<1>8. MachineTypes' /\ DOMAIN spad' = FlatAddrs
  BY <1>1, <1>4, <1>5 DEF MachineTypes, GemmInv, WriteRows
<1>9. a # b
  BY <1>4, PassTiles
<1>10. a' = a /\ b' = b /\ Awaited(i)' = Awaited(i)
  BY <1>1, SamePlaces
<1>11. ASSUME Head(todo) = MvinA(i, sA)
       PROVE  WriteRows(sA, tile(MvinA(i, sA))) /\ Loaded(a, sA)'
  <2>1. WriteRows(sA, tile(MvinA(i, sA)))
    BY <1>5, <1>6, <1>11
  <2>2. WriteRows(sA, [r \in TileIndexes |-> [c \in TileIndexes |->
                         dram[a_dram(mt_of(i), kt_of(i)) + r * a_dram_stride + c]]])
    BY <1>6, <2>1
  <2>3. QED
    BY <1>1, <1>4, <2>1, <2>2, LoadsA
<1>12. ASSUME Head(todo) = MvinB(i, sB)
       PROVE  WriteRows(sB, tile(MvinB(i, sB))) /\ Loaded(b, sB)'
  <2>1. WriteRows(sB, tile(MvinB(i, sB)))
    BY <1>5, <1>6, <1>12
  <2>2. WriteRows(sB, [r \in TileIndexes |-> [c \in TileIndexes |->
                         dram[b_dram(kt_of(i), nt_of(i)) + r * b_dram_stride + c]]])
    BY <1>6, <2>1
  <2>3. QED
    BY <1>1, <1>4, <2>1, <2>2, LoadsB
<1> HIDE DEF tile
<1>13. PICK x, y : x = a /\ y = b /\ x # y
  BY <1>9
<1>14. /\ \A id \in DOMAIN alloc.resident : id = x => alloc.resident[id] = sA
       /\ \A id \in DOMAIN alloc.resident : id = y => alloc.resident[id] = sB
       /\ \A id \in DOMAIN alloc.resident :
            id # x /\ id \notin Awaited(i) => alloc.resident[id] # sA
       /\ \A id \in DOMAIN alloc.resident :
            id # y /\ id \notin Awaited(i) => alloc.resident[id] # sB
  BY <1>4, <1>13 DEF PassSlots
<1>15. PICK W : W = Awaited(i)
  OBVIOUS
<1>16. CASE AtBoth(i, sA, sB, sC, p) /\ Begins(todo, MvinA(i, sA), ToMvinB(i, sA, sB, sC, p))
  <2>1. /\ Head(todo) = MvinA(i, sA) /\ todo' = ToMvinB(i, sA, sB, sC, p)
        /\ ResidentsLoaded({x, y} \cup W) /\ Operands(i, p)
    BY <1>5, <1>13, <1>15, <1>16 DEF Begins, AtBoth
  <2>2. Loaded(x, sA)' /\ WriteRows(sA, tile(MvinA(i, sA)))
    BY <1>10, <1>11, <1>13, <2>1
  <2>3. ResidentsLoaded({y} \cup W)'
    BY <1>1, <1>4, <1>14, <1>15, <2>1, <2>2, ResidentsAfterWrite
  <2>4. AtMvinB(i, sA, sB, sC, p)'
    BY <1>1, <1>7, <1>10, <1>13, <1>15, <2>1, <2>2, <2>3, SamePoints DEF AtMvinB
  <2>5. todo' # << >>
    BY <2>1, PointsBegin DEF Begins
  <2>6. QED
    BY <1>1, <1>2, <1>8, <2>4, <2>5, PassGoesOn
<1>17. CASE AtMvinA(i, sA, sB, sC, p) /\ Begins(todo, MvinA(i, sA), ToGemm(i, sA, sB, sC, p))
  <2>1. /\ Head(todo) = MvinA(i, sA) /\ todo' = ToGemm(i, sA, sB, sC, p)
        /\ ResidentsLoaded({x} \cup W) /\ Operands(i, p) /\ Loaded(y, sB)
    BY <1>5, <1>13, <1>15, <1>17 DEF Begins, AtMvinA
  <2>2. Loaded(x, sA)' /\ WriteRows(sA, tile(MvinA(i, sA)))
    BY <1>10, <1>11, <1>13, <2>1
  <2>3. ResidentsLoaded(W)'
    BY <1>1, <1>4, <1>14, <1>15, <2>1, <2>2, ResidentsAfterWrite
  <2>4. Loaded(y, sB)'
    BY <1>1, <1>4, <2>1, <2>2, TileApart
  <2>5. AtGemm(i, sA, sB, sC, p)'
    BY <1>1, <1>7, <1>10, <1>13, <1>15, <2>1, <2>2, <2>3, <2>4, SamePoints DEF AtGemm
  <2>6. todo' # << >>
    BY <2>1, PointsBegin DEF Begins
  <2>7. QED
    BY <1>1, <1>2, <1>8, <2>5, <2>6, PassGoesOn
<1>18. CASE AtMvinB(i, sA, sB, sC, p) /\ Begins(todo, MvinB(i, sB), ToGemm(i, sA, sB, sC, p))
  <2>1. /\ Head(todo) = MvinB(i, sB) /\ todo' = ToGemm(i, sA, sB, sC, p)
        /\ ResidentsLoaded({y} \cup W) /\ Operands(i, p) /\ Loaded(x, sA)
    BY <1>5, <1>13, <1>15, <1>18 DEF Begins, AtMvinB
  <2>2. Loaded(y, sB)' /\ WriteRows(sB, tile(MvinB(i, sB)))
    BY <1>10, <1>12, <1>13, <2>1
  <2>3. ResidentsLoaded(W)'
    BY <1>1, <1>4, <1>14, <1>15, <2>1, <2>2, ResidentsAfterWrite
  <2>4. Loaded(x, sA)'
    BY <1>1, <1>4, <2>1, <2>2, TileApart
  <2>5. AtGemm(i, sA, sB, sC, p)'
    BY <1>1, <1>7, <1>10, <1>13, <1>15, <2>1, <2>2, <2>3, <2>4, SamePoints DEF AtGemm
  <2>6. todo' # << >>
    BY <2>1, PointsBegin DEF Begins
  <2>7. QED
    BY <1>1, <1>2, <1>8, <2>5, <2>6, PassGoesOn
<1>19. QED
  BY <1>2, <1>16, <1>17, <1>18 DEF PointOf
-----------------------------------------------------------------------------
(* A gemm adds the products of its two tiles. *)

(* What a gemm of the tiles in slots sA and sB adds to sum <<x, y>> *)
Added(sA, sB, x, y) ==
  SetToBag(UNION {Product(spad[RowOf(sA, r)][x], spad[RowOf(sB, r)][y]) : r \in TileIndexes})

LEMMA GemmSums ==
  ASSUME size \in Sizes, NEW i \in 0 .. Iterations - 1, NEW sA, NEW sB,
         Loaded(AOf(i), sA), Loaded(BOf(i), sB), NEW x \in TileIndexes, NEW y \in TileIndexes
  PROVE  Partial(mt_of(i) * DIM + x, nt_of(i) * DIM + y, kt_of(i) * DIM)
           (+) Added(sA, sB, x, y)
         = Partial(mt_of(i) * DIM + x, nt_of(i) * DIM + y, (kt_of(i) + 1) * DIM)
<1>1. PICK m, n, k : m = mt_of(i) /\ n = nt_of(i) /\ k = kt_of(i)
  OBVIOUS
<1>2. m \in 0 .. MT - 1 /\ n \in 0 .. NT - 1 /\ k \in 0 .. KT - 1
  BY <1>1, PassIndex
<1>3. AOf(i) = <<"a", m, k>> /\ BOf(i) = <<"b", k, n>>
  BY <1>1 DEF AOf, BOf, ATile, BTile
<1> DEFINE a == <<"a", m, k>>
           b == <<"b", k, n>>
<1>4. a[1] = "a" /\ a[2] = m /\ a[3] = k /\ b[1] = "b" /\ b[2] = k /\ b[3] = n /\ "a" # "b"
  OBVIOUS
<1> HIDE DEF a, b
<1>5. Loaded(a, sA) /\ Loaded(b, sB)
  BY <1>3 DEF a, b
<1>6. ASSUME NEW r \in TileIndexes
      PROVE  /\ spad[RowOf(sA, r)][x] = AT[<<k * DIM + r, m * DIM + x>>]
             /\ spad[RowOf(sB, r)][y] = B[<<k * DIM + r, n * DIM + y>>]
  <2>1. TileElement(a, r, x) = AT[<<k * DIM + r, m * DIM + x>>]
    BY <1>4 DEF TileElement
  <2>2. TileElement(b, r, y) = B[<<k * DIM + r, n * DIM + y>>]
    BY <1>4 DEF TileElement
  <2>3. QED
    BY <1>5, <2>1, <2>2 DEF Loaded
<1>7. m * DIM + x \in 0 .. PM - 1 /\ n * DIM + y \in 0 .. PN - 1
  BY <1>2, RowInMatrix, TileCounts
<1> DEFINE mx == m * DIM + x
           ny == n * DIM + y
           inSpad(r) == Product(spad[RowOf(sA, r)][x], spad[RowOf(sB, r)][y])
           inMatrices(r) == Product(AT[<<k * DIM + r, mx>>], B[<<k * DIM + r, ny>>])
<1>8. \A r \in TileIndexes : inSpad(r) = inMatrices(r)
  BY <1>6
<1>9. mx \in 0 .. PM - 1 /\ ny \in 0 .. PN - 1
  BY <1>7
<1>10. Partial(mx, ny, k * DIM) (+) SetToBag(UNION {inMatrices(r) : r \in TileIndexes})
         = Partial(mx, ny, (k + 1) * DIM)
  <2> HIDE DEF mx, ny
  <2>1. QED
    BY <1>2, <1>9, GemmAdds
<1> HIDE DEF inSpad, inMatrices
<1>11. {inSpad(r) : r \in TileIndexes} = {inMatrices(r) : r \in TileIndexes}
  BY <1>8
<1>12. QED
  BY <1>1, <1>10, <1>11 DEF inSpad, Added

(* Tiles of C are complete when their last pass is. *)
LEMMA PassDone ==
  ASSUME size \in Sizes, NEW i \in 0 .. Iterations - 1,
         NEW m \in 0 .. MT - 1, NEW n \in 0 .. NT - 1, (m * NT + n) * KT + KT <= i + 1
  PROVE  (m * NT + n) * KT + KT <= i \/ (IsLast(i) /\ m = mt_of(i) /\ n = nt_of(i))
<1>1. KT \in Nat \ {0} /\ NT \in Nat \ {0} /\ KT - 1 \in 0 .. KT - 1 /\ MT \in Nat \ {0}
  <2>1. KT \in Nat \ {0} /\ NT \in Nat \ {0} /\ MT \in Nat \ {0}
    BY TileCounts
  <2>2. QED
    BY <2>1
<1>2. m * NT + n \in Nat
  BY <1>1, Z3
<1> DEFINE p == m * NT + n
<1>3. p * KT \in Nat /\ p * KT + KT <= i + 1
  BY <1>1, <1>2, Z3
<1>4. CASE p * KT + KT <= i
  BY <1>4
<1>5. CASE ~ (p * KT + KT <= i)
  <2>1. i = p * KT + (KT - 1)
    <3> DEFINE pk == p * KT
    <3>1. pk \in Nat /\ pk + KT <= i + 1 /\ ~ (pk + KT <= i) /\ i \in Int
      BY <1>3, <1>5
    <3> HIDE DEF pk
    <3>2. i = pk + (KT - 1)
      BY <1>1, <3>1
    <3>3. QED
      BY <3>2 DEF pk
  <2>2. i = (m * NT + n) * KT + (KT - 1)
    BY <2>1
  <2>3. PICK k \in 0 .. KT - 1 : k = KT - 1
    BY <1>1
  <2>4. i = (m * NT + n) * KT + k
    BY <2>2, <2>3
  <2>5. mt_of(i) = m /\ nt_of(i) = n /\ kt_of(i) = k
    BY <2>4, PassOf
  <2>6. QED
    BY <2>3, <2>5 DEF IsLast
<1>6. QED
  BY <1>4, <1>5

LEMMA PassEnds ==
  ASSUME GemmInv, NEW op, Executes(op),
         NEW i \in 0 .. Iterations - 1, NEW sA, NEW sB, NEW sC, NEW p, ThisPass(i, sA, sB, sC, p),
         NEW x, x = i + 1, NEW q, q = PsumOf(i, p),
         todo' = << >>, MachineTypes', ResidentsLoaded({})', Operands(x, q)', DramHolds'
  PROVE  GemmInv'
<1>1. UNCHANGED <<size, layout, step, iteration, alloc, psum_index, C_hardware>>
  BY DEF Executes
<1>2. step = "schedule" /\ iteration = i + 1 /\ psum_index = PsumOf(i, p)
  BY DEF ThisPass
<1>3. iteration' = x /\ psum_index' = q
  BY <1>1, <1>2
<1>4. BetweenPasses'
  BY <1>3 DEF BetweenPasses
<1>5. AtHome(alloc.resident)'
  BY <1>1, SameHomes DEF GemmInv
<1>6. iteration' \in 0 .. Iterations' /\ size' \in Sizes /\ step' = "schedule"
  BY <1>1, <1>2, SameSizes DEF GemmInv
<1>7. QED
  BY <1>4, <1>5, <1>6 DEF GemmInv
LEMMA GemmStep == GemmInv /\ LoopInv /\ ExecGemm => GemmInv'
<1> SUFFICES ASSUME GemmInv, LoopInv, ExecGemm PROVE GemmInv'
  OBVIOUS
<1>1. /\ Executes("gemm")
      /\ UNCHANGED <<size, layout, alloc, step, iteration, psum_index, dram, spad>>
  BY DEF ExecGemm, Executes
<1>2. PICK i \in 0 .. Iterations - 1, sA \in StrideSlots, sB \in StrideSlots, sC \in StrideSlots,
           p \in 0 .. 1 :
        ThisPass(i, sA, sB, sC, p) /\ PointOf("gemm", i, sA, sB, sC, p)
  BY <1>1, WhichPoint, Zenon
<1>3. /\ AtGemm(i, sA, sB, sC, p) /\ Head(todo) = Gemm(sA, sB, p)
      /\ todo' = Closing(i, sC, p) /\ todo # << >>
  BY <1>1, <1>2 DEF PointOf, Begins, Executes
<1>4. size \in Sizes /\ MachineTypes /\ DramHolds
  BY DEF GemmInv
<1> DEFINE sums == [ij \in DOMAIN NoSums |->
                      SetToBag(UNION {Product(spad[RowOf(sA, r)][ij[1]], spad[RowOf(sB, r)][ij[2]])
                                        : r \in TileIndexes})]
<1>5. psum' = PushedPsum /\ in_array' = [psum |-> p, sums |-> sums]
  <2>1. Gemm(sA, sB, p).A_addr = sA /\ Gemm(sA, sB, p).B_addr = sB /\ Gemm(sA, sB, p).psum = p
    BY DEF Gemm
  <2>2. QED
    BY <1>3, <2>1 DEF ExecGemm
<1>6. PICK m, n, k : m = mt_of(i) /\ n = nt_of(i) /\ k = kt_of(i)
  OBVIOUS
<1>7. \A x, y \in TileIndexes : sums[<<x, y>>] = Added(sA, sB, x, y)
  BY DEF NoSums, Added
<1>8. /\ MachineTypes'
      /\ \A q \in 0 .. 1, x, y \in TileIndexes :
           Total(q, <<x, y>>)' =
             IF q = p THEN Total(q, <<x, y>>) (+) sums[<<x, y>>] ELSE Total(q, <<x, y>>)
  <2> HIDE DEF sums
  <2>1. QED
    BY <1>1, <1>4, <1>5, GemmTotals
<1>9. Accumulated(p, m, n, k) /\ Cleared(1 - p) /\ Loaded(AOf(i), sA) /\ Loaded(BOf(i), sB)
  BY <1>3, <1>6 DEF AtGemm, Operands
<1>10. Accumulated(p, m, n, k + 1)'
  <2>1. ASSUME NEW x \in TileIndexes, NEW y \in TileIndexes
        PROVE  Total(p, <<x, y>>)' = Partial(m * DIM + x, n * DIM + y, (k + 1) * DIM)
    <3>1. Total(p, <<x, y>>)' = Total(p, <<x, y>>) (+) sums[<<x, y>>]
      BY <1>8
    <3>2. Total(p, <<x, y>>) = Partial(m * DIM + x, n * DIM + y, k * DIM)
      BY <1>9 DEF Accumulated
    <3>3. Partial(m * DIM + x, n * DIM + y, k * DIM) (+) Added(sA, sB, x, y)
            = Partial(m * DIM + x, n * DIM + y, (k + 1) * DIM)
      BY <1>4, <1>6, <1>9, GemmSums
    <3>4. sums[<<x, y>>] = Added(sA, sB, x, y)
      BY <1>7
    <3>5. QED
      BY <3>1, <3>2, <3>3, <3>4
  <2>2. \A u, v, limit : Partial(u, v, limit)' = Partial(u, v, limit)
    BY <1>1, SameElements
  <2>3. QED
    BY <2>1, <2>2, Zenon DEF Accumulated
<1>11. Cleared(1 - p)'
  <2>1. 1 - p \in 0 .. 1 /\ 1 - p # p
    OBVIOUS
  <2>2. \A x, y \in TileIndexes : Total(1 - p, <<x, y>>)' = Total(1 - p, <<x, y>>)
    BY <1>8, <2>1, Zenon
  <2>3. QED
    BY <1>9, <2>2, ZenonT(40) DEF Cleared
<1>12. PICK W : W = Awaited(i) /\ W = Awaited(i)'
  BY <1>1, SamePlaces
<1>13. ResidentsLoaded(W)'
  <2>1. ResidentsLoaded(W)
    BY <1>3, <1>12 DEF AtGemm
  <2>2. QED
    BY <1>1, <2>1, SameResidents
<1> HIDE DEF sums
<1>14. CASE IsLast(i)
  <2>1. todo' = ToFlush(i, sC, p) /\ todo' # << >>
    BY <1>3, <1>14, PointsBegin DEF Closing, Begins
  <2>2. KT' = k + 1
    <3>1. KT \in Nat /\ k = KT - 1
      BY <1>4, <1>6, <1>14, TileCounts DEF IsLast
    <3>2. QED
      BY <1>1, <3>1, SameSizes
  <2>3. m = mt_of(i)' /\ n = nt_of(i)' /\ IsLast(i)'
    BY <1>1, <1>6, <1>14, SamePlaces
  <2>4. Chained(i, p)'
    BY <1>10, <1>11, <2>2, <2>3 DEF Chained
  <2>5. AtFlush(i, sC, p)'
    BY <1>1, <1>12, <1>13, <2>1, <2>3, <2>4, SamePoints DEF AtFlush
  <2>6. QED
    BY <1>1, <1>2, <1>8, <2>1, <2>5, PassGoesOn
<1>15. CASE ~ IsLast(i)
  <2>1. todo' = << >> /\ W = {}
    BY <1>3, <1>12, <1>15 DEF Closing, Awaited
  <2>2. PICK x : x = i + 1
    OBVIOUS
  <2>3. m = mt_of(x)' /\ n = nt_of(x)' /\ k + 1 = kt_of(x)'
    BY <1>1, <1>4, <1>6, <1>15, <2>2, NextPass, SamePlaces
  <2>4. Operands(x, p)'
    BY <1>10, <1>11, <2>3 DEF Operands
  <2>5. p = PsumOf(i, p)
    BY <1>15 DEF PsumOf
  <2>6. iteration = i + 1
    BY <1>2 DEF ThisPass
  <2>7. PassesDone' = x /\ PassesDone = i
    BY <1>1, <1>3, <2>1, <2>2, <2>6 DEF PassesDone
  <2>8. StoredBelow(x)
    <3>1. StoredBelow(i)
      BY <1>4, <2>7 DEF DramHolds
    <3>2. QED
      BY <1>4, <1>15, <2>2, <3>1, PassDone DEF StoredBelow
  <2>9. DramHolds'
    BY <1>1, <1>4, <2>7, <2>8, SameDram
  <2>10. QED
    BY <1>1, <1>2, <1>8, <1>13, <2>1, <2>2, <2>4, <2>5, <2>9, PassEnds
<1>16. QED
  BY <1>14, <1>15

LEMMA FlushStep == GemmInv /\ LoopInv /\ ExecFlush => GemmInv'
<1> SUFFICES ASSUME GemmInv, LoopInv, ExecFlush PROVE GemmInv'
  OBVIOUS
<1>1. /\ Executes("flush") /\ psum' = PushedPsum /\ in_array' = [in_array EXCEPT !.sums = NoSums]
      /\ UNCHANGED <<size, layout, alloc, step, iteration, psum_index, dram, spad>>
  BY DEF ExecFlush, Executes
<1>2. PICK i \in 0 .. Iterations - 1, sA \in StrideSlots, sB \in StrideSlots, sC \in StrideSlots,
           p \in 0 .. 1 :
        ThisPass(i, sA, sB, sC, p) /\ PointOf("flush", i, sA, sB, sC, p)
  BY <1>1, WhichPoint, Zenon
<1>3. AtFlush(i, sC, p) /\ todo' = ToDrain(i, sC, p)
  BY <1>1, <1>2 DEF PointOf, Begins, Executes
<1>4. /\ MachineTypes' /\ in_array'.sums = NoSums
      /\ \A q \in 0 .. 1, x, y \in TileIndexes : psum'[q][<<x, y>>] = Total(q, <<x, y>>)
  BY <1>1, FlushTotals DEF GemmInv
<1>5. PICK m, n : m = mt_of(i) /\ n = nt_of(i)
  OBVIOUS
<1>6. Accumulated(p, m, n, KT) /\ Cleared(1 - p)
  BY <1>3, <1>5 DEF AtFlush, Chained
<1>7. Flushed(p, m, n)'
  <2>1. 1 - p \in 0 .. 1
    OBVIOUS
  <2>2. ASSUME NEW x \in TileIndexes, NEW y \in TileIndexes
        PROVE  /\ psum'[p][<<x, y>>] = Partial(m * DIM + x, n * DIM + y, KT * DIM)
               /\ psum'[1 - p][<<x, y>>] = EmptyBag
    BY <1>4, <1>6, <2>1 DEF Accumulated, Cleared
  <2>3. QED
    BY <1>1, <1>4, <2>2, SameSizes, SameElements DEF Flushed
<1>8. PICK W : W = Awaited(i) /\ W = Awaited(i)'
  BY <1>1, SamePlaces
<1>9. ResidentsLoaded(W)'
  <2>1. ResidentsLoaded(W)
    BY <1>3, <1>8 DEF AtFlush
  <2>2. QED
    BY <1>1, <2>1, SameResidents
<1>10. m = mt_of(i)' /\ n = nt_of(i)' /\ IsLast(i)'
  BY <1>1, <1>3, <1>5, SamePlaces DEF AtFlush
<1>11. AtDrain(i, sC, p)'
  BY <1>1, <1>3, <1>7, <1>8, <1>9, <1>10, SamePoints DEF AtDrain
<1>12. todo' # << >>
  BY <1>3, PointsBegin DEF Begins
<1>13. QED
  BY <1>1, <1>2, <1>4, <1>11, <1>12, PassGoesOn
LEMMA DrainStep == GemmInv /\ LoopInv /\ ExecDrain => GemmInv'
<1> SUFFICES ASSUME GemmInv, LoopInv, ExecDrain PROVE GemmInv'
  OBVIOUS
<1>1. /\ Executes("drain")
      /\ UNCHANGED <<size, layout, alloc, step, iteration, psum_index, dram, in_array>>
  BY DEF ExecDrain, Executes
<1>2. PICK i \in 0 .. Iterations - 1, sA \in StrideSlots, sB \in StrideSlots, sC \in StrideSlots,
           p \in 0 .. 1 :
        ThisPass(i, sA, sB, sC, p) /\ PointOf("drain", i, sA, sB, sC, p)
  BY <1>1, WhichPoint, Zenon
<1>3. AtDrain(i, sC, p) /\ Head(todo) = Drain(sC, p) /\ todo' = ToMvout(i, sC)
  BY <1>1, <1>2 DEF PointOf, Begins, Executes
<1>4. /\ size \in Sizes /\ MachineTypes /\ DOMAIN spad = FlatAddrs /\ Held(alloc.resident)
      /\ PassSlots(alloc.resident, i, sA, sB, sC) /\ IsLast(i)
  BY <1>2, <1>3 DEF GemmInv, MachineTypes, LoopInv, AllocOK, ThisPass, AtDrain
<1> DEFINE tile == [x \in TileIndexes |-> [y \in TileIndexes |-> Sum(psum[p][<<x, y>>])]]
<1>5. WriteRows(sC, tile) /\ psum' = [psum EXCEPT ![p] = NoSums]
  <2>1. Drain(sC, p).C_addr = sC /\ Drain(sC, p).psum = p
    BY DEF Drain
  <2>2. QED
    BY <1>3, <2>1 DEF ExecDrain
<1>6. PICK m, n : m = mt_of(i) /\ n = nt_of(i)
  OBVIOUS
<1>7. m \in 0 .. MT - 1 /\ n \in 0 .. NT - 1
  BY <1>4, <1>6, PassIndex
<1>8. /\ in_array.sums = NoSums
      /\ \A x, y \in TileIndexes :
           /\ psum[p][<<x, y>>] = Partial(m * DIM + x, n * DIM + y, KT * DIM)
           /\ psum[1 - p][<<x, y>>] = EmptyBag
  BY <1>3, <1>6 DEF AtDrain, Flushed
<1>9. MachineTypes' /\ Cleared(p)' /\ Cleared(1 - p)'
  <2>1. DOMAIN spad' = DOMAIN spad
    BY <1>5 DEF WriteRows
  <2>2. QED
    BY <1>1, <1>4, <1>5, <1>8, <2>1, DrainTotals
<1>10. PICK id : id = COf(i) /\ id = COf(i)' /\ id = <<"c", m, n>>
  BY <1>1, <1>6, SamePlaces DEF COf, CTile
<1>11. Loaded(id, sC)'
  <2>1. ASSUME NEW x \in TileIndexes, NEW y \in TileIndexes
        PROVE  spad'[RowOf(sC, x)][y] = TileElement(id, x, y)
    <3>1. tile[x][y] = Sum(psum[p][<<x, y>>])
      OBVIOUS
    <3> HIDE DEF tile
    <3>2. spad'[RowOf(sC, x)] = tile[x]
      BY <1>4, <1>5, TileWritten
    <3>3. m * DIM + x \in 0 .. PM - 1 /\ n * DIM + y \in 0 .. PN - 1
      BY <1>4, <1>7, RowInMatrix, TileCounts
    <3>4. psum[p][<<x, y>>] = Exact(m * DIM + x, n * DIM + y)
      <4> DEFINE mx == m * DIM + x
                 ny == n * DIM + y
      <4>1. mx \in 0 .. PM - 1 /\ ny \in 0 .. PN - 1 /\ psum[p][<<x, y>>] = Partial(mx, ny, KT * DIM)
        BY <1>8, <3>3
      <4> HIDE DEF mx, ny
      <4>2. psum[p][<<x, y>>] = Exact(mx, ny)
        BY <1>4, <4>1, PartialEnds
      <4>3. QED
        BY <4>2 DEF mx, ny
    <3>5. id[1] = "c" /\ id[2] = m /\ id[3] = n /\ "c" # "a" /\ "c" # "b"
      BY <1>10
    <3>6. TileElement(id, x, y) = Sum(Exact(m * DIM + x, n * DIM + y))
      BY <3>5 DEF TileElement
    <3>7. QED
      BY <3>1, <3>2, <3>4, <3>6
  <2>2. QED
    BY <1>1, <2>1, SameElements DEF Loaded
<1> HIDE DEF tile
<1>12. ResidentsLoaded({})'
  <2>1. ResidentsLoaded({id})
    BY <1>3, <1>4, <1>10 DEF AtDrain, Awaited
  <2>2. \A t \in DOMAIN alloc.resident :
          /\ t = id => alloc.resident[t] = sC
          /\ t # id => alloc.resident[t] # sC
    BY <1>4, <1>10 DEF PassSlots
  <2>3. \A t \in DOMAIN alloc.resident \ {} :
          \/ t \notin {id} /\ alloc.resident[t] # sC
          \/ Loaded(t, sC)' /\ alloc.resident[t] = sC
    BY <1>11, <2>2
  <2>4. QED
    BY <1>1, <1>4, <1>5, <2>1, <2>3, ResidentsAfterWrite
<1>13. AtMvout(i, sC, p)'
  BY <1>1, <1>3, <1>4, <1>9, <1>10, <1>11, <1>12, SamePlaces, SamePoints DEF AtMvout
<1>14. todo' # << >>
  BY <1>3, PointsBegin DEF Begins
<1>15. QED
  BY <1>1, <1>2, <1>9, <1>13, <1>14, PassGoesOn

-----------------------------------------------------------------------------
(* The mvout puts the tile of C in its place and disturbs nothing else. *)

LEMMA NothingYet == \A m, n : Partial(m, n, 0 * DIM) = EmptyBag
<1> SUFFICES ASSUME NEW m, NEW n PROVE Partial(m, n, 0 * DIM) = EmptyBag
  OBVIOUS
<1>1. 0 * DIM = 0
  BY DimAssumption
<1>2. {k \in 0 .. size.K - 1 : k < 0 * DIM /\ m < size.M /\ n < size.N} = {}
  BY <1>1
<1>3. {<<"AT", k, m, "B", k, n>> :
         k \in {k \in 0 .. size.K - 1 : k < 0 * DIM /\ m < size.M /\ n < size.N}} = {}
  BY <1>2
<1>4. QED
  BY <1>3, Zenon DEF Partial, EmptyBag

LEMMA MvoutStep == GemmInv /\ LoopInv /\ ExecMvout => GemmInv'
<1> SUFFICES ASSUME GemmInv, LoopInv, ExecMvout PROVE GemmInv'
  OBVIOUS
<1>1. /\ Executes("mvout")
      /\ UNCHANGED <<size, layout, alloc, step, iteration, psum_index, spad, psum, in_array>>
  BY DEF ExecMvout, Executes
<1>2. PICK i \in 0 .. Iterations - 1, sA \in StrideSlots, sB \in StrideSlots, sC \in StrideSlots,
           p \in 0 .. 1 :
        ThisPass(i, sA, sB, sC, p) /\ PointOf("mvout", i, sA, sB, sC, p)
  BY <1>1, WhichPoint, Zenon
<1>3. PICK m, n : m = mt_of(i) /\ n = nt_of(i)
  OBVIOUS
<1>4. /\ AtMvout(i, sC, p) /\ Head(todo) = Mvout(sC, c_dram(m, n), c_dram_stride)
      /\ todo' = << >> /\ todo # << >>
  BY <1>1, <1>2, <1>3 DEF PointOf, Begins, Executes
<1>5. /\ size \in Sizes /\ MachineTypes /\ DramHolds /\ IsLast(i) /\ step = "schedule"
      /\ iteration = i + 1
  BY <1>2, <1>4 DEF GemmInv, ThisPass, AtMvout
<1>6. m \in 0 .. MT - 1 /\ n \in 0 .. NT - 1
  BY <1>3, <1>5, PassIndex
<1>7. dram' = MvoutDram(c_dram(m, n), c_dram_stride, sC)
  <2>1. dram' = MvoutDram(Head(todo).dram, Head(todo).stride, Head(todo).spad)
    BY DEF ExecMvout, MvoutDram
  <2>2. PICK instr : instr = Mvout(sC, c_dram(m, n), c_dram_stride)
    OBVIOUS
  <2>3. instr.dram = c_dram(m, n) /\ instr.stride = c_dram_stride /\ instr.spad = sC
    BY <2>2 DEF Mvout
  <2>4. QED
    BY <1>4, <2>1, <2>2, <2>3
<1>8. /\ DOMAIN dram' = DOMAIN dram
      /\ \A addr \in 0 .. c_base - 1 : dram'[addr] = dram[addr]
      /\ \A x, y \in TileIndexes : dram'[PlaceOfC(m, n, x, y)] = spad[RowOf(sC, x)][y]
      /\ \A mt2 \in 0 .. MT - 1, nt2 \in 0 .. NT - 1, x, y \in TileIndexes :
           <<mt2, nt2>> # <<m, n>> =>
             dram'[PlaceOfC(mt2, nt2, x, y)] = dram[PlaceOfC(mt2, nt2, x, y)]
  <2>1. DOMAIN dram = 0 .. c_base + PM * PN - 1
    BY <1>5 DEF DramHolds
  <2>2. QED
    BY <1>5, <1>6, <1>7, <2>1, TileStored
<1>9. Stored(m, n)'
  <2>1. COf(i) = <<"c", m, n>> /\ Loaded(COf(i), sC)
    BY <1>3, <1>4 DEF COf, CTile, AtMvout
  <2>2. PICK id : id = <<"c", m, n>>
    OBVIOUS
  <2>3. id[1] = "c" /\ id[2] = m /\ id[3] = n /\ "c" # "a" /\ "c" # "b" /\ Loaded(id, sC)
    BY <2>1, <2>2
  <2>4. ASSUME NEW x \in TileIndexes, NEW y \in TileIndexes
        PROVE  dram'[PlaceOfC(m, n, x, y)] = Sum(Exact(m * DIM + x, n * DIM + y))
    <3>1. TileElement(id, x, y) = Sum(Exact(m * DIM + x, n * DIM + y))
      BY <2>3 DEF TileElement
    <3>2. spad[RowOf(sC, x)][y] = TileElement(id, x, y)
      BY <2>3 DEF Loaded
    <3>3. QED
      BY <1>8, <3>1, <3>2
  <2>5. QED
    BY <1>1, <2>4, SamePlaces, SameElements DEF Stored
<1>10. PICK x : x = i + 1
  OBVIOUS
<1>11. PassesDone' = x /\ PassesDone = i
  BY <1>1, <1>4, <1>5, <1>10 DEF PassesDone
<1>12. StoredBelow(x)'
  <2>1. ASSUME NEW mt \in 0 .. MT - 1, NEW nt \in 0 .. NT - 1, (mt * NT + nt) * KT + KT <= x
        PROVE  Stored(mt, nt)'
    <3>1. CASE <<mt, nt>> = <<m, n>>
      <4>1. mt = m /\ nt = n
        BY <3>1
      <4>2. QED
        BY <1>9, <4>1
    <3>2. CASE <<mt, nt>> # <<m, n>>
      <4>1. (mt * NT + nt) * KT + KT <= i
        BY <1>3, <1>5, <1>10, <2>1, <3>2, PassDone
      <4>2. Stored(mt, nt)
        BY <1>5, <1>11, <4>1 DEF DramHolds, StoredBelow
      <4>3. QED
        BY <1>1, <1>8, <3>2, <4>2, SameStored
    <3>3. QED
      BY <3>1, <3>2
  <2>2. QED
    BY <1>1, <2>1, SameSizes DEF StoredBelow
<1>13. HoldsA(dram)' /\ HoldsB(dram)'
  <2>1. PICK memory, written : memory = dram /\ written = dram'
    OBVIOUS
  <2>2. HoldsA(memory) /\ HoldsB(memory)
    BY <1>5, <2>1 DEF DramHolds
  <2>3. /\ \A offset \in 0 .. PK * PM - 1 : a_base + offset \in 0 .. c_base - 1
        /\ \A offset \in 0 .. PK * PN - 1 : b_base + offset \in 0 .. c_base - 1
    <3> DEFINE pa == PK * PM
               pb == PK * PN
    <3>1. a_base = 0 /\ b_base = pa /\ c_base = pa + pb /\ pa \in Nat /\ pb \in Nat
      BY <1>5, Bases
    <3> HIDE DEF pa, pb
    <3>2. /\ \A offset \in 0 .. pa - 1 : a_base + offset \in 0 .. c_base - 1
          /\ \A offset \in 0 .. pb - 1 : b_base + offset \in 0 .. c_base - 1
      BY <3>1
    <3>3. QED
      BY <3>2 DEF pa, pb
  <2>4. \A addr \in 0 .. c_base - 1 : written[addr] = memory[addr]
    BY <1>8, <2>1
  <2>5. HoldsA(written) /\ HoldsB(written)
    BY <2>2, <2>3, <2>4 DEF HoldsA, HoldsB
  <2>6. HoldsA(written)' /\ HoldsB(written)'
    BY <1>1, <2>5, SameMatrices
  <2>7. QED
    BY <2>1, <2>6
<1>14. DramHolds'
  <2>1. DOMAIN dram' = 0 .. c_base' + PM' * PN' - 1
    BY <1>1, <1>5, <1>8, SameSizes DEF DramHolds
  <2>2. StoredBelow(PassesDone)'
    BY <1>11, <1>12 DEF StoredBelow
  <2>3. QED
    BY <1>13, <2>1, <2>2 DEF DramHolds
<1>15. PICK q : q = PsumOf(i, p) /\ q = 1 - p /\ p = 1 - q
  BY <1>5 DEF PsumOf
<1>16. Operands(x, q)'
  <2>1. Cleared(p) /\ Cleared(1 - p)
    BY <1>4 DEF AtMvout
  <2>2. Cleared(q)' /\ Cleared(p)'
    BY <1>1, <1>15, <2>1, SameSums
  <2>3. PICK u, v : u = mt_of(x)' /\ v = nt_of(x)'
    OBVIOUS
  <2>4. kt_of(x)' = 0
    BY <1>1, <1>5, <1>10, NextPass, SamePlaces
  <2>5. \A y, z : Partial(u * DIM + y, v * DIM + z, 0 * DIM)' = EmptyBag
    BY <1>1, NothingYet, SameElements
  <2>6. QED
    BY <1>15, <2>2, <2>3, <2>4, <2>5 DEF Operands, Accumulated, Cleared
<1>17. ResidentsLoaded({})'
  <2>1. ResidentsLoaded({})
    BY <1>4 DEF AtMvout
  <2>2. QED
    BY <1>1, <2>1, SameResidents
<1>18. MachineTypes'
  BY <1>1, <1>5 DEF MachineTypes
<1>19. QED
  BY <1>1, <1>2, <1>4, <1>10, <1>14, <1>15, <1>16, <1>17, <1>18, PassEnds
-----------------------------------------------------------------------------
(* A pass begins with the operands that are resident and loads the others. *)

LEMMA AtRest ==
  ASSUME GemmInv, todo = << >>
  PROVE  BetweenPasses
<1> SUFFICES ASSUME iteration >= 1, InPass(iteration - 1) PROVE FALSE
  BY DEF GemmInv
<1>1. PICK i : i = iteration - 1
  OBVIOUS
<1>2. InPass(i)
  BY <1>1
<1>3. PICK sA \in StrideSlots, sB \in StrideSlots, sC \in StrideSlots, p \in 0 .. 1 :
        \/ AtBoth(i, sA, sB, sC, p) \/ AtMvinA(i, sA, sB, sC, p) \/ AtMvinB(i, sA, sB, sC, p)
        \/ AtGemm(i, sA, sB, sC, p) \/ AtFlush(i, sC, p) \/ AtDrain(i, sC, p) \/ AtMvout(i, sC, p)
  BY <1>2, Zenon DEF InPass
<1>4. /\ ToBoth(i, sA, sB, sC, p) # << >> /\ ToMvinA(i, sA, sB, sC, p) # << >>
      /\ ToMvinB(i, sA, sB, sC, p) # << >> /\ ToGemm(i, sA, sB, sC, p) # << >>
      /\ ToFlush(i, sC, p) # << >> /\ ToDrain(i, sC, p) # << >> /\ ToMvout(i, sC) # << >>
  BY PointsBegin DEF Begins
<1>5. QED
  BY <1>3, <1>4, Zenon DEF AtBoth, AtMvinA, AtMvinB, AtGemm, AtFlush, AtDrain, AtMvout

LEMMA NextIterationStep == GemmInv /\ LoopInv /\ NextIteration => GemmInv'
<1> SUFFICES ASSUME GemmInv, LoopInv, NextIteration PROVE GemmInv'
  OBVIOUS
<1>1. /\ step = "schedule" /\ todo = << >> /\ iteration < Iterations /\ iteration' = iteration + 1
      /\ UNCHANGED <<size, layout, step, dram, spad, psum, in_array, C_hardware>>
  BY DEF NextIteration, machineVars
<1>2. /\ size \in Sizes /\ AllocOK(alloc) /\ AtHome(alloc.resident) /\ DramHolds
      /\ MachineTypes /\ psum_index \in 0 .. 1 /\ iteration \in 0 .. Iterations
  BY DEF GemmInv, LoopInv, MachineTypes
<1>3. BetweenPasses
  BY <1>1, AtRest
<1>4. Iterations \in Nat
  BY <1>2, IterationCount
<1>5. PICK i \in 0 .. Iterations - 1, p \in 0 .. 1 : i = iteration /\ p = psum_index
  <2>1. iteration \in 0 .. Iterations - 1
    BY <1>1, <1>2, <1>4
  <2>2. QED
    BY <1>2, <2>1
<1>6. PICK al, sA, sB, sC, new :
        /\ al = alloc
        /\ sA = SlotOfA(al, i) /\ sB = SlotOfB(al, i) /\ sC = SlotOfC(al, i)
        /\ new = AllocAfter(al, i).resident
  OBVIOUS
<1>7. Prepared(al, i)
  BY <1>2, <1>6, PassPrepared
<1>8. PICK a, b, W : a = AOf(i) /\ b = BOf(i) /\ W = Awaited(i)
  OBVIOUS
<1>9. /\ AtHome(new) /\ PassSlots(new, i, sA, sB, sC)
      /\ \A id \in DOMAIN new :
           id \notin {a, b} \cup W => id \in DOMAIN al.resident /\ new[id] = al.resident[id]
      /\ HitA(al, i) => a \in DOMAIN al.resident /\ al.resident[a] = sA
      /\ HitB(al, i) => b \in DOMAIN al.resident /\ al.resident[b] = sB
  BY <1>6, <1>7, <1>8 DEF Prepared
<1>10. /\ alloc' = AllocAfter(al, i) /\ alloc'.resident = new
       /\ psum_index' = PsumOf(i, p)
       /\ todo' = IF HitA(al, i)
                  THEN IF HitB(al, i) THEN ToGemm(i, sA, sB, sC, p) ELSE ToMvinB(i, sA, sB, sC, p)
                  ELSE IF HitB(al, i) THEN ToMvinA(i, sA, sB, sC, p) ELSE ToBoth(i, sA, sB, sC, p)
  <2>1. PICK st : st = [alloc |-> al, psum_index |-> p]
    OBVIOUS
  <2>2. todo' = Body(st, i).instrs /\ alloc' = Body(st, i).alloc /\ psum_index' = Body(st, i).psum_index
    BY <1>5, <1>6, <2>1 DEF NextIteration, Now
  <2>3. /\ Body(st, i).alloc = AllocAfter(al, i)
        /\ Body(st, i).psum_index = IF IsLast(i) THEN 1 - p ELSE p
        /\ Body(st, i).instrs =
             IF HitA(al, i)
             THEN IF HitB(al, i) THEN ToGemm(i, sA, sB, sC, p) ELSE ToMvinB(i, sA, sB, sC, p)
             ELSE IF HitB(al, i) THEN ToMvinA(i, sA, sB, sC, p) ELSE ToBoth(i, sA, sB, sC, p)
    BY <1>6, <2>1, BodyIs
  <2>4. QED
    BY <1>6, <2>2, <2>3 DEF PsumOf
<1>11. \A id, slot : Loaded(id, slot) => Loaded(id, slot)'
  BY <1>1, SameTile
<1>12. \A id \in DOMAIN al.resident : Loaded(id, al.resident[id])
  BY <1>3, <1>6 DEF BetweenPasses, ResidentsLoaded
<1>13. /\ HitA(al, i) => Loaded(a, sA)'
       /\ HitB(al, i) => Loaded(b, sB)'
       /\ \A id \in DOMAIN new : id \notin {a, b} \cup W => Loaded(id, new[id])'
  BY <1>9, <1>11, <1>12
<1>14. sA \in StrideSlots /\ sB \in StrideSlots /\ sC \in StrideSlots
       /\ \A id \in DOMAIN new : (id = a => new[id] = sA) /\ (id = b => new[id] = sB)
  BY <1>8, <1>9 DEF PassSlots
<1>15. Operands(i, p)'
  BY <1>1, <1>3, <1>5, SameSums DEF BetweenPasses
<1>16. a = AOf(i)' /\ b = BOf(i)' /\ W = Awaited(i)'
  BY <1>1, <1>8, SamePlaces
<1>17. \/ AtBoth(i, sA, sB, sC, p)' \/ AtMvinA(i, sA, sB, sC, p)'
       \/ AtMvinB(i, sA, sB, sC, p)' \/ AtGemm(i, sA, sB, sC, p)'
  <2>1. CASE HitA(al, i) /\ HitB(al, i)
    <3>1. ResidentsLoaded(W)'
      BY <1>10, <1>13, <1>14, <2>1 DEF ResidentsLoaded
    <3>2. AtGemm(i, sA, sB, sC, p)'
      BY <1>1, <1>10, <1>13, <1>15, <1>16, <2>1, <3>1, SamePoints DEF AtGemm
    <3>3. QED
      BY <3>2
  <2>2. CASE HitA(al, i) /\ ~ HitB(al, i)
    <3>1. ResidentsLoaded({b} \cup W)'
      BY <1>10, <1>13, <1>14, <2>2 DEF ResidentsLoaded
    <3>2. AtMvinB(i, sA, sB, sC, p)'
      BY <1>1, <1>10, <1>13, <1>15, <1>16, <2>2, <3>1, SamePoints DEF AtMvinB
    <3>3. QED
      BY <3>2
  <2>3. CASE ~ HitA(al, i) /\ HitB(al, i)
    <3>1. ResidentsLoaded({a} \cup W)'
      BY <1>10, <1>13, <1>14, <2>3 DEF ResidentsLoaded
    <3>2. AtMvinA(i, sA, sB, sC, p)'
      BY <1>1, <1>10, <1>13, <1>15, <1>16, <2>3, <3>1, SamePoints DEF AtMvinA
    <3>3. QED
      BY <3>2
  <2>4. CASE ~ HitA(al, i) /\ ~ HitB(al, i)
    <3>1. ResidentsLoaded({a, b} \cup W)'
      BY <1>10, <1>13, <1>14, <2>4 DEF ResidentsLoaded
    <3>2. AtBoth(i, sA, sB, sC, p)'
      BY <1>1, <1>10, <1>15, <1>16, <2>4, <3>1, SamePoints DEF AtBoth
    <3>3. QED
      BY <3>2
  <2>5. QED
    BY <2>1, <2>2, <2>3, <2>4
<1>18. InPass(i)'
  <2>1. PassSlots(new, i, sA, sB, sC)'
    BY <1>1, <1>9, SameSlots
  <2>2. PassSlots(alloc.resident, i, sA, sB, sC)'
    BY <1>10, <2>1
  <2>3. psum_index' = IF IsLast(i)' THEN 1 - p ELSE p
    BY <1>1, <1>10, SamePlaces DEF PsumOf
  <2>4. QED
    BY <1>14, <1>17, <2>2, <2>3, Zenon DEF InPass
<1>19. iteration' >= 1 /\ InPass(iteration - 1)' /\ iteration' \in 0 .. Iterations'
  <2>1. iteration' - 1 = i /\ iteration' >= 1 /\ iteration' \in 0 .. Iterations
    BY <1>1, <1>4, <1>5
  <2>2. InPass(iteration - 1)'
    BY <1>18, <2>1
  <2>3. QED
    BY <1>1, <2>1, <2>2, SameSizes
<1>20. todo' # << >>
  BY <1>10, PointsBegin DEF Begins
<1>21. DramHolds'
  <2>1. PassesDone' = i /\ PassesDone = i
    <3>1. (i + 1) - 1 = i
      OBVIOUS
    <3>2. QED
      BY <1>1, <1>5, <1>20, <3>1 DEF PassesDone
  <2>2. StoredBelow(i)
    BY <1>2, <2>1 DEF DramHolds
  <2>3. QED
    BY <1>1, <1>2, <2>1, <2>2, SameDram
<1>22. AtHome(alloc.resident)'
  <2>1. AtHome(new)'
    BY <1>1, <1>9, SamePlaces DEF AtHome
  <2>2. QED
    BY <1>10, <2>1 DEF AtHome
<1>23. MachineTypes'
  BY <1>1, <1>2, <1>10 DEF MachineTypes, PsumOf
<1>24. QED
  BY <1>1, <1>2, <1>19, <1>21, <1>22, <1>23 DEF GemmInv
-----------------------------------------------------------------------------
(* run_thread's steps around the schedule *)

(* No tile of C is complete before the first pass. *)
LEMMA NothingStored ==
  ASSUME size \in Sizes
  PROVE  \A m \in 0 .. MT - 1, n \in 0 .. NT - 1 : ~ ((m * NT + n) * KT + KT <= 0)
<1> SUFFICES ASSUME NEW m \in 0 .. MT - 1, NEW n \in 0 .. NT - 1 PROVE ~ ((m * NT + n) * KT + KT <= 0)
  OBVIOUS
<1>1. KT \in Nat \ {0} /\ NT \in Nat /\ m \in Nat /\ n \in Nat
  BY TileCounts
<1>2. m * NT + n \in Nat
  BY <1>1, Z3
<1>3. (m * NT + n) * KT \in Nat
  BY <1>1, <1>2, Z3
<1>4. QED
  BY <1>1, <1>3

(* A step of run_thread that leaves the loop and the machine as they were *)
LEMMA RunThreadStep ==
  ASSUME GemmInv, todo = << >>, UNCHANGED <<size, layout, loopVars, machineVars>>,
         step' \in {"AT", "B", "schedule", "done"}, DramHolds',
         step' \in {"AT", "B"} => step \in {"AT", "B"},
         step' = "done" =>
           /\ iteration = Iterations
           /\ C_hardware' = [offset \in 0 .. PM * PN - 1 |-> dram'[c_base + offset]]
  PROVE  GemmInv'
<1>1. UNCHANGED <<size, layout, iteration, todo, alloc, psum_index, spad, psum, in_array>>
  BY DEF loopVars, machineVars
<1>2. MachineTypes'
  BY <1>1 DEF GemmInv, MachineTypes
<1>3. AtHome(alloc.resident)'
  BY <1>1, SameHomes DEF GemmInv
<1>4. BetweenPasses'
  <2>1. BetweenPasses
    BY AtRest
  <2>2. PICK x, q : x = iteration /\ q = psum_index /\ x = iteration' /\ q = psum_index'
    BY <1>1
  <2>3. Operands(x, q)'
    BY <1>1, <2>1, <2>2, SameSums DEF BetweenPasses
  <2>4. ResidentsLoaded({})'
    BY <1>1, <2>1, SameResidents DEF BetweenPasses
  <2>5. QED
    BY <1>1, <2>2, <2>3, <2>4 DEF BetweenPasses
<1>5. step' \in {"AT", "B"} => iteration' = 0 /\ todo' = << >>
  BY <1>1 DEF GemmInv
<1>6. step' = "done" =>
        /\ iteration' = Iterations' /\ todo' = << >>
        /\ C_hardware' = [offset \in 0 .. PM' * PN' - 1 |-> dram'[c_base' + offset]]
  BY <1>1, SameSizes
<1>7. QED
  BY <1>1, <1>2, <1>3, <1>4, <1>5, <1>6, SameSizes DEF GemmInv

LEMMA InitializeATStep == GemmInv /\ InitializeAT => GemmInv'
<1> SUFFICES ASSUME GemmInv, InitializeAT PROVE GemmInv'
  OBVIOUS
<1>1. /\ step = "AT" /\ step' = "B" /\ UNCHANGED <<size, layout, loopVars, machineVars>>
      /\ size \in Sizes /\ DramHolds /\ iteration = 0 /\ todo = << >>
      /\ iteration' = 0 /\ todo' = << >>
  BY DEF InitializeAT, GemmInv, loopVars
<1> DEFINE stream == Stream(AT, PK, PM)
           pa == PK * PM
           pb == PK * PN
           pc == PM * PN
<1>2. /\ DOMAIN stream = 0 .. pa - 1
      /\ \A offset \in 0 .. pa - 1 : stream[offset] = ElementAt(AT, PM, offset)
  BY DEF Stream
<1>3. dram' = [addr \in DOMAIN dram |->
                 IF addr - a_base \in DOMAIN stream THEN stream[addr - a_base] ELSE dram[addr]]
  BY DEF InitializeAT, dram_write_bypass
<1>4. /\ a_base = 0 /\ c_base = pa + pb /\ pa \in Nat /\ pb \in Nat /\ pc \in Nat
      /\ DOMAIN dram = 0 .. c_base + pc - 1
  BY <1>1, Bases DEF DramHolds
<1> HIDE DEF stream
<1>5. \A offset \in 0 .. pa - 1 : dram'[a_base + offset] = ElementAt(AT, PM, offset)
  <2> HIDE DEF pa, pb, pc
  <2> SUFFICES ASSUME NEW offset \in 0 .. pa - 1
               PROVE  dram'[a_base + offset] = ElementAt(AT, PM, offset)
    OBVIOUS
  <2>1. offset \in DOMAIN dram /\ a_base + offset = offset /\ offset - a_base = offset
    BY <1>4
  <2>2. QED
    BY <1>2, <1>3, <2>1
<1>6. HoldsA(dram)'
  <2>1. PICK written : written = dram'
    OBVIOUS
  <2>2. HoldsA(written)
    BY <1>5, <2>1 DEF HoldsA
  <2>3. HoldsA(written)'
    BY <1>1, <2>2, SameMatrices
  <2>4. QED
    BY <2>1, <2>3
<1>7. DramHolds'
  <2>1. DOMAIN dram' = 0 .. c_base' + PM' * PN' - 1
    <3>1. DOMAIN dram' = DOMAIN dram
      BY <1>3
    <3>2. QED
      BY <1>1, <1>4, <3>1, SameSizes
  <2>2. StoredBelow(PassesDone)'
    <3>1. PassesDone' = 0
      BY <1>1 DEF PassesDone
    <3>2. StoredBelow(0)'
      BY <1>1, NothingStored, SameSizes DEF StoredBelow
    <3>3. QED
      BY <3>1, <3>2 DEF StoredBelow
  <2>3. QED
    BY <1>1, <1>6, <2>1, <2>2 DEF DramHolds
<1>8. QED
  BY <1>1, <1>7, RunThreadStep

LEMMA InitializeBStep == GemmInv /\ InitializeB => GemmInv'
<1> SUFFICES ASSUME GemmInv, InitializeB PROVE GemmInv'
  OBVIOUS
<1>1. /\ step = "B" /\ step' = "schedule" /\ UNCHANGED <<size, layout, loopVars, machineVars>>
      /\ size \in Sizes /\ DramHolds /\ iteration = 0 /\ todo = << >>
      /\ iteration' = 0 /\ todo' = << >>
  BY DEF InitializeB, GemmInv, loopVars
<1> DEFINE stream == Stream(B, PK, PN)
           pa == PK * PM
           pb == PK * PN
           pc == PM * PN
<1>2. /\ DOMAIN stream = 0 .. pb - 1
      /\ \A offset \in 0 .. pb - 1 : stream[offset] = ElementAt(B, PN, offset)
  BY DEF Stream
<1>3. dram' = [addr \in DOMAIN dram |->
                 IF addr - b_base \in DOMAIN stream THEN stream[addr - b_base] ELSE dram[addr]]
  BY DEF InitializeB, dram_write_bypass
<1>4. /\ a_base = 0 /\ b_base = pa /\ c_base = pa + pb /\ pa \in Nat /\ pb \in Nat /\ pc \in Nat
      /\ DOMAIN dram = 0 .. c_base + pc - 1
  BY <1>1, Bases DEF DramHolds
<1> HIDE DEF stream
<1>5. \A offset \in 0 .. pb - 1 : dram'[b_base + offset] = ElementAt(B, PN, offset)
  <2> HIDE DEF pa, pb, pc
  <2> SUFFICES ASSUME NEW offset \in 0 .. pb - 1
               PROVE  dram'[b_base + offset] = ElementAt(B, PN, offset)
    OBVIOUS
  <2>1. b_base + offset \in DOMAIN dram /\ (b_base + offset) - b_base = offset
    BY <1>4
  <2>2. QED
    BY <1>2, <1>3, <2>1
(* The matrix before it is not overwritten. *)
<1>6. \A offset \in 0 .. pa - 1 : dram'[a_base + offset] = dram[a_base + offset]
  <2> HIDE DEF pa, pb, pc
  <2> SUFFICES ASSUME NEW offset \in 0 .. pa - 1
               PROVE  dram'[a_base + offset] = dram[a_base + offset]
    OBVIOUS
  <2>1. /\ a_base + offset \in DOMAIN dram
        /\ (a_base + offset) - b_base \notin 0 .. pb - 1
    BY <1>4
  <2>2. QED
    BY <1>2, <1>3, <2>1
<1>7. HoldsA(dram)' /\ HoldsB(dram)'
  <2>1. PICK memory, written : memory = dram /\ written = dram'
    OBVIOUS
  <2>2. HoldsB(written)
    BY <1>5, <2>1 DEF HoldsB
  <2>3. HoldsA(memory)
    BY <1>1, <2>1 DEF DramHolds
  <2>4. HoldsA(written)
    BY <1>6, <2>1, <2>3 DEF HoldsA
  <2>5. HoldsA(written)' /\ HoldsB(written)'
    BY <1>1, <2>2, <2>4, SameMatrices
  <2>6. QED
    BY <2>1, <2>5
<1>8. DramHolds'
  <2>1. DOMAIN dram' = 0 .. c_base' + PM' * PN' - 1
    <3>1. DOMAIN dram' = DOMAIN dram
      BY <1>3
    <3>2. QED
      BY <1>1, <1>4, <3>1, SameSizes
  <2>2. StoredBelow(PassesDone)'
    <3>1. PassesDone' = 0
      BY <1>1 DEF PassesDone
    <3>2. StoredBelow(0)'
      BY <1>1, NothingStored, SameSizes DEF StoredBelow
    <3>3. QED
      BY <3>1, <3>2 DEF StoredBelow
  <2>3. QED
    BY <1>7, <2>1, <2>2 DEF DramHolds
<1>9. QED
  BY <1>1, <1>8, RunThreadStep

LEMMA ReadCStep == GemmInv /\ ReadC => GemmInv'
<1> SUFFICES ASSUME GemmInv, ReadC PROVE GemmInv'
  OBVIOUS
<1>1. /\ step = "schedule" /\ step' = "done" /\ iteration = Iterations /\ todo = << >>
      /\ UNCHANGED <<size, layout, loopVars, dram, machineVars>>
      /\ DramHolds
  BY DEF ReadC, GemmInv
<1>2. C_hardware' = [offset \in 0 .. PM * PN - 1 |-> dram'[c_base + offset]]
  BY <1>1 DEF ReadC, dram_read_bypass
<1>3. DramHolds'
  <2>1. PICK memory : memory = dram /\ memory = dram'
    BY <1>1
  <2>2. HoldsA(memory)' /\ HoldsB(memory)'
    BY <1>1, <2>1, SameMatrices DEF DramHolds
  <2>3. PICK done : done = PassesDone /\ done = PassesDone'
    BY <1>1 DEF PassesDone, loopVars
  <2>4. StoredBelow(done)'
    BY <1>1, <2>3, SameStored, SameSizes DEF DramHolds, StoredBelow
  <2>5. StoredBelow(PassesDone)'
    BY <2>3, <2>4 DEF StoredBelow
  <2>6. QED
    BY <1>1, <2>1, <2>2, <2>5, SameSizes DEF DramHolds
<1>4. QED
  BY <1>1, <1>2, <1>3, RunThreadStep

LEMMA SamePass ==
  ASSUME UNCHANGED <<size, layout, todo, alloc, psum_index, spad, psum, in_array>>,
         NEW i, InPass(i)
  PROVE  InPass(i)'
<1>1. PICK sA \in StrideSlots, sB \in StrideSlots, sC \in StrideSlots, p \in 0 .. 1 :
        /\ psum_index = IF IsLast(i) THEN 1 - p ELSE p
        /\ PassSlots(alloc.resident, i, sA, sB, sC)
        /\ \/ AtBoth(i, sA, sB, sC, p) \/ AtMvinA(i, sA, sB, sC, p) \/ AtMvinB(i, sA, sB, sC, p)
           \/ AtGemm(i, sA, sB, sC, p) \/ AtFlush(i, sC, p) \/ AtDrain(i, sC, p) \/ AtMvout(i, sC, p)
  BY Zenon DEF InPass
<1>2. PICK R : R = alloc.resident /\ R = alloc'.resident
  OBVIOUS
<1>3. PassSlots(alloc.resident, i, sA, sB, sC)'
  <2>1. PassSlots(R, i, sA, sB, sC)'
    BY <1>1, <1>2, SameSlots
  <2>2. QED
    BY <1>2, <2>1
<1>4. psum_index' = IF IsLast(i)' THEN 1 - p ELSE p
  BY <1>1, SamePlaces
<1>5. PICK a, b, c, W, m, n :
        /\ a = AOf(i) /\ b = BOf(i) /\ c = COf(i) /\ W = Awaited(i) /\ m = mt_of(i) /\ n = nt_of(i)
        /\ a = AOf(i)' /\ b = BOf(i)' /\ c = COf(i)' /\ W = Awaited(i)' /\ m = mt_of(i)' /\ n = nt_of(i)'
  BY SamePlaces
<1>6. /\ \A id, slot : Loaded(id, slot) => Loaded(id, slot)'
      /\ \A x : ResidentsLoaded(x) => ResidentsLoaded(x)'
      /\ \A x : Operands(i, x) => Operands(i, x)'
      /\ \A x : Cleared(x) => Cleared(x)'
      /\ \A x : Flushed(x, m, n) => Flushed(x, m, n)'
  BY SameTile, SameResidents, SameSums
<1>7. \A x : Chained(i, x) => Chained(i, x)'
  BY <1>5, SameSizes, SameSums DEF Chained
<1>8. IsLast(i)' <=> IsLast(i)
  BY SamePlaces
<1>9. AtBoth(i, sA, sB, sC, p) => AtBoth(i, sA, sB, sC, p)'
  BY <1>5, <1>6, SamePoints DEF AtBoth
<1>10. AtMvinA(i, sA, sB, sC, p) => AtMvinA(i, sA, sB, sC, p)'
  BY <1>5, <1>6, SamePoints DEF AtMvinA
<1>11. AtMvinB(i, sA, sB, sC, p) => AtMvinB(i, sA, sB, sC, p)'
  BY <1>5, <1>6, SamePoints DEF AtMvinB
<1>12. AtGemm(i, sA, sB, sC, p) => AtGemm(i, sA, sB, sC, p)'
  BY <1>5, <1>6, SamePoints DEF AtGemm
<1>13. AtFlush(i, sC, p) => AtFlush(i, sC, p)'
  BY <1>5, <1>6, <1>7, <1>8, SamePoints DEF AtFlush
<1>14. AtDrain(i, sC, p) => AtDrain(i, sC, p)'
  BY <1>5, <1>6, <1>8, SamePoints DEF AtDrain
<1>15. AtMvout(i, sC, p) => AtMvout(i, sC, p)'
  BY <1>5, <1>6, <1>8, SamePoints DEF AtMvout
<1>16. QED
  BY <1>1, <1>3, <1>4, <1>9, <1>10, <1>11, <1>12, <1>13, <1>14, <1>15, Zenon DEF InPass

LEMMA StutterStep == GemmInv /\ UNCHANGED vars => GemmInv'
<1> SUFFICES ASSUME GemmInv, UNCHANGED vars PROVE GemmInv'
  OBVIOUS
<1>1. UNCHANGED <<size, layout, step, iteration, todo, alloc, psum_index, dram, spad, psum,
                  in_array, C_hardware>>
  BY DEF vars, loopVars, machineVars
<1>2. DramHolds'
  <2>1. PICK done : done = PassesDone /\ done = PassesDone'
    BY <1>1 DEF PassesDone
  <2>2. DramHolds /\ StoredBelow(done)
    BY <2>1 DEF GemmInv, DramHolds
  <2>3. QED
    BY <1>1, <2>1, <2>2, SameDram
<1>3. CASE todo = << >>
  <2>1. step = "done" => C_hardware' = [offset \in 0 .. PM * PN - 1 |-> dram'[c_base + offset]]
    BY <1>1 DEF GemmInv
  <2>2. /\ UNCHANGED <<size, layout, loopVars, machineVars>>
        /\ step' \in {"AT", "B", "schedule", "done"}
        /\ step' \in {"AT", "B"} => step \in {"AT", "B"}
        /\ step' = "done" =>
             /\ iteration = Iterations
             /\ C_hardware' = [offset \in 0 .. PM * PN - 1 |-> dram'[c_base + offset]]
    BY <1>1, <2>1 DEF GemmInv, loopVars, machineVars
  <2>3. QED
    BY <1>2, <1>3, <2>2, RunThreadStep
<1>4. CASE todo # << >>
  <2>1. PICK i : i = iteration - 1 /\ i = iteration' - 1
    BY <1>1
  <2>2. step = "schedule" /\ iteration >= 1 /\ InPass(i)
    BY <1>4, <2>1 DEF GemmInv, BetweenPasses
  <2>3. InPass(i)'
    BY <1>1, <2>2, SamePass
  <2>4. MachineTypes'
    BY <1>1 DEF GemmInv, MachineTypes
  <2>5. AtHome(alloc.resident)'
    BY <1>1, SameHomes DEF GemmInv
  <2>6. InPass(iteration - 1)'
    BY <2>1, <2>3
  <2>7. QED
    BY <1>1, <1>2, <2>2, <2>4, <2>5, <2>6, SameSizes DEF GemmInv
<1>5. QED
  BY <1>3, <1>4

LEMMA GemmInitially == Init => GemmInv
<1> SUFFICES ASSUME Init PROVE GemmInv
  OBVIOUS
<1>1. /\ size \in Sizes /\ step = "AT" /\ iteration = 0 /\ todo = << >>
      /\ alloc = NewAllocator(spad_stride) /\ psum_index = 0
      /\ DOMAIN dram = 0 .. c_base + PM * PN - 1
      /\ spad = [row \in FlatAddrs |-> [j \in TileIndexes |-> Padding]]
      /\ psum = [p \in 0 .. 1 |-> NoSums]
      /\ in_array = [psum |-> 0, sums |-> NoSums]
  BY DEF Init
<1>2. alloc.resident = [id \in {} |-> 0]
  BY <1>1 DEF NewAllocator
<1>3. MachineTypes
  BY <1>1 DEF MachineTypes
<1>4. DramHolds
  <2>1. PassesDone = 0
    BY <1>1 DEF PassesDone
  <2>2. StoredBelow(PassesDone)
    BY <1>1, <2>1, NothingStored DEF StoredBelow
  <2>3. QED
    BY <1>1, <2>2 DEF DramHolds
<1>5. BetweenPasses
  <2>1. \A p \in 0 .. 1, i, j \in TileIndexes : Total(p, <<i, j>>) = EmptyBag
    <3> SUFFICES ASSUME NEW p \in 0 .. 1, NEW i \in TileIndexes, NEW j \in TileIndexes
                 PROVE  Total(p, <<i, j>>) = EmptyBag
      OBVIOUS
    <3>1. psum[p][<<i, j>>] = EmptyBag /\ in_array.sums[<<i, j>>] = EmptyBag
      BY <1>1, NoSumsIs
    <3>2. QED
      BY <3>1, NothingTwice, Zenon DEF Total
  <2>2. kt_of(iteration) = 0
    <3>1. KT \in Nat \ {0}
      BY <1>1, TileCounts
    <3>2. 0 % KT = 0
      BY <3>1, Z3
    <3>3. QED
      BY <1>1, <3>2 DEF kt_of
  <2>3. Operands(iteration, psum_index)
    <3>1. PICK m, n, q : m = mt_of(iteration) /\ n = nt_of(iteration) /\ q = psum_index
      OBVIOUS
    <3>2. q \in 0 .. 1 /\ 1 - q \in 0 .. 1
      BY <1>1, <3>1
    <3>3. Accumulated(q, m, n, 0) /\ Cleared(1 - q)
      BY <2>1, <3>2, NothingYet DEF Accumulated, Cleared
    <3>4. QED
      BY <2>2, <3>1, <3>3 DEF Operands
  <2>4. ResidentsLoaded({})
    BY <1>2 DEF ResidentsLoaded
  <2>5. QED
    BY <1>1, <2>3, <2>4 DEF BetweenPasses
<1>6. AtHome(alloc.resident)
  BY <1>2 DEF AtHome
<1>7. iteration \in 0 .. Iterations
  BY <1>1, IterationCount
<1>8. QED
  BY <1>1, <1>3, <1>4, <1>5, <1>6, <1>7 DEF GemmInv

(* The loop, the allocator and the machine together, for every product,    *)
(* layout, geometry and tile size: each point of a pass is reached with    *)
(* the tiles it uses in their slots, the psum buffers hold the products of *)
(* the passes before it, and the tiles of C whose passes are done are in   *)
(* DRAM.                                                                   *)
THEOREM GemmInvariant == Spec => []GemmInv
<1>1. GemmInv /\ LoopInv /\ [Next]_vars => GemmInv'
  BY InitializeATStep, InitializeBStep, ReadCStep, NextIterationStep, MvinStep, MvoutStep,
     GemmStep, FlushStep, DrainStep, StutterStep, Zenon DEF Next
<1>2. QED
  BY <1>1, GemmInitially, AllocatorInvariant, PTL DEF Spec

-----------------------------------------------------------------------------
(* What the invariant says of hits *)

(* An instruction of the sequence brings a tile into the slot. *)
Brings(seq, slot) ==
  \E k \in 1 .. Len(seq) :
    \/ seq[k].op = "mvin" /\ seq[k].spad = slot
    \/ seq[k].op = "drain" /\ seq[k].C_addr = slot

LEMMA BringsLater ==
  ASSUME NEW S, NEW x \in S, NEW s \in Seq(S), NEW slot
  PROVE  /\ Brings(s, slot) => Brings(<<x>> \o s, slot)
         /\ x.op = "mvin" /\ x.spad = slot => Brings(<<x>> \o s, slot)
         /\ x.op = "drain" /\ x.C_addr = slot => Brings(<<x>> \o s, slot)
<1> DEFINE app == <<x>> \o s
<1>1. Longer(app, x, s)
  BY OneMore
<1>2. Len(s) \in Nat
  OBVIOUS
<1> HIDE DEF app
<1>3. 1 \in 1 .. Len(app) /\ app[1] = x
  BY <1>1, <1>2 DEF Longer
<1>4. ASSUME NEW k \in 1 .. Len(s) PROVE k + 1 \in 1 .. Len(app) /\ app[k + 1] = s[k]
  BY <1>1, <1>2 DEF Longer
<1>5. Brings(s, slot) => Brings(app, slot)
  BY <1>4 DEF Brings
<1>6. /\ x.op = "mvin" /\ x.spad = slot => Brings(app, slot)
      /\ x.op = "drain" /\ x.C_addr = slot => Brings(app, slot)
  BY <1>3 DEF Brings
<1>7. QED
  BY <1>5, <1>6 DEF app

LEMMA PassBrings ==
  ASSUME NEW i, NEW sA, NEW sB, NEW sC, NEW p
  PROVE  /\ Brings(ToDrain(i, sC, p), sC) /\ Brings(ToFlush(i, sC, p), sC)
         /\ IsLast(i) => /\ Brings(ToGemm(i, sA, sB, sC, p), sC)
                         /\ Brings(ToMvinB(i, sA, sB, sC, p), sC)
                         /\ Brings(ToMvinA(i, sA, sB, sC, p), sC)
                         /\ Brings(ToBoth(i, sA, sB, sC, p), sC)
         /\ Brings(ToMvinB(i, sA, sB, sC, p), sB) /\ Brings(ToBoth(i, sA, sB, sC, p), sB)
         /\ Brings(ToMvinA(i, sA, sB, sC, p), sA) /\ Brings(ToBoth(i, sA, sB, sC, p), sA)
<1> DEFINE S == PassInstrs(i, sA, sB, sC, p)
<1>1. /\ Drain(sC, p) \in S /\ Flush(p) \in S /\ Gemm(sA, sB, p) \in S
      /\ MvinA(i, sA) \in S /\ MvinB(i, sB) \in S
  BY DEF PassInstrs
<1>2. /\ ToMvout(i, sC) \in Seq(S) /\ ToDrain(i, sC, p) \in Seq(S) /\ ToFlush(i, sC, p) \in Seq(S)
      /\ Closing(i, sC, p) \in Seq(S) /\ ToGemm(i, sA, sB, sC, p) \in Seq(S)
      /\ ToMvinB(i, sA, sB, sC, p) \in Seq(S)
  BY Points
<1>3. /\ Drain(sC, p).op = "drain" /\ Drain(sC, p).C_addr = sC
      /\ MvinA(i, sA).op = "mvin" /\ MvinA(i, sA).spad = sA
      /\ MvinB(i, sB).op = "mvin" /\ MvinB(i, sB).spad = sB
  BY DEF Drain, MvinA, MvinB, Mvin
<1> HIDE DEF S
<1>4. Brings(ToDrain(i, sC, p), sC)
  BY <1>1, <1>2, <1>3, BringsLater DEF ToDrain
<1>5. Brings(ToFlush(i, sC, p), sC)
  BY <1>1, <1>2, <1>4, BringsLater DEF ToFlush
<1>6. IsLast(i) => Brings(ToGemm(i, sA, sB, sC, p), sC)
  <2>1. IsLast(i) => Brings(Closing(i, sC, p), sC)
    BY <1>5 DEF Closing
  <2>2. QED
    BY <1>1, <1>2, <2>1, BringsLater DEF ToGemm
<1>7. /\ Brings(ToMvinB(i, sA, sB, sC, p), sB)
      /\ IsLast(i) => Brings(ToMvinB(i, sA, sB, sC, p), sC)
  BY <1>1, <1>2, <1>3, <1>6, BringsLater DEF ToMvinB
<1>8. /\ Brings(ToMvinA(i, sA, sB, sC, p), sA)
      /\ IsLast(i) => Brings(ToMvinA(i, sA, sB, sC, p), sC)
  BY <1>1, <1>2, <1>3, <1>6, BringsLater DEF ToMvinA
<1>9. /\ Brings(ToBoth(i, sA, sB, sC, p), sA) /\ Brings(ToBoth(i, sA, sB, sC, p), sB)
      /\ IsLast(i) => Brings(ToBoth(i, sA, sB, sC, p), sC)
  BY <1>1, <1>2, <1>3, <1>7, BringsLater DEF ToBoth
<1>10. QED
  BY <1>4, <1>5, <1>6, <1>7, <1>8, <1>9

LEMMA GemmHits == GemmInv => HitMeansLoaded
<1> SUFFICES ASSUME GemmInv, NEW id \in DOMAIN alloc.resident
             PROVE  Loaded(id, alloc.resident[id]) \/ Brings(todo, alloc.resident[id])
  BY DEF HitMeansLoaded, Loaded, Brings
<1>1. CASE BetweenPasses
  BY <1>1 DEF BetweenPasses, ResidentsLoaded
<1>2. CASE iteration >= 1 /\ InPass(iteration - 1)
  <2>1. PICK i : InPass(i)
    BY <1>2
  <2>2. PICK sA \in StrideSlots, sB \in StrideSlots, sC \in StrideSlots, p \in 0 .. 1 :
          /\ PassSlots(alloc.resident, i, sA, sB, sC)
          /\ \/ AtBoth(i, sA, sB, sC, p) \/ AtMvinA(i, sA, sB, sC, p) \/ AtMvinB(i, sA, sB, sC, p)
             \/ AtGemm(i, sA, sB, sC, p) \/ AtFlush(i, sC, p) \/ AtDrain(i, sC, p) \/ AtMvout(i, sC, p)
    BY <2>1, Zenon DEF InPass
  <2>3. /\ id = AOf(i) => alloc.resident[id] = sA
        /\ id = BOf(i) => alloc.resident[id] = sB
        /\ id \in Awaited(i) => IsLast(i) /\ alloc.resident[id] = sC
    BY <2>2 DEF PassSlots, Awaited
  <2>4. CASE AtBoth(i, sA, sB, sC, p)
    BY <2>3, <2>4, PassBrings DEF AtBoth, ResidentsLoaded
  <2>5. CASE AtMvinA(i, sA, sB, sC, p)
    BY <2>3, <2>5, PassBrings DEF AtMvinA, ResidentsLoaded
  <2>6. CASE AtMvinB(i, sA, sB, sC, p)
    BY <2>3, <2>6, PassBrings DEF AtMvinB, ResidentsLoaded
  <2>7. CASE AtGemm(i, sA, sB, sC, p)
    BY <2>3, <2>7, PassBrings DEF AtGemm, ResidentsLoaded
  <2>8. CASE AtFlush(i, sC, p)
    BY <2>3, <2>8, PassBrings DEF AtFlush, ResidentsLoaded
  <2>9. CASE AtDrain(i, sC, p)
    BY <2>3, <2>9, PassBrings DEF AtDrain, ResidentsLoaded
  <2>10. CASE AtMvout(i, sC, p)
    BY <2>10 DEF AtMvout, ResidentsLoaded
  <2>11. QED
    BY <2>2, <2>4, <2>5, <2>6, <2>7, <2>8, <2>9, <2>10
<1>3. QED
  BY <1>1, <1>2 DEF GemmInv

(* A hit may skip the mvin: a tile that the allocator calls resident is in *)
(* its slot, or an instruction that puts it there is still to come,        *)
(* whatever was taken and evicted before and whatever the product's sizes. *)
THEOREM HitsAlwaysLoaded == Spec => []HitMeansLoaded
  BY GemmInvariant, GemmHits, PTL

-----------------------------------------------------------------------------
(* What the invariant says of the product *)

LEMMA GemmProduct == GemmInv => ProductInDram
<1> SUFFICES ASSUME GemmInv, step = "done" PROVE ProductInDram
  BY DEF ProductInDram
<1>1. /\ size \in Sizes /\ iteration = Iterations /\ todo = << >>
      /\ C_hardware = [offset \in 0 .. PM * PN - 1 |-> dram[c_base + offset]]
      /\ HoldsA(dram) /\ HoldsB(dram) /\ StoredBelow(PassesDone)
  BY DEF GemmInv, DramHolds
<1>2. StoredBelow(Iterations)
  <2>1. PassesDone = Iterations
    BY <1>1 DEF PassesDone
  <2>2. QED
    BY <1>1, <2>1
<1>3. /\ MT \in Nat \ {0} /\ NT \in Nat \ {0} /\ KT \in Nat \ {0}
      /\ PM = MT * DIM /\ PN = NT * DIM /\ PM \in Nat /\ PN \in Nat
  BY <1>1, TileCounts
<1>4. ASSUME NEW mt \in 0 .. MT - 1, NEW nt \in 0 .. NT - 1
      PROVE  Stored(mt, nt)
  <2>1. mt * NT + nt \in 0 .. MT * NT - 1 /\ MT * NT \in Nat
    <3>1. mt * NT + nt \in 0 .. MT * NT - 1
      BY <1>3, PlaceBound
    <3>2. MT * NT \in Nat
      BY <1>3, Z3
    <3>3. QED
      BY <3>1, <3>2
  <2> DEFINE q == mt * NT + nt
             n == MT * NT
  <2>2. q \in Nat /\ n \in Nat /\ q + 1 <= n
    BY <2>1
  <2> HIDE DEF q, n
  <2>3. (q + 1) * KT <= n * KT
    BY <1>3, <2>2, ProductOrder
  <2>4. q * KT + KT = (q + 1) * KT
    BY <1>3, <2>2, Z3
  <2>5. (mt * NT + nt) * KT + KT <= Iterations
    BY <2>3, <2>4 DEF q, n, Iterations
  <2>6. QED
    BY <1>2, <2>5 DEF StoredBelow
<1>5. ASSUME NEW m \in 0 .. PM - 1, NEW n \in 0 .. PN - 1
      PROVE  C_hardware[m * PN + n] = Sum(Exact(m, n))
  <2>1. PICK mt, i : mt = m \div DIM /\ i = m % DIM
    OBVIOUS
  <2>2. PICK nt, j : nt = n \div DIM /\ j = n % DIM
    OBVIOUS
  <2>3. mt \in 0 .. MT - 1 /\ i \in TileIndexes /\ m = mt * DIM + i
    BY <1>3, <2>1, TileIndexOf
  <2>4. nt \in 0 .. NT - 1 /\ j \in TileIndexes /\ n = nt * DIM + j
    BY <1>3, <2>2, TileIndexOf
  <2> DEFINE place == (mt * DIM + i) * PN + (nt * DIM + j)
  <2>5. PlaceOfC(mt, nt, i, j) = c_base + place /\ place \in 0 .. PM * PN - 1
    BY <1>1, <2>3, <2>4, PlaceInC
  <2>6. place = m * PN + n
    BY <2>3, <2>4
  <2>7. dram[PlaceOfC(mt, nt, i, j)] = Sum(Exact(m, n))
    BY <1>4, <2>3, <2>4 DEF Stored
  <2> HIDE DEF place
  <2>8. C_hardware[place] = dram[c_base + place]
    BY <1>1, <2>5
  <2>9. QED
    BY <2>5, <2>6, <2>7, <2>8
<1>6. QED
  BY <1>1, <1>5 DEF ProductInDram, HoldsA, HoldsB

(* The loop over tiles computes the product: when run_thread reads C, each *)
(* element is the sum of its products, each once, for all sizes, and A and *)
(* B are in DRAM as they were written.                                     *)
THEOREM ProductAlwaysInDram == Spec => []ProductInDram
  BY GemmInvariant, GemmProduct, PTL
=============================================================================
