-------------------------- MODULE Arithmetic_proofs --------------------------
(***************************************************************************)
(* Two pieces of arithmetic, exact for numbers of any size.                *)
(*                                                                         *)
(* AddressRange: the scoreboard's comparison of two ranges of row          *)
(* addresses, of any length and stride.                                    *)
(*                                                                         *)
(* Scaling: one element of C, for words of every width, inputs, sums of    *)
(* any length and every factor check_drain accepts.  The inductive         *)
(* invariant says that the accumulator differs from the sum by whole       *)
(* words: it survives sums that leave accType, and where the sum is back   *)
(* in accType it leaves one candidate.  The last section compares with the *)
(* scale that was wanted: the factor is the nearest of its exponent, and   *)
(* two roundings are no more than one unit.                                *)
(***************************************************************************)
EXTENDS AddressRange, Scaling, TLAPS

(* Quotient and remainder of a natural number. *)
LEMMA NaturalDivision ==
  ASSUME NEW d \in Nat, NEW s \in Nat \ {0}
  PROVE  /\ d \div s \in Nat
         /\ d % s \in 0 .. s - 1
         /\ d = s * (d \div s) + (d % s)
  BY Z3

(* Multiples of s are s apart. *)
LEMMA NextMultiple ==
  ASSUME NEW s \in Nat, NEW m \in Nat, NEW n \in Nat, m < n
  PROVE  m * s + s <= n * s
<1> DEFINE k == n - m - 1
<1>1. k \in Nat /\ n = m + 1 + k
  OBVIOUS
<1>2. n * s = m * s + s + k * s
  BY <1>1, Z3
<1>3. k * s >= 0
  BY <1>1, Z3
<1>4. m * s \in Nat /\ n * s \in Nat /\ k * s \in Nat
  BY <1>1, Z3
<1>5. QED
  BY <1>2, <1>3, <1>4

(* A multiple divides without remainder. *)
LEMMA DivisionOfMultiple ==
  ASSUME NEW i \in Nat, NEW s \in Nat \ {0}
  PROVE  (i * s) % s = 0 /\ (i * s) \div s = i
<1> DEFINE q == (i * s) \div s
           r == (i * s) % s
<1>1. i * s \in Nat
  BY Z3
<1>2. q \in Nat /\ r \in 0 .. s - 1 /\ i * s = s * q + r
  BY <1>1, NaturalDivision
<1> HIDE DEF q, r
<1>3. \A m, n \in Nat : m < n => m * s + s <= n * s
  BY NextMultiple
<1>4. q * s = s * q /\ q * s \in Nat
  BY <1>2, Z3
<1>5. ~ (i < q)
  BY <1>1, <1>2, <1>3, <1>4
<1>6. ~ (q < i)
  BY <1>1, <1>2, <1>3, <1>4
<1>7. i = q
  BY <1>2, <1>5, <1>6
<1>8. r = 0
  BY <1>1, <1>2, <1>4, <1>7
<1>9. QED
  BY <1>7, <1>8 DEF q, r

(* A number without remainder is a multiple of its quotient. *)
LEMMA ExactDivision ==
  ASSUME NEW d \in Nat, NEW s \in Nat \ {0}, d % s = 0
  PROVE  d = (d \div s) * s
<1> DEFINE q == d \div s
<1>1. q \in Nat /\ d = s * q + 0
  BY NaturalDivision
<1> HIDE DEF q
<1>2. s * q = q * s /\ s * q \in Nat
  BY <1>1, Z3
<1>3. d = q * s
  BY <1>1, <1>2
<1>4. QED
  BY <1>3 DEF q

(* contains(r, x), computed by a division, holds exactly of r's rows.      *)
LEMMA ContainsExact ==
  ASSUME NEW r \in Range, NEW x \in Nat
  PROVE  contains(r, x) <=> \E i \in 0 .. r.count - 1 : x = r.lo + i * r.stride
<1> DEFINE s == r.stride
           d == x - r.lo
<1>1. r.lo \in Nat /\ s \in Nat \ {0} /\ r.count \in Nat
  BY DEF Range
<1>2. ASSUME contains(r, x)
      PROVE  \E i \in 0 .. r.count - 1 : x = r.lo + i * s
  <2>1. x >= r.lo /\ d % s = 0 /\ d \div s < r.count
    BY <1>2 DEF contains
  <2>2. d \in Nat
    BY <1>1, <2>1
  <2>3. d \div s \in Nat /\ d = s * (d \div s) + (d % s)
    BY <1>1, <2>2, NaturalDivision
  <2>4. d \div s \in 0 .. r.count - 1
    BY <1>1, <2>1, <2>3
  <2>5. d = (d \div s) * s
    BY <1>1, <2>1, <2>2, ExactDivision
  <2>6. x = r.lo + d
    BY <1>1
  <2>7. QED
    BY <2>4, <2>5, <2>6
<1>3. ASSUME NEW i \in 0 .. r.count - 1, x = r.lo + i * s
      PROVE  contains(r, x)
  <2>1. i \in Nat /\ i < r.count
    BY <1>1
  <2>2. i * s \in Nat
    BY <1>1, <2>1
  <2>3. x >= r.lo /\ d = i * s
    BY <1>1, <1>3, <2>2
  <2>4. d % s = 0 /\ d \div s = i
    BY <1>1, <2>1, <2>3, DivisionOfMultiple
  <2>5. QED
    BY <2>1, <2>3, <2>4 DEF contains
<1>4. QED
  BY <1>2, <1>3

(* Two ranges overlap exactly if they have a row in common, although only  *)
(* the rows of the shorter one are looked up (scoreboard.h, overlap).      *)
THEOREM OverlapIsSharedRow ==
  ASSUME NEW a \in Range, NEW b \in Range
  PROVE  overlap(a, b) <=> Rows(a) \cap Rows(b) # {}
<1> DEFINE few  == IF a.count <= b.count THEN a ELSE b
           many == IF a.count <= b.count THEN b ELSE a
<1>1. few \in Range /\ many \in Range
  OBVIOUS
<1>2. Rows(few) \cap Rows(many) = Rows(a) \cap Rows(b)
  OBVIOUS
<1>3. overlap(a, b) <=>
        \E i \in 0 .. few.count - 1 : contains(many, few.lo + i * few.stride)
  BY DEF overlap
<1> HIDE DEF few, many
<1>4. ASSUME NEW i \in 0 .. few.count - 1
      PROVE  /\ few.lo + i * few.stride \in Nat
             /\ few.lo + i * few.stride \in Rows(few)
  <2>1. few.lo \in Nat /\ few.stride \in Nat /\ i \in Nat
    BY <1>1 DEF Range
  <2>2. i * few.stride \in Nat
    BY <2>1, Z3
  <2>3. QED
    BY <2>1, <2>2 DEF Rows
<1>5. ASSUME NEW x \in Nat
      PROVE  contains(many, x) <=> x \in Rows(many)
  BY <1>1, ContainsExact DEF Rows
<1>6. ASSUME overlap(a, b) PROVE Rows(few) \cap Rows(many) # {}
  <2>1. PICK i \in 0 .. few.count - 1 : contains(many, few.lo + i * few.stride)
    BY <1>3, <1>6
  <2>2. QED
    BY <1>4, <1>5, <2>1
<1>7. ASSUME Rows(few) \cap Rows(many) # {} PROVE overlap(a, b)
  <2>1. PICK x \in Rows(few) : x \in Rows(many)
    BY <1>7
  <2>2. PICK i \in 0 .. few.count - 1 : x = few.lo + i * few.stride
    BY <2>1 DEF Rows
  <2>3. QED
    BY <1>3, <1>4, <1>5, <2>1, <2>2
<1>8. QED
  BY <1>2, <1>6, <1>7
-----------------------------------------------------------------------------
(* The properties of AddressRange's states, whose operands are what        *)
(* TopModule accepts.                                                      *)
OperandsInv == earlier \in Operands /\ later \in Operands

LEMMA OperandsAlways == OperandSpec => []OperandsInv
<1>1. OperandInit => OperandsInv
  BY DEF OperandInit, OperandsInv, Operands
<1>2. OperandsInv /\ [IssueOperand]_operands => OperandsInv'
  BY DEF OperandsInv, IssueOperand, operands
<1>3. QED
  BY <1>1, <1>2, PTL DEF OperandSpec

(* What an operand is *)
IsDram(o) ==
  \E dram_addr \in 0 .. DRAM_SIZE, dram_stride \in Strides, rows \in RowCounts :
    /\ AcceptsDram(dram_addr, dram_stride, rows)
    /\ o = [place |-> "dram", addr |-> dram_addr, range |-> dram(dram_addr, dram_stride, rows)]

IsSpad(o) ==
  \E spad_addr \in FlatAddrs, spad_stride \in Strides, rows \in RowCounts :
    /\ AcceptsSpad(spad_addr, spad_stride, rows)
    /\ o = [place |-> "spad", addr |-> spad_addr, range |-> spad(spad_addr, spad_stride, rows)]

IsPsum(o) == \E i \in {0, 1} : o = [place |-> "psum", addr |-> i, range |-> psum(i)]

IsArray(o) == o = [place |-> "array", addr |-> 0, range |-> array]

LEMMA OperandKinds ==
  ASSUME NEW o \in Operands
  PROVE  IsDram(o) \/ IsSpad(o) \/ IsPsum(o) \/ IsArray(o)
<1>1. CASE \E t \in {u \in DramTiles : AcceptsDram(u[1], u[2], u[3])} :
             o = [place |-> "dram", addr |-> t[1], range |-> dram(t[1], t[2], t[3])]
  <2>1. PICK t \in DramTiles :
          /\ AcceptsDram(t[1], t[2], t[3])
          /\ o = [place |-> "dram", addr |-> t[1], range |-> dram(t[1], t[2], t[3])]
    BY <1>1
  <2>2. t[1] \in 0 .. DRAM_SIZE /\ t[2] \in Strides /\ t[3] \in RowCounts
    BY DEF DramTiles
  <2>3. QED
    BY <2>1, <2>2 DEF IsDram
<1>2. CASE \E t \in {u \in SpadTiles : AcceptsSpad(u[1], u[2], u[3])} :
             o = [place |-> "spad", addr |-> t[1], range |-> spad(t[1], t[2], t[3])]
  <2>1. PICK t \in SpadTiles :
          /\ AcceptsSpad(t[1], t[2], t[3])
          /\ o = [place |-> "spad", addr |-> t[1], range |-> spad(t[1], t[2], t[3])]
    BY <1>2
  <2>2. t[1] \in FlatAddrs /\ t[2] \in Strides /\ t[3] \in RowCounts
    BY DEF SpadTiles
  <2>3. QED
    BY <2>1, <2>2 DEF IsSpad
<1>3. CASE \E i \in {0, 1} : o = [place |-> "psum", addr |-> i, range |-> psum(i)]
  BY <1>3 DEF IsPsum
<1>4. CASE o = [place |-> "array", addr |-> 0, range |-> array]
  BY <1>4 DEF IsArray
<1>5. QED
  BY <1>1, <1>2, <1>3, <1>4 DEF Operands

LEMMA RangeSizes ==
  /\ SPAD_SIZE \in Nat \ {0} /\ FlatAddrs = 0 .. SPAD_SIZE - 1
  /\ kPsum \in Nat /\ kArray \in Nat /\ kArray = kPsum + 2
  /\ kDramBase \in Nat /\ SPAD_SIZE <= kDramBase /\ kDramBase + DRAM_SIZE <= kPsum
<1>1. SPAD_SIZE \in Nat \ {0}
  BY BankCountAssumption, RowCountAssumption, Z3 DEF SPAD_SIZE
<1>2. kDramBase \in Nat /\ kArray \in Nat /\ DRAM_SIZE \in Nat
  BY BaseAssumption, SizeAssumption
<1>3. QED
  BY <1>1, <1>2, BaseAssumption DEF FlatAddrs, SPAD_SIZE, kPsum

LEMMA OperandRange == ASSUME NEW o \in Operands PROVE o.range \in Range
<1>1. CASE IsDram(o)
  BY <1>1, RangeSizes, OperandAssumption, SizeAssumption
  DEF IsDram, AcceptsDram, dram, Range
<1>2. CASE IsSpad(o)
  BY <1>2, RangeSizes, OperandAssumption DEF IsSpad, AcceptsSpad, spad, Range
<1>3. CASE IsPsum(o) \/ IsArray(o)
  BY <1>3, RangeSizes DEF IsPsum, IsArray, psum, array, Range
<1>4. QED
  BY <1>1, <1>2, <1>3, OperandKinds

(* Rows of a tile are at most as far from its first as its last one is.    *)
LEMMA RowBeforeLast ==
  ASSUME NEW s \in Nat, NEW n \in Nat, NEW i \in 0 .. n - 1
  PROVE  /\ i \in Nat /\ n - 1 \in Nat
         /\ i * s \in Nat /\ (n - 1) * s \in Nat
         /\ i * s <= (n - 1) * s
<1>1. i \in Nat /\ n - 1 \in Nat /\ (i < n - 1 \/ i = n - 1)
  OBVIOUS
<1>2. i * s \in Nat /\ (n - 1) * s \in Nat
  BY <1>1, Z3
<1>3. CASE i < n - 1
  BY <1>1, <1>2, <1>3, NextMultiple
<1>4. CASE i = n - 1
  BY <1>2, <1>4
<1>5. QED
  BY <1>1, <1>2, <1>3, <1>4

(* The spans of the tiles that the program uses fit a 64 bit word.  (The   *)
(* run wrapping_stride shows what happens without this.)                   *)
NoSpanWraps ==
  \A s \in Strides : \A n \in RowCounts :
    n > 0 => /\ (n - 1) * s + BYTES_PER_BANK_ROW < WORD
             /\ (n - 1) * s + SPAD_SIZE <= WORD

(* A DRAM operand's rows, and a scratchpad operand's *)
LEMMA DramRows ==
  ASSUME NoSpanWraps, NEW o \in Operands, o.place = "dram", NEW x \in Rows(o.range)
  PROVE  /\ x \in Nat /\ kDramBase <= x
         /\ x + BYTES_PER_BANK_ROW <= kDramBase + DRAM_SIZE
<1>1. IsDram(o)
  BY OperandKinds DEF IsSpad, IsPsum, IsArray
<1>2. PICK a \in 0 .. DRAM_SIZE, s \in Strides, n \in RowCounts :
        AcceptsDram(a, s, n) /\ o.range = dram(a, s, n)
  BY <1>1 DEF IsDram
<1>3. a \in Nat /\ s \in Nat /\ n \in Nat /\ n > 0 /\ DRAM_SIZE \in Nat
      /\ BYTES_PER_BANK_ROW \in Nat /\ WORD \in Nat \ {0}
  BY <1>2, OperandAssumption, SizeAssumption DEF AcceptsDram
<1>4. PICK i \in 0 .. n - 1 : x = kDramBase + a + i * s
  BY <1>2 DEF Rows, dram
<1>5. i * s \in Nat /\ (n - 1) * s \in Nat /\ i * s <= (n - 1) * s
  BY <1>3, RowBeforeLast
<1> DEFINE span == (n - 1) * s + BYTES_PER_BANK_ROW
<1>6. span \in Nat /\ span < WORD
  BY <1>3, <1>5 DEF NoSpanWraps
<1>7. span % WORD = span
  BY <1>3, <1>6
<1>8. a + span <= DRAM_SIZE
  BY <1>2, <1>3, <1>6, <1>7 DEF AcceptsDram
<1>9. QED
  BY <1>3, <1>4, <1>5, <1>8, RangeSizes

LEMMA SpadRows ==
  ASSUME NoSpanWraps, NEW o \in Operands, o.place = "spad",
         NEW i \in 0 .. o.range.count - 1
  PROVE  /\ o.addr = o.range.lo /\ o.addr \in Nat
         /\ i * o.range.stride \in Nat
         /\ o.range.lo + i * o.range.stride < SPAD_SIZE
<1>1. IsSpad(o)
  BY OperandKinds DEF IsDram, IsPsum, IsArray
<1>2. PICK a \in FlatAddrs, s \in Strides, n \in RowCounts :
        /\ AcceptsSpad(a, s, n)
        /\ o.range = spad(a, s, n) /\ o.addr = a
  BY <1>1 DEF IsSpad
<1>3. a \in 0 .. SPAD_SIZE - 1 /\ s \in Nat /\ n \in Nat /\ n > 0
      /\ WORD \in Nat \ {0}
  BY <1>2, OperandAssumption, SizeAssumption, RangeSizes DEF AcceptsSpad
<1>4. /\ o.range.lo = a /\ o.range.stride = s /\ o.range.count = n
      /\ i \in 0 .. n - 1
  BY <1>2 DEF spad
<1>5. i * s \in Nat /\ (n - 1) * s \in Nat /\ i * s <= (n - 1) * s
  BY <1>3, <1>4, RowBeforeLast
<1> DEFINE last == a + (n - 1) * s
<1>6. last \in Nat /\ last < WORD
  BY <1>3, <1>5, RangeSizes DEF NoSpanWraps
<1>7. last % WORD = last
  BY <1>3, <1>6
<1>8. last < SPAD_SIZE
  BY <1>2, <1>7 DEF AcceptsSpad
<1>9. QED
  BY <1>2, <1>3, <1>4, <1>5, <1>8, RangeSizes

(* Unpacking a scratchpad address and packing it again loses nothing.      *)
LEMMA PackedIsFlat ==
  ASSUME NEW x \in 0 .. SPAD_SIZE - 1
  PROVE  ToFlat(RowOffsetOf(x), BankOf(x)) = x
<1> DEFINE q == x \div N_BANKS
           r == x % N_BANKS
<1>1. /\ x \in Nat /\ N_BANKS \in Nat \ {0} /\ N_ROWS_PER_BANK \in Nat \ {0}
      /\ x < N_BANKS * N_ROWS_PER_BANK
  BY RangeSizes, BankCountAssumption, RowCountAssumption DEF SPAD_SIZE
<1>2. q \in Nat /\ r \in 0 .. N_BANKS - 1 /\ x = N_BANKS * q + r
  BY <1>1, NaturalDivision
<1> HIDE DEF q, r
<1>3. N_BANKS * q = q * N_BANKS /\ q * N_BANKS \in Nat
  BY <1>1, <1>2, Z3
<1>4. /\ N_BANKS * N_ROWS_PER_BANK = N_ROWS_PER_BANK * N_BANKS
      /\ N_ROWS_PER_BANK * N_BANKS \in Nat
  BY <1>1, Z3
<1>5. q < N_ROWS_PER_BANK
  <2>1. CASE N_ROWS_PER_BANK < q
    <3>1. N_ROWS_PER_BANK * N_BANKS + N_BANKS <= q * N_BANKS
      BY <1>1, <1>2, <2>1, NextMultiple
    <3>2. QED
      BY <1>1, <1>2, <1>3, <1>4, <3>1
  <2>2. CASE N_ROWS_PER_BANK = q
    BY <1>1, <1>2, <1>3, <1>4, <2>2
  <2>3. QED
    BY <1>1, <1>2, <2>1, <2>2
<1>6. q % N_ROWS_PER_BANK = q
  BY <1>1, <1>2, <1>5
<1>7. ToFlat(RowOffsetOf(x), BankOf(x)) = q * N_BANKS + r
  BY <1>6 DEF ToFlat, RowOffsetOf, BankOf, q, r
<1>8. QED
  BY <1>2, <1>3, <1>7

(* TopModule accepts a tile only if it lies inside DRAM or the scratchpad, *)
(* so the row addresses that the controllers compute for it are the ones   *)
(* that the scoreboard recorded (top_module.cpp, check_dram_range and      *)
(* check_spad_addr_range), as long as no span wraps around.                *)
THEOREM AcceptedAlwaysReached ==
  ASSUME NoSpanWraps PROVE OperandSpec => []AcceptedRowsReached
<1>1. OperandsInv => AcceptedRowsReached
  <2> SUFFICES ASSUME OperandsInv PROVE AcceptedRowsReached
    OBVIOUS
  <2>1. ASSUME later.place = "dram"
        PROVE  Bytes(later.range) \subseteq kDramBase .. kDramBase + DRAM_SIZE - 1
    <3>1. ASSUME NEW x \in Rows(later.range),
                 NEW y \in x .. x + BYTES_PER_BANK_ROW - 1
          PROVE  y \in kDramBase .. kDramBase + DRAM_SIZE - 1
      <4>1. /\ x \in Nat /\ kDramBase <= x
            /\ x + BYTES_PER_BANK_ROW <= kDramBase + DRAM_SIZE
        BY <2>1, DramRows DEF OperandsInv
      <4>2. kDramBase \in Nat /\ DRAM_SIZE \in Nat /\ BYTES_PER_BANK_ROW \in Nat
        BY SizeAssumption, BaseAssumption
      <4>3. QED
        BY <4>1, <4>2
    <3>2. QED
      BY <3>1 DEF Bytes
  <2>2. ASSUME later.place = "spad", NEW i \in 0 .. later.range.count - 1
        PROVE  LET row == later.range.lo + i * later.range.stride
               IN  row \in FlatAddrs /\ FlatPlus(later.addr, i * later.range.stride) = row
    <3> DEFINE step == i * later.range.stride
    <3>1. /\ later.addr = later.range.lo /\ later.addr \in Nat /\ step \in Nat
          /\ later.addr + step < SPAD_SIZE
      BY <2>2, SpadRows DEF OperandsInv
    <3> HIDE DEF step
    <3>2. later.addr + step \in 0 .. SPAD_SIZE - 1
      BY <3>1, RangeSizes
    <3>3. later.addr + step \in FlatAddrs /\ FlatPlus(later.addr, step) = later.addr + step
      BY <3>2, RangeSizes, PackedIsFlat DEF FlatPlus
    <3>4. QED
      BY <3>1, <3>3 DEF step
  <2>3. QED
    BY <2>1, <2>2 DEF AcceptedRowsReached
<1>2. QED
  BY <1>1, OperandsAlways, PTL

(* Where the rows of each kind of operand are *)
LEMMA PlaceOfRow ==
  ASSUME NoSpanWraps, NEW o \in Operands, NEW x \in Rows(o.range)
  PROVE  /\ x \in Nat
         /\ o.place = "spad"  => x < kDramBase
         /\ o.place = "dram"  => kDramBase <= x /\ x < kPsum
         /\ o.place = "psum"  => kPsum <= x /\ x < kArray
         /\ o.place = "array" => x = kArray
         /\ o.place \in {"spad", "dram", "psum", "array"}
<1>1. CASE IsSpad(o)
  <2>1. o.place = "spad"
    BY <1>1 DEF IsSpad
  <2>2. PICK i \in 0 .. o.range.count - 1 : x = o.range.lo + i * o.range.stride
    BY DEF Rows
  <2>3. QED
    BY <2>1, <2>2, SpadRows, RangeSizes
<1>2. CASE IsDram(o)
  <2>1. o.place = "dram"
    BY <1>2 DEF IsDram
  <2>2. /\ x \in Nat /\ kDramBase <= x
        /\ x + BYTES_PER_BANK_ROW <= kDramBase + DRAM_SIZE
    BY <2>1, DramRows
  <2>3. DRAM_SIZE \in Nat /\ BYTES_PER_BANK_ROW \in Nat \ {0}
    BY SizeAssumption
  <2>4. QED
    BY <2>1, <2>2, <2>3, RangeSizes
<1>3. ASSUME NEW lo \in Nat, o.range = [lo |-> lo, stride |-> 1, count |-> 1]
      PROVE  x = lo
  BY <1>3 DEF Rows
<1>4. CASE IsPsum(o)
  <2>1. PICK i \in {0, 1} : o.place = "psum" /\ o.range = psum(i)
    BY <1>4 DEF IsPsum
  <2>2. kPsum + i \in Nat /\ o.range = [lo |-> kPsum + i, stride |-> 1, count |-> 1]
    BY <2>1, RangeSizes DEF psum
  <2>3. x = kPsum + i
    BY <1>3, <2>2
  <2>4. QED
    BY <2>1, <2>3, RangeSizes
<1>5. CASE IsArray(o)
  <2>1. o.place = "array" /\ o.range = array
    BY <1>5 DEF IsArray
  <2>2. x = kArray
    BY <1>3, <2>1, RangeSizes DEF array
  <2>3. QED
    BY <2>1, <2>2, RangeSizes
<1>6. QED
  BY <1>1, <1>2, <1>4, <1>5, OperandKinds

(* Comparing operands finds a shared row exactly if there is one, and the  *)
(* pseudo address space keeps scratchpad, DRAM, psum buffers and array     *)
(* apart (scoreboard.h, overlap and the bases it adds).                    *)
THEOREM OverlapAlwaysExact ==
  ASSUME NoSpanWraps PROVE OperandSpec => []OverlapExact
<1>1. OperandsInv => OverlapExact
  <2> SUFFICES ASSUME OperandsInv PROVE OverlapExact
    OBVIOUS
  <2>1. overlap(earlier.range, later.range) <=>
          Rows(earlier.range) \cap Rows(later.range) # {}
    BY OperandRange, OverlapIsSharedRow DEF OperandsInv
  <2>2. ASSUME NEW x \in Rows(earlier.range), x \in Rows(later.range)
        PROVE  earlier.place = later.place
    <3> DEFINE At(place) ==
                 /\ place = "spad"  => x < kDramBase
                 /\ place = "dram"  => kDramBase <= x /\ x < kPsum
                 /\ place = "psum"  => kPsum <= x /\ x < kArray
                 /\ place = "array" => x = kArray
                 /\ place \in {"spad", "dram", "psum", "array"}
    <3>1. x \in Nat /\ At(earlier.place)
      BY PlaceOfRow DEF OperandsInv
    <3>2. At(later.place)
      BY <2>2, PlaceOfRow DEF OperandsInv
    <3>3. /\ kDramBase \in Nat /\ kPsum \in Nat /\ kArray \in Nat
          /\ kDramBase <= kPsum /\ kPsum < kArray
      BY RangeSizes, SizeAssumption
    <3>4. QED
      BY <3>1, <3>2, <3>3
  <2>3. QED
    BY <2>1, <2>2 DEF OverlapExact
<1>2. QED
  BY <1>1, OperandsAlways, PTL

(* The rows of an aligned operand are whole rows of DRAM.                  *)
LEMMA AlignedRow ==
  ASSUME NEW o \in Operands, o.place = "dram", Aligned(o), NEW x \in Rows(o.range)
  PROVE  \E u \in Nat : x = kDramBase + u * BYTES_PER_BANK_ROW
<1> DEFINE B == BYTES_PER_BANK_ROW
<1>1. IsDram(o)
  BY OperandKinds DEF IsSpad, IsPsum, IsArray
<1>2. PICK a \in 0 .. DRAM_SIZE, s \in Strides, n \in RowCounts :
        o.addr = a /\ o.range = dram(a, s, n)
  BY <1>1 DEF IsDram
<1>3. a \in Nat /\ s \in Nat /\ n \in Nat /\ B \in Nat \ {0} /\ kDramBase \in Nat
  BY <1>2, OperandAssumption, SizeAssumption, BaseAssumption
<1>4. PICK i \in 0 .. n - 1 : x = kDramBase + a + i * s
  BY <1>2 DEF Rows, dram
<1>5. a % B = 0 /\ s % B = 0
  BY <1>2 DEF Aligned, dram
<1> DEFINE p == a \div B
           t == s \div B
<1>6. a = p * B /\ s = t * B /\ p \in Nat /\ t \in Nat
  BY <1>3, <1>5, NaturalDivision, ExactDivision
<1> HIDE DEF p, t
<1>7. i \in Nat
  BY <1>3
<1>8. i * (t * B) = (i * t) * B /\ i * t \in Nat
  BY <1>3, <1>6, <1>7, Z3
<1>9. p * B + (i * t) * B = (p + i * t) * B /\ p + i * t \in Nat
  BY <1>3, <1>6, <1>8, Z3
<1>10. p * B \in Nat /\ (i * t) * B \in Nat
  BY <1>3, <1>6, <1>8, Z3
<1>11. x = kDramBase + (p + i * t) * B
  BY <1>3, <1>4, <1>6, <1>8, <1>9, <1>10
<1>12. QED
  BY <1>9, <1>11

(* Two aligned DRAM operands that share a byte are found to overlap,       *)
(* although the comparison knows nothing of the rows' width                *)
(* (scoreboard.h, ops_conflict).                                           *)
THEOREM AlignedConflictsAlwaysSeen == OperandSpec => []AlignedConflictsSeen
<1> DEFINE B == BYTES_PER_BANK_ROW
<1>1. OperandsInv => AlignedConflictsSeen
  <2> SUFFICES ASSUME OperandsInv, Aligned(earlier), Aligned(later),
                      ShareBytes(earlier, later)
               PROVE  overlap(earlier.range, later.range)
    BY DEF AlignedConflictsSeen
  <2>1. PICK x \in Rows(earlier.range), y \in Rows(later.range) :
          (x .. x + B - 1) \cap (y .. y + B - 1) # {}
    BY DEF ShareBytes, Bytes
  <2>2. PICK u \in Nat : x = kDramBase + u * B
    BY AlignedRow DEF OperandsInv, ShareBytes
  <2>3. PICK v \in Nat : y = kDramBase + v * B
    BY AlignedRow DEF OperandsInv, ShareBytes
  <2>4. B \in Nat \ {0} /\ kDramBase \in Nat /\ u * B \in Nat /\ v * B \in Nat
    <3>1. B \in Nat \ {0} /\ kDramBase \in Nat
      BY SizeAssumption, BaseAssumption
    <3>2. QED
      BY <3>1, Z3
  <2>5. PICK z : x <= z /\ z < x + B /\ y <= z /\ z < y + B /\ z \in Nat
    <3>1. x \in Nat /\ y \in Nat
      BY <2>2, <2>3, <2>4
    <3>2. PICK z : z \in x .. x + B - 1 /\ z \in y .. y + B - 1
      BY <2>1
    <3>3. x <= z /\ z < x + B /\ y <= z /\ z < y + B /\ z \in Nat
      BY <2>4, <3>1, <3>2
    <3>4. QED
      BY <3>3
  <2>6. ~ (u < v)
    <3>1. u < v => u * B + B <= v * B
      BY <2>4, NextMultiple
    <3>2. QED
      BY <2>2, <2>3, <2>4, <2>5, <3>1
  <2>7. ~ (v < u)
    <3>1. v < u => v * B + B <= u * B
      BY <2>4, NextMultiple
    <3>2. QED
      BY <2>2, <2>3, <2>4, <2>5, <3>1
  <2>8. x = y
    BY <2>2, <2>3, <2>6, <2>7
  <2>9. QED
    BY <2>1, <2>8, OperandRange, OverlapIsSharedRow DEF OperandsInv
<1>2. QED
  BY <1>1, OperandsAlways, PTL

-----------------------------------------------------------------------------
(* Scaling: one element of C *)

P == 2 ^ acc_digits
I == 2 ^ input_digits
Word == 2 * P

(* Sizes of the words, as numbers. *)
LEMMA Sizes ==
  /\ P \in Nat /\ P >= 2 /\ I \in Nat \ {0} /\ Word \in Nat \ {0}
  /\ Signed(acc_digits) = -P .. P - 1 /\ Signed(input_digits) = -I .. I - 1
<1>1. acc_digits \in Nat \ {0}
  BY DigitsAssumption
<1> DEFINE n == acc_digits - 1
<1>2. n \in 0 .. acc_digits + 1 /\ 1 \in 0 .. acc_digits + 1 /\ 1 + n = acc_digits
  BY <1>1
<1> HIDE DEF n
<1>3. 2 ^ (1 + n) = 2 ^ 1 * 2 ^ n /\ 2 ^ n \in Nat \ {0}
  BY <1>2, PowersAssumption, Zenon
<1>4. P = 2 * 2 ^ n
  BY <1>2, <1>3, PowersAssumption, Zenon DEF P
<1>5. P \in Nat /\ P >= 2
  BY <1>3, <1>4
<1>6. I \in Nat \ {0}
  BY PowersAssumption DEF I
<1>7. QED
  BY <1>5, <1>6 DEF Signed, P, I, Word

(* Quotient and remainder of an integer. *)
LEMMA Division ==
  ASSUME NEW x \in Int, NEW n \in Nat \ {0}
  PROVE  /\ x \div n \in Int /\ x % n \in 0 .. n - 1
         /\ x = n * (x \div n) + (x % n)
  BY Z3

(* Products keep the order of their factors. *)
LEMMA ProductOrder ==
  ASSUME NEW n \in Nat, NEW x \in Int, NEW y \in Int, x <= y
  PROVE  x * n \in Int /\ y * n \in Int /\ x * n <= y * n
  BY Z3

(* Wrap brings a number into accType and moves it by whole words. *)
LEMMA WrapMovesByWords ==
  ASSUME NEW x \in Int
  PROVE  Wrap(x) \in Signed(acc_digits) /\ \E k \in Int : x - Wrap(x) = k * Word
<1> DEFINE q == (x + P) \div Word
           r == (x + P) % Word
<1>1. x + P \in Int /\ Word \in Nat \ {0}
  BY Sizes
<1>2. q \in Int /\ r \in 0 .. Word - 1 /\ x + P = Word * q + r
  BY <1>1, Division
<1>3. Wrap(x) = r - P
  BY DEF Wrap, P, Word
<1> HIDE DEF q, r
<1>4. Word * q = q * Word /\ q * Word \in Int
  BY <1>1, <1>2, Z3
<1>5. x - Wrap(x) = q * Word
  BY <1>2, <1>3, <1>4, Sizes
<1>6. r - P \in -P .. P - 1
  BY <1>2, Sizes DEF Word
<1>7. QED
  BY <1>2, <1>3, <1>5, <1>6, Sizes

(* Two values of accType a whole number of words apart are equal. *)
LEMMA OneCandidate ==
  ASSUME NEW x \in Signed(acc_digits), NEW y \in Signed(acc_digits),
         NEW k \in Int, x - y = k * Word
  PROVE  x = y
<1>1. x \in Int /\ y \in Int /\ x - y < Word /\ x - y > -Word
  BY Sizes DEF Word
<1>2. Word \in Nat \ {0}
  BY Sizes
<1>3. CASE k >= 1
  <2>1. 1 * Word <= k * Word
    BY <1>2, <1>3, ProductOrder
  <2>2. QED
    BY <1>1, <1>2, <2>1
<1>4. CASE k <= -1
  <2>1. k * Word <= (-1) * Word
    BY <1>2, <1>4, ProductOrder
  <2>2. (-1) * Word = -Word
    BY <1>2
  <2>3. QED
    BY <1>1, <1>2, <2>1, <2>2
<1>5. CASE k = 0
  BY <1>1, <1>2, <1>5
<1>6. QED
  BY <1>3, <1>4, <1>5

(* A multiple of the word leaves no remainder. *)
LEMMA WholeWords ==
  ASSUME NEW k \in Int
  PROVE  (k * Word) % Word = 0
<1> DEFINE x == k * Word
           q == x \div Word
           r == x % Word
<1>1. Word \in Nat \ {0}
  BY Sizes
<1>2. x \in Int
  BY <1>1, Z3
<1>3. q \in Int /\ r \in 0 .. Word - 1 /\ x = Word * q + r
  BY <1>1, <1>2, Division
<1> HIDE DEF q, r
<1>4. Word * q = q * Word /\ (k - q) * Word = k * Word - q * Word
  BY <1>1, <1>3, Z3
<1>5. r = (k - q) * Word
  <2>1. x \in Int /\ q * Word \in Int
    BY <1>1, <1>2, <1>3, Z3
  <2>2. QED
    BY <1>3, <1>4, <2>1
<1>6. ~ (k - q >= 1)
  <2> SUFFICES ASSUME k - q >= 1 PROVE FALSE
    OBVIOUS
  <2>1. 1 * Word <= (k - q) * Word
    BY <1>1, <1>3, ProductOrder
  <2>2. QED
    BY <1>1, <1>3, <1>5, <2>1
<1>7. ~ (k - q <= -1)
  <2> SUFFICES ASSUME k - q <= -1 PROVE FALSE
    OBVIOUS
  <2>1. (k - q) * Word <= (-1) * Word
    BY <1>1, <1>3, ProductOrder
  <2>2. QED
    BY <1>1, <1>3, <1>5, <2>1
<1>8. k - q = 0
  BY <1>3, <1>6, <1>7
<1>9. r = 0
  BY <1>1, <1>5, <1>8
<1>10. QED
  BY <1>9 DEF r

(* The rounding constant is half the divisor, and no more than a square    *)
(* word half.                                                              *)
LEMMA HalfOfDivisor ==
  ASSUME NEW s \in 0 .. acc_digits
  PROVE  /\ 2 ^ ((acc_digits + s) - 1) \in Nat \ {0}
         /\ 2 ^ (acc_digits + s) = 2 * 2 ^ ((acc_digits + s) - 1)
         /\ 2 ^ ((acc_digits + s) - 1) <= P * P
<1> DEFINE d == acc_digits
<1>1. d \in Nat \ {0} /\ s \in Nat /\ s <= d
  BY DigitsAssumption
<1>2. P \in Nat /\ P >= 2
  BY Sizes
<1>3. P * P \in Nat /\ P <= P * P
  <2>1. 1 * P <= P * P /\ P * P \in Int
    BY <1>2, ProductOrder
  <2>2. QED
    BY <1>2, <2>1
<1>4. \A m \in 1 .. d + 1 : 2 ^ m = 2 * 2 ^ (m - 1) /\ 2 ^ (m - 1) \in Nat \ {0}
  <2> TAKE m \in 1 .. d + 1
  <2> DEFINE n == m - 1
  <2>1. n \in 0 .. d + 1 /\ 1 \in 0 .. d + 1 /\ 1 + n = m
    BY <1>1
  <2> HIDE DEF n
  <2>2. 2 ^ (1 + n) = 2 ^ 1 * 2 ^ n /\ 2 ^ n \in Nat \ {0}
    BY <2>1, PowersAssumption, Zenon
  <2>3. 2 ^ m = 2 * 2 ^ n
    BY <2>1, <2>2, PowersAssumption, Zenon
  <2>4. QED
    BY <2>2, <2>3 DEF n
<1>5. CASE s = 0
  <2>1. P = 2 * 2 ^ (d - 1) /\ 2 ^ (d - 1) \in Nat \ {0}
    <3>1. d \in 1 .. d + 1
      BY <1>1
    <3>2. QED
      BY <1>4, <3>1 DEF P
  <2>2. d + s = d /\ (d + s) - 1 = d - 1
    BY <1>1, <1>5
  <2>3. 2 ^ (d + s) = P
    BY <2>2 DEF P
  <2>4. 2 ^ ((d + s) - 1) = 2 ^ (d - 1)
    BY <2>2
  <2>5. QED
    BY <1>2, <1>3, <2>1, <2>3, <2>4
<1>6. CASE s >= 1
  <2> DEFINE n == s - 1
             g == d - n
  <2>1. n \in 0 .. d + 1 /\ g \in 0 .. d + 1 /\ d \in 0 .. d + 1 /\ s \in 0 .. d + 1
        /\ n + g = d /\ d + n = (d + s) - 1 /\ s \in 1 .. d + 1
    BY <1>1, <1>6
  <2> HIDE DEF g
  <2>2. 2 ^ s = 2 * 2 ^ n
    BY <1>4, <2>1
  <2> HIDE DEF n, d
  <2>3. 2 ^ (n + g) = 2 ^ n * 2 ^ g /\ 2 ^ (d + n) = 2 ^ d * 2 ^ n /\ 2 ^ (d + s) = 2 ^ d * 2 ^ s
        /\ 2 ^ n \in Nat \ {0} /\ 2 ^ g \in Nat \ {0}
    BY <2>1, PowersAssumption, Zenon DEF d
  <2> DEFINE N == 2 ^ n
             G == 2 ^ g
             h == P * N
  <2>4. P = N * G /\ 2 ^ ((d + s) - 1) = h /\ 2 ^ (d + s) = P * (2 * N) /\ N \in Nat \ {0} /\ G \in Nat \ {0}
    BY <2>1, <2>2, <2>3, Zenon DEF P, d
  <2> HIDE DEF N, G
  <2>5. 1 * N <= G * N /\ G * N = N * G
    <3>1. 1 <= G
      BY <2>4
    <3>2. 1 * N <= G * N
      BY <2>4, <3>1, ProductOrder
    <3>3. QED
      BY <2>4, <3>2, Z3
  <2>6. N <= P
    BY <2>4, <2>5
  <2>7. N * P <= P * P /\ N * P = P * N
    <3>1. N * P <= P * P
      BY <1>2, <2>4, <2>6, ProductOrder
    <3>2. QED
      BY <1>2, <2>4, <3>1, Z3
  <2>8. h \in Nat \ {0} /\ P * (2 * N) = 2 * h
    BY <1>2, <2>4, Z3
  <2>9. QED
    BY <2>4, <2>7, <2>8 DEF d
<1>7. QED
  BY <1>1, <1>5, <1>6

(* Nothing scale computes leaves a word of twice accType (scaler_logic.cpp, *)
(* the int64_t product and its rounding).                                   *)
LEMMA NoOverflow ==
  ASSUME NEW v \in Signed(acc_digits), NEW sf \in [mult : Signed(acc_digits), shift : Nat],
         check_drain(sf)
  PROVE  /\ v * sf.mult \in Signed(2 * acc_digits + 1)
         /\ total_shift(sf) - 1 < 2 * acc_digits + 1
         /\ Shifted(v, sf) \in Signed(2 * acc_digits + 1)
<1> DEFINE d == acc_digits
           s == sf.shift
           x == v * sf.mult
           h == 2 ^ ((d + s) - 1)
<1>1. d \in Nat \ {0} /\ s \in 0 .. d
  BY DigitsAssumption DEF check_drain
<1>2. P \in Nat /\ P >= 2 /\ v \in -P .. P - 1 /\ sf.mult \in 1 .. P - 1
  BY Sizes DEF check_drain
<1>3. h \in Nat /\ h <= P * P
  BY <1>1, HalfOfDivisor
<1>4. total_shift(sf) = d + s
  BY DEF total_shift
<1>5. 2 ^ (2 * d + 1) = 2 * (P * P)
  <2> DEFINE n == d + 1
  <2>1. d \in 0 .. d + 1 /\ n \in 0 .. d + 1 /\ 1 \in 0 .. d + 1 /\ d + n = 2 * d + 1
    BY <1>1
  <2>2. 2 ^ (d + n) = 2 ^ d * 2 ^ n
    BY <2>1, PowersAssumption, Zenon
  <2>3. 1 + d = n
    BY <1>1
  <2>4. 2 ^ (1 + d) = 2 ^ 1 * 2 ^ d
    BY <2>1, PowersAssumption, Zenon
  <2>5. 2 ^ n = 2 * P
    BY <2>3, <2>4, PowersAssumption, Zenon DEF P
  <2>6. 2 ^ (2 * d + 1) = P * (2 * P)
    BY <2>1, <2>2, <2>5, Zenon DEF P
  <2>7. P * (2 * P) = 2 * (P * P)
    BY <1>2, Z3
  <2>8. QED
    BY <2>6, <2>7
<1>6. x \in Int /\ P * P \in Nat /\ -(P * P) <= x /\ x <= P * P - 1
  <2>1. -(P * sf.mult) <= x /\ x <= P * sf.mult - sf.mult /\ x \in Int /\ P * sf.mult \in Int
    <3>1. (-P) * sf.mult <= v * sf.mult /\ v * sf.mult \in Int /\ (-P) * sf.mult \in Int
      BY <1>2, ProductOrder
    <3>2. v * sf.mult <= (P - 1) * sf.mult /\ (P - 1) * sf.mult \in Int
      BY <1>2, ProductOrder
    <3>3. (P - 1) * sf.mult = P * sf.mult - sf.mult /\ (-P) * sf.mult = -(P * sf.mult) /\ P * sf.mult \in Int
      BY <1>2, Z3
    <3>4. QED
      BY <1>2, <3>1, <3>2, <3>3
  <2>2. sf.mult * P <= P * P /\ P * P \in Nat /\ sf.mult * P = P * sf.mult
    <3>1. sf.mult * P <= P * P
      BY <1>2, ProductOrder
    <3>2. QED
      BY <1>2, <3>1, Z3
  <2>3. QED
    BY <1>2, <2>1, <2>2
<1>7. Shifted(v, sf) = x + h
  <2> DEFINE hh == 2 ^ (total_shift(sf) - 1)
  <2>1. Shifted(v, sf) = x + hh
    BY Zenon DEF Shifted
  <2>2. hh = h
    BY Zenon DEF total_shift
  <2>3. QED
    BY <2>1, <2>2, Zenon
<1>8. Signed(2 * d + 1) = -(2 * (P * P)) .. 2 * (P * P) - 1
  BY <1>5 DEF Signed
<1> HIDE DEF x, h
<1>9. x \in Signed(2 * d + 1) /\ x + h \in Signed(2 * d + 1)
  BY <1>3, <1>6, <1>8
<1>10. QED
  BY <1>1, <1>4, <1>7, <1>9 DEF x

(* The nearest multiplier is positive and in accType (quantize_scale), so  *)
(* the drain that gets it is accepted.                                     *)
LEMMA QuantizedFactor ==
  ASSUME NEW sc \in Scales, ShiftFits(quantize_scale(sc))
  PROVE  /\ quantize_scale(sc) \in [mult : Signed(acc_digits), shift : 0 .. 2 ^ shift_bits - 1]
         /\ check_drain(quantize_scale(sc))
<1> DEFINE den == 2 * sc.den
           x == 2 * sc.num * P + sc.den
           q == x \div den
           r == x % den
<1>1. sc.num \in Nat /\ sc.den \in Nat \ {0} /\ sc.exp \in Nat /\ sc.den <= 2 * sc.num
  BY ScalesAssumption
<1>2. P \in Nat /\ P >= 2
  BY Sizes
<1>3. x \in Nat /\ x >= den
  <2>1. 2 * (2 * sc.num) <= P * (2 * sc.num)
    BY <1>1, <1>2, ProductOrder
  <2>2. P * (2 * sc.num) = 2 * sc.num * P /\ 2 * sc.num * P \in Nat
    BY <1>1, <1>2, Z3
  <2>3. QED
    BY <1>1, <2>1, <2>2
<1>4. q \in Int /\ r \in 0 .. den - 1 /\ x = den * q + r
  <2>1. den \in Nat \ {0}
    BY <1>1
  <2> HIDE DEF x, den
  <2>2. QED
    BY <1>3, <2>1, Division
<1>5. q >= 1
  <2> SUFFICES ASSUME q <= 0 PROVE FALSE
    BY <1>4
  <2> HIDE DEF q, r, x, den
  <2>1. den \in Nat
    BY <1>1 DEF den
  <2>2. q * den <= 0 * den
    BY <1>4, <2>1, ProductOrder
  <2>3. q * den = den * q /\ den * q \in Int
    BY <1>4, <2>1, Z3
  <2>4. QED
    BY <1>3, <1>4, <2>1, <2>2, <2>3
<1>6. multiplier(sc) = IF q < P THEN q ELSE P - 1
  BY DEF multiplier, P
<1>7. multiplier(sc) \in 1 .. P - 1
  <2> HIDE DEF q
  <2> QED
    BY <1>2, <1>4, <1>5, <1>6
<1>8. sc.exp % (2 ^ shift_bits) \in 0 .. 2 ^ shift_bits - 1
  <2> DEFINE m == 2 ^ shift_bits
  <2>1. m \in Nat \ {0} /\ sc.exp \in Int
    BY <1>1, PowersAssumption
  <2> HIDE DEF m
  <2>2. sc.exp % m \in 0 .. m - 1
    BY <2>1, Division
  <2>3. QED
    BY <2>2 DEF m
<1> HIDE DEF q, r, x, den
<1>9. multiplier(sc) \in Signed(acc_digits) /\ multiplier(sc) > 0
  BY <1>2, <1>7, Sizes
<1>10. QED
  BY <1>8, <1>9 DEF quantize_scale, check_drain, ShiftFits

(* scale rounds half up and saturates, for factors check_drain accepts *)
Rounded(v, sf, y) ==
  LET den == 2 ^ total_shift(sf)
      num == v * sf.mult
  IN  \/ (2 * y - 1) * den <= 2 * num /\ 2 * num < (2 * y + 1) * den
      \/ y = 2 ^ input_digits - 1 /\ 2 * num >= (2 * y + 1) * den
      \/ y = -(2 ^ input_digits) /\ 2 * num < (2 * y - 1) * den

LEMMA ScaleRounds ==
  ASSUME NEW v \in Signed(acc_digits), NEW sf \in [mult : Signed(acc_digits), shift : Nat],
         check_drain(sf)
  PROVE  Scaled(v, sf) \in Signed(input_digits) /\ Rounded(v, sf, Scaled(v, sf))
<1> DEFINE num == v * sf.mult
           h   == 2 ^ ((acc_digits + sf.shift) - 1)
           den == 2 ^ total_shift(sf)
           q   == (num + h) \div den
           r   == (num + h) % den
           y   == Clamp(q)
<1>1. sf.shift \in 0 .. acc_digits
  BY DigitsAssumption DEF check_drain
<1>2. h \in Nat \ {0} /\ den = 2 * h
  BY <1>1, HalfOfDivisor DEF total_shift
<1>3. num \in Int
  <2>1. v \in Int /\ sf.mult \in Int
    BY Sizes
  <2>2. QED
    BY <2>1, Z3
<1>4. Scaled(v, sf) = y
  <2>1. Shifted(v, sf) = num + h
    BY Zenon DEF Shifted, total_shift
  <2>2. QED
    BY <2>1, Zenon DEF Scaled
<1>5. y = IF q < -I THEN -I ELSE IF q >= I THEN I - 1 ELSE q
  BY DEF Clamp, I
<1>6. I \in Nat \ {0} /\ Signed(input_digits) = -I .. I - 1
  BY Sizes
<1>7. Rounded(v, sf, y) <=>
        \/ (2 * y - 1) * den <= 2 * num /\ 2 * num < (2 * y + 1) * den
        \/ y = I - 1 /\ 2 * num >= (2 * y + 1) * den
        \/ y = -I /\ 2 * num < (2 * y - 1) * den
  BY Zenon DEF Rounded, I
<1> HIDE DEF num, h, den
<1>8. den \in Nat \ {0} /\ num + h \in Int
  BY <1>2, <1>3
<1>9. q \in Int /\ r \in 0 .. den - 1 /\ num + h = den * q + r
  BY <1>8, Division
<1> HIDE DEF q, r, y
<1>10. (2 * q - 1) * den <= 2 * num /\ 2 * num < (2 * q + 1) * den
  <2>1. (2 * q - 1) * den = 2 * (den * q) - den /\ (2 * q + 1) * den = 2 * (den * q) + den
        /\ den * q \in Int
    BY <1>8, <1>9, Z3
  <2>2. QED
    BY <1>2, <1>3, <1>8, <1>9, <2>1
<1>11. CASE q < -I
  <2>1. y = -I
    BY <1>5, <1>11
  <2>2. (2 * q + 1) * den <= (2 * y - 1) * den /\ (2 * y - 1) * den \in Int /\ (2 * q + 1) * den \in Int
    <3>1. 2 * q + 1 \in Int /\ 2 * y - 1 \in Int /\ 2 * q + 1 <= 2 * y - 1
      BY <1>6, <1>9, <1>11, <2>1
    <3>2. QED
      BY <1>8, <3>1, ProductOrder
  <2>3. 2 * num < (2 * y - 1) * den
    BY <1>3, <1>10, <2>2
  <2>4. QED
    BY <1>4, <1>6, <1>7, <2>1, <2>3
<1>12. CASE q >= I
  <2>1. y = I - 1
    BY <1>5, <1>6, <1>9, <1>12
  <2>2. (2 * y + 1) * den <= (2 * q - 1) * den /\ (2 * y + 1) * den \in Int /\ (2 * q - 1) * den \in Int
    <3>1. 2 * y + 1 \in Int /\ 2 * q - 1 \in Int /\ 2 * y + 1 <= 2 * q - 1
      BY <1>6, <1>9, <1>12, <2>1
    <3>2. QED
      BY <1>8, <3>1, ProductOrder
  <2>3. 2 * num >= (2 * y + 1) * den
    BY <1>3, <1>10, <2>2
  <2>4. QED
    BY <1>4, <1>6, <1>7, <2>1, <2>3
<1>13. CASE q \in -I .. I - 1
  <2>1. y = q
    BY <1>5, <1>6, <1>9, <1>13
  <2>2. QED
    BY <1>4, <1>6, <1>7, <1>10, <1>13, <2>1
<1>14. QED
  BY <1>6, <1>9, <1>11, <1>12, <1>13
-----------------------------------------------------------------------------
(* The accumulator and the sum differ by whole words. *)
WholeWordsApart == phase # "scaled" => \E k \in Int : sum - acc = k * Word

FactorAccepted ==
  /\ phase = "quantize" => scale # NoScale
  /\ phase # "quantize" /\ scale # NoScale => check_drain(factor)

IInv == TypeOK /\ WholeWordsApart /\ FactorAccepted /\ RoundsHalfUp

LEMMA InitIInv == Init => IInv
<1> SUFFICES ASSUME Init PROVE IInv
  OBVIOUS
<1>1. Word \in Nat \ {0} /\ P \in Nat /\ P >= 2 /\ I \in Nat \ {0}
      /\ Signed(acc_digits) = -P .. P - 1 /\ Signed(input_digits) = -I .. I - 1
  BY Sizes
<1>2. 0 \in Signed(acc_digits) /\ 0 \in Signed(input_digits) /\ 0 \in 0 .. 2 ^ shift_bits - 1
  BY <1>1, PowersAssumption
<1>3. TypeOK
  BY <1>2, FactorsAssumption, InputsAssumption DEF Init, TypeOK
<1>4. WholeWordsApart
  <2>1. 0 * Word = 0 /\ sum - acc = 0
    BY <1>1 DEF Init
  <2>2. QED
    BY <2>1 DEF WholeWordsApart
<1>5. FactorAccepted /\ RoundsHalfUp
  BY ScalesAssumption DEF Init, FactorAccepted, RoundsHalfUp
<1>6. QED
  BY <1>3, <1>4, <1>5 DEF IInv

LEMMA NextIInv == IInv /\ [Next]_vars => IInv'
<1> SUFFICES ASSUME IInv, [Next]_vars PROVE IInv'
  OBVIOUS
<1>0. TypeOK /\ WholeWordsApart /\ FactorAccepted /\ RoundsHalfUp
  BY DEF IInv
<1>1. CASE Quantize
  <2>1. phase = "quantize" /\ phase' = "accumulate" /\ factor' = quantize_scale(scale) /\ ShiftFits(factor')
        /\ UNCHANGED <<scale, acc, count, sum, out>>
    BY <1>1 DEF Quantize
  <2>2. ASSUME scale \in Scales
        PROVE  /\ factor' \in [mult : Signed(acc_digits), shift : 0 .. 2 ^ shift_bits - 1]
               /\ check_drain(factor')
    BY <2>1, <2>2, QuantizedFactor
  <2>3. scale \in Scales
    BY <1>0, <2>1 DEF TypeOK, FactorAccepted
  <2>4. TypeOK'
    BY <1>0, <2>1, <2>2, <2>3 DEF TypeOK
  <2>5. WholeWordsApart'
    BY <1>0, <2>1 DEF WholeWordsApart
  <2>6. FactorAccepted' /\ RoundsHalfUp'
    BY <2>1, <2>2, <2>3 DEF FactorAccepted, RoundsHalfUp
  <2>7. QED
    BY <2>4, <2>5, <2>6 DEF IInv
<1>2. ASSUME NEW a \in Inputs, NEW b \in Inputs, Accumulate(a, b)
      PROVE  IInv'
  <2>1. /\ phase = "accumulate" /\ count < MaxProducts /\ acc' = Wrap(acc + a * b) /\ sum' = sum + a * b
        /\ count' = count + 1 /\ UNCHANGED <<phase, scale, factor, out>>
    BY <1>2 DEF Accumulate
  <2>2. a * b \in Int
    <3>1. a \in Int /\ b \in Int
      BY InputsAssumption, Sizes
    <3>2. QED
      BY <3>1, Z3
  <2>3. acc \in Int /\ sum \in Int /\ Word \in Nat
    BY <1>0, Sizes DEF TypeOK
  <2> DEFINE ab == a * b
  <2> HIDE DEF ab
  <2>4. ab \in Int /\ acc' = Wrap(acc + ab) /\ sum' = sum + ab
    BY <2>1, <2>2 DEF ab
  <2>5. acc + ab \in Int
    BY <2>3, <2>4
  <2>6. acc' \in Signed(acc_digits)
    BY <2>4, <2>5, WrapMovesByWords
  <2>7. PICK k \in Int : (acc + ab) - Wrap(acc + ab) = k * Word
    BY <2>5, WrapMovesByWords
  <2>8. PICK j \in Int : sum - acc = j * Word
    BY <1>0, <2>1 DEF WholeWordsApart
  <2>9. WholeWordsApart'
    <3>1. k * Word \in Int /\ j * Word \in Int /\ (j + k) * Word = j * Word + k * Word
      BY <2>3, Z3
    <3>2. acc' \in Int
      BY <2>6, Sizes
    <3>3. sum' - acc' = (j + k) * Word
      BY <2>3, <2>4, <2>7, <2>8, <3>1, <3>2
    <3>4. QED
      BY <3>3 DEF WholeWordsApart, Word, P
  <2>10. TypeOK'
    <3>1. sum' \in Int
      BY <2>3, <2>4
    <3>2. count' \in 0 .. MaxProducts
      BY <1>0, <2>1, InputsAssumption DEF TypeOK
    <3>3. QED
      BY <1>0, <2>1, <2>6, <3>1, <3>2 DEF TypeOK
  <2>11. FactorAccepted' /\ RoundsHalfUp'
    BY <1>0, <2>1 DEF FactorAccepted, RoundsHalfUp
  <2>12. QED
    BY <2>9, <2>10, <2>11 DEF IInv
<1>3. CASE Drain
  <2>1. /\ phase = "accumulate" /\ check_drain(factor) /\ out' = Scaled(acc, factor) /\ acc' = 0
        /\ phase' = "scaled" /\ UNCHANGED <<scale, factor, count, sum>>
    BY <1>3 DEF Drain
  <2>2. factor \in [mult : Signed(acc_digits), shift : Nat] /\ acc \in Signed(acc_digits)
    BY <1>0, PowersAssumption DEF TypeOK
  <2>3. Scaled(acc, factor) \in Signed(input_digits) /\ Rounded(acc, factor, Scaled(acc, factor))
    BY <2>1, <2>2, ScaleRounds
  <2>4. TypeOK'
    <3>1. 0 \in Signed(acc_digits)
      BY Sizes
    <3>2. QED
      BY <1>0, <2>1, <2>3, <3>1 DEF TypeOK
  <2>5. WholeWordsApart' /\ FactorAccepted'
    BY <1>0, <2>1 DEF WholeWordsApart, FactorAccepted
  <2>6. RoundsHalfUp'
    <3>1. ASSUME sum \in Signed(acc_digits) PROVE Rounded(sum, factor, out')
      <4>1. PICK k \in Int : sum - acc = k * Word
        BY <1>0, <2>1 DEF WholeWordsApart
      <4>2. sum = acc
        BY <2>2, <3>1, <4>1, OneCandidate
      <4>3. QED
        BY <2>1, <2>3, <4>2
    <3>2. QED
      BY <2>1, <3>1, Zenon DEF RoundsHalfUp, Rounded
  <2>7. QED
    BY <2>4, <2>5, <2>6 DEF IInv
<1>4. CASE UNCHANGED vars
  BY <1>0, <1>4 DEF vars, IInv, TypeOK, WholeWordsApart, FactorAccepted, RoundsHalfUp
<1>5. QED
  BY <1>1, <1>2, <1>3, <1>4 DEF Next

LEMMA Inductive == Spec => []IInv
  BY InitIInv, NextIInv, PTL DEF Spec

(* Every word keeps its width: the accumulator, the factor and the stored  *)
(* element.                                                                *)
THEOREM TypeCorrect == Spec => []TypeOK
<1>1. IInv => TypeOK
  BY DEF IInv
<1>2. QED
  BY <1>1, Inductive, PTL

(* The accumulator is the sum whenever the sum fits, however far it left   *)
(* accType on the way (pe_array_logic.cpp, shift_in adds unsigned).        *)
THEOREM WrappingIsHarmless == Spec => []AccumulatorWraps
<1>1. IInv => AccumulatorWraps
  <2> SUFFICES ASSUME IInv, phase # "scaled"
               PROVE  /\ sum \in Signed(acc_digits) => acc = sum
                      /\ (sum - acc) % (2 * 2 ^ acc_digits) = 0
    BY DEF AccumulatorWraps
  <2>1. PICK k \in Int : sum - acc = k * Word
    BY DEF IInv, WholeWordsApart
  <2>2. acc \in Signed(acc_digits)
    BY DEF IInv, TypeOK
  <2>3. sum \in Signed(acc_digits) => acc = sum
    BY <2>1, <2>2, OneCandidate
  <2>4. (sum - acc) % Word = 0
    BY <2>1, WholeWords
  <2>5. QED
    BY <2>3, <2>4 DEF Word, P
<1>2. QED
  BY <1>1, Inductive, PTL

(* The 64-bit product and its rounding constant never overflow             *)
(* (scaler_logic.cpp, scale), given what check_drain refuses.              *)
THEOREM NeverOverflows == Spec => []ProductFits
<1>1. IInv => ProductFits
  <2> SUFFICES ASSUME IInv, check_drain(factor)
               PROVE  /\ acc * factor.mult \in Signed(2 * acc_digits + 1)
                      /\ total_shift(factor) - 1 < 2 * acc_digits + 1
                      /\ Shifted(acc, factor) \in Signed(2 * acc_digits + 1)
    BY DEF ProductFits
  <2>1. factor \in [mult : Signed(acc_digits), shift : Nat] /\ acc \in Signed(acc_digits)
    BY PowersAssumption DEF IInv, TypeOK
  <2>2. QED
    BY <2>1, NoOverflow
<1>2. QED
  BY <1>1, Inductive, PTL

(* The element stored is the scaled sum rounded half up, saturated at the  *)
(* ends of inputType (scaler_logic.cpp, scale).                            *)
THEOREM StoredIsRounded == Spec => []RoundsHalfUp
<1>1. IInv => RoundsHalfUp
  BY DEF IInv
<1>2. QED
  BY <1>1, Inductive, PTL

(* What quantize_scale returns, its assertion passed, check_drain accepts. *)
THEOREM QuantizedPasses == Spec => []QuantizedIsAccepted
<1>1. IInv => QuantizedIsAccepted
  BY DEF IInv, FactorAccepted, QuantizedIsAccepted
<1>2. QED
  BY <1>1, Inductive, PTL
-----------------------------------------------------------------------------
(* The scale that was wanted *)

(* A positive factor can be cancelled. *)
LEMMA Cancel ==
  ASSUME NEW n \in Nat \ {0}, NEW x \in Int, NEW y \in Int, x * n <= y * n
  PROVE  x <= y
<1> SUFFICES ASSUME y + 1 <= x PROVE FALSE
  OBVIOUS
<1>1. (y + 1) * n <= x * n
  BY ProductOrder
<1>2. (y + 1) * n = y * n + n /\ y * n \in Int /\ x * n \in Int
  BY Z3
<1>3. QED
  BY <1>1, <1>2

(* The multiplier m is the scale N/D in units of 1/P: the nearest, or one  *)
(* less when the nearest is P itself.                                      *)
Nearest(m, N, D) ==
  \/ -D <= 2 * (m * D - N * P) /\ 2 * (m * D - N * P) <= D
  \/ m = P - 1 /\ 2 * (D * P) - D <= 2 * (N * P)

(* Rounding the multiplier and rounding the product together move the      *)
(* result by no more than a unit, E being what the exponent divides by.    *)
LEMMA OneAway ==
  ASSUME NEW N \in Nat, NEW D \in Nat, N < D, NEW E \in Nat \ {0},
         NEW m \in Int, Nearest(m, N, D), NEW v \in -P .. P, NEW x \in Int,
         2 * (v * m) <= (2 * x + 1) * (P * E)
  PROVE  v * N <= (x + 1) * (D * E)
<1>1. P \in Nat /\ P >= 2 /\ v \in Int /\ D > 0
  BY Sizes
<1> DEFINE vm == v * m
           vN == v * N
           PE == P * E
           DE == D * E
           y  == 2 * x + 1
<1>2. /\ vm \in Int /\ vN \in Int /\ PE \in Nat \ {0} /\ DE \in Nat \ {0} /\ y \in Int
      /\ D <= DE /\ 2 * vm <= y * PE
  <2>1. 1 * D <= E * D
    BY <1>1, ProductOrder
  <2>2. vm \in Int /\ vN \in Int /\ PE \in Nat \ {0} /\ DE \in Nat \ {0} /\ E * D = DE /\ 1 * D = D
    BY <1>1, Z3
  <2>3. QED
    BY <2>1, <2>2
<1>3. SUFFICES 2 * vN <= (y + 1) * DE
  <2>1. (y + 1) * DE = 2 * ((x + 1) * DE) /\ (x + 1) * DE \in Int
    BY <1>2, Z3
  <2>2. 2 * vN <= (y + 1) * DE => vN <= (x + 1) * DE
    <3> HIDE DEF vN, DE
    <3> QED
      BY <1>2, <2>1
  <2>3. QED
    BY <1>3, <2>2
<1>4. (y + 1) * DE = y * DE + DE /\ y * DE \in Int
  BY <1>2, Z3
<1>5. CASE -D <= 2 * (m * D - N * P) /\ 2 * (m * D - N * P) <= D
  <2> DEFINE t == m * D - N * P
  <2>1. t \in Int /\ -D <= 2 * t /\ 2 * t <= D
    <3>1. m * D \in Int /\ N * P \in Int
      BY <1>1, Z3
    <3>2. QED
      BY <1>5, <3>1
  <2>2. v * t = vm * D - vN * P /\ v * t \in Int /\ vm * D \in Int /\ vN * P \in Int
    BY <1>1, Z3
  <2> HIDE DEF t
  <2>3. 2 * (v * t) >= -(P * D) /\ P * D \in Int
    <3>1. CASE v >= 0
      <4>1. (-D) * v <= (2 * t) * v /\ v * D <= P * D
        BY <1>1, <2>1, <3>1, ProductOrder
      <4>2. (-D) * v = -(v * D) /\ (2 * t) * v = 2 * (v * t) /\ v * D \in Int /\ P * D \in Int
        BY <1>1, <2>1, Z3
      <4>3. QED
        BY <2>2, <4>1, <4>2
    <3>2. CASE v < 0
      <4>1. (2 * t) * (-v) <= D * (-v) /\ (-v) * D <= P * D
        BY <1>1, <2>1, <3>2, ProductOrder
      <4>2. (2 * t) * (-v) = -(2 * (v * t)) /\ D * (-v) = (-v) * D /\ (-v) * D \in Int /\ P * D \in Int
        BY <1>1, <2>1, Z3
      <4>3. QED
        BY <2>2, <4>1, <4>2
    <3>3. QED
      BY <1>1, <3>1, <3>2
  <2>4. (2 * vm) * D <= (y * PE) * D
    <3> HIDE DEF vm, y, PE
    <3>1. y * PE \in Int /\ 2 * vm \in Int
      BY <1>2, Z3
    <3>2. QED
      BY <1>2, <3>1, ProductOrder
  <2>5. (2 * vm) * D = 2 * (vm * D) /\ (y * PE) * D = (y * DE) * P /\ (y * DE) * P \in Int
    BY <1>1, <1>2, Z3
  <2>6. 2 * (vN * P) <= (y * DE) * P + P * D
    <3> HIDE DEF vN, vm
    <3> QED
      BY <2>2, <2>3, <2>4, <2>5
  <2>7. 2 * (vN * P) = (2 * vN) * P /\ (y * DE) * P + P * D = (y * DE + D) * P
        /\ 2 * vN \in Int /\ y * DE + D \in Int
    <3> HIDE DEF vN, DE, y
    <3> QED
      BY <1>1, <1>2, <1>4, Z3
  <2>8. 2 * vN <= y * DE + D
    BY <1>1, <2>6, <2>7, Cancel
  <2>9. QED
    <3> HIDE DEF vN, DE, y
    <3> QED
      BY <1>2, <1>4, <2>7, <2>8
<1>6. CASE m = P - 1 /\ 2 * (D * P) - D <= 2 * (N * P)
  <2>1. vm = v * P - v /\ v * P \in Int
    BY <1>1, <1>6, Z3
  <2>2. CASE v >= 0
    <3>1. vN <= v * D /\ v * D \in Int
      <4>1. N * v <= D * v
        BY <1>1, <2>2, ProductOrder
      <4>2. N * v = v * N /\ D * v = v * D /\ v * D \in Int
        BY <1>1, Z3
      <4>3. QED
        BY <4>1, <4>2
    <3>2. 2 * v <= y * E + 2 /\ y * E \in Int
      <4>1. (2 * v) * P <= (y * E + 2) * P
        <5>1. (2 * v) * P = 2 * (v * P) /\ (y * E + 2) * P = y * PE + 2 * P /\ y * PE \in Int
          BY <1>1, <1>2, Z3
        <5> HIDE DEF PE, y, vm
        <5>2. QED
          BY <1>1, <1>2, <2>1, <5>1
      <4>2. 2 * v \in Int /\ y * E + 2 \in Int /\ y * E \in Int
        BY <1>1, <1>2, Z3
      <4>3. QED
        BY <1>1, <4>1, <4>2, Cancel
    <3>3. 2 * v <= (y + 1) * E
      <4>1. CASE E = 1
        BY <1>1, <3>2, <4>1
      <4>2. CASE E >= 2
        <5>1. (y + 1) * E = y * E + E
          BY <1>2, Z3
        <5>2. QED
          BY <1>1, <3>2, <4>2, <5>1
      <4>3. QED
        BY <4>1, <4>2
    <3>4. (2 * v) * D <= ((y + 1) * E) * D
      <4>1. (y + 1) * E \in Int /\ 2 * v \in Int
        BY <1>1, <1>2, Z3
      <4>2. QED
        BY <3>3, <4>1, ProductOrder
    <3>5. (2 * v) * D = 2 * (v * D) /\ ((y + 1) * E) * D = (y + 1) * DE
      BY <1>1, <1>2, Z3
    <3>6. QED
      <4> HIDE DEF vN, DE, y
      <4> QED
        BY <1>2, <1>4, <3>1, <3>4, <3>5
  <2>3. CASE v < 0
    <3> DEFINE w == -v
    <3>1. w \in Nat \ {0} /\ v = -w
      BY <1>1, <2>3
    <3> HIDE DEF w
    <3>2. (2 * (D * P) - D) * w <= (2 * (N * P)) * w
      <4>1. 2 * (D * P) - D \in Int /\ 2 * (N * P) \in Int
        BY <1>1, Z3
      <4>2. QED
        BY <1>6, <3>1, <4>1, ProductOrder
    <3>3. /\ (2 * (D * P) - D) * w = -((2 * (v * P)) * D) - w * D
          /\ (2 * (N * P)) * w = -((2 * vN) * P)
          /\ (2 * (v * P)) * D \in Int /\ w * D \in Int /\ (2 * vN) * P \in Int
      BY <1>1, <3>1, Z3
    <3>4. (2 * (v * P)) * D <= (y * PE + 2 * v) * D
      <4>1. y * PE \in Int
        BY <1>2, Z3
      <4> HIDE DEF PE, y, vm
      <4>2. 2 * (v * P) <= y * PE + 2 * v /\ 2 * (v * P) \in Int /\ y * PE + 2 * v \in Int
        BY <1>1, <1>2, <2>1, <4>1
      <4>3. QED
        BY <4>2, ProductOrder
    <3>5. (y * PE + 2 * v) * D = (y * DE) * P - 2 * (w * D) /\ (y * DE) * P \in Int
      BY <1>1, <1>2, <3>1, Z3
    <3>6. w * D >= 0
      BY <3>1, Z3
    <3>7. (2 * vN) * P <= (y * DE) * P
      <4> HIDE DEF vN, DE, y
      <4> QED
        BY <3>2, <3>3, <3>4, <3>5, <3>6
    <3>8. 2 * vN <= y * DE
      <4>1. 2 * vN \in Int
        BY <1>2
      <4>2. QED
        BY <1>1, <1>4, <3>7, <4>1, Cancel
    <3>9. QED
      <4> HIDE DEF vN, DE, y
      <4> QED
        BY <1>2, <1>4, <3>8
  <2>4. QED
    BY <1>1, <2>2, <2>3
<1>7. QED
  BY <1>5, <1>6 DEF Nearest

(* quantize_scale chooses such a multiplier. *)
LEMMA QuantizedIsNearest ==
  ASSUME NEW sc \in Scales
  PROVE  Nearest(multiplier(sc), sc.num, sc.den)
<1> DEFINE N   == sc.num
           D   == sc.den
           den == 2 * D
           x   == 2 * N * P + D
           q   == x \div den
           r   == x % den
<1>1. N \in Nat /\ D \in Nat \ {0} /\ den \in Nat \ {0} /\ P \in Nat /\ P >= 2
  BY ScalesAssumption, Sizes
<1>2. x = 2 * (N * P) + D /\ N * P \in Nat
  BY <1>1, Z3
<1>3. q \in Int /\ r \in 0 .. den - 1 /\ x = den * q + r
  <2>1. x \in Int
    BY <1>1, <1>2
  <2> HIDE DEF x, den
  <2>2. QED
    BY <1>1, <2>1, Division
<1>4. multiplier(sc) = IF q < P THEN q ELSE P - 1
  BY DEF multiplier, P
<1> HIDE DEF x, q, r
<1>5. den * q = 2 * (q * D) /\ q * D \in Int
  BY <1>1, <1>3, Z3
<1>6. CASE q < P
  <2>1. 2 * (q * D - N * P) = D - r
    BY <1>1, <1>2, <1>3, <1>5
  <2>2. QED
    BY <1>1, <1>3, <1>4, <1>6, <2>1 DEF Nearest
<1>7. CASE q >= P
  <2>1. P * D <= q * D /\ P * D = D * P /\ D * P \in Int
    <3>1. P * D <= q * D
      BY <1>1, <1>3, <1>7, ProductOrder
    <3>2. P * D = D * P /\ D * P \in Int
      BY <1>1, Z3
    <3>3. QED
      BY <3>1, <3>2
  <2>2. 2 * (D * P) - D <= 2 * (N * P)
    BY <1>1, <1>2, <1>3, <1>5, <2>1
  <2>3. multiplier(sc) = P - 1
    BY <1>1, <1>3, <1>4, <1>7
  <2>4. QED
    BY <2>2, <2>3 DEF Nearest
<1>8. QED
  BY <1>1, <1>3, <1>6, <1>7

(* The exponents of the program's scales do not wrap the byte in which     *)
(* quantize_scale counts the doublings: no scale is below 2^-256.          *)
CountFits == \A s \in Scales : s.exp < 2 ^ shift_bits

(* From the first step on the factor is the one quantize_scale returned. *)
FactorQuantized ==
  phase # "quantize" /\ scale # NoScale =>
    factor = quantize_scale(scale) /\ ShiftFits(factor)

LEMMA FactorStays == Spec => []FactorQuantized
<1>1. Init => FactorQuantized
  BY DEF Init, FactorQuantized
<1>2. FactorQuantized /\ [Next]_vars => FactorQuantized'
  BY DEF FactorQuantized, Next, Quantize, Accumulate, Drain, vars
<1>3. QED
  BY <1>1, <1>2, PTL DEF Spec

(* The element stored is at most one away from the real product of sum and *)
(* scale, clamped to inputType, for words of every width and every scale   *)
(* whose exponent the byte can count (common.h, quantize_scale;            *)
(* scaler_logic.cpp, scale).                                               *)
THEOREM StoredIsNearReal == ASSUME CountFits PROVE Spec => []NearRealScale
<1>1. IInv /\ FactorQuantized => NearRealScale
  <2> SUFFICES ASSUME IInv, FactorQuantized,
                      phase = "scaled", scale # NoScale, sum \in Signed(acc_digits)
               PROVE  LET den == scale.den * 2 ^ scale.exp
                          num == sum * scale.num
                          lo  == -(2 ^ input_digits) * den
                          hi  == (2 ^ input_digits - 1) * den
                          clamped == IF num < lo THEN lo ELSE IF num > hi THEN hi ELSE num
                      IN  out * den - clamped \in -den .. den
    BY Zenon DEF NearRealScale
  <2> DEFINE N == scale.num
             D == scale.den
             E == 2 ^ scale.exp
             m == multiplier(scale)
  <2>1. scale \in Scales /\ out \in Signed(input_digits)
    BY DEF IInv, TypeOK
  <2>2. N \in Nat /\ D \in Nat /\ N < D /\ scale.exp \in Nat
    BY <2>1, ScalesAssumption
  <2>3. factor.mult = m /\ factor.shift = scale.exp /\ scale.exp \in 0 .. acc_digits
    <3>1. factor = quantize_scale(scale) /\ ShiftFits(factor)
      BY DEF FactorQuantized
    <3>2. factor.mult = m /\ factor.shift = scale.exp % (2 ^ shift_bits)
      BY <3>1 DEF quantize_scale
    <3>3. scale.exp % (2 ^ shift_bits) = scale.exp
      <4> DEFINE b == 2 ^ shift_bits
      <4>1. b \in Nat \ {0} /\ scale.exp < b
        BY <2>1, PowersAssumption DEF CountFits
      <4> HIDE DEF b
      <4>2. scale.exp % b = scale.exp
        BY <2>2, <4>1
      <4>3. QED
        BY <4>2 DEF b
    <3>4. QED
      BY <2>2, <3>1, <3>2, <3>3 DEF ShiftFits
  <2>4. E \in Nat \ {0} /\ 2 ^ total_shift(factor) = P * E
    <3>1. acc_digits \in 0 .. acc_digits + 1 /\ scale.exp \in 0 .. acc_digits + 1
      BY <2>3, DigitsAssumption
    <3>2. 2 ^ (acc_digits + scale.exp) = 2 ^ acc_digits * 2 ^ scale.exp /\ 2 ^ scale.exp \in Nat \ {0}
      BY <3>1, PowersAssumption, Zenon
    <3>3. QED
      BY <2>3, <3>2, Zenon DEF total_shift, P
  <2>5. Nearest(m, N, D) /\ m \in Int
    <3>1. Nearest(m, N, D)
      BY <2>1, QuantizedIsNearest
    <3>2. factor.mult \in Int
      BY Sizes DEF IInv, TypeOK
    <3>3. QED
      BY <2>3, <3>1, <3>2
  <2>6. P \in Nat /\ I \in Nat \ {0} /\ sum \in -P .. P - 1 /\ out \in -I .. I - 1
    BY <2>1, Sizes
  <2> DEFINE PE  == P * E
             vm  == sum * m
             vN  == sum * N
             DE  == D * E
  <2>7. \/ (2 * out - 1) * PE <= 2 * vm /\ 2 * vm < (2 * out + 1) * PE
        \/ out = I - 1 /\ 2 * vm >= (2 * out + 1) * PE
        \/ out = -I /\ 2 * vm < (2 * out - 1) * PE
    <3>1. RoundsHalfUp
      BY DEF IInv
    <3>2. Rounded(sum, factor, out)
      BY <3>1, Zenon DEF RoundsHalfUp, Rounded
    <3>3. QED
      BY <2>3, <2>4, <3>2, Zenon DEF Rounded, I
  <2> HIDE DEF N, D, E, m
  <2>8. /\ PE \in Nat \ {0} /\ vm \in Int /\ vN \in Int /\ DE \in Nat
        /\ (2 * out - 1) * PE \in Int
        /\ (2 * out + 1) * PE = (2 * out - 1) * PE + 2 * PE
    BY <2>2, <2>4, <2>5, <2>6, Sizes, Z3
  <2>9. ASSUME 2 * vm <= (2 * out + 1) * PE
        PROVE  vN <= (out + 1) * DE
    <3>1. sum \in -P .. P /\ out \in Int
      BY <2>6
    <3>2. QED
      BY <2>2, <2>4, <2>5, <2>9, <3>1, OneAway
  <2>10. ASSUME (2 * out - 1) * PE <= 2 * vm
         PROVE  (out - 1) * DE <= vN
    <3> DEFINE v == -sum
               x == -out
    <3>1. v \in -P .. P /\ x \in Int
      BY <2>6
    <3>2. v * m = -vm /\ (2 * x + 1) * PE = -((2 * out - 1) * PE)
          /\ v * N = -vN /\ (x + 1) * DE = -((out - 1) * DE) /\ (out - 1) * DE \in Int
      BY <2>2, <2>4, <2>5, <2>6, <2>8, Z3
    <3> HIDE DEF v, x
    <3>3. 2 * (v * m) <= (2 * x + 1) * PE
      <4> HIDE DEF vm, PE
      <4> QED
        BY <2>8, <2>10, <3>2
    <3>4. v * N <= (x + 1) * DE
      BY <2>2, <2>4, <2>5, <3>1, <3>3, OneAway
    <3>5. QED
      <4> HIDE DEF vN, DE
      <4> QED
        BY <2>8, <3>2, <3>4
  <2> DEFINE lo == -(I * DE)
             hi == (I - 1) * DE
             oDE == out * DE
             clamped == IF vN < lo THEN lo ELSE IF vN > hi THEN hi ELSE vN
  <2>11. /\ lo \in Int /\ hi \in Int /\ oDE \in Int /\ lo <= oDE /\ oDE <= hi
         /\ (out + 1) * DE = oDE + DE /\ (out - 1) * DE = oDE - DE
    <3>1. (-I) * DE <= oDE /\ oDE <= hi
      BY <2>6, <2>8, ProductOrder
    <3>2. /\ lo = (-I) * DE /\ lo \in Int /\ hi \in Int /\ oDE \in Int
          /\ (out + 1) * DE = oDE + DE /\ (out - 1) * DE = oDE - DE
      BY <2>6, <2>8, Z3
    <3>3. QED
      BY <3>1, <3>2
  <2>12. oDE - clamped \in -DE .. DE
    <3>1. out = I - 1 => oDE = hi
      OBVIOUS
    <3>2. out = -I => oDE = lo
      BY <2>6, <2>8, Z3
    <3> HIDE DEF vN, DE, PE, vm, oDE, lo, hi
    <3>3. CASE (2 * out - 1) * PE <= 2 * vm /\ 2 * vm < (2 * out + 1) * PE
      BY <2>8, <2>9, <2>10, <2>11, <3>3
    <3>4. CASE out = I - 1 /\ 2 * vm >= (2 * out + 1) * PE
      BY <2>8, <2>10, <2>11, <3>1, <3>4
    <3>5. CASE out = -I /\ 2 * vm < (2 * out - 1) * PE
      BY <2>8, <2>9, <2>11, <3>2, <3>5
    <3>6. QED
      BY <2>7, <3>3, <3>4, <3>5
  <2>13. QED
    BY <2>12, Zenon DEF N, D, E, I
<1>2. QED
  BY <1>1, Inductive, FactorStays, PTL
=============================================================================
