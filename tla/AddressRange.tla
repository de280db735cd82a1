---------------------------- MODULE AddressRange ----------------------------
(***************************************************************************)
(* How the scoreboard compares the operands of two instructions            *)
(* (testbench/helper/scoreboard.h), and which operands reach it            *)
(* (the checks of TopModule, src/module/top_module.cpp).                   *)
(*                                                                         *)
(* Every operand is a range of row addresses lo, lo + stride, ... in one   *)
(* pseudo address space: scratchpad rows keep their flat address, DRAM     *)
(* addresses are offset by kDramBase, psum buffers and the array come      *)
(* last.  The state is a pair of operands; each step issues another.       *)
(*                                                                         *)
(* The checks compute with 64 bit words.  Ranges and their comparison use  *)
(* natural numbers, which agree with the words as long as a tile does not  *)
(* reach the end of the address space.                                     *)
(***************************************************************************)
EXTENDS SpadAddr

CONSTANTS
  kDramBase, kArray,    \* bases of the pseudo address space
  WORD,                 \* 2^64, where uint64_t and size_t wrap around
  DRAM_SIZE,            \* dram_store_size, in bytes
  BYTES_PER_BANK_ROW,
  Strides,              \* strides the instructions use
  RowCounts             \* dims.rows the instructions use

ASSUME SizeAssumption ==
  DRAM_SIZE \in Nat /\ BYTES_PER_BANK_ROW \in Nat \ {0} /\ WORD \in Nat \ {0}
ASSUME OperandAssumption == Strides \subseteq Nat /\ RowCounts \subseteq Nat

SPAD_SIZE == N_BANKS * N_ROWS_PER_BANK

kPsum == kArray - 2

(* 2^40 is beyond the scratchpad and the DRAM ends before kPsum. *)
ASSUME BaseAssumption ==
  /\ kDramBase \in Nat /\ kArray \in Nat
  /\ SPAD_SIZE <= kDramBase /\ kDramBase + DRAM_SIZE <= kPsum

Range == [lo : Nat, stride : Nat \ {0}, count : Nat]

spad(spad_addr, spad_stride, rows) ==
  [lo |-> spad_addr, stride |-> spad_stride, count |-> rows]

dram(dram_addr, dram_stride, rows) ==
  [lo |-> kDramBase + dram_addr, stride |-> dram_stride, count |-> rows]

psum(psum_index) == [lo |-> kPsum + psum_index, stride |-> 1, count |-> 1]

array == [lo |-> kArray, stride |-> 1, count |-> 1]

(* Mutant: the count is compared with <=. *)
contains_OffByOne(r, x) ==
  /\ x >= r.lo
  /\ (x - r.lo) % r.stride = 0
  /\ (x - r.lo) \div r.stride <= r.count

contains(r, x) ==
  /\ x >= r.lo
  /\ (x - r.lo) % r.stride = 0
  /\ (x - r.lo) \div r.stride < r.count

(* Mutant: only the first row of the shorter range is looked up. *)
overlap_FirstRow(a, b) ==
  LET few  == IF a.count <= b.count THEN a ELSE b
      many == IF a.count <= b.count THEN b ELSE a
  IN  few.count > 0 /\ contains(many, few.lo)

overlap(a, b) ==
  LET few  == IF a.count <= b.count THEN a ELSE b
      many == IF a.count <= b.count THEN b ELSE a
  IN  \E i \in 0 .. few.count - 1 : contains(many, few.lo + i * few.stride)

VARIABLES earlier, later   \* operands of two instructions, with their kind
operands == <<earlier, later>>

(* check_dram_range on the span of a tile, in check_mvin and check_mvout.  *)
(* An address or a stride that is not a multiple of the row size is only   *)
(* warned about.                                                           *)
AcceptsDram(dram_addr, dram_stride, rows) ==
  LET dram_span == ((rows - 1) * dram_stride + BYTES_PER_BANK_ROW) % WORD
  IN  /\ rows > 0 /\ dram_stride > 0
      /\ dram_span <= DRAM_SIZE /\ dram_addr <= DRAM_SIZE - dram_span

(* Mutant: the last row may be one beyond the scratchpad. *)
AcceptsSpad_OffByOne(spad_addr, spad_stride, rows) ==
  /\ rows > 0 /\ spad_stride > 0
  /\ (spad_addr + (rows - 1) * spad_stride) % WORD <= SPAD_SIZE

(* check_spad_addr_range; a SpadAddr is always in the scratchpad itself *)
AcceptsSpad(spad_addr, spad_stride, rows) ==
  /\ rows > 0 /\ spad_stride > 0
  /\ (spad_addr + (rows - 1) * spad_stride) % WORD < SPAD_SIZE

DramTiles == (0 .. DRAM_SIZE) \X Strides \X RowCounts
SpadTiles == FlatAddrs \X Strides \X RowCounts

Operands ==
  {[place |-> "dram", addr |-> t[1], range |-> dram(t[1], t[2], t[3])] :
     t \in {u \in DramTiles : AcceptsDram(u[1], u[2], u[3])}}
  \cup
  {[place |-> "spad", addr |-> t[1], range |-> spad(t[1], t[2], t[3])] :
     t \in {u \in SpadTiles : AcceptsSpad(u[1], u[2], u[3])}}
  \cup {[place |-> "psum", addr |-> i, range |-> psum(i)] : i \in {0, 1}}
  \cup {[place |-> "array", addr |-> 0, range |-> array]}

OperandInit ==
  /\ earlier = [place |-> "array", addr |-> 0, range |-> array]
  /\ later \in Operands

(* The next instruction's operand is compared with the last one's. *)
IssueOperand ==
  /\ earlier.place = "array"
  /\ earlier' \in Operands
  /\ UNCHANGED later

OperandSpec == OperandInit /\ [][IssueOperand]_operands
-----------------------------------------------------------------------------
(* The rows a range stands for *)
Rows(r) == {r.lo + i * r.stride : i \in 0 .. r.count - 1}

(* overlap, which looks only the shorter range's rows up in the longer one *)
(* by division, finds a row of both exactly if there is one; operands of   *)
(* different places never overlap.                                         *)
OverlapExact ==
  /\ overlap(earlier.range, later.range) <=>
       Rows(earlier.range) \cap Rows(later.range) # {}
  /\ earlier.place # later.place => ~ overlap(earlier.range, later.range)

(* The bytes a DRAM operand stands for: every row is BYTES_PER_BANK_ROW    *)
(* wide, whatever its address and stride.                                  *)
Bytes(r) == UNION {x .. x + BYTES_PER_BANK_ROW - 1 : x \in Rows(r)}

(* A tile that TopModule accepts lies inside DRAM or the scratchpad, so    *)
(* the rows the controllers reach, whose addresses drop what does not fit  *)
(* their bit fields, are the rows that the scoreboard recorded for it.     *)
AcceptedRowsReached ==
  /\ later.place = "dram" =>
       Bytes(later.range) \subseteq kDramBase .. kDramBase + DRAM_SIZE - 1
  /\ later.place = "spad" =>
       \A i \in 0 .. later.range.count - 1 :
         LET row == later.range.lo + i * later.range.stride
         IN  row \in FlatAddrs /\ FlatPlus(later.addr, i * later.range.stride) = row

Aligned(o) ==
  /\ o.addr % BYTES_PER_BANK_ROW = 0
  /\ o.range.stride % BYTES_PER_BANK_ROW = 0

ShareBytes(o, p) ==
  /\ o.place = "dram" /\ p.place = "dram"
  /\ Bytes(o.range) \cap Bytes(p.range) # {}

(* Two DRAM operands whose address and stride are multiples of the row     *)
(* size and that share a byte are found to overlap.                        *)
AlignedConflictsSeen ==
  Aligned(earlier) /\ Aligned(later) /\ ShareBytes(earlier, later) =>
    overlap(earlier.range, later.range)

(* What the scoreboard's comment promises (scoreboard.h:15): no            *)
(* instruction that TopModule accepts is dispatched while an earlier one   *)
(* still conflicts with it.                                                *)
EveryConflictSeen ==
  ShareBytes(earlier, later) => overlap(earlier.range, later.range)
=============================================================================
