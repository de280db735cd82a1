----------------------------- MODULE TiledGemm -----------------------------
(***************************************************************************)
(* The product C[M][N] = A[M][K] x B[K][N] as the schedulers compute it    *)
(* tile by tile: matrices padded to tiles and laid out in DRAM             *)
(* (testbench/helper/common.h), the banks and addresses of tiles           *)
(* (scheduler_base.h) and the loop over tiles that schedulers A and B      *)
(* share (testbench/scheduling/scheduler_a.h, scheduler_b.h).  The machine *)
(* completes each instruction before it begins the next, as scheduler A    *)
(* has it.                                                                 *)
(*                                                                         *)
(* Memories hold elements by name; an accumulator holds the bag of the     *)
(* products added to it, and the element of C drained from it is that bag: *)
(* scaling is in module Scaling.                                           *)
(***************************************************************************)
EXTENDS SpadAllocator, Integers, Bags, SequencesExt

CONSTANTS
  Sizes,     \* [M, K, N] of the products that are tried
  Layouts    \* values of DramLayout that are tried

ASSUME LayoutAssumption == Layouts \subseteq {"RowMajor", "TileMajor"}
ASSUME SizesAssumption ==
  Sizes \subseteq [M : Nat \ {0}, K : Nat \ {0}, N : Nat \ {0}]

(* static_assert of scheduler_base.h *)
ASSUME EvenBanksAssumption == N_BANKS % 2 = 0 /\ N_BANKS >= 2

VARIABLES
  size, layout,   \* of this product
  step,           \* run_thread's: "AT", "B", "schedule" or "done"
  iteration,      \* of the innermost loop, counted from 0
  todo,           \* the iteration's instructions that are not complete
  alloc,          \* the tile allocator
  psum_index,
  dram, spad, psum,
  in_array,       \* products of the last gemm, not yet in psum
  C_hardware      \* what validate_gemm reads

machineVars == <<spad, psum, in_array>>
loopVars    == <<iteration, todo, alloc, psum_index>>
vars == <<size, layout, step, loopVars, dram, machineVars, C_hardware>>

(* Mutant: rows of a tile one bank apart. *)
spad_stride_NextBank == 1

spad_stride == N_BANKS
-----------------------------------------------------------------------------
(* Matrices and their layout *)

pad_to_dim(x) == ((x + DIM - 1) \div DIM) * DIM

PM == pad_to_dim(size.M)
PK == pad_to_dim(size.K)
PN == pad_to_dim(size.N)
MT == PM \div DIM
KT == PK \div DIM
NT == PN \div DIM

(* What a cell of a memory holds: an element of AT or B, a sum, or padding *)
Element(matrix, row, col) == [of |-> matrix, row |-> row, col |-> col, sum |-> EmptyBag]
Sum(bag) == [of |-> "C", row |-> 0, col |-> 0, sum |-> bag]
Padding == Element("zero", 0, 0)

(* A matrix of rows x cols elements with zeros around it *)
Padded(matrix, rows, cols) ==
  [rc \in (0 .. pad_to_dim(rows) - 1) \X (0 .. pad_to_dim(cols) - 1) |->
     IF rc[1] < rows /\ rc[2] < cols THEN Element(matrix, rc[1], rc[2]) ELSE Padding]

AT == Padded("AT", size.K, size.M)
B  == Padded("B", size.K, size.N)

tiled == layout = "TileMajor"

(* The place of an element in dram_initialize's stream *)
LayoutOffset(padded_cols, r, c) ==
  IF tiled
  THEN ((r \div DIM) * (padded_cols \div DIM) + (c \div DIM)) * DIM * DIM
         + (r % DIM) * DIM + (c % DIM)
  ELSE r * padded_cols + c

ElementAt(matrix, padded_cols, offset) ==
  matrix[CHOOSE rc \in DOMAIN matrix : LayoutOffset(padded_cols, rc[1], rc[2]) = offset]

a_base == 0
b_base == a_base + PK * PM
c_base == b_base + PK * PN

(* TopModule::dram_write_bypass and dram_read_bypass *)
dram_write_bypass(base, data) ==
  dram' = [addr \in DOMAIN dram |->
             IF addr - base \in DOMAIN data THEN data[addr - base] ELSE dram[addr]]

dram_read_bypass(base, length) == [offset \in 0 .. length - 1 |-> dram[base + offset]]

(* The stream that dram_initialize writes *)
Stream(matrix, padded_rows, padded_cols) ==
  [offset \in 0 .. padded_rows * padded_cols - 1 |-> ElementAt(matrix, padded_cols, offset)]
-----------------------------------------------------------------------------
(* Banks and DRAM addresses of tiles *)

a_bank(mt, kt) == ((mt * KT + kt) % (N_BANKS \div 2)) * 2
b_bank(kt, nt) == ((kt * NT + nt) % (N_BANKS \div 2)) * 2 + 1
c_bank(mt, nt) == (mt * NT + nt) % N_BANKS

(* Mutant: the tile of A is found as if A were not transposed. *)
a_dram_NotTransposed(mt, kt) ==
  a_base + IF tiled THEN (mt * KT + kt) * DIM * DIM ELSE mt * DIM * PM + kt * DIM

a_dram(mt, kt) ==
  a_base + IF tiled THEN (kt * MT + mt) * DIM * DIM ELSE kt * DIM * PM + mt * DIM
b_dram(kt, nt) ==
  b_base + IF tiled THEN (kt * NT + nt) * DIM * DIM ELSE kt * DIM * PN + nt * DIM
c_dram(mt, nt) == c_base + mt * DIM * PN + nt * DIM

a_dram_stride == IF tiled THEN DIM ELSE PM
b_dram_stride == IF tiled THEN DIM ELSE PN
c_dram_stride == PN
-----------------------------------------------------------------------------
(* The loop over tiles *)

Iterations == MT * NT * KT

mt_of(i) == i \div (NT * KT)
nt_of(i) == (i \div KT) % NT
kt_of(i) == i % KT

Mvin(dram_src, spad_dst, dram_stride) ==
  [op |-> "mvin", dram |-> dram_src, spad |-> spad_dst, stride |-> dram_stride]
Gemm(A_addr, B_addr, p) == [op |-> "gemm", A_addr |-> A_addr, B_addr |-> B_addr, psum |-> p]
Flush(p) == [op |-> "flush", psum |-> p]
Drain(C_addr, p) == [op |-> "drain", C_addr |-> C_addr, psum |-> p]
Mvout(spad_src, dram_dst, dram_stride) ==
  [op |-> "mvout", dram |-> dram_dst, spad |-> spad_src, stride |-> dram_stride]

(* Mutant: the chain is drained without a flush. *)
CloseTile_NoFlush(slot, mt, nt, p) ==
  <<Drain(slot, p), Mvout(slot, c_dram(mt, nt), c_dram_stride)>>

CloseTile(slot, mt, nt, p) ==
  <<Flush(p), Drain(slot, p), Mvout(slot, c_dram(mt, nt), c_dram_stride)>>

(* The tiles that a pass of the loop's body acquires, in order *)
Wanted(i) ==
  LET mt == mt_of(i)
      nt == nt_of(i)
      kt == kt_of(i)
  IN  <<[id |-> <<"a", mt, kt>>, bank |-> a_bank(mt, kt)],
        [id |-> <<"b", kt, nt>>, bank |-> b_bank(kt, nt)]>>
      \o IF kt = KT - 1 THEN <<[id |-> <<"c", mt, nt>>, bank |-> c_bank(mt, nt)]>> ELSE << >>

(* The allocator after the first n of them *)
Acquired(allocator, i, n) ==
  LET After(al, k) == acquire(al, Wanted(i)[k].id, Wanted(i)[k].bank)
      one   == After(allocator, 1)
      two   == After(one, 2)
      three == After(two, 3)
  IN  CASE n = 0 -> allocator [] n = 1 -> one [] n = 2 -> two [] n = 3 -> three

BodyThrows(allocator, i) ==
  \E n \in 1 .. Len(Wanted(i)) :
    Throws(Acquired(allocator, i, n - 1), Wanted(i)[n].id, Wanted(i)[n].bank)

(* The body: what it leaves of [alloc, psum_index] and the instructions it *)
(* issues.  A tile that is resident is not loaded.                         *)
Body(st, i) ==
  LET mt == mt_of(i)
      nt == nt_of(i)
      kt == kt_of(i)
      after(n)   == Acquired(st.alloc, i, n)
      address(n) == after(n).resident[Wanted(i)[n].id]
      hit(n)     == IsResident(after(n - 1), Wanted(i)[n].id)
      is_last    == kt = KT - 1
  IN  [alloc      |-> after(Len(Wanted(i))),
       psum_index |-> IF is_last THEN 1 - st.psum_index ELSE st.psum_index,
       instrs     |->
         (IF hit(1) THEN << >> ELSE <<Mvin(a_dram(mt, kt), address(1), a_dram_stride)>>)
         \o (IF hit(2) THEN << >> ELSE <<Mvin(b_dram(kt, nt), address(2), b_dram_stride)>>)
         \o <<Gemm(address(1), address(2), st.psum_index)>>
         \o (IF is_last THEN CloseTile(address(3), mt, nt, st.psum_index) ELSE << >>)]

(* What scheduler B hands to the scoreboard *)
Program ==
  FoldLeft(LAMBDA st, i : LET next == Body(st, i)
                          IN  [next EXCEPT !.instrs = st.instrs \o @],
           [alloc |-> NewAllocator(spad_stride), psum_index |-> 0, instrs |-> << >>],
           [k \in 1 .. Iterations |-> k - 1]).instrs
-----------------------------------------------------------------------------
(* The machine, an instruction at a time *)

TileIndexes == 0 .. DIM - 1

NoSums == [ij \in TileIndexes \X TileIndexes |-> EmptyBag]

Init ==
  /\ size \in Sizes /\ layout \in Layouts
  /\ step = "AT"
  /\ iteration = 0 /\ todo = << >>
  /\ alloc = NewAllocator(spad_stride)
  /\ psum_index = 0
  /\ dram = [addr \in 0 .. c_base + PM * PN - 1 |-> Padding]
  /\ spad = [row \in FlatAddrs |-> [j \in TileIndexes |-> Padding]]
  /\ psum = [p \in 0 .. 1 |-> NoSums]
  /\ in_array = [psum |-> 0, sums |-> NoSums]
  /\ C_hardware = << >>

(* run_thread writes A, transposed, and B, computes, and reads C. *)
InitializeAT ==
  /\ step = "AT" /\ step' = "B"
  /\ dram_write_bypass(a_base, Stream(AT, PK, PM))
  /\ UNCHANGED <<size, layout, loopVars, machineVars, C_hardware>>

InitializeB ==
  /\ step = "B" /\ step' = "schedule"
  /\ dram_write_bypass(b_base, Stream(B, PK, PN))
  /\ UNCHANGED <<size, layout, loopVars, machineVars, C_hardware>>

ReadC ==
  /\ step = "schedule" /\ iteration = Iterations /\ todo = << >>
  /\ step' = "done"
  /\ C_hardware' = dram_read_bypass(c_base, PM * PN)
  /\ UNCHANGED <<size, layout, loopVars, dram, machineVars>>

Now == Body([alloc |-> alloc, psum_index |-> psum_index], iteration)

NextIteration ==
  /\ step = "schedule" /\ todo = << >> /\ iteration < Iterations
  /\ ~ BodyThrows(alloc, iteration)
  /\ todo' = Now.instrs
  /\ alloc' = Now.alloc /\ psum_index' = Now.psum_index
  /\ iteration' = iteration + 1
  /\ UNCHANGED <<size, layout, step, dram, machineVars, C_hardware>>

Executes(op) ==
  /\ todo # << >> /\ Head(todo).op = op
  /\ todo' = Tail(todo)
  /\ UNCHANGED <<size, layout, step, iteration, alloc, psum_index, C_hardware>>

(* Row i of a tile, where the tile is a function of its slot *)
RowOf(slot, i) == slot + i * spad_stride

WriteRows(slot, tile) ==
  spad' = [row \in DOMAIN spad |->
             IF \E i \in TileIndexes : RowOf(slot, i) = row
             THEN tile[CHOOSE i \in TileIndexes : RowOf(slot, i) = row]
             ELSE spad[row]]

ExecMvin ==
  /\ Executes("mvin")
  /\ LET instr == Head(todo)
     IN  WriteRows(instr.spad,
           [i \in TileIndexes |->
              [j \in TileIndexes |-> dram[instr.dram + i * instr.stride + j]]])
  /\ UNCHANGED <<dram, psum, in_array>>

ExecMvout ==
  /\ Executes("mvout")
  /\ LET instr == Head(todo)
         Addr(i, j) == instr.dram + i * instr.stride + j
     IN  dram' = [addr \in DOMAIN dram |->
                    IF \E i, j \in TileIndexes : Addr(i, j) = addr
                    THEN LET ij == CHOOSE ij \in TileIndexes \X TileIndexes : Addr(ij[1], ij[2]) = addr
                         IN  spad[RowOf(instr.spad, ij[1])][ij[2]]
                    ELSE dram[addr]]
  /\ UNCHANGED <<spad, psum, in_array>>

(* The product of two elements, by their names *)
Product(x, y) ==
  IF x = Padding \/ y = Padding THEN {}
  ELSE {<<x.of, x.row, x.col, y.of, y.row, y.col>>}

(* What enters the array pushes the last gemm's products into psum. *)
PushedPsum ==
  [psum EXCEPT ![in_array.psum] = [ij \in DOMAIN NoSums |-> @[ij] (+) in_array.sums[ij]]]

(* The rows of the two tiles meet in pairs: their outer products add up. *)
ExecGemm ==
  /\ Executes("gemm")
  /\ psum' = PushedPsum
  /\ LET instr == Head(todo)
         A_row(r) == spad[RowOf(instr.A_addr, r)]
         B_row(r) == spad[RowOf(instr.B_addr, r)]
     IN  in_array' = [psum |-> instr.psum,
                      sums |-> [ij \in DOMAIN NoSums |->
                        SetToBag(UNION {Product(A_row(r)[ij[1]], B_row(r)[ij[2]]) : r \in TileIndexes})]]
  /\ UNCHANGED <<dram, spad>>

ExecFlush ==
  /\ Executes("flush")
  /\ psum' = PushedPsum
  /\ in_array' = [in_array EXCEPT !.sums = NoSums]
  /\ UNCHANGED <<dram, spad>>

ExecDrain ==
  /\ Executes("drain")
  /\ LET instr == Head(todo)
     IN  /\ WriteRows(instr.C_addr,
              [i \in TileIndexes |-> [j \in TileIndexes |-> Sum(psum[instr.psum][<<i, j>>])]])
         /\ psum' = [psum EXCEPT ![instr.psum] = NoSums]
  /\ UNCHANGED <<dram, in_array>>

Next ==
  \/ InitializeAT \/ InitializeB \/ ReadC
  \/ NextIteration \/ ExecMvin \/ ExecMvout \/ ExecGemm \/ ExecFlush \/ ExecDrain

Spec == Init /\ [][Next]_vars
-----------------------------------------------------------------------------
(* Element (m, n) of A x B: each product once *)
Exact(m, n) ==
  SetToBag({<<"AT", k, m, "B", k, n>> : k \in {k \in 0 .. size.K - 1 : m < size.M /\ n < size.N}})

(* What tile <<matrix, tr, tc>> should hold in row r, column c *)
TileElement(id, r, c) ==
  CASE id[1] = "a" -> AT[<<id[3] * DIM + r, id[2] * DIM + c>>]
    [] id[1] = "b" -> B[<<id[2] * DIM + r, id[3] * DIM + c>>]
    [] id[1] = "c" -> Sum(Exact(id[2] * DIM + r, id[3] * DIM + c))

(* A tile the allocator calls resident is in its slot, or an instruction   *)
(* that puts it there is still to come: a hit may skip the mvin, whatever  *)
(* was evicted in between.                                                 *)
HitMeansLoaded ==
  \A id \in DOMAIN alloc.resident :
    LET slot == alloc.resident[id]
    IN  \/ \A r, c \in TileIndexes : spad[RowOf(slot, r)][c] = TileElement(id, r, c)
        \/ \E k \in 1 .. Len(todo) :
             \/ todo[k].op = "mvin" /\ todo[k].spad = slot
             \/ todo[k].op = "drain" /\ todo[k].C_addr = slot

(* Every slot is free, in the vector of its bank, or holds one tile, and   *)
(* no row belongs to two tiles, whatever was taken and evicted before; the *)
(* LRU list names each resident tile once, so that evict_lru overlooks no  *)
(* tile and resident.at does not throw.                                    *)
SlotsConserved ==
  LET Resident == DOMAIN alloc.resident
      slot     == alloc.resident
  IN  /\ \A b \in Banks : alloc.free_slots[b] =
           {s \in Slots(spad_stride) : BankOf(s) = b /\ \A t \in Resident : slot[t] # s}
      /\ \A t \in Resident :
           /\ SlotRows(slot[t], spad_stride) \subseteq FlatAddrs
           /\ \A u \in Resident \ {t} :
                SlotRows(slot[t], spad_stride) \cap SlotRows(slot[u], spad_stride) = {}
      /\ {alloc.lru[k] : k \in 1 .. Len(alloc.lru)} = Resident
      /\ \A j, k \in 1 .. Len(alloc.lru) : alloc.lru[j] = alloc.lru[k] => j = k

(* acquire never throws: whatever the sizes and whatever was acquired      *)
(* before, a bank a tile is sent to has a free slot or a tile to evict.    *)
NeverThrows == todo = << >> /\ iteration < Iterations => ~ BodyThrows(alloc, iteration)

(* What validate_gemm reads is the product, padded with sums of nothing,   *)
(* and A and B are still in DRAM as they were written.                     *)
ProductInDram ==
  step = "done" =>
    /\ \A m \in 0 .. PM - 1, n \in 0 .. PN - 1 : C_hardware[m * PN + n] = Sum(Exact(m, n))
    /\ \A offset \in 0 .. PK * PM - 1 : dram[a_base + offset] = ElementAt(AT, PM, offset)
    /\ \A offset \in 0 .. PK * PN - 1 : dram[b_base + offset] = ElementAt(B, PN, offset)
=============================================================================
