--------------------------- MODULE SpadAllocator ---------------------------
(***************************************************************************)
(* Where the schedulers put tiles in the scratchpad: an allocator of       *)
(* DIM-row slots with least-recently-used eviction                         *)
(* (testbench/helper/simple_spad_memory_allocator.h).                      *)
(*                                                                         *)
(* The operators map an allocator, a record of its members, to the next    *)
(* one.  A slot is the flat address of its first row.  free_slots is a     *)
(* vector per bank that is filled in ascending order and then only popped: *)
(* here a set, whose greatest element is the vector's back.  Every caller  *)
(* of acquire names a bank.                                                *)
(***************************************************************************)
EXTENDS SpadAddr, Sequences, FiniteSets

CONSTANT DIM  \* rows of a tile

ASSUME DimAssumption == DIM \in Nat \ {0}

(* static_assert of config.h *)
ASSUME WholeTilesAssumption == N_ROWS_PER_BANK % DIM = 0
-----------------------------------------------------------------------------
spad_capacity == N_BANKS * N_ROWS_PER_BANK

(* Mutant: a chunk is DIM rows, whatever the stride. *)
Slots_NoStride(stride) ==
  {ch * DIM + s : ch \in 0 .. (spad_capacity \div (DIM * stride)) - 1, s \in 0 .. stride - 1}

(* The scratchpad is cut into chunks of DIM * stride addresses; stride     *)
(* slots begin in each.                                                    *)
Slots(stride) ==
  {ch * (DIM * stride) + s : ch \in 0 .. (spad_capacity \div (DIM * stride)) - 1,
                             s \in 0 .. stride - 1}

SlotRows(slot, stride) == {slot + i * stride : i \in 0 .. DIM - 1}

(* The constructor *)
NewAllocator(stride) ==
  [free_slots |-> [b \in Banks |-> {slot \in Slots(stride) : BankOf(slot) = b}],
   lru        |-> << >>,
   resident   |-> [id \in {} |-> 0]]

Without(seq, k) == SubSeq(seq, 1, k - 1) \o SubSeq(seq, k + 1, Len(seq))

(* std::erase; the list names a tile at most once. *)
Erased(lru, id) ==
  LET places == {k \in 1 .. Len(lru) : lru[k] = id}
  IN  IF places = {} THEN lru ELSE Without(lru, CHOOSE k \in places : TRUE)

(* Mutant: a tile that is used again keeps its old place. *)
touch_Append(lru, id) == Append(lru, id)

touch(lru, id) == Append(Erased(lru, id), id)

HasFreeSlot(alloc, bank) == alloc.free_slots[bank] # {}

Place(resident, id, slot) ==
  [t \in DOMAIN resident \cup {id} |-> IF t = id THEN slot ELSE resident[t]]

(* Mutant: the slot is read but not taken out of the vector. *)
TakeFreeSlot_NoPop(alloc, id, bank) ==
  LET slot == CHOOSE s \in alloc.free_slots[bank] : \A other \in alloc.free_slots[bank] : other <= s
  IN  [alloc EXCEPT !.resident = Place(@, id, slot), !.lru = touch(@, id)]

TakeFreeSlot(alloc, id, bank) ==
  LET slot == CHOOSE s \in alloc.free_slots[bank] : \A other \in alloc.free_slots[bank] : other <= s
  IN  [free_slots |-> [alloc.free_slots EXCEPT ![bank] = @ \ {slot}],
       lru        |-> touch(alloc.lru, id),
       resident   |-> Place(alloc.resident, id, slot)]

(* The places in the list of tiles whose slot is in the bank *)
Evictable(alloc, bank) ==
  {k \in 1 .. Len(alloc.lru) : BankOf(alloc.resident[alloc.lru[k]]) = bank}

Oldest(alloc, bank) ==
  CHOOSE k \in Evictable(alloc, bank) : \A j \in Evictable(alloc, bank) : k <= j

Forget(resident, id) == [t \in DOMAIN resident \ {id} |-> resident[t]]

(* Mutant: a tile in an evicted slot is not entered in the list. *)
EvictLru_NoTouch(alloc, id, bank) ==
  LET k    == Oldest(alloc, bank)
      slot == alloc.resident[alloc.lru[k]]
  IN  [alloc EXCEPT !.lru      = Without(@, k),
                    !.resident = Place(Forget(@, alloc.lru[k]), id, slot)]

EvictLru(alloc, id, bank) ==
  LET k    == Oldest(alloc, bank)
      slot == alloc.resident[alloc.lru[k]]
  IN  [alloc EXCEPT !.lru      = touch(Without(@, k), id),
                    !.resident = Place(Forget(@, alloc.lru[k]), id, slot)]

IsResident(alloc, id) == id \in DOMAIN alloc.resident

(* acquire throws: the bank has neither a free slot nor a tile to evict. *)
Throws(alloc, id, bank) ==
  ~ IsResident(alloc, id) /\ ~ HasFreeSlot(alloc, bank) /\ Evictable(alloc, bank) = {}

(* lookup, and acquire of a tile that is resident *)
lookup(alloc, id) == [alloc EXCEPT !.lru = touch(@, id)]

acquire(alloc, id, bank) ==
  CASE IsResident(alloc, id) -> lookup(alloc, id)
    [] ~ IsResident(alloc, id) /\ HasFreeSlot(alloc, bank) -> TakeFreeSlot(alloc, id, bank)
    [] OTHER -> EvictLru(alloc, id, bank)
=============================================================================
