------------------------------ MODULE SpadAddr ------------------------------
(***************************************************************************)
(* Scratchpad addresses (src/include/type.h, struct SpadAddr).             *)
(*                                                                         *)
(* An address is a pair {row_offset, bank} packed into a flat number with  *)
(* the bank in the low bits, so that flat + 1 is the next bank and         *)
(* flat + N_BANKS the next row of the same bank.  Both fields are bit      *)
(* fields: unpacking keeps only bits_for(N_ROWS_PER_BANK) bits of the row  *)
(* and bits_for(N_BANKS) bits of the bank.  Both counts are powers of two  *)
(* (static_asserts of config.h), so shifts and masks are div and mod.      *)
(***************************************************************************)
EXTENDS Naturals

CONSTANTS
  N_BANKS,         \* scratchpad banks
  N_ROWS_PER_BANK  \* rows per bank

ASSUME BankCountAssumption == N_BANKS \in Nat \ {0}
ASSUME RowCountAssumption  == N_ROWS_PER_BANK \in Nat \ {0}

Banks      == 0 .. N_BANKS - 1
RowOffsets == 0 .. N_ROWS_PER_BANK - 1
FlatAddrs  == 0 .. N_BANKS * N_ROWS_PER_BANK - 1

(* SpadAddr::from_flat, one operator per field of the result. *)
BankOf(flat)      == flat % N_BANKS
RowOffsetOf(flat) == (flat \div N_BANKS) % N_ROWS_PER_BANK

(* SpadAddr::to_flat *)
ToFlat(row_offset, bank) == row_offset * N_BANKS + bank

(* SpadAddr::operator+ on the flat form: the sum is unpacked, which drops  *)
(* the bits above the row field, and packed again by the caller.           *)
FlatPlus(flat, flat_offset) ==
  ToFlat(RowOffsetOf(flat + flat_offset), BankOf(flat + flat_offset))
=============================================================================
