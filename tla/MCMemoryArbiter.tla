--------------------------- MODULE MCMemoryArbiter ---------------------------
(* Instances of MemoryArbiter for TLC: a load controller with two credits  *)
(* (write payloads) and a store controller with one (a read payload).      *)
EXTENDS MemoryArbiter, TLC

CONSTANTS load1, load2, store1

MCPayloads == {load1, load2, store1}
MCOwner    == load1 :> 0 @@ load2 :> 0 @@ store1 :> 1
MCCommand  == load1 :> "write" @@ load2 :> "write" @@ store1 :> "read"
=============================================================================
