--------------------------- MODULE MCAddressRange ---------------------------
(* An instance of AddressRange for TLC: rows of two bytes, strides that    *)
(* are and are not multiples of them.                                      *)
EXTENDS AddressRange
=============================================================================
