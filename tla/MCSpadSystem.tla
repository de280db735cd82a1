---------------------------- MODULE MCSpadSystem ----------------------------
(* An instance of SpadSystem for TLC: while a tile is stored a larger one  *)
(* that meets it in a bank is loaded, with its last rows waiting for the  *)
(* buffers of the others, and a third takes the place of the second.       *)
EXTENDS SpadSystem

MCRows       == <<1, 3, 1>>
MCSpadAddr   == <<0, 1, 1>>
MCSpadStride == <<1, 1, 1>>
=============================================================================
