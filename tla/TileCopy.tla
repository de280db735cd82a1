------------------------------ MODULE TileCopy ------------------------------
(***************************************************************************)
(* What the issuer of mvin and mvout instructions relies on, with nothing  *)
(* of the buffers, credits and threads that provide it: once an            *)
(* instruction is issued, each row of its tile is copied exactly once from *)
(* the source to the destination, rows of different instructions in any    *)
(* order, and the instruction is reported complete when all of them are.   *)
(* LoadController and StoreController implement this specification.        *)
(***************************************************************************)
EXTENDS Tiles

VARIABLES
  issued,       \* the last instruction issued, 0 at first
  completed,    \* the instructions reported complete
  destination   \* destination[<<id, row>>]

vars == <<issued, completed, destination>>

Init ==
  /\ issued = 0
  /\ completed = {}
  /\ destination = [t \in TileRows |-> NULL]

Issue ==
  /\ issued < N_INSTRS
  /\ issued' = issued + 1
  /\ UNCHANGED <<completed, destination>>

CopyRow(t) ==
  /\ t[1] <= issued
  /\ destination[t] = NULL
  /\ destination' = [destination EXCEPT ![t] = t]
  /\ UNCHANGED <<issued, completed>>

Complete(id) ==
  /\ id <= issued
  /\ id \notin completed
  /\ \A t \in TileRows : t[1] = id => destination[t] # NULL
  /\ completed' = completed \cup {id}
  /\ UNCHANGED <<issued, destination>>

Next ==
  \/ Issue
  \/ \E t \in TileRows : CopyRow(t)
  \/ \E id \in Instrs : Complete(id)

SafeSpec == Init /\ [][Next]_vars

Spec ==
  /\ SafeSpec
  /\ \A t \in TileRows : WF_vars(CopyRow(t))
  /\ \A id \in Instrs : WF_vars(Complete(id))
=============================================================================
