-------------------------- MODULE IssuePort_proofs --------------------------
(***************************************************************************)
(* Proofs about IssuePort, for any number of threads with any scripts and  *)
(* FIFOs of any depth.  The heart is PortInv: ids enter each FIFO in       *)
(* ascending order, so everything an exec controller has finished is below *)
(* everything it has not, and one number records it all.                   *)
(*                                                                         *)
(* Then scheduler C, one of the threads: its waits and the order of each   *)
(* FIFO suffice in every interleaving.                                     *)
(***************************************************************************)
EXTENDS ScheduleC, FiniteSetTheorems, TLAPS

Queued(op) == {instr_queue[op][k] : k \in 1 .. Len(instr_queue[op])}

(* The kind an instruction was issued as is the kind of its FIFO. *)
KindsKept ==
  \A op \in Ops : \A id \in Unfinished(op) : id_to_op[id] = op

(* A FIFO's ids ascend, and are above those under way. *)
Ascending ==
  \A op \in Ops :
    /\ \A j, k \in 1 .. Len(instr_queue[op]) :
         j < k => instr_queue[op][j] < instr_queue[op][k]
    /\ \A k \in 1 .. Len(instr_queue[op]) : instr_queue[op][k] \notin under_way[op]
    /\ op \in OneAtATime =>
         \A i \in under_way[op] : \A k \in 1 .. Len(instr_queue[op]) :
           i < instr_queue[op][k]

(* At most one gemm and one drain are under way. *)
OneUnderWay ==
  \A op \in OneAtATime : \A i, j \in under_way[op] : i = j

(* What the records of the controllers mean *)
RecordsExact ==
  \A op \in Ops : \A id \in Ids :
    id_to_op[id] = op =>
      IF op \in OneAtATime
      THEN id \in Unfinished(op) <=> id > last_completed_id[op]
      ELSE /\ id <= last_issued_id[op]
           /\ id \in Unfinished(op) <=> id \in rows_remaining

(* A call that has returned got its id. *)
IdsGiven ==
  \A c \in Callers : \A k \in 1 .. at[c] - 1 : IsIssue(c, k) => ids[c][k] \in Ids

PortInv ==
  /\ TypeOK /\ WritesNeverBlock
  /\ KindsKept /\ Ascending /\ OneUnderWay /\ RecordsExact /\ IdsGiven
-----------------------------------------------------------------------------
LEMMA SeqOfSubset ==
  ASSUME NEW S, NEW T, S \subseteq T, NEW s \in Seq(S)
  PROVE  s \in Seq(T)
<1>1. s \in [1 .. Len(s) -> S] /\ Len(s) \in Nat
  OBVIOUS
<1>2. s \in [1 .. Len(s) -> T]
  BY <1>1
<1> QED BY <1>1, <1>2

(* What a run follows is one of the scripts. *)
LEMMA ScriptIsOne ==
  ASSUME PortInv
  PROVE  /\ script \in Scripts
         /\ \A c \in Callers : script[c] \in Seq(Calls) /\ Len(script[c]) \in Nat
<1>1. script \in Scripts
  BY DEF PortInv, TypeOK
<1>2. script \in [Callers -> Seq(Calls)]
  BY <1>1, ScriptAssumption
<1> QED BY <1>1, <1>2

LEMMA OpIsOp ==
  ASSUME PortInv, NEW c \in Callers, NEW k \in 1 .. Len(script[c]), IsIssue(c, k)
  PROVE  script[c][k].op \in Ops
BY ScriptIsOne DEF Calls, IsIssue

LEMMA WaitIsForIssue ==
  ASSUME PortInv, NEW c \in Callers, NEW k \in 1 .. Len(script[c]), ~ IsIssue(c, k)
  PROVE  script[c][k].of \in 1 .. k - 1 /\ IsIssue(c, script[c][k].of)
BY ScriptIsOne, ScriptAssumption DEF IsIssue

(* The controller's own record says what is finished: the two sides of     *)
(* is_complete agree wherever PortInv holds.                               *)
LEMMA CompleteIsExact ==
  ASSUME PortInv, NEW id \in Ids
  PROVE  is_complete(id) <=> id \notin Unfinished(id_to_op[id])
<1>1. PICK op \in Ops : op = id_to_op[id]
  BY DEF PortInv, TypeOK, Ids
<1>2. id \in Nat
  BY DEF PortInv, TypeOK, Ids
<1>3. CASE op \in OneAtATime
  <2>1. last_completed_id[op] \in Nat
    BY <1>3 DEF PortInv, TypeOK, Ids
  <2>2. id \in Unfinished(op) <=> id > last_completed_id[op]
    BY <1>1, <1>3 DEF PortInv, RecordsExact
  <2>3. is_complete(id) <=> id <= last_completed_id[op]
    BY <1>1, <1>3 DEF is_complete
  <2> QED BY <1>1, <1>2, <2>1, <2>2, <2>3
<1>4. CASE op \notin OneAtATime
  BY <1>1, <1>4 DEF PortInv, RecordsExact, is_complete
<1> QED BY <1>3, <1>4

LEMMA InitPort == Init => PortInv
<1> SUFFICES ASSUME Init PROVE PortInv
  OBVIOUS
<1>1. Ids = {}
  BY DEF Init, Ids
<1>2. TypeOK
  BY <1>1, ScriptAssumption DEF Init, TypeOK, Ops, OneAtATime
<1>3. \A op \in Ops : Unfinished(op) = {}
  BY DEF Init, Unfinished
<1>4. WritesNeverBlock
  BY SizeAssumption DEF Init, WritesNeverBlock
<1>5. KindsKept /\ Ascending /\ OneUnderWay /\ RecordsExact /\ IdsGiven
  BY <1>1, <1>3 DEF Init, KindsKept, Ascending, OneUnderWay, RecordsExact, IdsGiven,
                    OneAtATime, Ops
<1> QED BY <1>2, <1>4, <1>5 DEF PortInv

(* A caller that has to wait changes only who waits for what. *)
LEMMA WaitKeeps ==
  ASSUME PortInv, NEW c \in Callers, NEW e \in Events, Wait(c, e),
         UNCHANGED <<ids, next_instr_id, id_to_op, fifoVars, ctrlVars, notified>>
  PROVE  PortInv'
<1>1. TypeOK'
  BY NullAssumption DEF PortInv, TypeOK, Wait, fifoVars, ctrlVars, Ids
<1>2. (WritesNeverBlock /\ KindsKept /\ Ascending /\ OneUnderWay /\ RecordsExact /\ IdsGiven)'
  BY DEF PortInv, Wait, fifoVars, ctrlVars, Ids, WritesNeverBlock, KindsKept, Ascending,
         OneUnderWay, RecordsExact, IdsGiven, IsIssue, Unfinished
<1> QED BY <1>1, <1>2 DEF PortInv

(* The new instruction has the greatest id, and is the last of its FIFO. *)
LEMMA WriteKeeps ==
  ASSUME PortInv, NEW c \in Callers, MayRun(c), IsIssue(c, at[c]), NEW op \in Ops,
         has_room(op), NewInstr(c, op, next_instr_id + 1),
         IssueToController(op, next_instr_id + 1), Return(c), UNCHANGED notified
  PROVE  PortInv'
<1> DEFINE id == next_instr_id + 1
<1>1. /\ next_instr_id \in Nat /\ Ids = 1 .. next_instr_id
      /\ id \in Nat /\ id \notin Ids /\ next_instr_id' = id
      /\ Ids' = Ids \cup {id} /\ \A i \in Ids : i < id
  BY DEF PortInv, TypeOK, Ids, NewInstr
<1>2. /\ id_to_op \in Seq(Ops) /\ Len(id_to_op) = next_instr_id
      /\ id_to_op' = Append(id_to_op, op)
      /\ id_to_op'[id] = op /\ \A i \in Ids : id_to_op'[i] = id_to_op[i]
  BY <1>1 DEF PortInv, TypeOK, NewInstr
<1>3. /\ instr_queue \in [Ops -> Seq(Ids)]
      /\ instr_queue' = [instr_queue EXCEPT ![op] = Append(@, id)]
      /\ under_way' = under_way /\ under_way \in [Ops -> SUBSET Ids]
  BY DEF PortInv, TypeOK, IssueToController
<1>4. /\ Len(instr_queue[op]) \in Nat
      /\ Len(instr_queue'[op]) = Len(instr_queue[op]) + 1
      /\ instr_queue'[op][Len(instr_queue[op]) + 1] = id
      /\ \A k \in 1 .. Len(instr_queue[op]) :
           instr_queue'[op][k] = instr_queue[op][k] /\ instr_queue[op][k] \in Ids
  BY <1>3
<1>5. \A o \in Ops \ {op} : instr_queue'[o] = instr_queue[o]
  BY <1>3
<1>6. \A o \in Ops \ {op} : Unfinished(o)' = Unfinished(o)
  BY <1>3, <1>5 DEF Unfinished
<1>7. Unfinished(op)' = Unfinished(op) \cup {id}
  <2>1. ASSUME NEW x \in Unfinished(op)' PROVE x \in Unfinished(op) \cup {id}
    BY <2>1, <1>3, <1>4 DEF Unfinished
  <2>2. ASSUME NEW x \in Unfinished(op) PROVE x \in Unfinished(op)'
    BY <2>2, <1>3, <1>4 DEF Unfinished
  <2>3. id \in Unfinished(op)'
    BY <1>3, <1>4 DEF Unfinished
  <2> QED BY <2>1, <2>2, <2>3
<1>8. \A o \in Ops : Unfinished(o) \subseteq Ids
  BY <1>3 DEF Unfinished
<1>9. at[c] \in 1 .. Len(script[c])
  BY DEF MayRun, Runnable, PortInv, TypeOK
<1>10. ids' = [ids EXCEPT ![c][at[c]] = id]
  BY DEF NewInstr
<1>11. \A d \in Callers : at[d] \in 1 .. Len(script[d]) + 1 /\ Len(script[d]) \in Nat
  BY ScriptIsOne DEF PortInv, TypeOK
<1>12. TypeOK'
  <2>1. ASSUME NEW d \in Callers
        PROVE  /\ at'[d] \in 1 .. Len(script[d]) + 1
               /\ ids'[d] \in [1 .. Len(script[d]) -> Ids' \cup {0}]
    <3>1. ids[d] \in [1 .. Len(script[d]) -> Ids \cup {0}]
      BY DEF PortInv, TypeOK
    <3>2. at'[d] \in 1 .. Len(script[d]) + 1
      BY <1>9, <1>11 DEF Return, PortInv, TypeOK
    <3>3. ids'[d] \in [1 .. Len(script[d]) -> Ids' \cup {0}]
      BY <1>1, <1>9, <1>10, <3>1 DEF PortInv, TypeOK
    <3> QED BY <3>2, <3>3
  <2>2. /\ (at \in [Callers -> Nat] /\ DOMAIN ids = Callers)'
        /\ (waits_for \in [Callers -> Events \cup {NULL}])'
        /\ (blocked \subseteq Callers /\ running \in Callers \cup {NULL} /\ notified \subseteq Events)'
    BY <1>10 DEF Return, PortInv, TypeOK
  <2>10. script' = script /\ script \in Scripts
    BY DEF Return, PortInv, TypeOK
  <2>3. (next_instr_id \in Nat /\ id_to_op \in Seq(Ops) /\ Len(id_to_op) = next_instr_id)'
    BY <1>1, <1>2
  <2>4. instr_queue' \in [Ops -> Seq(Ids')]
    <3>1. \A o \in Ops : instr_queue[o] \in Seq(Ids')
      <4>1. Ids \subseteq Ids'
        BY <1>1
      <4> HIDE DEF id
      <4> QED BY <1>3, <4>1, SeqOfSubset
    <3>2. Append(instr_queue[op], id) \in Seq(Ids')
      BY <1>1, <3>1
    <3> HIDE DEF id
    <3> QED BY <1>3, <3>1, <3>2
  <2>5. num_written' \in [Ops -> Nat] /\ num_read' \in [Ops -> Nat]
    BY DEF IssueToController, PortInv, TypeOK
  <2>6. under_way' \in [Ops -> SUBSET Ids']
    BY <1>1, <1>3
  <2>7. rows_remaining' \subseteq Ids'
    BY <1>1 DEF IssueToController, PortInv, TypeOK
  <2>8. last_issued_id' \in [Ops \ OneAtATime -> Ids' \cup {0}]
    BY <1>1 DEF IssueToController, PortInv, TypeOK
  <2>9. last_completed_id' \in [OneAtATime -> Ids' \cup {0}]
    BY <1>1 DEF IssueToController, PortInv, TypeOK
  <2> QED BY <2>1, <2>2, <2>3, <2>4, <2>5, <2>6, <2>7, <2>8, <2>9, <2>10 DEF TypeOK
<1>13. WritesNeverBlock'
  <2>1. num_read' = num_read /\ num_read \in [Ops -> Nat]
    BY DEF IssueToController, PortInv, TypeOK
  <2> QED BY <1>4, <1>5, <2>1, SizeAssumption DEF WritesNeverBlock, has_room, PortInv
<1>14. KindsKept'
  BY <1>2, <1>6, <1>7, <1>8 DEF KindsKept, PortInv
<1>15. Ascending'
  <2>1. ASSUME NEW o \in Ops \ {op}
        PROVE  /\ \A j, k \in 1 .. Len(instr_queue'[o]) : j < k => instr_queue'[o][j] < instr_queue'[o][k]
               /\ \A k \in 1 .. Len(instr_queue'[o]) : instr_queue'[o][k] \notin under_way'[o]
               /\ o \in OneAtATime =>
                    \A i \in under_way'[o] : \A k \in 1 .. Len(instr_queue'[o]) : i < instr_queue'[o][k]
    BY <1>3, <1>5 DEF Ascending, PortInv
  <2>2. \A j, k \in 1 .. Len(instr_queue'[op]) : j < k => instr_queue'[op][j] < instr_queue'[op][k]
    <3>1. \A j, k \in 1 .. Len(instr_queue[op]) : j < k => instr_queue[op][j] < instr_queue[op][k]
      BY DEF Ascending, PortInv
    <3>2. \A k \in 1 .. Len(instr_queue[op]) : instr_queue[op][k] < id
      BY <1>1, <1>4
    <3> HIDE DEF id
    <3>3. ASSUME NEW j \in 1 .. Len(instr_queue[op]) + 1, NEW k \in 1 .. Len(instr_queue[op]) + 1, j < k
          PROVE  instr_queue'[op][j] < instr_queue'[op][k]
      <4>1. CASE k = Len(instr_queue[op]) + 1
        BY <1>4, <3>2, <3>3, <4>1
      <4>2. CASE k # Len(instr_queue[op]) + 1
        BY <1>4, <3>1, <3>3, <4>2
      <4> QED BY <4>1, <4>2
    <3> QED BY <1>4, <3>3
  <2>3. \A k \in 1 .. Len(instr_queue'[op]) : instr_queue'[op][k] \notin under_way'[op]
    BY <1>1, <1>3, <1>4 DEF Ascending, PortInv
  <2>4. op \in OneAtATime =>
          \A i \in under_way'[op] : \A k \in 1 .. Len(instr_queue'[op]) : i < instr_queue'[op][k]
    BY <1>1, <1>3, <1>4 DEF Ascending, PortInv
  <2> QED BY <2>1, <2>2, <2>3, <2>4 DEF Ascending
<1>16. OneUnderWay'
  BY <1>3 DEF OneUnderWay, PortInv
<1>17. RecordsExact'
  <2> SUFFICES ASSUME NEW o \in Ops, NEW i \in Ids', id_to_op'[i] = o
               PROVE  IF o \in OneAtATime
                      THEN i \in Unfinished(o)' <=> i > last_completed_id'[o]
                      ELSE /\ i <= last_issued_id'[o]
                           /\ i \in Unfinished(o)' <=> i \in rows_remaining'
    BY DEF RecordsExact
  <2>1. CASE i = id
    <3>1. o = op /\ i \in Unfinished(o)'
      BY <1>2, <1>7, <2>1
    <3>2. CASE op \in OneAtATime
      <4>1. last_completed_id'[op] \in Ids \cup {0}
        BY <3>2 DEF IssueToController, PortInv, TypeOK
      <4>2. id > last_completed_id'[op]
        BY <1>1, <4>1
      <4> QED BY <2>1, <3>1, <3>2, <4>2
    <3>3. CASE op \notin OneAtATime
      <4>1. last_issued_id'[op] = id /\ id \in rows_remaining'
        BY <3>3 DEF IssueToController, PortInv, TypeOK
      <4> QED BY <1>1, <2>1, <3>1, <3>3, <4>1
    <3> QED BY <3>2, <3>3
  <2>2. CASE i \in Ids
    <3>1. id_to_op[i] = o /\ i # id /\ i < id
      BY <1>1, <1>2, <2>2
    <3>2. i \in Unfinished(o)' <=> i \in Unfinished(o)
      BY <3>1, <1>6, <1>7
    <3>3. CASE o \in OneAtATime
      <4>1. i \in Unfinished(o) <=> i > last_completed_id[o]
        BY <2>2, <3>1, <3>3 DEF RecordsExact, PortInv
      <4>2. last_completed_id' = last_completed_id
        BY DEF IssueToController
      <4> QED BY <3>2, <3>3, <4>1, <4>2
    <3>4. CASE o \notin OneAtATime
      <4>1. i <= last_issued_id[o] /\ (i \in Unfinished(o) <=> i \in rows_remaining)
        BY <2>2, <3>1, <3>4 DEF RecordsExact, PortInv
      <4>2. i <= last_issued_id'[o]
        <5>1. last_issued_id \in [Ops \ OneAtATime -> Ids \cup {0}]
          BY DEF PortInv, TypeOK
        <5>2. CASE op \in OneAtATime
          BY <4>1, <5>2 DEF IssueToController
        <5>3. CASE op \notin OneAtATime
          <6>1. last_issued_id' = [last_issued_id EXCEPT ![op] = id]
            BY <5>3 DEF IssueToController
          <6> HIDE DEF id
          <6> QED BY <1>1, <3>1, <3>4, <4>1, <5>1, <5>3, <6>1
        <5> QED BY <5>2, <5>3
      <4>3. i \in rows_remaining' <=> i \in rows_remaining
        BY <3>1 DEF IssueToController
      <4> QED BY <3>2, <3>4, <4>1, <4>2, <4>3
    <3> QED BY <3>3, <3>4
  <2> HIDE DEF id
  <2> QED BY <1>1, <2>1, <2>2
<1>18. IdsGiven'
  <2>1. ASSUME NEW d \in Callers, NEW k \in 1 .. at'[d] - 1, IsIssue(d, k)
        PROVE  ids'[d][k] \in Ids'
    <3>1. CASE d = c /\ k = at[c]
      <4>1. ids'[c][at[c]] = id
        BY <1>9, <1>10 DEF PortInv, TypeOK
      <4> QED BY <1>1, <3>1, <4>1
    <3>2. CASE ~ (d = c /\ k = at[c])
      <4>1. k \in 1 .. at[d] - 1
        BY <2>1, <1>9, <1>11, <3>2 DEF Return, PortInv, TypeOK
      <4>2. ids'[d][k] = ids[d][k]
        BY <1>10, <3>2, <4>1, <1>9 DEF PortInv, TypeOK
      <4> QED BY <1>1, <2>1, <4>1, <4>2 DEF IdsGiven, PortInv
    <3> QED BY <3>1, <3>2
  <2>2. script' = script
    BY DEF Return
  <2> QED BY <2>1, <2>2 DEF IdsGiven, IsIssue
<1> QED BY <1>12, <1>13, <1>14, <1>15, <1>16, <1>17, <1>18 DEF PortInv

LEMMA IssueKeeps ==
  ASSUME PortInv, NEW c \in Callers, Issue(c)
  PROVE  PortInv'
<1> DEFINE op == script[c][at[c]].op
<1>1. at[c] \in 1 .. Len(script[c]) /\ IsIssue(c, at[c])
  BY DEF Issue, MayRun, Runnable, PortInv, TypeOK
<1>2. op \in Ops
  BY <1>1, OpIsOp
<1>3. CASE has_room(op)
  <2>1. /\ MayRun(c) /\ NewInstr(c, op, next_instr_id + 1)
        /\ IssueToController(op, next_instr_id + 1) /\ Return(c) /\ UNCHANGED notified
    BY <1>3 DEF Issue
  <2> HIDE DEF op
  <2> QED BY <1>1, <1>2, <1>3, <2>1, WriteKeeps
<1>4. CASE ~ has_room(op)
  <2>1. /\ Wait(c, <<"room_freed", op>>)
        /\ UNCHANGED <<ids, next_instr_id, id_to_op, fifoVars, ctrlVars, notified>>
    BY <1>4 DEF Issue
  <2>2. <<"room_freed", op>> \in Events
    BY <1>2 DEF Events
  <2> QED BY <2>1, <2>2, WaitKeeps
<1> QED BY <1>3, <1>4
LEMMA WaitCompleteKeeps ==
  ASSUME PortInv, NEW c \in Callers, WaitComplete(c)
  PROVE  PortInv'
<1> DEFINE j  == script[c][at[c]].of
           id == ids[c][j]
<1>1. at[c] \in 1 .. Len(script[c]) /\ ~ IsIssue(c, at[c]) /\ at[c] \in Nat
  <2>1. at[c] <= Len(script[c]) /\ ~ IsIssue(c, at[c])
    BY DEF WaitComplete, MayRun, Runnable
  <2>2. at[c] \in 1 .. Len(script[c]) + 1 /\ at[c] \in Nat /\ Len(script[c]) \in Nat
    BY ScriptIsOne DEF PortInv, TypeOK
  <2> QED BY <2>1, <2>2
<1>2. j \in 1 .. at[c] - 1 /\ IsIssue(c, j)
  BY <1>1, WaitIsForIssue
<1>3. id \in Ids
  BY <1>2 DEF IdsGiven, PortInv
<1>4. CASE is_complete(id)
  <2>1. Return(c) /\ UNCHANGED <<ids, next_instr_id, id_to_op, fifoVars, ctrlVars, notified>>
    BY <1>4 DEF WaitComplete
  <2>2. TypeOK'
    <3>1. at' = [at EXCEPT ![c] = at[c] + 1]
      BY <2>1 DEF Return
    <3>2. \A d \in Callers : at'[d] \in 1 .. Len(script[d]) + 1
      BY <1>1, <3>1 DEF PortInv, TypeOK
    <3> QED BY <1>1, <2>1, <3>1, <3>2, SMTT(40) DEF PortInv, TypeOK, Return, fifoVars, ctrlVars, Ids
  <2>3. IdsGiven'
    <3>1. ASSUME NEW d \in Callers, NEW k \in 1 .. at'[d] - 1, IsIssue(d, k)
          PROVE  k \in 1 .. at[d] - 1
      BY <1>1, <2>1, <3>1 DEF Return, PortInv, TypeOK
    <3> QED BY <2>1, <3>1 DEF IdsGiven, IsIssue, Ids, PortInv, Return
  <2>4. (WritesNeverBlock /\ KindsKept /\ Ascending /\ OneUnderWay /\ RecordsExact)'
    BY <2>1 DEF PortInv, fifoVars, ctrlVars, Ids, WritesNeverBlock, KindsKept, Ascending,
                OneUnderWay, RecordsExact, Unfinished
  <2> QED BY <2>2, <2>3, <2>4 DEF PortInv
<1>5. CASE ~ is_complete(id)
  <2>1. /\ Wait(c, <<"completed", id_to_op[id]>>)
        /\ UNCHANGED <<ids, next_instr_id, id_to_op, fifoVars, ctrlVars, notified>>
    BY <1>5 DEF WaitComplete
  <2>2. <<"completed", id_to_op[id]>> \in Events
    BY <1>3 DEF Events, PortInv, TypeOK, Ids
  <2> QED BY <2>1, <2>2, WaitKeeps
<1> QED BY <1>4, <1>5

(* Dequeue moves the least id of its FIFO, and changes no set of what is   *)
(* unfinished.                                                             *)
LEMMA DequeueSets ==
  ASSUME PortInv, NEW op \in Ops, Dequeue(op)
  PROVE  \A o \in Ops : Unfinished(o)' = Unfinished(o)
<1> DEFINE q == instr_queue[op]
<1>1. /\ instr_queue \in [Ops -> Seq(Ids)] /\ under_way \in [Ops -> SUBSET Ids]
      /\ num_written[op] \in Nat
  BY DEF PortInv, TypeOK
<1>2. /\ q \in Seq(Ids) /\ Len(q) > 0
      /\ instr_queue' = [instr_queue EXCEPT ![op] = Tail(q)]
      /\ under_way' = [under_way EXCEPT ![op] = @ \cup {Head(q)}]
  BY <1>1 DEF Dequeue
<1>3. /\ Tail(q) \in Seq(Ids) /\ Len(Tail(q)) = Len(q) - 1 /\ Head(q) = q[1]
      /\ \A k \in 1 .. Len(q) - 1 : Tail(q)[k] = q[k + 1]
  BY <1>2
<1>4. \A o \in Ops \ {op} : Unfinished(o)' = Unfinished(o)
  BY <1>1, <1>2 DEF Unfinished
<1>5. instr_queue'[op] = Tail(q) /\ under_way'[op] = under_way[op] \cup {q[1]}
  BY <1>1, <1>2, <1>3
<1>6. ASSUME NEW x \in Unfinished(op) PROVE x \in Unfinished(op)'
  <2>1. CASE x \in under_way[op]
    BY <1>5, <2>1 DEF Unfinished
  <2>2. CASE x \notin under_way[op]
    <3>1. PICK k \in 1 .. Len(q) : x = q[k]
      BY <1>6, <2>2 DEF Unfinished
    <3>2. CASE k = 1
      BY <1>5, <3>1, <3>2 DEF Unfinished
    <3>3. CASE k # 1
      <4>1. k - 1 \in 1 .. Len(Tail(q)) /\ Tail(q)[k - 1] = x
        BY <1>2, <1>3, <3>1, <3>3
      <4> QED BY <1>5, <4>1 DEF Unfinished
    <3> QED BY <3>2, <3>3
  <2> QED BY <2>1, <2>2
<1>7. ASSUME NEW x \in Unfinished(op)' PROVE x \in Unfinished(op)
  <2>1. CASE x \in under_way'[op]
    <3>1. 1 \in 1 .. Len(q)
      BY <1>2
    <3> QED BY <1>5, <2>1, <3>1 DEF Unfinished
  <2>2. CASE x \notin under_way'[op]
    <3>1. PICK k \in 1 .. Len(Tail(q)) : x = Tail(q)[k]
      BY <1>5, <1>7, <2>2 DEF Unfinished
    <3>2. k + 1 \in 1 .. Len(q) /\ q[k + 1] = x
      BY <1>2, <1>3, <3>1
    <3> QED BY <3>2 DEF Unfinished
  <2> QED BY <2>1, <2>2
<1> QED BY <1>4, <1>6, <1>7

LEMMA DequeueKeeps ==
  ASSUME PortInv, NEW op \in Ops, Dequeue(op)
  PROVE  PortInv'
<1> DEFINE q == instr_queue[op]
<1>1. /\ instr_queue \in [Ops -> Seq(Ids)] /\ under_way \in [Ops -> SUBSET Ids]
      /\ num_written[op] \in Nat /\ num_read \in [Ops -> Nat]
  BY DEF PortInv, TypeOK
<1>2. /\ q \in Seq(Ids) /\ Len(q) > 0 /\ Len(q) \in Nat
      /\ instr_queue' = [instr_queue EXCEPT ![op] = Tail(q)]
      /\ num_read' = [num_read EXCEPT ![op] = @ + 1]
      /\ under_way' = [under_way EXCEPT ![op] = @ \cup {Head(q)}]
      /\ UNCHANGED <<callerVars, next_instr_id, id_to_op, num_written,
                      rows_remaining, last_issued_id, last_completed_id>>
      /\ notified' = notified \cup {<<"room_freed", op>>}
  BY <1>1 DEF Dequeue
<1>3. /\ Tail(q) \in Seq(Ids) /\ Len(Tail(q)) = Len(q) - 1 /\ Head(q) = q[1]
      /\ \A k \in 1 .. Len(q) - 1 : Tail(q)[k] = q[k + 1]
      /\ q[1] \in Ids
  BY <1>2
<1>4. Ids' = Ids /\ Ids \subseteq Nat
  BY <1>2 DEF Ids
<1>5. TypeOK'
  <2>1. instr_queue' \in [Ops -> Seq(Ids)]
    BY <1>1, <1>2, <1>3
  <2>2. under_way' \in [Ops -> SUBSET Ids]
    BY <1>1, <1>2, <1>3
  <2>3. num_read' \in [Ops -> Nat] /\ notified' \subseteq Events
    BY <1>1, <1>2 DEF PortInv, TypeOK, Events
  <2> QED BY <1>2, <1>4, <2>1, <2>2, <2>3 DEF PortInv, TypeOK, callerVars
<1>6. WritesNeverBlock'
  <2>1. ASSUME NEW o \in Ops PROVE Len(instr_queue'[o]) + num_read'[o] <= INSTR_QUEUE_SIZE
    <3>1. Len(instr_queue[o]) + num_read[o] <= INSTR_QUEUE_SIZE
      BY DEF PortInv, WritesNeverBlock
    <3>2. CASE o = op
      BY <1>1, <1>2, <1>3, <3>1, <3>2, SizeAssumption
    <3>3. CASE o # op
      BY <1>1, <1>2, <3>1, <3>3
    <3> QED BY <3>2, <3>3
  <2> QED BY <2>1 DEF WritesNeverBlock
<1>7. \A o \in Ops : Unfinished(o)' = Unfinished(o)
  BY DequeueSets
<1>8. KindsKept' /\ RecordsExact'
  BY <1>2, <1>4, <1>7 DEF PortInv, KindsKept, RecordsExact
<1>9. op \in OneAtATime => under_way[op] = {}
  <2> SUFFICES ASSUME op \in OneAtATime PROVE under_way[op] = {}
    OBVIOUS
  <2>1. Cardinality(under_way[op]) < 1
    BY DEF Dequeue
  <2>2. IsFiniteSet(under_way[op])
    <3>1. IsFiniteSet(Ids)
      BY FS_Interval DEF Ids, PortInv, TypeOK
    <3> QED BY <1>1, <3>1, FS_Subset
  <2>3. Cardinality(under_way[op]) = 0
    BY <2>1, <2>2, FS_CardinalityType
  <2> QED BY <2>2, <2>3, FS_EmptySet
<1>10. /\ \A j, k \in 1 .. Len(q) : j < k => q[j] < q[k]
       /\ \A k \in 1 .. Len(q) : q[k] \notin under_way[op] /\ q[k] \in Nat
  <2>1. /\ \A j, k \in 1 .. Len(q) : j < k => q[j] < q[k]
        /\ \A k \in 1 .. Len(q) : q[k] \notin under_way[op]
    BY DEF PortInv, Ascending
  <2>2. \A k \in 1 .. Len(q) : q[k] \in Nat
    <3>1. \A k \in 1 .. Len(q) : q[k] \in Ids
      BY <1>2
    <3> QED BY <1>4, <3>1
  <2> QED BY <2>1, <2>2
<1>11. Ascending'
  <2>1. ASSUME NEW o \in Ops \ {op}
        PROVE  /\ \A j, k \in 1 .. Len(instr_queue'[o]) : j < k => instr_queue'[o][j] < instr_queue'[o][k]
               /\ \A k \in 1 .. Len(instr_queue'[o]) : instr_queue'[o][k] \notin under_way'[o]
               /\ o \in OneAtATime =>
                    \A i \in under_way'[o] : \A k \in 1 .. Len(instr_queue'[o]) : i < instr_queue'[o][k]
    BY <1>1, <1>2 DEF Ascending, PortInv
  <2>2. instr_queue'[op] = Tail(q) /\ under_way'[op] = under_way[op] \cup {q[1]}
    BY <1>1, <1>2, <1>3
  <2>3. ASSUME NEW k \in 1 .. Len(Tail(q)) 
        PROVE  /\ Tail(q)[k] = q[k + 1] /\ k + 1 \in 1 .. Len(q)
               /\ 1 \in 1 .. Len(q) /\ 1 < k + 1
    BY <1>2, <1>3
  <2>4. \A j, k \in 1 .. Len(Tail(q)) : j < k => Tail(q)[j] < Tail(q)[k]
    BY <1>10, <2>3
  <2>5. \A k \in 1 .. Len(Tail(q)) : Tail(q)[k] \notin under_way[op] \cup {q[1]} /\ q[1] < Tail(q)[k]
    BY <1>10, <2>3
  <2> HIDE DEF q
  <2>6. op \in OneAtATime =>
          \A i \in under_way'[op] : \A k \in 1 .. Len(instr_queue'[op]) : i < instr_queue'[op][k]
    BY <1>9, <2>2, <2>5
  <2> QED BY <2>1, <2>2, <2>4, <2>5, <2>6 DEF Ascending
<1>12. OneUnderWay'
  <2>1. ASSUME NEW o \in OneAtATime, NEW i \in under_way'[o], NEW j \in under_way'[o] PROVE i = j
    <3>1. CASE o = op
      BY <1>1, <1>2, <1>9, <2>1, <3>1
    <3>2. CASE o # op
      BY <1>1, <1>2, <2>1, <3>2 DEF PortInv, OneUnderWay, Ops, OneAtATime
    <3> QED BY <3>1, <3>2
  <2> QED BY <2>1 DEF OneUnderWay
<1>13. IdsGiven'
  BY <1>2, <1>4 DEF IdsGiven, IsIssue, PortInv, callerVars
<1> QED BY <1>5, <1>6, <1>8, <1>11, <1>12, <1>13 DEF PortInv

(* What finishes is the only one under way of its kind, or has a record of *)
(* its own.                                                                *)
LEMMA FinishSets ==
  ASSUME PortInv, NEW op \in Ops, NEW id \in under_way[op], Finish(op, id)
  PROVE  /\ \A o \in Ops : Unfinished(o)' = Unfinished(o) \ {id}
         /\ id \in Ids /\ id_to_op[id] = op
<1>1. /\ instr_queue' = instr_queue /\ under_way' = [under_way EXCEPT ![op] = @ \ {id}]
      /\ under_way \in [Ops -> SUBSET Ids]
  BY DEF Finish, fifoVars, PortInv, TypeOK
<1>2. id \in Ids /\ id \in Unfinished(op)
  BY <1>1 DEF Unfinished
<1>3. id_to_op[id] = op
  BY <1>2 DEF PortInv, KindsKept
<1>4. \A o \in Ops \ {op} : id \notin Unfinished(o)
  BY <1>3 DEF PortInv, KindsKept
<1>5. \A o \in Ops \ {op} : Unfinished(o)' = Unfinished(o)
  BY <1>1 DEF Unfinished
<1>6. Unfinished(op)' = Unfinished(op) \ {id}
  BY <1>1 DEF Unfinished, PortInv, Ascending
<1> QED BY <1>2, <1>3, <1>4, <1>5, <1>6

LEMMA FinishKeeps ==
  ASSUME PortInv, NEW op \in Ops, NEW id \in under_way[op], Finish(op, id)
  PROVE  PortInv'
<1>1. /\ instr_queue' = instr_queue /\ num_read' = num_read /\ num_written' = num_written
      /\ under_way' = [under_way EXCEPT ![op] = @ \ {id}]
      /\ under_way \in [Ops -> SUBSET Ids]
      /\ UNCHANGED <<callerVars, next_instr_id, id_to_op, last_issued_id>>
      /\ notified' = notified \cup {<<"completed", op>>}
  BY DEF Finish, fifoVars, PortInv, TypeOK
<1>2. Ids' = Ids /\ Ids \subseteq Nat
  BY <1>1 DEF Ids
<1>3. /\ \A o \in Ops : Unfinished(o)' = Unfinished(o) \ {id}
      /\ id \in Ids /\ id_to_op[id] = op
  BY FinishSets
<1>4. TypeOK'
  <2>1. under_way' \in [Ops -> SUBSET Ids]
    BY <1>1
  <2>2. notified' \subseteq Events
    BY <1>1 DEF PortInv, TypeOK, Events
  <2>3. rows_remaining' \subseteq Ids /\ last_completed_id' \in [OneAtATime -> Ids \cup {0}]
    BY <1>3 DEF Finish, PortInv, TypeOK
  <2> QED BY <1>1, <1>2, <2>1, <2>2, <2>3 DEF PortInv, TypeOK, callerVars
<1>5. WritesNeverBlock' /\ KindsKept' /\ IdsGiven'
  BY <1>1, <1>2, <1>3 DEF PortInv, WritesNeverBlock, KindsKept, IdsGiven, IsIssue, callerVars
<1>6. Ascending' /\ OneUnderWay'
  BY <1>1 DEF PortInv, Ascending, OneUnderWay
<1>7. RecordsExact'
  <2> SUFFICES ASSUME NEW o \in Ops, NEW i \in Ids, id_to_op[i] = o
               PROVE  IF o \in OneAtATime
                      THEN i \in Unfinished(o)' <=> i > last_completed_id'[o]
                      ELSE /\ i <= last_issued_id'[o]
                           /\ i \in Unfinished(o)' <=> i \in rows_remaining'
    BY <1>1, <1>2 DEF RecordsExact
  <2>1. CASE o \notin OneAtATime
    <3>1. i <= last_issued_id[o] /\ (i \in Unfinished(o) <=> i \in rows_remaining)
      BY <2>1 DEF RecordsExact, PortInv
    <3>2. i \in rows_remaining' <=> i \in rows_remaining /\ i # id
      <4>1. CASE op \in OneAtATime
        BY <1>3, <2>1, <4>1 DEF Finish
      <4>2. CASE op \notin OneAtATime
        BY <4>2 DEF Finish
      <4> QED BY <4>1, <4>2
    <3> QED BY <1>1, <1>3, <2>1, <3>1, <3>2
  <2>2. CASE o \in OneAtATime /\ o # op
    <3>1. last_completed_id'[o] = last_completed_id[o] /\ i # id
      BY <1>3, <2>2 DEF Finish, PortInv, TypeOK
    <3>2. i \in Unfinished(o) <=> i > last_completed_id[o]
      BY <2>2 DEF RecordsExact, PortInv
    <3> QED BY <1>3, <2>2, <3>1, <3>2
  <2>3. CASE o \in OneAtATime /\ o = op
    <3>1. last_completed_id'[op] = id
      BY <2>3 DEF Finish, PortInv, TypeOK
    <3>2. \A j \in Ids : id_to_op[j] = op => (j \in Unfinished(op) <=> j > last_completed_id[op])
      BY <2>3 DEF RecordsExact, PortInv
    <3>3. last_completed_id[op] \in Nat /\ id > last_completed_id[op]
      <4>1. last_completed_id[op] \in Ids \cup {0}
        BY <2>3 DEF PortInv, TypeOK
      <4>2. id \in Unfinished(op)
        BY DEF Unfinished
      <4>3. id > last_completed_id[op]
        BY <1>3, <3>2, <4>2
      <4>4. last_completed_id[op] \in Nat
        BY <1>2, <4>1
      <4> QED BY <4>3, <4>4
    <3>4. ASSUME i \in Unfinished(op), i # id PROVE i > id
      <4>1. PICK k \in 1 .. Len(instr_queue[op]) : i = instr_queue[op][k]
        BY <2>3, <3>4 DEF PortInv, OneUnderWay, Unfinished
      <4> QED BY <2>3, <4>1 DEF PortInv, Ascending
    <3>5. ASSUME i > id PROVE i \in Unfinished(op)
      BY <1>2, <1>3, <2>3, <3>2, <3>3, <3>5
    <3>6. i \in Nat /\ id \in Nat
      BY <1>2, <1>3
    <3> QED BY <1>3, <2>3, <3>1, <3>4, <3>5, <3>6
  <2> QED BY <2>1, <2>2, <2>3
<1> QED BY <1>4, <1>5, <1>6, <1>7 DEF PortInv

LEMMA DeltaKeeps ==
  ASSUME PortInv, Delta
  PROVE  PortInv'
<1>1. TypeOK'
  BY DEF Delta, PortInv, TypeOK, ctrlVars, Ids
<1>2. WritesNeverBlock'
  BY SizeAssumption DEF Delta, PortInv, TypeOK, WritesNeverBlock
<1>3. (KindsKept /\ Ascending /\ OneUnderWay /\ RecordsExact /\ IdsGiven)'
  BY DEF Delta, PortInv, ctrlVars, Ids, KindsKept, Ascending, OneUnderWay, RecordsExact,
         IdsGiven, IsIssue, Unfinished
<1> QED BY <1>1, <1>2, <1>3 DEF PortInv

LEMMA NextKeeps == PortInv /\ [Next]_vars => PortInv'
<1> SUFFICES ASSUME PortInv, [Next]_vars PROVE PortInv'
  OBVIOUS
<1>1. ASSUME NEW c \in Callers, Caller(c) PROVE PortInv'
  BY <1>1, IssueKeeps, WaitCompleteKeeps DEF Caller
<1>2. ASSUME NEW op \in Ops, Controller(op) PROVE PortInv'
  BY <1>2, DequeueKeeps, FinishKeeps DEF Controller
<1>3. CASE Delta
  BY <1>3, DeltaKeeps
<1>4. CASE UNCHANGED vars
  <2>1. UNCHANGED <<callerVars, next_instr_id, id_to_op, fifoVars, ctrlVars, notified>>
    BY <1>4 DEF vars
  <2>2. TypeOK'
    BY <2>1 DEF callerVars, fifoVars, ctrlVars, PortInv, TypeOK, Ids
  <2>3. (WritesNeverBlock /\ KindsKept /\ Ascending /\ OneUnderWay)'
    BY <2>1 DEF callerVars, fifoVars, ctrlVars, PortInv, WritesNeverBlock, KindsKept, Ascending,
                OneUnderWay, Unfinished
  <2>4. (RecordsExact /\ IdsGiven)'
    BY <2>1 DEF callerVars, fifoVars, ctrlVars, PortInv, RecordsExact, IdsGiven, IsIssue, Ids,
                Unfinished
  <2> QED BY <2>2, <2>3, <2>4 DEF PortInv
<1> QED BY <1>1, <1>2, <1>3, <1>4 DEF Next

(* The invariant of the interface: FIFOs in ascending order of ids, and    *)
(* records that say exactly what is unfinished.                            *)
THEOREM PortAlways == Spec => []PortInv
<1>1. SafeSpec => []PortInv
  BY InitPort, NextKeeps, PTL DEF SafeSpec
<1> QED BY <1>1, PTL DEF Spec

(* The variables hold values of their types, for any threads and scripts.  *)
THEOREM TypeCorrect == Spec => []TypeOK
<1>1. PortInv => TypeOK
  BY DEF PortInv
<1> QED BY <1>1, PortAlways, PTL

(* The write in issue finds room, however many threads one free place woke *)
(* and whatever was taken out in this delta cycle.                         *)
THEOREM NoWriteBlocks == Spec => []WritesNeverBlock
<1>1. PortInv => WritesNeverBlock
  BY DEF PortInv
<1> QED BY <1>1, PortAlways, PTL

(* is_complete is exact, though gemms and drains are remembered by one     *)
(* number: last_gemm_completed_id and last_drain_completed_id.             *)
THEOREM CompleteIsFinished == Spec => []CompleteMeansFinished
<1>1. PortInv => CompleteMeansFinished
  BY CompleteIsExact DEF CompleteMeansFinished
<1> QED BY <1>1, PortAlways, PTL

(* An instruction that is finished stays so, and keeps its id. *)
FinishedStays ==
  /\ \A id \in Ids :
       /\ id \in Ids' /\ id_to_op'[id] = id_to_op[id]
       /\ \A op \in Ops : id \in Unfinished(op)' => id \in Unfinished(op)
  /\ \A c \in Callers : \A k \in 1 .. at[c] - 1 : ids'[c][k] = ids[c][k]

LEMMA SameStays ==
  ASSUME UNCHANGED <<next_instr_id, id_to_op, ids, instr_queue, under_way>>
  PROVE  FinishedStays
BY DEF FinishedStays, Ids, Unfinished

LEMMA IssueStays ==
  ASSUME PortInv, NEW c \in Callers, Issue(c)
  PROVE  FinishedStays
<1> DEFINE op == script[c][at[c]].op
           id == next_instr_id + 1
<1>1. CASE ~ has_room(op)
  <2>1. UNCHANGED <<next_instr_id, id_to_op, ids, instr_queue, under_way>>
    BY <1>1 DEF Issue, fifoVars, ctrlVars
  <2> QED BY <2>1, SameStays
<1>2. CASE has_room(op)
  <2>1. NewInstr(c, op, id) /\ IssueToController(op, id)
    BY <1>2 DEF Issue
  <2>2. at[c] \in 1 .. Len(script[c]) /\ IsIssue(c, at[c])
    BY DEF Issue, MayRun, Runnable, PortInv, TypeOK
  <2>3. op \in Ops
    BY <2>2, OpIsOp
  <2>4. ASSUME NEW i \in Ids
        PROVE  i \in Ids' /\ id_to_op'[i] = id_to_op[i] /\ i # id
    BY <2>1, <2>3, SMTT(40) DEF NewInstr, PortInv, TypeOK, Ids
  <2>5. ASSUME NEW i \in Ids, NEW o \in Ops, i \in Unfinished(o)' PROVE i \in Unfinished(o)
    <3>1. under_way' = under_way /\ instr_queue' = [instr_queue EXCEPT ![op] = Append(@, id)]
      BY <2>1 DEF IssueToController
    <3>2. instr_queue \in [Ops -> Seq(Ids)]
      BY DEF PortInv, TypeOK
    <3>3. CASE i \in under_way[o]
      BY <3>3 DEF Unfinished
    <3>4. CASE i \notin under_way[o]
      <4>1. PICK k \in 1 .. Len(instr_queue'[o]) : i = instr_queue'[o][k]
        BY <2>5, <3>1, <3>4 DEF Unfinished
      <4>2. k \in 1 .. Len(instr_queue[o]) /\ instr_queue[o][k] = i
        <5>1. CASE o # op
          BY <3>1, <3>2, <4>1, <5>1
        <5>2. CASE o = op
          <6>1. instr_queue'[op] = Append(instr_queue[op], id) /\ instr_queue[op] \in Seq(Ids)
            BY <2>3, <3>1, <3>2
          <6> HIDE DEF id, op
          <6> QED BY <2>4, <4>1, <5>2, <6>1
        <5> QED BY <5>1, <5>2
      <4> QED BY <4>2 DEF Unfinished
    <3> QED BY <3>3, <3>4
  <2>6. ASSUME NEW d \in Callers, NEW k \in 1 .. at[d] - 1 PROVE ids'[d][k] = ids[d][k]
    BY <2>1, <2>2 DEF NewInstr, PortInv, TypeOK
  <2> QED BY <2>4, <2>5, <2>6 DEF FinishedStays
<1> QED BY <1>1, <1>2

LEMMA NextStays == PortInv /\ [Next]_vars => FinishedStays
<1> SUFFICES ASSUME PortInv, [Next]_vars PROVE FinishedStays
  OBVIOUS
<1>1. ASSUME NEW c \in Callers, Caller(c) PROVE FinishedStays
  <2>1. CASE WaitComplete(c)
    BY <2>1, SameStays DEF WaitComplete, fifoVars, ctrlVars
  <2> QED BY <1>1, <2>1, IssueStays DEF Caller
<1>2. ASSUME NEW op \in Ops, Dequeue(op) PROVE FinishedStays
  BY <1>2, DequeueSets DEF FinishedStays, Dequeue, callerVars, Ids
<1>3. ASSUME NEW op \in Ops, NEW id \in under_way[op], Finish(op, id) PROVE FinishedStays
  <2>1. /\ \A o \in Ops : Unfinished(o)' = Unfinished(o) \ {id}
        /\ ids' = ids /\ id_to_op' = id_to_op /\ Ids' = Ids
    BY <1>3, FinishSets DEF Finish, callerVars, Ids
  <2> QED BY <2>1 DEF FinishedStays
<1>4. CASE Delta
  BY <1>4, SameStays DEF Delta, ctrlVars
<1>5. CASE UNCHANGED vars
  BY <1>5, SameStays DEF vars, callerVars, fifoVars, ctrlVars
<1> QED BY <1>1, <1>2, <1>3, <1>4, <1>5 DEF Next, Controller

(* Only a return moves a thread on, from wait_complete when it sees the    *)
(* instruction complete.                                                   *)
Moves(c) ==
  \/ at'[c] = at[c]
  \/ at'[c] = at[c] + 1 /\ IsIssue(c, at[c])
  \/ /\ at'[c] = at[c] + 1 /\ WaitComplete(c)
     /\ is_complete(ids[c][script[c][at[c]].of])

LEMMA OnlyReturnsMove ==
  ASSUME PortInv, [Next]_vars, NEW c \in Callers
  PROVE  Moves(c)
<1>0. at \in [Callers -> Nat]
  BY DEF PortInv, TypeOK
<1>1. ASSUME NEW d \in Callers, Issue(d) PROVE Moves(c)
  <2>1. IsIssue(d, at[d]) /\ (at' = [at EXCEPT ![d] = @ + 1] \/ at' = at)
    BY <1>1 DEF Issue, Return, Wait
  <2> QED BY <1>0, <2>1 DEF Moves
<1>2. ASSUME NEW d \in Callers, WaitComplete(d) PROVE Moves(c)
  <2>1. CASE is_complete(ids[d][script[d][at[d]].of])
    <3>1. at' = [at EXCEPT ![d] = @ + 1]
      BY <1>2, <2>1 DEF WaitComplete, Return
    <3> QED BY <1>0, <1>2, <2>1, <3>1 DEF Moves
  <2>2. CASE ~ is_complete(ids[d][script[d][at[d]].of])
    BY <1>2, <2>2 DEF WaitComplete, Wait, Moves
  <2> QED BY <2>1, <2>2
<1>3. ASSUME UNCHANGED at PROVE Moves(c)
  BY <1>3 DEF Moves
<1>4. ASSUME NEW op \in Ops, Controller(op) PROVE UNCHANGED at
  BY <1>4 DEF Controller, Dequeue, Finish, callerVars
<1>5. CASE Delta
  BY <1>3, <1>5 DEF Delta
<1>6. CASE UNCHANGED vars
  BY <1>3, <1>6 DEF vars, callerVars
<1> QED BY <1>1, <1>2, <1>3, <1>4, <1>5, <1>6 DEF Next, Caller

LEMMA ScriptStays == [Next]_vars => script' = script
BY DEF Next, Caller, Controller, Issue, WaitComplete, Return, Wait, Dequeue, Finish, Delta,
       vars, callerVars

(* The same, with a name for the instruction that was waited for. *)
AwaitedIsFinished(c, k) ==
  \E id \in Ids : \E op \in Ops :
    id = ids[c][script[c][k].of] /\ op = id_to_op[id] /\ id \notin Unfinished(op)

AllAwaitedFinished ==
  \A c \in Callers : \A k \in 1 .. at[c] - 1 : ~ IsIssue(c, k) => AwaitedIsFinished(c, k)

LEMMA AwaitedSuffices == AllAwaitedFinished => WaitMeansFinished
<1> SUFFICES ASSUME AllAwaitedFinished, NEW c \in Callers, NEW k \in 1 .. at[c] - 1, ~ IsIssue(c, k)
             PROVE  LET id == ids[c][script[c][k].of]
                    IN  id \in Ids /\ id \notin Unfinished(id_to_op[id])
  BY Zenon DEF WaitMeansFinished
<1>1. PICK id \in Ids : \E op \in Ops :
        id = ids[c][script[c][k].of] /\ op = id_to_op[id] /\ id \notin Unfinished(op)
  BY DEF AllAwaitedFinished, AwaitedIsFinished
<1>2. QED
  BY <1>1

LEMMA WaitsKept == PortInv /\ WaitMeansFinished /\ [Next]_vars => AllAwaitedFinished'
<1> SUFFICES ASSUME PortInv, WaitMeansFinished, [Next]_vars
             PROVE  AllAwaitedFinished'
  OBVIOUS
<1>0. script' = script
  BY ScriptStays
<1> SUFFICES ASSUME NEW c \in Callers, NEW k \in 1 .. at'[c] - 1, ~ IsIssue(c, k)
             PROVE  \E id \in Ids' : \E op \in Ops :
                      /\ id = ids'[c][script[c][k].of] /\ op = id_to_op'[id]
                      /\ id \notin Unfinished(op)'
  BY <1>0, Zenon DEF AllAwaitedFinished, AwaitedIsFinished, IsIssue, Unfinished
<1> DEFINE j == script[c][k].of
<1>1. FinishedStays
  BY NextStays
<1>2. at[c] \in 1 .. Len(script[c]) + 1 /\ Len(script[c]) \in Nat /\ at[c] \in Nat
  BY ScriptIsOne DEF PortInv, TypeOK
<1>3. Moves(c)
  BY OnlyReturnsMove
<1>4. CASE k \in 1 .. at[c] - 1
  <2>1. k \in 1 .. Len(script[c])
    BY <1>2, <1>4
  <2>2. j \in 1 .. k - 1
    BY <2>1, WaitIsForIssue
  <2>3. j \in 1 .. at[c] - 1
    BY <1>2, <1>4, <2>2
  <2>4. PICK id \in Ids : id = ids[c][j]
    BY <1>4 DEF WaitMeansFinished
  <2>5. PICK op \in Ops : op = id_to_op[id]
    BY DEF PortInv, TypeOK, Ids
  <2>6. id \notin Unfinished(op)
    BY <1>4, <2>4, <2>5 DEF WaitMeansFinished
  <2>7. ids'[c][j] = id /\ id \in Ids' /\ id_to_op'[id] = op /\ id \notin Unfinished(op)'
    BY <1>1, <2>3, <2>4, <2>5, <2>6 DEF FinishedStays
  <2> QED BY <2>7
<1>5. CASE k \notin 1 .. at[c] - 1
  <2>1. k = at[c] /\ at'[c] = at[c] + 1
    BY <1>2, <1>3, <1>5 DEF Moves
  <2>2. WaitComplete(c) /\ is_complete(ids[c][j])
    BY <1>2, <1>3, <2>1 DEF Moves
  <2>3. k \in 1 .. Len(script[c])
    BY <2>1, <2>2 DEF WaitComplete, MayRun, Runnable, PortInv, TypeOK
  <2>4. j \in 1 .. at[c] - 1 /\ IsIssue(c, j)
    BY <2>1, <2>3, WaitIsForIssue
  <2>5. PICK id \in Ids : id = ids[c][j]
    BY <2>4 DEF IdsGiven, PortInv
  <2>6. PICK op \in Ops : op = id_to_op[id]
    BY DEF PortInv, TypeOK, Ids
  <2>7. id \notin Unfinished(op)
    BY <2>2, <2>5, <2>6, CompleteIsExact
  <2>8. ids'[c][j] = id /\ id \in Ids' /\ id_to_op'[id] = op /\ id \notin Unfinished(op)'
    BY <1>1, <2>4, <2>5, <2>6, <2>7 DEF FinishedStays
  <2> QED BY <2>8
<1> QED BY <1>4, <1>5

(* wait_complete returns for finished instructions only, for any threads,  *)
(* scripts and order of completions.                                       *)
THEOREM WaitIsForFinished == Spec => []WaitMeansFinished
<1>1. Init => WaitMeansFinished
  BY DEF Init, WaitMeansFinished
<1>2. SafeSpec => []WaitMeansFinished
  <2>1. SafeSpec => []PortInv
    BY InitPort, NextKeeps, PTL DEF SafeSpec
  <2> QED BY <1>1, <2>1, WaitsKept, AwaitedSuffices, PTL DEF SafeSpec
<1> QED BY <1>2, PTL DEF Spec
-----------------------------------------------------------------------------
(* Scheduler C.  What is specific to its list of 72 entries is in three    *)
(* constant formulas of ScheduleC (CallsFollowOrder, WaitsSuffice and      *)
(* WaitsForAll), which TLC evaluates; what follows from them in every      *)
(* interleaving is proved.                                                 *)

(* Entry i gets id i, when its call returns. *)
EntriesNumbered ==
  RunsSchedule =>
    /\ next_instr_id \in 0 .. Len(Order)
    /\ \A i \in DOMAIN Order : CallOf(i) < at[scheduler] <=> i <= next_instr_id
    /\ \A i \in Ids : ids[scheduler][CallOf(i)] = i /\ id_to_op[i] = Instr(i).op

LEMMA OrderIsSequence ==
  /\ Len(Order) \in Nat /\ DOMAIN Order = 1 .. Len(Order)
BY DEF Order, Tile_0_0, Tile_1_0, Tile_0_2, Tile_1_2, Tile_2_0, Tile_0_1, Tile_1_1, Tile_2_1, Tile_2_2

LEMMA CallsAreCalls ==
  ASSUME HasScheduler
  PROVE  /\ ScheduleScript[scheduler] = ScheduleCalls /\ ScheduleCalls \in Seq(Calls)
         /\ DOMAIN ScheduleCalls = 1 .. Len(ScheduleCalls) /\ Len(ScheduleCalls) \in Nat
<1>1. ScheduleScript[scheduler] = ScheduleCalls
  BY DEF HasScheduler, ScheduleScript
<1>2. ScheduleScript \in [Callers -> Seq(Calls)]
  BY ScriptAssumption DEF HasScheduler
<1>3. ScheduleCalls \in Seq(Calls)
  BY <1>1, <1>2 DEF HasScheduler
<1>4. QED
  BY <1>1, <1>3

LEMMA CallsOfEntries ==
  ASSUME HasScheduler, CallsFollowOrder, NEW i \in DOMAIN Order
  PROVE  /\ i \in Nat \ {0} /\ CallOf(i) \in Nat \ {0} /\ CallOf(i) \in 1 .. Len(ScheduleCalls)
         /\ ScheduleCalls[CallOf(i)].call = "issue" /\ ScheduleCalls[CallOf(i)].op = Instr(i).op
         /\ \A j \in DOMAIN Order : CallOf(j) < CallOf(i) <=> j < i
<1> DEFINE n == Len(ScheduleCalls)
<1>1. n \in Nat /\ DOMAIN ScheduleCalls = 1 .. n
  BY CallsAreCalls
<1>2. \A j \in DOMAIN Order : j \in Nat \ {0}
  BY OrderIsSequence
<1>3. \A j \in DOMAIN Order : CallOf(j) \in 1 .. n
  BY <1>1 DEF CallsFollowOrder
<1>4. \A j \in DOMAIN Order : CallOf(j) \in Nat \ {0}
  BY <1>1, <1>3
<1>5. ScheduleCalls[CallOf(i)] = [call |-> "issue", op |-> Instr(i).op]
  BY DEF CallsFollowOrder
<1>6. \A j, k \in DOMAIN Order : j < k => CallOf(j) < CallOf(k)
  BY DEF CallsFollowOrder
<1>7. ASSUME NEW j \in DOMAIN Order PROVE CallOf(j) < CallOf(i) <=> j < i
  <2>1. j < i \/ i < j \/ i = j
    BY <1>2
  <2>2. j \in Nat /\ i \in Nat /\ CallOf(i) \in Nat /\ CallOf(j) \in Nat
    BY <1>2, <1>4
  <2>3. /\ j < i => CallOf(j) < CallOf(i)
        /\ i < j => CallOf(i) < CallOf(j)
    BY <1>6
  <2>4. QED
    BY <2>1, <2>2, <2>3
<1>8. QED
  BY <1>2, <1>3, <1>4, <1>5, <1>7

LEMMA WhereSchedulerIs ==
  ASSUME HasScheduler, PortInv, RunsSchedule
  PROVE  /\ scheduler \in Callers /\ script[scheduler] = ScheduleCalls
         /\ at[scheduler] \in Nat /\ at[scheduler] \in 1 .. Len(ScheduleCalls) + 1
<1>1. scheduler \in Callers
  BY DEF HasScheduler
<1>2. script[scheduler] = ScheduleCalls
  BY CallsAreCalls DEF RunsSchedule
<1>3. at[scheduler] \in 1 .. Len(script[scheduler]) + 1 /\ at \in [Callers -> Nat]
  BY <1>1 DEF PortInv, TypeOK
<1>4. QED
  BY <1>1, <1>2, <1>3

LEMMA InitNumbered == ASSUME HasScheduler, CallsFollowOrder PROVE Init => EntriesNumbered
<1> SUFFICES ASSUME Init, RunsSchedule PROVE EntriesNumbered
  BY DEF EntriesNumbered
<1>1. at[scheduler] = 1 /\ next_instr_id = 0 /\ Ids = {}
  BY DEF Init, HasScheduler, Ids
<1>2. \A i \in DOMAIN Order : i \in Nat \ {0} /\ CallOf(i) \in Nat \ {0}
  BY CallsOfEntries
<1>3. QED
  BY <1>1, <1>2, OrderIsSequence DEF EntriesNumbered

(* A step that issues nothing and passes no call that issues *)
LEMMA SameNumbers ==
  ASSUME HasScheduler, CallsFollowOrder, EntriesNumbered, script' = script,
         UNCHANGED <<ids, next_instr_id, id_to_op>>,
         at'[scheduler] = at[scheduler] \/
           (/\ at'[scheduler] = at[scheduler] + 1 /\ at[scheduler] \in Nat
            /\ ~ IsIssue(scheduler, at[scheduler]))
  PROVE  EntriesNumbered'
<1> SUFFICES ASSUME RunsSchedule PROVE EntriesNumbered'
  BY DEF EntriesNumbered, RunsSchedule
<1>1. Ids' = Ids /\ script[scheduler] = ScheduleCalls
  BY CallsAreCalls DEF Ids, RunsSchedule
<1>2. ASSUME NEW i \in DOMAIN Order
      PROVE  CallOf(i) < at'[scheduler] <=> CallOf(i) < at[scheduler]
  <2>1. CallOf(i) \in Nat /\ ScheduleCalls[CallOf(i)].call = "issue"
    BY CallsOfEntries
  <2>2. CASE at'[scheduler] = at[scheduler]
    BY <2>2
  <2>3. CASE /\ at'[scheduler] = at[scheduler] + 1 /\ at[scheduler] \in Nat
             /\ ~ IsIssue(scheduler, at[scheduler])
    <3>1. CallOf(i) # at[scheduler]
      BY <1>1, <2>1, <2>3 DEF IsIssue
    <3>2. QED
      BY <2>1, <2>3, <3>1
  <2>4. QED
    BY <2>2, <2>3
<1>3. QED
  BY <1>1, <1>2 DEF EntriesNumbered, RunsSchedule

(* The call that issues passes the first entry not issued yet. *)
LEMMA IssueNumbers ==
  ASSUME HasScheduler, CallsFollowOrder, EntriesNumbered, PortInv, NEW c \in Callers, Issue(c)
  PROVE  EntriesNumbered'
<1>0. script' = script /\ at \in [Callers -> Nat] /\ scheduler \in Callers
  BY DEF Issue, Return, Wait, PortInv, TypeOK, HasScheduler
<1>1. CASE UNCHANGED <<ids, next_instr_id, id_to_op, at>>
  BY <1>0, <1>1, SameNumbers
<1>2. CASE ~ UNCHANGED <<ids, next_instr_id, id_to_op, at>>
  <2> SUFFICES ASSUME RunsSchedule PROVE EntriesNumbered'
    BY <1>0 DEF EntriesNumbered, RunsSchedule
  <2> DEFINE k == at[scheduler]
             n == next_instr_id + 1
  <2>1. c = scheduler
    <3>1. c # scheduler => script[c] = << >>
      BY DEF RunsSchedule, ScheduleScript
    <3>2. at[c] \in 1 .. Len(script[c])
      BY DEF Issue, MayRun, Runnable, PortInv, TypeOK
    <3>3. QED
      BY <3>1, <3>2
  <2>2. script[scheduler] = ScheduleCalls /\ k \in 1 .. Len(ScheduleCalls)
    BY <2>1, CallsAreCalls DEF RunsSchedule, Issue, MayRun, Runnable, PortInv, TypeOK
  <2>3. has_room(script[c][at[c]].op)
    BY <1>2 DEF Issue, Wait
  <2>4. NewInstr(c, script[c][at[c]].op, n) /\ Return(c)
    BY <2>3 DEF Issue
  <2>5. PICK i \in DOMAIN Order : CallOf(i) = k
    BY <2>1, <2>2, CallsAreCalls DEF Issue, IsIssue, CallsFollowOrder
  <2>6. /\ next_instr_id \in 0 .. Len(Order)
        /\ \A j \in DOMAIN Order : CallOf(j) < k <=> j <= next_instr_id
        /\ \A j \in Ids : ids[scheduler][CallOf(j)] = j /\ id_to_op[j] = Instr(j).op
    BY DEF EntriesNumbered
  <2>7. \A j \in DOMAIN Order : CallOf(j) \in Nat /\ (CallOf(j) < CallOf(i) <=> j < i)
    BY CallsOfEntries
  <2>8. \A j \in DOMAIN Order : j < i <=> j <= next_instr_id
    BY <2>5, <2>6, <2>7
  <2>9. i = n
    <3>1. i \in 1 .. Len(Order)
      BY OrderIsSequence
    <3>2. ~ i <= next_instr_id
      BY <2>8, <3>1
    <3>3. n \in DOMAIN Order => ~ n < i
      BY <2>6, <2>8
    <3>4. QED
      BY <2>6, <3>1, <3>2, <3>3, OrderIsSequence
  <2>10. ScheduleCalls[k].op = Instr(i).op
    BY <2>5, CallsOfEntries
  <2>11. at'[scheduler] = k + 1 /\ next_instr_id' = n
    BY <1>0, <2>1, <2>4 DEF Return, NewInstr
  <2>12. \A j \in DOMAIN Order : CallOf(j) < k + 1 <=> j <= n
    <3>1. \A j \in DOMAIN Order : j \in Nat /\ CallOf(j) \in Nat
      BY <2>7, OrderIsSequence
    <3>2. \A j \in DOMAIN Order : CallOf(j) = k <=> j = i
      BY <2>5, <2>7, <3>1, OrderIsSequence DEF CallsFollowOrder
    <3>3. QED
      BY <2>2, <2>5, <2>6, <2>9, <3>1, <3>2
  <2>13. \A j \in Ids' : ids'[scheduler][CallOf(j)] = j /\ id_to_op'[j] = Instr(j).op
    <3>1. DOMAIN ids = Callers /\ ids[scheduler] \in [1 .. Len(ScheduleCalls) -> Ids \cup {0}]
      BY <1>0, <2>2 DEF PortInv, TypeOK
    <3>2. ids'[scheduler] = [ids[scheduler] EXCEPT ![k] = n]
      BY <2>1, <2>4, <3>1 DEF NewInstr
    <3>3. id_to_op \in Seq(Ops) /\ Len(id_to_op) = next_instr_id
      BY DEF PortInv, TypeOK
    <3>4. /\ id_to_op' = Append(id_to_op, ScheduleCalls[k].op)
      BY <2>1, <2>2, <2>4 DEF NewInstr
    <3>5. id_to_op'[n] = ScheduleCalls[k].op /\ \A j \in Ids : id_to_op'[j] = id_to_op[j]
      BY <3>3, <3>4 DEF Ids
    <3>6. Ids' = Ids \cup {n} /\ Ids \subseteq DOMAIN Order
      BY <2>6, <2>11, OrderIsSequence DEF Ids
    <3>7. \A j \in Ids : j < i
      BY <2>6, <2>9 DEF Ids
    <3>8. ASSUME NEW j \in Ids PROVE ids'[scheduler][CallOf(j)] = j
      <4>1. CallOf(j) # k
        BY <2>5, <2>7, <3>6, <3>7
      <4>2. QED
        BY <2>6, <3>1, <3>2, <4>1
    <3>9. ids'[scheduler][CallOf(n)] = n
      BY <2>2, <2>5, <2>9, <3>1, <3>2
    <3>10. QED
      BY <2>6, <2>9, <2>10, <3>5, <3>6, <3>8, <3>9
  <2>14. QED
    BY <2>6, <2>9, <2>11, <2>12, <2>13, OrderIsSequence DEF EntriesNumbered
<1>3. QED
  BY <1>1, <1>2

LEMMA NextNumbers ==
  ASSUME HasScheduler, CallsFollowOrder
  PROVE  EntriesNumbered /\ PortInv /\ [Next]_vars => EntriesNumbered'
<1> SUFFICES ASSUME EntriesNumbered, PortInv, [Next]_vars PROVE EntriesNumbered'
  OBVIOUS
<1>1. script' = script /\ at \in [Callers -> Nat] /\ scheduler \in Callers
  BY ScriptStays DEF PortInv, TypeOK, HasScheduler
<1>2. ASSUME NEW c \in Callers, Issue(c) PROVE EntriesNumbered'
  BY <1>2, IssueNumbers
<1>3. ASSUME NEW c \in Callers, WaitComplete(c) PROVE EntriesNumbered'
  <2>0. ~ IsIssue(c, at[c])
    BY <1>3, Zenon DEF WaitComplete
  <2>1. UNCHANGED <<ids, next_instr_id, id_to_op>>
    BY <1>3, Zenon DEF WaitComplete
  <2>2. at' = at \/ at' = [at EXCEPT ![c] = @ + 1]
    BY <1>3 DEF WaitComplete, Return, Wait
  <2>3. at'[scheduler] = at[scheduler] \/ (c = scheduler /\ at'[scheduler] = at[scheduler] + 1)
    BY <1>1, <2>2
  <2>4. QED
    BY <1>1, <2>0, <2>1, <2>3, SameNumbers
<1>4. CASE UNCHANGED <<ids, next_instr_id, id_to_op, at>>
  BY <1>1, <1>4, SameNumbers
<1>5. ASSUME NEW op \in Ops, Controller(op) PROVE UNCHANGED <<ids, next_instr_id, id_to_op, at>>
  BY <1>5 DEF Controller, Dequeue, Finish, callerVars
<1>6. Delta \/ UNCHANGED vars => UNCHANGED <<ids, next_instr_id, id_to_op, at>>
  BY DEF Delta, vars, callerVars
<1>7. QED
  BY <1>2, <1>3, <1>4, <1>5, <1>6 DEF Next, Caller

ScheduleInv == PortInv /\ WaitMeansFinished /\ EntriesNumbered

LEMMA ScheduleAlways ==
  ASSUME HasScheduler, CallsFollowOrder PROVE Spec => []ScheduleInv
<1>1. Spec => []EntriesNumbered
  <2>1. SafeSpec => []PortInv
    BY InitPort, NextKeeps, PTL DEF SafeSpec
  <2>2. SafeSpec => []EntriesNumbered
    BY <2>1, InitNumbered, NextNumbers, PTL DEF SafeSpec
  <2>3. QED
    BY <2>2, PTL DEF Spec
<1>2. PortInv /\ WaitMeansFinished /\ EntriesNumbered => ScheduleInv
  BY DEF ScheduleInv
<1>3. QED
  BY <1>1, <1>2, PortAlways, WaitIsForFinished, PTL

(* What schedule() has waited for is finished. *)
LEMMA AwaitedFinished ==
  ASSUME HasScheduler, CallsFollowOrder, ScheduleInv, RunsSchedule,
         NEW k \in Nat, k <= at[scheduler], NEW i \in DOMAIN Order, AwaitedBefore(k, i)
  PROVE  i \in Ids /\ i \notin Unfinished(Instr(i).op)
<1>1. PICK w \in 1 .. k - 1 : ScheduleCalls[w] = [call |-> "wait", of |-> CallOf(i)]
  BY DEF AwaitedBefore
<1>2. scheduler \in Callers /\ at[scheduler] \in Nat /\ script[scheduler] = ScheduleCalls
  BY WhereSchedulerIs DEF ScheduleInv
<1>3. w \in 1 .. at[scheduler] - 1 /\ ~ IsIssue(scheduler, w) /\ script[scheduler][w].of = CallOf(i)
  BY <1>1, <1>2 DEF IsIssue
<1>4. at[scheduler] - 1 <= Len(ScheduleCalls) /\ Len(ScheduleCalls) \in Nat
  BY <1>2, CallsAreCalls, WhereSchedulerIs DEF ScheduleInv
<1>5. CallOf(i) \in 1 .. w - 1
  <2>1. w \in 1 .. Len(script[scheduler])
    BY <1>2, <1>3, <1>4
  <2>2. QED
    BY <1>2, <1>3, <2>1, WaitIsForIssue DEF ScheduleInv
<1>6. i \in Ids
  <2>1. CallOf(i) < at[scheduler]
    BY <1>2, <1>3, <1>5
  <2>2. i <= next_instr_id /\ next_instr_id \in Nat
    BY <2>1 DEF ScheduleInv, EntriesNumbered
  <2>3. QED
    BY <2>2, OrderIsSequence DEF Ids
<1>7. ids[scheduler][CallOf(i)] = i /\ id_to_op[i] = Instr(i).op
  BY <1>6 DEF ScheduleInv, EntriesNumbered
<1>8. QED
  BY <1>2, <1>3, <1>6, <1>7 DEF ScheduleInv, WaitMeansFinished

(* No instruction of scheduler C begins before those whose results it      *)
(* works on are complete, for FIFOs of any depth, any number of mvins and  *)
(* mvouts under way, and any order in which these finish.                  *)
THEOREM OperandsAlwaysReady ==
  ASSUME HasScheduler, CallsFollowOrder, WaitsSuffice
  PROVE  Spec => []OperandsReady
<1>1. ScheduleInv => OperandsReady
  <2> SUFFICES ASSUME ScheduleInv, RunsSchedule, NEW op \in Ops, NEW id \in under_way[op],
                      NEW x \in Inputs(Instr(id))
               PROVE  Finished(x)
    BY DEF OperandsReady
  <2>1. id \in Ids /\ id_to_op[id] = op
    BY DEF ScheduleInv, PortInv, TypeOK, KindsKept, Unfinished
  <2>2. id \in DOMAIN Order /\ Instr(id).op = op /\ CallOf(id) < at[scheduler]
    BY <2>1, OrderIsSequence DEF ScheduleInv, EntriesNumbered, Ids
  <2>3. PICK i \in 1 .. id - 1 :
          Instr(i) = x /\ (AwaitedBefore(CallOf(id), i) \/ AheadInFifo(i, id))
    BY <2>2 DEF WaitsSuffice
  <2>4. i \in DOMAIN Order /\ i \in Ids /\ i < id /\ i \in Nat /\ id \in Nat
    BY <2>1, <2>2, OrderIsSequence DEF Ids, ScheduleInv, EntriesNumbered
  <2>5. i \notin Unfinished(x.op)
    <3>1. CASE AwaitedBefore(CallOf(id), i)
      <4>1. CallOf(id) \in Nat /\ CallOf(id) <= at[scheduler]
        BY <2>2, CallsOfEntries, WhereSchedulerIs DEF ScheduleInv
      <4>2. QED
        BY <2>3, <2>4, <3>1, <4>1, AwaitedFinished
    <3>2. CASE AheadInFifo(i, id)
      <4>1. x.op = op /\ op \in OneAtATime
        BY <2>2, <2>3, <3>2 DEF AheadInFifo
      <4>2. i \notin under_way[op]
        BY <2>4, <4>1 DEF ScheduleInv, PortInv, OneUnderWay
      <4>3. \A n \in 1 .. Len(instr_queue[op]) : id < instr_queue[op][n]
        BY <4>1 DEF ScheduleInv, PortInv, Ascending
      <4>4. \A n \in 1 .. Len(instr_queue[op]) : i # instr_queue[op][n]
        BY <2>4, <4>3
      <4>5. QED
        BY <4>1, <4>2, <4>4 DEF Unfinished
    <3>3. QED
      BY <2>3, <3>1, <3>2
  <2>6. QED
    BY <2>3, <2>4, <2>5 DEF Finished
<1>2. QED
  BY <1>1, ScheduleAlways, PTL

(* schedule() returns once every instruction of the product has completed, *)
(* each issued once, though it waits at the end for the mvouts only.       *)
THEOREM ReturnsAlwaysComplete ==
  ASSUME HasScheduler, CallsFollowOrder, WaitsForAll
  PROVE  Spec => []ReturnsWhenComplete
<1>1. ASSUME ScheduleInv, RunsSchedule, at[scheduler] > Len(ScheduleCalls)
      PROVE  next_instr_id = Len(Order) /\ \A x \in Entries : Finished(x)
  <2>1. Len(ScheduleCalls) \in Nat /\ at[scheduler] \in Nat /\ Len(Order) \in Nat
    BY <1>1, CallsAreCalls, WhereSchedulerIs, OrderIsSequence DEF ScheduleInv
  <2>2. \A i \in DOMAIN Order : i <= next_instr_id
    <3>1. \A i \in DOMAIN Order : CallOf(i) \in 1 .. Len(ScheduleCalls)
      BY CallsOfEntries
    <3>2. \A i \in DOMAIN Order : CallOf(i) < at[scheduler]
      BY <1>1, <2>1, <3>1
    <3>3. QED
      BY <1>1, <3>2 DEF ScheduleInv, EntriesNumbered
  <2>3. next_instr_id = Len(Order)
    <3>1. next_instr_id \in 0 .. Len(Order)
      BY <1>1 DEF ScheduleInv, EntriesNumbered
    <3>2. Len(Order) > 0 => Len(Order) \in DOMAIN Order
      BY <2>1, OrderIsSequence
    <3>3. QED
      BY <2>1, <2>2, <3>1, <3>2
  <2>4. DOMAIN Order = Ids
    BY <2>3, OrderIsSequence DEF Ids
  <2>5. ASSUME NEW i \in DOMAIN Order PROVE i \notin Unfinished(Instr(i).op)
    <3>1. PICK j \in DOMAIN Order :
            AwaitedBefore(Len(ScheduleCalls) + 1, j) /\ (i = j \/ AheadInFifo(i, j))
      BY DEF WaitsForAll
    <3>2. j \notin Unfinished(Instr(j).op)
      <4>1. Len(ScheduleCalls) + 1 \in Nat /\ Len(ScheduleCalls) + 1 <= at[scheduler]
        BY <1>1, <2>1
      <4>2. QED
        BY <1>1, <3>1, <4>1, AwaitedFinished
    <3>3. CASE AheadInFifo(i, j)
      <4> DEFINE op == Instr(j).op
      <4>1. op \in OneAtATime /\ op \in Ops /\ i <= j /\ Instr(i).op = op
        BY <3>3 DEF AheadInFifo, OneAtATime, Ops
      <4>2. id_to_op[i] = op /\ id_to_op[j] = op
        BY <1>1, <2>4, <4>1 DEF ScheduleInv, EntriesNumbered
      <4>3. last_completed_id[op] \in Nat /\ i \in Nat /\ j \in Nat
        <5>1. last_completed_id \in [OneAtATime -> Ids \cup {0}] /\ next_instr_id \in Nat
          BY <1>1 DEF ScheduleInv, PortInv, TypeOK
        <5>2. QED
          BY <2>4, <4>1, <5>1 DEF Ids
      <4>4. ~ j > last_completed_id[op]
        BY <1>1, <2>4, <3>2, <4>1, <4>2 DEF ScheduleInv, PortInv, RecordsExact
      <4>5. ~ i > last_completed_id[op]
        BY <4>1, <4>3, <4>4
      <4>6. QED
        BY <1>1, <2>4, <4>1, <4>2, <4>5 DEF ScheduleInv, PortInv, RecordsExact
    <3>4. QED
      BY <3>1, <3>2, <3>3
  <2>6. QED
    BY <2>3, <2>4, <2>5 DEF Entries, Finished
<1>2. ScheduleInv => ReturnsWhenComplete
  <2> SUFFICES ASSUME ScheduleInv, RunsSchedule, at[scheduler] > Len(ScheduleCalls)
               PROVE  ReturnsWhenComplete
    BY DEF ReturnsWhenComplete
  <2>1. \A x \in Entries : Finished(x)
    BY <1>1
  <2>2. \A i, j \in Dims : Finished(A(i, j)) /\ Finished(B(i, j)) /\ Finished(C(i, j))
    <3>1. \A i, j \in Dims : A(i, j) \in Entries /\ B(i, j) \in Entries /\ C(i, j) \in Entries
      BY DEF WaitsForAll
    <3>2. QED
      BY <2>1, <3>1
  <2>3. ASSUME NEW mt \in Dims, NEW nt \in Dims
        PROVE  \E p \in 0 .. 1 :
                 /\ Finished(F(mt, nt, p)) /\ Finished(D(mt, nt, p))
                 /\ \A kt \in Dims : Finished(G(mt, kt, nt, p))
    <3>1. PICK p \in 0 .. 1 :
            {F(mt, nt, p), D(mt, nt, p)} \cup {G(mt, kt, nt, p) : kt \in Dims} \subseteq Entries
      BY DEF WaitsForAll
    <3>2. /\ F(mt, nt, p) \in Entries /\ D(mt, nt, p) \in Entries
          /\ \A kt \in Dims : G(mt, kt, nt, p) \in Entries
      BY <3>1
    <3>3. QED
      BY <2>1, <3>2
  <2>4. next_instr_id = 5 * Cardinality(Dims \X Dims) + Cardinality(Dims \X Dims \X Dims)
    BY <1>1 DEF WaitsForAll
  <2>5. QED
    BY <2>2, <2>3, <2>4 DEF ReturnsWhenComplete
<1>3. QED
  BY <1>2, ScheduleAlways, PTL
=============================================================================
