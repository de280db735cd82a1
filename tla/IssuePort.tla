----------------------------- MODULE IssuePort -----------------------------
(***************************************************************************)
(* The instruction interface of TopModule (src/module/top_module.cpp):     *)
(* mvin, mvout, gemm and drain wait until the controller's FIFO has room,  *)
(* number the instruction and hand it over; wait_complete waits until it   *)
(* is complete.  Any number of SystemC threads call them.                  *)
(*                                                                         *)
(* A thread runs until it waits: running is the one that does.  What a     *)
(* process writes to a FIFO, takes from it or notifies with SC_ZERO_TIME   *)
(* shows at the end of the delta cycle (Delta), once no process can run; a *)
(* notification reaches only those that wait for it then.                  *)
(*                                                                         *)
(* Controllers are what their modules provide: the load and the store      *)
(* controller may have several instructions under way and finish them in   *)
(* any order, the exec controller has one gemm and one drain.  Each keeps  *)
(* its own record of what is complete.                                     *)
(***************************************************************************)
EXTENDS Naturals, Sequences, FiniteSets

CONSTANTS
  Callers,           \* threads that use the interface
  Scripts,           \* what they may do: s[c], for s in Scripts, is the
                     \* sequence of calls c makes, [call |-> "issue", op |->
                     \* kind] or [call |-> "wait", of |-> k], where k is the
                     \* place in the sequence of an issue
  INSTR_QUEUE_SIZE,  \* depth of each controller's FIFO
  MAX_UNDER_WAY,     \* bound on the mvins, and on the mvouts, under way
  NULL               \* no thread, no event

Ops == {"Mvin", "Mvout", "Gemm", "Drain"}

(* Kinds of which the controller has at most one under way *)
OneAtATime == {"Gemm", "Drain"}

Calls == [call : {"issue"}, op : Ops] \cup [call : {"wait"}, of : Nat]

ASSUME SizeAssumption == INSTR_QUEUE_SIZE \in Nat \ {0} /\ MAX_UNDER_WAY \in Nat \ {0}
ASSUME NullAssumption == NULL \notin Callers
ASSUME ScriptAssumption ==
  \A s \in Scripts :
    /\ s \in [Callers -> Seq(Calls)]
    /\ \A c \in Callers : \A k \in 1 .. Len(s[c]) :
         s[c][k].call # "issue" =>
           s[c][k].of \in 1 .. k - 1 /\ s[c][s[c][k].of].call = "issue"

(* The events of the controllers *)
Events == {"room_freed", "completed"} \X Ops

VARIABLES
  (* the callers *)
  script,           \* the script this run follows
  at,               \* at[c], the call c makes next
  ids,              \* ids[c][k], the id call k returned, 0 before
  waits_for,        \* waits_for[c], the event of c's last wait in this call
  blocked,          \* the callers that wait
  running,          \* the caller that has not waited yet, or NULL
  (* TopModule *)
  next_instr_id,    \* the last id handed out
  id_to_op,         \* id_to_op[id]
  (* the FIFOs: what is in them, how many of these were written in this    *)
  (* delta cycle, and how many were taken out in it                        *)
  instr_queue, num_written, num_read,
  (* the controllers *)
  under_way,        \* under_way[op], ids dequeued and not finished
  rows_remaining,   \* ids of mvins and mvouts that have rows left
  last_issued_id,   \* of mvins and mvouts
  last_completed_id,\* of gemms and drains
  notified          \* events notified in this delta cycle

callerVars == <<script, at, ids, waits_for, blocked, running>>
fifoVars   == <<instr_queue, num_written, num_read>>
ctrlVars   == <<under_way, rows_remaining, last_issued_id, last_completed_id>>
vars == <<callerVars, next_instr_id, id_to_op, fifoVars, ctrlVars, notified>>

Init ==
  /\ script \in Scripts
  /\ at = [c \in Callers |-> 1]
  /\ ids = [c \in Callers |-> [k \in 1 .. Len(script[c]) |-> 0]]
  /\ waits_for = [c \in Callers |-> NULL]
  /\ blocked = {}
  /\ running = NULL
  /\ next_instr_id = 0
  /\ id_to_op = << >>
  /\ instr_queue = [op \in Ops |-> << >>]
  /\ num_written = [op \in Ops |-> 0]
  /\ num_read = [op \in Ops |-> 0]
  /\ under_way = [op \in Ops |-> {}]
  /\ rows_remaining = {}
  /\ last_issued_id = [op \in Ops \ OneAtATime |-> 0]
  /\ last_completed_id = [op \in OneAtATime |-> 0]
  /\ notified = {}
-----------------------------------------------------------------------------
IsIssue(c, k) == script[c][k].call = "issue"

(* Mutant: a place counts as free in the delta cycle it is freed in. *)
has_room_AtOnce(op) == Len(instr_queue[op]) < INSTR_QUEUE_SIZE

(* has_room, num_free() > 0 of the FIFO *)
has_room(op) == Len(instr_queue[op]) + num_read[op] < INSTR_QUEUE_SIZE

is_complete(id) ==
  LET op == id_to_op[id]
  IN  IF op \in OneAtATime
      THEN id <= last_completed_id[op]
      ELSE id <= last_issued_id[op] /\ id \notin rows_remaining

Runnable(c) == c \notin blocked /\ at[c] <= Len(script[c])

MayRun(c) == running \in {c, NULL} /\ Runnable(c)

(* c goes on with its next call, or ends. *)
Return(c) ==
  /\ at' = [at EXCEPT ![c] = @ + 1]
  /\ waits_for' = [waits_for EXCEPT ![c] = NULL]
  /\ running' = IF at[c] < Len(script[c]) THEN c ELSE NULL
  /\ UNCHANGED <<script, blocked>>

Wait(c, event) ==
  /\ waits_for' = [waits_for EXCEPT ![c] = event]
  /\ blocked' = blocked \cup {c}
  /\ running' = NULL
  /\ UNCHANGED <<script, at>>

(* Mutant: the store controller's issue leaves out rows_remaining. *)
IssueToController_NoStoreRecord(op, id) ==
  /\ instr_queue' = [instr_queue EXCEPT ![op] = Append(@, id)]
  /\ num_written' = [num_written EXCEPT ![op] = @ + 1]
  /\ rows_remaining' = IF op = "Mvin" THEN rows_remaining \cup {id} ELSE rows_remaining
  /\ IF op \in OneAtATime
     THEN UNCHANGED last_issued_id
     ELSE last_issued_id' = [last_issued_id EXCEPT ![op] = id]
  /\ UNCHANGED <<num_read, under_way, last_completed_id>>

(* The controller's issue: the write to the FIFO and its own record *)
IssueToController(op, id) ==
  /\ instr_queue' = [instr_queue EXCEPT ![op] = Append(@, id)]
  /\ num_written' = [num_written EXCEPT ![op] = @ + 1]
  /\ IF op \in OneAtATime
     THEN UNCHANGED <<rows_remaining, last_issued_id>>
     ELSE /\ rows_remaining' = rows_remaining \cup {id}
          /\ last_issued_id' = [last_issued_id EXCEPT ![op] = id]
  /\ UNCHANGED <<num_read, under_way, last_completed_id>>

NewInstr(c, op, id) ==
  /\ next_instr_id' = id
  /\ id_to_op' = Append(id_to_op, op)
  /\ ids' = [ids EXCEPT ![c][at[c]] = id]

(* Mutant: the instruction is numbered before the wait for room. *)
Issue_NumbersFirst(c) ==
  /\ MayRun(c) /\ IsIssue(c, at[c])
  /\ LET op  == script[c][at[c]].op
         new == ids[c][at[c]] = 0
         id  == IF new THEN next_instr_id + 1 ELSE ids[c][at[c]]
     IN  /\ IF new THEN NewInstr(c, op, id) ELSE UNCHANGED <<next_instr_id, id_to_op, ids>>
         /\ IF has_room(op)
            THEN IssueToController(op, id) /\ Return(c)
            ELSE Wait(c, <<"room_freed", op>>) /\ UNCHANGED <<fifoVars, ctrlVars>>
  /\ UNCHANGED notified

(* Mutant: if instead of while, the room is not looked for again. *)
Issue_NoRecheck(c) ==
  /\ MayRun(c) /\ IsIssue(c, at[c])
  /\ LET op == script[c][at[c]].op
         id == next_instr_id + 1
     IN  IF has_room(op) \/ waits_for[c] = <<"room_freed", op>>
         THEN NewInstr(c, op, id) /\ IssueToController(op, id) /\ Return(c)
         ELSE /\ Wait(c, <<"room_freed", op>>)
              /\ UNCHANGED <<next_instr_id, id_to_op, ids, fifoVars, ctrlVars>>
  /\ UNCHANGED notified

(* mvin, mvout, gemm and drain, from the call or from a wait in it *)
Issue(c) ==
  /\ MayRun(c) /\ IsIssue(c, at[c])
  /\ LET op == script[c][at[c]].op
         id == next_instr_id + 1
     IN  IF has_room(op)
         THEN NewInstr(c, op, id) /\ IssueToController(op, id) /\ Return(c)
         ELSE /\ Wait(c, <<"room_freed", op>>)
              /\ UNCHANGED <<next_instr_id, id_to_op, ids, fifoVars, ctrlVars>>
  /\ UNCHANGED notified

(* Mutants: it waits once before it looks; it does not look again. *)
WaitComplete_WaitsFirst(c) ==
  /\ MayRun(c) /\ ~ IsIssue(c, at[c])
  /\ LET id == ids[c][script[c][at[c]].of]
     IN  IF waits_for[c] # NULL /\ is_complete(id)
         THEN Return(c)
         ELSE Wait(c, <<"completed", id_to_op[id]>>)
  /\ UNCHANGED <<ids, next_instr_id, id_to_op, fifoVars, ctrlVars, notified>>

WaitComplete_NoRecheck(c) ==
  /\ MayRun(c) /\ ~ IsIssue(c, at[c])
  /\ LET id == ids[c][script[c][at[c]].of]
     IN  IF waits_for[c] # NULL \/ is_complete(id)
         THEN Return(c)
         ELSE Wait(c, <<"completed", id_to_op[id]>>)
  /\ UNCHANGED <<ids, next_instr_id, id_to_op, fifoVars, ctrlVars, notified>>

WaitComplete(c) ==
  /\ MayRun(c) /\ ~ IsIssue(c, at[c])
  /\ LET id == ids[c][script[c][at[c]].of]
     IN  IF is_complete(id)
         THEN Return(c)
         ELSE Wait(c, <<"completed", id_to_op[id]>>)
  /\ UNCHANGED <<ids, next_instr_id, id_to_op, fifoVars, ctrlVars, notified>>
-----------------------------------------------------------------------------
(* A controller's thread reads the next instruction from its FIFO.  What   *)
(* was written in this delta cycle cannot be read yet.                     *)
Dequeue(op) ==
  /\ running = NULL
  /\ Len(instr_queue[op]) > num_written[op]
  /\ Cardinality(under_way[op]) < (IF op \in OneAtATime THEN 1 ELSE MAX_UNDER_WAY)
  /\ instr_queue' = [instr_queue EXCEPT ![op] = Tail(@)]
  /\ num_read' = [num_read EXCEPT ![op] = @ + 1]
  /\ under_way' = [under_way EXCEPT ![op] = @ \cup {Head(instr_queue[op])}]
  /\ notified' = notified \cup {<<"room_freed", op>>}
  /\ UNCHANGED <<callerVars, next_instr_id, id_to_op, num_written,
                 rows_remaining, last_issued_id, last_completed_id>>

(* The last row of a mvin or mvout is answered, or gemm_thread or          *)
(* drain_thread comes to the end of its instruction.                       *)
Finish(op, id) ==
  /\ running = NULL
  /\ id \in under_way[op]
  /\ under_way' = [under_way EXCEPT ![op] = @ \ {id}]
  /\ IF op \in OneAtATime
     THEN /\ last_completed_id' = [last_completed_id EXCEPT ![op] = id]
          /\ UNCHANGED rows_remaining
     ELSE /\ rows_remaining' = rows_remaining \ {id}
          /\ UNCHANGED last_completed_id
  /\ notified' = notified \cup {<<"completed", op>>}
  /\ UNCHANGED <<callerVars, next_instr_id, id_to_op, fifoVars, last_issued_id>>

(* The end of a delta cycle: the FIFOs update and events wake who waits.   *)
Delta ==
  /\ running = NULL
  /\ \A c \in Callers : ~ Runnable(c)
  /\ notified # {} \/ \E op \in Ops : num_written[op] + num_read[op] > 0
  /\ num_written' = [op \in Ops |-> 0]
  /\ num_read' = [op \in Ops |-> 0]
  /\ blocked' = {c \in blocked : waits_for[c] \notin notified}
  /\ notified' = {}
  /\ UNCHANGED <<script, at, ids, waits_for, running, next_instr_id, id_to_op,
                 instr_queue, ctrlVars>>

Caller(c) == Issue(c) \/ WaitComplete(c)

Controller(op) == Dequeue(op) \/ \E id \in under_way[op] : Finish(op, id)

Next ==
  \/ \E c \in Callers : Caller(c)
  \/ \E op \in Ops : Controller(op)
  \/ Delta

SafeSpec == Init /\ [][Next]_vars

(* The kernel runs every process that can run and the controllers finish   *)
(* what they begin.                                                        *)
Fairness ==
  /\ \A c \in Callers : WF_vars(Caller(c))
  /\ \A op \in Ops : WF_vars(Dequeue(op))
  /\ \A op \in Ops : WF_vars(\E id \in under_way[op] : Finish(op, id))
  /\ WF_vars(Delta)

Spec == SafeSpec /\ Fairness
-----------------------------------------------------------------------------
Ids == 1 .. next_instr_id

(* The variables hold values of their types. *)
TypeOK ==
  /\ script \in Scripts
  /\ at \in [Callers -> Nat] /\ DOMAIN ids = Callers
  /\ \A c \in Callers : /\ at[c] \in 1 .. Len(script[c]) + 1
                        /\ ids[c] \in [1 .. Len(script[c]) -> Ids \cup {0}]
  /\ waits_for \in [Callers -> Events \cup {NULL}]
  /\ blocked \subseteq Callers
  /\ running \in Callers \cup {NULL}
  /\ next_instr_id \in Nat
  /\ id_to_op \in Seq(Ops) /\ Len(id_to_op) = next_instr_id
  /\ instr_queue \in [Ops -> Seq(Ids)]
  /\ num_written \in [Ops -> Nat] /\ num_read \in [Ops -> Nat]
  /\ under_way \in [Ops -> SUBSET Ids]
  /\ rows_remaining \subseteq Ids
  /\ last_issued_id \in [Ops \ OneAtATime -> Ids \cup {0}]
  /\ last_completed_id \in [OneAtATime -> Ids \cup {0}]
  /\ notified \subseteq Events

(* No caller writes to a FIFO without room: sc_fifo would make it wait in  *)
(* the middle of issue, its id taken and its record not written, however   *)
(* many callers were woken by the same free place.                         *)
WritesNeverBlock ==
  \A op \in Ops : Len(instr_queue[op]) + num_read[op] <= INSTR_QUEUE_SIZE

(* The ids in a FIFO or under way *)
Unfinished(op) ==
  {instr_queue[op][k] : k \in 1 .. Len(instr_queue[op])} \cup under_way[op]

(* is_complete holds for an id exactly from the moment its instruction is  *)
(* finished: each controller's short record (an upper bound for gemms and  *)
(* drains) is exact because ids enter each FIFO in ascending order.        *)
CompleteMeansFinished ==
  \A id \in Ids : is_complete(id) <=> id \notin Unfinished(id_to_op[id])

(* wait_complete has returned only for instructions that are finished.     *)
WaitMeansFinished ==
  \A c \in Callers : \A k \in 1 .. at[c] - 1 :
    ~ IsIssue(c, k) =>
      LET id == ids[c][script[c][k].of]
      IN  id \in Ids /\ id \notin Unfinished(id_to_op[id])

(* Every call returns: no free place and no completion is announced while  *)
(* a caller that needs it is between looking and waiting.                  *)
EveryCallReturns == <>[](\A c \in Callers : at[c] = Len(script[c]) + 1)
=============================================================================
