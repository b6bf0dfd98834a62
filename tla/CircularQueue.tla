---------------------------- MODULE CircularQueue ----------------------------
(***************************************************************************)
(* Functions/CircularQueue/CircularQueue.hpp, at the grain of the accesses *)
(* its threads interleave: each thread calls Push, Pop, IsEmpty or         *)
(* EnableCriticalSection at any time, enters the queue's recursive lock,   *)
(* works on the indices and the array one access after the other, and      *)
(* leaves. Pop calls IsEmpty, which enters the lock a second time.         *)
(*                                                                         *)
(* The specification is shown to implement BoundedFifo: the request of a   *)
(* thread is op[t], its result res[t], set at the step where the call      *)
(* takes effect.                                                           *)
(***************************************************************************)
EXTENDS RingQueue

CONSTANTS
  Threads, NoThread,
  Garbage,       (* What reading Push's dangling result may give.           *)
  NoResult       (* res[t] before the call has taken effect.                *)

ASSUME ThreadAssumption == NoThread \notin Threads

ASSUME ResultAssumption ==
  NoResult \notin Data \cup {Null, Garbage} \cup BOOLEAN

VARIABLES
  queue,     (* m_queueList, m_iHead, m_iTail.                              *)
  lock,      (* m_lock.                                                     *)
  csOn,      (* m_bIsEnableCriticalSection.                                 *)
  pc,        (* Where each thread is.                                       *)
  op,        (* The call it is in.                                          *)
  index,     (* Its local iDataInsertedIndex or iDataPopIndex.              *)
  out,       (* Its local outData, once loaded.                             *)
  res        (* What the call returns, once it is decided.                  *)

locals == <<pc, op, index, out, res>>
vars == <<queue, lock, csOn, locals>>

CS == INSTANCE CriticalSection

Fifo == INSTANCE BoundedFifo
          WITH fifo <- Contents(queue), request <- op, result <- res

Goto(t, l) == pc' = [pc EXCEPT ![t] = l]

Init ==
  /\ queue = NewQueue
  /\ lock = CS!Free
  /\ csOn = TRUE
  /\ pc = [t \in Threads |-> "idle"]
  /\ op = [t \in Threads |-> Fifo!None]
  /\ index = [t \in Threads |-> 0]
  /\ out = [t \in Threads |-> Null]
  /\ res = [t \in Threads |-> NoResult]

-----------------------------------------------------------------------------
(* Calling, entering and leaving.                                           *)

FirstStep(r) ==
  CASE r.op = "Push" -> "pushCheck"
    [] r.op = "Pop" -> "isEmptyEnter"
    [] r.op = "IsEmpty" -> "isEmptyRead"
    [] r.op = "Enable" -> "enable"

Call(t) ==
  /\ pc[t] = "idle"
  /\ \E r \in Fifo!Requests : op' = [op EXCEPT ![t] = r]
  /\ Goto(t, "enter")
  /\ UNCHANGED <<queue, lock, csOn, index, out, res>>

(* Defect: an Enter that honours the flag, and takes no lock when it is off.*)
EnterHonoursFlag(t) ==
  /\ pc[t] = "enter"
  /\ IF csOn THEN CS!CanEnter(lock, t) /\ lock' = CS!Entered(lock, t)
             ELSE UNCHANGED lock
  /\ Goto(t, FirstStep(op[t]))
  /\ UNCHANGED <<queue, csOn, op, index, out, res>>

(* The guard each operation constructs first.                               *)
Enter(t) ==
  /\ pc[t] = "enter"
  /\ CS!CanEnter(lock, t)
  /\ lock' = CS!Entered(lock, t)
  /\ Goto(t, FirstStep(op[t]))
  /\ UNCHANGED <<queue, csOn, op, index, out, res>>

(* The guard's destructor, and the return to the caller.                    *)
Leave(t) ==
  /\ pc[t] = "leave"
  /\ lock' = CS!Left(lock)
  /\ Goto(t, "idle")
  /\ op' = [op EXCEPT ![t] = Fifo!None]
  /\ res' = [res EXCEPT ![t] = NoResult]
  /\ index' = [index EXCEPT ![t] = 0]
  /\ out' = [out EXCEPT ![t] = Null]
  /\ UNCHANGED <<queue, csOn>>

-----------------------------------------------------------------------------
(* Push.                                                                    *)

PushIndex(q) == Succ(q.tail)

(* return DATATYPE(): a reference to a temporary that is destroyed with the *)
(* return, so its caller reads a null pointer or whatever the stack holds.  *)
PushFull(t) ==
  /\ pc[t] = "pushCheck"
  /\ PushIndex(queue) = queue.head
  /\ \E v \in {Null, Garbage} : res' = [res EXCEPT ![t] = v]
  /\ Goto(t, "leave")
  /\ UNCHANGED <<queue, lock, csOn, op, index, out>>

PushRoom(t) ==
  /\ pc[t] = "pushCheck"
  /\ PushIndex(queue) # queue.head
  /\ index' = [index EXCEPT ![t] = PushIndex(queue)]
  /\ Goto(t, "pushStore")
  /\ UNCHANGED <<queue, lock, csOn, op, out, res>>

(* Defect: the element is stored at m_iTail, not at the slot after it.      *)
PushStoreAtTail(t) ==
  /\ pc[t] = "pushStore"
  /\ queue' = Stored(queue, queue.tail, op[t].data)
  /\ Goto(t, "pushAdvance")
  /\ UNCHANGED <<lock, csOn, op, index, out, res>>

PushStore(t) ==
  /\ pc[t] = "pushStore"
  /\ queue' = Stored(queue, index[t], op[t].data)
  /\ Goto(t, "pushAdvance")
  /\ UNCHANGED <<lock, csOn, op, index, out, res>>

PushAdvance(t) ==
  /\ pc[t] = "pushAdvance"
  /\ queue' = TailAt(queue, index[t])
  /\ res' = [res EXCEPT ![t] = op[t].data]
  /\ Goto(t, "leave")
  /\ UNCHANGED <<lock, csOn, op, index, out>>

-----------------------------------------------------------------------------
(* IsEmpty, called by a client or by Pop, and Pop.                          *)

IsEmptyEnter(t) ==
  /\ pc[t] = "isEmptyEnter"
  /\ CS!CanEnter(lock, t)
  /\ lock' = CS!Entered(lock, t)
  /\ Goto(t, "isEmptyRead")
  /\ UNCHANGED <<queue, csOn, op, index, out, res>>

(* A client's IsEmpty has its answer; a Pop that finds the queue empty      *)
(* returns false.                                                           *)
IsEmptyRead(t) ==
  /\ pc[t] = "isEmptyRead"
  /\ \/ /\ op[t].op = "IsEmpty"
        /\ res' = [res EXCEPT ![t] = IsEmpty(queue)]
        /\ Goto(t, "leave")
     \/ /\ op[t].op = "Pop"
        /\ res' = [res EXCEPT ![t] = IF IsEmpty(queue) THEN Null ELSE NoResult]
        /\ Goto(t, "isEmptyLeave")
  /\ UNCHANGED <<queue, lock, csOn, op, index, out>>

(* Defect: the nested IsEmpty does not leave the lock.                      *)
IsEmptyKeepsLock(t) ==
  /\ pc[t] = "isEmptyLeave"
  /\ Goto(t, IF res[t] = NoResult THEN "popLoad" ELSE "leave")
  /\ UNCHANGED <<queue, lock, csOn, op, index, out, res>>

(* Back in Pop, which branches on what IsEmpty returned.                    *)
IsEmptyLeave(t) ==
  /\ pc[t] = "isEmptyLeave"
  /\ lock' = CS!Left(lock)
  /\ Goto(t, IF res[t] = NoResult THEN "popLoad" ELSE "leave")
  /\ UNCHANGED <<queue, csOn, op, index, out, res>>

PopLoad(t) ==
  /\ pc[t] = "popLoad"
  /\ index' = [index EXCEPT ![t] = Succ(queue.head)]
  /\ out' = [out EXCEPT ![t] = FrontElement(queue)]
  /\ Goto(t, "popAdvance")
  /\ UNCHANGED <<queue, lock, csOn, op, res>>

PopAdvance(t) ==
  /\ pc[t] = "popAdvance"
  /\ queue' = HeadAt(queue, index[t])
  /\ res' = [res EXCEPT ![t] = out[t]]
  /\ Goto(t, "leave")
  /\ UNCHANGED <<lock, csOn, op, index, out>>

-----------------------------------------------------------------------------
Enable(t) ==
  /\ pc[t] = "enable"
  /\ csOn' = op[t].data
  /\ res' = [res EXCEPT ![t] = Null]
  /\ Goto(t, "leave")
  /\ UNCHANGED <<queue, lock, op, index, out>>

(* Every step a thread inside a call takes.                                 *)
Step(t) ==
  \/ Enter(t) \/ Leave(t)
  \/ PushFull(t) \/ PushRoom(t) \/ PushStore(t) \/ PushAdvance(t)
  \/ IsEmptyEnter(t) \/ IsEmptyRead(t) \/ IsEmptyLeave(t)
  \/ PopLoad(t) \/ PopAdvance(t)
  \/ Enable(t)

Next == \E t \in Threads : Call(t) \/ Step(t)

Spec == Init /\ [][Next]_vars

-----------------------------------------------------------------------------
(* Properties.                                                              *)

Outside == {"idle", "enter"}

Nested(t) == op[t].op = "Pop" /\ pc[t] \in {"isEmptyRead", "isEmptyLeave"}

PCs == Outside \cup
  {"leave", "pushCheck", "pushStore", "pushAdvance", "isEmptyEnter",
   "isEmptyRead", "isEmptyLeave", "popLoad", "popAdvance", "enable"}

Results == Data \cup {Null, Garbage, NoResult} \cup BOOLEAN

(* The range of every variable.                                             *)
TypeOK ==
  /\ queue \in Queue
  /\ lock \in CS!Lock
  /\ csOn \in BOOLEAN
  /\ pc \in [Threads -> PCs]
  /\ op \in [Threads -> Fifo!Requests \cup {Fifo!None}]
  /\ index \in [Threads -> Index]
  /\ out \in [Threads -> Data \cup {Null}]
  /\ res \in [Threads -> Results]

(* The recursive lock is held by exactly the thread that is inside an       *)
(* operation, as often as it has entered: once, and twice inside the        *)
(* IsEmpty that Pop calls (CircularQueue.hpp:42-72).                        *)
LockDiscipline ==
  /\ \A t \in Threads : CS!Holds(lock, t) <=> pc[t] \notin Outside
  /\ \A t \in Threads :
       CS!Holds(lock, t) => lock.depth = IF Nested(t) THEN 2 ELSE 1
  /\ lock.owner = NoThread => lock = CS!Free

(* Pushes and pops from any number of threads behave as if each happened at *)
(* one instant on a FIFO of QUEUE_LENGTH-1 elements: none lost, duplicated  *)
(* or reordered, a push has no effect exactly when the FIFO is full, a pop  *)
(* fails exactly when it is empty.                                          *)
Linearizable == Fifo!FifoSpec

(* The elements between the two indices are pointers that were pushed,      *)
(* never the null of a slot that was not written yet: what Pop returns can  *)
(* be dereferenced and deleted by its caller.                               *)
OnlyPushedData == WellFormed(queue)
=============================================================================
