--------------------------- MODULE ContainerProofs ---------------------------
(***************************************************************************)
(* Proofs about what Functions/ shares between threads, for any set of     *)
(* threads, any data and any QUEUE_LENGTH above 1.                         *)
(*                                                                         *)
(* CircularQueue: types, the lock discipline, that only pushed data is     *)
(* popped, and that the queue implements BoundedFifo. A thread inside an   *)
(* operation holds the lock, so no other thread is inside; hence what it   *)
(* read of the indices is still true at its next step (At), and its last   *)
(* write to an index is the instant at which Contents(queue) changes.      *)
(*                                                                         *)
(* ThreadPool with CircularLinkedList: that no result is lost between the  *)
(* two lists and that the walk stays on its list. Each list is the circle  *)
(* of its head, the least set of nodes closed under next, so that a push   *)
(* or an erasure changes a circle by one node (PushBackLinks, EraseLinks)  *)
(* and leaves every other as it is (LinkedFrame); the nodes are divided    *)
(* among the two circles, the caller that appends and the free blocks.     *)
(***************************************************************************)
EXTENDS CircularQueue, RingQueueProofs, ThreadPool, FiniteSetTheorems

-----------------------------------------------------------------------------
(* CircularQueue.                                                           *)

(* What a thread knows at each step of its operation.                       *)
At(t) ==
  /\ pc[t] = "idle" <=> op[t] = Fifo!None
  /\ pc[t] \in {"pushCheck", "pushStore", "pushAdvance"} => op[t].op = "Push"
  /\ pc[t] \in {"isEmptyEnter", "isEmptyLeave", "popLoad", "popAdvance"}
       => op[t].op = "Pop"
  /\ pc[t] = "isEmptyRead" => op[t].op \in {"IsEmpty", "Pop"}
  /\ pc[t] = "enable" => op[t].op = "Enable"
  /\ pc[t] \notin {"leave", "isEmptyLeave"} => res[t] = NoResult
  /\ pc[t] = "leave" => res[t] # NoResult
  /\ pc[t] = "isEmptyLeave" /\ res[t] = NoResult => ~IsEmpty(queue)
  /\ pc[t] \in {"pushStore", "pushAdvance"} =>
       index[t] = Succ(queue.tail) /\ ~IsFull(queue)
  /\ pc[t] = "pushAdvance" => queue.list[index[t]] = op[t].data
  /\ pc[t] \in {"popLoad", "popAdvance"} => ~IsEmpty(queue)
  /\ pc[t] = "popAdvance" =>
       index[t] = Succ(queue.head) /\ out[t] = FrontElement(queue)

IInv ==
  /\ TypeOK
  /\ LockDiscipline
  /\ OnlyPushedData
  /\ \A t \in Threads : At(t)

-----------------------------------------------------------------------------
(* Only one thread is inside an operation.                                  *)
LEMMA Exclusion ==
  ASSUME LockDiscipline, NEW t \in Threads, pc[t] \notin Outside,
         NEW s \in Threads, s # t
  PROVE  pc[s] \in Outside
BY DEF LockDiscipline, CS!Holds

(* An empty queue that nobody uses satisfies the invariant.                *)
LEMMA InitInv == Init => IInv
<1>. SUFFICES ASSUME Init PROVE IInv
  OBVIOUS
<1>1. TypeOK
  BY NewQueueEmpty, QueueLengthAssumption
     DEF Init, TypeOK, CS!Free, CS!Lock, PCs, Outside, Results, Index
<1>2. LockDiscipline
  BY ThreadAssumption
     DEF Init, LockDiscipline, CS!Free, CS!Holds, Outside, Nested
<1>3. OnlyPushedData
  BY NewQueueEmpty DEF Init, OnlyPushedData
<1>4. \A t \in Threads : At(t)
  BY DEF Init, At
<1>. QED
  BY <1>1, <1>2, <1>3, <1>4 DEF IInv

-----------------------------------------------------------------------------
(* A step of t that leaves the others' variables alone, and the queue too   *)
(* unless t is inside, keeps what every other thread knows.                 *)
LEMMA OthersKeep ==
  ASSUME IInv, NEW t \in Threads,
         \A s \in Threads \ {t} :
           /\ pc'[s] = pc[s] /\ op'[s] = op[s] /\ index'[s] = index[s]
           /\ out'[s] = out[s] /\ res'[s] = res[s],
         queue' = queue \/ pc[t] \notin Outside
  PROVE  \A s \in Threads \ {t} : At(s)'
<1>. SUFFICES ASSUME NEW s \in Threads, s # t
              PROVE  At(s)'
  OBVIOUS
<1>1. CASE queue' = queue
  BY <1>1 DEF IInv, At
<1>2. CASE pc[t] \notin Outside
  <2>1. pc[s] \in Outside
    BY <1>2, Exclusion DEF IInv
  <2>. QED
    BY <2>1 DEF IInv, At, Outside
<1>. QED
  BY <1>1, <1>2

(* The calling, entering and leaving steps.                                 *)
LEMMA CallInv ==
  ASSUME IInv, NEW t \in Threads, Call(t)
  PROVE  IInv'
<1>1. TypeOK'
  BY DEF IInv, TypeOK, Call, Goto, PCs, Outside
<1>2. LockDiscipline'
  BY DEF IInv, TypeOK, LockDiscipline, Call, Goto, CS!Holds, Outside, Nested
<1>3. OnlyPushedData'
  BY DEF IInv, OnlyPushedData, Call
<1>4. At(t)'
  BY DEF IInv, TypeOK, At, Call, Goto, Fifo!Requests, Fifo!None
<1>5. \A s \in Threads \ {t} : At(s)'
  BY OthersKeep DEF IInv, TypeOK, Call, Goto
<1>. QED
  BY <1>1, <1>2, <1>3, <1>4, <1>5 DEF IInv

(* Entering the lock keeps the invariant.                                  *)
LEMMA EnterInv ==
  ASSUME IInv, NEW t \in Threads, Enter(t)
  PROVE  IInv'
<1>a. op[t].op \in {"Push", "Pop", "IsEmpty", "Enable"} /\ op[t] # Fifo!None
  BY DEF IInv, TypeOK, At, Enter, Fifo!Requests, Fifo!None
<1>b. lock = CS!Free
  BY DEF IInv, LockDiscipline, Enter, CS!CanEnter, CS!Holds, Outside
<1>c. lock' = [owner |-> t, depth |-> 1] /\ pc' = [pc EXCEPT ![t] = FirstStep(op[t])]
  BY <1>b DEF Enter, CS!Entered, CS!Free, Goto
<1>d. /\ FirstStep(op[t]) \in PCs \ Outside
      /\ FirstStep(op[t]) \in {"isEmptyRead", "isEmptyLeave"} => op[t].op # "Pop"
  BY <1>a DEF FirstStep, PCs, Outside
<1>1. TypeOK'
  BY <1>c, <1>d DEF IInv, TypeOK, Enter, CS!Lock
<1>2. LockDiscipline'
  BY <1>b, <1>c, <1>d, ThreadAssumption
     DEF IInv, TypeOK, LockDiscipline, Enter, CS!Holds, CS!Free, Nested
<1>3. OnlyPushedData'
  BY DEF IInv, OnlyPushedData, Enter
<1>4. At(t)'
  <2>1. pc'[t] = FirstStep(op[t])
    BY <1>c DEF IInv, TypeOK
  <2>. QED
    BY <1>a, <2>1 DEF IInv, TypeOK, At, Enter, FirstStep
<1>5. \A s \in Threads \ {t} : At(s)'
  BY OthersKeep DEF IInv, TypeOK, Enter, Goto, Outside
<1>. QED
  BY <1>1, <1>2, <1>3, <1>4, <1>5 DEF IInv

(* Leaving the lock and returning keeps the invariant.                     *)
LEMMA LeaveInv ==
  ASSUME IInv, NEW t \in Threads, Leave(t)
  PROVE  IInv'
<1>a. lock = [owner |-> t, depth |-> 1]
  BY DEF IInv, TypeOK, LockDiscipline, Leave, CS!Holds, CS!Lock, Outside,
       Nested
<1>b. lock' = CS!Free
  BY <1>a DEF Leave, CS!Left
<1>1. TypeOK'
  BY <1>b, QueueLengthAssumption
     DEF IInv, TypeOK, Leave, Goto, PCs, Outside, CS!Lock, CS!Free, Results, Index
<1>2. LockDiscipline'
  BY <1>a, <1>b, ThreadAssumption
     DEF IInv, TypeOK, LockDiscipline, Leave, Goto, CS!Holds, CS!Free, Outside,
         Nested
<1>3. OnlyPushedData'
  BY DEF IInv, OnlyPushedData, Leave
<1>4. At(t)'
  BY DEF IInv, TypeOK, At, Leave, Goto
<1>5. \A s \in Threads \ {t} : At(s)'
  BY OthersKeep DEF IInv, TypeOK, Leave, Goto, Outside
<1>. QED
  BY <1>1, <1>2, <1>3, <1>4, <1>5 DEF IInv

(* A Push that finds the queue full keeps the invariant.                   *)
LEMMA PushFullInv ==
  ASSUME IInv, NEW t \in Threads, PushFull(t)
  PROVE  IInv'
<1>1. TypeOK'
  BY DEF IInv, TypeOK, PushFull, Goto, PCs, Outside, Results
<1>2. LockDiscipline'
  BY DEF IInv, TypeOK, LockDiscipline, PushFull, Goto, CS!Holds, Outside,
       Nested
<1>3. OnlyPushedData'
  BY DEF IInv, OnlyPushedData, PushFull
<1>4. At(t)'
  BY ResultAssumption DEF IInv, TypeOK, At, PushFull, Goto
<1>5. \A s \in Threads \ {t} : At(s)'
  BY OthersKeep DEF IInv, TypeOK, PushFull, Goto, Outside
<1>. QED
  BY <1>1, <1>2, <1>3, <1>4, <1>5 DEF IInv

(* A Push that finds room keeps the invariant: nobody else moves the       *)
(* indices before it is done.                                              *)
LEMMA PushRoomInv ==
  ASSUME IInv, NEW t \in Threads, PushRoom(t)
  PROVE  IInv'
<1>1. TypeOK'
  BY SuccValue
       DEF IInv, TypeOK, PushRoom, Goto, PCs, Outside, Queue, PushIndex
<1>2. LockDiscipline'
  BY DEF IInv, TypeOK, LockDiscipline, PushRoom, Goto, CS!Holds, Outside,
       Nested
<1>3. OnlyPushedData'
  BY DEF IInv, OnlyPushedData, PushRoom
<1>4. At(t)'
  BY DEF IInv, TypeOK, At, PushRoom, Goto, PushIndex, IsFull
<1>5. \A s \in Threads \ {t} : At(s)'
  BY OthersKeep DEF IInv, TypeOK, PushRoom, Goto, Outside
<1>. QED
  BY <1>1, <1>2, <1>3, <1>4, <1>5 DEF IInv

(* Storing the element, outside the stored range still, keeps the          *)
(* invariant.                                                              *)
LEMMA PushStoreInv ==
  ASSUME IInv, NEW t \in Threads, PushStore(t)
  PROVE  IInv'
<1>0. /\ ~IsFull(queue) /\ index[t] = Succ(queue.tail)
      /\ op[t].data \in Data /\ queue \in Queue /\ WellFormed(queue)
  BY DEF IInv, TypeOK, At, PushStore, OnlyPushedData, Fifo!Requests, Fifo!None
<1>. /\ queue' \in Queue /\ WellFormed(queue') /\ ~IsFull(queue')
     /\ queue'.tail = queue.tail
     /\ queue'.list[Succ(queue'.tail)] = op[t].data
  BY <1>0, StoreFrame DEF PushStore
<1>1. TypeOK'
  BY <1>0 DEF IInv, TypeOK, PushStore, Goto, PCs, Outside
<1>2. LockDiscipline'
  BY DEF IInv, TypeOK, LockDiscipline, PushStore, Goto, CS!Holds, Outside,
       Nested
<1>3. OnlyPushedData'
  BY DEF OnlyPushedData
<1>4. At(t)'
  BY <1>0 DEF IInv, TypeOK, At, PushStore, Goto
<1>5. \A s \in Threads \ {t} : At(s)'
  BY OthersKeep DEF IInv, TypeOK, PushStore, Goto, Outside
<1>. QED
  BY <1>1, <1>2, <1>3, <1>4, <1>5 DEF IInv

(* Moving the tail brings the stored element, and no other slot, into the  *)
(* range.                                                                  *)
LEMMA PushAdvanceInv ==
  ASSUME IInv, NEW t \in Threads, PushAdvance(t)
  PROVE  IInv'
<1>0. /\ ~IsFull(queue) /\ index[t] = Succ(queue.tail)
      /\ queue.list[Succ(queue.tail)] \in Data
      /\ op[t].data \in Data /\ queue \in Queue /\ WellFormed(queue)
  BY DEF IInv, TypeOK, At, PushAdvance, OnlyPushedData, Fifo!Requests,
       Fifo!None
<1>. queue' \in Queue /\ WellFormed(queue')
  BY <1>0, AdvanceTail DEF PushAdvance
<1>1. TypeOK'
  BY <1>0 DEF IInv, TypeOK, PushAdvance, Goto, PCs, Outside, Results
<1>2. LockDiscipline'
  BY DEF IInv, TypeOK, LockDiscipline, PushAdvance, Goto, CS!Holds,
       Outside, Nested
<1>3. OnlyPushedData'
  BY DEF OnlyPushedData
<1>4. At(t)'
  BY <1>0, ResultAssumption DEF IInv, TypeOK, At, PushAdvance, Goto
<1>5. \A s \in Threads \ {t} : At(s)'
  BY OthersKeep DEF IInv, TypeOK, PushAdvance, Goto, Outside
<1>. QED
  BY <1>1, <1>2, <1>3, <1>4, <1>5 DEF IInv

(* The second entry into the lock keeps the invariant.                     *)
LEMMA IsEmptyEnterInv ==
  ASSUME IInv, NEW t \in Threads, IsEmptyEnter(t)
  PROVE  IInv'
<1>a. op[t].op = "Pop" /\ lock = [owner |-> t, depth |-> 1]
  BY DEF IInv, TypeOK, At, LockDiscipline, IsEmptyEnter, CS!Holds, CS!Lock,
         Outside, Nested
<1>b. lock' = [owner |-> t, depth |-> 2]
  BY <1>a DEF IsEmptyEnter, CS!Entered
<1>1. TypeOK'
  BY DEF IInv, TypeOK, IsEmptyEnter, Goto, PCs, Outside, CS!Lock, CS!Entered
<1>2. LockDiscipline'
  BY <1>a, <1>b
     DEF IInv, TypeOK, LockDiscipline, IsEmptyEnter, Goto, CS!Holds, CS!Free,
         Outside, Nested
<1>3. OnlyPushedData'
  BY DEF IInv, OnlyPushedData, IsEmptyEnter
<1>4. At(t)'
  BY DEF IInv, TypeOK, At, IsEmptyEnter, Goto
<1>5. \A s \in Threads \ {t} : At(s)'
  BY OthersKeep DEF IInv, TypeOK, IsEmptyEnter, Goto, Outside
<1>. QED
  BY <1>1, <1>2, <1>3, <1>4, <1>5 DEF IInv

(* The comparison of the indices keeps the invariant.                      *)
LEMMA IsEmptyReadInv ==
  ASSUME IInv, NEW t \in Threads, IsEmptyRead(t)
  PROVE  IInv'
<1>1. TypeOK'
  BY DEF IInv, TypeOK, IsEmptyRead, Goto, PCs, Outside, Results, IsEmpty
<1>2. LockDiscipline'
  BY DEF IInv, TypeOK, LockDiscipline, IsEmptyRead, Goto, CS!Holds,
       Outside, Nested
<1>3. OnlyPushedData'
  BY DEF IInv, OnlyPushedData, IsEmptyRead
<1>4. At(t)'
  BY ResultAssumption DEF IInv, TypeOK, At, IsEmptyRead, Goto, IsEmpty
<1>5. \A s \in Threads \ {t} : At(s)'
  BY OthersKeep DEF IInv, TypeOK, IsEmptyRead, Goto, Outside
<1>. QED
  BY <1>1, <1>2, <1>3, <1>4, <1>5 DEF IInv

(* Leaving the nested lock keeps the outer one.                            *)
LEMMA IsEmptyLeaveInv ==
  ASSUME IInv, NEW t \in Threads, IsEmptyLeave(t)
  PROVE  IInv'
<1>a. op[t].op = "Pop" /\ lock = [owner |-> t, depth |-> 2]
  BY DEF IInv, TypeOK, At, LockDiscipline, IsEmptyLeave, CS!Holds, CS!Lock,
         Outside, Nested
<1>b. lock' = [owner |-> t, depth |-> 1]
  BY <1>a DEF IsEmptyLeave, CS!Left
<1>1. TypeOK'
  BY <1>b DEF IInv, TypeOK, IsEmptyLeave, Goto, PCs, Outside, CS!Lock
<1>2. LockDiscipline'
  BY <1>a, <1>b
     DEF IInv, TypeOK, LockDiscipline, IsEmptyLeave, Goto, CS!Holds, CS!Free,
         Outside, Nested
<1>3. OnlyPushedData'
  BY DEF IInv, OnlyPushedData, IsEmptyLeave
<1>4. At(t)'
  BY DEF IInv, TypeOK, At, IsEmptyLeave, Goto
<1>5. \A s \in Threads \ {t} : At(s)'
  BY OthersKeep DEF IInv, TypeOK, IsEmptyLeave, Goto, Outside
<1>. QED
  BY <1>1, <1>2, <1>3, <1>4, <1>5 DEF IInv

(* Loading the front element keeps the invariant: the queue is not empty.  *)
LEMMA PopLoadInv ==
  ASSUME IInv, NEW t \in Threads, PopLoad(t)
  PROVE  IInv'
<1>0. /\ ~IsEmpty(queue) /\ queue \in Queue /\ WellFormed(queue)
  BY DEF IInv, TypeOK, At, PopLoad, OnlyPushedData
<1>. FrontElement(queue) \in Data /\ Succ(queue.head) \in Index
  BY <1>0, PoppedContents, SuccValue DEF Queue
<1>1. TypeOK'
  BY DEF IInv, TypeOK, PopLoad, Goto, PCs, Outside
<1>2. LockDiscipline'
  BY DEF IInv, TypeOK, LockDiscipline, PopLoad, Goto, CS!Holds, Outside,
       Nested
<1>3. OnlyPushedData'
  BY DEF IInv, OnlyPushedData, PopLoad
<1>4. At(t)'
  BY DEF IInv, TypeOK, At, PopLoad, Goto
<1>5. \A s \in Threads \ {t} : At(s)'
  BY OthersKeep DEF IInv, TypeOK, PopLoad, Goto, Outside
<1>. QED
  BY <1>1, <1>2, <1>3, <1>4, <1>5 DEF IInv

(* Moving the head keeps the invariant.                                    *)
LEMMA PopAdvanceInv ==
  ASSUME IInv, NEW t \in Threads, PopAdvance(t)
  PROVE  IInv'
<1>0. /\ ~IsEmpty(queue) /\ index[t] = Succ(queue.head)
      /\ out[t] = FrontElement(queue) /\ queue \in Queue /\ WellFormed(queue)
  BY DEF IInv, TypeOK, At, PopAdvance, OnlyPushedData
<1>. queue' \in Queue /\ WellFormed(queue') /\ out[t] \in Data
  BY <1>0, AdvanceHead DEF PopAdvance
<1>1. TypeOK'
  BY <1>0 DEF IInv, TypeOK, PopAdvance, Goto, PCs, Outside, Results
<1>2. LockDiscipline'
  BY DEF IInv, TypeOK, LockDiscipline, PopAdvance, Goto, CS!Holds,
       Outside, Nested
<1>3. OnlyPushedData'
  BY DEF OnlyPushedData
<1>4. At(t)'
  BY <1>0, ResultAssumption DEF IInv, TypeOK, At, PopAdvance, Goto
<1>5. \A s \in Threads \ {t} : At(s)'
  BY OthersKeep DEF IInv, TypeOK, PopAdvance, Goto, Outside
<1>. QED
  BY <1>1, <1>2, <1>3, <1>4, <1>5 DEF IInv

(* Switching the flag keeps the invariant.                                 *)
LEMMA EnableInv ==
  ASSUME IInv, NEW t \in Threads, Enable(t)
  PROVE  IInv'
<1>1. TypeOK'
  BY DEF IInv, TypeOK, Enable, Goto, PCs, Outside, Fifo!Requests,
       Fifo!None, Results, At
<1>2. LockDiscipline'
  BY DEF IInv, TypeOK, LockDiscipline, Enable, Goto, CS!Holds, Outside, Nested
<1>3. OnlyPushedData'
  BY DEF IInv, OnlyPushedData, Enable
<1>4. At(t)'
  BY ResultAssumption DEF IInv, TypeOK, At, Enable, Goto
<1>5. \A s \in Threads \ {t} : At(s)'
  BY OthersKeep DEF IInv, TypeOK, Enable, Goto, Outside
<1>. QED
  BY <1>1, <1>2, <1>3, <1>4, <1>5 DEF IInv

(* Every step, and a stutter, keeps the invariant.                         *)
LEMMA StepInv ==
  ASSUME IInv, [Next]_vars
  PROVE  IInv'
<1>1. CASE UNCHANGED vars
  <2>1. TypeOK' /\ LockDiscipline' /\ OnlyPushedData'
    BY <1>1
         DEF IInv, TypeOK, LockDiscipline, OnlyPushedData, Nested, vars,
         locals
  <2>2. \A t \in Threads : At(t)'
    BY <1>1 DEF IInv, At, vars, locals
  <2>. QED
    BY <2>1, <2>2 DEF IInv
<1>2. ASSUME NEW t \in Threads, Call(t) \/ Step(t)
      PROVE  IInv'
  BY <1>2, CallInv, EnterInv, LeaveInv, PushFullInv, PushRoomInv,
       PushStoreInv,
     PushAdvanceInv, IsEmptyEnterInv, IsEmptyReadInv, IsEmptyLeaveInv,
     PopLoadInv, PopAdvanceInv, EnableInv
     DEF Step
<1>. QED
  BY <1>1, <1>2 DEF Next

-----------------------------------------------------------------------------
(* The invariant holds in every reachable state.                            *)
THEOREM Invariant == Spec => []IInv
<1>1. Init => IInv
  BY InitInv
<1>2. IInv /\ [Next]_vars => IInv'
  BY StepInv
<1>. QED
  BY <1>1, <1>2, PTL DEF Spec

(* Every variable stays in its range, whatever the threads do.              *)
THEOREM TypeCorrect == Spec => []TypeOK
BY Invariant, PTL DEF IInv

(* At most one thread is inside an operation, and the recursive lock counts *)
(* its entries exactly (CircularQueue.hpp:42-78).                           *)
THEOREM LockIsDisciplined == Spec => []LockDiscipline
BY Invariant, PTL DEF IInv

(* Pop never hands out a slot that was not pushed (CircularQueue.hpp:62).   *)
THEOREM PopsOnlyPushedData == Spec => []OnlyPushedData
BY Invariant, PTL DEF IInv

-----------------------------------------------------------------------------
(* Every step of a thread inside a call is a step of the abstract queue or  *)
(* changes nothing a caller can see.                                        *)
LEMMA StepRefines ==
  ASSUME IInv, NEW t \in Threads, Step(t)
  PROVE  \/ Fifo!PushEffect(t) \/ Fifo!PopEffect(t)
         \/ Fifo!IsEmptyEffect(t) \/ Fifo!EnableEffect(t)
         \/ Fifo!Return(t)
         \/ UNCHANGED Fifo!fifoVars
<1>0. queue \in Queue /\ WellFormed(queue) /\ At(t) /\ TypeOK
  BY DEF IInv, TypeOK, OnlyPushedData
<1>a. /\ Contents(queue) \in Seq(Data)
      /\ Len(Contents(queue)) = Count(queue)
  BY <1>0, ContentsType
<1>1. CASE Enter(t) \/ IsEmptyEnter(t) \/ IsEmptyLeave(t) \/ PopLoad(t)
           \/ PushRoom(t)
  BY <1>1
       DEF Fifo!fifoVars, Enter, IsEmptyEnter, IsEmptyLeave, PopLoad,
       PushRoom
<1>2. CASE Leave(t)
  BY <1>0, <1>2 DEF At, Leave, Fifo!Return
<1>3. CASE PushFull(t)
  <2>1. Len(Contents(queue)) = Capacity
    BY <1>0, <1>3, <1>a, CountValue DEF PushFull, PushIndex, IsFull
  <2>2. Fifo!TakesEffect(t, "Push")
    BY <1>0, <1>3 DEF At, PushFull, Fifo!TakesEffect
  <2>. QED
    BY <1>3, <2>1, <2>2 DEF PushFull, Fifo!PushEffect
<1>4. CASE PushStore(t)
  <2>1. op[t].data \in Data /\ ~IsFull(queue) /\ index[t] = Succ(queue.tail)
    BY <1>0, <1>4 DEF At, TypeOK, PushStore, Fifo!Requests, Fifo!None
  <2>2. Contents(queue') = Contents(queue)
    BY <1>0, <1>4, <2>1, StoreFrame DEF PushStore
  <2>. QED
    BY <1>4, <2>2 DEF PushStore, Fifo!fifoVars
<1>5. CASE PushAdvance(t)
  <2>1. /\ op[t].data \in Data /\ ~IsFull(queue)
        /\ index[t] = Succ(queue.tail)
        /\ queue.list[Succ(queue.tail)] = op[t].data
    BY <1>0, <1>5 DEF At, TypeOK, PushAdvance, Fifo!Requests, Fifo!None
  <2>2. Contents(queue') = Append(Contents(queue), op[t].data)
    BY <1>0, <1>5, <2>1, AdvanceTail DEF PushAdvance
  <2>3. Len(Contents(queue)) < Capacity
    <3>1. Count(queue) \in 0 .. Capacity /\ Count(queue) # Capacity
      BY <1>0, <2>1, CountValue
    <3>. QED
      BY <1>a, <3>1, QueueLengthAssumption DEF Capacity
  <2>4. Fifo!TakesEffect(t, "Push")
    BY <1>0, <1>5 DEF At, PushAdvance, Fifo!TakesEffect
  <2>. QED
    BY <1>5, <2>2, <2>3, <2>4 DEF PushAdvance, Fifo!PushEffect
<1>6. CASE IsEmptyRead(t) /\ op[t].op = "IsEmpty"
  <2>1. Fifo!TakesEffect(t, "IsEmpty")
    BY <1>0, <1>6 DEF At, IsEmptyRead, Fifo!TakesEffect
  <2>2. res' = [res EXCEPT ![t] = (Contents(queue) = << >>)]
    <3>1. IsEmpty(queue) = (Contents(queue) = << >>)
      BY <1>0, EmptyContents DEF IsEmpty
    <3>2. res' = [res EXCEPT ![t] = IsEmpty(queue)]
      BY <1>6 DEF IsEmptyRead
    <3>. QED
      BY <3>1, <3>2
  <2>. QED
    BY <1>6, <2>1, <2>2 DEF IsEmptyRead, Fifo!IsEmptyEffect
<1>7. CASE IsEmptyRead(t) /\ op[t].op = "Pop"
  <2>1. CASE IsEmpty(queue)
    <3>1. Contents(queue) = << >>
      BY <1>0, <2>1, EmptyContents
    <3>2. Fifo!TakesEffect(t, "Pop")
      BY <1>0, <1>7 DEF At, IsEmptyRead, Fifo!TakesEffect
    <3>. QED
      BY <1>7, <2>1, <3>1, <3>2 DEF IsEmptyRead, Fifo!PopEffect
  <2>2. CASE ~IsEmpty(queue)
    BY <1>0, <1>7, <2>2 DEF At, TypeOK, IsEmptyRead, Fifo!fifoVars
  <2>. QED
    BY <2>1, <2>2
<1>8. CASE PopAdvance(t)
  <2>1. /\ ~IsEmpty(queue) /\ index[t] = Succ(queue.head)
        /\ out[t] = FrontElement(queue)
    BY <1>0, <1>8 DEF At, PopAdvance
  <2>2. /\ Contents(queue') = Tail(Contents(queue))
        /\ out[t] = Head(Contents(queue))
        /\ Contents(queue) # << >>
    BY <1>0, <1>8, <2>1, AdvanceHead, EmptyContents DEF PopAdvance
  <2>3. Fifo!TakesEffect(t, "Pop")
    BY <1>0, <1>8 DEF At, PopAdvance, Fifo!TakesEffect
  <2>. QED
    BY <1>8, <2>2, <2>3 DEF PopAdvance, Fifo!PopEffect
<1>9. CASE Enable(t)
  BY <1>0, <1>9 DEF At, Enable, Fifo!EnableEffect, Fifo!TakesEffect
<1>. QED
  BY <1>1, <1>2, <1>3, <1>4, <1>5, <1>6, <1>7, <1>8, <1>9
     DEF Step, IsEmptyRead

(* CircularQueue, with any number of threads, is a linearizable bounded     *)
(* FIFO of QUEUE_LENGTH-1 elements.                                         *)
THEOREM QueueIsLinearizable == Spec => Linearizable
<1>1. Init => Fifo!FifoInit
  BY NewQueueEmpty DEF Init, Fifo!FifoInit
<1>2. IInv /\ [Next]_vars => [Fifo!FifoNext]_(Fifo!fifoVars)
  <2>. SUFFICES ASSUME IInv, [Next]_vars
                PROVE  [Fifo!FifoNext]_(Fifo!fifoVars)
    OBVIOUS
  <2>1. CASE UNCHANGED vars
    BY <2>1 DEF vars, locals, Fifo!fifoVars
  <2>2. ASSUME NEW t \in Threads, Call(t)
        PROVE  [Fifo!FifoNext]_(Fifo!fifoVars)
    <3>1. op[t] = Fifo!None
      BY <2>2 DEF IInv, At, Call
    <3>2. \E r \in Fifo!Requests : Fifo!Call(t, r)
      BY <2>2, <3>1 DEF Call, Fifo!Call
    <3>. QED
      BY <3>2 DEF Fifo!FifoNext
  <2>3. ASSUME NEW t \in Threads, Step(t)
        PROVE  [Fifo!FifoNext]_(Fifo!fifoVars)
    BY <2>3, StepRefines DEF Fifo!FifoNext
  <2>. QED
    BY <2>1, <2>2, <2>3 DEF Next
<1>. QED
  BY <1>1, <1>2, Invariant, PTL DEF Spec, Linearizable, Fifo!FifoSpec

-----------------------------------------------------------------------------
(* CircularLinkedList.                                                      *)

Links == [Nodes -> Nodes \cup {NoNode}]
Heaps == [next : Links, prev : Links, data : [Nodes -> Data \cup {NoJob}]]
Lists == [head : Nodes, tail : Nodes]

(* The sets of nodes a walk from h cannot leave, and the least of them.     *)
Walks(m, h) ==
  {S \in SUBSET Nodes : h \in S /\ \A n \in S : m.next[n] \in S \cup {NoNode}}

Circle(m, h) == {n \in Nodes : \A S \in Walks(m, h) : n \in S}

(* The links of a list that is in use lead round its circle in both         *)
(* directions; a list never used has a head only.                           *)
Round(m, l) ==
  /\ \A n \in Circle(m, l.head) :
       /\ m.next[n] \in Circle(m, l.head) /\ m.prev[m.next[n]] = n
       /\ m.prev[n] \in Circle(m, l.head) /\ m.next[m.prev[n]] = n
  /\ m.next[l.tail] = l.head

WellLinked(m, l) ==
  /\ l.tail \in Circle(m, l.head)
  /\ IF m.next[l.head] = NoNode THEN l.tail = l.head ELSE Round(m, l)

LEMMA NodesOfCircle ==
  ASSUME NEW m, NEW l PROVE NodesOf(m, l) = Circle(m, l.head) \ {l.head}
BY DEF NodesOf, Circle, Walks

LEMMA CircleIsLeast ==
  ASSUME NEW m \in Heaps, NEW h \in Nodes
  PROVE  /\ h \in Circle(m, h) /\ Circle(m, h) \subseteq Nodes
         /\ \A n \in Circle(m, h) : m.next[n] \in Circle(m, h) \cup {NoNode}
         /\ \A S \in Walks(m, h) : Circle(m, h) \subseteq S
<1>1. h \in Circle(m, h) /\ Circle(m, h) \subseteq Nodes
  BY DEF Circle, Walks
<1>2. \A S \in Walks(m, h) : Circle(m, h) \subseteq S
  BY DEF Circle
<1>3. ASSUME NEW n \in Circle(m, h), m.next[n] # NoNode PROVE m.next[n] \in Circle(m, h)
  <2>1. m.next[n] \in Nodes
    BY <1>1, <1>3 DEF Heaps, Links
  <2>2. \A S \in Walks(m, h) : m.next[n] \in S
    BY <1>2, <1>3 DEF Walks
  <2> QED BY <2>1, <2>2 DEF Circle
<1> QED BY <1>1, <1>2, <1>3

(* A fresh head is alone.                                                   *)
LEMMA CircleOfOne ==
  ASSUME NEW m \in Heaps, NEW h \in Nodes, m.next[h] \in {h, NoNode}
  PROVE  Circle(m, h) = {h}
<1>1. {h} \in Walks(m, h)
  BY DEF Walks
<1> QED BY <1>1, CircleIsLeast

(* What is done elsewhere does not change a circle.                         *)
LEMMA CircleFrame ==
  ASSUME NEW m \in Heaps, NEW k \in Heaps, NEW h \in Nodes,
         \A n \in Circle(m, h) : k.next[n] = m.next[n]
  PROVE  Circle(k, h) = Circle(m, h)
<1> DEFINE C == Circle(m, h)
<1>0. /\ h \in C /\ C \subseteq Nodes /\ \A n \in C : m.next[n] \in C \cup {NoNode}
      /\ \A n \in C : k.next[n] = m.next[n]
      /\ \A S \in Walks(m, h) : C \subseteq S
  BY CircleIsLeast
<1>a. Circle(k, h) \in SUBSET Nodes /\ \A S \in Walks(k, h) : Circle(k, h) \subseteq S
        /\ h \in Circle(k, h) /\ \A n \in Circle(k, h) : k.next[n] \in Circle(k, h) \cup {NoNode}
  BY CircleIsLeast
<1> HIDE DEF C
<1>1. C \in Walks(k, h)
  BY <1>0 DEF Walks
<1>2. C \cap Circle(k, h) \in Walks(m, h)
  BY <1>0, <1>a DEF Walks
<1>3. C \subseteq Circle(k, h) /\ Circle(k, h) \subseteq C
  BY <1>0, <1>a, <1>1, <1>2
<1> QED BY <1>3 DEF C

LEMMA LinkedFrame ==
  ASSUME NEW m \in Heaps, NEW k \in Heaps, NEW l \in Lists, WellLinked(m, l),
         \A n \in Circle(m, l.head) : k.next[n] = m.next[n] /\ k.prev[n] = m.prev[n]
  PROVE  Circle(k, l.head) = Circle(m, l.head) /\ WellLinked(k, l)
<1>1. l.head \in Nodes
  BY DEF Lists
<1>2. Circle(k, l.head) = Circle(m, l.head)
  BY <1>1, CircleFrame
<1>3. l.head \in Circle(m, l.head) /\ l.tail \in Circle(m, l.head)
  BY <1>1, CircleIsLeast DEF WellLinked
<1>4. k.next[l.head] = m.next[l.head] /\ k.next[l.tail] = m.next[l.tail]
  BY <1>3
<1>5. ASSUME Round(m, l) PROVE Round(k, l)
  <2> DEFINE C == Circle(m, l.head)
  <2>1. /\ \A n \in C : m.next[n] \in C /\ m.prev[m.next[n]] = n
                         /\ m.prev[n] \in C /\ m.next[m.prev[n]] = n
        /\ m.next[l.tail] = l.head
    BY <1>5 DEF Round
  <2>2. \A n \in C : k.next[n] = m.next[n] /\ k.prev[n] = m.prev[n]
    OBVIOUS
  <2>3. Circle(k, l.head) = C
    BY <1>2
  <2> HIDE DEF C
  <2>4. \A n \in C : k.next[n] \in C /\ k.prev[k.next[n]] = n
                      /\ k.prev[n] \in C /\ k.next[k.prev[n]] = n
    BY <2>1, <2>2
  <2> QED BY <1>4, <2>1, <2>3, <2>4 DEF Round
<1> QED BY <1>2, <1>3, <1>4, <1>5 DEF WellLinked

(* push_back adds the node to the circle and touches nothing else.          *)
LEMMA PushBackLinks ==
  ASSUME NEW m \in Heaps, NEW l \in Lists, WellLinked(m, l),
         NEW n \in Nodes \ Circle(m, l.head)
  PROVE  LET k == LinkedBack(m, l, n)
             C == Circle(m, l.head)
         IN  /\ k \in Heaps /\ k.data = m.data
             /\ TailAfterPush(l, n) \in Lists /\ TailAfterPush(l, n).head = l.head
             /\ Circle(k, l.head) = C \cup {n} /\ WellLinked(k, TailAfterPush(l, n))
             /\ k.next[l.head] # NoNode
             /\ \A x \in Nodes \ (C \cup {n}) :
                  k.next[x] = m.next[x] /\ k.prev[x] = m.prev[x]
<1> DEFINE k == LinkedBack(m, l, n)
           C == Circle(m, l.head)
           h == l.head
           t == l.tail
<1>0. /\ h \in Nodes /\ h \in C /\ C \subseteq Nodes /\ t \in C /\ n # h /\ n \notin C
      /\ \A x \in C : m.next[x] \in C \cup {NoNode}
      /\ \A S \in Walks(m, h) : C \subseteq S
      /\ NoNode \notin Nodes /\ h # NoNode
  BY CircleIsLeast, NodesAssumption DEF Lists, WellLinked
<1>1. TailAfterPush(l, n) \in Lists /\ TailAfterPush(l, n).head = h /\ TailAfterPush(l, n).tail = n
  BY DEF TailAfterPush, Lists
<1>2. CASE m.next[t] = NoNode
  <2>1. t = h /\ C = {h}
    BY <1>0, <1>2, CircleOfOne DEF WellLinked, Round
  <2>2. /\ k \in Heaps /\ k.data = m.data
        /\ k.next = [m.next EXCEPT ![n] = h, ![h] = n]
        /\ k.prev = [m.prev EXCEPT ![n] = h, ![h] = n]
    BY <1>0, <1>2 DEF LinkedBack, Heaps, Links
  <2>3. /\ k.next[n] = h /\ k.next[h] = n /\ k.prev[n] = h /\ k.prev[h] = n
        /\ \A x \in Nodes \ {h, n} : k.next[x] = m.next[x] /\ k.prev[x] = m.prev[x]
    BY <1>0, <2>2 DEF Heaps, Links
  <2> HIDE DEF k
  <2>4. {h, n} \in Walks(k, h)
    BY <1>0, <2>3 DEF Walks
  <2>5. Circle(k, h) = {h, n}
    <3>1. Circle(k, h) \subseteq {h, n} /\ h \in Circle(k, h)
      BY <1>0, <2>2, <2>4, CircleIsLeast
    <3>2. n \in Circle(k, h)
      BY <1>0, <2>2, <2>3, <3>1, CircleIsLeast
    <3> QED BY <3>1, <3>2
  <2>6. WellLinked(k, TailAfterPush(l, n))
    BY <1>0, <1>1, <2>3, <2>5 DEF WellLinked, Round
  <2> QED BY <1>0, <1>1, <2>1, <2>2, <2>3, <2>5, <2>6 DEF k
<1>3. CASE m.next[t] # NoNode
  <2>1. m.next[h] # NoNode /\ m.next[t] = h
    BY <1>3 DEF WellLinked, Round
  <2>2. \A x \in C : m.next[x] \in C /\ m.prev[x] \in C
                       /\ m.prev[m.next[x]] = x /\ m.next[m.prev[x]] = x
    BY <1>0, <2>1 DEF WellLinked, Round
  <2>3. /\ k \in Heaps /\ k.data = m.data
        /\ k.next = [m.next EXCEPT ![n] = h, ![t] = n]
        /\ k.prev = [m.prev EXCEPT ![n] = t, ![h] = n]
    BY <1>0, <1>3, <2>1 DEF LinkedBack, Heaps, Links
  <2>4. /\ k.next[n] = h /\ k.next[t] = n /\ k.prev[n] = t /\ k.prev[h] = n
        /\ \A x \in Nodes \ {t, n} : k.next[x] = m.next[x]
        /\ \A x \in Nodes \ {h, n} : k.prev[x] = m.prev[x]
    BY <1>0, <2>3 DEF Heaps, Links
  <2> HIDE DEF k
  <2>5. Circle(k, h) \subseteq C \cup {n}
    <3>1. C \cup {n} \in Walks(k, h)
      BY <1>0, <2>2, <2>4 DEF Walks
    <3> QED BY <1>0, <2>3, <3>1, CircleIsLeast
  <2>6. C \cup {n} \subseteq Circle(k, h)
    <3>1. /\ Circle(k, h) \subseteq Nodes /\ h \in Circle(k, h)
          /\ \A x \in Circle(k, h) : k.next[x] \in Circle(k, h) \cup {NoNode}
      BY <1>0, <2>3, CircleIsLeast
    <3>2. Circle(k, h) \cap C \in Walks(m, h)
      BY <1>0, <2>1, <2>2, <2>4, <3>1 DEF Walks
    <3>3. C \subseteq Circle(k, h)
      BY <1>0, <3>2
    <3> QED BY <1>0, <2>4, <3>1, <3>3
  <2>7. Circle(k, h) = C \cup {n}
    BY <2>5, <2>6
  <2> HIDE DEF C
  <2>8. \A x \in C \cup {n} :
          /\ k.next[x] \in C \cup {n} /\ k.prev[k.next[x]] = x
          /\ k.prev[x] \in C \cup {n} /\ k.next[k.prev[x]] = x
    <3>1. TAKE x \in C \cup {n}
    <3>2. CASE x = n
      BY <1>0, <2>4, <3>2
    <3>3. CASE x = t /\ x # n
      BY <1>0, <2>1, <2>2, <2>4, <3>3
    <3>4. CASE x = h /\ x # n /\ x # t
      BY <1>0, <2>1, <2>2, <2>4, <3>4
    <3>5. CASE x \in C /\ x # t /\ x # h
      <4>1. m.next[x] # h /\ m.prev[x] # t
        BY <1>0, <2>1, <2>2, <3>5
      <4> QED BY <1>0, <2>2, <2>4, <3>5, <4>1
    <3> QED BY <3>2, <3>3, <3>4, <3>5
  <2>9. WellLinked(k, TailAfterPush(l, n)) /\ k.next[h] # NoNode
    BY <1>0, <1>1, <2>4, <2>7, <2>8 DEF WellLinked, Round, C
  <2> QED BY <1>0, <1>1, <2>3, <2>4, <2>7, <2>9 DEF k, C
<1> QED BY <1>2, <1>3

(* erase takes the node out of the circle and makes it lead back into it.   *)
LEMMA EraseLinks ==
  ASSUME NEW m \in Heaps, NEW l \in Lists, WellLinked(m, l), m.next[l.head] # NoNode,
         NEW n \in Circle(m, l.head) \ {l.head}
  PROVE  LET k == Erased(m, n)
             C == Circle(m, l.head)
         IN  /\ k \in Heaps /\ k.data = m.data
             /\ TailAfterErase(m, l, n) \in Lists /\ TailAfterErase(m, l, n).head = l.head
             /\ Circle(k, l.head) = C \ {n} /\ WellLinked(k, TailAfterErase(m, l, n))
             /\ k.next[l.head] # NoNode /\ k.next[n] \in C \ {n}
             /\ \A x \in Nodes \ C : k.next[x] = m.next[x] /\ k.prev[x] = m.prev[x]
<1> DEFINE k == Erased(m, n)
           C == Circle(m, l.head)
           h == l.head
           t == l.tail
           after == m.next[n]
           before == m.prev[n]
<1>0. /\ h \in Nodes /\ h \in C /\ C \subseteq Nodes /\ t \in C /\ n \in C /\ n # h
      /\ \A S \in Walks(m, h) : C \subseteq S
      /\ NoNode \notin Nodes
      /\ \A x \in C : m.next[x] \in C /\ m.prev[x] \in C
                        /\ m.prev[m.next[x]] = x /\ m.next[m.prev[x]] = x
      /\ m.next[t] = h
  BY CircleIsLeast, NodesAssumption DEF Lists, WellLinked, Round
<1>1. after \in C /\ before \in C /\ m.next[before] = n /\ m.prev[after] = n
  BY <1>0
<1>2. after # n /\ before # n
  <2>1. SUFFICES ASSUME after = n PROVE FALSE
    BY <1>0, <1>1
  <2>2. C \ {n} \in Walks(m, h)
    BY <1>0, <2>1 DEF Walks
  <2> QED BY <1>0, <2>2
<1>3. /\ k \in Heaps /\ k.data = m.data
      /\ k.next = [m.next EXCEPT ![before] = after, ![n] = before]
      /\ k.prev = [m.prev EXCEPT ![after] = before, ![n] = after]
  BY <1>0, <1>1 DEF Erased, Heaps, Links
<1>4. /\ k.next[n] = before /\ k.next[before] = after /\ k.prev[after] = before
      /\ \A x \in Nodes \ {before, n} : k.next[x] = m.next[x]
      /\ \A x \in Nodes \ {after, n} : k.prev[x] = m.prev[x]
  BY <1>0, <1>1, <1>2, <1>3 DEF Heaps, Links
<1> HIDE DEF k, C, after, before
<1>5. Circle(k, h) \subseteq C \ {n}
  <2>1. ASSUME NEW x \in C \ {n} PROVE k.next[x] \in C \ {n}
    BY <1>0, <1>1, <1>2, <1>4
  <2>2. C \ {n} \in Walks(k, h)
    BY <1>0, <2>1 DEF Walks
  <2> QED BY <1>0, <1>3, <2>2, CircleIsLeast
<1>6. C \ {n} \subseteq Circle(k, h)
  <2>1. /\ Circle(k, h) \subseteq Nodes /\ h \in Circle(k, h)
        /\ \A x \in Circle(k, h) : k.next[x] \in Circle(k, h) \cup {NoNode}
    BY <1>0, <1>3, CircleIsLeast
  <2>2. n \notin Circle(k, h) /\ \A x \in Circle(k, h) : x # before => m.next[x] = k.next[x]
    BY <1>4, <1>5, <2>1
  <2>3. before \in Circle(k, h) => after \in Circle(k, h)
    BY <1>0, <1>1, <1>4, <2>1
  <2>4. before \in Circle(k, h)
    <3>1. SUFFICES ASSUME before \notin Circle(k, h) PROVE FALSE
      OBVIOUS
    <3>2. Circle(k, h) \in Walks(m, h)
      BY <2>1, <2>2, <3>1 DEF Walks
    <3> QED BY <1>0, <1>1, <3>1, <3>2
  <2>5. Circle(k, h) \cup {n} \in Walks(m, h)
    BY <1>0, <1>1, <2>1, <2>2, <2>3, <2>4 DEF Walks, after
  <2> QED BY <1>0, <2>5
<1>7. Circle(k, h) = C \ {n}
  BY <1>5, <1>6
<1>8. /\ TailAfterErase(m, l, n) \in Lists /\ TailAfterErase(m, l, n).head = h
      /\ TailAfterErase(m, l, n).tail = IF n = t THEN before ELSE t
  BY <1>0, <1>1 DEF TailAfterErase, Lists, before
<1>9. \A x \in C \ {n} :
        /\ k.next[x] \in C \ {n} /\ k.prev[k.next[x]] = x
        /\ k.prev[x] \in C \ {n} /\ k.next[k.prev[x]] = x
  <2>1. TAKE x \in C \ {n}
  <2>2. k.next[x] \in C \ {n} /\ k.prev[k.next[x]] = x
    <3>1. CASE x = before
      BY <1>0, <1>1, <1>2, <1>4, <3>1
    <3>2. CASE x # before
      <4>1. m.next[x] # n /\ m.next[x] # after
        BY <1>0, <1>1, <3>2 DEF before, after
      <4> QED BY <1>0, <1>4, <3>2, <4>1
    <3> QED BY <3>1, <3>2
  <2>3. k.prev[x] \in C \ {n} /\ k.next[k.prev[x]] = x
    <3>1. CASE x = after
      BY <1>0, <1>1, <1>2, <1>4, <3>1
    <3>2. CASE x # after
      <4>1. m.prev[x] # n /\ m.prev[x] # before
        BY <1>0, <1>1, <3>2 DEF before, after
      <4> QED BY <1>0, <1>4, <3>2, <4>1
    <3> QED BY <3>1, <3>2
  <2> QED BY <2>2, <2>3
<1>10. WellLinked(k, TailAfterErase(m, l, n)) /\ k.next[h] # NoNode
  <2>1. k.next[h] \in C
    BY <1>0, <1>9
  <2>2. k.next[IF n = t THEN before ELSE t] = h
    BY <1>0, <1>1, <1>2, <1>4 DEF after
  <2>3. k.next[h] # NoNode
    BY <1>0, <2>1
  <2> DEFINE T == TailAfterErase(m, l, n)
  <2>4. T.head = h /\ T.tail \in C \ {n} /\ k.next[T.tail] = h
    BY <1>0, <1>1, <1>2, <1>8, <2>2
  <2> HIDE DEF T
  <2> QED BY <1>7, <1>9, <2>3, <2>4 DEF WellLinked, Round, T
<1> QED BY <1>0, <1>1, <1>2, <1>3, <1>4, <1>7, <1>8, <1>10 DEF k, C

-----------------------------------------------------------------------------
(* The pool.                                                                *)

CallerPlaces == {"idle", "push", "notify", "alloc", "link"}
JobStates == {"new", "made", "queued", "dropped", "broken", "ready", "collected"}
CallerStates ==
  [pc : CallerPlaces, job : Data \cup {NoJob}, node : Nodes \cup {NoNode}]

PoolRange ==
  /\ mem \in Heaps /\ stock \in Lists /\ processing \in Lists
  /\ job \in [Data -> JobStates]
  /\ caller \in [Callers -> CallerStates]

(* The destructor runs when nobody calls, and clears when nobody collects.  *)
DtorInv ==
  /\ dtor # "alive" => \A c \in Callers : caller[c].pc = "idle"
  /\ dtor \in {"clear", "done"} => collector.pc = "done"

Stocked == Circle(mem, stock.head)
Processed == Circle(mem, processing.head)
LinkNodes == {caller[c].node : c \in Linked}

(* Every node is in one place: in a list, with a caller, or free.           *)
PlaceInv ==
  /\ {stock.head, processing.head} = {StockHead, ProcessingHead}
  /\ WellLinked(mem, stock) /\ WellLinked(mem, processing)
  /\ Stocked \cap Processed = {}
  /\ free \in Seq(Nodes) /\ \A i, j \in DOMAIN free : free[i] = free[j] => i = j
  /\ FreeNodes \cap (Stocked \cup Processed) = {}
  /\ LinkNodes \subseteq Nodes \ (Stocked \cup Processed \cup FreeNodes)
  /\ \A c, d \in Linked : c = d
  /\ Nodes \subseteq Stocked \cup Processed \cup FreeNodes \cup LinkNodes

(* The nodes that have a result, and the callers on the way to one.         *)
InUse == (Stocked \cup Processed \cup LinkNodes) \ {StockHead, ProcessingHead}
Claims == {c \in Callers : caller[c].pc \in {"push", "notify", "alloc"}}

Given(f, j) == j \in Data /\ f[j] \notin {"new", "collected"}

(* A job is in one node or with one caller, and not handed out before.      *)
DataInv ==
  /\ \A n \in InUse :
       /\ Given(job, mem.data[n])
       /\ \A o \in InUse : mem.data[o] = mem.data[n] => o = n
  /\ \A c \in Claims :
       /\ Given(job, caller[c].job)
       /\ \A n \in InUse : mem.data[n] # caller[c].job
       /\ \A d \in Claims : caller[d].job = caller[c].job => d = c

(* The iterator; the node it has just freed leads back as long as it is     *)
(* free.                                                                    *)
WalkInv ==
  /\ collector.pc = "visit" =>
       mem.next[processing.head] # NoNode /\ collector.it \in Processed
  /\ collector.pc = "advance" /\ collector.it \in FreeNodes =>
       mem.next[processing.head] # NoNode /\ mem.next[collector.it] \in Processed

ThreadPoolInv ==
  PoolRange /\ DtorInv /\ (dtor # "done" => PlaceInv /\ DataInv /\ WalkInv)

LEMMA TakenFromFree ==
  ASSUME NEW s \in Seq(Nodes), s # << >>,
         \A i, j \in DOMAIN s : s[i] = s[j] => i = j
  PROVE  /\ Head(s) \in Range(s) /\ Tail(s) \in Seq(Nodes)
         /\ \A i, j \in DOMAIN Tail(s) : Tail(s)[i] = Tail(s)[j] => i = j
         /\ Range(Tail(s)) = Range(s) \ {Head(s)}
<1>1. /\ DOMAIN s = 1 .. Len(s) /\ Len(s) \in Nat \ {0} /\ Head(s) = s[1]
      /\ Tail(s) \in Seq(Nodes) /\ DOMAIN Tail(s) = 1 .. Len(s) - 1
      /\ \A i \in 1 .. Len(s) - 1 : Tail(s)[i] = s[i + 1]
  OBVIOUS
<1>2. \A i, j \in DOMAIN Tail(s) : Tail(s)[i] = Tail(s)[j] => i = j
  BY <1>1
<1>3. \A i \in DOMAIN Tail(s) : i + 1 \in DOMAIN s /\ i + 1 # 1
  BY <1>1
<1>4. Range(Tail(s)) \subseteq Range(s) \ {Head(s)}
  BY <1>1, <1>3 DEF Range
<1>5. ASSUME NEW i \in DOMAIN s, s[i] # Head(s) PROVE \E j \in DOMAIN Tail(s) : Tail(s)[j] = s[i]
  <2>1. i - 1 \in 1 .. Len(s) - 1 /\ (i - 1) + 1 = i
    BY <1>1, <1>5
  <2> QED BY <1>1, <2>1
<1>6. Range(s) \ {Head(s)} \subseteq Range(Tail(s))
  BY <1>5 DEF Range
<1>7. Head(s) \in Range(s)
  BY <1>1 DEF Range
<1> QED BY <1>1, <1>2, <1>4, <1>6, <1>7

LEMMA GivenToFree ==
  ASSUME NEW s \in Seq(Nodes), NEW n \in Nodes \ Range(s),
         \A i, j \in DOMAIN s : s[i] = s[j] => i = j
  PROVE  LET t == <<n>> \o s
         IN  /\ t \in Seq(Nodes) /\ \A i, j \in DOMAIN t : t[i] = t[j] => i = j
             /\ Range(t) = Range(s) \cup {n}
<1> DEFINE t == <<n>> \o s
<1>1. /\ DOMAIN s = 1 .. Len(s) /\ Len(s) \in Nat
      /\ t \in Seq(Nodes) /\ DOMAIN t = 1 .. Len(s) + 1 /\ t[1] = n
      /\ \A i \in 2 .. Len(s) + 1 : t[i] = s[i - 1]
  OBVIOUS
<1> HIDE DEF t
<1>2. \A i \in DOMAIN t : i = 1 \/ (i \in 2 .. Len(s) + 1 /\ i - 1 \in DOMAIN s)
  BY <1>1
<1>3. \A i, j \in DOMAIN t : t[i] = t[j] => i = j
  <2>1. TAKE i, j \in DOMAIN t
  <2>2. CASE i = 1 /\ j = 1
    BY <2>2
  <2>3. CASE i # 1 /\ j # 1
    BY <1>1, <1>2, <2>3
  <2>4. CASE i = 1 /\ j # 1
    BY <1>1, <1>2, <2>4 DEF Range
  <2>5. CASE i # 1 /\ j = 1
    BY <1>1, <1>2, <2>5 DEF Range
  <2> QED BY <2>2, <2>3, <2>4, <2>5
<1>4. Range(t) \subseteq Range(s) \cup {n}
  BY <1>1, <1>2 DEF Range
<1>5. \A i \in DOMAIN s : i + 1 \in DOMAIN t /\ t[i + 1] = s[i]
  BY <1>1
<1>6. Range(s) \cup {n} \subseteq Range(t)
  BY <1>1, <1>5 DEF Range
<1> QED BY <1>1, <1>3, <1>4, <1>6 DEF t

LEMMA FreshBlocksAreFree ==
  /\ FreshBlocks \in Seq(Nodes)
  /\ \A i, j \in DOMAIN FreshBlocks : FreshBlocks[i] = FreshBlocks[j] => i = j
  /\ Range(FreshBlocks) = Nodes \ {StockHead, ProcessingHead}
<1> DEFINE blocks == Nodes \ {StockHead, ProcessingHead}
           n == Cardinality(blocks)
<1>1. IsFiniteSet(blocks)
  BY NodesAssumption, FS_Subset
<1>2. n \in Nat /\ ExistsBijection(1 .. n, blocks)
  BY <1>1, FS_CardinalityType
<1>3. FreshBlocks \in Bijection(1 .. n, blocks)
  BY <1>2 DEF FreshBlocks, ExistsBijection
<1> HIDE DEF n
<1>4. /\ FreshBlocks \in [1 .. n -> blocks]
      /\ \A i, j \in 1 .. n : FreshBlocks[i] = FreshBlocks[j] => i = j
      /\ \A b \in blocks : \E i \in 1 .. n : FreshBlocks[i] = b
  BY <1>3 DEF Bijection, Injection, Surjection, IsInjective
<1> HIDE DEF blocks
<1>5. FreshBlocks \in Seq(blocks) /\ DOMAIN FreshBlocks = 1 .. n
  BY <1>2, <1>4
<1>6. Range(FreshBlocks) = blocks
  BY <1>4, <1>5 DEF Range
<1>7. FreshBlocks \in Seq(Nodes)
  BY <1>2, <1>4 DEF blocks
<1> QED BY <1>4, <1>5, <1>6, <1>7 DEF blocks

LEMMA ThreadPoolInitInv == ThreadPoolInit => ThreadPoolInv
<1> SUFFICES ASSUME ThreadPoolInit PROVE ThreadPoolInv
  OBVIOUS
<1>0. StockHead \in Nodes /\ ProcessingHead \in Nodes /\ StockHead # ProcessingHead
  BY HeadAssumption
<1>1. /\ mem \in Heaps /\ \A n \in Nodes : mem.next[n] = NoNode
      /\ stock = [head |-> StockHead, tail |-> StockHead]
      /\ processing = [head |-> ProcessingHead, tail |-> ProcessingHead]
      /\ free = FreshBlocks /\ dtor = "alive" /\ collector.pc = "wait"
      /\ job \in [Data -> JobStates] /\ caller \in [Callers -> CallerStates]
      /\ \A c \in Callers : caller[c].pc = "idle"
  BY DEF ThreadPoolInit, Heaps, Links, NewList, JobStates, CallerStates, CallerPlaces, IdleCaller
<1>2. PoolRange /\ DtorInv /\ WalkInv
  BY <1>0, <1>1 DEF PoolRange, Lists, DtorInv, WalkInv
<1>3. Stocked = {StockHead} /\ Processed = {ProcessingHead}
  BY <1>0, <1>1, CircleOfOne DEF Stocked, Processed
<1>4. LinkNodes = {} /\ Linked = {} /\ Claims = {}
  BY <1>1 DEF LinkNodes, Linked, Claims
<1>5. FreeNodes = Nodes \ {StockHead, ProcessingHead}
  BY <1>1, FreshBlocksAreFree DEF FreeNodes
<1>6. WellLinked(mem, stock) /\ WellLinked(mem, processing)
  BY <1>0, <1>1, <1>3 DEF WellLinked, Stocked, Processed
<1>7. PlaceInv
  BY <1>0, <1>1, <1>3, <1>4, <1>5, <1>6, FreshBlocksAreFree DEF PlaceInv
<1>8. DataInv
  BY <1>3, <1>4 DEF DataInv, InUse
<1> QED BY <1>2, <1>7, <1>8 DEF ThreadPoolInv

-----------------------------------------------------------------------------
(* The steps that leave the lists alone.                                    *)
LEMMA QuietStep ==
  ASSUME ThreadPoolInv, dtor' # "done" => dtor # "done",
         mem' = mem, free' = free,
         <<stock', processing'>> \in {<<stock, processing>>, <<processing, stock>>},
         caller' \in [Callers -> CallerStates], job' \in [Data -> JobStates],
         \A j \in Data : Given(job, j) => Given(job', j),
         Linked' = Linked, \A c \in Linked : caller'[c].node = caller[c].node,
         Claims' \subseteq Claims, \A c \in Claims' : caller'[c].job = caller[c].job
  PROVE  PoolRange' /\ (dtor' # "done" => PlaceInv' /\ DataInv')
<1>1. PoolRange'
  BY DEF ThreadPoolInv, PoolRange
<1>2. SUFFICES ASSUME dtor' # "done" PROVE PlaceInv' /\ DataInv'
  BY <1>1
<1>3. PlaceInv /\ DataInv
  BY <1>2 DEF ThreadPoolInv
<1>4. <<Stocked', Processed'>> \in {<<Stocked, Processed>>, <<Processed, Stocked>>}
  BY DEF Stocked, Processed
<1>5. LinkNodes' = LinkNodes
  BY DEF LinkNodes
<1>6. FreeNodes' = FreeNodes
  BY DEF FreeNodes
<1>7. WellLinked(mem, stock)' /\ WellLinked(mem, processing)'
  BY <1>3 DEF PlaceInv
<1>8. PlaceInv'
  BY <1>3, <1>4, <1>5, <1>6, <1>7 DEF PlaceInv
<1>9. InUse' = InUse
  BY <1>4, <1>5 DEF InUse
<1>10. DataInv'
  BY <1>3, <1>9 DEF DataInv, Given
<1> QED BY <1>8, <1>10

LEMMA GivenStays ==
  ASSUME NEW k, NEW v \in JobStates \ {"new", "collected"},
         job' = [job EXCEPT ![k] = v], job \in [Data -> JobStates]
  PROVE  job' \in [Data -> JobStates] /\ \A j : Given(job, j) => Given(job', j)
BY DEF Given

LEMMA EnqueueInv ==
  ASSUME ThreadPoolInv, NEW c \in Callers, Enqueue(c) PROVE ThreadPoolInv'
<1>1. PICK j \in NewJobs :
      /\ caller[c].pc = "idle" /\ dtor = "alive"
      /\ job' = [job EXCEPT ![j] = "made"]
      /\ caller' = [caller EXCEPT ![c].pc = "push", ![c].job = j]
      /\ UNCHANGED <<mem, free, stock, processing, dtor, collector>>
  BY DEF Enqueue, lists, life
<1>2. j \in Data /\ job[j] = "new"
  BY <1>1 DEF NewJobs
<1>3. PoolRange /\ PlaceInv /\ DataInv /\ WalkInv /\ DtorInv
  BY <1>1 DEF ThreadPoolInv
<1>4. /\ caller' \in [Callers -> CallerStates] /\ caller'[c].pc = "push" /\ caller'[c].job = j
      /\ \A d \in Callers \ {c} : caller'[d] = caller[d]
  BY <1>1, <1>2, <1>3 DEF PoolRange, CallerStates, CallerPlaces
<1>5. job' \in [Data -> JobStates] /\ Given(job', j) /\ \A k : Given(job, k) => Given(job', k) /\ k # j
  <2>1. /\ job' \in [Data -> JobStates] /\ job'[j] = "made"
        /\ \A k \in Data \ {j} : job'[k] = job[k]
    BY <1>1, <1>2, <1>3 DEF PoolRange, JobStates
  <2>2. \A k : Given(job, k) => k # j /\ job'[k] = job[k]
    BY <1>2, <2>1 DEF Given
  <2> QED BY <1>2, <2>1, <2>2 DEF Given
<1>6. /\ Linked' = Linked /\ \A d \in Linked : caller'[d].node = caller[d].node
      /\ Claims' = Claims \cup {c} /\ c \notin Claims
      /\ \A d \in Claims : caller'[d].job = caller[d].job
  BY <1>1, <1>4 DEF Linked, Claims
<1>7. LinkNodes' = LinkNodes
  BY <1>6 DEF LinkNodes
<1>8. InUse' = InUse /\ FreeNodes' = FreeNodes /\ Stocked' = Stocked /\ Processed' = Processed
  BY <1>1, <1>7 DEF InUse, FreeNodes, Stocked, Processed
<1>9. PoolRange' /\ DtorInv' /\ WalkInv'
  BY <1>1, <1>3, <1>4, <1>5, <1>8 DEF PoolRange, DtorInv, WalkInv
<1>10. PlaceInv'
  BY <1>1, <1>3, <1>6, <1>7, <1>8 DEF PlaceInv
<1>11. DataInv'
  <2>1. \A n \in InUse' : /\ Given(job', mem'.data[n])
                          /\ \A o \in InUse' : mem'.data[o] = mem'.data[n] => o = n
    BY <1>1, <1>3, <1>5, <1>8 DEF DataInv
  <2>2. \A d \in Claims' : /\ Given(job', caller'[d].job)
                           /\ \A n \in InUse' : mem'.data[n] # caller'[d].job
    <3>1. TAKE d \in Claims'
    <3>2. CASE d = c
      BY <1>1, <1>3, <1>4, <1>5, <1>8, <3>2 DEF DataInv
    <3>3. CASE d # c
      <4>1. d \in Claims /\ caller'[d].job = caller[d].job
        BY <1>6, <3>3
      <4>2. Given(job, caller[d].job) /\ \A n \in InUse : mem.data[n] # caller[d].job
        BY <1>3, <4>1 DEF DataInv
      <4>3. Given(job', caller'[d].job)
        BY <1>5, <4>1, <4>2 DEF Given
      <4> QED BY <1>1, <1>8, <4>1, <4>2, <4>3
    <3> QED BY <3>2, <3>3
  <2>3. \A d, e \in Claims' : caller'[e].job = caller'[d].job => e = d
    BY <1>3, <1>4, <1>5, <1>6 DEF DataInv
  <2> QED BY <2>1, <2>2, <2>3 DEF DataInv
<1> QED BY <1>9, <1>10, <1>11 DEF ThreadPoolInv

LEMMA PushInv ==
  ASSUME ThreadPoolInv, NEW c \in Callers, Push(c) PROVE ThreadPoolInv'
<1>1. /\ caller[c].pc = "push"
      /\ \E v \in {"dropped", "queued"} : job' = [job EXCEPT ![caller[c].job] = v]
      /\ caller' = [caller EXCEPT ![c].pc = "notify"]
      /\ UNCHANGED <<mem, free, stock, processing, dtor, collector>>
  BY DEF Push, lists, life
<1>2. PoolRange /\ dtor = "alive"
  BY <1>1 DEF ThreadPoolInv, DtorInv
<1>3. job' \in [Data -> JobStates] /\ \A j : Given(job, j) => Given(job', j)
  BY <1>1, <1>2, GivenStays DEF PoolRange, JobStates
<1>4. /\ caller' \in [Callers -> CallerStates]
      /\ \A d \in Callers : caller'[d].node = caller[d].node /\ caller'[d].job = caller[d].job
      /\ caller'[c].pc = "notify" /\ \A d \in Callers \ {c} : caller'[d] = caller[d]
  BY <1>1, <1>2 DEF PoolRange, CallerStates, CallerPlaces
<1>5. Linked' = Linked /\ Claims' = Claims
  BY <1>1, <1>4 DEF Linked, Claims
<1>6. \A d \in Linked : caller'[d].node = caller[d].node
  BY <1>4 DEF Linked
<1>7. \A d \in Claims' : caller'[d].job = caller[d].job
  BY <1>4 DEF Claims
<1>8. PoolRange' /\ PlaceInv' /\ DataInv'
  BY <1>1, <1>2, <1>3, <1>4, <1>5, <1>6, <1>7, QuietStep
<1>9. DtorInv' /\ WalkInv'
  BY <1>1, <1>2 DEF ThreadPoolInv, DtorInv, WalkInv, FreeNodes, Processed
<1> QED BY <1>8, <1>9 DEF ThreadPoolInv

LEMMA NotifyOneInv ==
  ASSUME ThreadPoolInv, NEW c \in Callers, NotifyOne(c) PROVE ThreadPoolInv'
<1>1. /\ caller[c].pc = "notify" /\ job' = job
      /\ caller' = [caller EXCEPT ![c].pc = "alloc"]
      /\ UNCHANGED <<mem, free, stock, processing, dtor, collector>>
  BY DEF NotifyOne, lists, life
<1>2. PoolRange /\ dtor = "alive"
  BY <1>1 DEF ThreadPoolInv, DtorInv
<1>3. job' \in [Data -> JobStates] /\ \A j : Given(job, j) => Given(job', j)
  BY <1>1, <1>2 DEF PoolRange, Given
<1>4. /\ caller' \in [Callers -> CallerStates]
      /\ \A d \in Callers : caller'[d].node = caller[d].node /\ caller'[d].job = caller[d].job
      /\ caller'[c].pc = "alloc" /\ \A d \in Callers \ {c} : caller'[d] = caller[d]
  BY <1>1, <1>2 DEF PoolRange, CallerStates, CallerPlaces
<1>5. Linked' = Linked /\ Claims' = Claims
  BY <1>1, <1>4 DEF Linked, Claims
<1>6. \A d \in Linked : caller'[d].node = caller[d].node
  BY <1>4 DEF Linked
<1>7. \A d \in Claims' : caller'[d].job = caller[d].job
  BY <1>4 DEF Claims
<1>8. PoolRange' /\ PlaceInv' /\ DataInv'
  BY <1>1, <1>2, <1>3, <1>4, <1>5, <1>6, <1>7, QuietStep
<1>9. DtorInv' /\ WalkInv'
  BY <1>1, <1>2 DEF ThreadPoolInv, DtorInv, WalkInv, FreeNodes, Processed
<1> QED BY <1>8, <1>9 DEF ThreadPoolInv

(* Steps of the others that change neither lists nor callers.               *)
LEMMA ElsewhereInv ==
  ASSUME ThreadPoolInv, UNCHANGED <<mem, free, caller>>,
         <<stock', processing'>> \in {<<stock, processing>>, <<processing, stock>>},
         job' = job \/ \E k : job' = [job EXCEPT ![k] = "ready"],
         dtor' # "done" => dtor # "done"
  PROVE  PoolRange' /\ (dtor' # "done" => PlaceInv' /\ DataInv')
<1>1. PoolRange
  BY DEF ThreadPoolInv
<1>2. job' \in [Data -> JobStates] /\ \A j \in Data : Given(job, j) => Given(job', j)
  BY <1>1, GivenStays DEF PoolRange, JobStates, Given
<1>3. caller' \in [Callers -> CallerStates] /\ Linked' = Linked /\ Claims' = Claims
  BY <1>1 DEF PoolRange, Linked, Claims
<1> QED BY <1>2, <1>3, QuietStep

LEMMA WorkerStepInv ==
  ASSUME ThreadPoolInv, NEW w \in Workers, WorkerStep(w) \/ SpuriousWake(w)
  PROVE  ThreadPoolInv'
<1>1. /\ UNCHANGED <<mem, free, caller, stock, processing, dtor, collector>>
      /\ job' = job \/ \E k : job' = [job EXCEPT ![k] = "ready"]
  BY DEF WorkerStep, Test, Sleep, Run, SpuriousWake, lists, life
<1>2. PoolRange' /\ (dtor' # "done" => PlaceInv' /\ DataInv')
  BY <1>1, ElsewhereInv
<1>3. DtorInv' /\ (dtor' # "done" => WalkInv')
  BY <1>1 DEF ThreadPoolInv, DtorInv, WalkInv, FreeNodes, Processed
<1> QED BY <1>2, <1>3 DEF ThreadPoolInv

LEMMA DtorStepInv ==
  ASSUME ThreadPoolInv, DtorStep \/ Stop PROVE ThreadPoolInv'
<1>1. CASE Clear
  <2>1. dtor' = "done" /\ dtor = "clear" /\ UNCHANGED <<mem, stock, processing, job, caller, collector>>
    BY <1>1 DEF Clear
  <2> QED BY <2>1 DEF ThreadPoolInv, PoolRange, DtorInv
<1>2. CASE NotifyAll \/ Join \/ Stop
  <2>1. /\ UNCHANGED <<mem, free, caller, stock, processing, collector, job>>
        /\ dtor \in {"alive", "notify", "join"} /\ dtor' # "done"
        /\ dtor = "alive" => \A c \in Callers : caller[c].pc = "idle"
        /\ dtor' = "clear" => collector.pc = "done"
    BY <1>2 DEF NotifyAll, Join, Stop, lists
  <2>2. PoolRange' /\ PlaceInv' /\ DataInv'
    BY <2>1, ElsewhereInv
  <2>3. DtorInv' /\ WalkInv'
    BY <2>1 DEF ThreadPoolInv, DtorInv, WalkInv, FreeNodes, Processed
  <2> QED BY <2>2, <2>3 DEF ThreadPoolInv
<1> QED BY <1>1, <1>2 DEF DtorStep

(* Whoever steps while a call or a walk is under way finds the lists whole. *)
LEMMA ListsAreWhole ==
  ASSUME ThreadPoolInv, dtor # "done"
  PROVE  /\ PoolRange /\ PlaceInv /\ DataInv /\ WalkInv /\ DtorInv
         /\ {stock.head, processing.head} = {StockHead, ProcessingHead}
         /\ stock.head \in Stocked /\ processing.head \in Processed
         /\ Stocked \subseteq Nodes /\ Processed \subseteq Nodes
         /\ InUse = (Stocked \cup Processed \cup LinkNodes) \ {stock.head, processing.head}
<1>1. PoolRange /\ PlaceInv /\ DataInv /\ WalkInv /\ DtorInv
  BY DEF ThreadPoolInv
<1>2. mem \in Heaps /\ stock.head \in Nodes /\ processing.head \in Nodes
  BY <1>1 DEF PoolRange, Lists
<1>3. {stock.head, processing.head} = {StockHead, ProcessingHead}
  BY <1>1 DEF PlaceInv
<1> QED BY <1>1, <1>2, <1>3, CircleIsLeast DEF Stocked, Processed, InUse

LEMMA AllocInv ==
  ASSUME ThreadPoolInv, NEW c \in Callers, Alloc(c) PROVE ThreadPoolInv'
<1>1. /\ caller[c].pc = "alloc" /\ Linked = {} /\ free # << >>
      /\ mem' = Constructed(mem, Head(free), caller[c].job) /\ free' = Tail(free)
      /\ caller' = [caller EXCEPT ![c].pc = "link", ![c].node = Head(free)]
      /\ UNCHANGED <<job, stock, processing, dtor, collector>>
  BY DEF Alloc, StockMutexFree, Linked, life
<1>2. dtor = "alive" /\ dtor # "done"
  BY <1>1 DEF ThreadPoolInv, DtorInv
<1>3. /\ PoolRange /\ PlaceInv /\ DataInv /\ WalkInv /\ DtorInv
      /\ {stock.head, processing.head} = {StockHead, ProcessingHead}
      /\ stock.head \in Stocked /\ processing.head \in Processed
      /\ Stocked \subseteq Nodes /\ Processed \subseteq Nodes
      /\ InUse = (Stocked \cup Processed \cup LinkNodes) \ {stock.head, processing.head}
  BY <1>2, ListsAreWhole
<1>4. PICK n : n = Head(free)
  OBVIOUS
<1>5. /\ n \in FreeNodes /\ n \in Nodes /\ free' \in Seq(Nodes)
      /\ \A i, j \in DOMAIN free' : free'[i] = free'[j] => i = j
      /\ FreeNodes' = FreeNodes \ {n}
  <2>1. free \in Seq(Nodes) /\ free # << >>
          /\ \A i, j \in DOMAIN free : free[i] = free[j] => i = j
    BY <1>1, <1>3 DEF PlaceInv
  <2>2. /\ n \in FreeNodes /\ Tail(free) \in Seq(Nodes)
        /\ \A i, j \in DOMAIN Tail(free) : Tail(free)[i] = Tail(free)[j] => i = j
        /\ Range(Tail(free)) = FreeNodes \ {n}
    BY <1>4, <2>1, TakenFromFree DEF FreeNodes
  <2>3. FreeNodes' = Range(free')
    BY DEF FreeNodes
  <2>4. FreeNodes \subseteq Nodes
    BY <2>1 DEF FreeNodes, Range
  <2>5. free' = Tail(free)
    BY <1>1
  <2> QED BY <2>2, <2>3, <2>4, <2>5
<1>6. /\ n \notin Stocked \cup Processed /\ LinkNodes = {}
      /\ c \in Claims /\ caller[c].job \in Data
  BY <1>1, <1>3, <1>5 DEF PlaceInv, LinkNodes, Claims, DataInv, Given
<1>7. /\ mem' \in Heaps /\ mem'.data[n] = caller[c].job
      /\ \A x \in Nodes \ {n} : /\ mem'.next[x] = mem.next[x] /\ mem'.prev[x] = mem.prev[x]
                                /\ mem'.data[x] = mem.data[x]
  BY <1>1, <1>3, <1>4, <1>5, <1>6 DEF Constructed, PoolRange, Heaps, Links
<1>8. /\ Stocked' = Stocked /\ Processed' = Processed
      /\ WellLinked(mem, stock)' /\ WellLinked(mem, processing)'
  <2>1. mem \in Heaps /\ stock \in Lists /\ processing \in Lists
          /\ WellLinked(mem, stock) /\ WellLinked(mem, processing)
    BY <1>3 DEF PoolRange, PlaceInv
  <2>2. \A x \in Stocked \cup Processed : mem'.next[x] = mem.next[x] /\ mem'.prev[x] = mem.prev[x]
    BY <1>3, <1>6, <1>7
  <2> QED BY <1>1, <1>7, <2>1, <2>2, LinkedFrame DEF Stocked, Processed
<1>9. /\ caller' \in [Callers -> CallerStates]
      /\ caller'[c].pc = "link" /\ caller'[c].node = n
      /\ \A d \in Callers \ {c} : caller'[d] = caller[d]
  <2>1. caller \in [Callers -> CallerStates] /\ n \in Nodes
    BY <1>3, <1>5 DEF PoolRange
  <2>2. caller' = [caller EXCEPT ![c].pc = "link", ![c].node = n]
    BY <1>1, <1>4
  <2> QED BY <2>1, <2>2 DEF CallerStates, CallerPlaces
<1>10. Linked' = {c} /\ Claims' = Claims \ {c} /\ \A d \in Claims' : caller'[d] = caller[d]
  BY <1>1, <1>9 DEF Linked, Claims
<1>11. LinkNodes' = {n}
  BY <1>9, <1>10 DEF LinkNodes
<1>12. InUse' = InUse \cup {n}
  BY <1>1, <1>3, <1>6, <1>8, <1>11 DEF InUse
<1>13. PoolRange' /\ DtorInv'
  BY <1>1, <1>2, <1>3, <1>7, <1>9 DEF PoolRange, DtorInv
<1>14. PlaceInv'
  BY <1>1, <1>3, <1>5, <1>6, <1>8, <1>10, <1>11 DEF PlaceInv
<1>15. WalkInv'
  <2>1. mem'.next[processing.head] = mem.next[processing.head]
    BY <1>3, <1>6, <1>7
  <2>2. \A x \in FreeNodes' : x \in FreeNodes /\ mem'.next[x] = mem.next[x]
    BY <1>3, <1>5, <1>7 DEF PlaceInv, FreeNodes, Range
  <2> QED BY <1>1, <1>3, <1>8, <2>1, <2>2 DEF WalkInv
<1>16. DataInv'
  <2>1. \A x \in InUse : x # n /\ mem'.data[x] = mem.data[x]
    BY <1>3, <1>6, <1>7
  <2>2. \A x \in InUse' : Given(job', mem'.data[x])
    BY <1>1, <1>3, <1>6, <1>7, <1>12, <2>1 DEF DataInv, Given
  <2>3. \A x, o \in InUse' : mem'.data[o] = mem'.data[x] => o = x
    BY <1>3, <1>6, <1>7, <1>12, <2>1 DEF DataInv
  <2>4. \A d \in Claims' : Given(job', caller'[d].job)
    BY <1>1, <1>3, <1>10 DEF DataInv, Given
  <2>5. \A d \in Claims' : \A x \in InUse' : mem'.data[x] # caller'[d].job
    BY <1>3, <1>6, <1>7, <1>10, <1>12, <2>1 DEF DataInv
  <2>6. \A d, e \in Claims' : caller'[e].job = caller'[d].job => e = d
    BY <1>3, <1>10 DEF DataInv
  <2> QED BY <2>2, <2>3, <2>4, <2>5, <2>6 DEF DataInv
<1> QED BY <1>13, <1>14, <1>15, <1>16 DEF ThreadPoolInv

LEMMA LinkInv ==
  ASSUME ThreadPoolInv, NEW c \in Callers, Link(c) PROVE ThreadPoolInv'
<1>1. /\ c \in Linked
      /\ mem' = LinkedBack(mem, stock, caller[c].node)
      /\ stock' = TailAfterPush(stock, caller[c].node)
      /\ job' = job \/ \E k : job' = [job EXCEPT ![k] = "broken"]
      /\ caller' = [caller EXCEPT ![c] = IdleCaller]
      /\ UNCHANGED <<free, processing, dtor, collector>>
  BY DEF Link, Linked, life
<1>2. dtor = "alive" /\ dtor # "done"
  BY <1>1 DEF ThreadPoolInv, DtorInv, Linked
<1>3. /\ PoolRange /\ PlaceInv /\ DataInv /\ WalkInv /\ DtorInv
      /\ {stock.head, processing.head} = {StockHead, ProcessingHead}
      /\ stock.head \in Stocked /\ processing.head \in Processed
      /\ Stocked \subseteq Nodes /\ Processed \subseteq Nodes
      /\ InUse = (Stocked \cup Processed \cup LinkNodes) \ {stock.head, processing.head}
  BY <1>2, ListsAreWhole
<1>4. PICK n : n = caller[c].node
  OBVIOUS
<1>5. /\ Linked = {c} /\ LinkNodes = {n}
      /\ n \in Nodes /\ n \notin Stocked \cup Processed \cup FreeNodes
  BY <1>1, <1>3, <1>4 DEF PlaceInv, LinkNodes
<1>6. mem \in Heaps /\ stock \in Lists /\ processing \in Lists
        /\ WellLinked(mem, stock) /\ WellLinked(mem, processing)
  BY <1>3 DEF PoolRange, PlaceInv
<1>7. /\ mem' \in Heaps /\ mem'.data = mem.data
      /\ stock' \in Lists /\ stock'.head = stock.head
      /\ Stocked' = Stocked \cup {n} /\ WellLinked(mem, stock)'
      /\ \A x \in Nodes \ (Stocked \cup {n}) :
           mem'.next[x] = mem.next[x] /\ mem'.prev[x] = mem.prev[x]
  BY <1>1, <1>4, <1>5, <1>6, PushBackLinks DEF Stocked
<1>8. Processed' = Processed /\ WellLinked(mem, processing)'
  <2>1. \A x \in Processed : mem'.next[x] = mem.next[x] /\ mem'.prev[x] = mem.prev[x]
    BY <1>3, <1>5, <1>7 DEF PlaceInv
  <2> QED BY <1>1, <1>6, <1>7, <2>1, LinkedFrame DEF Processed
<1>9. /\ caller' \in [Callers -> CallerStates] /\ caller'[c].pc = "idle"
      /\ \A d \in Callers \ {c} : caller'[d] = caller[d]
  BY <1>1, <1>3 DEF PoolRange, CallerStates, CallerPlaces, IdleCaller
<1>10. Linked' = {} /\ Claims' = Claims /\ \A d \in Claims' : caller'[d] = caller[d]
  BY <1>1, <1>5, <1>9 DEF Linked, Claims
<1>11. LinkNodes' = {}
  BY <1>10 DEF LinkNodes
<1>12. InUse' = InUse
  BY <1>1, <1>3, <1>5, <1>7, <1>8, <1>11 DEF InUse
<1>13. job' \in [Data -> JobStates] /\ \A j : Given(job, j) => Given(job', j)
  BY <1>1, <1>3, GivenStays DEF PoolRange, JobStates
<1>14. PoolRange' /\ DtorInv' /\ FreeNodes' = FreeNodes
  BY <1>1, <1>2, <1>3, <1>7, <1>9, <1>13 DEF PoolRange, DtorInv, FreeNodes
<1>15. PlaceInv'
  BY <1>1, <1>3, <1>5, <1>7, <1>8, <1>10, <1>11, <1>14 DEF PlaceInv
<1>16. WalkInv'
  <2>1. mem'.next[processing.head] = mem.next[processing.head]
    BY <1>3, <1>5, <1>7 DEF PlaceInv
  <2>2. \A x \in FreeNodes : mem'.next[x] = mem.next[x]
    BY <1>3, <1>5, <1>7 DEF PlaceInv, FreeNodes, Range
  <2> QED BY <1>1, <1>3, <1>8, <1>14, <2>1, <2>2 DEF WalkInv
<1>17. DataInv'
  BY <1>3, <1>7, <1>10, <1>12, <1>13 DEF DataInv
<1> QED BY <1>14, <1>15, <1>16, <1>17 DEF ThreadPoolInv

LEMMA SwapInv == ASSUME ThreadPoolInv, Swap PROVE ThreadPoolInv'
<1>1. /\ collector.pc = "wait" /\ UNCHANGED <<mem, free, caller, job, dtor>>
      /\ <<stock', processing'>> \in {<<stock, processing>>, <<processing, stock>>}
      /\ \/ collector'.pc = "check"
         \/ /\ collector' = [pc |-> "visit", it |-> mem.next[processing'.head]]
            /\ mem.next[processing'.head] # NoNode
  BY DEF Swap, CollectorGoto, IsEmptyList, Begin, life
<1>2. dtor # "done"
  BY <1>1 DEF ThreadPoolInv, DtorInv
<1>3. PoolRange' /\ PlaceInv' /\ DataInv'
  BY <1>1, <1>2, ElsewhereInv
<1>4. DtorInv'
  BY <1>1 DEF ThreadPoolInv, DtorInv
<1>5. WalkInv'
  <2>1. mem' \in Heaps /\ processing'.head \in Nodes
    BY <1>3 DEF PoolRange, Lists
  <2>2. mem'.next[processing'.head] # NoNode =>
          mem'.next[processing'.head] \in Processed'
    BY <2>1, CircleIsLeast DEF Processed
  <2> QED BY <1>1, <2>2 DEF WalkInv
<1> QED BY <1>3, <1>4, <1>5 DEF ThreadPoolInv

LEMMA EraseShrinks ==
  ASSUME NEW m \in Heaps, NEW l \in Lists, WellLinked(m, l), m.next[l.head] # NoNode,
         NEW n \in Circle(m, l.head) \ {l.head}
  PROVE  Circle(Erased(m, n), l.head) = Circle(m, l.head) \ {n}
BY EraseLinks

(* A result is handed out and its node erased and freed.                    *)
LEMMA CollectInv ==
  ASSUME ThreadPoolInv, collector.pc = "visit",
         NEW n, n = collector.it, n # End(mem, processing),
         job' = [job EXCEPT ![mem.data[n]] = "collected"],
         mem' = Erased(mem, n), free' = <<n>> \o free,
         processing' = TailAfterErase(mem, processing, n),
         collector' = [pc |-> "advance", it |-> n],
         UNCHANGED <<caller, stock, dtor>>
  PROVE  ThreadPoolInv'
<1>2. dtor # "done"
  BY DEF ThreadPoolInv, DtorInv
<1>3. /\ PoolRange /\ PlaceInv /\ DataInv /\ WalkInv /\ DtorInv
      /\ {stock.head, processing.head} = {StockHead, ProcessingHead}
      /\ stock.head \in Stocked /\ processing.head \in Processed
      /\ Stocked \subseteq Nodes /\ Processed \subseteq Nodes
      /\ InUse = (Stocked \cup Processed \cup LinkNodes) \ {stock.head, processing.head}
  BY <1>2, ListsAreWhole
<1>4. mem \in Heaps /\ stock \in Lists /\ processing \in Lists
        /\ WellLinked(mem, stock) /\ WellLinked(mem, processing)
  BY <1>3 DEF PoolRange, PlaceInv
<1>5. mem.next[processing.head] # NoNode /\ n \in Processed \ {processing.head}
  <2>1. mem.next[processing.head] # NoNode /\ n \in Processed
    BY <1>3 DEF WalkInv
  <2>2. End(mem, processing) = processing.head
    BY <1>4, <2>1 DEF WellLinked, Round, End
  <2> QED BY <2>1, <2>2
<1>6. /\ mem' \in Heaps /\ mem'.data = mem.data
      /\ processing' \in Lists /\ processing'.head = processing.head
      /\ Processed' = Processed \ {n} /\ WellLinked(mem, processing)'
      /\ mem'.next[processing.head] # NoNode /\ mem'.next[n] \in Processed \ {n}
      /\ \A x \in Nodes \ Processed : mem'.next[x] = mem.next[x] /\ mem'.prev[x] = mem.prev[x]
  <2>1. n \in Circle(mem, processing.head) \ {processing.head}
    BY <1>5 DEF Processed
  <2>2. /\ Erased(mem, n) \in Heaps /\ Erased(mem, n).data = mem.data
        /\ TailAfterErase(mem, processing, n) \in Lists
        /\ TailAfterErase(mem, processing, n).head = processing.head
        /\ WellLinked(Erased(mem, n), TailAfterErase(mem, processing, n))
    BY <1>4, <1>5, <2>1, EraseLinks
  <2>3. Circle(Erased(mem, n), processing.head) = Circle(mem, processing.head) \ {n}
    BY <1>4, <1>5, <2>1, EraseShrinks
  <2>4. /\ Erased(mem, n).next[processing.head] # NoNode
        /\ Erased(mem, n).next[n] \in Circle(mem, processing.head) \ {n}
    BY <1>4, <1>5, <2>1, EraseLinks
  <2>5. \A x \in Nodes \ Circle(mem, processing.head) :
          Erased(mem, n).next[x] = mem.next[x] /\ Erased(mem, n).prev[x] = mem.prev[x]
    BY <1>4, <1>5, <2>1, EraseLinks
  <2>6. Processed' = Circle(mem', processing'.head)
          /\ (WellLinked(mem, processing)' <=> WellLinked(mem', processing'))
    BY DEF Processed
  <2> QED BY <2>2, <2>3, <2>4, <2>5, <2>6 DEF Processed
<1>7. Stocked' = Stocked /\ WellLinked(mem, stock)'
  <2>1. \A x \in Stocked : mem'.next[x] = mem.next[x] /\ mem'.prev[x] = mem.prev[x]
    BY <1>3, <1>6 DEF PlaceInv
  <2> QED BY <1>4, <1>6, <2>1, LinkedFrame DEF Stocked
<1>8. n \in Nodes /\ n \notin FreeNodes \cup LinkNodes \cup Stocked /\ n # stock.head
  BY <1>3, <1>5 DEF PlaceInv
<1>9. /\ free' \in Seq(Nodes) /\ \A i, j \in DOMAIN free' : free'[i] = free'[j] => i = j
      /\ FreeNodes' = FreeNodes \cup {n}
  <2>1. free \in Seq(Nodes) /\ \A i, j \in DOMAIN free : free[i] = free[j] => i = j
    BY <1>3 DEF PlaceInv
  <2>2. n \in Nodes \ Range(free)
    BY <1>8 DEF FreeNodes
  <2>3. PICK s : s = <<n>> \o free
    OBVIOUS
  <2>4. /\ s \in Seq(Nodes) /\ \A i, j \in DOMAIN s : s[i] = s[j] => i = j
        /\ Range(s) = FreeNodes \cup {n}
    BY <2>1, <2>2, <2>3, GivenToFree DEF FreeNodes
  <2>5. free' = s /\ FreeNodes' = Range(free')
    BY <2>3 DEF FreeNodes
  <2> QED BY <2>4, <2>5
<1>10. Linked' = Linked /\ LinkNodes' = LinkNodes /\ Claims' = Claims
  BY DEF Linked, LinkNodes, Claims
<1>11. InUse' = InUse \ {n} /\ n \in InUse
  BY <1>3, <1>5, <1>6, <1>7, <1>8, <1>10 DEF InUse
<1>12. PoolRange' /\ DtorInv'
  <2>1. job' \in [Data -> JobStates]
    BY <1>3 DEF PoolRange, JobStates
  <2> QED BY <1>3, <1>4, <1>6, <2>1 DEF PoolRange, DtorInv
<1>13. PlaceInv'
  <2>1. Stocked' \cap Processed' = {} /\ FreeNodes' \cap (Stocked' \cup Processed') = {}
    BY <1>3, <1>6, <1>7, <1>8, <1>9 DEF PlaceInv
  <2>2. LinkNodes' \subseteq Nodes \ (Stocked' \cup Processed' \cup FreeNodes')
    BY <1>3, <1>6, <1>7, <1>8, <1>9, <1>10 DEF PlaceInv
  <2>3. Nodes \subseteq Stocked' \cup Processed' \cup FreeNodes' \cup LinkNodes'
    BY <1>3, <1>6, <1>7, <1>9, <1>10 DEF PlaceInv
  <2>4. {stock'.head, processing'.head} = {StockHead, ProcessingHead}
          /\ \A c, d \in Linked' : c = d
    BY <1>3, <1>6, <1>10 DEF PlaceInv
  <2> QED BY <1>6, <1>7, <1>9, <2>1, <2>2, <2>3, <2>4 DEF PlaceInv
<1>14. WalkInv'
  BY <1>6 DEF WalkInv
<1>15. DataInv'
  <2>1. \A j : Given(job, j) /\ j # mem.data[n] => Given(job', j)
    BY <1>3 DEF Given, PoolRange
  <2>2. ASSUME NEW x \in InUse' PROVE Given(job', mem'.data[x])
    <3>1. x \in InUse /\ x # n /\ mem'.data[x] = mem.data[x]
      BY <1>6, <1>11
    <3>2. Given(job, mem.data[x]) /\ mem.data[x] # mem.data[n]
      BY <1>3, <1>11, <3>1 DEF DataInv
    <3> QED BY <2>1, <3>1, <3>2
  <2>3. \A x, o \in InUse' : mem'.data[o] = mem'.data[x] => o = x
    BY <1>3, <1>6, <1>11 DEF DataInv
  <2>4. \A d \in Claims' : Given(job', caller'[d].job)
    BY <1>3, <1>10, <1>11, <2>1 DEF DataInv
  <2>5. \A d \in Claims' : \A x \in InUse' : mem'.data[x] # caller'[d].job
    BY <1>3, <1>6, <1>10, <1>11 DEF DataInv
  <2>6. \A d, e \in Claims' : caller'[e].job = caller'[d].job => e = d
    BY <1>3, <1>10 DEF DataInv
  <2> QED BY <2>2, <2>3, <2>4, <2>5, <2>6 DEF DataInv
<1> QED BY <1>12, <1>13, <1>14, <1>15 DEF ThreadPoolInv

LEMMA VisitInv == ASSUME ThreadPoolInv, Visit PROVE ThreadPoolInv'
<1>1. PICK n : n = collector.it
  OBVIOUS
<1>2. collector.pc = "visit" /\ UNCHANGED <<caller, stock, dtor>>
  BY DEF Visit, life
<1>3. CASE n # End(mem, processing) /\ job[mem.data[n]] = "ready"
  BY <1>1, <1>2, <1>3, CollectInv DEF Visit, CollectorGoto
<1>4. CASE n = End(mem, processing) \/ job[mem.data[n]] # "ready"
  <2>1. /\ UNCHANGED <<job, mem, free, processing>>
        /\ \/ collector'.pc \in {"check", "terminated"}
           \/ n # End(mem, processing) /\ collector' = [pc |-> "visit", it |-> mem.next[n]]
    BY <1>1, <1>4 DEF Visit, CollectorGoto
  <2>2. dtor # "done"
    BY <1>2 DEF ThreadPoolInv, DtorInv
  <2>3. PoolRange' /\ PlaceInv' /\ DataInv'
    BY <1>2, <2>1, <2>2, ElsewhereInv
  <2>4. DtorInv'
    BY <1>2 DEF ThreadPoolInv, DtorInv
  <2>5. WalkInv'
    <3>1. mem.next[processing.head] # NoNode /\ n \in Processed /\ WellLinked(mem, processing)
      BY <1>1, <1>2, <2>2 DEF ThreadPoolInv, WalkInv, PlaceInv
    <3>2. mem.next[n] \in Processed
      BY <3>1 DEF WellLinked, Round, Processed
    <3>3. Processed' = Processed /\ mem'.next[processing'.head] # NoNode
      BY <2>1, <3>1 DEF Processed
    <3> QED BY <2>1, <3>2, <3>3 DEF WalkInv
  <2> QED BY <2>3, <2>4, <2>5 DEF ThreadPoolInv
<1> QED BY <1>3, <1>4

LEMMA WalkOnInv == ASSUME ThreadPoolInv, Advance \/ CheckStop PROVE ThreadPoolInv'
<1>1. /\ UNCHANGED <<mem, free, caller, stock, processing, job, dtor>>
      /\ collector.pc \in {"advance", "check"}
      /\ \/ collector'.pc \in {"strayed", "done", "wait"}
         \/ /\ collector.pc = "advance" /\ collector.it \in FreeNodes
            /\ collector' = [pc |-> "visit", it |-> mem.next[collector.it]]
  BY DEF Advance, CheckStop, CollectorGoto, lists, life
<1>2. dtor # "done"
  BY <1>1 DEF ThreadPoolInv, DtorInv
<1>3. PoolRange' /\ PlaceInv' /\ DataInv'
  BY <1>1, <1>2, ElsewhereInv
<1>4. DtorInv' /\ WalkInv'
  BY <1>1, <1>2 DEF ThreadPoolInv, DtorInv, WalkInv, Processed
<1> QED BY <1>3, <1>4 DEF ThreadPoolInv

(* The invariant holds in every state.                                      *)
THEOREM ThreadPoolInvariant == ThreadPoolSpec => []ThreadPoolInv
<1>1. ASSUME ThreadPoolInv, [Running /\ ThreadPoolNext]_poolVars PROVE ThreadPoolInv'
  <2>1. CASE UNCHANGED poolVars
    <3>1. UNCHANGED <<mem, free, caller, stock, processing, job, dtor, collector>>
      BY <2>1 DEF poolVars, lists, life
    <3>2. PoolRange' /\ (dtor' # "done" => PlaceInv' /\ DataInv')
      BY <1>1, <3>1, ElsewhereInv
    <3>3. DtorInv' /\ (dtor' # "done" => WalkInv')
      BY <1>1, <3>1 DEF ThreadPoolInv, DtorInv, WalkInv, FreeNodes, Processed
    <3> QED BY <3>2, <3>3 DEF ThreadPoolInv
  <2>2. ASSUME NEW c \in Callers, CallerStep(c) \/ Enqueue(c) PROVE ThreadPoolInv'
    BY <1>1, <2>2, EnqueueInv, PushInv, NotifyOneInv, AllocInv, LinkInv DEF CallerStep
  <2>3. ASSUME NEW w \in Workers, WorkerStep(w) \/ SpuriousWake(w) PROVE ThreadPoolInv'
    BY <1>1, <2>3, WorkerStepInv
  <2>4. CASE CollectorStep
    BY <1>1, <2>4, SwapInv, VisitInv, WalkOnInv DEF CollectorStep
  <2>5. CASE DtorStep \/ Stop
    BY <1>1, <2>5, DtorStepInv
  <2> QED BY <1>1, <2>1, <2>2, <2>3, <2>4, <2>5 DEF ThreadPoolNext
<1> QED BY ThreadPoolInitInv, <1>1, PTL DEF ThreadPoolSpec

(* No result is lost between the lists, however pushes, swaps and erasures  *)
(* interleave, for any number of callers, workers, jobs and nodes           *)
(* (ThreadPool.hpp:57-59, 87-96).                                           *)
THEOREM ResultsAreKept == ThreadPoolSpec => []ResultsKept
<1>1. ThreadPoolInv => ResultsKept
  <2> SUFFICES ASSUME ThreadPoolInv, dtor # "done"
               PROVE  /\ NodesOf(mem, stock) \cap NodesOf(mem, processing) = {}
                      /\ Kept = Nodes \ (FreeNodes \cup {StockHead, ProcessingHead}
                                           \cup {caller[c].node : c \in Linked})
                      /\ \A n \in Kept : job[mem.data[n]] # "collected"
                      /\ \A l \in {stock, processing} : End(mem, l) \in {l.head, NoNode}
    BY DEF ResultsKept
  <2>1. /\ PoolRange /\ PlaceInv /\ DataInv
        /\ {stock.head, processing.head} = {StockHead, ProcessingHead}
        /\ stock.head \in Stocked /\ processing.head \in Processed
        /\ Stocked \subseteq Nodes /\ Processed \subseteq Nodes
        /\ InUse = (Stocked \cup Processed \cup LinkNodes) \ {stock.head, processing.head}
    BY ListsAreWhole
  <2>2. NodesOf(mem, stock) = Stocked \ {stock.head}
          /\ NodesOf(mem, processing) = Processed \ {processing.head}
    BY NodesOfCircle DEF Stocked, Processed
  <2>3. Stocked \cap Processed = {}
    BY <2>1 DEF PlaceInv
  <2>4. Kept = (Stocked \cup Processed) \ {StockHead, ProcessingHead}
    BY <2>1, <2>2, <2>3 DEF Kept
  <2>5. Kept = Nodes \ (FreeNodes \cup {StockHead, ProcessingHead} \cup LinkNodes)
    BY <2>1, <2>4 DEF PlaceInv
  <2>6. \A n \in Kept : job[mem.data[n]] # "collected"
    BY <2>1, <2>4 DEF DataInv, Given, InUse
  <2>7. \A l \in {stock, processing} : End(mem, l) \in {l.head, NoNode}
    BY <2>1 DEF PlaceInv, WellLinked, Round, End
  <2> QED BY <2>2, <2>3, <2>5, <2>6, <2>7 DEF LinkNodes
<1> QED BY ThreadPoolInvariant, <1>1, PTL

(* The iterator never leaves the processing list but by the node it has     *)
(* freed and somebody else has taken (ThreadPool.hpp:92-98).                *)
THEOREM TheWalkStaysOnItsList == ThreadPoolSpec => []WalkStaysOnList
<1>1. ThreadPoolInv => WalkStaysOnList
  <2> SUFFICES ASSUME ThreadPoolInv, collector.pc = "visit"
               PROVE  collector.it \in {processing.head} \cup NodesOf(mem, processing)
    BY DEF WalkStaysOnList
  <2>1. dtor # "done"
    BY DEF ThreadPoolInv, DtorInv
  <2>2. collector.it \in Processed
    BY <2>1 DEF ThreadPoolInv, WalkInv
  <2> QED BY <2>2, NodesOfCircle DEF Processed
<1> QED BY ThreadPoolInvariant, <1>1, PTL
==============================================================================
