--------------------------- MODULE RingQueueProofs ---------------------------
(***************************************************************************)
(* The ring buffer of RingQueue holds a sequence: the facts about Contents *)
(* that the proofs about CircularQueue and BaseModel cite, for every       *)
(* QUEUE_LENGTH above 1.                                                   *)
(***************************************************************************)
EXTENDS RingQueue, SequenceTheorems, TLAPS

(* Succ is the cyclic successor on the indices of the array.                *)
LEMMA SuccValue ==
  ASSUME NEW i \in Index
  PROVE  /\ Succ(i) \in Index
         /\ Succ(i) = IF i = QUEUE_LENGTH - 1 THEN 0 ELSE i + 1
BY QueueLengthAssumption DEF Succ, Index

(* A queue holds between none and Capacity elements: none when the indices  *)
(* meet, Capacity when Push would find the queue full.                      *)
LEMMA CountValue ==
  ASSUME NEW q \in Queue
  PROVE  /\ Count(q) \in 0 .. Capacity
         /\ Count(q) = 0 <=> IsEmpty(q)
         /\ Count(q) = Capacity <=> IsFull(q)
<1>. q.head \in 0 .. QUEUE_LENGTH - 1 /\ q.tail \in 0 .. QUEUE_LENGTH - 1
  BY DEF Queue, Index
<1>. QUEUE_LENGTH \in Nat /\ QUEUE_LENGTH > 1
  BY QueueLengthAssumption
<1>1. Succ(q.tail) = IF q.tail = QUEUE_LENGTH - 1 THEN 0 ELSE q.tail + 1
  BY SuccValue DEF Index
<1>. QED
  BY <1>1 DEF Count, Capacity, IsEmpty, IsFull

(* The slots of the elements are different indices, none of them is the     *)
(* slot Push writes next, and the first and the next slot are one after     *)
(* head and one after tail.                                                 *)
LEMMA SlotValue ==
  ASSUME NEW q \in Queue
  PROVE  /\ \A k \in 1 .. Count(q) : Slot(q, k) \in Index
         /\ ~IsFull(q) => \A k \in 1 .. Count(q) : Slot(q, k) # Succ(q.tail)
         /\ ~IsFull(q) => Slot(q, Count(q) + 1) = Succ(q.tail)
         /\ Slot(q, 1) = Succ(q.head)
<1>. q.head \in 0 .. QUEUE_LENGTH - 1 /\ q.tail \in 0 .. QUEUE_LENGTH - 1
  BY DEF Queue, Index
<1>. QUEUE_LENGTH \in Nat /\ QUEUE_LENGTH > 1
  BY QueueLengthAssumption
<1>1. Succ(q.tail) = IF q.tail = QUEUE_LENGTH - 1 THEN 0 ELSE q.tail + 1
  BY SuccValue DEF Index
<1>2. Succ(q.head) = IF q.head = QUEUE_LENGTH - 1 THEN 0 ELSE q.head + 1
  BY SuccValue DEF Index
<1>. QED
  BY <1>1, <1>2 DEF Index, Count, Slot, IsFull

(* Contents is the sequence of the elements.                                *)
LEMMA ContentsType ==
  ASSUME NEW q \in Queue, WellFormed(q)
  PROVE  /\ Contents(q) \in Seq(Data)
         /\ Len(Contents(q)) = Count(q)
         /\ \A k \in 1 .. Count(q) : Contents(q)[k] = q.list[Slot(q, k)]
<1>1. Count(q) \in Nat
  BY CountValue, QueueLengthAssumption DEF Capacity
<1>2. Contents(q) \in [1 .. Count(q) -> Data]
  BY DEF Contents, WellFormed
<1>3. Contents(q) \in Seq(Data)
  BY <1>1, <1>2, SeqDef
<1>4. Len(Contents(q)) = Count(q)
  <2>1. DOMAIN Contents(q) = 1 .. Count(q)
    BY <1>2
  <2>2. DOMAIN Contents(q) = 1 .. Len(Contents(q)) /\ Len(Contents(q)) \in Nat
    BY <1>3, LenProperties
  <2>. QED
    BY <1>1, <2>1, <2>2
<1>. QED
  BY <1>3, <1>4 DEF Contents

(* The constructor makes an empty queue.                                    *)
LEMMA NewQueueEmpty ==
  /\ NewQueue \in Queue
  /\ WellFormed(NewQueue)
  /\ Contents(NewQueue) = << >>
<1>1. NewQueue \in Queue
  BY QueueLengthAssumption DEF NewQueue, Queue, Index
<1>2. Count(NewQueue) = 0
  BY <1>1, CountValue DEF NewQueue, IsEmpty
<1>3. WellFormed(NewQueue)
  BY <1>2 DEF WellFormed
<1>4. Contents(NewQueue) \in Seq(Data) /\ Len(Contents(NewQueue)) = 0
  BY <1>1, <1>2, <1>3, ContentsType
<1>. QED
  BY <1>1, <1>3, <1>4, EmptySeq

(* An empty queue is the empty sequence.                                    *)
LEMMA EmptyContents ==
  ASSUME NEW q \in Queue, WellFormed(q)
  PROVE  IsEmpty(q) <=> Contents(q) = << >>
<1>1. Len(Contents(q)) = Count(q) /\ Contents(q) \in Seq(Data)
  BY ContentsType
<1>2. Len(Contents(q)) = 0 <=> Contents(q) = << >>
  BY <1>1, EmptySeq
<1>. QED
  BY <1>1, <1>2, CountValue

(* Writing the slot after tail does not disturb the elements of a queue     *)
(* that is not full (CircularQueue.hpp:49 before 50).                       *)
LEMMA StoreFrame ==
  ASSUME NEW q \in Queue, WellFormed(q), ~IsFull(q), NEW d \in Data,
         NEW r, r = Stored(q, Succ(q.tail), d)
  PROVE  /\ r \in Queue
         /\ WellFormed(r)
         /\ Contents(r) = Contents(q)
         /\ ~IsFull(r)
         /\ r.head = q.head /\ r.tail = q.tail
         /\ r.list[Succ(r.tail)] = d
<1>1. Succ(q.tail) \in Index
  BY SuccValue DEF Queue
<1>2. /\ r \in Queue
      /\ r.head = q.head /\ r.tail = q.tail
      /\ r.list = [q.list EXCEPT ![Succ(q.tail)] = d]
  BY <1>1 DEF Queue, Stored
<1>3. Count(r) = Count(q) /\ \A k : Slot(r, k) = Slot(q, k)
  BY <1>2 DEF Count, Slot
<1>4. \A k \in 1 .. Count(q) : r.list[Slot(r, k)] = q.list[Slot(q, k)]
  BY <1>2, <1>3, SlotValue DEF Queue
<1>5. Contents(r) = Contents(q)
  BY <1>3, <1>4 DEF Contents
<1>6. WellFormed(r)
  BY <1>3, <1>4 DEF WellFormed
<1>. QED
  BY <1>1, <1>2, <1>5, <1>6 DEF IsFull, Queue

(* Advancing tail over a slot that was written appends its value.           *)
LEMMA AdvanceTail ==
  ASSUME NEW q \in Queue, WellFormed(q), ~IsFull(q),
         q.list[Succ(q.tail)] \in Data,
         NEW r, r = TailAt(q, Succ(q.tail))
  PROVE  /\ r \in Queue
         /\ WellFormed(r)
         /\ Contents(r) = Append(Contents(q), q.list[Succ(q.tail)])
         /\ ~IsEmpty(r)
<1>. DEFINE d == q.list[Succ(q.tail)]
<1>. q.head \in 0 .. QUEUE_LENGTH - 1 /\ q.tail \in 0 .. QUEUE_LENGTH - 1
  BY DEF Queue, Index
<1>. QUEUE_LENGTH \in Nat /\ QUEUE_LENGTH > 1
  BY QueueLengthAssumption
<1>1. /\ Succ(q.tail) \in Index
      /\ Succ(q.tail) = IF q.tail = QUEUE_LENGTH - 1 THEN 0 ELSE q.tail + 1
  BY SuccValue DEF Index
<1>2. /\ r \in Queue
      /\ r.head = q.head /\ r.tail = Succ(q.tail) /\ r.list = q.list
  BY <1>1 DEF Queue, TailAt
<1>3. Count(r) = Count(q) + 1 /\ Count(q) \in Nat
  BY <1>1, <1>2 DEF Count, IsFull
<1>4. \A k : Slot(r, k) = Slot(q, k)
  BY <1>2 DEF Slot
<1>5. r.list[Slot(r, Count(q) + 1)] = d
  BY <1>2, <1>4, SlotValue
<1>6. WellFormed(r)
  <2>. SUFFICES ASSUME NEW k \in 1 .. Count(r)
                PROVE  r.list[Slot(r, k)] \in Data
    BY DEF WellFormed
  <2>1. CASE k \in 1 .. Count(q)
    BY <1>2, <1>4, <2>1 DEF WellFormed
  <2>2. CASE k = Count(q) + 1
    BY <1>5, <2>2
  <2>. QED
    BY <1>3, <2>1, <2>2
<1>7. /\ Contents(q) \in Seq(Data) /\ Len(Contents(q)) = Count(q)
      /\ \A k \in 1 .. Count(q) : Contents(q)[k] = q.list[Slot(q, k)]
  BY ContentsType
<1>8. /\ Contents(r) \in Seq(Data) /\ Len(Contents(r)) = Count(r)
      /\ \A k \in 1 .. Count(r) : Contents(r)[k] = r.list[Slot(r, k)]
  BY <1>2, <1>6, ContentsType
<1>. DEFINE s == Append(Contents(q), d)
<1>9. /\ s \in Seq(Data) /\ Len(s) = Count(q) + 1
      /\ \A k \in 1 .. Count(q) : s[k] = Contents(q)[k]
      /\ s[Count(q) + 1] = d
  BY <1>7, AppendProperties
<1>10. \A k \in 1 .. Len(Contents(r)) : Contents(r)[k] = s[k]
  <2>. HIDE DEF s
  <2>. SUFFICES ASSUME NEW k \in 1 .. Count(q) + 1
                PROVE  Contents(r)[k] = s[k]
    BY <1>3, <1>8
  <2>1. CASE k \in 1 .. Count(q)
    BY <1>2, <1>3, <1>4, <1>7, <1>8, <1>9, <2>1
  <2>2. CASE k = Count(q) + 1
    BY <1>3, <1>5, <1>8, <1>9, <2>2
  <2>. QED
    BY <1>3, <2>1, <2>2
<1>11. Contents(r) = s
  <2>. HIDE DEF s
  <2>. QED
    BY <1>3, <1>8, <1>9, <1>10, SeqEqual
<1>12. ~IsEmpty(r)
  BY <1>2, <1>3, CountValue
<1>. QED
  BY <1>2, <1>6, <1>11, <1>12

(* Advancing head takes the first element off.                              *)
LEMMA AdvanceHead ==
  ASSUME NEW q \in Queue, WellFormed(q), ~IsEmpty(q),
         NEW r, r = HeadAt(q, Succ(q.head))
  PROVE  /\ r \in Queue
         /\ WellFormed(r)
         /\ FrontElement(q) \in Data
         /\ FrontElement(q) = Head(Contents(q))
         /\ Contents(r) = Tail(Contents(q))
         /\ ~IsFull(r)
<1>. q.head \in 0 .. QUEUE_LENGTH - 1 /\ q.tail \in 0 .. QUEUE_LENGTH - 1
  BY DEF Queue, Index
<1>. QUEUE_LENGTH \in Nat /\ QUEUE_LENGTH > 1
  BY QueueLengthAssumption
<1>1. /\ Succ(q.head) \in Index
      /\ Succ(q.head) = IF q.head = QUEUE_LENGTH - 1 THEN 0 ELSE q.head + 1
  BY SuccValue DEF Index
<1>2. /\ r \in Queue
      /\ r.head = Succ(q.head) /\ r.tail = q.tail /\ r.list = q.list
  BY <1>1 DEF Queue, HeadAt
<1>3. Count(r) = Count(q) - 1 /\ Count(q) \in Nat \ {0} /\ Count(q) <= Capacity
  BY <1>1, <1>2 DEF Count, IsEmpty, Capacity
<1>4. \A k \in 1 .. Count(r) : Slot(r, k) = Slot(q, k + 1)
  BY <1>1, <1>2, <1>3 DEF Slot, Count
<1>5. WellFormed(r)
  <2>. SUFFICES ASSUME NEW k \in 1 .. Count(r)
                PROVE  r.list[Slot(r, k)] \in Data
    BY DEF WellFormed
  <2>. k + 1 \in 1 .. Count(q)
    BY <1>3
  <2>. QED
    BY <1>2, <1>4 DEF WellFormed
<1>6. /\ Contents(q) \in Seq(Data) /\ Len(Contents(q)) = Count(q)
      /\ \A k \in 1 .. Count(q) : Contents(q)[k] = q.list[Slot(q, k)]
  BY ContentsType
<1>7. /\ Contents(r) \in Seq(Data) /\ Len(Contents(r)) = Count(r)
      /\ \A k \in 1 .. Count(r) : Contents(r)[k] = r.list[Slot(r, k)]
  BY <1>2, <1>5, ContentsType
<1>8. Contents(q) # << >>
  BY EmptyContents
<1>. DEFINE s == Tail(Contents(q))
<1>9. /\ s \in Seq(Data) /\ Len(s) = Count(q) - 1
      /\ \A k \in 1 .. Len(s) : s[k] = Contents(q)[k + 1]
  BY <1>6, <1>8, HeadTailProperties
<1>10. \A k \in 1 .. Len(Contents(r)) : Contents(r)[k] = s[k]
  <2>. SUFFICES ASSUME NEW k \in 1 .. Count(r)
                PROVE  Contents(r)[k] = s[k]
    BY <1>7
  <2>. k + 1 \in 1 .. Count(q) /\ k \in 1 .. Len(s)
    BY <1>3, <1>9
  <2>. HIDE DEF s
  <2>. QED
    BY <1>2, <1>4, <1>6, <1>7, <1>9
<1>11. Contents(r) = s
  <2>. HIDE DEF s
  <2>. QED
    BY <1>3, <1>7, <1>9, <1>10, SeqEqual
<1>12. FrontElement(q) \in Data /\ FrontElement(q) = Head(Contents(q))
  <2>1. Head(Contents(q)) = Contents(q)[1]
    BY <1>6, <1>8
  <2>2. 1 \in 1 .. Count(q)
    BY <1>3
  <2>. QED
    BY <1>6, <2>1, <2>2, SlotValue DEF FrontElement, WellFormed
<1>13. ~IsFull(r)
  <2>1. Count(r) # Capacity
    BY <1>3 DEF Capacity
  <2>. QED
    BY <1>2, <2>1, CountValue
<1>. QED
  BY <1>2, <1>5, <1>11, <1>12, <1>13

(* Push and Pop taken as one step.                                          *)
LEMMA PushedContents ==
  ASSUME NEW q \in Queue, WellFormed(q), ~IsFull(q), NEW d \in Data
  PROVE  /\ Pushed(q, d) \in Queue
         /\ WellFormed(Pushed(q, d))
         /\ Contents(Pushed(q, d)) = Append(Contents(q), d)
<1>. DEFINE r == Stored(q, Succ(q.tail), d)
<1>1. /\ r \in Queue /\ WellFormed(r) /\ Contents(r) = Contents(q)
      /\ ~IsFull(r) /\ r.list[Succ(r.tail)] = d /\ r.tail = q.tail
  BY StoreFrame
<1>2. Pushed(q, d) = TailAt(r, Succ(r.tail))
  BY <1>1 DEF Pushed
<1>. HIDE DEF r
<1>. QED
  BY <1>1, <1>2, AdvanceTail

(* A pop removes the first element and returns it.                         *)
LEMMA PoppedContents ==
  ASSUME NEW q \in Queue, WellFormed(q), ~IsEmpty(q)
  PROVE  /\ Popped(q) \in Queue
         /\ WellFormed(Popped(q))
         /\ FrontElement(q) \in Data
         /\ FrontElement(q) = Head(Contents(q))
         /\ Contents(Popped(q)) = Tail(Contents(q))
BY AdvanceHead DEF Popped
=============================================================================
