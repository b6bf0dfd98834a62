------------------------------ MODULE RingQueue ------------------------------
(***************************************************************************)
(* The data structure of CircularQueue (Functions/CircularQueue): a fixed  *)
(* array m_queueList and two indices. m_iHead is the slot BEFORE the front *)
(* element and m_iTail is the slot of the last one, so one slot is always  *)
(* unused and a queue of QUEUE_LENGTH slots holds QUEUE_LENGTH-1 elements. *)
(*                                                                         *)
(* A queue is a record [head, tail, list]; every operator below is one     *)
(* computation of the class on such a record. The modules that use a queue *)
(* (CircularQueue, BaseModel, ReliableUDP, ...) instantiate this one.      *)
(***************************************************************************)
EXTENDS Integers, Sequences

CONSTANTS
  QUEUE_LENGTH,  (* The template argument: number of slots of m_queueList.  *)
  Data,          (* The values of DATATYPE that are pushed (pointers).      *)
  Null           (* DATATYPE(): the null pointer ZeroMemory leaves.         *)

(* A queue of a single slot (QUEUE_LENGTH = 1) is full and empty at once;   *)
(* the code instantiates 400 and 1000.                                      *)
ASSUME QueueLengthAssumption == QUEUE_LENGTH \in Nat \ {0, 1}

ASSUME NullAssumption == Null \notin Data

Index == 0 .. QUEUE_LENGTH - 1

Queue == [head : Index, tail : Index, list : [Index -> Data \cup {Null}]]

(* The constructor: both indices 0, the array zeroed.                       *)
NewQueue == [head |-> 0, tail |-> 0, list |-> [i \in Index |-> Null]]

(* (m_iTail + 1) % QUEUE_LENGTH and (m_iHead + 1) % QUEUE_LENGTH.           *)
Succ(i) == (i + 1) % QUEUE_LENGTH

IsEmpty(q) == q.head = q.tail

IsFull(q) == Succ(q.tail) = q.head

(* The assignments: m_queueList[i] = d, m_iTail = i and m_iHead = i.        *)
Stored(q, i, d) == [q EXCEPT !.list[i] = d]
TailAt(q, i) == [q EXCEPT !.tail = i]
HeadAt(q, i) == [q EXCEPT !.head = i]

(* What a Push that finds room and a Pop that succeeds do, all together.    *)
Pushed(q, d) == TailAt(Stored(q, Succ(q.tail), d), Succ(q.tail))

FrontElement(q) == q.list[Succ(q.head)]

Popped(q) == HeadAt(q, Succ(q.head))

-----------------------------------------------------------------------------
(* What a queue holds, for the properties: the k-th element sits k slots    *)
(* after m_iHead, cyclically, up to m_iTail.                                *)

Count(q) == IF q.tail >= q.head THEN q.tail - q.head
                                ELSE q.tail - q.head + QUEUE_LENGTH

Slot(q, k) == IF q.head + k < QUEUE_LENGTH THEN q.head + k
                                           ELSE q.head + k - QUEUE_LENGTH

Contents(q) == [k \in 1 .. Count(q) |-> q.list[Slot(q, k)]]

(* The slots between head and tail hold data that was pushed, never the     *)
(* null of the constructor.                                                 *)
WellFormed(q) == \A k \in 1 .. Count(q) : q.list[Slot(q, k)] \in Data

Capacity == QUEUE_LENGTH - 1
=============================================================================
