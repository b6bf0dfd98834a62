----------------------------- MODULE BoundedFifo -----------------------------
(***************************************************************************)
(* What the users of CircularQueue rely on: a first-in first-out queue of  *)
(* bounded capacity whose operations, called by any number of threads at   *)
(* once, each take effect at one instant between the call and the return.  *)
(* CircularQueue is shown to implement it.                                 *)
(*                                                                         *)
(* A push on a full queue is not refused: it has no effect, and the value  *)
(* its caller gets is Null or anything else (Push returns a reference to a *)
(* temporary that is gone when the caller reads it).                       *)
(***************************************************************************)
EXTENDS Naturals, Sequences

CONSTANTS Threads, Data, Null, Garbage, NoResult, Capacity

VARIABLES
  fifo,      (* The elements, oldest first.                                 *)
  request,   (* What each thread has called, None between calls.            *)
  result     (* What the call will return, NoResult until it takes effect.  *)

fifoVars == <<fifo, request, result>>

None == [op |-> "none", data |-> Null]

Requests == [op : {"Push"}, data : Data]
              \cup [op : {"Pop", "IsEmpty"}, data : {Null}]
              \cup [op : {"Enable"}, data : BOOLEAN]

FifoInit ==
  /\ fifo = << >>
  /\ request = [t \in Threads |-> None]
  /\ result = [t \in Threads |-> NoResult]

Call(t, r) ==
  /\ request[t] = None
  /\ request' = [request EXCEPT ![t] = r]
  /\ UNCHANGED <<fifo, result>>

(* The instant a call takes effect.                                         *)
TakesEffect(t, op) ==
  /\ request[t].op = op
  /\ result[t] = NoResult
  /\ UNCHANGED request

PushEffect(t) ==
  /\ TakesEffect(t, "Push")
  /\ \/ /\ Len(fifo) < Capacity
        /\ fifo' = Append(fifo, request[t].data)
        /\ result' = [result EXCEPT ![t] = request[t].data]
     \/ /\ Len(fifo) = Capacity
        /\ \E v \in {Null, Garbage} : result' = [result EXCEPT ![t] = v]
        /\ UNCHANGED fifo

PopEffect(t) ==
  /\ TakesEffect(t, "Pop")
  /\ \/ /\ fifo # << >>
        /\ fifo' = Tail(fifo)
        /\ result' = [result EXCEPT ![t] = Head(fifo)]
     \/ /\ fifo = << >>
        /\ result' = [result EXCEPT ![t] = Null]
        /\ UNCHANGED fifo

IsEmptyEffect(t) ==
  /\ TakesEffect(t, "IsEmpty")
  /\ result' = [result EXCEPT ![t] = (fifo = << >>)]
  /\ UNCHANGED fifo

(* Switching the "critical section enabled" flag changes nothing a caller   *)
(* of the queue can see.                                                    *)
EnableEffect(t) ==
  /\ TakesEffect(t, "Enable")
  /\ result' = [result EXCEPT ![t] = Null]
  /\ UNCHANGED fifo

Return(t) ==
  /\ result[t] # NoResult
  /\ request' = [request EXCEPT ![t] = None]
  /\ result' = [result EXCEPT ![t] = NoResult]
  /\ UNCHANGED fifo

FifoNext ==
  \E t \in Threads :
    \/ \E r \in Requests : Call(t, r)
    \/ PushEffect(t)
    \/ PopEffect(t)
    \/ IsEmptyEffect(t)
    \/ EnableEffect(t)
    \/ Return(t)

FifoSpec == FifoInit /\ [][FifoNext]_fifoVars
=============================================================================
