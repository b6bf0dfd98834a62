--------------------------- MODULE BaseModelProofs ---------------------------
(***************************************************************************)
(* Proofs about BaseModel for any receivers, any packet streams and any    *)
(* queue length: types, the privacy of the process queue, the numbers a    *)
(* UDP receiver accepts, and in-order delivery across the swaps.           *)
(*                                                                         *)
(* The argument: m_packetQueueLock separates a receiver's read of the      *)
(* storage pointer and its push from the main thread's swap, so what the   *)
(* receiver read is still the storage queue when it pushes (LockInv); and  *)
(* the swap happens only when the process queue is empty, because only the *)
(* main thread takes from it and nobody puts anything there (RunInv).      *)
(***************************************************************************)
EXTENDS BaseModel, RingQueueProofs, FiniteSetTheorems

(* The lock, and what it protects.                                          *)
LockInv ==
  /\ \A r \in Receivers : rcv[r].pc \in {"read", "push"} <=> owner = r
  /\ run.pc = "swap" <=> owner = Main
  /\ procQ # storeQ
  /\ csOn[storeQ]
  /\ \A r \in Receivers : rcv[r].pc = "push" => rcv[r].target = storeQ

(* What Run knows of the queues between its steps.                          *)
RunInv ==
  /\ \A o \in Objects : WellFormed(ring[o])
  /\ run.pc \in {"test", "lock", "swap"} => IsEmpty(ring[procQ])
  /\ run.pc = "process" <=> run.cur # Null
  /\ run.pc # "pop" => run.loop < LOOP_COUNT

(* A packet a receiver has accepted and not yet pushed is whole.            *)
CutInv ==
  \A r \in Receivers : rcv[r].pc \in {"lock", "read", "push"} => Complete(r)

IInv == TypeOK /\ LockInv /\ RunInv /\ CutInv

(* The packet at the front of a receiver's buffer is one of the packets    *)
(* its peer may send.                                                      *)
LEMMA FrontPacketType ==
  ASSUME TypeOK, NEW r \in Receivers, Complete(r)
  PROVE  /\ FrontPacket(r) \in Data
         /\ rcv[r].remain - PacketBytes(FrontPacket(r)) \in Nat
<1>1. rcv[r].next + 1 \in 1 .. Len(stream[r])
  BY DEF TypeOK, Complete, ReceiverStates
<1>2. FrontPacket(r) \in Data
  BY <1>1, ElementOfSeq DEF TypeOK, FrontPacket
<1>3. Size[FrontPacket(r)] \in Nat
  BY <1>2, PacketAssumption
<1>. QED
  BY <1>2, <1>3, BoundsAssumption
     DEF TypeOK, Complete, ReceiverStates, PacketBytes

(* The pipeline starts with the invariant: queues empty, no lock held.     *)
LEMMA InitInv == Init => IInv
<1>. SUFFICES ASSUME Init PROVE IInv
  OBVIOUS
<1>1. TypeOK
  <2>1. stream \in [Receivers -> Seq(Data)]
    BY PacketAssumption DEF Init
  <2>2. << >> \in Seq(Data) /\ << >> \in Seq(Known)
    BY EmptySeq
  <2>. QED
    BY <2>1, <2>2, NewQueueEmpty, BoundsAssumption, PacketAssumption
       DEF Init, TypeOK, ReceiverStates, Shorts, Objects
<1>2. LockInv
  BY OwnerAssumption DEF Init, LockInv, Objects
<1>3. RunInv
  BY NewQueueEmpty DEF Init, RunInv
<1>4. CutInv
  BY DEF Init, CutInv
<1>. QED
  BY <1>1, <1>2, <1>3, <1>4 DEF IInv

-----------------------------------------------------------------------------
(* Receiver steps.                                                          *)

LEMMA ReceiveInv ==
  ASSUME IInv, NEW r \in Receivers, NEW n \in 1 .. MAX_CHUNK, Receive(r, n)
  PROVE  IInv'
<1>a. rcv[r].remain + n \in Nat
  BY BoundsAssumption DEF IInv, TypeOK, ReceiverStates
<1>b. rcv' \in [Receivers -> ReceiverStates]
  <2>1. rcv[r] \in ReceiverStates
    BY DEF IInv, TypeOK
  <2>. DEFINE v == [rcv[r] EXCEPT !.pc = "parse", !.remain = @ + n]
  <2>2. v \in ReceiverStates
    BY <1>a, <2>1 DEF ReceiverStates
  <2>3. rcv' = [rcv EXCEPT ![r] = v]
    BY <2>1 DEF IInv, TypeOK, Receive, ReceiverStates
  <2>. HIDE DEF v
  <2>. QED
    BY <2>2, <2>3 DEF IInv, TypeOK
<1>1. TypeOK'
  BY <1>b DEF IInv, TypeOK, Receive, roles, history
<1>2. LockInv'
  BY DEF IInv, TypeOK, LockInv, Receive, ReceiverStates, roles, history
<1>3. RunInv'
  BY DEF IInv, TypeOK, RunInv, Receive, ReceiverStates, roles, history
<1>4. CutInv'
  BY DEF IInv, TypeOK, CutInv, Receive, Complete, FrontPacket,
       ReceiverStates, roles, history
<1>. QED
  BY <1>1, <1>2, <1>3, <1>4 DEF IInv

(* A number is in the other type what it was, and comes back.               *)
LEMMA Conversions ==
  /\ \A n \in 0 .. 2 * HALF - 1 : Short(n) \in Shorts /\ Unsigned(Short(n)) = n
  /\ \A n \in Shorts : Unsigned(n) \in 0 .. 2 * HALF - 1
BY PacketAssumption DEF Short, Unsigned, Shorts

(* A datagram in the buffer keeps the invariant.                           *)
LEMMA ReceiveFromInv ==
  ASSUME IInv, NEW r \in Receivers, ReceiveFrom(r)
  PROVE  IInv'
<1>. DEFINE d == FrontPacket(r)
<1>a. d \in Data /\ rcv[r] \in ReceiverStates /\ r \in UdpReceivers
  <2>1. rcv[r].next + 1 \in 1 .. Len(stream[r])
    BY DEF IInv, TypeOK, ReceiveFrom, ReceiverStates
  <2>. QED
    BY <2>1, ElementOfSeq DEF IInv, TypeOK, ReceiveFrom, FrontPacket
<1>b. PacketBytes(d) \in Nat /\ Short(peers[r][Peer[d]]) \in Shorts /\ Peer[d] \in Peers
  BY <1>a, Conversions, PacketAssumption, PeerAssumption, BoundsAssumption
     DEF IInv, TypeOK, PacketBytes
<1>c. PICK ack \in BOOLEAN :
        rcv' = [rcv EXCEPT ![r].pc = "parse", ![r].remain = @ + PacketBytes(d),
                           ![r].last = Short(peers[r][Peer[d]]),
                           ![r].store = IF ack THEN Peer[d] ELSE NoPeer]
  BY DEF ReceiveFrom
<1>. DEFINE v == [rcv[r] EXCEPT !.pc = "parse", !.remain = @ + PacketBytes(d),
                    !.last = Short(peers[r][Peer[d]]),
                    !.store = IF ack THEN Peer[d] ELSE NoPeer]
<1>d. v \in ReceiverStates /\ v.pc = "parse" /\ rcv' = [rcv EXCEPT ![r] = v]
  <2>. DEFINE left == rcv[r].remain + PacketBytes(d)
              n == Short(peers[r][Peer[d]])
              q == IF ack THEN Peer[d] ELSE NoPeer
  <2>1. left \in Nat /\ n \in Shorts /\ q \in Peers \cup {NoPeer}
    BY <1>a, <1>b DEF ReceiverStates
  <2>2. v = [rcv[r] EXCEPT !.pc = "parse", !.remain = left, !.last = n, !.store = q]
    BY <1>a DEF ReceiverStates
  <2>3. rcv' = [rcv EXCEPT ![r] = v]
    BY <1>a, <1>c DEF IInv, TypeOK, ReceiverStates
  <2>. HIDE DEF left, n, q, v
  <2>. QED
    BY <1>a, <2>1, <2>2, <2>3 DEF ReceiverStates
<1>e. /\ UNCHANGED <<stream, peers, ring, roles, owner, run, history>>
      /\ rcv[r].pc = "idle"
  BY DEF ReceiveFrom
<1>. HIDE DEF v, d
<1>1. TypeOK'
  BY <1>d, <1>e DEF IInv, TypeOK, roles, history
<1>2. LockInv'
  BY <1>d, <1>e DEF IInv, TypeOK, LockInv, roles
<1>3. RunInv'
  BY <1>e DEF IInv, RunInv, roles
<1>4. CutInv'
  BY <1>d, <1>e DEF IInv, TypeOK, CutInv, Complete, FrontPacket
<1>. QED
  BY <1>1, <1>2, <1>3, <1>4 DEF IInv

(* Leaving the parsing loop keeps the invariant.                           *)
LEMMA IncompleteInv ==
  ASSUME IInv, NEW r \in Receivers, Incomplete(r)
  PROVE  IInv'
<1>a. peers' \in [UdpReceivers -> [Peers -> 0 .. 2 * HALF - 1]]
  <2>1. rcv[r].last \in Shorts /\ rcv[r].store \in Peers \cup {NoPeer}
    BY DEF IInv, TypeOK, ReceiverStates
  <2>2. Unsigned(rcv[r].last) \in 0 .. 2 * HALF - 1
    BY <2>1, Conversions
  <2>. QED
    BY <2>1, <2>2 DEF IInv, TypeOK, Incomplete, NumberStored
<1>b. rcv' \in [Receivers -> ReceiverStates]
  <2>1. rcv[r] \in ReceiverStates
    BY DEF IInv, TypeOK
  <2>2. [rcv[r] EXCEPT !.pc = "idle", !.store = NoPeer] \in ReceiverStates
    BY <2>1 DEF ReceiverStates
  <2>3. rcv' = [rcv EXCEPT ![r] = [rcv[r] EXCEPT !.pc = "idle", !.store = NoPeer]]
    BY <2>1 DEF IInv, TypeOK, Incomplete, ReceiverStates
  <2>. QED
    BY <2>2, <2>3 DEF IInv, TypeOK
<1>1. TypeOK'
  BY <1>a, <1>b DEF IInv, TypeOK, Incomplete, roles, history
<1>2. LockInv'
  BY DEF IInv, TypeOK, LockInv, Incomplete, ReceiverStates, roles, history
<1>3. RunInv'
  BY DEF IInv, TypeOK, RunInv, Incomplete, ReceiverStates, roles, history
<1>4. CutInv'
  BY DEF IInv, TypeOK, CutInv, Incomplete, Complete, FrontPacket,
       ReceiverStates, roles, history
<1>. QED
  BY <1>1, <1>2, <1>3, <1>4 DEF IInv

(* What is left in the buffer after a packet was cut out.                  *)
LEMMA Consumed ==
  ASSUME TypeOK, NEW r \in Receivers, Complete(r), Consume(r)
  PROVE  /\ rcv' \in [Receivers -> ReceiverStates]
         /\ rcv'[r] = [rcv[r] EXCEPT !.pc = "parse", !.next = @ + 1,
                         !.remain = rcv[r].remain - PacketBytes(FrontPacket(r))]
         /\ \A s \in Receivers \ {r} : rcv'[s] = rcv[s]
<1>1. rcv[r] \in ReceiverStates /\ rcv \in [Receivers -> ReceiverStates]
  BY DEF TypeOK
<1>. DEFINE left == rcv[r].remain - PacketBytes(FrontPacket(r))
            v == [rcv[r] EXCEPT !.pc = "parse", !.next = @ + 1, !.remain = left]
<1>2. v \in ReceiverStates
  <2>1. left \in Nat /\ rcv[r].next + 1 \in Nat
    BY <1>1, FrontPacketType DEF ReceiverStates
  <2>. HIDE DEF left
  <2>. QED
    BY <1>1, <2>1 DEF ReceiverStates
<1>3. rcv' = [rcv EXCEPT ![r] = v]
  BY <1>1 DEF Consume, ReceiverStates
<1>4. v = [rcv[r] EXCEPT !.pc = "parse", !.next = @ + 1,
             !.remain = rcv[r].remain - PacketBytes(FrontPacket(r))]
  OBVIOUS
<1>. HIDE DEF v
<1>. QED
  BY <1>1, <1>2, <1>3, <1>4

(* Consuming a packet with another number keeps the invariant.             *)
LEMMA SkipInv ==
  ASSUME IInv, NEW r \in Receivers, Skip(r)
  PROVE  IInv'
<1>0. /\ rcv' \in [Receivers -> ReceiverStates] /\ rcv'[r].pc = "parse"
      /\ \A s \in Receivers \ {r} : rcv'[s] = rcv[s]
      /\ rcv[r].pc = "parse"
      /\ UNCHANGED <<stream, peers, ring, roles, owner, run, history>>
  <2>1. rcv[r].pc = "parse" /\ Complete(r) /\ Consume(r)
          /\ UNCHANGED <<stream, peers, ring, roles, owner, run, history>>
    BY DEF Skip
  <2>2. rcv[r] \in ReceiverStates
    BY DEF IInv, TypeOK
  <2>. QED
    BY <2>1, <2>2, Consumed DEF IInv, ReceiverStates
<1>1. TypeOK'
  BY <1>0 DEF IInv, TypeOK, roles, history
<1>2. LockInv'
  BY <1>0 DEF IInv, TypeOK, LockInv, roles
<1>3. RunInv'
  BY <1>0 DEF IInv, RunInv, roles
<1>4. CutInv'
  BY <1>0 DEF IInv, CutInv, Complete, FrontPacket
<1>. QED
  BY <1>1, <1>2, <1>3, <1>4 DEF IInv

(* Accepting the expected packet keeps the invariant.                       *)
LEMMA AcceptInv ==
  ASSUME IInv, NEW r \in Receivers, Accept(r)
  PROVE  IInv'
<1>0. /\ FrontPacket(r) \in Data
      /\ rcv[r].remain - PacketBytes(FrontPacket(r)) \in Nat
  BY FrontPacketType DEF IInv, Accept
<1>a. Increment16(rcv[r].last) \in Shorts
  <2>1. rcv[r].last \in Shorts
    BY DEF IInv, TypeOK, ReceiverStates
  <2>2. HALF \in Nat \ {0}
    BY PacketAssumption
  <2>. QED
    BY <2>1, <2>2 DEF Shorts, Increment16
<1>b. rcv' \in [Receivers -> ReceiverStates]
  <2>1. rcv[r] \in ReceiverStates
    BY DEF IInv, TypeOK
  <2>. DEFINE v == [rcv[r] EXCEPT !.pc = "lock",
                      !.last = IF r \in UdpReceivers THEN Increment16(@) ELSE @]
  <2>2. v \in ReceiverStates
    BY <1>a, <2>1 DEF ReceiverStates
  <2>3. rcv' = [rcv EXCEPT ![r] = v]
    BY <2>1 DEF IInv, TypeOK, Accept, ReceiverStates
  <2>. HIDE DEF v
  <2>. QED
    BY <2>2, <2>3 DEF IInv, TypeOK
<1>c. accepted' \in [Receivers -> Seq([packet : Data, kept : BOOLEAN])]
  <2>. DEFINE e == [packet |-> FrontPacket(r), kept |-> rcv[r].store # NoPeer]
  <2>1. e \in [packet : Data, kept : BOOLEAN]
    BY <1>0
  <2>2. accepted' = [accepted EXCEPT ![r] = Append(@, e)]
    BY DEF Accept
  <2>. HIDE DEF e
  <2>. QED
    BY <2>1, <2>2, AppendProperties DEF IInv, TypeOK
<1>1. TypeOK'
  BY <1>b, <1>c DEF IInv, TypeOK, Accept, roles, history
<1>2. LockInv'
  BY DEF IInv, TypeOK, LockInv, Accept, ReceiverStates, roles, history
<1>3. RunInv'
  BY DEF IInv, TypeOK, RunInv, Accept, ReceiverStates, roles, history
<1>4. CutInv'
  BY DEF IInv, TypeOK, CutInv, Accept, Complete, FrontPacket,
       ReceiverStates, roles, history
<1>. QED
  BY <1>1, <1>2, <1>3, <1>4 DEF IInv

(* A receiver that gets the packet queue lock keeps the invariant.         *)
LEMMA LockRInv ==
  ASSUME IInv, NEW r \in Receivers, LockR(r)
  PROVE  IInv'
<1>a. rcv' \in [Receivers -> ReceiverStates]
  <2>1. rcv[r] \in ReceiverStates
    BY DEF IInv, TypeOK
  <2>2. [rcv[r] EXCEPT !.pc = "read"] \in ReceiverStates
    BY <2>1 DEF ReceiverStates
  <2>. QED
    BY <2>2 DEF IInv, TypeOK, LockR
<1>1. TypeOK'
  BY <1>a DEF IInv, TypeOK, LockR, roles, history
<1>2. LockInv'
  BY ReceiverAssumption, OwnerAssumption
       DEF IInv, TypeOK, LockInv, LockR, ReceiverStates, roles, history
<1>3. RunInv'
  BY DEF IInv, TypeOK, RunInv, LockR, ReceiverStates, roles, history
<1>4. CutInv'
  BY DEF IInv, TypeOK, CutInv, LockR, Complete, FrontPacket,
       ReceiverStates, roles, history
<1>. QED
  BY <1>1, <1>2, <1>3, <1>4 DEF IInv

(* Under the lock, the queue a receiver reads is the storage queue.        *)
LEMMA ReadStorageQueueInv ==
  ASSUME IInv, NEW r \in Receivers, ReadStorageQueue(r)
  PROVE  IInv'
<1>b. rcv' \in [Receivers -> ReceiverStates]
  <2>1. storeQ \in Objects /\ rcv[r] \in ReceiverStates
    BY DEF IInv, TypeOK
  <2>2. [rcv[r] EXCEPT !.pc = "push", !.target = storeQ] \in ReceiverStates
    BY <2>1 DEF ReceiverStates
  <2>. QED
    BY <2>2 DEF IInv, TypeOK, ReadStorageQueue
<1>1. TypeOK'
  BY <1>b DEF IInv, TypeOK, ReadStorageQueue, roles, history
<1>2. LockInv'
  BY DEF IInv, TypeOK, LockInv, ReadStorageQueue, ReceiverStates, roles,
       history
<1>3. RunInv'
  BY DEF IInv, TypeOK, RunInv, ReadStorageQueue, ReceiverStates, roles,
       history
<1>4. CutInv'
  BY DEF IInv, TypeOK, CutInv, ReadStorageQueue, Complete, FrontPacket,
       ReceiverStates, roles, history
<1>. QED
  BY <1>1, <1>2, <1>3, <1>4 DEF IInv

(* A push on the storage queue, full or not, keeps the invariant.          *)
LEMMA PushInv ==
  ASSUME IInv, NEW r \in Receivers, Push(r)
  PROVE  IInv'
<1>0. /\ FrontPacket(r) \in Data
      /\ rcv[r].remain - PacketBytes(FrontPacket(r)) \in Nat
  BY FrontPacketType DEF IInv, CutInv, Push
<1>a. rcv[r].target = storeQ /\ storeQ # procQ /\ storeQ \in Objects
  BY DEF IInv, TypeOK, LockInv, Push
<1>b. /\ \A o \in Objects : ring'[o] \in Queue /\ WellFormed(ring'[o])
      /\ ring' \in [Objects -> Queue]
      /\ ring'[procQ] = ring[procQ]
  <2>1. ring[storeQ] \in Queue /\ WellFormed(ring[storeQ])
    BY <1>a DEF IInv, TypeOK, RunInv
  <2>2. CASE IsFull(ring[storeQ])
    BY <1>a, <2>2 DEF IInv, TypeOK, RunInv, Push
  <2>3. CASE ~IsFull(ring[storeQ])
    <3>1. /\ Pushed(ring[storeQ], FrontPacket(r)) \in Queue
          /\ WellFormed(Pushed(ring[storeQ], FrontPacket(r)))
      BY <1>0, <2>1, <2>3, PushedContents
    <3>2. ring' = [ring EXCEPT ![storeQ] = Pushed(@, FrontPacket(r))]
      BY <1>a, <2>3 DEF Push
    <3>. QED
      BY <1>a, <3>1, <3>2 DEF IInv, TypeOK, RunInv
  <2>. QED
    BY <2>2, <2>3
<1>c. /\ rcv' \in [Receivers -> ReceiverStates] /\ rcv'[r].pc = "parse"
      /\ \A s \in Receivers \ {r} : rcv'[s] = rcv[s]
  <2>1. Complete(r) /\ Consume(r) /\ rcv[r] \in ReceiverStates
    BY DEF IInv, TypeOK, CutInv, Push
  <2>. QED
    BY <2>1, Consumed DEF IInv, ReceiverStates
<1>e. rcv'[r].pc = "parse" /\ UNCHANGED stream
  BY <1>c DEF Push
<1>d. lost' \in SUBSET Data
  BY <1>0 DEF IInv, TypeOK, Push
<1>1. TypeOK'
  BY <1>b, <1>c, <1>d DEF IInv, TypeOK, Push, roles, history
<1>2. LockInv'
  BY <1>a, ReceiverAssumption, OwnerAssumption
       DEF IInv, TypeOK, LockInv, Push, Consume, ReceiverStates, roles,
       history
<1>3. RunInv'
  BY <1>a, <1>b
       DEF IInv, TypeOK, RunInv, Push, Consume, ReceiverStates, roles,
       history
<1>4. CutInv'
  BY <1>c, <1>e DEF IInv, CutInv, Complete, FrontPacket
<1>. QED
  BY <1>1, <1>2, <1>3, <1>4 DEF IInv

-----------------------------------------------------------------------------
(* Steps of the main thread.                                                *)

LEMMA RunAgainInv ==
  ASSUME IInv, RunAgain
  PROVE  IInv'
<1>a. 0 \in 0 .. LOOP_COUNT
  BY BoundsAssumption
<1>1. TypeOK'
  BY <1>a DEF IInv, TypeOK, RunAgain, roles, history
<1>2. LockInv'
  BY DEF IInv, TypeOK, LockInv, RunAgain, ReceiverStates, roles, history
<1>3. RunInv'
  BY DEF IInv, TypeOK, RunInv, RunAgain, ReceiverStates, roles, history
<1>4. CutInv'
  BY DEF IInv, TypeOK, CutInv, RunAgain, Complete, FrontPacket,
       ReceiverStates, roles, history
<1>. QED
  BY <1>1, <1>2, <1>3, <1>4 DEF IInv

(* A pop of the process queue keeps the invariant.                         *)
LEMMA PopInv ==
  ASSUME IInv, Pop
  PROVE  IInv'
<1>a. procQ \in Objects /\ ring[procQ] \in Queue /\ WellFormed(ring[procQ])
  BY DEF IInv, TypeOK, RunInv
<1>b. /\ \A o \in Objects : WellFormed(ring'[o])
      /\ ring' \in [Objects -> Queue]
      /\ ~IsEmpty(ring[procQ]) => FrontElement(ring[procQ]) \in Data
  <2>1. CASE IsEmpty(ring[procQ])
    BY <1>a, <2>1 DEF IInv, TypeOK, RunInv, Pop
  <2>2. CASE ~IsEmpty(ring[procQ])
    <3>1. /\ Popped(ring[procQ]) \in Queue /\ WellFormed(Popped(ring[procQ]))
          /\ FrontElement(ring[procQ]) \in Data
      BY <1>a, <2>2, PoppedContents
    <3>2. ring' = [ring EXCEPT ![procQ] = Popped(@)]
      BY <2>2 DEF Pop
    <3>. QED
      BY <1>a, <3>1, <3>2 DEF IInv, TypeOK, RunInv
  <2>. QED
    BY <2>1, <2>2
<1>1. TypeOK'
  BY <1>b DEF IInv, TypeOK, Pop, ReceiverStates, roles, history
<1>2. LockInv'
  BY DEF IInv, TypeOK, LockInv, Pop, ReceiverStates, roles, history
<1>3. RunInv'
  BY <1>b, NullAssumption
       DEF IInv, TypeOK, RunInv, Pop, ReceiverStates, roles, history
<1>4. CutInv'
  BY DEF IInv, TypeOK, CutInv, Pop, Complete, FrontPacket, ReceiverStates,
       roles, history
<1>. QED
  BY <1>1, <1>2, <1>3, <1>4 DEF IInv

(* Calling (or not finding) the processor keeps the invariant.             *)
LEMMA ProcessInv ==
  ASSUME IInv, Process
  PROVE  IInv'
<1>a. run.cur \in Data /\ run.loop + 1 \in 0 .. LOOP_COUNT
  BY BoundsAssumption DEF IInv, TypeOK, RunInv, Process
<1>b. handled' \in Seq(Known)
  BY AppendProperties DEF IInv, TypeOK, Process
<1>1. TypeOK'
  BY <1>a, <1>b DEF IInv, TypeOK, Process, ReceiverStates, roles, history
<1>2. LockInv'
  BY DEF IInv, TypeOK, LockInv, Process, ReceiverStates, roles, history
<1>3. RunInv'
  BY DEF IInv, TypeOK, RunInv, Process, ReceiverStates, roles, history
<1>4. CutInv'
  BY DEF IInv, TypeOK, CutInv, Process, Complete, FrontPacket,
       ReceiverStates, roles, history
<1>. QED
  BY <1>1, <1>2, <1>3, <1>4 DEF IInv

(* The test of the two queues keeps the invariant.                         *)
LEMMA TestInv ==
  ASSUME IInv, Test
  PROVE  IInv'
<1>a. run.loop + 1 \in 0 .. LOOP_COUNT /\ run.loop \in 0 .. LOOP_COUNT
  BY BoundsAssumption DEF IInv, TypeOK, RunInv, Test
<1>1. TypeOK'
  BY <1>a DEF IInv, TypeOK, Test, roles, history
<1>2. LockInv'
  BY DEF IInv, TypeOK, LockInv, Test, ReceiverStates, roles, history
<1>3. RunInv'
  BY DEF IInv, TypeOK, RunInv, Test, NeedsSwap, ReceiverStates, roles, history
<1>4. CutInv'
  BY DEF IInv, TypeOK, CutInv, Test, Complete, FrontPacket,
       ReceiverStates, roles, history
<1>. QED
  BY <1>1, <1>2, <1>3, <1>4 DEF IInv

(* The main thread that gets the packet queue lock keeps the invariant.    *)
LEMMA LockMInv ==
  ASSUME IInv, LockM
  PROVE  IInv'
<1>1. TypeOK'
  BY DEF IInv, TypeOK, LockM, ReceiverStates, roles, history
<1>2. LockInv'
  BY ReceiverAssumption, OwnerAssumption
       DEF IInv, TypeOK, LockInv, LockM, ReceiverStates, roles, history
<1>3. RunInv'
  BY DEF IInv, TypeOK, RunInv, LockM, ReceiverStates, roles, history
<1>4. CutInv'
  BY DEF IInv, TypeOK, CutInv, LockM, Complete, FrontPacket,
       ReceiverStates, roles, history
<1>. QED
  BY <1>1, <1>2, <1>3, <1>4 DEF IInv

(* The swap keeps the invariant: no receiver is between its read of the    *)
(* storage queue and its push.                                             *)
LEMMA SwapInv ==
  ASSUME IInv, Swap
  PROVE  IInv'
<1>a. run.loop + 1 \in 0 .. LOOP_COUNT /\ run.loop \in 0 .. LOOP_COUNT
  BY BoundsAssumption DEF IInv, TypeOK, RunInv, Swap
<1>1. TypeOK'
  BY <1>a DEF IInv, TypeOK, Swap, roles, history, Objects
<1>2. LockInv'
  BY ReceiverAssumption, OwnerAssumption
       DEF IInv, TypeOK, LockInv, Swap, ReceiverStates, roles, history
<1>3. RunInv'
  BY DEF IInv, TypeOK, RunInv, Swap, ReceiverStates, roles, history
<1>4. CutInv'
  BY DEF IInv, TypeOK, CutInv, Swap, Complete, FrontPacket,
       ReceiverStates, roles, history
<1>. QED
  BY <1>1, <1>2, <1>3, <1>4 DEF IInv

(* Every step, and a stutter, keeps the invariant.                         *)
LEMMA StepInv ==
  ASSUME IInv, [Next]_vars
  PROVE  IInv'
<1>1. CASE UNCHANGED vars
  BY <1>1 DEF vars, roles, history, IInv, TypeOK, LockInv, RunInv, CutInv,
              Complete, FrontPacket
<1>2. CASE MainStep
  BY <1>2, RunAgainInv, PopInv, ProcessInv, TestInv, LockMInv, SwapInv
     DEF MainStep
<1>3. ASSUME NEW r \in Receivers, ReceiverStep(r)
      PROVE  IInv'
  BY <1>3, IncompleteInv, SkipInv, AcceptInv, LockRInv, ReadStorageQueueInv,
     PushInv
     DEF ReceiverStep
<1>4. ASSUME NEW r \in Receivers, NEW n \in 1 .. MAX_CHUNK, Receive(r, n)
      PROVE  IInv'
  BY <1>4, ReceiveInv
<1>5. ASSUME NEW r \in Receivers, ReceiveFrom(r)
      PROVE  IInv'
  BY <1>5, ReceiveFromInv
<1>. QED
  BY <1>1, <1>2, <1>3, <1>4, <1>5 DEF Next

(* The invariant holds in every reachable state.                            *)
THEOREM Invariant == Spec => []IInv
BY InitInv, StepInv, PTL DEF Spec

(* Every variable stays in its range.                                       *)
THEOREM TypeCorrect == Spec => []TypeOK
BY Invariant, PTL DEF IInv

(* No receiver ever pushes to the process queue or to a queue whose         *)
(* critical section is switched off (the comment at BaseModel.cpp:43).      *)
THEOREM ProcessQueueStaysPrivate == Spec => []ProcessQueueIsPrivate
<1>1. IInv => ProcessQueueIsPrivate
  BY DEF IInv, LockInv, ProcessQueueIsPrivate
<1>. QED
  BY <1>1, Invariant, PTL

-----------------------------------------------------------------------------
(* The numbers of UDP.                                                      *)

(* What the server expects of a peer: while one of its datagrams is worked  *)
(* on and will be stored, the number in the OVERLAPPED_EX.                  *)
Expects(r, p) ==
  IF p = rcv[r].store THEN Unsigned(rcv[r].last) ELSE peers[r][p]

AckCount(r, p) == Cardinality(Acknowledged(r, p, Len(accepted[r])))

(* There is at most one datagram in the buffer, whole, and before it is     *)
(* looked at its peer's number is the one that is expected.                 *)
DatagramInv(r) ==
  /\ stream[r] \in Streams[r]
  /\ rcv[r].pc = "idle" => rcv[r].remain = 0 /\ rcv[r].store = NoPeer
  /\ rcv[r].remain > 0 =>
       /\ rcv[r].next < Len(stream[r])
       /\ rcv[r].remain = PacketBytes(FrontPacket(r))
  /\ rcv[r].pc = "parse" /\ rcv[r].remain > 0 =>
       /\ rcv[r].last = Short(peers[r][Peer[FrontPacket(r)]])
       /\ rcv[r].store \in {NoPeer, Peer[FrontPacket(r)]}

(* What is expected of a peer is how often it was acknowledged.             *)
CountInv(r) ==
  \A p \in Peers : AckCount(r, p) <= HALF /\ AckCount(r, p) = Expects(r, p)

(* UdpSequence for one receiver.                                            *)
SequenceInv(r) ==
  \A k \in 1 .. Len(accepted[r]) :
    LET d == accepted[r][k].packet
    IN  Number[d] < HALF /\ Number[d] = Cardinality(Acknowledged(r, Peer[d], k - 1))

NumberInv == \A r \in UdpReceivers : DatagramInv(r) /\ CountInv(r) /\ SequenceInv(r)

(* What was accepted before is acknowledged as it was.                      *)
LEMMA SameAcknowledged ==
  ASSUME NEW r, NEW p, NEW n, accepted'[r] = accepted[r]
  PROVE  Acknowledged(r, p, n)' = Acknowledged(r, p, n)
BY DEF Acknowledged

(* The counts stay when what is accepted and expected stays.                *)
LEMMA SameCounts ==
  ASSUME NEW r \in UdpReceivers, CountInv(r), SequenceInv(r),
         accepted'[r] = accepted[r],
         \A p \in Peers : Expects(r, p)' = Expects(r, p)
  PROVE  CountInv(r)' /\ SequenceInv(r)'
<1>1. ASSUME NEW p \in Peers PROVE AckCount(r, p)' = AckCount(r, p)
  <2>1. Acknowledged(r, p, Len(accepted[r]))' = Acknowledged(r, p, Len(accepted[r]))
    BY DEF Acknowledged
  <2>. QED
    BY <2>1 DEF AckCount
<1>2. CountInv(r)'
  BY <1>1 DEF CountInv
<1>3. SequenceInv(r)'
  <2>. SUFFICES ASSUME NEW k \in 1 .. Len(accepted[r]), NEW d, d = accepted[r][k].packet
                PROVE  Number[d] < HALF
                         /\ Number[d] = Cardinality(Acknowledged(r, Peer[d], k - 1)')
    BY DEF SequenceInv
  <2>1. Acknowledged(r, Peer[d], k - 1)' = Acknowledged(r, Peer[d], k - 1)
    BY SameAcknowledged
  <2>. QED
    BY <2>1 DEF SequenceInv
<1>. QED
  BY <1>2, <1>3

(* One more accepted packet is one more acknowledged one, or none.          *)
LEMMA OneMore ==
  ASSUME NEW Entries, NEW r, accepted[r] \in Seq(Entries), NEW e \in Entries,
         e.kept \in BOOLEAN, accepted'[r] = Append(accepted[r], e), NEW p,
         NEW n, n = Len(accepted[r])
  PROVE  /\ Len(accepted'[r]) = n + 1 /\ n \in Nat
         /\ \A k \in 1 .. n : accepted'[r][k] = accepted[r][k]
         /\ accepted'[r][n + 1] = e
         /\ AckCount(r, p)' = IF e.kept /\ Peer[e.packet] = p
                                THEN AckCount(r, p) + 1 ELSE AckCount(r, p)
         /\ AckCount(r, p) \in Nat
<1>. DEFINE A == Acknowledged(r, p, n)
<1>1. /\ Len(accepted'[r]) = n + 1 /\ n \in Nat
      /\ \A k \in 1 .. n : accepted'[r][k] = accepted[r][k]
      /\ accepted'[r][n + 1] = e
  BY AppendProperties, LenProperties
<1>3. IsFiniteSet(A) /\ Cardinality(A) \in Nat /\ n + 1 \notin A
  <2>1. A \in SUBSET (1 .. n) /\ n + 1 \notin 1 .. n
    BY <1>1 DEF Acknowledged
  <2>2. IsFiniteSet(1 .. n)
    BY <1>1, FS_Interval
  <2>. HIDE DEF A
  <2>. QED
    BY <2>1, <2>2, FS_Subset, FS_CardinalityType
<1>4. Acknowledged(r, p, n + 1)' = IF e.kept /\ Peer[e.packet] = p THEN A \cup {n + 1} ELSE A
  <2>1. 1 .. n + 1 = (1 .. n) \cup {n + 1} /\ n + 1 \notin 1 .. n
    BY <1>1
  <2>2. Acknowledged(r, p, n + 1)' =
          {j \in 1 .. n + 1 : accepted'[r][j].kept /\ Peer[accepted'[r][j].packet] = p}
    BY DEF Acknowledged
  <2>3. A = {j \in 1 .. n : accepted[r][j].kept /\ Peer[accepted[r][j].packet] = p}
    BY DEF Acknowledged
  <2>4. PICK on : on = (e.kept /\ Peer[e.packet] = p) /\ on \in BOOLEAN
    OBVIOUS
  <2>. HIDE DEF A
  <2>5. ASSUME NEW j
        PROVE  j \in Acknowledged(r, p, n + 1)' <=> j \in A \/ (j = n + 1 /\ on)
    <3>1. CASE j \in 1 .. n
      BY <1>1, <2>1, <2>2, <2>3, <3>1
    <3>2. CASE j = n + 1
      BY <1>1, <2>1, <2>2, <2>3, <2>4, <3>2
    <3>3. CASE j \notin 1 .. n + 1
      BY <2>1, <2>2, <2>3, <3>3
    <3>. QED
      BY <2>1, <3>1, <3>2, <3>3
  <2>. QED
    BY <2>4, <2>5
<1>5. AckCount(r, p)' = Cardinality(Acknowledged(r, p, n + 1)')
  <2>1. AckCount(r, p)' = Cardinality(Acknowledged(r, p, Len(accepted[r]))')
    BY DEF AckCount
  <2>2. Len(accepted[r])' = n + 1
    BY <1>1
  <2>3. Acknowledged(r, p, Len(accepted[r]))' = Acknowledged(r, p, n + 1)'
    BY <2>2 DEF Acknowledged
  <2>. QED
    BY <2>1, <2>3
<1>6. AckCount(r, p) = Cardinality(A)
  BY DEF AckCount
<1>7. Cardinality(A \cup {n + 1}) = Cardinality(A) + 1
  <2>. HIDE DEF A
  <2>. QED
    BY <1>3, FS_AddElement
<1>. HIDE DEF A
<1>8. AckCount(r, p)' = IF e.kept /\ Peer[e.packet] = p
                          THEN AckCount(r, p) + 1 ELSE AckCount(r, p)
  BY <1>4, <1>5, <1>6, <1>7
<1>. QED
  BY <1>1, <1>3, <1>6, <1>8

(* A step of one receiver is none of the others'.                           *)
LEMMA Elsewhere ==
  ASSUME NumberInv, NEW r,
         \A s \in UdpReceivers \ {r} :
           rcv'[s] = rcv[s] /\ peers'[s] = peers[s] /\ accepted'[s] = accepted[s],
         stream' = stream,
         r \in UdpReceivers => DatagramInv(r)' /\ CountInv(r)' /\ SequenceInv(r)'
  PROVE  NumberInv'
<1>. SUFFICES ASSUME NEW s \in UdpReceivers, s # r
              PROVE  DatagramInv(s)' /\ CountInv(s)' /\ SequenceInv(s)'
  BY DEF NumberInv
<1>1. DatagramInv(s)'
  BY DEF NumberInv, DatagramInv, FrontPacket
<1>2. \A p \in Peers : Expects(s, p)' = Expects(s, p)
  BY DEF Expects
<1>. QED
  BY <1>1, <1>2, SameCounts DEF NumberInv

(* The first state: nothing was accepted.                                   *)
LEMMA NumberInit == Init => NumberInv
<1>. SUFFICES ASSUME Init, NEW r \in UdpReceivers
              PROVE  DatagramInv(r) /\ CountInv(r) /\ SequenceInv(r)
  BY DEF NumberInv
<1>0. r \in Receivers
  BY ReceiverAssumption
<1>1. /\ rcv[r] = [pc |-> "idle", next |-> 0, remain |-> 0, last |-> 0,
                   store |-> NoPeer, target |-> "B"]
      /\ accepted[r] = << >> /\ stream[r] \in Streams[r]
      /\ peers[r] = [p \in Peers |-> 0]
  BY <1>0 DEF Init
<1>2. ASSUME NEW p \in Peers PROVE AckCount(r, p) = 0 /\ Expects(r, p) = 0
  <2>1. Acknowledged(r, p, Len(accepted[r])) = {}
    BY <1>1 DEF Acknowledged
  <2>2. AckCount(r, p) = 0
    BY <2>1, FS_EmptySet DEF AckCount
  <2>3. rcv[r].store = NoPeer /\ p # NoPeer /\ peers[r][p] = 0
    BY <1>1, PeerAssumption
  <2>. QED
    BY <2>2, <2>3 DEF Expects
<1>. QED
  BY <1>1, <1>2, PacketAssumption DEF DatagramInv, CountInv, SequenceInv

(* A whole datagram is there when anything is.                              *)
LEMMA WholeDatagram ==
  ASSUME TypeOK, NEW r \in UdpReceivers, DatagramInv(r)
  PROVE  Complete(r) <=> rcv[r].remain > 0
<1>1. r \in Receivers /\ rcv[r] \in ReceiverStates /\ stream[r] \in Seq(Data)
  BY ReceiverAssumption DEF TypeOK
<1>2. ASSUME rcv[r].remain > 0 PROVE Complete(r)
  <2>1. rcv[r].next + 1 \in 1 .. Len(stream[r])
    BY <1>1, <1>2 DEF DatagramInv, ReceiverStates
  <2>2. Size[FrontPacket(r)] > 0 /\ FrontPacket(r) \in Data
    BY <1>1, <2>1, PacketAssumption, ElementOfSeq DEF DatagramInv, FrontPacket
  <2>3. Size[FrontPacket(r)] \in Nat
    BY <2>2, PacketAssumption
  <2>. QED
    BY <1>2, <2>2, <2>3, BoundsAssumption DEF DatagramInv, Complete, PacketBytes
<1>3. ASSUME Complete(r) PROVE rcv[r].remain > 0
  BY <1>1, <1>3, BoundsAssumption DEF Complete, ReceiverStates
<1>. QED
  BY <1>2, <1>3

(* The datagram brings the number of its peer.                              *)
LEMMA ReceiveFromNumbers ==
  ASSUME IInv, NumberInv, NEW r \in Receivers, ReceiveFrom(r)
  PROVE  NumberInv'
<1>. DEFINE d == FrontPacket(r)
<1>0. /\ r \in UdpReceivers /\ rcv[r] \in ReceiverStates /\ d \in Data
      /\ DatagramInv(r) /\ CountInv(r) /\ SequenceInv(r)
      /\ rcv[r].pc = "idle" /\ rcv[r].next < Len(stream[r])
  <2>1. rcv[r].next + 1 \in 1 .. Len(stream[r])
    BY DEF IInv, TypeOK, ReceiveFrom, ReceiverStates
  <2>. QED
    BY <2>1, ElementOfSeq DEF IInv, TypeOK, ReceiveFrom, FrontPacket, NumberInv
<1>1. PICK ack \in BOOLEAN :
        rcv' = [rcv EXCEPT ![r].pc = "parse", ![r].remain = @ + PacketBytes(d),
                           ![r].last = Short(peers[r][Peer[d]]),
                           ![r].store = IF ack THEN Peer[d] ELSE NoPeer]
  BY DEF ReceiveFrom
<1>2. UNCHANGED <<stream, peers, accepted>>
  BY DEF ReceiveFrom, history
<1>3. PacketBytes(d) \in Nat /\ Peer[d] \in Peers
  BY <1>0, PacketAssumption, PeerAssumption, BoundsAssumption DEF PacketBytes
<1>4. /\ rcv'[r].pc = "parse" /\ rcv'[r].next = rcv[r].next
      /\ rcv'[r].remain = rcv[r].remain + PacketBytes(d)
      /\ rcv'[r].last = Short(peers[r][Peer[d]])
      /\ rcv'[r].store = IF ack THEN Peer[d] ELSE NoPeer
      /\ \A s \in UdpReceivers \ {r} : rcv'[s] = rcv[s]
  <2>1. PICK bytes, last, store :
          /\ bytes = PacketBytes(d) /\ last = Short(peers[r][Peer[d]])
          /\ store = IF ack THEN Peer[d] ELSE NoPeer
    OBVIOUS
  <2>2. rcv' = [rcv EXCEPT ![r].pc = "parse", ![r].remain = rcv[r].remain + bytes,
                           ![r].last = last, ![r].store = store]
    BY <1>1, <2>1
  <2>3. rcv \in [Receivers -> ReceiverStates] /\ UdpReceivers \subseteq Receivers
    BY ReceiverAssumption DEF IInv, TypeOK
  <2>4. /\ rcv'[r].pc = "parse" /\ rcv'[r].next = rcv[r].next
        /\ rcv'[r].remain = rcv[r].remain + bytes /\ rcv'[r].last = last
        /\ rcv'[r].store = store
    BY <2>2, <2>3 DEF ReceiverStates
  <2>5. \A s \in UdpReceivers \ {r} : rcv'[s] = rcv[s]
    BY <2>2, <2>3
  <2>. QED
    BY <2>1, <2>4, <2>5
<1>5. rcv'[r].remain = PacketBytes(d) /\ FrontPacket(r)' = d
  BY <1>0, <1>2, <1>3, <1>4 DEF DatagramInv, FrontPacket
<1>. HIDE DEF d
<1>6. DatagramInv(r)'
  BY <1>0, <1>2, <1>4, <1>5 DEF DatagramInv
<1>7. ASSUME NEW p \in Peers PROVE Expects(r, p)' = Expects(r, p)
  <2>1. rcv[r].store = NoPeer /\ p # NoPeer
    BY <1>0, PeerAssumption DEF DatagramInv
  <2>2. Unsigned(Short(peers[r][p])) = peers[r][p]
    BY <1>0, Conversions DEF IInv, TypeOK
  <2>. QED
    BY <1>2, <1>4, <2>1, <2>2 DEF Expects
<1>. QED
  BY <1>0, <1>2, <1>4, <1>6, <1>7, SameCounts, Elsewhere

(* The number counted to is stored for the peer that was acknowledged.      *)
LEMMA IncompleteNumbers ==
  ASSUME IInv, NumberInv, NEW r \in Receivers, Incomplete(r)
  PROVE  NumberInv'
<1>1. UNCHANGED <<stream, accepted>> /\ peers' = NumberStored(r)
  BY DEF Incomplete, history
<1>2. /\ rcv[r] \in ReceiverStates /\ rcv'[r].pc = "idle" /\ rcv'[r].store = NoPeer
      /\ rcv'[r].remain = rcv[r].remain
      /\ \A s \in UdpReceivers \ {r} : rcv'[s] = rcv[s]
  BY ReceiverAssumption DEF IInv, TypeOK, Incomplete, ReceiverStates
<1>a. peers \in [UdpReceivers -> [Peers -> 0 .. 2 * HALF - 1]]
  BY DEF IInv, TypeOK
<1>b. PICK s, v :
        /\ s \in Peers \cup {NoPeer}
        /\ s = rcv[r].store /\ v = Unsigned(rcv[r].last)
        /\ peers' = IF s # NoPeer THEN [peers EXCEPT ![r][s] = v] ELSE peers
  BY <1>1, <1>2 DEF NumberStored, ReceiverStates
<1>c. \A q \in UdpReceivers \ {r} : peers'[q] = peers[q]
  BY <1>a, <1>b
<1>d. r \in UdpReceivers => \A p \in Peers :
        peers'[r][p] = IF p = s THEN v ELSE peers[r][p]
  BY <1>a, <1>b, PeerAssumption
<1>3. /\ \A q \in UdpReceivers \ {r} : peers'[q] = peers[q]
      /\ r \in UdpReceivers => \A p \in Peers :
           peers'[r][p] = IF p = rcv[r].store THEN Unsigned(rcv[r].last) ELSE peers[r][p]
  BY <1>b, <1>c, <1>d
<1>4. ASSUME r \in UdpReceivers PROVE DatagramInv(r)' /\ CountInv(r)' /\ SequenceInv(r)'
  <2>1. DatagramInv(r) /\ CountInv(r) /\ SequenceInv(r)
    BY <1>4 DEF NumberInv
  <2>2. rcv[r].remain = 0
    BY <1>2, <1>4, <2>1, WholeDatagram DEF IInv, Incomplete, ReceiverStates
  <2>3. DatagramInv(r)'
    BY <1>1, <1>2, <2>1, <2>2 DEF DatagramInv
  <2>4. \A p \in Peers : Expects(r, p)' = Expects(r, p)
    BY <1>2, <1>3, <1>4, PeerAssumption DEF Expects
  <2>. QED
    BY <1>1, <1>4, <2>1, <2>3, <2>4, SameCounts
<1>. QED
  BY <1>1, <1>2, <1>3, <1>4, Elsewhere

(* A datagram leaves the buffer; nothing is counted.                        *)
LEMMA ConsumeNumbers ==
  ASSUME IInv, NumberInv, NEW r \in Receivers, Skip(r) \/ Push(r)
  PROVE  NumberInv'
<1>1. /\ Complete(r) /\ Consume(r) /\ rcv[r] \in ReceiverStates
      /\ UNCHANGED <<stream, peers, accepted>>
  BY DEF Skip, Push, IInv, CutInv, history, TypeOK
<1>2. /\ rcv'[r].pc = "parse" /\ rcv'[r].last = rcv[r].last
      /\ rcv'[r].store = rcv[r].store
      /\ rcv'[r].remain = rcv[r].remain - PacketBytes(FrontPacket(r))
      /\ \A s \in UdpReceivers \ {r} : rcv'[s] = rcv[s]
  <2>1. rcv' = [rcv EXCEPT ![r].pc = "parse", ![r].next = rcv[r].next + 1,
                           ![r].remain = rcv[r].remain - PacketBytes(FrontPacket(r))]
    BY <1>1 DEF Consume
  <2>. QED
    BY <1>1, <2>1, ReceiverAssumption DEF IInv, TypeOK, ReceiverStates
<1>3. ASSUME r \in UdpReceivers PROVE DatagramInv(r)' /\ CountInv(r)' /\ SequenceInv(r)'
  <2>1. DatagramInv(r) /\ CountInv(r) /\ SequenceInv(r)
    BY <1>3 DEF NumberInv
  <2>2. rcv[r].remain > 0 /\ rcv[r].remain \in Nat
    BY <1>1, <1>3, <2>1, WholeDatagram DEF IInv, ReceiverStates
  <2>3. rcv'[r].remain = 0
    BY <1>2, <2>1, <2>2 DEF DatagramInv
  <2>4. DatagramInv(r)'
    BY <1>1, <1>2, <2>1, <2>3 DEF DatagramInv
  <2>5. \A p \in Peers : Expects(r, p)' = Expects(r, p)
    BY <1>1, <1>2 DEF Expects
  <2>. QED
    BY <1>1, <1>3, <2>1, <2>4, <2>5, SameCounts
<1>. QED
  BY <1>1, <1>2, <1>3, Elsewhere

(* The steps that leave the numbers and the buffer alone.                   *)
LEMMA LockNumbers ==
  ASSUME IInv, NumberInv, NEW r \in Receivers, LockR(r) \/ ReadStorageQueue(r)
  PROVE  NumberInv'
<1>1. /\ rcv[r] \in ReceiverStates /\ rcv[r].pc # "idle"
      /\ UNCHANGED <<stream, peers, accepted>>
  BY DEF LockR, ReadStorageQueue, IInv, TypeOK, history
<1>2. /\ rcv'[r].pc \in {"read", "push"} /\ rcv'[r].last = rcv[r].last
      /\ rcv'[r].store = rcv[r].store /\ rcv'[r].remain = rcv[r].remain
      /\ rcv'[r].next = rcv[r].next
      /\ \A s \in UdpReceivers \ {r} : rcv'[s] = rcv[s]
  BY <1>1, ReceiverAssumption DEF LockR, ReadStorageQueue, IInv, TypeOK, ReceiverStates
<1>3. ASSUME r \in UdpReceivers PROVE DatagramInv(r)' /\ CountInv(r)' /\ SequenceInv(r)'
  <2>1. DatagramInv(r) /\ CountInv(r) /\ SequenceInv(r)
    BY <1>3 DEF NumberInv
  <2>2. DatagramInv(r)'
    BY <1>1, <1>2, <2>1 DEF DatagramInv, FrontPacket
  <2>3. \A p \in Peers : Expects(r, p)' = Expects(r, p)
    BY <1>1, <1>2 DEF Expects
  <2>. QED
    BY <1>1, <1>3, <2>1, <2>2, <2>3, SameCounts
<1>. QED
  BY <1>1, <1>2, <1>3, Elsewhere

(* The number after a short one that is not negative.                       *)
LEMMA CountsOn ==
  ASSUME NEW m \in 0 .. HALF - 1
  PROVE  Increment16(m) \in Shorts /\ Unsigned(Increment16(m)) = m + 1
<1>1. HALF \in Nat \ {0} /\ m \in Nat /\ m < HALF
  BY PacketAssumption
<1>. QED
  BY <1>1 DEF Increment16, Shorts, Unsigned

(* What is accepted has the number of its peer's acknowledged packets.      *)
LEMMA AcceptNumbers ==
  ASSUME IInv, NumberInv, NEW r \in Receivers, Accept(r)
  PROVE  NumberInv'
<1>a. PICK d \in Data : d = FrontPacket(r)
  BY FrontPacketType DEF Accept, IInv
<1>b. PICK e \in [packet : Data, kept : BOOLEAN] :
        e = [packet |-> d, kept |-> rcv[r].store # NoPeer]
  <2>1. (rcv[r].store # NoPeer) \in BOOLEAN
    OBVIOUS
  <2>2. PICK k \in BOOLEAN : k = (rcv[r].store # NoPeer)
    BY <2>1
  <2>3. [packet |-> d, kept |-> k] \in [packet : Data, kept : BOOLEAN]
    BY <1>a
  <2>. QED
    BY <2>2, <2>3
<1>1. /\ rcv[r] \in ReceiverStates /\ Complete(r)
      /\ rcv[r].pc = "parse" /\ Number[d] = rcv[r].last
      /\ UNCHANGED <<stream, peers>>
      /\ accepted[r] \in Seq([packet : Data, kept : BOOLEAN])
      /\ accepted'[r] = Append(accepted[r], e)
      /\ \A s \in UdpReceivers \ {r} : accepted'[s] = accepted[s]
  BY <1>a, <1>b, ReceiverAssumption DEF Accept, Expected, IInv, TypeOK
<1>c. PICK Entries : Entries = [packet : Data, kept : BOOLEAN]
  OBVIOUS
<1>d. accepted[r] \in Seq(Entries) /\ e \in Entries /\ e.kept \in BOOLEAN
      /\ accepted'[r] = Append(accepted[r], e)
  BY <1>1, <1>c
<1>2. /\ rcv'[r].pc = "lock" /\ rcv'[r].store = rcv[r].store
      /\ rcv'[r].remain = rcv[r].remain /\ rcv'[r].next = rcv[r].next
      /\ r \in UdpReceivers => rcv'[r].last = Increment16(rcv[r].last)
      /\ \A s \in UdpReceivers \ {r} : rcv'[s] = rcv[s]
  BY <1>1, ReceiverAssumption DEF Accept, IInv, TypeOK, ReceiverStates
<1>3. ASSUME r \in UdpReceivers PROVE DatagramInv(r)' /\ CountInv(r)' /\ SequenceInv(r)'
  <2>1. DatagramInv(r) /\ CountInv(r) /\ SequenceInv(r)
    BY <1>3 DEF NumberInv
  <2>2. DatagramInv(r)'
    BY <1>1, <1>2, <2>1 DEF DatagramInv, FrontPacket
  <2>a. PICK n : n = Len(accepted[r])
    OBVIOUS
  <2>. DEFINE q == Peer[d]
  <2>3. /\ q \in Peers /\ q # NoPeer /\ rcv[r].store \in {NoPeer, q}
        /\ rcv[r].last = Short(peers[r][q])
        /\ peers[r][q] \in 0 .. 2 * HALF - 1
    <3>1. rcv[r].remain > 0
      BY <1>1, <1>3, <2>1, WholeDatagram DEF IInv
    <3>. QED
      BY <1>a, <1>1, <1>3, <2>1, <3>1, PeerAssumption DEF DatagramInv, IInv, TypeOK
  <2>4. rcv[r].last \in 0 .. HALF - 1 /\ Unsigned(rcv[r].last) = rcv[r].last
    <3>1. rcv[r].last \in Shorts /\ Number[d] \in 0 .. 2 * HALF - 1
      BY <1>1, PacketAssumption DEF ReceiverStates
    <3>. QED
      BY <1>1, <3>1, PacketAssumption DEF Shorts, Unsigned
  <2>5. AckCount(r, q) = rcv[r].last
    <3>1. Unsigned(Short(peers[r][q])) = peers[r][q]
      BY <2>3, Conversions
    <3>. QED
      BY <2>1, <2>3, <2>4, <3>1 DEF CountInv, Expects
  <2>7. e.packet = d /\ e.kept = (rcv[r].store # NoPeer)
    BY <1>b
  <2>8. ASSUME NEW p \in Peers
        PROVE  AckCount(r, p)' <= HALF /\ AckCount(r, p)' = Expects(r, p)'
    <3>1. AckCount(r, p)' = IF e.kept /\ q = p THEN AckCount(r, p) + 1 ELSE AckCount(r, p)
      <4>1. AckCount(r, p)' = IF e.kept /\ Peer[e.packet] = p
                                THEN AckCount(r, p) + 1 ELSE AckCount(r, p)
        BY <1>d, <2>a, OneMore
      <4>. QED
        BY <2>7, <4>1
    <3>2. AckCount(r, p) <= HALF /\ AckCount(r, p) = Expects(r, p)
      BY <2>1 DEF CountInv
    <3>3. CASE e.kept /\ q = p
      <4>1. Increment16(rcv[r].last) \in Shorts
              /\ Unsigned(Increment16(rcv[r].last)) = rcv[r].last + 1
        BY <2>4, CountsOn
      <4>2. Expects(r, p)' = Unsigned(Increment16(rcv[r].last))
        BY <1>2, <1>3, <2>3, <2>7, <3>3 DEF Expects
      <4>. QED
        BY <2>4, <2>5, <3>1, <3>3, <4>1, <4>2, PacketAssumption
    <3>4. CASE ~(e.kept /\ q = p)
      <4>1. p # rcv[r].store
        BY <2>3, <2>7, <3>4, PeerAssumption
      <4>2. Expects(r, p)' = Expects(r, p)
        BY <1>1, <1>2, <4>1 DEF Expects
      <4>. QED
        BY <3>1, <3>2, <3>4, <4>2
    <3>. QED
      BY <3>3, <3>4
  <2>6. /\ Len(accepted'[r]) = n + 1 /\ n \in Nat
        /\ \A k \in 1 .. n : accepted'[r][k] = accepted[r][k]
        /\ accepted'[r][n + 1] = e
    BY <1>d, <2>a, AppendProperties, LenProperties
  <2>b. ASSUME NEW p
        PROVE  \A k \in 0 .. n : Acknowledged(r, p, k)' = Acknowledged(r, p, k)
    BY <2>6 DEF Acknowledged
  <2>9. SequenceInv(r)'
    <3>. SUFFICES ASSUME NEW k \in 1 .. n + 1, NEW b, b = accepted'[r][k].packet
                  PROVE  Number[b] < HALF
                           /\ Number[b] = Cardinality(Acknowledged(r, Peer[b], k - 1)')
      <4>1. Len(accepted'[r]) = n + 1
        BY <2>6
      <4>. QED
        BY <4>1 DEF SequenceInv
    <3>1. /\ n \in Nat /\ accepted'[r][n + 1] = e
          /\ \A j \in 1 .. n : accepted'[r][j] = accepted[r][j]
          /\ \A j \in 0 .. n : Acknowledged(r, Peer[b], j)' = Acknowledged(r, Peer[b], j)
      BY <2>6, <2>b
    <3>2. Acknowledged(r, Peer[b], k - 1)' = Acknowledged(r, Peer[b], k - 1)
      <4>1. k - 1 \in 0 .. n
        BY <3>1
      <4>. QED
        BY <3>1, <4>1
    <3>3. CASE k \in 1 .. n
      <4>1. b = accepted[r][k].packet
        BY <3>1, <3>3
      <4>2. /\ Number[b] < HALF
            /\ Number[b] = Cardinality(Acknowledged(r, Peer[b], k - 1))
        BY <2>1, <2>a, <3>3, <4>1 DEF SequenceInv
      <4>. QED
        BY <3>2, <4>2
    <3>4. CASE k = n + 1
      <4>1. b = d /\ k - 1 = n
        BY <2>7, <3>1, <3>4
      <4>2. Cardinality(Acknowledged(r, q, n)) = rcv[r].last
        BY <2>5, <2>a DEF AckCount
      <4>3. Acknowledged(r, Peer[b], k - 1) = Acknowledged(r, q, n)
        BY <4>1
      <4>4. Number[b] = rcv[r].last /\ rcv[r].last < HALF
        <5>1. Number[d] = rcv[r].last /\ rcv[r].last \in 0 .. HALF - 1
          BY <1>1, <2>4
        <5>. QED
          BY <4>1, <5>1, PacketAssumption
      <4>. QED
        BY <3>2, <4>2, <4>3, <4>4
    <3>. QED
      BY <3>1, <3>3, <3>4
  <2>. QED
    BY <2>2, <2>8, <2>9 DEF CountInv
<1>. QED
  BY <1>1, <1>2, <1>3, Elsewhere

(* The numbers stay right with every step.                                  *)
LEMMA StepNumbers ==
  ASSUME IInv, NumberInv, [Next]_vars
  PROVE  NumberInv'
<1>1. CASE MainStep \/ UNCHANGED vars
  <2>1. UNCHANGED <<stream, rcv, peers, accepted>>
    BY <1>1 DEF MainStep, RunAgain, Pop, Process, Test, LockM, Swap, vars, history
  <2>2. \A r \in UdpReceivers : DatagramInv(r)'
    BY <2>1 DEF NumberInv, DatagramInv, FrontPacket
  <2>3. \A r \in UdpReceivers : \A p \in Peers : Expects(r, p)' = Expects(r, p)
    BY <2>1 DEF Expects
  <2>. QED
    BY <2>1, <2>2, <2>3, SameCounts DEF NumberInv
<1>2. ASSUME NEW r \in Receivers, ReceiverStep(r) \/ ReceiveFrom(r)
      PROVE  NumberInv'
  BY <1>2, ReceiveFromNumbers, IncompleteNumbers, ConsumeNumbers, LockNumbers,
     AcceptNumbers
     DEF ReceiverStep
<1>3. ASSUME NEW r \in Receivers, NEW n \in 1 .. MAX_CHUNK, Receive(r, n)
      PROVE  NumberInv'
  <2>1. r \notin UdpReceivers /\ UNCHANGED <<stream, peers, accepted>>
    BY <1>3 DEF Receive, history
  <2>2. \A s \in UdpReceivers \ {r} : rcv'[s] = rcv[s]
    BY <1>3, ReceiverAssumption DEF Receive, IInv, TypeOK
  <2>. QED
    BY <2>1, <2>2, Elsewhere
<1>. QED
  BY <1>1, <1>2, <1>3 DEF Next

(* A packet accepted over UDP carries the number of its peer's packets that *)
(* were accepted and acknowledged before, for any number of peers, any      *)
(* datagrams in any order and any failures of the acknowledgements          *)
(* (IOCP.cpp:219-227, BaseModel.cpp:63-65).                                 *)
THEOREM UdpAcceptsInSequence == Spec => []UdpSequence
<1>1. NumberInv => UdpSequence
  BY DEF NumberInv, SequenceInv, UdpSequence
<1>. QED
  BY <1>1, NumberInit, StepNumbers, Invariant, PTL DEF Spec

-----------------------------------------------------------------------------
(* Refinement of LossyFifo.                                                 *)

(* Sequences in three parts.                                                *)
LEMMA AppendRight ==
  ASSUME NEW S, NEW a \in Seq(S), NEW b \in Seq(S), NEW c \in Seq(S), NEW d \in S
  PROVE  (a \o b) \o Append(c, d) = Append((a \o b) \o c, d)
<1>1. a \o b \in Seq(S)
  BY ConcatProperties
<1>2. (a \o b) \o c \in Seq(S) /\ <<d>> \in Seq(S)
  BY <1>1, ConcatProperties
<1>3. /\ Append(c, d) = c \o <<d>>
      /\ Append((a \o b) \o c, d) = ((a \o b) \o c) \o <<d>>
  BY <1>2, AppendIsConcat
<1>. QED
  BY <1>1, <1>2, <1>3, ConcatAssociative

(* Of three parts whose left one is a single element, that element is the  *)
(* head of the whole and the other two are its tail.                       *)
LEMMA TakeLeft ==
  ASSUME NEW S, NEW d \in S, NEW b \in Seq(S), NEW c \in Seq(S),
         NEW s, s = (<<d>> \o b) \o c
  PROVE  s # << >> /\ Head(s) = d /\ Tail(s) = (<< >> \o b) \o c
<1>1. <<d>> \in Seq(S) /\ Len(<<d>>) = 1 /\ <<d>>[1] = d
  OBVIOUS
<1>. DEFINE r == b \o c
<1>2. s = <<d>> \o r /\ (<< >> \o b) \o c = r /\ r \in Seq(S)
  BY <1>1, ConcatAssociative, ConcatEmptySeq, ConcatProperties
<1>3. /\ s \in Seq(S) /\ Len(s) = 1 + Len(r) /\ Len(r) \in Nat
      /\ \A i \in 1 .. 1 + Len(r) : s[i] = IF i <= 1 THEN d ELSE r[i - 1]
  <2>. HIDE DEF r
  <2>1. /\ Len(<<d>> \o r) = Len(<<d>>) + Len(r) /\ <<d>> \o r \in Seq(S)
        /\ \A i \in 1 .. Len(<<d>>) + Len(r) :
             (<<d>> \o r)[i] = IF i <= Len(<<d>>) THEN <<d>>[i]
                                                ELSE r[i - Len(<<d>>)]
    BY <1>1, <1>2, ConcatProperties
  <2>. QED
    BY <1>1, <1>2, <2>1, LenProperties
<1>4. s # << >> /\ Head(s) = d
  BY <1>3, EmptySeq
<1>5. /\ Tail(s) \in Seq(S) /\ Len(Tail(s)) = Len(r)
      /\ \A i \in 1 .. Len(Tail(s)) : Tail(s)[i] = s[i + 1]
  <2>. HIDE DEF r
  <2>. QED
    BY <1>3, <1>4, HeadTailProperties
<1>6. \A i \in 1 .. Len(Tail(s)) : Tail(s)[i] = r[i]
  <2>. HIDE DEF r
  <2>. SUFFICES ASSUME NEW i \in 1 .. Len(r) PROVE Tail(s)[i] = r[i]
    BY <1>5
  <2>. i + 1 \in 1 .. 1 + Len(r) /\ ~(i + 1 <= 1) /\ (i + 1) - 1 = i
    BY <1>3
  <2>. QED
    BY <1>3, <1>5
<1>7. Tail(s) = r
  <2>. HIDE DEF r
  <2>. QED
    BY <1>2, <1>5, <1>6, SeqEqual
<1>. QED
  BY <1>2, <1>4, <1>7

(* A non-empty sequence is its head followed by its tail.                  *)
LEMMA HeadThenTail ==
  ASSUME NEW S, NEW b \in Seq(S), b # << >>
  PROVE  <<Head(b)>> \o Tail(b) = b
<1>1. /\ Head(b) \in S /\ Tail(b) \in Seq(S) /\ Len(Tail(b)) = Len(b) - 1
      /\ \A i \in 1 .. Len(Tail(b)) : Tail(b)[i] = b[i + 1]
  BY HeadTailProperties
<1>2. Len(b) \in Nat \ {0} /\ Head(b) = b[1]
  BY EmptySeq
<1>. DEFINE h == <<Head(b)>>
<1>3. h \in Seq(S) /\ Len(h) = 1 /\ h[1] = b[1]
  BY <1>1, <1>2
<1>. HIDE DEF h
<1>4. /\ h \o Tail(b) \in Seq(S) /\ Len(h \o Tail(b)) = Len(b)
      /\ \A i \in 1 .. Len(b) :
           (h \o Tail(b))[i] = IF i <= 1 THEN h[i] ELSE Tail(b)[i - 1]
  <2>. DEFINE t == Tail(b)
  <2>1. t \in Seq(S) /\ Len(t) = Len(b) - 1
    BY <1>1
  <2>. HIDE DEF t
  <2>2. /\ h \o t \in Seq(S) /\ Len(h \o t) = Len(h) + Len(t)
        /\ \A i \in 1 .. Len(h) + Len(t) :
             (h \o t)[i] = IF i <= Len(h) THEN h[i] ELSE t[i - Len(h)]
    BY <1>3, <2>1, ConcatProperties
  <2>3. /\ h \o t \in Seq(S) /\ Len(h \o t) = Len(b)
        /\ \A i \in 1 .. Len(b) : (h \o t)[i] = IF i <= 1 THEN h[i] ELSE t[i - 1]
    BY <1>2, <1>3, <2>1, <2>2
  <2>. QED
    BY <2>3 DEF t
<1>5. \A i \in 1 .. Len(h \o Tail(b)) : (h \o Tail(b))[i] = b[i]
  <2>. SUFFICES ASSUME NEW i \in 1 .. Len(b) PROVE (h \o Tail(b))[i] = b[i]
    BY <1>4
  <2>1. CASE i = 1
    BY <1>2, <1>3, <1>4, <2>1
  <2>2. CASE i > 1
    <3>1. i - 1 \in 1 .. Len(Tail(b)) /\ (i - 1) + 1 = i
      BY <1>1, <1>2, <2>2
    <3>. QED
      BY <1>1, <1>4, <2>2, <3>1
  <2>3. i = 1 \/ i > 1
    <3>1. Len(b) \in Nat
      BY <1>2
    <3>. QED
      BY <3>1
  <2>. QED
    BY <2>1, <2>2, <2>3
<1>6. h \o Tail(b) = b
  BY <1>4, <1>5, SeqEqual
<1>. QED
  BY <1>6 DEF h

Current == IF run.cur = Null THEN << >> ELSE <<run.cur>>

(* The three parts of the pending packets are sequences of packets.        *)
LEMMA PartsType ==
  ASSUME IInv
  PROVE  /\ Current \in Seq(Data)
         /\ \A o \in Objects : /\ ring[o] \in Queue /\ WellFormed(ring[o])
                               /\ Contents(ring[o]) \in Seq(Data)
                               /\ Len(Contents(ring[o])) = Count(ring[o])
         /\ Pending = (Current \o Contents(ring[procQ])) \o Contents(ring[storeQ])
         /\ procQ \in Objects /\ storeQ \in Objects
<1>1. Current \in Seq(Data)
  BY EmptySeq DEF IInv, TypeOK, Current
<1>. QED
  BY <1>1, ContentsType DEF IInv, TypeOK, RunInv, Pending, Current

(* A push on the storage queue offers the packet, or loses it when a       *)
(* whole queue waits.                                                      *)
LEMMA PushRefines ==
  ASSUME IInv, NEW r \in Receivers, Push(r)
  PROVE  \E d \in Data : Lossy!Offer(d) \/ Lossy!Lose(d)
<1>. DEFINE d == FrontPacket(r)
<1>1. d \in Data
  BY FrontPacketType DEF IInv, CutInv, Push
<1>2. rcv[r].target = storeQ /\ storeQ # procQ /\ storeQ \in Objects
  BY DEF IInv, TypeOK, LockInv, Push
<1>. HIDE DEF d
<1>3. CASE IsFull(ring[storeQ])
  <2>1. Len(Contents(ring[storeQ])) = Capacity
    BY <1>2, <1>3, PartsType, CountValue
  <2>2. Len(Pending) = Len(Current \o Contents(ring[procQ])) + Capacity
    BY <2>1, PartsType, ConcatProperties
  <2>3. Len(Current \o Contents(ring[procQ])) \in Nat
    BY PartsType, ConcatProperties, LenProperties
  <2>4. Len(Pending) >= Capacity
    BY <2>2, <2>3, QueueLengthAssumption DEF Capacity
  <2>5. Pending' = Pending
    BY <1>2, <1>3 DEF Push, roles, Pending
  <2>. QED
    BY <1>1, <1>2, <1>3, <2>4, <2>5 DEF Push, Lossy!Lose, d
<1>4. CASE ~IsFull(ring[storeQ])
  <2>1. ring' = [ring EXCEPT ![storeQ] = Pushed(@, d)]
    BY <1>2, <1>4 DEF Push, d
  <2>2. Contents(Pushed(ring[storeQ], d)) = Append(Contents(ring[storeQ]), d)
    BY <1>1, <1>2, <1>4, PartsType, PushedContents
  <2>3. ring'[storeQ] = Pushed(ring[storeQ], d) /\ ring'[procQ] = ring[procQ]
    BY <1>2, <2>1 DEF IInv, TypeOK
  <2>4. UNCHANGED <<run, procQ, storeQ, handled>>
    BY DEF Push, roles
  <2>5. Pending' = (Current \o Contents(ring[procQ]))
                     \o Append(Contents(ring[storeQ]), d)
    BY <2>2, <2>3, <2>4 DEF Pending, Current
  <2>6. Pending' = Append(Pending, d)
    <3>1. /\ Current \in Seq(Data)
          /\ Contents(ring[procQ]) \in Seq(Data)
          /\ Contents(ring[storeQ]) \in Seq(Data)
      BY <1>2, PartsType DEF IInv, TypeOK
    <3>2. (Current \o Contents(ring[procQ])) \o Append(Contents(ring[storeQ]), d)
            = Append((Current \o Contents(ring[procQ]))
                       \o Contents(ring[storeQ]), d)
      BY <1>1, <3>1, AppendRight
    <3>. QED
      BY <2>5, <3>2, PartsType
  <2>. QED
    BY <1>1, <1>2, <1>4, <2>4, <2>6 DEF Push, Lossy!Offer
<1>. QED
  BY <1>3, <1>4

(* A pop of the process queue moves a packet to the main thread: pending   *)
(* packets stay the same.                                                  *)
LEMMA PopRefines ==
  ASSUME IInv, Pop
  PROVE  UNCHANGED <<Pending, handled, lost>>
<1>1. UNCHANGED <<procQ, storeQ, handled, lost>> /\ run.cur = Null
  BY DEF IInv, RunInv, Pop, roles, history
<1>2. CASE IsEmpty(ring[procQ])
  <2>1. run'.cur = run.cur /\ ring' = ring
    BY <1>2 DEF IInv, TypeOK, Pop
  <2>. QED
    BY <1>1, <2>1 DEF Pending
<1>3. CASE ~IsEmpty(ring[procQ])
  <2>. DEFINE c == Contents(ring[procQ])
  <2>1. /\ FrontElement(ring[procQ]) \in Data
        /\ FrontElement(ring[procQ]) = Head(c)
        /\ Contents(Popped(ring[procQ])) = Tail(c)
        /\ c # << >> /\ c \in Seq(Data)
    BY <1>3, PartsType, PoppedContents, EmptyContents
  <2>2. run'.cur = Head(c) /\ ring' = [ring EXCEPT ![procQ] = Popped(@)]
    BY <1>3, <2>1 DEF IInv, TypeOK, Pop
  <2>3. ring'[procQ] = Popped(ring[procQ]) /\ ring'[storeQ] = ring[storeQ]
    BY <2>2 DEF IInv, TypeOK, LockInv
  <2>. HIDE DEF c
  <2>4. Pending' = (<<Head(c)>> \o Tail(c)) \o Contents(ring[storeQ])
    BY <1>1, <2>1, <2>2, <2>3, NullAssumption DEF Pending, c
  <2>5. Pending = (<< >> \o c) \o Contents(ring[storeQ])
    BY <1>1 DEF Pending, c
  <2>6. <<Head(c)>> \o Tail(c) = c /\ << >> \o c = c
    BY <2>1, HeadThenTail, ConcatEmptySeq
  <2>. QED
    BY <1>1, <2>4, <2>5, <2>6
<1>. QED
  BY <1>2, <1>3

(* The call of the processor handles the oldest pending packet.            *)
LEMMA ProcessRefines ==
  ASSUME IInv, Process
  PROVE  Lossy!Handle
<1>1. run.cur \in Data /\ run.cur # Null
  BY DEF IInv, TypeOK, RunInv, Process
<1>2. UNCHANGED <<ring, procQ, storeQ, lost>> /\ run'.cur = Null
  BY DEF Process, roles
<1>. DEFINE b == Contents(ring[procQ])
            c == Contents(ring[storeQ])
<1>3. b \in Seq(Data) /\ c \in Seq(Data)
  BY PartsType
<1>4. Pending = (<<run.cur>> \o b) \o c /\ Pending' = (<< >> \o b) \o c
  BY <1>1, <1>2 DEF Pending
<1>. HIDE DEF b, c
<1>5. Pending # << >> /\ Head(Pending) = run.cur /\ Tail(Pending) = Pending'
  BY <1>1, <1>3, <1>4, TakeLeft
<1>. QED
  BY <1>2, <1>5 DEF Process, Lossy!Handle

(* The swap of the two queues changes nothing of what is pending.          *)
LEMMA SwapRefines ==
  ASSUME IInv, Swap
  PROVE  UNCHANGED <<Pending, handled, lost>>
<1>1. run.cur = Null /\ run'.cur = Null /\ IsEmpty(ring[procQ])
  BY DEF IInv, TypeOK, RunInv, Swap
<1>2. procQ' = storeQ /\ storeQ' = procQ /\ UNCHANGED <<ring, handled, lost>>
  BY DEF Swap, history
<1>3. Contents(ring[procQ]) = << >>
  BY <1>1, PartsType, EmptyContents
<1>. DEFINE c == Contents(ring[storeQ])
<1>4. c \in Seq(Data)
  BY PartsType
<1>5. Pending = (<< >> \o << >>) \o c /\ Pending' = (<< >> \o c) \o << >>
  BY <1>1, <1>2, <1>3 DEF Pending
<1>. HIDE DEF c
<1>6. (<< >> \o << >>) \o c = c /\ (<< >> \o c) \o << >> = c
  BY <1>4, ConcatEmptySeq, EmptySeq
<1>. QED
  BY <1>2, <1>5, <1>6

(* The two queues together deliver as one FIFO that loses a packet only     *)
(* when a whole queue of packets waits (BaseModel.cpp:29-41, 70).           *)
THEOREM DeliveryIsInOrder == Spec => InOrderDelivery
<1>1. Init => Lossy!LossyInit
  <2>. SUFFICES ASSUME Init PROVE Lossy!LossyInit
    OBVIOUS
  <2>1. Pending = (<< >> \o << >>) \o << >>
    BY NewQueueEmpty DEF Init, Pending, Objects
  <2>2. (<< >> \o << >>) \o << >> = << >>
    BY ConcatEmptySeq, EmptySeq
  <2>. QED
    BY <2>1, <2>2 DEF Init, Lossy!LossyInit
<1>2. IInv /\ [Next]_vars => [Lossy!LossyNext]_(Lossy!lossyVars)
  <2>. SUFFICES ASSUME IInv, [Next]_vars
                PROVE  [Lossy!LossyNext]_(Lossy!lossyVars)
    OBVIOUS
  <2>. USE DEF Lossy!LossyNext, Lossy!lossyVars
  <2>1. CASE UNCHANGED vars
    BY <2>1 DEF vars, roles, history, Pending
  <2>2. CASE RunAgain \/ Test \/ LockM
    BY <2>2 DEF RunAgain, Test, LockM, roles, history, Pending, IInv, TypeOK
  <2>3. CASE Pop \/ Swap
    BY <2>3, PopRefines, SwapRefines
  <2>4. CASE Process
    BY <2>4, ProcessRefines
  <2>5. ASSUME NEW r \in Receivers, Push(r)
        PROVE  [Lossy!LossyNext]_(Lossy!lossyVars)
    BY <2>5, PushRefines
  <2>6. ASSUME NEW r \in Receivers,
               \/ Incomplete(r) \/ Skip(r) \/ Accept(r)
               \/ LockR(r) \/ ReadStorageQueue(r)
        PROVE  [Lossy!LossyNext]_(Lossy!lossyVars)
    BY <2>6 DEF Incomplete, Skip, Accept, LockR, ReadStorageQueue, roles,
                history, Pending
  <2>7. ASSUME NEW r \in Receivers, NEW n \in 1 .. MAX_CHUNK, Receive(r, n)
        PROVE  [Lossy!LossyNext]_(Lossy!lossyVars)
    BY <2>7 DEF Receive, roles, history, Pending
  <2>8. ASSUME NEW r \in Receivers, ReceiveFrom(r)
        PROVE  [Lossy!LossyNext]_(Lossy!lossyVars)
    BY <2>8 DEF ReceiveFrom, roles, history, Pending
  <2>. QED
    BY <2>1, <2>2, <2>3, <2>4, <2>5, <2>6, <2>7, <2>8
       DEF Next, MainStep, ReceiverStep
<1>. QED
  BY <1>1, <1>2, Invariant, PTL DEF Spec, InOrderDelivery, Lossy!LossySpec
=============================================================================
