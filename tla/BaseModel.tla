------------------------------ MODULE BaseModel ------------------------------
(***************************************************************************)
(* NetworkModel/BaseModel: the packet pipeline shared by the IOCP server   *)
(* and the EventSelect client. Receiver threads collect bytes, cut packets *)
(* out of them (ReceiveDataProcessing) and push them on the storage queue; *)
(* the main thread (Run) pops the process queue and calls the processors,  *)
(* and swaps the two queues when it runs dry.                              *)
(*                                                                         *)
(* A queue operation is one step here: CircularQueue is linearizable. The  *)
(* bytes of a packet are abstracted to their number: a header of           *)
(* HEADER_SIZE and Size[d] bytes of payload.                               *)
(*                                                                         *)
(* TCP delivers a stream of bytes, in reads of any length. The server's    *)
(* UDP socket delivers datagrams of any of its peers, one packet in each,  *)
(* lost, repeated and reordered as Streams says; the header by which an    *)
(* acknowledgement is asked for is not counted. Without a payload a packet *)
(* would be left in the buffer, where the next datagram's CheckAck would   *)
(* take it for that header: here UDP packets have one.                     *)
(***************************************************************************)
EXTENDS RingQueue, FiniteSets, SequencesExt

CONSTANTS
  Receivers,     (* One per socket with a pending read.                     *)
  UdpReceivers,  (* Those that call with EPT_UDP: the server's UDP socket.  *)
  Peers,         (* Remote addresses, each with its CONNECTION.             *)
  NoPeer,
  Main,          (* The thread that calls Run.                              *)
  Streams,       (* Streams[r]: the packet sequences that may reach r.      *)
  Peer,          (* Peer[d]: who sent the packet.                           *)
  Number,        (* Number[d]: m_iPacketNumber, an unsigned 16 bit field.   *)
  Size,          (* Size[d]: m_iPacketDataSize.                             *)
  Known,         (* The packets whose m_iPacketType has a processor.        *)
  HEADER_SIZE,   (* sizeof(PACKET_INFORMATION): 5.                          *)
  MAX_CHUNK,     (* The most bytes one read delivers.                       *)
  HALF,          (* 2^15: int16_t is -HALF .. HALF-1.                       *)
  LOOP_COUNT,    (* m_iPacketProcessorLoopCount.                            *)
  NoOwner

ASSUME ReceiverAssumption ==
  UdpReceivers \subseteq Receivers /\ Main \notin Receivers

ASSUME PacketAssumption ==
  /\ HALF \in Nat \ {0}
  /\ Number \in [Data -> 0 .. 2 * HALF - 1]
  /\ Size \in [Data -> Nat]
  /\ Known \subseteq Data
  /\ \A r \in Receivers : Streams[r] \subseteq Seq(Data)
  /\ \A r \in UdpReceivers : \A s \in Streams[r] :
       \A k \in 1 .. Len(s) : Size[s[k]] > 0

ASSUME PeerAssumption == Peer \in [Data -> Peers] /\ NoPeer \notin Peers

ASSUME BoundsAssumption ==
  /\ HEADER_SIZE \in Nat \ {0} /\ MAX_CHUNK \in Nat \ {0}
  /\ LOOP_COUNT \in Nat \ {0}

ASSUME OwnerAssumption == NoOwner \notin Receivers \cup {Main}

VARIABLES
  stream,    (* What reaches each receiver, in order.                       *)
  rcv,       (* Each receiver's place in ReceiveDataProcessing (pc), packets *)
             (* cut out so far (next), bytes in its buffer (remain), the     *)
             (* packet number expected (last), the peer whose number is      *)
             (* stored afterwards (store), and the queue it read (target).   *)
  peers,     (* m_peerInformation.m_iLastPacketNumber of each UDP peer.     *)
  ring,      (* The two queue objects, and their                            *)
  csOn,      (* m_bIsEnableCriticalSection.                                 *)
  procQ,     (* m_pPacketProcessQueue.                                      *)
  storeQ,    (* m_pPacketStorageQueue.                                      *)
  owner,     (* Who holds m_packetQueueLock.                                *)
  run,       (* Run's place (pc), counter i (loop) and pPacketData (cur).   *)
  accepted,  (* History: the packets each receiver cut out and accepted,    *)
             (* and whether the next number is kept for their peer.         *)
  handled,   (* History: the packets the processors were called with.       *)
  lost       (* History: the packets a full storage queue dropped.          *)

roles == <<csOn, procQ, storeQ>>
history == <<accepted, handled, lost>>
vars == <<stream, rcv, peers, ring, roles, owner, run, history>>

Objects == {"A", "B"}

Pending ==
  (IF run.cur = Null THEN << >> ELSE <<run.cur>>)
    \o Contents(ring[procQ]) \o Contents(ring[storeQ])

Lossy == INSTANCE LossyFifo WITH pending <- Pending

Init ==
  /\ stream \in [Receivers -> UNION {Streams[r] : r \in Receivers}]
  /\ \A r \in Receivers : stream[r] \in Streams[r]
  /\ rcv = [r \in Receivers |-> [pc |-> "idle", next |-> 0, remain |-> 0,
                                 last |-> 0, store |-> NoPeer, target |-> "B"]]
  /\ peers = [r \in UdpReceivers |-> [p \in Peers |-> 0]]
  /\ ring = [o \in Objects |-> NewQueue]
  /\ csOn = [o \in Objects |-> TRUE]
  /\ procQ = "A" /\ storeQ = "B"
  /\ owner = NoOwner
  /\ run = [pc |-> "pop", loop |-> 0, cur |-> Null]
  /\ accepted = [r \in Receivers |-> << >>]
  /\ handled = << >> /\ lost = {}

-----------------------------------------------------------------------------
(* Receiving bytes and cutting packets out of them.                         *)

PacketBytes(d) == HEADER_SIZE + Size[d]

(* The bytes from the front of r's buffer to the end of its stream.         *)
Unread(r) ==
  FoldSeq(LAMBDA d, n : PacketBytes(d) + n, 0,
          SubSeq(stream[r], rcv[r].next + 1, Len(stream[r])))

(* A read of TCP completes with n bytes; its handler calls                  *)
(* ReceiveDataProcessing.                                                   *)
Receive(r, n) ==
  /\ r \notin UdpReceivers
  /\ rcv[r].pc = "idle"
  /\ rcv[r].remain + n <= Unread(r)
  /\ rcv' = [rcv EXCEPT ![r].pc = "parse", ![r].remain = @ + n]
  /\ UNCHANGED <<stream, peers, ring, roles, owner, run, history>>

(* The number field is unsigned, the variable that counts is not.           *)
Short(n) == IF n < HALF THEN n ELSE n - 2 * HALF
Unsigned(n) == IF n >= 0 THEN n ELSE n + 2 * HALF

FrontPacket(r) == stream[r][rcv[r].next + 1]

(* A datagram comes, and with it the number of its peer. Whether the next   *)
(* number will be stored for the peer is decided before the packet is       *)
(* looked at: bEnableUDPAckCheck is set, the peer has asked for an          *)
(* acknowledgement, and CheckAck has sent it.                               *)
ReceiveFrom(r) ==
  /\ r \in UdpReceivers
  /\ rcv[r].pc = "idle" /\ rcv[r].next < Len(stream[r])
  /\ LET d == FrontPacket(r)
     IN  \E acknowledged \in BOOLEAN :
           rcv' = [rcv EXCEPT ![r].pc = "parse", ![r].remain = @ + PacketBytes(d),
                              ![r].last = Short(peers[r][Peer[d]]),
                              ![r].store = IF acknowledged THEN Peer[d] ELSE NoPeer]
  /\ UNCHANGED <<stream, peers, ring, roles, owner, run, history>>

(* A packet can be cut out: more than a header has come, and its payload.   *)
Complete(r) ==
  /\ rcv[r].next < Len(stream[r])
  /\ rcv[r].remain > HEADER_SIZE
  /\ rcv[r].remain - HEADER_SIZE >= Size[FrontPacket(r)]

(* Defect: a packet from further on is accepted too.                        *)
ExpectedOrLater(r) == Number[FrontPacket(r)] >= rcv[r].last

Expected(r) == Number[FrontPacket(r)] = rcv[r].last

(* Defect: the number is stored whether or not it was acknowledged.         *)
NumberStoredAnyway(r) ==
  LET p == Peer[stream[r][rcv[r].next]]
  IN  IF r \in UdpReceivers THEN [peers EXCEPT ![r][p] = Unsigned(rcv[r].last)] ELSE peers

NumberStored(r) ==
  IF rcv[r].store # NoPeer
    THEN [peers EXCEPT ![r][rcv[r].store] = Unsigned(rcv[r].last)]
    ELSE peers

(* The break of the loop: the caller stores the number it has counted to    *)
(* and posts the next read.                                                 *)
Incomplete(r) ==
  /\ rcv[r].pc = "parse" /\ ~Complete(r)
  /\ rcv' = [rcv EXCEPT ![r].pc = "idle", ![r].store = NoPeer]
  /\ peers' = NumberStored(r)
  /\ UNCHANGED <<stream, ring, roles, owner, run, history>>

(* iReceiveBytes -= iPacketTotalBytes, the MoveMemory, the next iteration.  *)
Consume(r) ==
  rcv' = [rcv EXCEPT ![r].pc = "parse", ![r].next = @ + 1,
                     ![r].remain = @ - PacketBytes(FrontPacket(r))]

(* A packet with another number is consumed and forgotten.                  *)
Skip(r) ==
  /\ rcv[r].pc = "parse" /\ Complete(r) /\ ~Expected(r)
  /\ Consume(r)
  /\ UNCHANGED <<stream, peers, ring, roles, owner, run, history>>

(* InterlockedIncrement16 on a signed 16 bit variable.                      *)
Increment16(n) == IF n = HALF - 1 THEN -HALF ELSE n + 1

Accept(r) ==
  /\ rcv[r].pc = "parse" /\ Complete(r) /\ Expected(r)
  /\ rcv' = [rcv EXCEPT ![r].pc = "lock",
               ![r].last = IF r \in UdpReceivers THEN Increment16(@) ELSE @]
  /\ accepted' = [accepted EXCEPT ![r] =
                    Append(@, [packet |-> FrontPacket(r), kept |-> rcv[r].store # NoPeer])]
  /\ UNCHANGED <<stream, peers, ring, roles, owner, run, handled, lost>>

(* Defect: the receiver does not wait for the packet queue lock.            *)
LockRNoWait(r) ==
  /\ rcv[r].pc = "lock"
  /\ owner' = r
  /\ rcv' = [rcv EXCEPT ![r].pc = "read"]
  /\ UNCHANGED <<stream, peers, ring, roles, run, history>>

LockR(r) ==
  /\ rcv[r].pc = "lock"
  /\ owner = NoOwner
  /\ owner' = r
  /\ rcv' = [rcv EXCEPT ![r].pc = "read"]
  /\ UNCHANGED <<stream, peers, ring, roles, run, history>>

ReadStorageQueue(r) ==
  /\ rcv[r].pc = "read"
  /\ rcv' = [rcv EXCEPT ![r].pc = "push", ![r].target = storeQ]
  /\ UNCHANGED <<stream, peers, ring, roles, owner, run, history>>

(* Push, and the guard's destructor. What Push returns is ignored: on a     *)
(* full queue the packet is dropped (and its memory leaked).                *)
Push(r) ==
  /\ rcv[r].pc = "push"
  /\ LET o == rcv[r].target
     IN  IF IsFull(ring[o])
           THEN lost' = lost \cup {FrontPacket(r)} /\ UNCHANGED ring
           ELSE /\ ring' = [ring EXCEPT ![o] = Pushed(@, FrontPacket(r))]
                /\ UNCHANGED lost
  /\ owner' = NoOwner
  /\ Consume(r)
  /\ UNCHANGED <<stream, peers, roles, run, accepted, handled>>

ReceiverStep(r) ==
  \/ Incomplete(r) \/ Skip(r) \/ Accept(r)
  \/ LockR(r) \/ ReadStorageQueue(r) \/ Push(r)

-----------------------------------------------------------------------------
(* Run, which the main loop calls again and again.                          *)

(* The loop has been round LOOP_COUNT times: Run returns, and is called.    *)
RunAgain ==
  /\ run.pc = "pop" /\ run.loop = LOOP_COUNT
  /\ run' = [run EXCEPT !.loop = 0]
  /\ UNCHANGED <<stream, rcv, peers, ring, roles, owner, history>>

Pop ==
  /\ run.pc = "pop" /\ run.loop < LOOP_COUNT
  /\ IF IsEmpty(ring[procQ])
       THEN run' = [run EXCEPT !.pc = "test"] /\ UNCHANGED ring
       ELSE /\ run' = [run EXCEPT !.pc = "process",
                                  !.cur = FrontElement(ring[procQ])]
            /\ ring' = [ring EXCEPT ![procQ] = Popped(@)]
  /\ UNCHANGED <<stream, rcv, peers, roles, owner, history>>

(* Find the processor, call it if there is one, delete the packet.          *)
Process ==
  /\ run.pc = "process"
  /\ handled' = IF run.cur \in Known THEN Append(handled, run.cur) ELSE handled
  /\ run' = [pc |-> "pop", loop |-> run.loop + 1, cur |-> Null]
  /\ UNCHANGED <<stream, rcv, peers, ring, roles, owner, accepted, lost>>

(* Defect: the test has the two queues the wrong way round.                 *)
NeedsSwapMixedUp == IsEmpty(ring[storeQ]) /\ ~IsEmpty(ring[procQ])

(* Neither queue is looked at under m_packetQueueLock.                      *)
NeedsSwap == IsEmpty(ring[procQ]) /\ ~IsEmpty(ring[storeQ])

Test ==
  /\ run.pc = "test"
  /\ run' = IF NeedsSwap THEN [run EXCEPT !.pc = "lock"]
                         ELSE [run EXCEPT !.pc = "pop", !.loop = @ + 1]
  /\ UNCHANGED <<stream, rcv, peers, ring, roles, owner, history>>

(* Defect: the main thread swaps without waiting for the lock.              *)
LockMNoWait ==
  /\ run.pc = "lock"
  /\ owner' = Main
  /\ run' = [run EXCEPT !.pc = "swap"]
  /\ UNCHANGED <<stream, rcv, peers, ring, roles, history>>

LockM ==
  /\ run.pc = "lock"
  /\ owner = NoOwner
  /\ owner' = Main
  /\ run' = [run EXCEPT !.pc = "swap"]
  /\ UNCHANGED <<stream, rcv, peers, ring, roles, history>>

(* The swap, the two flags, and the guard's destructor.                     *)
Swap ==
  /\ run.pc = "swap"
  /\ procQ' = storeQ /\ storeQ' = procQ
  /\ csOn' = [csOn EXCEPT ![procQ'] = FALSE, ![storeQ'] = TRUE]
  /\ owner' = NoOwner
  /\ run' = [run EXCEPT !.pc = "pop", !.loop = @ + 1]
  /\ UNCHANGED <<stream, rcv, peers, ring, history>>

MainStep == RunAgain \/ Pop \/ Process \/ Test \/ LockM \/ Swap

-----------------------------------------------------------------------------
Next ==
  \/ MainStep
  \/ \E r \in Receivers :
       ReceiverStep(r) \/ ReceiveFrom(r) \/ \E n \in 1 .. MAX_CHUNK : Receive(r, n)

Spec == Init /\ [][Next]_vars

(* Run is called in an endless loop and a handler that has begun goes on;   *)
(* nothing obliges a peer to send.                                          *)
FairSpec ==
  /\ Spec
  /\ WF_vars(MainStep)
  /\ \A r \in Receivers : WF_vars(ReceiverStep(r))

-----------------------------------------------------------------------------
(* Properties.                                                              *)

Shorts == -HALF .. HALF - 1

ReceiverStates ==
  [pc : {"idle", "parse", "lock", "read", "push"}, next : Nat, remain : Nat,
   last : Shorts, store : Peers \cup {NoPeer}, target : Objects]

(* The range of every variable.                                             *)
TypeOK ==
  /\ stream \in [Receivers -> Seq(Data)]
  /\ rcv \in [Receivers -> ReceiverStates]
  /\ peers \in [UdpReceivers -> [Peers -> 0 .. 2 * HALF - 1]]
  /\ ring \in [Objects -> Queue]
  /\ csOn \in [Objects -> BOOLEAN]
  /\ procQ \in Objects /\ storeQ \in Objects
  /\ owner \in Receivers \cup {Main, NoOwner}
  /\ run \in [pc : {"pop", "process", "test", "lock", "swap"},
              loop : 0 .. LOOP_COUNT, cur : Data \cup {Null}]
  /\ accepted \in [Receivers -> Seq([packet : Data, kept : BOOLEAN])]
  /\ handled \in Seq(Known)
  /\ lost \in SUBSET Data

(* The process queue is reached by the main thread only, as the comment at  *)
(* BaseModel.cpp:43 says, which is why its critical section is switched     *)
(* off: at the moment a receiver pushes, the object it pushes to is not the *)
(* process queue, and has its critical section on.                          *)
ProcessQueueIsPrivate ==
  \A r \in Receivers :
    rcv[r].pc = "push" => rcv[r].target # procQ /\ csOn[rcv[r].target]

(* The processors see the packets of all receivers in the order they were   *)
(* queued, each once, across every swap of the two queues; a packet is lost *)
(* only when a whole queue of packets waits (BaseModel.cpp:29-41, 70).      *)
InOrderDelivery == Lossy!LossySpec

(* The packets among the first n accepted by r for which p got its          *)
(* acknowledgement.                                                         *)
Acknowledged(r, p, n) ==
  {j \in 1 .. n : accepted[r][j].kept /\ Peer[accepted[r][j].packet] = p}

(* A packet accepted over UDP carries the number of its peer's packets that *)
(* were accepted and acknowledged before: the acknowledged ones are         *)
(* numbered 0, 1, 2, ... per peer without a gap or a repetition, and a      *)
(* packet is accepted twice only while its acknowledgement has not been     *)
(* sent, whatever other peers send in between. The number expected next is  *)
(* signed, the field is not: a peer is heard for HALF packets and no more   *)
(* (IOCP.cpp:219-227, BaseModel.cpp:63-65).                                 *)
UdpSequence ==
  \A r \in UdpReceivers : \A k \in 1 .. Len(accepted[r]) :
    LET d == accepted[r][k].packet
    IN  /\ Number[d] < HALF
        /\ Number[d] = Cardinality(Acknowledged(r, Peer[d], k - 1))

(* A packet that was accepted is handled, unless it is of an unknown type   *)
(* or was dropped by a full queue.                                          *)
AcceptedIsHandled ==
  \A d \in Known :
    (\E r \in Receivers : \E k \in 1 .. Len(accepted[r]) : accepted[r][k].packet = d)
      ~> (d \in lost \/ \E k \in 1 .. Len(handled) : handled[k] = d)

(* "Check whether as much as the packet header was received, and if so take *)
(* the header" (BaseModel.cpp:57): when ReceiveDataProcessing returns, no   *)
(* header whose whole packet has come is left in the buffer.                *)
NoPacketLeftBehind ==
  \A r \in Receivers :
    rcv[r].pc = "idle" /\ rcv[r].next < Len(stream[r])
      => rcv[r].remain < PacketBytes(FrontPacket(r))
=============================================================================
