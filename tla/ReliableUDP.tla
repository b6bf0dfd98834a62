----------------------------- MODULE ReliableUDP -----------------------------
(***************************************************************************)
(* Network/NetworkProtocol/UDPSocket: the stop-and-wait protocol between a *)
(* client that sends (EventSelect's SendTo, the two threads of ReliableUDP *)
(* and the UDP thread that takes the acknowledgements) and the server that *)
(* receives (IOCP's OnIOReceiveFrom, CheckAck, ReceiveDataProcessing).     *)
(*                                                                         *)
(* The network keeps every datagram it was given: it may deliver it late,  *)
(* more than once, or never. A condition variable may wake its waiter for  *)
(* no reason. Nothing is said of the program after it has freed or read a  *)
(* packet that was freed: a thread that does so goes to "crashed".         *)
(* A packet has a payload: see BaseModel for those that have none. The     *)
(* server was told to acknowledge (EnableAckCheck(true), off by default:   *)
(* IOCP.cpp:8, 221); BaseModel has what it accepts when it was not.        *)
(***************************************************************************)
EXTENDS RingQueue

CONSTANTS
  Packets,       (* The packets the application sends, in order.            *)
  REPEAT,        (* REPEAT_COUNT_FOR_RELIABLE_SEND: 12.                     *)
  HALF,          (* 2^15: int16_t is -HALF .. HALF-1.                       *)
  MAX_FAILURES   (* How often WSASendTo may fail to take an acknowledgement.*)

ASSUME PacketsAssumption ==
  /\ Packets \in Seq(Data)
  /\ \A i, j \in 1 .. Len(Packets) : Packets[i] = Packets[j] => i = j

ASSUME BoundAssumption ==
  /\ REPEAT \in Nat \ {0} /\ MAX_FAILURES \in Nat
  /\ HALF \in Nat /\ Len(Packets) < HALF

VARIABLES
  sent,       (* How many packets the application has sent.                 *)
  app,        (* Where it is in SendTo.                                     *)
  next,       (* m_iNextSendPacketNumber.                                   *)
  number,     (* m_iPacketNumber of each packet.                            *)
  queue,      (* m_reliableDataQueue.                                       *)
  alive,      (* The ReliableData objects on the heap.                      *)
  proc,       (* ReliableProcessor: pc, data (cur) and i (tries).           *)
  cache,      (* m_cacheReliableDataList: pairs <<number, data>>.           *)
  cacher,     (* CacheReliableDataProcessor: where it is.                   *)
  completed,  (* m_iSendCompletedPacketNumber.                              *)
  taker,      (* The UDP thread: pc and the number acknowledged (num).      *)
  running,    (* m_iThreadRunState.                                         *)
  dtor,       (* Where the destructor is.                                   *)
  wire,       (* The packets that were transmitted.                         *)
  acks,       (* The acknowledgements that were: the numbers they carry.    *)
  expected,   (* The server's m_iLastPacketNumber for this client.          *)
  delivered,  (* What the server accepted, in order.                        *)
  failures,   (* Acknowledgements that could not be sent.                   *)
  ended       (* History: the packets freed as acknowledged (acked), those  *)
              (* the server saw (received), and whether a wait timed out.   *)

client == <<sent, app, next, number>>
threads == <<proc, cacher, taker, dtor, running>>
server == <<expected, delivered, failures>>
vars == <<client, queue, alive, cache, completed, threads, wire, acks, server,
          ended>>

Crashed == proc.pc = "crashed" \/ cacher = "crashed"

Init ==
  /\ sent = 0 /\ app = "idle" /\ next = 0
  /\ number = [d \in Data |-> 0]
  /\ queue = NewQueue /\ alive = {}
  /\ proc = [pc |-> "loop", cur |-> Null, tries |-> 0]
  /\ cache = {} /\ cacher = "loop"
  /\ completed = 0
  /\ taker = [pc |-> "idle", num |-> 0]
  /\ running = TRUE /\ dtor = "alive"
  /\ wire = {} /\ acks = {}
  /\ expected = 0 /\ delivered = << >> /\ failures = 0
  /\ ended = [acked |-> {}, received |-> {}, timedOut |-> FALSE]

(* The conversions to int16_t and uint16_t.                                 *)
Short(n) == ((n + HALF) % (2 * HALF)) - HALF
Unsigned(n) == n % (2 * HALF)

-----------------------------------------------------------------------------
(* The application's thread: SendTo and AddReliableData.                    *)

Current == Packets[sent + 1]

SetNumber ==
  /\ app = "idle" /\ dtor = "alive" /\ sent < Len(Packets)
  /\ number' = [number EXCEPT ![Current] = Unsigned(next)]
  /\ app' = "increment"
  /\ UNCHANGED <<sent, next, queue, alive, cache, completed, threads, wire,
                 acks, server, ended>>

Increment ==
  /\ app = "increment"
  /\ next' = Short(next + 1)
  /\ app' = "push"
  /\ UNCHANGED <<sent, number, queue, alive, cache, completed, threads, wire,
                 acks, server, ended>>

(* On a full queue the packet is neither queued nor freed.                  *)
Push ==
  /\ app = "push"
  /\ alive' = alive \cup {Current}
  /\ queue' = IF IsFull(queue) THEN queue ELSE Pushed(queue, Current)
  /\ app' = "notify"
  /\ UNCHANGED <<sent, next, number, cache, completed, threads, wire, acks,
                 server, ended>>

Wake(p) == IF p.pc = "asleep" THEN [p EXCEPT !.pc = "pop"] ELSE p

Notify ==
  /\ app = "notify"
  /\ proc' = Wake(proc)
  /\ sent' = sent + 1
  /\ app' = "idle"
  /\ UNCHANGED <<next, number, queue, alive, cache, completed, cacher, taker,
                 dtor, running, wire, acks, server, ended>>

AppStep == SetNumber \/ Increment \/ Push \/ Notify

-----------------------------------------------------------------------------
(* ReliableProcessor.                                                       *)

ProcGoto(l) == proc' = [proc EXCEPT !.pc = l]

ProcLoop ==
  /\ proc.pc = "loop"
  /\ ProcGoto(IF running THEN "isEmpty" ELSE "done")
  /\ UNCHANGED <<client, queue, alive, cache, completed, cacher, taker, dtor,
                 running, wire, acks, server, ended>>

CheckEmpty ==
  /\ proc.pc = "isEmpty"
  /\ ProcGoto(IF IsEmpty(queue) THEN "beforeSleep" ELSE "pop")
  /\ UNCHANGED <<client, queue, alive, cache, completed, cacher, taker, dtor,
                 running, wire, acks, server, ended>>

(* wait and wait_for: from here on a notification is heard.                 *)
BeginWait ==
  /\ proc.pc \in {"beforeSleep", "beforeWait"}
  /\ ProcGoto(IF proc.pc = "beforeSleep" THEN "asleep" ELSE "waiting")
  /\ UNCHANGED <<client, queue, alive, cache, completed, cacher, taker, dtor,
                 running, wire, acks, server, ended>>

SpuriousWake ==
  /\ proc.pc \in {"asleep", "waiting"}
  /\ ProcGoto(IF proc.pc = "asleep" THEN "pop" ELSE "woken")
  /\ UNCHANGED <<client, queue, alive, cache, completed, cacher, taker, dtor,
                 running, wire, acks, server, ended>>

Pop ==
  /\ proc.pc = "pop"
  /\ IF IsEmpty(queue)
       THEN ProcGoto("loop") /\ UNCHANGED queue
       ELSE /\ proc' = [pc |-> "send", cur |-> FrontElement(queue), tries |-> 0]
            /\ queue' = Popped(queue)
  /\ UNCHANGED <<client, alive, cache, completed, cacher, taker, dtor, running,
                 wire, acks, server, ended>>

ProcCrash ==
  /\ ProcGoto("crashed")
  /\ UNCHANGED <<client, queue, alive, cache, completed, cacher, taker, dtor,
                 running, wire, acks, server, ended>>

(* Defect: the loop counts no attempts.                                     *)
SendUncounted ==
  /\ proc.pc = "send" /\ proc.cur \in alive
  /\ wire' = wire \cup {proc.cur}
  /\ proc' = [proc EXCEPT !.pc = "beforeWait"]
  /\ UNCHANGED <<client, queue, alive, cache, completed, cacher, taker, dtor,
                 running, acks, server, ended>>

(* Defect: a packet enters the cache when it is sent, not when it is late.  *)
SendAndCache ==
  /\ proc.pc = "send" /\ proc.cur \in alive
  /\ wire' = wire \cup {proc.cur}
  /\ cache' = cache \cup {<<number[proc.cur], proc.cur>>}
  /\ proc' = [proc EXCEPT !.pc = "beforeWait", !.tries = @ + 1]
  /\ UNCHANGED <<client, queue, alive, completed, cacher, taker, dtor, running,
                 acks, server, ended>>

(* WriteTo reads the packet; WSASendTo may fail, which nobody looks at.     *)
Send ==
  /\ proc.pc = "send"
  /\ IF proc.cur \notin alive THEN ProcCrash
     ELSE /\ \/ wire' = wire \cup {proc.cur}
             \/ UNCHANGED wire
          /\ proc' = [proc EXCEPT !.pc = "beforeWait", !.tries = @ + 1]
          /\ UNCHANGED <<client, queue, alive, cache, completed, cacher, taker,
                         dtor, running, acks, server, ended>>

(* The loop over i is through.                                              *)
LastTry == proc.tries = REPEAT

Idle == [pc |-> "loop", cur |-> Null, tries |-> 0]

(* insert keeps the entry a number already has. It reads the packet.        *)
Timeout ==
  /\ proc.pc = "waiting"
  /\ IF proc.cur \notin alive THEN ProcCrash
     ELSE /\ cache' = IF \E e \in cache : e[1] = number[proc.cur] THEN cache
                      ELSE cache \cup {<<number[proc.cur], proc.cur>>}
          /\ proc' = IF LastTry THEN Idle ELSE [proc EXCEPT !.pc = "send"]
          /\ ended' = [ended EXCEPT !.timedOut = TRUE]
          /\ UNCHANGED <<client, queue, alive, completed, cacher, taker, dtor,
                         running, wire, acks, server>>

(* Defect: whatever ends the wait acknowledges the packet.                  *)
WokenIsAcked ==
  /\ proc.pc = "woken" /\ proc.cur \in alive
  /\ proc' = Idle
  /\ alive' = alive \ {proc.cur}
  /\ ended' = [ended EXCEPT !.acked = @ \cup {proc.cur}]
  /\ UNCHANGED <<client, queue, cache, completed, cacher, taker, dtor, running,
                 wire, acks, server>>

(* The wait ended without a timeout: this packet was acknowledged, or the   *)
(* other thread is to look for an older one. This packet is given up then.  *)
Woken ==
  /\ proc.pc = "woken"
  /\ IF proc.cur \notin alive THEN ProcCrash
     ELSE /\ proc' = Idle
          /\ IF number[proc.cur] = completed
               THEN /\ alive' = alive \ {proc.cur}
                    /\ ended' = [ended EXCEPT !.acked = @ \cup {proc.cur}]
                    /\ UNCHANGED cacher
               ELSE /\ cacher' = IF cacher = "waiting" THEN "find" ELSE cacher
                    /\ UNCHANGED <<alive, ended>>
          /\ UNCHANGED <<client, queue, cache, completed, taker, dtor, running,
                         wire, acks, server>>

ProcStep ==
  \/ ProcLoop \/ CheckEmpty \/ BeginWait \/ Pop \/ Send \/ Timeout \/ Woken

-----------------------------------------------------------------------------
(* CacheReliableDataProcessor.                                              *)

CacheLoop ==
  /\ cacher = "loop"
  /\ cacher' = IF running THEN "beforeWait" ELSE "done"
  /\ UNCHANGED <<client, queue, alive, cache, completed, proc, taker, dtor,
                 running, wire, acks, server, ended>>

CacheWait ==
  /\ cacher = "beforeWait"
  /\ cacher' = "waiting"
  /\ UNCHANGED <<client, queue, alive, cache, completed, proc, taker, dtor,
                 running, wire, acks, server, ended>>

CacheSpuriousWake ==
  /\ cacher = "waiting"
  /\ cacher' = "find"
  /\ UNCHANGED <<client, queue, alive, cache, completed, proc, taker, dtor,
                 running, wire, acks, server, ended>>

(* Defect: a packet that was given up is queued once more.                  *)
FindRetries ==
  /\ cacher = "find"
  /\ \E e \in cache : queue' = IF IsFull(queue) THEN queue ELSE Pushed(queue, e[2])
  /\ cacher' = "loop"
  /\ UNCHANGED <<client, alive, cache, completed, proc, taker, dtor, running, wire,
                 acks, server, ended>>

(* The entry under the completed number is freed, or all are forgotten.     *)
Find ==
  /\ cacher = "find"
  /\ LET hits == {e \in cache : e[1] = completed}
     IN  IF hits = {}
           THEN cache' = {} /\ cacher' = "loop" /\ UNCHANGED alive
           ELSE \E e \in hits :
             /\ cacher' = IF e[2] \in alive THEN "erase" ELSE "crashed"
             /\ alive' = alive \ {e[2]}
             /\ UNCHANGED cache
  /\ UNCHANGED <<client, queue, completed, proc, taker, dtor, running, wire,
                 acks, server, ended>>

(* The completed number is read a second time.                              *)
Erase ==
  /\ cacher = "erase"
  /\ cache' = {e \in cache : e[1] # completed}
  /\ cacher' = "loop"
  /\ UNCHANGED <<client, queue, alive, completed, proc, taker, dtor, running,
                 wire, acks, server, ended>>

CacheStep == CacheLoop \/ CacheWait \/ Find \/ Erase

-----------------------------------------------------------------------------
(* The UDP thread of the client: CheckAck and Notify_SendComplete.          *)

(* An acknowledgement carries the packet's number plus one.                 *)
TakeAck(n) ==
  /\ taker.pc = "idle" /\ dtor = "alive"
  /\ next' = IF next <= n - 1 THEN n ELSE next
  /\ taker' = [pc |-> "notify", num |-> Short(n - 1)]
  /\ UNCHANGED <<sent, app, number, queue, alive, cache, completed, proc,
                 cacher, dtor, running, wire, acks, server, ended>>

NotifyComplete ==
  /\ taker.pc = "notify"
  /\ proc' = IF proc.pc = "waiting" THEN [proc EXCEPT !.pc = "woken"] ELSE proc
  /\ taker' = [taker EXCEPT !.pc = "set"]
  /\ UNCHANGED <<client, queue, alive, cache, completed, cacher, dtor, running,
                 wire, acks, server, ended>>

SetCompleted ==
  /\ taker.pc = "set"
  /\ completed' = taker.num
  /\ taker' = [pc |-> "idle", num |-> 0]
  /\ UNCHANGED <<client, queue, alive, cache, proc, cacher, dtor, running,
                 wire, acks, server, ended>>

TakerStep == NotifyComplete \/ SetCompleted

-----------------------------------------------------------------------------
(* The destructor, called between two calls of SendTo, when the UDP thread  *)
(* has been stopped.                                                        *)

Stop ==
  /\ dtor = "alive" /\ app = "idle" /\ taker.pc = "idle"
  /\ running' = FALSE
  /\ dtor' = "notify"
  /\ UNCHANGED <<client, queue, alive, cache, completed, proc, cacher, taker,
                 wire, acks, server, ended>>

NotifyStop ==
  /\ dtor = "notify"
  /\ cacher' = IF cacher = "waiting" THEN "find" ELSE cacher
  /\ proc' = Wake(proc)
  /\ dtor' = "join"
  /\ UNCHANGED <<client, queue, alive, cache, completed, taker, running, wire,
                 acks, server, ended>>

Join ==
  /\ dtor = "join" /\ cacher = "done" /\ proc.pc = "done"
  /\ dtor' = "done"
  /\ UNCHANGED <<client, queue, alive, cache, completed, proc, cacher, taker,
                 running, wire, acks, server, ended>>

DtorStep == NotifyStop \/ Join

-----------------------------------------------------------------------------
(* The server: a datagram of the client arrives.                            *)

AckNumber(d) == Short(number[d] + 1)

(* Defect: a packet from further on is accepted too.                        *)
IsExpectedOrLater(d) == number[d] >= Short(expected)

IsExpected(d) == number[d] = Short(expected)

(* With bEnableUDPAckCheck set it is acknowledged whatever its number. When *)
(* the acknowledgement cannot be sent, the new number is not stored for the *)
(* client.                                                                  *)
ServerReceive(d, ok) ==
  /\ ok \/ failures < MAX_FAILURES
  /\ acks' = IF ok THEN acks \cup {AckNumber(d)} ELSE acks
  /\ failures' = IF ok THEN failures ELSE failures + 1
  /\ delivered' = IF IsExpected(d) THEN Append(delivered, d) ELSE delivered
  /\ expected' = IF IsExpected(d) /\ ok THEN Unsigned(Short(expected) + 1)
                                        ELSE expected
  /\ ended' = [ended EXCEPT !.received = @ \cup {d}]
  /\ UNCHANGED <<client, queue, alive, cache, completed, threads, wire>>

-----------------------------------------------------------------------------
ClientStep == AppStep \/ ProcStep \/ CacheStep \/ TakerStep \/ DtorStep

Environment ==
  \/ SpuriousWake \/ CacheSpuriousWake \/ Stop
  \/ \E n \in acks : TakeAck(n)
  \/ \E d \in wire, ok \in BOOLEAN : ServerReceive(d, ok)

Next == ~Crashed /\ (ClientStep \/ Environment)

Spec == Init /\ [][Next]_vars

(* The client's threads run, a wait_for that is not notified times out;     *)
(* nothing is promised of the network, of spurious wakes or of the server.  *)
FairSpec ==
  /\ Spec
  /\ WF_vars(~Crashed /\ AppStep)
  /\ WF_vars(~Crashed /\ ProcStep)
  /\ WF_vars(~Crashed /\ CacheStep)
  /\ WF_vars(~Crashed /\ TakerStep)

-----------------------------------------------------------------------------
(* Properties.                                                              *)

(* Whatever the network loses, repeats and reorders, and whatever packets   *)
(* the client gives up, the server accepts the packets in the order they    *)
(* were sent and without a gap; it accepts one again only for every         *)
(* acknowledgement it failed to send (IOCP.cpp:218-227, BaseModel.cpp:63,   *)
(* with bEnableUDPAckCheck set).                                            *)
DeliveryWithoutGaps ==
  /\ \A k \in 1 .. Len(delivered) :
       \E i \in 1 .. Len(Packets) :
         /\ delivered[k] = Packets[i]
         /\ IF k = 1 THEN i = 1
            ELSE \/ delivered[k - 1] = Packets[i]
                 \/ i > 1 /\ delivered[k - 1] = Packets[i - 1]
  /\ Len(delivered) <= expected + failures

(* A packet is freed as acknowledged only when the server has seen it,      *)
(* although the number that says so is stored after the notification, may   *)
(* be late or of another packet, and the wait may end for no reason. The    *)
(* first packet is the exception: the stored number starts at its own       *)
(* (UDPSocket.cpp:14, 45-48, UDPSocket.hpp:129-132).                        *)
AckMeansReceived ==
  \A d \in ended.acked : number[d] # 0 => d \in ended.received

(* The heap is corrupted only once a wait has timed out: before, no thread  *)
(* frees or reads a packet that is gone (UDPSocket.cpp:45-53, 65-71).       *)
HeapIntactWithoutTimeout == Crashed => ended.timedOut

(* Stop and wait: while a packet is being sent, no later one has been on    *)
(* the wire, so that an old packet is never repeated after a newer one.     *)
NewestLast ==
  proc.cur # Null => \A d \in wire : number[d] <= number[proc.cur]

(* A packet that is being sent is done with, acknowledged or not, after a   *)
(* bounded number of waits; so a destructor that finds the thread there     *)
(* gets to join it (UDPSocket.cpp:42-54).                                   *)
SendingEnds ==
  proc.pc = "send" ~> (proc.pc \in {"loop", "done"} \/ Crashed)
=============================================================================
