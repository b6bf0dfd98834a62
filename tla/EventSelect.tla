----------------------------- MODULE EventSelect -----------------------------
(***************************************************************************)
(* NetworkModel/EventSelect: the client. The application's thread starts   *)
(* it, sends and stops it; one thread waits for the TCP socket's events,   *)
(* another for the UDP socket's, both also for the stop event.             *)
(*                                                                         *)
(* m_iNextSendPacketNumber numbers what is sent reliably, is moved by the  *)
(* acknowledgements, and is the number expected of the next packet that    *)
(* comes in. ReliableUDP has the first two uses and the threads behind     *)
(* WriteToReliable; here are all three, and the packets' other transports. *)
(* The network delivers what it likes, and may repeat it.                  *)
(***************************************************************************)
EXTENDS Integers, Sequences

CONSTANTS
  Packets,      \* PACKET_STRUCTs of the application
  NoPacket,
  HALF,         \* 2^15: int16_t is -HALF .. HALF - 1
  MAX_SENDS     \* bounds the reliable sends

ASSUME NumberAssumption == HALF \in Nat \ {0} /\ MAX_SENDS \in Nat

ASSUME PacketAssumption == NoPacket \notin Packets

VARIABLES
  app,        \* where the application's thread is
  current,    \* the packet it is numbering
  event,      \* per handle: none, open, set or closed
  thread,     \* per protocol: none, waiting, busy, accepting or ended
  running,    \* m_iThreadRunState
  next,       \* m_iNextSendPacketNumber
  number,     \* m_iPacketNumber of each packet
  reliable,   \* history: the packets given to WriteToReliable with their numbers
  overTcp,    \* history: the number of the last packet sent over TCP
  accepted    \* history: something was accepted from the server

clientVars == <<app, current, event, thread, running, next, number, reliable, overTcp,
          accepted>>

Protocols == {"tcp", "udp"}

Short(n) == ((n + HALF) % (2 * HALF)) - HALF
Unsigned(n) == n % (2 * HALF)

ClientInit ==
  /\ app = "connect" /\ current = NoPacket
  /\ event = [h \in Protocols \cup {"stop"} |-> "none"]
  /\ thread = [p \in Protocols |-> "none"]
  /\ running = TRUE
  /\ next = 0
  /\ number = [p \in Packets |-> 0]
  /\ reliable = << >> /\ overTcp = 0 /\ accepted = FALSE

-----------------------------------------------------------------------------
(* Initialize and InitializeEventHandle. After a failure the caller may     *)
(* still send and call Destroy (CWatchDogClient does).                      *)

numbering == <<current, next, number, reliable, overTcp, accepted>>

Fails == app' = "up" /\ UNCHANGED <<event, thread, running, numbering>>

\* A client without TCP does not connect.
Connect ==
  /\ app = "connect"
  /\ \/ Fails
     \/ app' = "stop" /\ UNCHANGED <<event, thread, running, numbering>>

CreateStopEvent ==
  /\ app = "stop"
  /\ \/ Fails
     \/ /\ event' = [event EXCEPT !["stop"] = "open"]
        /\ app' = "tcp"
        /\ UNCHANGED <<thread, running, numbering>>

\* The TCP thread runs before there is a UDP event.
CreateEvent(p) ==
  /\ app = p
  /\ \/ Fails
     \/ /\ event' = [event EXCEPT ![p] = "open"]
        /\ thread' = [thread EXCEPT ![p] = "waiting"]
        /\ app' = IF p = "tcp" THEN "udp" ELSE "up"
        /\ UNCHANGED <<running, numbering>>

-----------------------------------------------------------------------------
(* Send and SendTo of the application's thread.                             *)

lifecycle == <<event, thread, running>>

\* The number is written into the caller's packet through a const_cast ...
Number(p) ==
  /\ app = "up" /\ Len(reliable) < MAX_SENDS
  /\ number' = [number EXCEPT ![p] = Unsigned(next)]
  /\ current' = p
  /\ app' = "numbered"
  /\ UNCHANGED <<lifecycle, next, reliable, overTcp, accepted>>

\* ... and then the counter is incremented: two steps.
Increment ==
  /\ app = "numbered"
  /\ next' = Short(next + 1)
  /\ app' = "incremented"
  /\ UNCHANGED <<lifecycle, current, number, reliable, overTcp, accepted>>

WriteToReliable ==
  /\ app = "incremented"
  /\ reliable' = Append(reliable, <<current, number[current]>>)
  /\ current' = NoPacket
  /\ app' = "up"
  /\ UNCHANGED <<lifecycle, next, number, overTcp, accepted>>

\* Neither an unreliable datagram nor TCP touches a number.
SendToUnReliable(p) ==
  /\ app = "up"
  /\ UNCHANGED <<app, lifecycle, current, next, number, reliable, overTcp, accepted>>

Send(p) ==
  /\ app = "up"
  /\ overTcp' = number[p]
  /\ UNCHANGED <<app, lifecycle, current, next, number, reliable, accepted>>

-----------------------------------------------------------------------------
(* The two threads.                                                         *)

\* Defect: the event is an auto-reset one, which ends the wait of one thread.
StoppedResets(p) ==
  /\ thread[p] = "waiting"
  /\ event["stop"] = "set"
  /\ event' = [event EXCEPT !["stop"] = "open"]
  /\ thread' = [thread EXCEPT ![p] = "ended"]
  /\ UNCHANGED <<app, running, numbering>>

\* Both handles signalled: the stop event is the first of the array.
Stopped(p) ==
  /\ thread[p] = "waiting"
  /\ event["stop"] = "set"
  /\ thread' = [thread EXCEPT ![p] = "ended"]
  /\ UNCHANGED <<app, event, running, numbering>>

Signalled(p) ==
  /\ thread[p] = "waiting"
  /\ event["stop"] # "set"
  /\ thread' = [thread EXCEPT ![p] = "busy"]
  /\ UNCHANGED <<app, event, running, numbering>>

\* The while condition, after a turn.
Turned(p) == thread' = [thread EXCEPT ![p] = IF running THEN "waiting" ELSE "ended"]

\* Connect, close, a failed receive, an unreliable datagram (CheckAck returns
\* false for it), and all that TCP receives: its last number stays zero.
NoNumber(p) ==
  /\ thread[p] = "busy"
  /\ Turned(p)
  /\ UNCHANGED <<app, event, running, numbering>>

\* Defect: any acknowledgement sets the counter.
AckSets(n) == n

\* The acknowledgement of a packet carries its number plus one.
AckMoves(n) == IF next <= n - 1 THEN n ELSE next

TakeAck ==
  /\ thread["udp"] = "busy"
  /\ \E i \in DOMAIN reliable : next' = AckMoves(Short(reliable[i][2] + 1))
  /\ Turned("udp")
  /\ UNCHANGED <<app, event, running, current, number, reliable, overTcp, accepted>>

\* A packet of the server's is accepted when its number is the counter's ...
Matched ==
  /\ thread["udp"] = "busy"
  /\ next >= 0
  /\ thread' = [thread EXCEPT !["udp"] = "accepting"]
  /\ accepted' = TRUE
  /\ UNCHANGED <<app, event, running, current, next, number, reliable, overTcp>>

\* ... which is incremented afterwards, by the same operation as the sender's.
Accept ==
  /\ thread["udp"] = "accepting"
  /\ next' = Short(next + 1)
  /\ Turned("udp")
  /\ UNCHANGED <<app, event, running, current, number, reliable, overTcp, accepted>>

-----------------------------------------------------------------------------
(* Destroy.                                                                 *)

ClearRunState ==
  /\ app = "up"
  /\ running' = FALSE
  /\ app' = "setStop"
  /\ UNCHANGED <<event, thread, numbering>>

\* The event is a manual-reset one: it stays set for both threads.
SetStop ==
  /\ app = "setStop"
  /\ event' = [event EXCEPT !["stop"] = IF @ = "open" THEN "set" ELSE @]
  /\ app' = "join"
  /\ UNCHANGED <<thread, running, numbering>>

Join ==
  /\ app = "join"
  /\ \A p \in Protocols : thread[p] \in {"none", "ended"}
  /\ app' = "close"
  /\ UNCHANGED <<event, thread, running, numbering>>

CloseEvents ==
  /\ app = "close"
  /\ event' = [h \in DOMAIN event |-> IF event[h] = "none" THEN "none" ELSE "closed"]
  /\ app' = "gone"
  /\ UNCHANGED <<thread, running, numbering>>

-----------------------------------------------------------------------------
Destroy == SetStop \/ Join \/ CloseEvents

AppStep ==
  \/ Connect \/ CreateStopEvent \/ \E p \in Protocols : CreateEvent(p)
  \/ \E p \in Packets : Number(p) \/ SendToUnReliable(p) \/ Send(p)
  \/ Increment \/ WriteToReliable
  \/ ClearRunState \/ Destroy

TcpStep == Stopped("tcp") \/ NoNumber("tcp")

UdpStep == Stopped("udp") \/ NoNumber("udp") \/ TakeAck \/ Matched \/ Accept

ClientNext == AppStep \/ TcpStep \/ UdpStep \/ \E p \in Protocols : Signalled(p)

\* A thread that was woken goes on, and so does Destroy; the network need not
\* send anything, nor the application stop.
ClientSpec ==
  /\ ClientInit /\ [][ClientNext]_clientVars
  /\ WF_clientVars(Destroy) /\ WF_clientVars(TcpStep) /\ WF_clientVars(UdpStep)

-----------------------------------------------------------------------------
(* The server takes a client's packets only in the order of their numbers   *)
(* (BaseModel.cpp:63): they are 0, 1, 2, ... whatever acknowledgements come *)
(* late or twice, as long as the counter has not wrapped and nothing was    *)
(* accepted from the server, which moves the same counter                   *)
(* (EventSelect.hpp:35-36, EventSelect.cpp:108, UDPSocket.cpp:208).         *)
ConsecutiveNumbers ==
  ~accepted => \A i \in DOMAIN reliable : i <= HALF => reliable[i][2] = i - 1

(* "for udp, tcp has always 0" (BaseModel.cpp:63): a packet sent over TCP    *)
(* carries the number 0, the only one that the other side accepts from TCP. *)
(* SendTo writes its number into the caller's packet (EventSelect.hpp:107), *)
(* which Send then sends as it is.                                          *)
TcpHasAlwaysZero == overTcp = 0

(* Destroy returns, whichever of the events and threads Initialize got to,  *)
(* and no thread is left that waits for an event that was closed.           *)
DestroyReturns == app = "setStop" ~> app = "gone"
=============================================================================
