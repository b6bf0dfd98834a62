--------------------------- MODULE MCCircularQueue ---------------------------
(* The queue every component uses, and beside it the client, which shares    *)
(* nothing with it here: a behaviour is one of either. The rest of what the  *)
(* client and the queues do together is in BaseModel and ReliableUDP.        *)
EXTENDS CircularQueue, EventSelect

VARIABLE service

MCInit == Init /\ ClientInit /\ service \in {"queue", "client"}

\* A client that is gone does nothing more: anywhere else it must not stop.
MCNext ==
  /\ UNCHANGED service
  /\ \/ service = "queue" /\ Next /\ UNCHANGED clientVars
     \/ service = "client" /\ ClientNext /\ UNCHANGED vars
     \/ service = "client" /\ app = "gone" /\ UNCHANGED <<vars, clientVars>>

MCSpec ==
  /\ MCInit /\ [][MCNext]_<<vars, clientVars, service>>
  /\ WF_clientVars(Destroy) /\ WF_clientVars(TcpStep) /\ WF_clientVars(UdpStep)
=============================================================================
