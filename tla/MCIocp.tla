-------------------------------- MODULE MCIocp --------------------------------
(* The life of the server's slots and the send queue of one of them, side by *)
(* side: a behaviour is one of either.                                      *)
EXTENDS Iocp, TcpSend

VARIABLE service

MCLength == [b \in Data |-> 2]

MCInit == Init /\ SendInit /\ service \in {"slots", "sends"}

MCNext ==
  /\ UNCHANGED service
  /\ \/ service = "slots" /\ Next /\ UNCHANGED sendVars
     \/ service = "sends" /\ SendNext /\ UNCHANGED vars

MCSpec == MCInit /\ [][MCNext]_<<vars, sendVars, service>> /\ Fairness
=============================================================================
