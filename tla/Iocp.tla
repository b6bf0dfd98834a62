-------------------------------- MODULE Iocp --------------------------------
(***************************************************************************)
(* NetworkModel/IOCP: the life of the server's connection slots. A slot is *)
(* a User_Server with one TCP socket that is accepted on, read from,       *)
(* disconnected and accepted on again, for ever: each completion the port  *)
(* hands to a worker thread makes the worker ask the system for the slot's *)
(* next operation. What the system does with the operations is external.   *)
(*                                                                         *)
(* A worker's handler is one step per system call, so that other workers,  *)
(* the system and the application act between them. The packets are left   *)
(* to BaseModel: here only the bytes of an unfinished one are counted.     *)
(***************************************************************************)
EXTENDS Naturals, Sequences, FiniteSets

CONSTANTS
  Slots,        (* The User_Server objects of m_clientList: 4000.           *)
  Workers,      (* The threads of m_workerThreadList.                       *)
  NoSlot,       (* The slot of a worker that waits for a completion.        *)
  MAX_LEFT,     (* The most bytes an unfinished packet has.                 *)
  MAX_SENDS,    (* Sends of a slot no worker has seen the completion of.    *)
  MAX_FAILED    (* Sends of a slot that fail after the system took them.    *)

ASSUME SlotAssumption == NoSlot \notin Slots

ASSUME LimitAssumption == {MAX_LEFT, MAX_SENDS, MAX_FAILED} \subseteq Nat

VARIABLES
  sock,         (* What the system knows of each slot's socket.             *)
  receives,     (* Receives posted and not completed.                       *)
  sends,        (* Sends posted and not completed.                          *)
  port,         (* The completion port: pairs <<slot, kind>>, oldest first. *)
  worker,       (* Each worker's place (pc) in the handler of a slot.       *)
  left,         (* m_receiveOverlapped.m_iRemainReceiveBytes.               *)
  registered,   (* Slots whose socket is associated with the port.          *)
  ignored,      (* History: slots for which an error was not handled.       *)
  sendFailed    (* History: how many sends of each slot have failed.        *)

system == <<sock, receives, sends>>
history == <<ignored, sendFailed>>
vars == <<system, port, worker, left, registered, history>>

(* Initialize: an accept for every slot, then the worker threads.           *)
Init ==
  /\ sock = [s \in Slots |-> "accepting"]
  /\ receives = [s \in Slots |-> 0] /\ sends = [s \in Slots |-> 0]
  /\ port = << >>
  /\ worker = [w \in Workers |-> [pc |-> "wait", slot |-> NoSlot]]
  /\ left = [s \in Slots |-> 0]
  /\ registered = {} /\ ignored = {} /\ sendFailed = [s \in Slots |-> 0]

Completed(s, kind) == port' = Append(port, <<s, kind>>)

-----------------------------------------------------------------------------
(* The system and the clients. A socket is "free" (AcceptEx may be called), *)
(* "accepting", "connected", "gone" (the peer has left) or "closing".       *)

ClientConnects(s) ==
  /\ sock[s] = "accepting"
  /\ \E to \in {"connected", "gone"} : sock' = [sock EXCEPT ![s] = to]
  /\ Completed(s, "accept")
  /\ UNCHANGED <<receives, sends, worker, left, registered, history>>

ClientLeaves(s) ==
  /\ sock[s] = "connected"
  /\ sock' = [sock EXCEPT ![s] = "gone"]
  /\ UNCHANGED <<receives, sends, port, worker, left, registered, history>>

DataArrives(s) ==
  /\ sock[s] = "connected" /\ receives[s] > 0
  /\ receives' = [receives EXCEPT ![s] = @ - 1]
  /\ Completed(s, "read")
  /\ UNCHANGED <<sock, sends, worker, left, registered, history>>

(* No bytes, or an error.                                                   *)
ReceiveEnds(s) ==
  /\ sock[s] \in {"gone", "closing"} /\ receives[s] > 0
  /\ receives' = [receives EXCEPT ![s] = @ - 1]
  /\ Completed(s, "end")
  /\ UNCHANGED <<sock, sends, worker, left, registered, history>>

(* A send to a peer that has left may still succeed.                        *)
SendEnds(s) ==
  /\ sends[s] > 0
  /\ sends' = [sends EXCEPT ![s] = @ - 1]
  /\ \/ Completed(s, "written") /\ UNCHANGED sendFailed
     \/ /\ sock[s] # "connected" /\ sendFailed[s] < MAX_FAILED
        /\ Completed(s, "sendEnd")
        /\ sendFailed' = [sendFailed EXCEPT ![s] = @ + 1]
  /\ UNCHANGED <<sock, receives, worker, left, registered, ignored>>

(* TF_REUSE_SOCKET: the socket is free when nothing of it is pending. The   *)
(* port hears of it only when the socket is registered.                     *)
Disconnected(s) ==
  /\ sock[s] = "closing" /\ receives[s] = 0 /\ sends[s] = 0
  /\ sock' = [sock EXCEPT ![s] = "free"]
  /\ IF s \in registered
       THEN Completed(s, "disconnect") /\ UNCHANGED ignored
       ELSE ignored' = ignored \cup {s} /\ UNCHANGED port
  /\ UNCHANGED <<receives, sends, worker, left, registered, sendFailed>>

SendCompletions(s) ==
  {i \in 1 .. Len(port) : port[i] \in {<<s, "written">>, <<s, "sendEnd">>}}

(* A packet processor answers, now or later: WSASend takes it or fails.     *)
Send(s) ==
  /\ sock[s] \in {"connected", "gone"}
  /\ sends[s] + Cardinality(SendCompletions(s)) < MAX_SENDS
  /\ sends' = [sends EXCEPT ![s] = @ + 1]
  /\ UNCHANGED <<sock, receives, port, worker, left, registered, history>>

-----------------------------------------------------------------------------
(* The worker threads.                                                      *)

Goto(w, l) == worker' = [worker EXCEPT ![w].pc = l]
Done(w) == worker' = [worker EXCEPT ![w] = [pc |-> "wait", slot |-> NoSlot]]
At(w, l) == worker[w].pc = l

(* Where the handler of each completion begins. Only an accept and a        *)
(* disconnection may complete without bytes: the rest then has ended.       *)
Handler(kind) ==
  CASE kind = "accept" -> "register"
    [] kind = "read" -> "process"
    [] kind \in {"end", "sendEnd"} -> "tryDisconnect"
    [] kind = "disconnect" -> "initialize"

(* OnIOWrite only settles the slot's send queue.                            *)
Dequeue(w) ==
  /\ At(w, "wait") /\ port # << >>
  /\ LET s == Head(port)[1]
         kind == Head(port)[2]
     IN  IF kind = "written" THEN UNCHANGED worker
         ELSE worker' = [worker EXCEPT ![w] = [pc |-> Handler(kind), slot |-> s]]
  /\ port' = Tail(port)
  /\ UNCHANGED <<system, left, registered, history>>

RegistersSocket(w) ==
  /\ registered' = registered \cup {worker[w].slot}
  /\ Goto(w, "receive")

(* Defect: a failed registration is only logged.                            *)
RegisterLogsOnly(w) ==
  /\ At(w, "register")
  /\ \/ RegistersSocket(w)
     \/ worker[w].slot \notin registered /\ Done(w) /\ UNCHANGED registered
  /\ UNCHANGED <<system, port, left, history>>

(* OnIOAccept: CreateIoCompletionPort. A socket that was registered before  *)
(* answers ERROR_INVALID_PARAMETER, which counts as success.                *)
Register(w) ==
  /\ At(w, "register")
  /\ \/ RegistersSocket(w)
     \/ /\ worker[w].slot \notin registered
        /\ Goto(w, "recycle") /\ UNCHANGED registered
  /\ UNCHANGED <<system, port, left, history>>

(* OnIOReceive: the packets that are complete are cut out of the buffer.    *)
Process(w) ==
  /\ At(w, "process")
  /\ \E n \in 0 .. MAX_LEFT : left' = [left EXCEPT ![worker[w].slot] = n]
  /\ Goto(w, "receive")
  /\ UNCHANGED <<system, port, registered, history>>

(* Defect: the handler goes on to recycle the socket all the same.          *)
ReceiveFallsThrough(w) ==
  /\ At(w, "receive")
  /\ LET s == worker[w].slot
     IN  \/ sock[s] \in {"connected", "gone", "closing"}
            /\ receives' = [receives EXCEPT ![s] = @ + 1]
         \/ UNCHANGED receives
  /\ Goto(w, "recycle")
  /\ UNCHANGED <<sock, sends, port, left, registered, history>>

(* The next receive, of OnIOAccept and of OnIOReceive.                      *)
Receive(w) ==
  /\ At(w, "receive")
  /\ LET s == worker[w].slot
     IN  \/ /\ sock[s] \in {"connected", "gone", "closing"}
            /\ receives' = [receives EXCEPT ![s] = @ + 1]
            /\ Done(w)
         \/ Goto(w, "recycle") /\ UNCHANGED receives
  /\ UNCHANGED <<sock, sends, port, left, registered, history>>

(* SocketRecycling: TransmitFile with TF_DISCONNECT takes the socket.       *)
Recycled(s) ==
  /\ sock[s] \in {"connected", "gone"}
  /\ sock' = [sock EXCEPT ![s] = "closing"]

(* OnIOAccept and OnIOReceive do not look at what SocketRecycle returns.    *)
Recycle(w) ==
  /\ At(w, "recycle")
  /\ LET s == worker[w].slot
     IN  \/ Recycled(s) /\ UNCHANGED ignored
         \/ ignored' = ignored \cup {s} /\ UNCHANGED sock
  /\ Done(w)
  /\ UNCHANGED <<receives, sends, port, left, registered, sendFailed>>

(* Defect: OnIOTryDisconnect does nothing when the recycling fails.         *)
TryDisconnectOnce(w) ==
  /\ At(w, "tryDisconnect")
  /\ \/ Recycled(worker[w].slot)
     \/ UNCHANGED sock
  /\ Done(w)
  /\ UNCHANGED <<receives, sends, port, left, registered, history>>

(* OnIOTryDisconnect; it goes on with OnIODisconnect when that fails.       *)
TryDisconnect(w) ==
  /\ At(w, "tryDisconnect")
  /\ \/ Recycled(worker[w].slot) /\ Done(w)
     \/ Goto(w, "initialize") /\ UNCHANGED sock
  /\ UNCHANGED <<receives, sends, port, left, registered, history>>

(* OnIODisconnect: AcceptEx on the slot's socket. Nobody is told when it    *)
(* fails, and the bytes left of the last connection stay counted.           *)
Initialize(w) ==
  /\ At(w, "initialize")
  /\ LET s == worker[w].slot
     IN  \/ /\ sock[s] = "free"
            /\ sock' = [sock EXCEPT ![s] = "accepting"]
            /\ UNCHANGED ignored
         \/ ignored' = ignored \cup {s} /\ UNCHANGED sock
  /\ Done(w)
  /\ UNCHANGED <<receives, sends, port, left, registered, sendFailed>>

-----------------------------------------------------------------------------
WorkerStep(w) ==
  \/ Dequeue(w) \/ Register(w) \/ Process(w) \/ Receive(w) \/ Recycle(w)
  \/ TryDisconnect(w) \/ Initialize(w)

Next ==
  \/ \E w \in Workers : WorkerStep(w)
  \/ \E s \in Slots :
       \/ ClientConnects(s) \/ ClientLeaves(s) \/ DataArrives(s)
       \/ ReceiveEnds(s) \/ SendEnds(s) \/ Disconnected(s) \/ Send(s)

Spec == Init /\ [][Next]_vars

(* The workers run and the system completes what it has taken; no client    *)
(* is obliged to anything.                                                  *)
Fairness ==
  /\ \A w \in Workers : WF_vars(WorkerStep(w))
  /\ \A s \in Slots :
       WF_vars(ReceiveEnds(s)) /\ WF_vars(SendEnds(s)) /\ WF_vars(Disconnected(s))

-----------------------------------------------------------------------------
(* Properties.                                                              *)

Working(s) == {w \in Workers : worker[w].slot = s}

Queued(s) ==
  {i \in 1 .. Len(port) : port[i][1] = s /\ port[i][2] # "written"}

(* The things that carry a slot's life on.                                  *)
Carriers(s) ==
  Cardinality(Working(s)) + Cardinality(Queued(s)) + receives[s]
    + (IF sock[s] \in {"accepting", "closing"} THEN 1 ELSE 0)

(* Two workers never handle the same slot at once, so that its buffer, its  *)
(* counters and its overlapped structures, which no lock protects, have one *)
(* user: a slot has one pending operation, queued completion or busy worker *)
(* at a time. It holds until a send of the slot fails; then the end of the  *)
(* send and of the receive are handled side by side (IOCP.cpp:93-117).      *)
OneUserPerSlot ==
  \A s \in Slots : sendFailed[s] = 0 => Carriers(s) <= 1

(* A slot is never forgotten: there is always something that will carry its *)
(* life on, unless an error was ignored (IOCP.cpp:151-212).                 *)
NoSlotForgotten == \A s \in Slots \ ignored : Carriers(s) >= 1

(* When a client has gone, its slot accepts another one in the end, unless  *)
(* an error was ignored.                                                    *)
SlotAcceptsAgain ==
  \A s \in Slots :
    sock[s] = "gone" ~> (sock[s] = "accepting" \/ s \in ignored)

(* The count of remaining bytes is there "so that data read before is not   *)
(* overwritten" (User_Server.hpp:27). AcceptEx has the addresses of the     *)
(* peers written to the start of the buffer, so no byte may be left there   *)
(* while an accept is pending.                                              *)
LeftBytesAreKept ==
  \A s \in Slots : sock[s] = "accepting" => left[s] = 0
=============================================================================
