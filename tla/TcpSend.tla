------------------------------- MODULE TcpSend -------------------------------
(***************************************************************************)
(* The send queue of Network/NetworkProtocol/TCPSocket, as a connection of *)
(* the server uses it. Any thread writes: the data is copied to a new      *)
(* WSASendData, which is queued and handed to WSASend. The completions of  *)
(* the sends are taken by the worker threads of IOCP, each of which calls  *)
(* SendCompletion with the number of bytes.                                *)
(*                                                                         *)
(* A WSASendData is used for one write. The system is external: it sends   *)
(* what it took in order, and completes each send with some of its bytes.  *)
(* All sends of a connection share one overlapped structure (the system is *)
(* taken to bear that), but the rest of a send that was completed in part  *)
(* is sent with one on the worker's stack, which is gone when it completes.*)
(***************************************************************************)
EXTENDS RingQueue, FiniteSets

CONSTANTS
  Writers,      \* threads that call User_Server::Send
  Settlers,     \* worker threads of the port
  Length        \* m_iDataLength of each WSASendData

ASSUME LengthAssumption == Length \in [Data -> Nat \ {0}]

VARIABLES
  memory,       \* each WSASendData: unused, live or freed
  sendQueue,    \* m_sendMessageQueue
  writer,       \* per writer: the WSASendData it is about to send, or Null
  flight,       \* what WSASend took and has not sent, oldest first
  wire,         \* what was sent: parts of WSASendDatas
  settled,      \* completions in the port: what was sent
  settler,      \* per worker: what its SendCompletion is for, or NoPart
  sendState,    \* history: crowded, tailLost, crossed, swept, popped
  broken        \* undefined behaviour: nothing more is said

memories == <<memory, sendQueue>>
sendVars ==
  <<memories, writer, flight, wire, settled, settler, sendState, broken>>

(* The bytes from .. to - 1 of a WSASendData; tail: the rest of a send.     *)
Part(b, from, to, tail) ==
  [buffer |-> b, from |-> from, to |-> to, tail |-> tail]

NoPart == Part(Null, 0, 0, FALSE)

(* iRemainBytes.                                                            *)
Bytes(h) == settler[h].to - settler[h].from

SendInit ==
  /\ memory = [b \in Data |-> "unused"]
  /\ sendQueue = NewQueue
  /\ writer = [w \in Writers |-> Null]
  /\ flight = << >> /\ wire = << >> /\ settled = << >>
  /\ settler = [h \in Settlers |-> NoPart]
  /\ sendState = [crowded |-> FALSE, tailLost |-> FALSE, crossed |-> FALSE,
                  swept |-> FALSE, popped |-> {}]
  /\ broken = FALSE

(* Nothing of an earlier write is on its way.                               *)
Quiet ==
  /\ IsEmpty(sendQueue)
  /\ flight = << >> /\ settled = << >>
  /\ \A w \in Writers : writer[w] = Null
  /\ \A h \in Settlers : settler[h] = NoPart

-----------------------------------------------------------------------------
(* Write: the data is copied and queued.                                    *)
QueueData(w, b) ==
  /\ writer[w] = Null /\ memory[b] = "unused"
  /\ ~IsFull(sendQueue)
  /\ memory' = [memory EXCEPT ![b] = "live"]
  /\ sendQueue' = Pushed(sendQueue, b)
  /\ writer' = [writer EXCEPT ![w] = b]
  /\ sendState' = [sendState EXCEPT !.crowded = @ \/ ~Quiet]
  /\ UNCHANGED <<flight, wire, settled, settler, broken>>

(* The queue is full: what Push returns refers to a temporary that is gone. *)
(* It reads as null, and the write ends, or as an address to send from.     *)
QueueFull(w, b) ==
  /\ writer[w] = Null /\ memory[b] = "unused"
  /\ IsFull(sendQueue)
  /\ memory' = [memory EXCEPT ![b] = "live"]
  /\ broken' \in BOOLEAN
  /\ UNCHANGED <<sendQueue, writer, flight, wire, settled, settler, sendState>>

(* What another writer has queued before, it has not yet sent.              *)
Overtakes(w) ==
  LET queued == Contents(sendQueue)
  IN  \E v \in Writers : \E i, j \in DOMAIN queued :
        i < j /\ queued[i] = writer[v] /\ queued[j] = writer[w]

(* Write: WSASend takes it, or fails and it stays queued.                   *)
PostSend(w) ==
  /\ writer[w] # Null
  /\ \/ UNCHANGED <<flight, sendState>>
     \/ /\ flight' = Append(flight, Part(writer[w], 0, Length[writer[w]], FALSE))
        /\ sendState' = [sendState EXCEPT !.crossed = @ \/ Overtakes(w)]
  /\ writer' = [writer EXCEPT ![w] = Null]
  /\ UNCHANGED <<memories, wire, settled, settler, broken>>

-----------------------------------------------------------------------------
(* The system sends the oldest, all of it or its first bytes.               *)
CompleteSend ==
  /\ flight # << >>
  /\ LET p == Head(flight)
     IN  \E to \in p.from + 1 .. p.to :
           /\ wire' = Append(wire, Part(p.buffer, p.from, to, p.tail))
           /\ settled' = Append(settled, Part(p.buffer, p.from, to, p.tail))
           /\ sendState' = [sendState EXCEPT !.tailLost = @ \/ (p.tail /\ to < p.to)]
  /\ flight' = Tail(flight)
  /\ UNCHANGED <<memories, writer, settler, broken>>

-----------------------------------------------------------------------------
(* Defect: a tail is settled like a send.                                   *)
TakeCompletionOfTail(h) ==
  /\ settler[h] = NoPart /\ settled # << >>
  /\ settled' = Tail(settled)
  /\ settler' = [settler EXCEPT ![h] = Head(settled)]
  /\ UNCHANGED <<memories, writer, flight, wire, sendState, broken>>

(* The worker threads. When a tail completes, its overlapped structure is   *)
(* gone: what that says is nothing the worker knows, or anything.           *)
TakeCompletion(h) ==
  /\ settler[h] = NoPart /\ settled # << >>
  /\ settled' = Tail(settled)
  /\ IF Head(settled).tail
       THEN broken' \in BOOLEAN /\ UNCHANGED settler
       ELSE settler' = [settler EXCEPT ![h] = Head(settled)] /\ UNCHANGED broken
  /\ UNCHANGED <<memories, writer, flight, wire, sendState>>

(* SendCompletion returns.                                                  *)
Return(h) == settler' = [settler EXCEPT ![h] = NoPart]

NothingQueued(h) ==
  /\ Bytes(h) > 0 /\ IsEmpty(sendQueue)
  /\ Return(h)
  /\ sendState' = [sendState EXCEPT !.popped = @ \ {h}]
  /\ UNCHANGED <<memories, writer, flight, wire, settled, broken>>

Front == FrontElement(sendQueue)

(* Defect: it is sent again from its first byte.                            *)
WholeAgain(h) == Part(Front, 0, Length[Front], TRUE)

TailOf(h) == Part(Front, Bytes(h), Length[Front], TRUE)

Free == memory' = [memory EXCEPT ![Front] = "freed"]

PopSent(h) ==
  /\ Bytes(h) > 0 /\ ~IsEmpty(sendQueue)
  /\ sendQueue' = Popped(sendQueue)

(* Fewer bytes were sent than it has: the rest is sent from where it lies,  *)
(* and it is not freed any more.                                            *)
SendTail(h) ==
  /\ PopSent(h) /\ Bytes(h) < Length[Front]
  /\ flight' = Append(flight, TailOf(h))
  /\ Return(h)
  /\ sendState' = [sendState EXCEPT !.popped = @ \ {h},
                                   !.swept = @ \/ h \in sendState.popped]
  /\ UNCHANGED <<memory, writer, wire, settled, broken>>

(* All of it was sent, or its rest cannot be. The count stays what it was,  *)
(* so that the loop takes the next one too.                                 *)
FreeSent(h) ==
  /\ PopSent(h) /\ Free
  /\ sendState' = [sendState EXCEPT !.tailLost = @ \/ Bytes(h) < Length[Front],
                                   !.popped = @ \cup {h},
                                   !.swept = @ \/ h \in sendState.popped]
  /\ UNCHANGED <<writer, flight, wire, settled, settler, broken>>

SendNext ==
  /\ ~broken
  /\ \/ \E w \in Writers :
          \/ PostSend(w)
          \/ \E b \in Data : QueueData(w, b) \/ QueueFull(w, b)
     \/ CompleteSend
     \/ \E h \in Settlers :
          TakeCompletion(h) \/ NothingQueued(h) \/ SendTail(h) \/ FreeSent(h)

SendSpec == SendInit /\ [][SendNext]_sendVars

-----------------------------------------------------------------------------
(* Properties.                                                              *)

(* No WSASendData is freed while the system or a writer still has to read   *)
(* it, however many sends are on their way and whichever worker settles     *)
(* them: a worker frees what is queued first, by the number of bytes alone, *)
(* and that is always one that was sent. Two things only make it another:   *)
(* the loop, which takes a second one for the same bytes (swept), and two   *)
(* writers that queue in one order and send in the other (crossed;          *)
(* TCPSocket.cpp:64-69, 80-85, 108-124).                                    *)
BuffersLive ==
  ~(sendState.swept \/ sendState.crossed) =>
    /\ \A i \in DOMAIN flight : memory[flight[i].buffer] = "live"
    /\ \A w \in Writers : writer[w] # Null => memory[writer[w]] = "live"

(* When a connection is written to only after what was written before is    *)
(* sent and settled (crowded is the exception: one completion then settles  *)
(* every queued send, and a rest follows what was sent meanwhile), what     *)
(* goes out is what was written, without gap or repetition: a part          *)
(* continues the one before, or begins a new WSASendData after a whole one, *)
(* also when a send was completed in part. A rest that is sent in part too, *)
(* or not at all, is lost (TCPSocket.cpp:114-117).                          *)
WireIsTheStream ==
  ~(sendState.crowded \/ sendState.tailLost) =>
    \A i \in 2 .. Len(wire) :
      \/ wire[i].buffer = wire[i - 1].buffer /\ wire[i].from = wire[i - 1].to
      \/ wire[i].from = 0 /\ wire[i - 1].to = Length[wire[i - 1].buffer]
=============================================================================
