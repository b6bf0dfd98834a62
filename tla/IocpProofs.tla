------------------------------ MODULE IocpProofs ------------------------------
(* Theorems about the life of the connection slots, for any number of slots *)
(* and workers, and about the send queue of a socket, for any number of     *)
(* writers, workers and buffers.                                            *)
EXTENDS Iocp, TcpSend, RingQueueProofs, FiniteSetTheorems

-----------------------------------------------------------------------------
(* The slots. Whatever happens hands a slot's life on from one carrier to   *)
(* another: the number of carriers changes only where an error is ignored   *)
(* and where a send fails.                                                  *)

Sockets == {"free", "accepting", "connected", "gone", "closing"}

Kinds == {"accept", "read", "end", "written", "sendEnd", "disconnect"}

Places ==
  {"wait", "register", "process", "receive", "recycle", "tryDisconnect", "initialize"}

RangeInv ==
  /\ sock \in [Slots -> Sockets]
  /\ receives \in [Slots -> Nat] /\ sends \in [Slots -> Nat]
  /\ sendFailed \in [Slots -> Nat]
  /\ port \in Seq(Slots \X Kinds)
  /\ worker \in [Workers -> [pc : Places, slot : Slots \cup {NoSlot}]]
  /\ \A w \in Workers : worker[w].pc = "wait" <=> worker[w].slot = NoSlot

FiniteInv == \A s \in Slots : IsFiniteSet(Working(s))

IInv == RangeInv /\ FiniteInv /\ OneUserPerSlot /\ NoSlotForgotten

(* The numbers of which Carriers is the sum.                                *)
Handling(s) == Cardinality(Working(s))
Waiting(s) == Cardinality(Queued(s))
Pending(s) == IF sock[s] \in {"accepting", "closing"} THEN 1 ELSE 0

LEMMA CarriersSum ==
  ASSUME RangeInv, FiniteInv, NEW s \in Slots
  PROVE  /\ IsFiniteSet(Queued(s))
         /\ Handling(s) \in Nat /\ Waiting(s) \in Nat
         /\ receives[s] \in Nat /\ Pending(s) \in 0 .. 1
         /\ Carriers(s) = Handling(s) + Waiting(s) + receives[s] + Pending(s)
         /\ Carriers(s) \in Nat
<1>1. IsFiniteSet(Queued(s))
  <2>1. Len(port) \in Nat
    BY DEF RangeInv
  <2>2. IsFiniteSet(1 .. Len(port))
    BY <2>1, FS_Interval
  <2> QED BY <2>2, FS_Subset DEF Queued
<1>2. Handling(s) \in Nat /\ Waiting(s) \in Nat
  BY <1>1, FS_CardinalityType DEF Handling, Waiting, FiniteInv
<1>3. Carriers(s) = Handling(s) + Waiting(s) + receives[s] + Pending(s)
  BY DEF Carriers, Handling, Waiting, Pending
<1>4. receives[s] \in Nat /\ Pending(s) \in 0 .. 1
  BY DEF RangeInv, Pending
<1> QED BY <1>1, <1>2, <1>3, <1>4

(* A completion adds to the queue what a worker has to handle.              *)
LEMMA CompletedCounts ==
  ASSUME RangeInv, FiniteInv, NEW s \in Slots, NEW kind \in Kinds, Completed(s, kind)
  PROVE  /\ port' \in Seq(Slots \X Kinds)
         /\ \A r \in Slots :
              Waiting(r)' = IF r = s /\ kind # "written" THEN Waiting(r) + 1 ELSE Waiting(r)
<1> DEFINE n == Len(port) + 1
<1>1. /\ port \in Seq(Slots \X Kinds) /\ Len(port) \in Nat
      /\ port' = Append(port, <<s, kind>>)
  BY DEF RangeInv, Completed
<1>2. /\ port' \in Seq(Slots \X Kinds) /\ Len(port') = n
      /\ \A i \in 1 .. Len(port) : port'[i] = port[i]
      /\ port'[n] = <<s, kind>>
  BY <1>1
<1>3. ASSUME NEW r \in Slots
      PROVE  Waiting(r)' = IF r = s /\ kind # "written" THEN Waiting(r) + 1 ELSE Waiting(r)
  <2>1. Queued(r)' = IF r = s /\ kind # "written" THEN Queued(r) \cup {n} ELSE Queued(r)
    BY <1>1, <1>2 DEF Queued
  <2>2. IsFiniteSet(Queued(r))
    BY CarriersSum
  <2>3. n \notin Queued(r)
    BY <1>1 DEF Queued
  <2> QED BY <2>1, <2>2, <2>3, FS_AddElement DEF Waiting
<1> QED BY <1>2, <1>3

(* What a worker dequeues is gone from the queue; the rest moves up.        *)
LEMMA DequeuedCounts ==
  ASSUME RangeInv, FiniteInv, port # << >>, port' = Tail(port)
  PROVE  /\ port' \in Seq(Slots \X Kinds)
         /\ \A r \in Slots :
              Waiting(r)' = IF r = Head(port)[1] /\ Head(port)[2] # "written"
                              THEN Waiting(r) - 1 ELSE Waiting(r)
<1>1. /\ port \in Seq(Slots \X Kinds) /\ Len(port) \in Nat /\ Len(port) >= 1
      /\ Head(port) = port[1]
  BY DEF RangeInv
<1>2. /\ port' \in Seq(Slots \X Kinds) /\ Len(port') = Len(port) - 1
      /\ \A i \in 1 .. Len(port) - 1 : port'[i] = port[i + 1]
  BY <1>1
<1>3. ASSUME NEW r \in Slots
      PROVE  Waiting(r)' = IF r = Head(port)[1] /\ Head(port)[2] # "written"
                             THEN Waiting(r) - 1 ELSE Waiting(r)
  <2> DEFINE S == Queued(r) \ {1}
             T == Queued(r)'
             up == [i \in S |-> i - 1]
  <2>1. IsFiniteSet(S) /\ Cardinality(S) = IF 1 \in Queued(r) THEN Waiting(r) - 1
                                                             ELSE Waiting(r)
    BY CarriersSum, FS_RemoveElement DEF Waiting
  <2>2. \A i \in S : i \in 2 .. Len(port) /\ i - 1 \in T
    BY <1>1, <1>2 DEF Queued
  <2>3. \A j \in T : j \in 1 .. Len(port) - 1 /\ j + 1 \in S
    BY <1>1, <1>2 DEF Queued
  <2>4. up \in Bijection(S, T)
    <3>1. up \in [S -> T]
      BY <2>2
    <3>2. \A i, j \in S : up[i] = up[j] => i = j
      BY <2>2
    <3>3. \A j \in T : \E i \in S : up[i] = j
      <4> SUFFICES ASSUME NEW j \in T PROVE \E i \in S : up[i] = j
        OBVIOUS
      <4>1. j + 1 \in S /\ up[j + 1] = j
        BY <2>3
      <4> QED BY <4>1
    <3> HIDE DEF up, S, T
    <3> QED BY <3>1, <3>2, <3>3 DEF Bijection, Injection, IsInjective, Surjection
  <2> HIDE DEF up, S, T
  <2>5. Cardinality(T) = Cardinality(S)
    BY <2>1, <2>4, FS_Bijection DEF ExistsBijection
  <2>6. 1 \in Queued(r) <=> r = Head(port)[1] /\ Head(port)[2] # "written"
    BY <1>1 DEF Queued
  <2>7. Waiting(r)' = Cardinality(T)
    BY DEF Waiting, T
  <2> QED BY <2>1, <2>5, <2>6, <2>7
<1> QED BY <1>2, <1>3

(* A worker takes a slot up, or leaves it.                                  *)
LEMMA BegunCounts ==
  ASSUME RangeInv, FiniteInv, NEW w \in Workers, worker[w].pc = "wait",
         NEW s \in Slots, NEW l \in Places \ {"wait"},
         worker' = [worker EXCEPT ![w] = [pc |-> l, slot |-> s]]
  PROVE  \A r \in Slots :
           /\ IsFiniteSet(Working(r))'
           /\ Handling(r)' = IF r = s THEN Handling(r) + 1 ELSE Handling(r)
<1> SUFFICES ASSUME NEW r \in Slots
             PROVE  /\ IsFiniteSet(Working(r))'
                    /\ Handling(r)' = IF r = s THEN Handling(r) + 1 ELSE Handling(r)
  OBVIOUS
<1>1. worker[w].slot = NoSlot
  BY DEF RangeInv
<1>2. Working(r)' = IF r = s THEN Working(r) \cup {w} ELSE Working(r)
  BY <1>1, SlotAssumption DEF RangeInv, Working
<1>3. w \notin Working(r) /\ IsFiniteSet(Working(r))
  BY <1>1, SlotAssumption DEF Working, FiniteInv
<1> QED BY <1>2, <1>3, FS_AddElement DEF Handling

LEMMA DoneCounts ==
  ASSUME RangeInv, FiniteInv, NEW w \in Workers, worker[w].pc # "wait", Done(w)
  PROVE  /\ worker[w].slot \in Slots
         /\ \A r \in Slots :
              /\ IsFiniteSet(Working(r))'
              /\ Handling(r)' = IF r = worker[w].slot THEN Handling(r) - 1 ELSE Handling(r)
<1>1. worker[w].slot \in Slots
  BY DEF RangeInv
<1>2. ASSUME NEW r \in Slots
      PROVE  /\ IsFiniteSet(Working(r))'
             /\ Handling(r)' = IF r = worker[w].slot THEN Handling(r) - 1 ELSE Handling(r)
  <2>1. Working(r)' = IF r = worker[w].slot THEN Working(r) \ {w} ELSE Working(r)
    BY <1>1, SlotAssumption DEF RangeInv, Working, Done
  <2>2. (w \in Working(r) <=> r = worker[w].slot) /\ IsFiniteSet(Working(r))
    BY DEF Working, FiniteInv
  <2> QED BY <2>1, <2>2, FS_RemoveElement DEF Handling
<1> QED BY <1>1, <1>2

(* Going on in a handler, a worker keeps its slot.                          *)
LEMMA GotoCounts ==
  ASSUME RangeInv, FiniteInv, NEW w \in Workers, worker[w].pc # "wait",
         NEW l \in Places \ {"wait"}, Goto(w, l)
  PROVE  \A r \in Slots : IsFiniteSet(Working(r))' /\ Handling(r)' = Handling(r)
<1>1. \A r \in Slots : Working(r)' = Working(r)
  BY DEF RangeInv, Working, Goto
<1> QED BY <1>1 DEF Handling, FiniteInv

(* The balance of a step: no carrier is lost or won but where the histories *)
(* say so.                                                                  *)
LEMMA Balance ==
  ASSUME IInv, RangeInv', FiniteInv', ignored \subseteq ignored',
         \A r \in Slots : sendFailed'[r] >= sendFailed[r],
         \A r \in Slots :
           \/ Carriers(r)' = Carriers(r)
           \/ Carriers(r)' = Carriers(r) - 1 /\ r \in ignored'
           \/ Carriers(r)' = Carriers(r) + 1 /\ sendFailed'[r] > 0
  PROVE  IInv'
<1>1. \A r \in Slots : Carriers(r) \in Nat /\ Carriers(r)' \in Nat
  <2>1. ASSUME NEW r \in Slots PROVE Carriers(r) \in Nat
    BY CarriersSum DEF IInv
  <2>2. ASSUME NEW r \in Slots PROVE Carriers(r)' \in Nat
    <3>1. IsFiniteSet(Working(r)') /\ IsFiniteSet(Queued(r)')
      <4>1. Len(port') \in Nat
        BY DEF RangeInv
      <4>2. IsFiniteSet(1 .. Len(port'))
        BY <4>1, FS_Interval
      <4> QED BY <4>2, FS_Subset DEF Queued, FiniteInv
    <3>2. Cardinality(Working(r)') \in Nat /\ Cardinality(Queued(r)') \in Nat
      BY <3>1, FS_CardinalityType
    <3> QED BY <3>2 DEF Carriers, RangeInv
  <2> QED BY <2>1, <2>2
<1>2. \A r \in Slots : sendFailed[r] \in Nat /\ sendFailed'[r] \in Nat
  BY DEF IInv, RangeInv
<1>3. ASSUME NEW r \in Slots, sendFailed'[r] = 0 PROVE Carriers(r)' <= 1
  <2>1. sendFailed[r] = 0
    BY <1>2, <1>3
  <2>2. Carriers(r) <= 1
    BY <2>1 DEF IInv, OneUserPerSlot
  <2> HIDE DEF Carriers
  <2> QED BY <1>1, <1>2, <1>3, <2>2
<1>4. ASSUME NEW r \in Slots, r \notin ignored' PROVE Carriers(r)' >= 1
  <2>1. Carriers(r) >= 1
    BY <1>4 DEF IInv, NoSlotForgotten
  <2> QED BY <1>1, <1>4, <2>1
<1>5. OneUserPerSlot'
  BY <1>3 DEF OneUserPerSlot
<1>6. NoSlotForgotten'
  BY <1>4 DEF NoSlotForgotten
<1> QED BY <1>5, <1>6 DEF IInv

LEMMA Unmoved ==
  /\ worker' = worker =>
       \A r \in Slots : Handling(r)' = Handling(r) /\ Working(r)' = Working(r)
  /\ port' = port => \A r \in Slots : Waiting(r)' = Waiting(r)
  /\ sock' = sock => \A r \in Slots : Pending(r)' = Pending(r)
  /\ \A r \in Slots :
       Carriers(r)' = Handling(r)' + Waiting(r)' + receives'[r] + Pending(r)'
BY DEF Handling, Working, Waiting, Queued, Pending, Carriers

LEMMA InitInv == Init => IInv
<1> SUFFICES ASSUME Init PROVE IInv
  OBVIOUS
<1> USE DEF Init
<1>1. RangeInv
  BY SlotAssumption DEF RangeInv, Sockets, Places
<1>2. \A s \in Slots : Working(s) = {} /\ Queued(s) = {}
  BY SlotAssumption DEF Working, Queued
<1>3. FiniteInv
  BY <1>2, FS_EmptySet DEF FiniteInv
<1>4. ASSUME NEW s \in Slots PROVE Carriers(s) = 1
  <2>1. Cardinality(Working(s)) = 0 /\ Cardinality(Queued(s)) = 0
    BY <1>2, FS_EmptySet
  <2>2. receives[s] = 0 /\ sock[s] = "accepting"
    OBVIOUS
  <2> QED BY <2>1, <2>2 DEF Carriers
<1> QED BY <1>1, <1>3, <1>4 DEF IInv, OneUserPerSlot, NoSlotForgotten

(* What the system and the clients do with a slot.                          *)
SystemStep(s) ==
  \/ ClientConnects(s) \/ ClientLeaves(s) \/ DataArrives(s)
  \/ ReceiveEnds(s) \/ SendEnds(s) \/ Disconnected(s) \/ Send(s)

(* Where the parts stay, the sum stays.                                     *)
LEMMA Untouched ==
  ASSUME RangeInv, FiniteInv, NEW r \in Slots,
         Handling(r)' = Handling(r), Waiting(r)' = Waiting(r),
         receives'[r] = receives[r], Pending(r)' = Pending(r)
  PROVE  Carriers(r)' = Carriers(r)
BY CarriersSum, Unmoved

LEMMA SystemInv ==
  ASSUME IInv, NEW s \in Slots, SystemStep(s)
  PROVE  IInv'
<1>1. RangeInv /\ FiniteInv
  BY DEF IInv
<1>2. /\ sock \in [Slots -> Sockets] /\ receives \in [Slots -> Nat]
      /\ sends \in [Slots -> Nat] /\ sendFailed \in [Slots -> Nat]
      /\ port \in Seq(Slots \X Kinds)
  BY <1>1 DEF RangeInv
<1>3. worker' = worker
  BY DEF SystemStep, ClientConnects, ClientLeaves, DataArrives, ReceiveEnds, SendEnds,
         Disconnected, Send
<1>4. FiniteInv' /\ \A r \in Slots : Handling(r)' = Handling(r)
  BY <1>1, <1>3, Unmoved DEF FiniteInv
<1>5. /\ Handling(s) \in Nat /\ Waiting(s) \in Nat
      /\ receives[s] \in Nat /\ Pending(s) \in Nat
      /\ Carriers(s) = Handling(s) + Waiting(s) + receives[s] + Pending(s)
      /\ Carriers(s)' = Handling(s) + Waiting(s)' + receives'[s] + Pending(s)'
  BY <1>1, <1>4, CarriersSum, Unmoved
<1>6. ASSUME NEW kind \in Kinds, Completed(s, kind)
      PROVE  /\ port' \in Seq(Slots \X Kinds)
             /\ \A r \in Slots \ {s} : Waiting(r)' = Waiting(r)
             /\ Waiting(s)' = IF kind # "written" THEN Waiting(s) + 1 ELSE Waiting(s)
  BY <1>1, <1>6, CompletedCounts
<1>7. ASSUME sock' \in [Slots -> Sockets], receives' \in [Slots -> Nat],
             sends' \in [Slots -> Nat], sendFailed' \in [Slots -> Nat],
             port' \in Seq(Slots \X Kinds), ignored \subseteq ignored',
             \A r \in Slots : sendFailed'[r] >= sendFailed[r],
             \A r \in Slots \ {s} : Waiting(r)' = Waiting(r)
               /\ receives'[r] = receives[r] /\ Pending(r)' = Pending(r),
             \/ Carriers(s)' = Carriers(s)
             \/ Carriers(s)' = Carriers(s) - 1 /\ s \in ignored'
             \/ Carriers(s)' = Carriers(s) + 1 /\ sendFailed'[s] > 0
      PROVE  IInv'
  <2>1. RangeInv'
    BY <1>1, <1>3, <1>7 DEF RangeInv
  <2>2. \A r \in Slots \ {s} : Carriers(r)' = Carriers(r)
    BY <1>1, <1>4, <1>7, Untouched
  <2> QED BY <1>4, <1>7, <2>1, <2>2, Balance
<1>8. CASE ClientConnects(s)
  <2>1. /\ sock' \in [Slots -> Sockets] /\ Pending(s) = 1 /\ Pending(s)' = 0
        /\ \A r \in Slots \ {s} : Pending(r)' = Pending(r)
    BY <1>2, <1>8 DEF ClientConnects, Sockets, Pending
  <2>2. /\ Completed(s, "accept") /\ receives' = receives /\ sends' = sends
        /\ ignored' = ignored /\ sendFailed' = sendFailed
    BY <1>8 DEF ClientConnects, history
  <2>3. /\ port' \in Seq(Slots \X Kinds) /\ Waiting(s)' = Waiting(s) + 1
        /\ \A r \in Slots \ {s} : Waiting(r)' = Waiting(r)
    BY <1>6, <2>2 DEF Kinds
  <2>4. Carriers(s)' = Carriers(s)
    BY <1>5, <2>1, <2>2, <2>3
  <2> QED BY <1>2, <1>7, <2>1, <2>2, <2>3, <2>4
<1>9. CASE ClientLeaves(s)
  <2>1. /\ sock' \in [Slots -> Sockets]
        /\ \A r \in Slots : Pending(r)' = Pending(r)
    BY <1>2, <1>9 DEF ClientLeaves, Sockets, Pending
  <2>2. /\ port' = port /\ receives' = receives /\ sends' = sends
        /\ ignored' = ignored /\ sendFailed' = sendFailed
    BY <1>9 DEF ClientLeaves, history
  <2>3. \A r \in Slots : Waiting(r)' = Waiting(r)
    BY <2>2, Unmoved
  <2>4. Carriers(s)' = Carriers(s)
    BY <1>5, <2>1, <2>2, <2>3
  <2> QED BY <1>2, <1>7, <2>1, <2>2, <2>3, <2>4
<1>10. CASE DataArrives(s) \/ ReceiveEnds(s)
  <2>1. /\ receives[s] > 0 /\ receives' = [receives EXCEPT ![s] = @ - 1]
        /\ Completed(s, "read") \/ Completed(s, "end")
        /\ sock' = sock /\ sends' = sends /\ ignored' = ignored /\ sendFailed' = sendFailed
    BY <1>10 DEF DataArrives, ReceiveEnds, history
  <2>2. /\ receives' \in [Slots -> Nat] /\ receives'[s] = receives[s] - 1
        /\ \A r \in Slots \ {s} : receives'[r] = receives[r]
    BY <1>2, <2>1
  <2>3. /\ port' \in Seq(Slots \X Kinds) /\ Waiting(s)' = Waiting(s) + 1
        /\ \A r \in Slots \ {s} : Waiting(r)' = Waiting(r)
    BY <1>6, <2>1 DEF Kinds
  <2>4. \A r \in Slots : Pending(r)' = Pending(r)
    BY <2>1, Unmoved
  <2>5. Carriers(s)' = Carriers(s)
    BY <1>5, <2>2, <2>3, <2>4
  <2> QED BY <1>2, <1>7, <2>1, <2>2, <2>3, <2>4, <2>5
<1>11. CASE SendEnds(s)
  <2>1. /\ sends[s] > 0 /\ sends' = [sends EXCEPT ![s] = @ - 1]
        /\ \/ Completed(s, "written") /\ sendFailed' = sendFailed
           \/ /\ Completed(s, "sendEnd")
              /\ sendFailed' = [sendFailed EXCEPT ![s] = @ + 1]
        /\ sock' = sock /\ receives' = receives /\ ignored' = ignored
    BY <1>11 DEF SendEnds
  <2>2. sends' \in [Slots -> Nat]
    BY <1>2, <2>1
  <2>3. \A r \in Slots : Pending(r)' = Pending(r)
    BY <2>1, Unmoved
  <2>4. CASE Completed(s, "written") /\ sendFailed' = sendFailed
    <3>1. /\ port' \in Seq(Slots \X Kinds) /\ Waiting(s)' = Waiting(s)
          /\ \A r \in Slots \ {s} : Waiting(r)' = Waiting(r)
      BY <1>6, <2>4 DEF Kinds
    <3>2. Carriers(s)' = Carriers(s)
      BY <1>5, <2>1, <2>3, <3>1
    <3> QED BY <1>2, <1>7, <2>1, <2>2, <2>3, <2>4, <3>1, <3>2
  <2>5. CASE Completed(s, "sendEnd") /\ sendFailed' = [sendFailed EXCEPT ![s] = @ + 1]
    <3>1. /\ port' \in Seq(Slots \X Kinds) /\ Waiting(s)' = Waiting(s) + 1
          /\ \A r \in Slots \ {s} : Waiting(r)' = Waiting(r)
      BY <1>6, <2>5 DEF Kinds
    <3>2. Carriers(s)' = Carriers(s) + 1
      BY <1>5, <2>1, <2>3, <3>1
    <3>3. /\ sendFailed' \in [Slots -> Nat] /\ sendFailed'[s] > 0
          /\ \A r \in Slots : sendFailed'[r] >= sendFailed[r]
      BY <1>2, <2>5
    <3> QED BY <1>2, <1>7, <2>1, <2>2, <2>3, <3>1, <3>2, <3>3
  <2> QED BY <2>1, <2>4, <2>5
<1>12. CASE Disconnected(s)
  <2>1. /\ sock' \in [Slots -> Sockets] /\ Pending(s) = 1 /\ Pending(s)' = 0
        /\ \A r \in Slots \ {s} : Pending(r)' = Pending(r)
    BY <1>2, <1>12 DEF Disconnected, Sockets, Pending
  <2>2. /\ receives' = receives /\ sends' = sends /\ sendFailed' = sendFailed
        /\ \/ Completed(s, "disconnect") /\ ignored' = ignored
           \/ port' = port /\ ignored' = ignored \cup {s}
    BY <1>12 DEF Disconnected
  <2>3. CASE Completed(s, "disconnect") /\ ignored' = ignored
    <3>1. /\ port' \in Seq(Slots \X Kinds) /\ Waiting(s)' = Waiting(s) + 1
          /\ \A r \in Slots \ {s} : Waiting(r)' = Waiting(r)
      BY <1>6, <2>3 DEF Kinds
    <3>2. Carriers(s)' = Carriers(s)
      BY <1>5, <2>1, <2>2, <3>1
    <3> QED BY <1>2, <1>7, <2>1, <2>2, <2>3, <3>1, <3>2
  <2>4. CASE port' = port /\ ignored' = ignored \cup {s}
    <3>1. \A r \in Slots : Waiting(r)' = Waiting(r)
      BY <2>4, Unmoved
    <3>2. Carriers(s)' = Carriers(s) - 1
      BY <1>5, <2>1, <2>2, <3>1
    <3> QED BY <1>2, <1>7, <2>1, <2>2, <2>4, <3>1, <3>2
  <2> QED BY <2>2, <2>3, <2>4
<1>13. CASE Send(s)
  <2>1. /\ port' = port /\ receives' = receives /\ sock' = sock
        /\ ignored' = ignored /\ sendFailed' = sendFailed
        /\ sends' \in [Slots -> Nat]
    BY <1>2, <1>13 DEF Send, history
  <2>2. \A r \in Slots : Waiting(r)' = Waiting(r) /\ Pending(r)' = Pending(r)
    BY <2>1, Unmoved
  <2>3. Carriers(s)' = Carriers(s)
    BY <1>5, <2>1, <2>2
  <2> QED BY <1>2, <1>7, <2>1, <2>2, <2>3
<1> QED BY <1>8, <1>9, <1>10, <1>11, <1>12, <1>13 DEF SystemStep
(* What the workers do with a slot: their places stay in range, ...         *)
LEMMA WorkerRange ==
  ASSUME RangeInv, NEW w \in Workers, NEW l \in Places \ {"wait"},
         \/ \E s \in Slots : worker' = [worker EXCEPT ![w] = [pc |-> l, slot |-> s]]
         \/ worker[w].pc # "wait" /\ Goto(w, l)
         \/ Done(w)
  PROVE  /\ worker' \in [Workers -> [pc : Places, slot : Slots \cup {NoSlot}]]
         /\ \A v \in Workers : worker'[v].pc = "wait" <=> worker'[v].slot = NoSlot
<1>1. /\ worker \in [Workers -> [pc : Places, slot : Slots \cup {NoSlot}]]
      /\ \A v \in Workers : worker[v].pc = "wait" <=> worker[v].slot = NoSlot
      /\ "wait" \in Places
  BY DEF RangeInv, Places
<1>2. CASE \E s \in Slots : worker' = [worker EXCEPT ![w] = [pc |-> l, slot |-> s]]
  BY <1>1, <1>2, SlotAssumption
<1>3. CASE worker[w].pc # "wait" /\ Goto(w, l)
  BY <1>1, <1>3 DEF Goto
<1>4. CASE Done(w)
  BY <1>1, <1>4 DEF Done
<1> QED BY <1>2, <1>3, <1>4

(* ... and what they do to the one slot leaves the others alone.            *)
LEMMA SlotStep ==
  ASSUME IInv, NEW s \in Slots, RangeInv', FiniteInv', ignored \subseteq ignored',
         sendFailed' = sendFailed,
         \A r \in Slots \ {s} :
           /\ Handling(r)' = Handling(r) /\ Waiting(r)' = Waiting(r)
           /\ receives'[r] = receives[r] /\ Pending(r)' = Pending(r),
         \/ Handling(s)' + Waiting(s)' + receives'[s] + Pending(s)' = Carriers(s)
         \/ /\ Handling(s)' + Waiting(s)' + receives'[s] + Pending(s)' = Carriers(s) - 1
            /\ s \in ignored'
  PROVE  IInv'
<1>1. RangeInv /\ FiniteInv
  BY DEF IInv
<1>2. \A r \in Slots \ {s} : Carriers(r)' = Carriers(r)
  BY <1>1, Untouched
<1>3. Carriers(s)' = Handling(s)' + Waiting(s)' + receives'[s] + Pending(s)'
  BY Unmoved
<1>4. \A r \in Slots : sendFailed'[r] >= sendFailed[r]
  BY <1>1 DEF RangeInv
<1> QED BY <1>2, <1>3, <1>4, Balance

LEMMA DequeueInv ==
  ASSUME IInv, NEW w \in Workers, Dequeue(w), NEW s \in Slots, NEW kind \in Kinds,
         Head(port) = <<s, kind>>
  PROVE  IInv'
<1>1. RangeInv /\ FiniteInv
  BY DEF IInv
<1>2. /\ sock \in [Slots -> Sockets] /\ receives \in [Slots -> Nat]
      /\ sends \in [Slots -> Nat] /\ sendFailed \in [Slots -> Nat]
      /\ port \in Seq(Slots \X Kinds)
  BY <1>1 DEF RangeInv
<1>3. sends' = sends /\ sendFailed' = sendFailed
  BY DEF Dequeue, system, history
<1>4. /\ worker[w].pc = "wait" /\ port # << >> /\ port' = Tail(port)
      /\ IF kind = "written" THEN worker' = worker
           ELSE worker' = [worker EXCEPT ![w] = [pc |-> Handler(kind), slot |-> s]]
      /\ sock' = sock /\ receives' = receives /\ ignored' = ignored
  BY DEF Dequeue, At, system, history
<1>5. /\ port' \in Seq(Slots \X Kinds)
      /\ \A r \in Slots \ {s} : Waiting(r)' = Waiting(r)
      /\ Waiting(s)' = IF kind # "written" THEN Waiting(s) - 1 ELSE Waiting(s)
  BY <1>1, <1>4, DequeuedCounts
<1>6. \A r \in Slots : Pending(r)' = Pending(r)
  BY <1>4, Unmoved
<1>7. /\ Handling(s) \in Nat /\ Waiting(s) \in Nat
      /\ receives[s] \in Nat /\ Pending(s) \in Nat
      /\ Carriers(s) = Handling(s) + Waiting(s) + receives[s] + Pending(s)
  BY <1>1, CarriersSum, Unmoved
<1>8. CASE kind = "written"
  <2>1. worker' = worker
    BY <1>4, <1>8
  <2>2. FiniteInv' /\ \A r \in Slots : Handling(r)' = Handling(r)
    BY <1>1, <2>1, Unmoved DEF FiniteInv
  <2>3. RangeInv'
    BY <1>1, <1>3, <1>4, <1>5, <2>1 DEF RangeInv
  <2>4. Handling(s)' + Waiting(s)' + receives'[s] + Pending(s)' = Carriers(s)
    BY <1>4, <1>5, <1>6, <1>7, <1>8, <2>2
  <2> QED BY <1>3, <1>4, <1>5, <1>6, <2>2, <2>3, <2>4, SlotStep
<1>9. CASE kind # "written"
  <2> DEFINE l == Handler(kind)
  <2>1. l \in Places \ {"wait"}
    BY <1>9 DEF Handler, Kinds, Places
  <2> HIDE DEF l
  <2>2. worker' = [worker EXCEPT ![w] = [pc |-> l, slot |-> s]]
    BY <1>4, <1>9 DEF l
  <2>3. \A r \in Slots :
          /\ IsFiniteSet(Working(r))'
          /\ Handling(r)' = IF r = s THEN Handling(r) + 1 ELSE Handling(r)
    BY <1>1, <1>4, <2>1, <2>2, BegunCounts
  <2>4. FiniteInv'
    BY <2>3 DEF FiniteInv
  <2>5. RangeInv'
    <3>1. /\ worker' \in [Workers -> [pc : Places, slot : Slots \cup {NoSlot}]]
          /\ \A v \in Workers : worker'[v].pc = "wait" <=> worker'[v].slot = NoSlot
      BY <1>1, <2>1, <2>2, WorkerRange
    <3> QED BY <1>2, <1>3, <1>4, <1>5, <3>1 DEF RangeInv
  <2>6. Handling(s)' + Waiting(s)' + receives'[s] + Pending(s)' = Carriers(s)
    <3>1. Handling(s)' = Handling(s) + 1 /\ Waiting(s)' = Waiting(s) - 1
      BY <1>5, <1>9, <2>3
    <3>2. receives'[s] = receives[s] /\ Pending(s)' = Pending(s)
      BY <1>4, <1>6
    <3> QED BY <1>7, <3>1, <3>2
  <2> QED BY <1>3, <1>4, <1>5, <1>6, <2>3, <2>4, <2>5, <2>6, SlotStep
<1> QED BY <1>8, <1>9

LEMMA HandlerInv ==
  ASSUME IInv, NEW w \in Workers, NEW s \in Slots, worker[w].slot = s,
         \/ Register(w) \/ Process(w) \/ Receive(w) \/ Recycle(w)
         \/ TryDisconnect(w) \/ Initialize(w)
  PROVE  IInv'
<1>1. RangeInv /\ FiniteInv
  BY DEF IInv
<1>2. /\ sock \in [Slots -> Sockets] /\ receives \in [Slots -> Nat]
      /\ sends \in [Slots -> Nat] /\ sendFailed \in [Slots -> Nat]
      /\ port \in Seq(Slots \X Kinds)
  BY <1>1 DEF RangeInv
<1>3. sends' = sends /\ sendFailed' = sendFailed
  BY DEF Register, Process, Receive, Recycle, TryDisconnect, Initialize, system, history
<1>4. /\ Handling(s) \in Nat /\ Waiting(s) \in Nat
      /\ receives[s] \in Nat /\ Pending(s) \in Nat
      /\ Carriers(s) = Handling(s) + Waiting(s) + receives[s] + Pending(s)
      /\ worker[w].pc # "wait"
  <2>1. worker[w].pc # "wait"
    BY <1>1, SlotAssumption DEF RangeInv
  <2> QED BY <1>1, <2>1, CarriersSum, Unmoved
<1>5. ASSUME NEW l \in Places \ {"wait"}, Goto(w, l),
             sock' = sock, receives' = receives, port' = port, ignored' = ignored
      PROVE  IInv'
  <2>1. FiniteInv' /\ \A r \in Slots : Handling(r)' = Handling(r)
    BY <1>1, <1>4, <1>5, GotoCounts DEF FiniteInv
  <2>2. \A r \in Slots : Waiting(r)' = Waiting(r) /\ Pending(r)' = Pending(r)
    BY <1>5, Unmoved
  <2>3. RangeInv'
    <3>1. /\ worker' \in [Workers -> [pc : Places, slot : Slots \cup {NoSlot}]]
          /\ \A v \in Workers : worker'[v].pc = "wait" <=> worker'[v].slot = NoSlot
      BY <1>1, <1>4, <1>5, WorkerRange
    <3> QED BY <1>2, <1>3, <1>5, <3>1 DEF RangeInv
  <2>4. Handling(s)' + Waiting(s)' + receives'[s] + Pending(s)' = Carriers(s)
    BY <1>4, <1>5, <2>1, <2>2
  <2> QED BY <1>3, <1>5, <2>1, <2>2, <2>3, <2>4, SlotStep
<1>6. ASSUME Done(w), port' = port,
             sock' \in [Slots -> Sockets], receives' \in [Slots -> Nat],
             ignored \subseteq ignored',
             \A r \in Slots \ {s} : receives'[r] = receives[r] /\ Pending(r)' = Pending(r),
             \/ receives'[s] + Pending(s)' = receives[s] + Pending(s) + 1
             \/ receives'[s] + Pending(s)' = receives[s] + Pending(s) /\ s \in ignored'
      PROVE  IInv'
  <2>1. /\ FiniteInv' /\ Handling(s)' = Handling(s) - 1
        /\ \A r \in Slots \ {s} : Handling(r)' = Handling(r)
    BY <1>1, <1>4, <1>6, DoneCounts DEF FiniteInv
  <2>2. \A r \in Slots : Waiting(r)' = Waiting(r)
    BY <1>6, Unmoved
  <2>3. RangeInv'
    <3>1. /\ worker' \in [Workers -> [pc : Places, slot : Slots \cup {NoSlot}]]
          /\ \A v \in Workers : worker'[v].pc = "wait" <=> worker'[v].slot = NoSlot
      <4>1. "recycle" \in Places \ {"wait"}
        BY DEF Places
      <4> QED BY <1>1, <1>4, <1>6, <4>1, WorkerRange
    <3> QED BY <1>2, <1>3, <1>6, <3>1 DEF RangeInv
  <2>4. receives'[s] \in Nat /\ Pending(s)' \in Nat
    BY <1>4, <1>6 DEF Pending
  <2>5. \/ Handling(s)' + Waiting(s)' + receives'[s] + Pending(s)' = Carriers(s)
        \/ /\ Handling(s)' + Waiting(s)' + receives'[s] + Pending(s)' = Carriers(s) - 1
           /\ s \in ignored'
    <3>1. Waiting(s)' = Waiting(s)
      BY <2>2, <2>4
    <3>2. CASE receives'[s] + Pending(s)' = receives[s] + Pending(s) + 1
      BY <1>4, <1>6, <2>1, <2>4, <3>1, <3>2
    <3>3. CASE receives'[s] + Pending(s)' = receives[s] + Pending(s) /\ s \in ignored'
      BY <1>4, <1>6, <2>1, <2>4, <3>1, <3>3
    <3> QED BY <1>6, <3>2, <3>3
  <2> QED BY <1>3, <1>6, <2>1, <2>2, <2>3, <2>4, <2>5, SlotStep
<1>7. {"register", "process", "receive", "recycle", "tryDisconnect", "initialize"}
        \subseteq Places \ {"wait"}
  BY DEF Places
<1>8. CASE Register(w)
  <2>1. /\ Goto(w, "receive") \/ Goto(w, "recycle")
        /\ sock' = sock /\ receives' = receives /\ port' = port /\ ignored' = ignored
    BY <1>8 DEF Register, RegistersSocket, At, system, history
  <2> QED BY <1>5, <1>7, <2>1
<1>9. CASE Process(w)
  <2>1. /\ Goto(w, "receive")
        /\ sock' = sock /\ receives' = receives /\ port' = port /\ ignored' = ignored
    BY <1>9 DEF Process, At, system, history
  <2> QED BY <1>5, <1>7, <2>1
<1>10. CASE Receive(w)
  <2>1. /\ worker[w].pc # "wait"
        /\ \/ receives' = [receives EXCEPT ![s] = @ + 1] /\ Done(w)
           \/ Goto(w, "recycle") /\ receives' = receives
        /\ sock' = sock /\ port' = port /\ ignored' = ignored
    BY <1>10 DEF Receive, At, history
  <2>2. CASE receives' = [receives EXCEPT ![s] = @ + 1] /\ Done(w)
    <3>1. \A r \in Slots : Pending(r)' = Pending(r)
      BY <2>1, Unmoved
    <3>2. receives[s] \in Nat /\ Pending(s) \in Nat
      BY <1>4, <2>1
    <3>3. /\ receives' \in [Slots -> Nat] /\ receives'[s] = receives[s] + 1
          /\ \A r \in Slots \ {s} : receives'[r] = receives[r]
      BY <1>2, <2>2, <3>2
    <3>4. receives'[s] + Pending(s)' = receives[s] + Pending(s) + 1
      BY <3>1, <3>2, <3>3
    <3> QED BY <1>2, <1>6, <2>1, <2>2, <3>1, <3>3, <3>4
  <2>3. CASE Goto(w, "recycle") /\ receives' = receives
    BY <1>5, <1>7, <2>1, <2>3
  <2> QED BY <2>1, <2>2, <2>3
<1>11. ASSUME Recycled(s)
       PROVE  /\ sock' \in [Slots -> Sockets] /\ Pending(s)' = Pending(s) + 1
              /\ \A r \in Slots \ {s} : Pending(r)' = Pending(r)
  <2>1. s \in Slots
    BY <1>4, <1>11
  <2> QED BY <1>2, <1>11, <2>1 DEF Recycled, Pending, Sockets
<1>12. ASSUME Done(w), port' = port, receives' = receives,
              sock' \in [Slots -> Sockets], Pending(s)' = Pending(s) + 1,
              \A r \in Slots \ {s} : Pending(r)' = Pending(r), ignored' = ignored
       PROVE  IInv'
  <2>1. receives'[s] + Pending(s)' = receives[s] + Pending(s) + 1
    <3>1. receives[s] \in Nat /\ Pending(s) \in Nat
      BY <1>4, <1>12
    <3> QED BY <1>12, <3>1
  <2> QED BY <1>2, <1>6, <1>12, <2>1
<1>13. ASSUME Done(w), port' = port, receives' = receives,
              sock' = sock, ignored' = ignored \cup {s}
       PROVE  IInv'
  <2>1. \A r \in Slots : Pending(r)' = Pending(r)
    BY <1>13, Unmoved
  <2>2. receives'[s] + Pending(s)' = receives[s] + Pending(s) /\ s \in ignored'
    BY <1>4, <1>13, <2>1
  <2> QED BY <1>2, <1>6, <1>13, <2>1, <2>2
<1>14. CASE Recycle(w)
  <2>1. /\ Done(w) /\ port' = port /\ receives' = receives
        /\ \/ Recycled(s) /\ ignored' = ignored
           \/ ignored' = ignored \cup {s} /\ sock' = sock
    BY <1>14 DEF Recycle, At
  <2> QED BY <1>11, <1>12, <1>13, <2>1
<1>15. CASE TryDisconnect(w)
  <2>1. /\ port' = port /\ receives' = receives
        /\ ignored' = ignored
        /\ \/ Recycled(s) /\ Done(w)
           \/ Goto(w, "initialize") /\ sock' = sock
    BY <1>15 DEF TryDisconnect, At, history
  <2> QED BY <1>5, <1>7, <1>11, <1>12, <2>1
<1>16. CASE Initialize(w)
  <2>1. /\ Done(w) /\ port' = port /\ receives' = receives
        /\ \/ /\ sock[s] = "free" /\ sock' = [sock EXCEPT ![s] = "accepting"]
              /\ ignored' = ignored
           \/ ignored' = ignored \cup {s} /\ sock' = sock
    BY <1>16 DEF Initialize, At
  <2>2. CASE /\ sock[s] = "free" /\ sock' = [sock EXCEPT ![s] = "accepting"]
             /\ ignored' = ignored
    <3>1. s \in Slots
      BY <1>4, <2>1
    <3>2. /\ sock' \in [Slots -> Sockets] /\ Pending(s)' = Pending(s) + 1
          /\ \A r \in Slots \ {s} : Pending(r)' = Pending(r)
      BY <1>2, <2>2, <3>1 DEF Pending, Sockets
    <3> QED BY <1>12, <2>1, <2>2, <3>2
  <2> QED BY <1>13, <2>1, <2>2
<1> QED BY <1>4, <1>8, <1>9, <1>10, <1>14, <1>15, <1>16

LEMMA WorkerInv ==
  ASSUME IInv, NEW w \in Workers, WorkerStep(w)
  PROVE  IInv'
<1>1. CASE Dequeue(w)
  <2>1. port \in Seq(Slots \X Kinds) /\ port # << >>
    BY <1>1 DEF IInv, RangeInv, Dequeue
  <2>2. Head(port) \in Slots \X Kinds
    BY <2>1
  <2>3. PICK s \in Slots, kind \in Kinds : Head(port) = <<s, kind>>
    BY <2>2
  <2> QED BY <1>1, <2>3, DequeueInv
<1>2. CASE ~Dequeue(w)
  <2>1. worker[w].pc # "wait"
    BY <1>2 DEF WorkerStep, Register, Process, Receive, Recycle, TryDisconnect,
                Initialize, At
  <2>2. PICK s \in Slots : worker[w].slot = s
    BY <2>1 DEF IInv, RangeInv
  <2> QED BY <1>2, <2>2, HandlerInv DEF WorkerStep
<1> QED BY <1>1, <1>2

LEMMA StepInv == IInv /\ [Next]_vars => IInv'
<1> SUFFICES ASSUME IInv, [Next]_vars PROVE IInv'
  OBVIOUS
<1>1. CASE UNCHANGED vars
  BY <1>1 DEF IInv, RangeInv, FiniteInv, OneUserPerSlot, NoSlotForgotten, Carriers,
              Working, Queued, vars, system, history
<1>2. CASE Next
  <2>1. ASSUME NEW w \in Workers, WorkerStep(w) PROVE IInv'
    BY <2>1, WorkerInv
  <2>2. ASSUME NEW s \in Slots, SystemStep(s) PROVE IInv'
    BY <2>2, SystemInv
  <2> QED BY <1>2, <2>1, <2>2 DEF Next, SystemStep
<1> QED BY <1>1, <1>2

(* Every reachable state satisfies the invariant: the values have their     *)
(* types, and every slot has the carriers the histories allow.              *)
THEOREM SlotsInvariant == Spec => []IInv
BY InitInv, StepInv, PTL DEF Spec

(* Until a send of it fails, a slot has one user at a time: one pending     *)
(* operation, one queued completion or one busy worker, so that two workers *)
(* are never in the handlers of one slot, which take no lock (IOCP.cpp).    *)
THEOREM SlotsHaveOneUser == Spec => []OneUserPerSlot
<1>1. IInv => OneUserPerSlot
  BY DEF IInv
<1> QED BY SlotsInvariant, <1>1, PTL

(* Unless an error was ignored, something will carry the slot's life on: no *)
(* slot is lost to the server by a step of its own.                         *)
THEOREM SlotsAreNeverForgotten == Spec => []NoSlotForgotten
<1>1. IInv => NoSlotForgotten
  BY DEF IInv
<1> QED BY SlotsInvariant, <1>1, PTL

-----------------------------------------------------------------------------
(* The send queue. While no completion has taken two WSASendDatas and no    *)
(* writer has overtaken another, what is queued lies in the order in which  *)
(* it is sent, and as many as there are completions to be settled, or more, *)
(* have been sent.                                                          *)

Parts == [buffer : Data, from : Nat, to : Nat, tail : BOOLEAN]

Waits == Contents(sendQueue)

Went(b) == \E i \in 1 .. Len(wire) : wire[i].buffer = b /\ ~wire[i].tail

Posted(b) == \E i \in 1 .. Len(flight) : flight[i].buffer = b /\ ~flight[i].tail

Held(b) == \E w \in Writers : writer[w] = b

Ahead(b, c) ==
  \E i, j \in 1 .. Len(flight) :
    /\ i < j /\ flight[i].buffer = b /\ flight[j].buffer = c
    /\ ~flight[i].tail /\ ~flight[j].tail

(* b was sent and c was not, or b is sent before c.                         *)
Sooner(b, c) ==
  \/ Went(b) /\ (Posted(c) \/ Held(c))
  \/ Posted(b) /\ Held(c)
  \/ Ahead(b, c)

(* A worker that has not taken a WSASendData for its completion.            *)
Pops(h) == settler[h] # NoPart /\ h \notin sendState.popped

(* What was sent and is still to be settled, and what was and is queued.    *)
Owed ==
  {b \in Data : \/ \E i \in 1 .. Len(settled) : settled[i].buffer = b /\ ~settled[i].tail
                \/ \E h \in Settlers : settler[h].buffer = b /\ Pops(h)}

Ready == {b \in Data : Went(b) /\ \E k \in 1 .. Len(Waits) : Waits[k] = b}

SendType ==
  /\ memory \in [Data -> {"unused", "live", "freed"}]
  /\ sendQueue \in Queue /\ WellFormed(sendQueue)
  /\ writer \in [Writers -> Data \cup {Null}]
  /\ flight \in Seq(Parts) /\ wire \in Seq(Parts) /\ settled \in Seq(Parts)
  /\ settler \in [Settlers -> Parts \cup {NoPart}]
  /\ sendState \in [crowded : BOOLEAN, tailLost : BOOLEAN, crossed : BOOLEAN,
                    swept : BOOLEAN, popped : SUBSET Settlers]

(* Each is queued once; one that is not used is nowhere.                    *)
QueuedInv ==
  /\ \A j, k \in 1 .. Len(Waits) : Waits[j] = Waits[k] => j = k
  /\ \A k \in 1 .. Len(Waits) : memory[Waits[k]] = "live"
  /\ \A b \in Data : memory[b] = "unused" => ~Went(b)

(* What is to be sent is queued; what is sent sooner is queued before.      *)
OrderInv ==
  /\ \A b \in Data : Posted(b) \/ Held(b) => \E k \in 1 .. Len(Waits) : Waits[k] = b
  /\ \A v, w \in Writers : writer[v] = writer[w] /\ writer[w] # Null => v = w
  /\ \A j, k \in 1 .. Len(Waits) : Sooner(Waits[j], Waits[k]) => j < k

(* A rest that is to be sent is not queued and stays.                       *)
RestInv ==
  \A i \in 1 .. Len(flight) : flight[i].tail =>
    memory[flight[i].buffer] = "live" /\ \A k \in 1 .. Len(Waits) : Waits[k] # flight[i].buffer

(* Each completion is of another WSASendData.                               *)
OwedInv ==
  /\ \A b \in Owed : Went(b)
  /\ \A i, j \in 1 .. Len(settled) :
       settled[i].buffer = settled[j].buffer /\ ~settled[i].tail /\ ~settled[j].tail => i = j
  /\ \A g, h \in Settlers : settler[g].buffer = settler[h].buffer /\ Pops(g) /\ Pops(h) => g = h
  /\ \A i \in 1 .. Len(settled), h \in Settlers :
       ~settled[i].tail /\ Pops(h) => settled[i].buffer # settler[h].buffer
  /\ \A h \in sendState.popped : settler[h] # NoPart

CountInv ==
  IsFiniteSet(Owed) /\ IsFiniteSet(Ready) /\ Cardinality(Owed) <= Cardinality(Ready)

Settling == QueuedInv /\ OrderInv /\ RestInv /\ OwedInv /\ CountInv

SettlingInv == ~(sendState.swept \/ sendState.crossed) => Settling

SendInv == SendType /\ SettlingInv

(* What a queue of the system or of the port becomes.                       *)
LEMMA Appended ==
  ASSUME NEW S, NEW s \in Seq(S), NEW e \in S, NEW t, t = Append(s, e)
  PROVE  /\ t \in Seq(S) /\ Len(s) \in Nat /\ Len(t) = Len(s) + 1
         /\ \A k \in 1 .. Len(s) : t[k] = s[k]
         /\ t[Len(s) + 1] = e
OBVIOUS

LEMMA Shortened ==
  ASSUME NEW S, NEW s \in Seq(S), s # << >>, NEW t, t = Tail(s)
  PROVE  /\ t \in Seq(S) /\ Len(s) \in Nat \ {0} /\ Len(t) = Len(s) - 1
         /\ \A k \in 1 .. Len(s) - 1 : t[k] = s[k + 1]
         /\ Head(s) = s[1] /\ s[1] \in S
OBVIOUS

LEMMA Pushing ==
  ASSUME SendType, NEW b \in Data, ~IsFull(sendQueue), sendQueue' = Pushed(sendQueue, b)
  PROVE  /\ sendQueue' \in Queue /\ WellFormed(sendQueue')
         /\ Waits' = Append(Waits, b) /\ Waits \in Seq(Data)
BY PushedContents, ContentsType DEF SendType, Waits

LEMMA Popping ==
  ASSUME SendType, NEW h \in Settlers, PopSent(h)
  PROVE  /\ sendQueue' \in Queue /\ WellFormed(sendQueue')
         /\ Waits' = Tail(Waits) /\ Waits \in Seq(Data) /\ Waits # << >>
         /\ Front = Waits[1] /\ Front \in Data
<1>1. ~IsEmpty(sendQueue) /\ sendQueue' = Popped(sendQueue)
  BY DEF PopSent
<1>2. /\ sendQueue' \in Queue /\ WellFormed(sendQueue') /\ Front \in Data
      /\ Waits' = Tail(Waits) /\ Front = Head(Waits) /\ Waits # << >>
      /\ Waits \in Seq(Data)
  BY <1>1, PoppedContents, EmptyContents, ContentsType DEF SendType, Waits, Front
<1>. QED
  BY <1>2, Shortened

LEMMA SendInitInv == SendInit => SendInv
<1>. SUFFICES ASSUME SendInit PROVE SendInv
  OBVIOUS
<1>1. Waits = << >> /\ NewQueue \in Queue /\ WellFormed(NewQueue)
  BY NewQueueEmpty DEF SendInit, Waits
<1>2. SendType
  BY <1>1 DEF SendInit, SendType
<1>3. \A b : ~Went(b) /\ ~Posted(b) /\ ~Ahead(b, b)
  BY DEF SendInit, Went, Posted, Ahead
<1>4. \A h \in Settlers : ~Pops(h)
  BY DEF SendInit, Pops
<1>5. Owed = {} /\ Ready = {}
  BY <1>3, <1>4 DEF SendInit, Owed, Ready
<1>6. QueuedInv
  BY <1>1, <1>3 DEF QueuedInv
<1>7. OrderInv
  <2>1. \A b \in Data : ~Held(b)
    BY NullAssumption DEF SendInit, Held
  <2>. QED
    BY <1>1, <1>3, <2>1 DEF OrderInv, SendInit
<1>8. RestInv /\ OwedInv
  BY <1>4, <1>5 DEF RestInv, OwedInv, SendInit
<1>9. CountInv
  BY <1>5, FS_EmptySet DEF CountInv
<1>. QED
  BY <1>2, <1>6, <1>7, <1>8, <1>9 DEF SendInv, SettlingInv, Settling

(* Types.                                                                   *)
LEMMA SendTypeStep ==
  ASSUME SendType, SendNext
  PROVE  SendType'
<1>. USE DEF SendType
<1>1. ASSUME NEW w \in Writers, NEW b \in Data, QueueData(w, b) PROVE SendType'
  <2>1. sendQueue' \in Queue /\ WellFormed(sendQueue')
    BY <1>1, PushedContents DEF QueueData
  <2>2. sendState'.crowded \in BOOLEAN
    BY <1>1 DEF QueueData
  <2>. QED
    BY <1>1, <2>1, <2>2 DEF QueueData
<1>2. ASSUME NEW w \in Writers, NEW b \in Data, QueueFull(w, b) PROVE SendType'
  BY <1>2 DEF QueueFull
<1>3. ASSUME NEW w \in Writers, PostSend(w) PROVE SendType'
  <2>1. flight' \in Seq(Parts)
    <3>1. Part(writer[w], 0, Length[writer[w]], FALSE) \in Parts
      BY <1>3, LengthAssumption DEF PostSend, Parts, Part
    <3>2. flight' = flight \/ flight' = Append(flight, Part(writer[w], 0, Length[writer[w]], FALSE))
      BY <1>3 DEF PostSend
    <3>3. flight \in Seq(Parts)
      OBVIOUS
    <3>. HIDE DEF SendType
    <3>. QED
      BY <3>1, <3>2, <3>3, Appended
  <2>2. /\ sendState' \in [crowded : BOOLEAN, tailLost : BOOLEAN, crossed : BOOLEAN,
                           swept : BOOLEAN, popped : SUBSET Settlers]
    BY <1>3 DEF PostSend
  <2>. QED
    BY <1>3, <2>1, <2>2 DEF PostSend, memories
<1>4. ASSUME CompleteSend PROVE SendType'
  <2>1. flight # << >> /\ flight \in Seq(Parts)
    BY <1>4 DEF CompleteSend
  <2>2. Head(flight) \in Parts /\ flight' \in Seq(Parts)
    BY <1>4, <2>1, Shortened DEF CompleteSend
  <2>3. PICK to \in Head(flight).from + 1 .. Head(flight).to :
          /\ wire' = Append(wire, Part(Head(flight).buffer, Head(flight).from, to,
                                       Head(flight).tail))
          /\ settled' = Append(settled, Part(Head(flight).buffer, Head(flight).from, to,
                                             Head(flight).tail))
          /\ sendState' = [sendState EXCEPT !.tailLost =
                             @ \/ (Head(flight).tail /\ to < Head(flight).to)]
    BY <1>4 DEF CompleteSend
  <2>4. Part(Head(flight).buffer, Head(flight).from, to, Head(flight).tail) \in Parts
    BY <2>2 DEF Parts, Part
  <2>. QED
    BY <1>4, <2>2, <2>3, <2>4, Appended DEF CompleteSend, memories
<1>5. ASSUME NEW h \in Settlers, TakeCompletion(h) PROVE SendType'
  <2>1. Head(settled) \in Parts /\ settled' \in Seq(Parts)
    BY <1>5, Shortened DEF TakeCompletion
  <2>. QED
    BY <1>5, <2>1 DEF TakeCompletion, memories
<1>6. ASSUME NEW h \in Settlers, NothingQueued(h) PROVE SendType'
  BY <1>6 DEF NothingQueued, memories, Return
<1>7. ASSUME NEW h \in Settlers, SendTail(h) PROVE SendType'
  <2>1. sendQueue' \in Queue /\ WellFormed(sendQueue') /\ Front \in Data
    BY <1>7, Popping DEF SendTail
  <2>2. settler[h] \in Parts
    BY <1>7 DEF SendTail, PopSent, Bytes, NoPart, Part
  <2>3. TailOf(h) \in Parts
    BY <1>7, <2>1, <2>2, LengthAssumption DEF SendTail, PopSent, TailOf, Parts, Part, Bytes
  <2>. QED
    BY <1>7, <2>1, <2>3, Appended DEF SendTail, Return
<1>8. ASSUME NEW h \in Settlers, FreeSent(h) PROVE SendType'
  <2>1. sendQueue' \in Queue /\ WellFormed(sendQueue') /\ Front \in Data
    BY <1>8, Popping DEF FreeSent
  <2>. QED
    BY <1>8, <2>1 DEF FreeSent, Free
<1>. QED
  BY <1>1, <1>2, <1>3, <1>4, <1>5, <1>6, <1>7, <1>8 DEF SendNext

LEMMA FlightParts ==
  ASSUME SendType, NEW i \in 1 .. Len(flight)
  PROVE  flight[i] \in Parts /\ flight[i].buffer \in Data
<1>1. flight \in Seq(Parts)
  BY DEF SendType
<1>2. flight[i] \in Parts
  BY <1>1
<1>. QED
  BY <1>2 DEF Parts

(* An action at a time.                                                     *)
LEMMA QueueDataStep ==
  ASSUME SendType, Settling, NEW w \in Writers, NEW b \in Data, QueueData(w, b)
  PROVE  Settling'
<1>a. PICK n : n = Len(Waits)
  OBVIOUS
<1>1. /\ Waits \in Seq(Data) /\ n \in Nat /\ Len(Waits') = n + 1
      /\ \A k \in 1 .. n : Waits'[k] = Waits[k]
      /\ Waits'[n + 1] = b
  <2>1. Waits' = Append(Waits, b) /\ Waits \in Seq(Data)
    BY Pushing DEF QueueData
  <2>. QED
    BY <1>a, <2>1, Appended
<1>2. /\ UNCHANGED <<flight, wire, settled, settler>>
      /\ writer' = [writer EXCEPT ![w] = b] /\ writer[w] = Null
      /\ memory' = [memory EXCEPT ![b] = "live"] /\ memory[b] = "unused"
      /\ sendState'.popped = sendState.popped
  BY DEF QueueData, SendType
<1>3. \A c : /\ Went(c)' = Went(c) /\ Posted(c)' = Posted(c)
             /\ \A d : Ahead(c, d)' = Ahead(c, d)
  BY <1>2 DEF Went, Posted, Ahead
<1>4. \A c \in Data : Held(c)' => Held(c) \/ c = b
  BY <1>2 DEF Held, SendType
<1>5. ~Went(b) /\ \A k \in 1 .. n : Waits[k] # b
  BY <1>a, <1>2 DEF Settling, QueuedInv
<1>6. /\ \A k \in 1 .. n : Waits[k] \in Data
      /\ \A c \in Data : memory'[c] = IF c = b THEN "live" ELSE memory[c]
  BY <1>a, <1>1, <1>2 DEF SendType
<1>7. QueuedInv'
  <2>1. \A j, k \in 1 .. n + 1 : Waits'[j] = Waits'[k] => j = k
    BY <1>a, <1>1, <1>5 DEF Settling, QueuedInv
  <2>2. \A k \in 1 .. n + 1 : memory'[Waits'[k]] = "live"
    <3>1. \A k \in 1 .. n : memory[Waits[k]] = "live"
      BY <1>a DEF Settling, QueuedInv
    <3>. QED
      BY <1>1, <1>6, <3>1
  <2>3. \A c \in Data : memory'[c] = "unused" => ~Went(c)'
    BY <1>2, <1>3 DEF Settling, QueuedInv, SendType
  <2>. QED
    BY <1>1, <2>1, <2>2, <2>3 DEF QueuedInv
<1>8. OrderInv'
  <2>1. ASSUME NEW c \in Data, Posted(c)' \/ Held(c)'
        PROVE  \E k \in 1 .. n + 1 : Waits'[k] = c
    BY <1>a, <1>1, <1>3, <1>4, <2>1 DEF Settling, OrderInv
  <2>2. \A u, v \in Writers : writer'[u] = writer'[v] /\ writer'[v] # Null => u = v
    <3>1. ~Held(b)
      BY <1>a, <1>5 DEF Settling, OrderInv
    <3>. QED
      BY <1>2, <3>1 DEF Settling, OrderInv, SendType, Held
  <2>3. ASSUME NEW j \in 1 .. n + 1, NEW k \in 1 .. n + 1,
               Sooner(Waits[j], Waits[k])'
        PROVE  j < k
    <3>1. CASE j \in 1 .. n /\ k \in 1 .. n
      <4>1. Waits'[j] = Waits[j] /\ Waits'[k] = Waits[k] /\ Waits[k] # b
              /\ Waits[k] \in Data
        BY <1>1, <1>5, <1>6, <3>1
      <4>2. Sooner(Waits[j], Waits[k])
        BY <1>3, <1>4, <2>3, <4>1 DEF Sooner
      <4>. QED
        BY <1>a, <3>1, <4>2 DEF Settling, OrderInv
    <3>2. CASE j = n + 1
      <4>1. Waits'[j] = b
        BY <1>1, <3>2
      <4>2. Posted(b) \/ Went(b) \/ \E d : Ahead(b, d)
        BY <1>3, <2>3, <4>1 DEF Sooner
      <4>3. Posted(b) \/ Went(b)
        BY <4>2 DEF Ahead, Posted
      <4>. QED
        BY <1>a, <1>5, <4>3 DEF Settling, OrderInv
    <3>3. CASE j \in 1 .. n /\ k = n + 1
      BY <1>1, <3>3
    <3>. QED
      BY <1>1, <3>1, <3>2, <3>3
  <2>. QED
    BY <1>1, <2>1, <2>2, <2>3 DEF OrderInv
<1>9. RestInv'
  <2>. SUFFICES ASSUME NEW i \in 1 .. Len(flight), flight[i].tail
                PROVE  /\ memory'[flight[i].buffer] = "live"
                       /\ \A k \in 1 .. n + 1 : Waits'[k] # flight[i].buffer
    BY <1>1, <1>2 DEF RestInv
  <2>1. /\ memory[flight[i].buffer] = "live" /\ flight[i].buffer \in Data
        /\ \A k \in 1 .. n : Waits[k] # flight[i].buffer
    BY <1>a, FlightParts DEF Settling, RestInv
  <2>2. flight[i].buffer # b
    BY <1>2, <2>1
  <2>. QED
    BY <1>1, <1>6, <2>1, <2>2
<1>10. OwedInv' /\ CountInv'
  <2>1. \A h \in Settlers : Pops(h)' = Pops(h)
    BY <1>2 DEF Pops
  <2>2. Owed' = Owed
    BY <1>2, <2>1 DEF Owed
  <2>3. Ready' = Ready
    <3>1. ASSUME NEW c \in Data, Went(c)
          PROVE  (\E k \in 1 .. Len(Waits') : Waits'[k] = c)
                   <=> \E k \in 1 .. Len(Waits) : Waits[k] = c
      BY <1>a, <1>1, <1>5, <3>1
    <3>. QED
      BY <1>3, <3>1 DEF Ready
  <2>. QED
    BY <1>2, <1>3, <2>1, <2>2, <2>3 DEF Settling, OwedInv, CountInv
<1>. QED
  BY <1>7, <1>8, <1>9, <1>10 DEF Settling

LEMMA PostSendStep ==
  ASSUME SendType, Settling, NEW w \in Writers, PostSend(w), ~sendState'.crossed
  PROVE  Settling'
<1>1. /\ UNCHANGED <<memory, sendQueue, wire, settled, settler>>
      /\ writer' = [writer EXCEPT ![w] = Null] /\ writer[w] # Null
      /\ sendState'.popped = sendState.popped /\ Waits' = Waits
  BY DEF PostSend, memories, SendType, Waits
<1>2. \A c : Went(c)' = Went(c)
  BY <1>1 DEF Went
<1>3. QueuedInv'
  BY <1>1, <1>2 DEF Settling, QueuedInv
<1>4. OwedInv' /\ CountInv'
  <2>1. \A h \in Settlers : Pops(h)' = Pops(h)
    BY <1>1 DEF Pops
  <2>2. Owed' = Owed /\ Ready' = Ready
    BY <1>1, <1>2, <2>1 DEF Owed, Ready
  <2>. QED
    BY <1>1, <1>2, <2>1, <2>2 DEF Settling, OwedInv, CountInv
<1>5. \A u, v \in Writers : writer'[u] = writer'[v] /\ writer'[v] # Null => u = v
  BY <1>1 DEF Settling, OrderInv, SendType
<1>6. \A c \in Data : Held(c)' => Held(c) /\ c # writer[w]
  BY <1>1, NullAssumption DEF Held, SendType, Settling, OrderInv
<1>7. CASE flight' = flight
  <2>1. \A c : Posted(c)' = Posted(c) /\ \A d : Ahead(c, d)' = Ahead(c, d)
    BY <1>7 DEF Posted, Ahead
  <2>2. \A k \in 1 .. Len(Waits) : Waits[k] \in Data
    BY ContentsType DEF SendType, Waits
  <2>3. OrderInv'
    BY <1>1, <1>2, <1>5, <1>6, <2>1, <2>2 DEF Settling, OrderInv, Sooner
  <2>4. RestInv'
    BY <1>1, <1>7 DEF Settling, RestInv
  <2>. QED
    BY <1>3, <1>4, <2>3, <2>4 DEF Settling
<1>8. CASE flight' # flight
  <2>a. PICK n, b, p :
          /\ n = Len(flight) /\ b = writer[w] /\ p = Part(b, 0, Length[b], FALSE)
    OBVIOUS
  <2>1. b \in Data /\ Held(b) /\ p \in Parts /\ p.buffer = b /\ ~p.tail
    BY <1>1, <2>a, LengthAssumption DEF SendType, Held, Parts, Part
  <2>2. /\ n \in Nat /\ Len(flight') = n + 1 /\ flight'[n + 1] = p
        /\ \A i \in 1 .. n : flight'[i] = flight[i]
    <3>1. flight' = Append(flight, p) /\ flight \in Seq(Parts)
      BY <1>8, <2>a DEF PostSend, SendType
    <3>2. /\ Len(flight) \in Nat /\ Len(flight') = Len(flight) + 1
          /\ \A i \in 1 .. Len(flight) : flight'[i] = flight[i]
          /\ flight'[Len(flight) + 1] = p
      BY <2>1, <3>1, Appended
    <3>. QED
      BY <2>a, <3>2
  <2>3. ~Overtakes(w)
    BY <1>8 DEF PostSend, SendType
  <2>4. ASSUME NEW c, NEW d
        PROVE  /\ Posted(c)' => Posted(c) \/ c = b
               /\ Ahead(c, d)' => Ahead(c, d) \/ (Posted(c) /\ d = b)
    <3>1. Posted(c)' => Posted(c) \/ c = b
      <4>1. ASSUME NEW i \in 1 .. n + 1, flight'[i].buffer = c, ~flight'[i].tail
            PROVE  Posted(c) \/ c = b
        <5>1. CASE i = n + 1
          BY <2>1, <2>2, <4>1, <5>1
        <5>2. CASE i \in 1 .. n
          BY <2>a, <2>2, <4>1, <5>2 DEF Posted
        <5>. QED
          BY <2>2, <5>1, <5>2
      <4>. QED
        BY <2>2, <4>1 DEF Posted
    <3>2. ASSUME NEW i \in 1 .. n + 1, NEW j \in 1 .. n + 1,
                 i < j, flight'[i].buffer = c, flight'[j].buffer = d,
                 ~flight'[i].tail, ~flight'[j].tail
          PROVE  Ahead(c, d) \/ (Posted(c) /\ d = b)
      <4>1. i \in 1 .. n /\ flight'[i] = flight[i]
        BY <2>2, <3>2
      <4>2. CASE j \in 1 .. n
        <5>1. flight'[j] = flight[j]
          BY <2>2, <4>2
        <5>. QED
          BY <2>a, <3>2, <4>1, <4>2, <5>1 DEF Ahead
      <4>3. CASE j = n + 1
        BY <2>a, <2>1, <2>2, <3>2, <4>1, <4>3 DEF Posted
      <4>. QED
        BY <2>2, <4>2, <4>3
    <3>. QED
      BY <2>2, <3>1, <3>2 DEF Ahead
  <2>5. \A k \in 1 .. Len(Waits) : Waits[k] \in Data
    BY ContentsType DEF SendType, Waits
  <2>6. ASSUME NEW j \in 1 .. Len(Waits), NEW k \in 1 .. Len(Waits),
               Sooner(Waits[j], Waits[k])'
        PROVE  j < k
    <3>1. Waits[j] \in Data /\ Waits[k] \in Data
      BY <2>5
    <3>2. \/ Sooner(Waits[j], Waits[k])
          \/ Waits[j] = b /\ Held(Waits[k]) /\ Waits[k] # b
      BY <1>1, <1>2, <1>6, <2>a, <2>1, <2>4, <2>6, <3>1 DEF Sooner
    <3>3. ASSUME Waits[j] = b, Held(Waits[k]), Waits[k] # b
          PROVE  j < k
      <4>1. PICK v \in Writers : writer[v] = Waits[k]
        BY <3>3 DEF Held
      <4>2. ~(k < j)
        <5>1. DOMAIN Contents(sendQueue) = 1 .. Len(Contents(sendQueue))
          BY ContentsType DEF SendType
        <5>. QED
          BY <2>a, <2>3, <3>3, <4>1, <5>1 DEF Overtakes, Waits
      <4>3. j \in Nat /\ k \in Nat /\ j # k
        BY <3>3
      <4>. QED
        BY <4>2, <4>3
    <3>. QED
      BY <3>2, <3>3 DEF Settling, OrderInv
  <2>7. OrderInv'
    <3>1. ASSUME NEW c \in Data, Posted(c)' \/ Held(c)'
          PROVE  \E k \in 1 .. Len(Waits) : Waits[k] = c
      <4>1. Posted(c) \/ Held(c)
        BY <1>6, <2>1, <2>4, <3>1
      <4>. QED
        BY <4>1 DEF Settling, OrderInv
    <3>. QED
      BY <1>1, <1>5, <2>6, <3>1 DEF OrderInv
  <2>8. RestInv'
    <3>. SUFFICES ASSUME NEW i \in 1 .. n + 1, flight'[i].tail
                  PROVE  /\ memory[flight'[i].buffer] = "live"
                         /\ \A k \in 1 .. Len(Waits) : Waits[k] # flight'[i].buffer
      BY <1>1, <2>2 DEF RestInv
    <3>1. i \in 1 .. n /\ flight'[i] = flight[i]
      BY <2>1, <2>2
    <3>. QED
      BY <2>a, <3>1 DEF Settling, RestInv
  <2>. QED
    BY <1>3, <1>4, <2>7, <2>8 DEF Settling
<1>. QED
  BY <1>7, <1>8

LEMMA CompleteSendStep ==
  ASSUME SendType, Settling, CompleteSend
  PROVE  Settling'
<1>1. /\ UNCHANGED <<memory, sendQueue, writer, settler>> /\ Waits' = Waits
      /\ sendState'.popped = sendState.popped
  BY DEF CompleteSend, memories, SendType, Waits
<1>a. PICK n, m, u, p, q :
        /\ n = Len(flight) /\ m = Len(wire) /\ u = Len(settled) /\ p = flight[1]
        /\ q \in Parts /\ q.buffer = p.buffer /\ q.tail = p.tail
        /\ flight' = Tail(flight) /\ wire' = Append(wire, q)
        /\ settled' = Append(settled, q) /\ flight # << >>
  <2>1. flight # << >> /\ flight \in Seq(Parts) /\ flight' = Tail(flight)
    BY DEF CompleteSend, SendType
  <2>2. Head(flight) = flight[1] /\ flight[1] \in Parts
    BY <2>1, Shortened
  <2>3. PICK to, q :
          /\ to \in flight[1].from + 1 .. flight[1].to
          /\ q = Part(flight[1].buffer, flight[1].from, to, flight[1].tail)
          /\ wire' = Append(wire, q) /\ settled' = Append(settled, q)
    BY <2>2 DEF CompleteSend
  <2>4. q \in Parts /\ q.buffer = flight[1].buffer /\ q.tail = flight[1].tail
    BY <2>2, <2>3 DEF Parts, Part
  <2>. QED
    BY <2>1, <2>3, <2>4
<1>2. /\ n \in Nat \ {0} /\ Len(flight') = n - 1
      /\ \A i \in 1 .. n - 1 : flight'[i] = flight[i + 1]
      /\ p \in Parts
  BY <1>a, Shortened DEF SendType
<1>3. /\ m \in Nat /\ Len(wire') = m + 1 /\ wire'[m + 1] = q
      /\ \A i \in 1 .. m : wire'[i] = wire[i]
  <2>1. /\ Len(wire) \in Nat /\ Len(wire') = Len(wire) + 1 /\ wire'[Len(wire) + 1] = q
        /\ \A i \in 1 .. Len(wire) : wire'[i] = wire[i]
    BY <1>a, Appended DEF SendType
  <2>. QED
    BY <1>a, <2>1
<1>4. /\ u \in Nat /\ Len(settled') = u + 1 /\ settled'[u + 1] = q
      /\ \A i \in 1 .. u : settled'[i] = settled[i]
  <2>1. /\ Len(settled) \in Nat /\ Len(settled') = Len(settled) + 1
        /\ settled'[Len(settled) + 1] = q
        /\ \A i \in 1 .. Len(settled) : settled'[i] = settled[i]
    BY <1>a, Appended DEF SendType
  <2>. QED
    BY <1>a, <2>1
<1>b. PICK b \in Data : b = p.buffer /\ b = q.buffer
  BY <1>a, <1>2 DEF Parts
<1>5. ASSUME NEW c, NEW d
      PROVE  /\ Posted(c)' => Posted(c) /\ (~p.tail => Ahead(b, c))
             /\ Ahead(c, d)' => Ahead(c, d)
  <2>1. ASSUME NEW i \in 1 .. n - 1, flight'[i].buffer = c, ~flight'[i].tail
        PROVE  Posted(c) /\ (~p.tail => Ahead(b, c))
    <3>1. flight'[i] = flight[i + 1] /\ i + 1 \in 1 .. n /\ 1 \in 1 .. n /\ 1 < i + 1
      BY <1>2
    <3>. QED
      BY <1>a, <1>b, <2>1, <3>1 DEF Posted, Ahead
  <2>2. ASSUME NEW i \in 1 .. n - 1, NEW j \in 1 .. n - 1, i < j,
               flight'[i].buffer = c, flight'[j].buffer = d,
               ~flight'[i].tail, ~flight'[j].tail
        PROVE  Ahead(c, d)
    <3>1. /\ flight'[i] = flight[i + 1] /\ i + 1 \in 1 .. n
          /\ flight'[j] = flight[j + 1] /\ j + 1 \in 1 .. n /\ i + 1 < j + 1
      BY <1>2, <2>2
    <3>. QED
      BY <1>a, <2>2, <3>1 DEF Ahead
  <2>. QED
    BY <1>2, <2>1, <2>2 DEF Posted, Ahead
<1>6. ASSUME NEW c PROVE Went(c)' <=> Went(c) \/ (c = b /\ ~p.tail)
  <2>1. ASSUME NEW i \in 1 .. m + 1, wire'[i].buffer = c, ~wire'[i].tail
        PROVE  Went(c) \/ (c = b /\ ~p.tail)
    <3>1. CASE i = m + 1
      BY <1>a, <1>b, <1>3, <2>1, <3>1
    <3>2. CASE i \in 1 .. m
      BY <1>a, <1>3, <2>1, <3>2 DEF Went
    <3>. QED
      BY <1>3, <3>1, <3>2
  <2>2. Went(c) => Went(c)'
    <3>1. ASSUME NEW i \in 1 .. m, wire[i].buffer = c, ~wire[i].tail
          PROVE  Went(c)'
      <4>1. i \in 1 .. Len(wire') /\ wire'[i] = wire[i]
        BY <1>3
      <4>. QED
        BY <3>1, <4>1 DEF Went
    <3>. QED
      BY <1>a, <3>1 DEF Went
  <2>3. ASSUME c = b, ~p.tail PROVE Went(c)'
    <3>1. m + 1 \in 1 .. Len(wire')
      BY <1>3
    <3>. QED
      BY <1>a, <1>b, <1>3, <2>3, <3>1 DEF Went
  <2>. QED
    BY <1>3, <2>1, <2>2, <2>3 DEF Went
<1>7. \A c : Held(c)' = Held(c)
  BY <1>1 DEF Held
<1>8. ~p.tail => Posted(b)
  <2>1. 1 \in 1 .. Len(flight)
    BY <1>a, <1>2
  <2>. QED
    BY <1>a, <1>b, <2>1 DEF Posted
<1>9. ASSUME NEW c, NEW d, Sooner(c, d)' PROVE Sooner(c, d)
  BY <1>5, <1>6, <1>7, <1>8, <1>9 DEF Sooner
<1>10. ASSUME ~p.tail
       PROVE  ~Went(b) /\ \E k \in 1 .. Len(Waits) : Waits[k] = b
  <2>1. PICK k \in 1 .. Len(Waits) : Waits[k] = b
    BY <1>8, <1>10 DEF Settling, OrderInv
  <2>2. ~Sooner(b, b)
    BY <2>1 DEF Settling, OrderInv
  <2>. QED
    BY <1>8, <1>10, <2>1, <2>2 DEF Sooner
<1>11. QueuedInv'
  <2>1. ~p.tail => memory[b] = "live"
    BY <1>10 DEF Settling, QueuedInv
  <2>. QED
    BY <1>1, <1>6, <2>1 DEF Settling, QueuedInv
<1>12. OrderInv'
  <2>1. ASSUME NEW j \in 1 .. Len(Waits), NEW k \in 1 .. Len(Waits),
               Sooner(Waits[j], Waits[k])'
        PROVE  j < k
    <3>1. Sooner(Waits[j], Waits[k])
      BY <1>1, <1>9, <2>1
    <3>. QED
      BY <3>1 DEF Settling, OrderInv
  <2>. QED
    BY <1>1, <1>5, <1>7, <2>1 DEF Settling, OrderInv
<1>13. RestInv'
  <2>. SUFFICES ASSUME NEW i \in 1 .. n - 1, flight'[i].tail
                PROVE  /\ memory[flight'[i].buffer] = "live"
                       /\ \A k \in 1 .. Len(Waits) : Waits[k] # flight'[i].buffer
    BY <1>1, <1>2 DEF RestInv
  <2>1. flight'[i] = flight[i + 1] /\ i + 1 \in 1 .. n
    BY <1>2
  <2>. QED
    BY <1>a, <2>1 DEF Settling, RestInv
<1>14. \A h \in Settlers : Pops(h)' = Pops(h)
  BY <1>1 DEF Pops
<1>15. ASSUME NEW c \in Data
       PROVE  c \in Owed' <=> c \in Owed \/ (c = b /\ ~p.tail)
  <2>1. (\E i \in 1 .. u + 1 : settled'[i].buffer = c /\ ~settled'[i].tail)
          <=> \/ \E i \in 1 .. u : settled[i].buffer = c /\ ~settled[i].tail
              \/ c = b /\ ~p.tail
    <3>1. ASSUME NEW i \in 1 .. u + 1, settled'[i].buffer = c, ~settled'[i].tail
          PROVE  \/ \E k \in 1 .. u : settled[k].buffer = c /\ ~settled[k].tail
                 \/ c = b /\ ~p.tail
      <4>1. CASE i = u + 1
        BY <1>a, <1>b, <1>4, <3>1, <4>1
      <4>2. CASE i \in 1 .. u
        BY <1>4, <3>1, <4>2
      <4>. QED
        BY <1>4, <4>1, <4>2
    <3>2. ASSUME NEW i \in 1 .. u, settled[i].buffer = c, ~settled[i].tail
          PROVE  i \in 1 .. u + 1 /\ settled'[i].buffer = c /\ ~settled'[i].tail
      BY <1>4, <3>2
    <3>3. ASSUME c = b, ~p.tail
          PROVE  u + 1 \in 1 .. u + 1 /\ settled'[u + 1].buffer = c /\ ~settled'[u + 1].tail
      BY <1>a, <1>b, <1>4, <3>3
    <3>. QED
      BY <3>1, <3>2, <3>3
  <2>. QED
    BY <1>a, <1>1, <1>4, <1>14, <2>1 DEF Owed
<1>16. ASSUME NEW c \in Data
       PROVE  c \in Ready' <=> c \in Ready \/ (c = b /\ ~p.tail)
  BY <1>1, <1>6, <1>10 DEF Ready
<1>17. b \notin Owed \/ p.tail
  BY <1>10 DEF Settling, OwedInv
<1>18. OwedInv'
  <2>1. \A c \in Owed' : c \in Data /\ Went(c)'
    <3>1. \A c \in Owed' : c \in Data
      BY DEF Owed
    <3>. QED
      BY <1>6, <1>15, <3>1 DEF Settling, OwedInv
  <2>2. ASSUME NEW i \in 1 .. u, ~settled[i].tail, ~p.tail PROVE settled[i].buffer # b
    BY <1>a, <1>17, <2>2 DEF Owed
  <2>3. ASSUME NEW i \in 1 .. u + 1, NEW j \in 1 .. u + 1,
               settled'[i].buffer = settled'[j].buffer,
               ~settled'[i].tail, ~settled'[j].tail
        PROVE  i = j
    <3>1. CASE i \in 1 .. u /\ j \in 1 .. u
      BY <1>a, <1>4, <2>3, <3>1 DEF Settling, OwedInv
    <3>2. CASE i = u + 1 /\ j \in 1 .. u
      BY <1>a, <1>b, <1>4, <2>2, <2>3, <3>2
    <3>3. CASE i \in 1 .. u /\ j = u + 1
      BY <1>a, <1>b, <1>4, <2>2, <2>3, <3>3
    <3>. QED
      BY <1>4, <3>1, <3>2, <3>3
  <2>4. ASSUME NEW i \in 1 .. u + 1, NEW h \in Settlers, ~settled'[i].tail, Pops(h)
        PROVE  settled'[i].buffer # settler[h].buffer
    <3>1. CASE i \in 1 .. u
      BY <1>a, <1>4, <2>4, <3>1 DEF Settling, OwedInv
    <3>2. CASE i = u + 1
      <4>1. ~p.tail /\ settled'[i].buffer = b
        BY <1>a, <1>b, <1>4, <2>4, <3>2
      <4>. QED
        BY <1>17, <2>4, <4>1 DEF Owed
    <3>. QED
      BY <1>4, <3>1, <3>2
  <2>. QED
    BY <1>1, <1>4, <1>14, <2>1, <2>3, <2>4 DEF Settling, OwedInv
<1>19. CountInv'
  <2>0. Owed \subseteq Data /\ Ready \subseteq Data /\ Owed' \subseteq Data /\ Ready' \subseteq Data
    BY DEF Owed, Ready
  <2>1. CASE p.tail
    <3>1. Owed' = Owed /\ Ready' = Ready
      BY <1>15, <1>16, <2>0, <2>1
    <3>. QED
      BY <3>1 DEF Settling, CountInv
  <2>2. CASE ~p.tail
    <3>1. Owed' = Owed \cup {b} /\ Ready' = Ready \cup {b}
      BY <1>15, <1>16, <2>0, <2>2
    <3>2. b \notin Owed /\ b \notin Ready
      BY <1>10, <1>17, <2>2 DEF Ready
    <3>3. /\ IsFiniteSet(Owed) /\ IsFiniteSet(Ready)
          /\ Cardinality(Owed) <= Cardinality(Ready)
      BY DEF Settling, CountInv
    <3>4. /\ IsFiniteSet(Owed \cup {b}) /\ Cardinality(Owed) \in Nat
          /\ Cardinality(Owed \cup {b}) = Cardinality(Owed) + 1
      BY <3>2, <3>3, FS_AddElement, FS_CardinalityType
    <3>5. /\ IsFiniteSet(Ready \cup {b}) /\ Cardinality(Ready) \in Nat
          /\ Cardinality(Ready \cup {b}) = Cardinality(Ready) + 1
      BY <3>2, <3>3, FS_AddElement, FS_CardinalityType
    <3>. QED
      BY <3>1, <3>3, <3>4, <3>5 DEF CountInv
  <2>. QED
    BY <2>1, <2>2
<1>. QED
  BY <1>11, <1>12, <1>13, <1>18, <1>19 DEF Settling

LEMMA TakeCompletionStep ==
  ASSUME SendType, Settling, NEW h \in Settlers, TakeCompletion(h)
  PROVE  Settling'
<1>1. /\ UNCHANGED <<memory, sendQueue, writer, flight, wire, sendState>>
      /\ Waits' = Waits /\ settler[h] = NoPart /\ h \notin sendState.popped
  BY DEF TakeCompletion, memories, Waits, Settling, OwedInv
<1>a. PICK u, p : u = Len(settled) /\ p = settled[1]
  OBVIOUS
<1>2. /\ u \in Nat \ {0} /\ Len(settled') = u - 1 /\ Head(settled) = p
      /\ p \in Parts /\ p.buffer # Null
      /\ \A i \in 1 .. u - 1 : settled'[i] = settled[i + 1]
  <2>1. settled # << >> /\ settled \in Seq(Parts) /\ settled' = Tail(settled)
    BY DEF TakeCompletion, SendType
  <2>2. /\ u \in Nat \ {0} /\ Len(settled') = u - 1 /\ Head(settled) = p
        /\ p \in Parts
        /\ \A i \in 1 .. u - 1 : settled'[i] = settled[i + 1]
    BY <1>a, <2>1, Shortened
  <2>. QED
    BY <2>2, NullAssumption DEF Parts
<1>3. \A c, d : /\ Went(c)' = Went(c) /\ Posted(c)' = Posted(c) /\ Held(c)' = Held(c)
                /\ Ahead(c, d)' = Ahead(c, d)
  BY <1>1 DEF Went, Posted, Held, Ahead
<1>4. \A c, d : Sooner(c, d)' = Sooner(c, d)
  BY <1>3 DEF Sooner
<1>5. QueuedInv' /\ OrderInv' /\ RestInv'
  BY <1>1, <1>3, <1>4 DEF Settling, QueuedInv, OrderInv, RestInv
<1>6. Ready' = Ready
  BY <1>1, <1>3 DEF Ready
<1>7. \A i \in 1 .. u - 1 : settled'[i] = settled[i + 1] /\ i + 1 \in 1 .. u /\ i + 1 # 1
  BY <1>2
<1>8. ASSUME NEW c
      PROVE  (\E i \in 1 .. u : settled[i].buffer = c /\ ~settled[i].tail)
               <=> \/ \E i \in 1 .. u - 1 : settled'[i].buffer = c /\ ~settled'[i].tail
                   \/ p.buffer = c /\ ~p.tail
  <2>1. ASSUME NEW i \in 1 .. u, settled[i].buffer = c, ~settled[i].tail
        PROVE  \/ \E k \in 1 .. u - 1 : settled'[k].buffer = c /\ ~settled'[k].tail
               \/ p.buffer = c /\ ~p.tail
    <3>1. CASE i = 1
      BY <1>a, <2>1, <3>1
    <3>2. CASE i # 1
      <4>1. i - 1 \in 1 .. u - 1 /\ settled'[i - 1] = settled[i]
        BY <1>2, <3>2
      <4>. QED
        BY <2>1, <4>1
    <3>. QED
      BY <3>1, <3>2
  <2>2. 1 \in 1 .. u
    BY <1>2
  <2>. QED
    BY <1>a, <1>7, <2>1, <2>2
<1>9. CASE p.tail
  <2>1. settler' = settler
    BY <1>2, <1>9 DEF TakeCompletion
  <2>2. \A g \in Settlers : Pops(g)' = Pops(g)
    BY <1>1, <2>1 DEF Pops
  <2>3. Owed' = Owed
    <3>1. ASSUME NEW c
          PROVE  (\E i \in 1 .. Len(settled') : settled'[i].buffer = c /\ ~settled'[i].tail)
                   <=> \E i \in 1 .. Len(settled) : settled[i].buffer = c /\ ~settled[i].tail
      <4>1. Len(settled) = u /\ Len(settled') = u - 1
        BY <1>a, <1>2
      <4>2. (\E i \in 1 .. u - 1 : settled'[i].buffer = c /\ ~settled'[i].tail)
              <=> \E i \in 1 .. u : settled[i].buffer = c /\ ~settled[i].tail
        BY <1>8, <1>9
      <4>. QED
        BY <4>1, <4>2
    <3>. QED
      BY <2>1, <2>2, <3>1 DEF Owed
  <2>4. OwedInv'
    <3>1. ASSUME NEW i \in 1 .. u - 1, NEW j \in 1 .. u - 1,
                 settled'[i].buffer = settled'[j].buffer,
                 ~settled'[i].tail, ~settled'[j].tail
          PROVE  i = j
      <4>1. i + 1 = j + 1
        BY <1>a, <1>7, <3>1 DEF Settling, OwedInv
      <4>. QED
        BY <4>1
    <3>2. ASSUME NEW i \in 1 .. u - 1, NEW g \in Settlers, ~settled'[i].tail, Pops(g)
          PROVE  settled'[i].buffer # settler[g].buffer
      BY <1>a, <1>7, <3>2 DEF Settling, OwedInv
    <3>. QED
      BY <1>1, <1>2, <1>3, <2>1, <2>2, <2>3, <3>1, <3>2 DEF Settling, OwedInv
  <2>. QED
    BY <1>5, <1>6, <2>3, <2>4 DEF Settling, CountInv
<1>10. CASE ~p.tail
  <2>1. settler' = [settler EXCEPT ![h] = p]
    BY <1>2, <1>10 DEF TakeCompletion
  <2>2. /\ settler'[h] = p /\ \A g \in Settlers \ {h} : settler'[g] = settler[g]
    BY <2>1 DEF SendType
  <2>3. /\ p # NoPart /\ Pops(h)' /\ ~Pops(h)
        /\ \A g \in Settlers \ {h} : Pops(g)' = Pops(g)
    BY <1>1, <1>2, <2>2 DEF Pops, NoPart, Part
  <2>4. Owed' = Owed
    <3>1. ASSUME NEW c \in Data
          PROVE  (\E g \in Settlers : settler'[g].buffer = c /\ Pops(g)')
                   <=> \/ \E g \in Settlers : settler[g].buffer = c /\ Pops(g)
                       \/ p.buffer = c
      BY <2>2, <2>3
    <3>2. ASSUME NEW c
          PROVE  (\E i \in 1 .. Len(settled) : settled[i].buffer = c /\ ~settled[i].tail)
                   <=> \/ \E i \in 1 .. Len(settled') :
                            settled'[i].buffer = c /\ ~settled'[i].tail
                       \/ p.buffer = c
      <4>1. Len(settled) = u /\ Len(settled') = u - 1
        BY <1>a, <1>2
      <4>. QED
        BY <1>8, <1>10, <4>1, Zenon
    <3>3. ASSUME NEW c \in Data PROVE c \in Owed' <=> c \in Owed
      BY <3>1, <3>2 DEF Owed
    <3>4. Owed \subseteq Data /\ Owed' \subseteq Data
      BY DEF Owed
    <3>. QED
      BY <3>3, <3>4
  <2>5. 1 \in 1 .. u /\ settled[1] = p
    BY <1>a, <1>2
  <2>6. OwedInv'
    <3>1. ASSUME NEW i \in 1 .. u - 1, NEW j \in 1 .. u - 1,
                 settled'[i].buffer = settled'[j].buffer,
                 ~settled'[i].tail, ~settled'[j].tail
          PROVE  i = j
      <4>1. i + 1 = j + 1
        BY <1>a, <1>7, <3>1 DEF Settling, OwedInv
      <4>. QED
        BY <4>1
    <3>2. ASSUME NEW i \in 1 .. u - 1, NEW g \in Settlers, ~settled'[i].tail, Pops(g)'
          PROVE  settled'[i].buffer # settler'[g].buffer
      <4>1. CASE g # h
        BY <1>a, <1>7, <2>2, <2>3, <3>2, <4>1 DEF Settling, OwedInv
      <4>2. CASE g = h
        BY <1>a, <1>7, <1>10, <2>2, <2>5, <3>2, <4>2 DEF Settling, OwedInv
      <4>. QED
        BY <4>1, <4>2
    <3>3. ASSUME NEW f \in Settlers, NEW g \in Settlers, Pops(f)', Pops(g)',
                 settler'[f].buffer = settler'[g].buffer
          PROVE  f = g
      <4>1. ASSUME NEW e \in Settlers \ {h}, Pops(e) PROVE settler[e].buffer # p.buffer
        BY <1>a, <1>10, <2>5, <4>1 DEF Settling, OwedInv
      <4>2. CASE f # h /\ g # h
        BY <2>2, <2>3, <3>3, <4>2 DEF Settling, OwedInv
      <4>3. CASE f = h \/ g = h
        BY <2>2, <2>3, <3>3, <4>1, <4>3
      <4>. QED
        BY <4>2, <4>3
    <3>4. \A g \in sendState'.popped : settler'[g] # NoPart
      BY <1>1, <2>1, <2>2, <2>3 DEF Settling, OwedInv, SendType
    <3>. QED
      BY <1>1, <1>2, <1>3, <2>4, <3>1, <3>2, <3>3, <3>4 DEF Settling, OwedInv
  <2>. QED
    BY <1>5, <1>6, <2>4, <2>6 DEF Settling, CountInv
<1>. QED
  BY <1>2, <1>9, <1>10 DEF Parts

(* SendCompletion ends, or goes on with no claim to another WSASendData:    *)
(* one less is owed if it had one.                                          *)
LEMMA Settles ==
  ASSUME SendType, Settling, NEW h \in Settlers, Bytes(h) > 0,
         settled' = settled, wire' = wire,
         \A g \in Settlers \ {h} : settler'[g] = settler[g] /\ Pops(g)' = Pops(g),
         ~Pops(h)',
         \A g \in sendState'.popped : settler'[g] # NoPart
  PROVE  /\ OwedInv' /\ \A c : Went(c)' = Went(c)
         /\ IsFiniteSet(Owed') /\ Cardinality(Owed') <= Cardinality(Owed)
         /\ Pops(h) => /\ Cardinality(Owed') = Cardinality(Owed) - 1
                       /\ Cardinality(Owed) \in Nat \ {0}
<1>1. \A c : Went(c)' = Went(c)
  BY DEF Went
<1>2. ASSUME NEW c \in Data
      PROVE  c \in Owed' <=> c \in Owed /\ ~(Pops(h) /\ c = settler[h].buffer)
  <2>1. ASSUME c \in Owed' PROVE c \in Owed /\ ~(Pops(h) /\ c = settler[h].buffer)
    <3>1. CASE \E i \in 1 .. Len(settled) : settled[i].buffer = c /\ ~settled[i].tail
      BY <3>1 DEF Owed, Settling, OwedInv
    <3>2. CASE \E g \in Settlers : settler'[g].buffer = c /\ Pops(g)'
      <4>1. PICK g \in Settlers \ {h} : settler[g].buffer = c /\ Pops(g)
        BY <3>2
      <4>. QED
        BY <4>1 DEF Owed, Settling, OwedInv
    <3>. QED
      BY <2>1, <3>1, <3>2 DEF Owed
  <2>2. ASSUME c \in Owed, ~(Pops(h) /\ c = settler[h].buffer) PROVE c \in Owed'
    BY <2>2 DEF Owed
  <2>. QED
    BY <2>1, <2>2
<1>3. OwedInv'
  <2>1. \A c \in Owed' : c \in Data /\ c \in Owed
    BY <1>2 DEF Owed
  <2>2. \A g \in Settlers : Pops(g)' => Pops(g) /\ settler'[g] = settler[g]
    OBVIOUS
  <2>. QED
    BY <1>1, <2>1, <2>2 DEF Settling, OwedInv
<1>4. IsFiniteSet(Owed) /\ Owed' \subseteq Owed
  BY <1>2 DEF Settling, CountInv, Owed
<1>5. IsFiniteSet(Owed') /\ Cardinality(Owed') <= Cardinality(Owed)
  BY <1>4, FS_Subset
<1>6. ASSUME Pops(h)
      PROVE  /\ Cardinality(Owed') = Cardinality(Owed) - 1
             /\ Cardinality(Owed) \in Nat \ {0}
  <2>1. settler[h] \in Parts
    BY <1>6 DEF Pops, SendType
  <2>2. PICK x \in Owed : x = settler[h].buffer
    BY <1>6, <2>1 DEF Owed, Parts
  <2>3. Owed \subseteq Data /\ Owed' \subseteq Data
    BY DEF Owed
  <2>4. Owed' = Owed \ {x}
    BY <1>2, <1>6, <2>2, <2>3
  <2>5. Cardinality(Owed \ {x}) = Cardinality(Owed) - 1 /\ Cardinality(Owed) \in Nat
    BY <1>4, <2>2, FS_RemoveElement, FS_CardinalityType
  <2>6. Cardinality(Owed \ {x}) \in Nat
    BY <1>4, FS_RemoveElement, FS_CardinalityType, FS_Subset
  <2>. QED
    BY <2>4, <2>5, <2>6
<1>. QED
  BY <1>1, <1>3, <1>5, <1>6

LEMMA NothingQueuedStep ==
  ASSUME SendType, Settling, NEW h \in Settlers, NothingQueued(h)
  PROVE  Settling'
<1>1. /\ UNCHANGED <<memory, sendQueue, writer, flight, wire, settled>>
      /\ Waits' = Waits /\ Bytes(h) > 0
      /\ settler' = [settler EXCEPT ![h] = NoPart]
      /\ sendState'.popped = sendState.popped \ {h}
  BY DEF NothingQueued, Return, memories, Waits, SendType
<1>2. /\ settler'[h] = NoPart /\ \A g \in Settlers \ {h} : settler'[g] = settler[g]
      /\ sendState.popped \subseteq Settlers
  BY <1>1 DEF SendType
<1>3. /\ ~Pops(h)' /\ \A g \in Settlers \ {h} : Pops(g)' = Pops(g)
      /\ \A g \in sendState'.popped : settler'[g] # NoPart
  BY <1>1, <1>2 DEF Pops, Settling, OwedInv
<1>4. /\ OwedInv' /\ \A c : Went(c)' = Went(c)
      /\ IsFiniteSet(Owed') /\ Cardinality(Owed') <= Cardinality(Owed)
  BY <1>1, <1>2, <1>3, Settles
<1>5. \A c, d : Posted(c)' = Posted(c) /\ Held(c)' = Held(c) /\ Ahead(c, d)' = Ahead(c, d)
  BY <1>1 DEF Posted, Held, Ahead
<1>6. \A c, d : Sooner(c, d)' = Sooner(c, d)
  BY <1>4, <1>5 DEF Sooner
<1>7. QueuedInv' /\ OrderInv' /\ RestInv'
  BY <1>1, <1>4, <1>5, <1>6 DEF Settling, QueuedInv, OrderInv, RestInv
<1>8. Ready' = Ready
  BY <1>1, <1>4 DEF Ready
<1>9. CountInv'
  <2>1. /\ IsFiniteSet(Owed) /\ IsFiniteSet(Ready)
        /\ Cardinality(Owed) <= Cardinality(Ready)
    BY DEF Settling, CountInv
  <2>2. /\ Cardinality(Owed) \in Nat /\ Cardinality(Owed') \in Nat
        /\ Cardinality(Ready) \in Nat
    BY <1>4, <2>1, FS_CardinalityType
  <2>. QED
    BY <1>4, <1>8, <2>1, <2>2 DEF CountInv
<1>. QED
  BY <1>4, <1>7, <1>9 DEF Settling

(* What a worker takes first for a completion was sent.                     *)
LEMMA FrontWasSent ==
  ASSUME SendType, Settling, NEW h \in Settlers, PopSent(h), Pops(h),
         Cardinality(Owed) \in Nat \ {0}
  PROVE  /\ ~Posted(Front) /\ ~Held(Front)
         /\ IsFiniteSet(Ready) /\ Cardinality(Ready) \in Nat \ {0}
         /\ Cardinality(Owed) <= Cardinality(Ready)
<1>1. /\ IsFiniteSet(Ready) /\ Cardinality(Owed) <= Cardinality(Ready)
      /\ Cardinality(Ready) \in Nat
  BY FS_CardinalityType DEF Settling, CountInv
<1>2. Ready # {}
  BY <1>1, FS_EmptySet
<1>3. PICK y \in Data, k \in 1 .. Len(Waits) : Went(y) /\ Waits[k] = y
  BY <1>2 DEF Ready
<1>4. 1 \in 1 .. Len(Waits) /\ Front = Waits[1]
  BY <1>3, Popping
<1>5. ~Sooner(Waits[k], Waits[1])
  BY <1>3, <1>4 DEF Settling, OrderInv
<1>6. ~Posted(Front) /\ ~Held(Front)
  BY <1>3, <1>4, <1>5 DEF Sooner
<1>. QED
  BY <1>1, <1>2, <1>6, FS_EmptySet

(* A worker takes the first WSASendData for its completion, and frees it or *)
(* hands its rest to the system.                                            *)
LEMMA PopSentStep ==
  ASSUME SendType, Settling, NEW h \in Settlers, PopSent(h), h \notin sendState.popped,
         SendTail(h) \/ FreeSent(h)
  PROVE  Settling'
<1>1. /\ UNCHANGED <<writer, wire, settled>> /\ Bytes(h) > 0 /\ Pops(h)
      /\ sendState.popped \subseteq Settlers
  BY DEF SendTail, FreeSent, PopSent, Pops, Bytes, NoPart, Part, SendType
<1>2. /\ \A g \in Settlers \ {h} : settler'[g] = settler[g] /\ Pops(g)' = Pops(g)
      /\ ~Pops(h)'
      /\ \A g \in sendState'.popped : settler'[g] # NoPart
  <2>1. CASE SendTail(h)
    <3>1. /\ settler' = [settler EXCEPT ![h] = NoPart]
          /\ sendState'.popped = sendState.popped \ {h}
      BY <2>1 DEF SendTail, Return, SendType
    <3>2. settler'[h] = NoPart /\ \A g \in Settlers \ {h} : settler'[g] = settler[g]
      BY <3>1 DEF SendType
    <3>. QED
      BY <1>1, <3>1, <3>2 DEF Pops, Settling, OwedInv
  <2>2. CASE FreeSent(h)
    <3>1. settler' = settler /\ sendState'.popped = sendState.popped \cup {h}
      BY <2>2 DEF FreeSent, SendType
    <3>. QED
      BY <1>1, <3>1 DEF Pops, Settling, OwedInv
  <2>. QED
    BY <2>1, <2>2
<1>3. /\ OwedInv' /\ \A c : Went(c)' = Went(c)
      /\ IsFiniteSet(Owed') /\ Cardinality(Owed') = Cardinality(Owed) - 1
      /\ Cardinality(Owed) \in Nat \ {0}
  BY <1>1, <1>2, Settles
<1>4. /\ ~Posted(Front) /\ ~Held(Front)
      /\ IsFiniteSet(Ready) /\ Cardinality(Ready) \in Nat \ {0}
      /\ Cardinality(Owed) <= Cardinality(Ready)
  BY <1>1, <1>3, FrontWasSent
<1>a. PICK n, f : n = Len(Waits) /\ f = Front
  OBVIOUS
<1>5. /\ n \in Nat \ {0} /\ Len(Waits') = n - 1 /\ f = Waits[1] /\ f \in Data
      /\ \A k \in 1 .. n - 1 : Waits'[k] = Waits[k + 1] /\ k + 1 \in 1 .. n
      /\ \A k \in 1 .. n : Waits[k] \in Data
  <2>1. /\ Waits' = Tail(Waits) /\ Waits \in Seq(Data) /\ Waits # << >>
        /\ Front = Waits[1] /\ Front \in Data
    BY Popping
  <2>2. /\ Len(Waits) \in Nat \ {0} /\ Len(Waits') = Len(Waits) - 1
        /\ \A k \in 1 .. Len(Waits) - 1 : Waits'[k] = Waits[k + 1]
    BY <2>1, Shortened
  <2>. QED
    BY <1>a, <2>1, <2>2
<1>6. \A j, k \in 1 .. n : Waits[j] = Waits[k] => j = k
  BY <1>a DEF Settling, QueuedInv
<1>7. ASSUME NEW c
      PROVE  (\E k \in 1 .. n - 1 : Waits'[k] = c) <=> c # f /\ \E k \in 1 .. n : Waits[k] = c
  <2>1. ASSUME NEW k \in 1 .. n - 1, Waits'[k] = c
        PROVE  c # f /\ \E j \in 1 .. n : Waits[j] = c
    <3>1. k + 1 \in 1 .. n /\ Waits[k + 1] = c /\ 1 \in 1 .. n /\ k + 1 # 1
      BY <1>5, <2>1
    <3>. QED
      BY <1>5, <1>6, <3>1
  <2>2. ASSUME c # f, NEW k \in 1 .. n, Waits[k] = c
        PROVE  \E j \in 1 .. n - 1 : Waits'[j] = c
    <3>1. k # 1
      BY <1>5, <2>2
    <3>2. k - 1 \in 1 .. n - 1 /\ Waits'[k - 1] = Waits[k]
      BY <1>5, <3>1
    <3>. QED
      BY <2>2, <3>2
  <2>. QED
    BY <2>1, <2>2
<1>8. /\ \A c \in Data \ {f} : memory'[c] = memory[c]
      /\ \A c \in Data : memory'[c] = "unused" => memory[c] = "unused"
  BY <1>a DEF SendTail, FreeSent, Free, SendType
<1>9. QueuedInv'
  <2>1. ASSUME NEW j \in 1 .. n - 1, NEW k \in 1 .. n - 1, Waits'[j] = Waits'[k]
        PROVE  j = k
    <3>1. j + 1 = k + 1
      BY <1>5, <1>6, <2>1
    <3>. QED
      BY <3>1
  <2>2. ASSUME NEW k \in 1 .. n - 1 PROVE memory'[Waits'[k]] = "live"
    <3>1. /\ k + 1 \in 1 .. n /\ Waits'[k] = Waits[k + 1] /\ Waits[k + 1] \in Data
          /\ Waits[k + 1] # f
      BY <1>5, <1>7
    <3>2. memory[Waits[k + 1]] = "live"
      BY <1>a, <3>1 DEF Settling, QueuedInv
    <3>. QED
      BY <1>8, <3>1, <3>2
  <2>. QED
    BY <1>3, <1>5, <1>8, <2>1, <2>2 DEF Settling, QueuedInv
<1>10. \A c : Held(c)' = Held(c)
  BY <1>1 DEF Held
<1>11. /\ \A c, d : Posted(c)' = Posted(c) /\ Ahead(c, d)' = Ahead(c, d)
       /\ RestInv'
  <2>1. \A i \in 1 .. Len(flight) : flight[i].tail =>
          /\ memory'[flight[i].buffer] = "live"
          /\ \A k \in 1 .. n - 1 : Waits'[k] # flight[i].buffer
    <3>1. ASSUME NEW i \in 1 .. Len(flight), flight[i].tail
          PROVE  /\ memory'[flight[i].buffer] = "live"
                 /\ \A k \in 1 .. n - 1 : Waits'[k] # flight[i].buffer
      <4>1. /\ memory[flight[i].buffer] = "live" /\ flight[i].buffer \in Data
            /\ \A k \in 1 .. n : Waits[k] # flight[i].buffer
        BY <1>a, <3>1, FlightParts DEF Settling, RestInv
      <4>2. flight[i].buffer # f
        BY <1>5, <4>1
      <4>. QED
        BY <1>5, <1>8, <4>1, <4>2
    <3>. QED
      BY <3>1
  <2>2. CASE FreeSent(h)
    <3>1. flight' = flight
      BY <2>2 DEF FreeSent
    <3>. QED
      BY <1>5, <2>1, <3>1 DEF Posted, Ahead, RestInv
  <2>3. CASE SendTail(h)
    <3>1. PICK m, p : /\ m = Len(flight) /\ p = TailOf(h)
      OBVIOUS
    <3>2. p \in Parts /\ p.buffer = f /\ p.tail
      <4>1. settler[h] \in Parts
        BY <1>1 DEF Pops, SendType
      <4>2. Bytes(h) \in Nat
        BY <1>1, <4>1 DEF Bytes, Parts
      <4>. QED
        BY <1>a, <1>5, <3>1, <4>2, LengthAssumption DEF TailOf, Part, Parts
    <3>3. flight \in Seq(Parts) /\ flight' = Append(flight, p) /\ memory' = memory
      BY <2>3, <3>1 DEF SendTail, SendType
    <3>4. /\ Len(flight) \in Nat /\ Len(flight') = Len(flight) + 1
          /\ \A i \in 1 .. Len(flight) : flight'[i] = flight[i]
          /\ flight'[Len(flight) + 1] = p
      BY <3>2, <3>3, Appended
    <3>5. /\ m \in Nat /\ Len(flight') = m + 1 /\ Len(flight) = m
          /\ \A i \in 1 .. m : flight'[i] = flight[i]
          /\ flight'[m + 1] = p
      BY <3>1, <3>4
    <3>6. \A i \in 1 .. m + 1 : ~flight'[i].tail => i \in 1 .. m
      BY <3>2, <3>5
    <3>7. \A i \in 1 .. m : i \in 1 .. m + 1
      BY <3>5
    <3>8. \A c, d : Posted(c)' = Posted(c) /\ Ahead(c, d)' = Ahead(c, d)
      BY <3>5, <3>6, <3>7 DEF Posted, Ahead
    <3>9. memory'[f] = "live" /\ \A k \in 1 .. n - 1 : Waits'[k] # f
      <4>1. 1 \in 1 .. n
        BY <1>5
      <4>. QED
        BY <1>a, <1>5, <1>7, <3>3, <4>1 DEF Settling, QueuedInv
    <3>10. ASSUME NEW i \in 1 .. m + 1, flight'[i].tail
           PROVE  /\ memory'[flight'[i].buffer] = "live"
                  /\ \A k \in 1 .. n - 1 : Waits'[k] # flight'[i].buffer
      <4>1. CASE i \in 1 .. m
        BY <2>1, <3>5, <3>10, <4>1
      <4>2. CASE i = m + 1
        BY <3>2, <3>5, <3>9, <4>2
      <4>. QED
        BY <3>5, <4>1, <4>2
    <3>. QED
      BY <1>5, <3>5, <3>8, <3>10 DEF RestInv
  <2>. QED
    BY <2>2, <2>3
<1>12. \A c, d : Sooner(c, d)' = Sooner(c, d)
  BY <1>3, <1>10, <1>11 DEF Sooner
<1>13. OrderInv'
  <2>1. ASSUME NEW c \in Data, Posted(c)' \/ Held(c)'
        PROVE  \E k \in 1 .. n - 1 : Waits'[k] = c
    <3>1. Posted(c) \/ Held(c)
      BY <1>10, <1>11, <2>1
    <3>2. c # f /\ \E k \in 1 .. n : Waits[k] = c
      BY <1>a, <1>4, <3>1 DEF Settling, OrderInv
    <3>. QED
      BY <1>7, <3>2
  <2>2. ASSUME NEW j \in 1 .. n - 1, NEW k \in 1 .. n - 1, Sooner(Waits[j], Waits[k])'
        PROVE  j < k
    <3>1. /\ j + 1 \in 1 .. n /\ Waits'[j] = Waits[j + 1]
          /\ k + 1 \in 1 .. n /\ Waits'[k] = Waits[k + 1]
      BY <1>5
    <3>2. Sooner(Waits[j + 1], Waits[k + 1])
      BY <1>3, <1>10, <1>11, <2>2, <3>1 DEF Sooner
    <3>3. j + 1 < k + 1
      BY <1>a, <3>1, <3>2 DEF Settling, OrderInv
    <3>. QED
      BY <3>3
  <2>. QED
    BY <1>1, <1>5, <2>1, <2>2 DEF Settling, OrderInv
<1>14. CountInv'
  <2>1. Ready' = Ready \ {f}
    <3>1. ASSUME NEW c \in Data PROVE c \in Ready' <=> c \in Ready /\ c # f
      BY <1>a, <1>3, <1>5, <1>7 DEF Ready
    <3>2. Ready \subseteq Data /\ Ready' \subseteq Data
      BY DEF Ready
    <3>. QED
      BY <3>1, <3>2
  <2>2. CASE f \in Ready
    <3>1. /\ IsFiniteSet(Ready \ {f})
          /\ Cardinality(Ready \ {f}) = Cardinality(Ready) - 1
      BY <1>4, <2>2, FS_RemoveElement
    <3>. QED
      BY <1>3, <1>4, <2>1, <3>1 DEF CountInv
  <2>3. CASE f \notin Ready
    <3>1. Ready' = Ready
      BY <2>1, <2>3
    <3>. QED
      BY <1>3, <1>4, <3>1 DEF CountInv
  <2>. QED
    BY <2>2, <2>3
<1>. QED
  BY <1>3, <1>9, <1>11, <1>13, <1>14 DEF Settling

LEMMA SendStepInv ==
  ASSUME SendInv, [SendNext]_sendVars
  PROVE  SendInv'
<1>1. CASE UNCHANGED sendVars
  <2>1. UNCHANGED <<memory, sendQueue, writer, flight, wire, settled, settler, sendState>>
    BY <1>1 DEF sendVars, memories
  <2>2. SendType'
    BY <2>1 DEF SendInv, SendType
  <2>3. /\ Waits' = Waits /\ Owed' = Owed /\ Ready' = Ready
        /\ \A c, d : /\ Went(c)' = Went(c) /\ Posted(c)' = Posted(c)
                     /\ Held(c)' = Held(c) /\ Sooner(c, d)' = Sooner(c, d)
        /\ \A h : Pops(h)' = Pops(h)
    BY <2>1 DEF Waits, Owed, Ready, Went, Posted, Held, Ahead, Sooner, Pops
  <2>4. Settling => Settling'
    BY <2>1, <2>3 DEF Settling, QueuedInv, OrderInv, RestInv, OwedInv, CountInv
  <2>. QED
    BY <2>1, <2>2, <2>4 DEF SendInv, SettlingInv
<1>2. CASE SendNext
  <2>1. SendType /\ SendType'
    BY <1>2, SendTypeStep DEF SendInv
  <2>. SUFFICES ASSUME ~sendState'.swept, ~sendState'.crossed PROVE Settling'
    BY <2>1 DEF SendInv, SettlingInv
  <2>2. ASSUME ~sendState.swept, ~sendState.crossed PROVE Settling
    BY <2>2 DEF SendInv, SettlingInv
  <2>3. ASSUME NEW w \in Writers, NEW b \in Data, QueueData(w, b) PROVE Settling'
    <3>1. ~sendState.swept /\ ~sendState.crossed
      BY <2>1, <2>3 DEF QueueData, SendType
    <3>. QED
      BY <2>1, <2>2, <2>3, <3>1, QueueDataStep
  <2>4. ASSUME NEW w \in Writers, NEW b \in Data, QueueFull(w, b) PROVE Settling'
    <3>1. /\ UNCHANGED <<sendQueue, writer, flight, wire, settled, settler, sendState>>
          /\ memory' = [memory EXCEPT ![b] = "live"]
      BY <2>4 DEF QueueFull
    <3>2. Settling
      BY <2>2, <3>1
    <3>3. \A c \in Data : /\ memory[c] = "live" => memory'[c] = "live"
                          /\ memory'[c] = "unused" => memory[c] = "unused"
      BY <2>1, <3>1 DEF SendType
    <3>4. /\ Waits' = Waits /\ Owed' = Owed /\ Ready' = Ready
          /\ \A c, d : /\ Went(c)' = Went(c) /\ Posted(c)' = Posted(c)
                       /\ Held(c)' = Held(c) /\ Sooner(c, d)' = Sooner(c, d)
          /\ \A h : Pops(h)' = Pops(h)
      BY <3>1 DEF Waits, Owed, Ready, Went, Posted, Held, Ahead, Sooner, Pops
    <3>5. \A k \in 1 .. Len(Waits) : Waits[k] \in Data
      BY <2>1, ContentsType DEF SendType, Waits
    <3>6. QueuedInv' /\ RestInv'
      BY <2>1, <3>1, <3>2, <3>3, <3>4, <3>5, FlightParts DEF Settling, QueuedInv, RestInv
    <3>7. OrderInv' /\ OwedInv' /\ CountInv'
      BY <3>1, <3>2, <3>4 DEF Settling, OrderInv, OwedInv, CountInv
    <3>. QED
      BY <3>6, <3>7 DEF Settling
  <2>5. ASSUME NEW w \in Writers, PostSend(w) PROVE Settling'
    <3>1. ~sendState.swept /\ ~sendState.crossed
      BY <2>1, <2>5 DEF PostSend, SendType
    <3>. QED
      BY <2>1, <2>2, <2>5, <3>1, PostSendStep
  <2>6. ASSUME CompleteSend PROVE Settling'
    <3>1. ~sendState.swept /\ ~sendState.crossed
      BY <2>1, <2>6 DEF CompleteSend, SendType
    <3>. QED
      BY <2>1, <2>2, <2>6, <3>1, CompleteSendStep
  <2>7. ASSUME NEW h \in Settlers, TakeCompletion(h) PROVE Settling'
    <3>1. ~sendState.swept /\ ~sendState.crossed
      BY <2>7 DEF TakeCompletion
    <3>. QED
      BY <2>1, <2>2, <2>7, <3>1, TakeCompletionStep
  <2>8. ASSUME NEW h \in Settlers, NothingQueued(h) PROVE Settling'
    <3>1. ~sendState.swept /\ ~sendState.crossed
      BY <2>1, <2>8 DEF NothingQueued, SendType
    <3>. QED
      BY <2>1, <2>2, <2>8, <3>1, NothingQueuedStep
  <2>9. ASSUME NEW h \in Settlers, SendTail(h) \/ FreeSent(h) PROVE Settling'
    <3>1. ~sendState.swept /\ ~sendState.crossed /\ h \notin sendState.popped
      BY <2>1, <2>9 DEF SendTail, FreeSent, SendType
    <3>2. PopSent(h)
      BY <2>9 DEF SendTail, FreeSent
    <3>. QED
      BY <2>1, <2>2, <2>9, <3>1, <3>2, PopSentStep
  <2>. QED
    BY <1>2, <2>3, <2>4, <2>5, <2>6, <2>7, <2>8, <2>9 DEF SendNext
<1>. QED
  BY <1>1, <1>2

(* The invariant of the send queue holds in every state                     *)
(* (TCPSocket.cpp:64-69, 80-85, 108-124).                                   *)
THEOREM SendInvariant == SendSpec => []SendInv
BY SendInitInv, SendStepInv, PTL DEF SendSpec

(* However many sends of a connection are on their way, whoever writes and  *)
(* whoever settles, a worker frees no WSASendData which the system or a     *)
(* writer still has to read, until a completion takes a second one or a     *)
(* writer overtakes another (TCPSocket.cpp:64-69, 80-85, 108-124).          *)
THEOREM SentBuffersAreLive == SendSpec => []BuffersLive
<1>1. SendInv => BuffersLive
  <2>. SUFFICES ASSUME SendType, Settling
                PROVE  /\ \A i \in DOMAIN flight : memory[flight[i].buffer] = "live"
                       /\ \A w \in Writers : writer[w] # Null => memory[writer[w]] = "live"
    BY DEF SendInv, SettlingInv, BuffersLive
  <2>1. ASSUME NEW b \in Data, Posted(b) \/ Held(b) PROVE memory[b] = "live"
    BY <2>1 DEF Settling, OrderInv, QueuedInv
  <2>2. ASSUME NEW i \in 1 .. Len(flight) PROVE memory[flight[i].buffer] = "live"
    <3>1. CASE flight[i].tail
      BY <3>1 DEF Settling, RestInv
    <3>2. CASE ~flight[i].tail
      <4>1. flight[i].buffer \in Data /\ Posted(flight[i].buffer)
        BY <3>2, FlightParts DEF Posted
      <4>. QED
        BY <2>1, <4>1
    <3>. QED
      BY <3>1, <3>2
  <2>3. ASSUME NEW w \in Writers, writer[w] # Null PROVE memory[writer[w]] = "live"
    <3>1. writer[w] \in Data /\ Held(writer[w])
      BY <2>3 DEF SendType, Held
    <3>. QED
      BY <2>1, <3>1
  <2>4. DOMAIN flight = 1 .. Len(flight)
    BY DEF SendType
  <2>. QED
    BY <2>2, <2>3, <2>4
<1>. QED
  BY SendInvariant, <1>1, PTL
=============================================================================
